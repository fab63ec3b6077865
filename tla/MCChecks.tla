------------------------------ MODULE MCChecks ------------------------------
(***************************************************************************)
(* Small projects for Checks, one for each family of checks.  A reading is *)
(* what a source holds and what its adapter reports of it; most adapters   *)
(* report all of it.                                                       *)
(***************************************************************************)
EXTENDS Checks

MCViewOrder == <<"connectivity", "def", "header", "ipxact", "liberty",
                 "package", "rtl", "sdc", "sdc_test", "systemrdl", "upf">>
MCViewKind == [v \in Range(MCViewOrder) |->
                 IF v = "sdc_test" THEN "sdc" ELSE v]
MCAuthority == [topic \in {"ports", "registers"} |->
                  IF topic = "ports" THEN {"rtl"} ELSE {"systemrdl"}]

Whole(view) == [full |-> view, read |-> view]
Wholes(views) == {Whole(v) : v \in views}
Lossy(full, read) == [full |-> full, read |-> read]
Lost(full) == [full EXCEPT !.complete = FALSE]

-----------------------------------------------------------------------------
(* Ports: one port of a cell in three views *)

Dim(l, r) == BusShape(None, <<<<l, r>>>>, << >>, << >>)
Bits(list) == BusShape(None, << >>, << >>, list)
Scalar == BusShape(1, << >>, << >>, << >>)
Grid(a, b) == BusShape(None, <<<<a, 0>>, <<b, 0>>>>, << >>, << >>)

Shapes == {UnknownShape, Scalar, Dim(0, 0), Dim(1, 0), Dim(0, 1), Dim(2, 1),
           Bits(<<1, 0>>), Grid(1, 0)}
OddShapes == {Bits(<<2, 0>>), Bits(<<1, 1>>), Grid(0, 1),
              BusShape(2, << >>, <<<<0, 1>>>>, << >>),
              BusShape(1, << >>, <<<<0, 1>>>>, << >>)}

NoStates == [direction |-> None, role |-> None, shape |-> None]

Port(direction, role, shape) ==
    [status |-> "known", direction |-> direction, role |-> role,
     shape |-> shape, states |-> NoStates, orderKnown |-> TRUE]

WithPort(port) == [BlankView EXCEPT !.component = "cell",
                                    !.ports = [p \in {"p"} |-> port]]

Marked(port, field, value) ==
    [port EXCEPT ![field] = value, !.states[field] = "tainted"]

PortSources ==
    [liberty |->
       Wholes({WithPort(Port("input", "signal", s)) : s \in Shapes \cup OddShapes}
              \cup {WithPort(Port("output", "power", Scalar)),
                    WithPort([Port("input", "clock", Scalar) EXCEPT
                                !.status = "unknown"])}),
     def |->
       Wholes({WithPort([Port(None, None, s) EXCEPT !.orderKnown = FALSE]) :
                 s \in {UnknownShape, Bits(<<0, 1>>)}}),
     rtl |->
       Wholes({WithPort(Port("input", r, s)) : s \in Shapes,
                                               r \in {None, "signal"}}
              \cup {WithPort(Port("input", r, Scalar)) :
                      r \in {"clock", "ground"}})
       \cup {Lossy(WithPort(Port("input", "signal", s)),
                   WithPort(Marked(Port("input", "signal", s), "shape", t))) :
               s, t \in {Dim(1, 0), Scalar}}
       \cup {Lossy(WithPort(Port("input", "signal", Scalar)),
                   WithPort(Marked(Port("input", "signal", Scalar), f, None))) :
               f \in {"direction", "role"}}]

-----------------------------------------------------------------------------
(* Functions: the output of a cell in two views, both written as tokens *)

Expressions ==
    {<<"A", "&", "B">>, <<"A", "B">>, <<"!", "(", "A", "'", "|", "B", "'", ")">>,
     <<"A", "B", "'">>, <<"A", "^", "B", "|", "A", "B">>, <<"A", "|", "B">>,
     <<"A", "(", "B">>, <<"A", "|", "B", "^", "A">>, <<"A", "|", "!", "A", "B">>,
     <<"1">>, <<"C">>, <<"A", "B", "C">>, <<"A", "'", "'">>}

FunctionView(e) ==
    [BlankView EXCEPT
       !.component = "cell",
       !.ports = [p \in {"A", "B"} |-> Port("input", None, Scalar)],
       !.functions = IF e = << >> THEN << >> ELSE [y \in {"Y"} |-> e]]

FunctionSources ==
    [liberty |-> Wholes({FunctionView(e) : e \in Expressions \cup {<< >>}}),
     rtl |-> Wholes({FunctionView(e) : e \in Expressions})]

-----------------------------------------------------------------------------
(* Registers: one register name, in one or two blocks of the map *)

Field(name, offset, width) ==
    [name |-> name, offset |-> offset, width |-> width, access |-> "rw",
     reset |-> None, known |-> TRUE]

Register(name, block, offset, fields) ==
    [name |-> name, component |-> "chip", map |-> None, block |-> block,
     files |-> << >>, offset |-> offset, address |-> None, size |-> 4,
     access |-> "rw", fields |-> fields, known |-> TRUE]

MCRegisterKey == [n \in {"CTRL", "ctrl", "CTRL_reg"} |-> "ctrl"]
MCFieldKey == [n \in {"EN", "en", "LVL", "ALL"} |->
                 IF n = "EN" THEN "en" ELSE n]
MCAccessKey == [a \in {"rw", "read-write", "ro"} |->
                  IF a = "ro" THEN "ro" ELSE "rw"]
MCNameRank == [n \in DOMAIN MCRegisterKey \cup DOMAIN MCFieldKey |->
                 CASE n = "ALL" -> 1 [] n = "CTRL" -> 2 [] n = "CTRL_reg" -> 3
                   [] n = "EN" -> 4 [] n = "LVL" -> 5 [] n = "ctrl" -> 6
                   [] OTHER -> 7]

Map(registers) == [BlankView EXCEPT !.declares = {"chip"},
                                    !.registers = registers]

EN == Field("EN", 0, 1)
LVL == Field("LVL", 2, 2)

InA(fields) == Register("CTRL", <<"a">>, 0, fields)
InB(fields) == Register("CTRL_reg", <<"b">>, 4, fields)

(* ALL holds EN and reaches over LVL. *)
FieldLists ==
    {<<EN, LVL>>, <<LVL>>, <<LVL, [EN EXCEPT !.name = "en"]>>,
     <<EN, [LVL EXCEPT !.width = 3]>>, <<EN, [LVL EXCEPT !.known = FALSE]>>,
     <<EN, [LVL EXCEPT !.access = "ro"]>>, <<EN, [LVL EXCEPT !.reset = 1], EN>>,
     <<Field("ALL", 0, 4), EN, LVL>>, <<EN, Field("ALL", 0, 2)>>}

MapsOf(fieldLists) ==
    {Map(<<InA(f)>>) : f \in fieldLists}
    \cup {Map(<<InA(f), InB(<<EN>>)>>) : f \in {<<EN, LVL>>, <<EN>>}}
    \cup {Map(<< >>), Map(<<InB(<<EN, LVL>>)>>),
          Map(<<InA(<<EN, LVL>>), InA(<<EN, LVL>>)>>),
          Map(<<[InA(<<EN, LVL>>) EXCEPT !.known = FALSE]>>),
          Map(<<[InA(<<EN, LVL>>) EXCEPT !.access = "ro"]>>),
          Map(<<[InA(<<EN, LVL>>) EXCEPT !.size = 8, !.map = "other",
                                         !.block = << >>]>>)}

(* A header repeats the names with other spellings and no blocks. *)
HeaderOf(fields) ==
    Map(<<[Register("ctrl", <<"p">>, None, fields) EXCEPT
             !.size = None, !.access = None]>>)

RegisterSources ==
    [header |-> Wholes({HeaderOf(f) : f \in {<<EN, LVL>>, <<EN>>}}
                       \cup {BlankView}),
     ipxact |-> Wholes(MapsOf({<<EN, LVL>>, <<LVL>>,
                               <<EN, Field("ALL", 0, 2)>>})),
     systemrdl |->
       Wholes(MapsOf(FieldLists))
       \cup {Lossy(Map(<<InA(f), InB(<<EN>>)>>), Lost(Map(<<InA(f)>>))) :
               f \in {<<EN, LVL>>, <<EN>>}}
       \cup {Lossy(Map(<<InA(<<EN, LVL>>)>>), Lost(Map(<<InA(<<LVL>>)>>)))}]

-----------------------------------------------------------------------------
(* Connectivity: two source bits, two sink bits and one between them *)

A(i) == <<"a", i>>
Y(i) == <<"y", i>>
M == <<"m", 0>>

MCEndpoints == <<A(0), A(1), M, Y(0), Y(1)>>
MCNodeRank == [n \in Range(MCEndpoints) |-> CHOOSE i \in DOMAIN MCEndpoints :
                                              MCEndpoints[i] = n]
MCSignalGlobs == [g \in {"*", "y*"} |->
                    IF g = "*" THEN {"a", "m", "y"} ELSE {"y"}]

Edge(from, to, parity) ==
    [from |-> from, to |-> to, parity |-> parity, state |-> "known"]

Wires == {Edge(A(0), Y(0), FALSE), Edge(A(0), Y(1), FALSE),
          Edge(A(1), Y(1), FALSE), Edge(A(1), M, TRUE), Edge(M, Y(1), TRUE)}
Loop == Edge(M, M, FALSE)

(* The loop matters where the sources reach it. *)
Layouts == SUBSET Wires \cup {e \cup {Loop} : e \in {f \in SUBSET Wires :
                                                       Edge(A(1), M, TRUE) \in f}}

Netlist(edges, complete) ==
    [BlankView EXCEPT
       !.endpoints = MCEndpoints,
       !.graph = [edges |-> edges, complete |-> complete,
                  nodes |-> Range(MCEndpoints)]]

InDoubt(edge) == [edge EXCEPT !.state = "tainted", !.parity = None]

(* An edge that is lost, or seen but not understood. *)
NetlistReadings(edges) ==
    {Whole(Netlist(edges, TRUE))}
    \cup {Lossy(Netlist(edges, TRUE), Netlist(edges \ {e}, FALSE)) : e \in edges}
    \cup {Lossy(Netlist(edges, TRUE),
                Netlist((edges \ {e}) \cup {InDoubt(e)}, TRUE)) : e \in edges}

Sel(base) == [base |-> base, bits |-> None]
At(base, bits) == [base |-> base, bits |-> bits]

Row(source, sink, expect, transform) ==
    [id |-> transform, source |-> source, sink |-> sink, expect |-> expect,
     transform |-> transform, through |-> << >>, exclude |-> << >>,
     valid |-> TRUE, known |-> TRUE]

Buses(transform) == Row(Sel("a"), Sel("y"), "reachable", transform)
A1 == At("a", <<1>>)
Y1 == At("y", <<1>>)
Y0 == At("y", <<0>>)
Apart == Row(A1, Y1, "unreachable", "any")

RowLists ==
    {<<Buses(t)>> : t \in {"identity", "reverse"}}
    \cup {<<Row(A1, Y1, "reachable", t)>> : t \in {"any", "inverted"}}
    \cup {<<[Row(A1, Y1, "reachable", "identity") EXCEPT
               !.through = <<Sel("m")>>]>>,
          <<[Apart EXCEPT !.exclude = <<Sel("m")>>]>>,
          <<[Apart EXCEPT !.through = <<Sel("m"), Y1>>]>>,
          <<[Row(Sel("a"), Sel("y*"), "unreachable", "any") EXCEPT
               !.exclude = <<Sel("m")>>]>>,
          <<Apart, Row(A1, Y1, "reachable", "any")>>}

OddRows ==
    {<<Row(Sel("*"), Sel("q"), "reachable", "any")>>,
     <<Row(Sel("a"), At("y", <<0, 4>>), "reachable", "any")>>,
     <<Row(Sel("a"), Y1, "reachable", "any")>>,
     <<Row(Sel("a"), At("y", <<1, 0>>), "reachable", "any")>>,
     <<[Apart EXCEPT !.valid = FALSE], [Apart EXCEPT !.through = <<Sel("q")>>]>>,
     <<[Apart EXCEPT !.exclude = <<Y0, Sel("*")>>]>>,
     <<Row(Sel("a"), Sel("a"), "reachable", "identity")>>}

WithRows(rows) == [BlankView EXCEPT !.rows = rows]

ConnectivitySources ==
    [connectivity |-> Wholes({WithRows(r) : r \in RowLists}),
     rtl |-> UNION {NetlistReadings(e) : e \in Layouts}]

OddConnectivity ==
    [connectivity |-> Wholes({WithRows(r) : r \in OddRows}),
     rtl |-> UNION {NetlistReadings(e) : e \in {{}, Wires \cup {Loop}}}]

-----------------------------------------------------------------------------
(* References: pins and instances of a small hierarchy *)

MCSelects == [s \in {"u*", "*_clk", "(.)\\1"} |->
                IF s = "u*" THEN {<<"u1">>, <<"u1", "Q">>}
                ELSE {<<"p_clk">>, <<"top", "p_clk">>}]
MCUnsafePattern == {"(.)\\1"}

Object(relation, kind, scope, name) ==
    [kind |-> kind, name |-> name, relation |-> relation, scope |-> scope,
     known |-> TRUE, mode |-> "exact", topPin |-> FALSE, update |-> FALSE]

Defines(kind, scope, name) == Object("definition", kind, scope, name)
Refers(kind, scope, name) == Object("reference", kind, scope, name)
Glob(ref) == [ref EXCEPT !.mode = "glob"]
Regexp(ref) == [ref EXCEPT !.mode = "regexp"]

WithObjects(objects) == [BlankView EXCEPT !.objects = objects]

Top(objects) == [WithObjects(objects) EXCEPT
                   !.component = "top",
                   !.ports = [p \in {"p_clk"} |-> Port("input", None, Scalar)]]

U1 == Defines("instance", <<"top">>, <<"u1">>)
U1Q == Defines("pin", <<"top">>, <<"u1", "Q">>)

SdcReferences ==
    {Refers("pin", << >>, <<"u1", "Q">>), Refers("pin", << >>, <<"u2", "Q">>),
     Refers("cell", << >>, <<"u1">>), Refers("port", << >>, <<"p_clk">>),
     Refers("clock", << >>, <<"p_clk">>),
     Glob(Refers("instance", << >>, <<"u*">>)),
     Glob(Refers("port", << >>, <<"u*">>)),
     Regexp(Refers("port", <<"top">>, <<"*_clk">>)),
     Regexp(Refers("pin", << >>, <<"(.)\\1">>))}

Domain == Defines("power_domain", << >>, <<"PD">>)
Again == [Domain EXCEPT !.update = TRUE]
UsesDomain == Refers("power_domain", << >>, <<"PD">>)

UpfObjects ==
    {<<Domain, UsesDomain>>, <<Domain, Again>>, <<Again, Domain>>,
     <<Domain, Domain>>, <<Refers("instance", <<"u1">>, <<"u9">>)>>,
     <<Refers("instance", <<"top">>, <<"u1">>)>>}

ReferenceSources ==
    [def |-> Wholes({WithObjects(<<r>>) :
                       r \in {[Refers("pin", << >>, <<"p_clk">>) EXCEPT
                                !.topPin = TRUE],
                              Refers("pin", << >>, <<"u1", "Z">>)}}),
     rtl |-> Wholes({Top(<<U1, U1Q>>), Top(<<U1>>)}),
     sdc |-> Wholes({WithObjects(<<r>>) : r \in SdcReferences}),
     upf |-> Wholes({WithObjects(o) : o \in UpfObjects})
             \cup {Lossy(WithObjects(<<Domain, UsesDomain>>),
                         [WithObjects(<<UsesDomain>>) EXCEPT
                            !.complete = FALSE, !.tainted = t]) :
                     t \in {{<<"PD">>}, {Everything}}}]

-----------------------------------------------------------------------------
(* Clocks of two constraint files, and an interface on the same ports *)

Clock(name, targets, period) ==
    [name |-> name, targets |-> targets, period |-> period, waveform |-> None,
     source |-> None, generated |-> FALSE, known |-> TRUE]

Clocks ==
    {Clock("c", {t}, period) : t \in {<<"p_clk">>, <<"*_clk">>, <<"d">>},
                               period \in {None, 10, 20}}
    \cup {[Clock("c", {<<"p_clk">>}, 10) EXCEPT !.known = FALSE]}

WithClock(c) == [BlankView EXCEPT !.clocks = <<c>>]

ClockedTop(role) ==
    [Top(<< >>) EXCEPT
       !.ports = [p \in {"p_clk", "d"} |->
                    Port("input", IF p = "d" THEN role ELSE "clock", Scalar)]]

Interface(maps, manyToOne) ==
    [BlankView EXCEPT
       !.component = "top",
       !.interfaces = {[name |-> "bus", component |-> None, known |-> TRUE,
                        manyToOne |-> manyToOne,
                        maps |-> [l \in DOMAIN maps |-> [port |-> maps[l]]]]}]

Logical(clk, data) == [l \in {"CLK", "DATA"} |-> IF l = "CLK" THEN clk ELSE data]

ClockSources ==
    [ipxact |-> Wholes({Interface(Logical("p_clk", d), m) :
                          d \in {"d", "p_clk", "x"}, m \in BOOLEAN}),
     rtl |-> Wholes({ClockedTop(r) : r \in {None, "clock", "signal"}}),
     sdc |-> Wholes({WithClock(c) : c \in Clocks}),
     sdc_test |-> Wholes({WithClock(c) : c \in Clocks})]

-----------------------------------------------------------------------------
(* A package of two balls, and the pads a layout places *)

Pin(ball, pad, signal) ==
    [ball |-> ball, pad |-> pad, signal |-> signal, component |-> "top",
     physical |-> FALSE, known |-> TRUE]

Placed2 == [Pin(None, "P1", "d") EXCEPT !.physical = TRUE]

WithPins(pins) == [BlankView EXCEPT !.mappings = pins]

Pins == {Pin("A1", "P1", "d"), Pin("A1", "P1", "p_clk"), Pin("A1", "P9", "NC"),
         Pin("A2", "P1", "d"), Pin("A2", None, "x"), Pin(None, "P1", "d")}

PackageSources ==
    [def |-> Wholes({WithPins(<<Placed2>>), BlankView})
             \cup {Lossy(WithPins(<<Placed2>>),
                         WithPins(<<[Placed2 EXCEPT !.signal = "p_clk",
                                                    !.known = FALSE]>>))},
     package |-> Wholes({WithPins(<<a, b>>) : a, b \in Pins}
                        \cup {WithPins(<<a>>) : a \in Pins}),
     rtl |-> Wholes({ClockedTop(None)})]

-----------------------------------------------------------------------------
(* Plugins *)

Checker(name, provider, does, findings) ==
    [name |-> name, provider |-> provider, does |-> does,
     findings |-> {Finding("PLUGIN", f) : f \in findings}]

MCEntryPoints ==
    <<[loads |-> TRUE, checker |-> Checker("style", "lint", "returns", {1})],
      [loads |-> FALSE, checker |-> Checker("broken", "lint", "raises", {})],
      [loads |-> TRUE, checker |-> Checker("style", "sta", "returns", {2})],
      [loads |-> TRUE, checker |-> Checker("timing", "sta", "raises", {3})]>>

MCCheckers == {Checker("style", None, "none", {}),
               Checker("own", None, "returns", {4}),
               Checker("own", None, "raises", {5})}

PluginSources == [rtl |-> {Whole(BlankView)}]

-----------------------------------------------------------------------------
(* The projects *)

MCSources ==
    [port |-> PortSources,
     function |-> FunctionSources,
     register |-> RegisterSources,
     reference |-> ReferenceSources,
     clock |-> ClockSources,
     package |-> PackageSources,
     connectivity |-> ConnectivitySources,
     odd_connectivity |-> OddConnectivity,
     plugins |-> PluginSources]

MCMaxEdits == [p \in DOMAIN MCSources |->
                 IF p \in {"port", "register", "plugins"} THEN 1 ELSE 0]
MCMaxHosting == [p \in DOMAIN MCSources |-> IF p = "plugins" THEN 3 ELSE 0]

=============================================================================
