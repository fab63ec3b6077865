------------------------------ MODULE ReadCdl ------------------------------
(***************************************************************************)
(* The CDL and SPICE adapter (parsers/cdl.py): the logical lines of the    *)
(* files are read into subcircuits, each with its pins, instances, nets,   *)
(* references and parameters, and into what stands outside of them.  A     *)
(* fault taints the open subcircuit, or "*" when none is open.  Names that *)
(* differ in case only are one name.                                       *)
(***************************************************************************)
EXTENDS Reading, TLC

CONSTANTS
    CdlFiles,    \* the netlists written: sequences of lines, a "file" line
                 \* between two files
    CdlCaps,     \* [name in another case -> the name]
    CdlMaxNets   \* _MAX_OBJECTS

NewPort(n) == [name |-> n, direction |-> None, role |-> None,
               directionKnown |-> FALSE, roleKnown |-> FALSE, known |-> TRUE]

NewCircuit(n) ==
    [name |-> n,           \* None outside every subcircuit
     ports |-> << >>, instances |-> << >>, references |-> {},
     nets |-> << >>,       \* [net -> known]
     params |-> << >>,     \* [parameter -> value]
     tainted |-> FALSE]

CdlStart ==
    [circuits |-> << >>,          \* the subcircuits of the file
     top |-> NewCircuit(None),
     open |-> 0,                  \* the subcircuit open, 0 for none
     title |-> FALSE, ended |-> FALSE, halted |-> FALSE,
     globals |-> {}, models |-> << >>, nets |-> 0,
     names |-> << >>,             \* of all subcircuits, in every file so far
     facts |-> {},                \* of the files before
     tainted |-> {}]

(* _case_key *)
Key(n) == IF n \in DOMAIN CdlCaps THEN CdlCaps[n] ELSE n

Keys(names) == {Key(n) : n \in names}

-----------------------------------------------------------------------------
(* The open circuit, and the taint of a diagnostic *)

Here(s) == IF s.open = 0 THEN s.top ELSE s.circuits[s.open]

CdlScope(s) == IF s.open = 0 THEN "*" ELSE Here(s).name

With(s, circuit) ==
    IF s.open = 0 THEN [s EXCEPT !.top = circuit]
    ELSE [s EXCEPT !.circuits[s.open] = circuit]

Diagnose(s, scope) ==
    LET t == [s EXCEPT !.tainted = @ \cup {scope}]
    IN  IF s.open # 0 /\ scope \in {"*", CdlScope(s)}
          THEN With(t, [Here(s) EXCEPT !.tainted = TRUE]) ELSE t

DiagnoseIf(s, wrong, scope) == IF wrong THEN Diagnose(s, scope) ELSE s

(* _resource_limit *)
CdlExhaust(s) == [Diagnose(s, "*") EXCEPT !.halted = TRUE]

Leave(s) == [s EXCEPT !.open = 0]

-----------------------------------------------------------------------------
(* Nets, parameters and subcircuits *)

(* _record_net *)
RecordNet(s, net) ==
    LET n == Key(net.name)
        b == Here(s)
    IN  IF n \in DOMAIN b.nets
          THEN With(s, [b EXCEPT !.nets[n] = @ /\ net.known])
        ELSE IF s.nets >= CdlMaxNets THEN CdlExhaust(s)
        ELSE [With(s, [b EXCEPT !.nets = (n :> net.known) @@ @]) EXCEPT !.nets = @ + 1]

RecordNets(s, names, known) ==
    FoldLeft(RecordNet, s,
             [i \in DOMAIN names |-> [name |-> names[i], known |-> known]])

(* _parse_parameters: the first of two values stays, and what has no value *)
(* is malformed.                                                           *)
Parameter(s, p) ==
    LET b == Here(s)
        n == Key(p.name)
    IN  IF p.value = None \/ n \in DOMAIN b.params THEN Diagnose(s, CdlScope(s))
        ELSE With(s, [b EXCEPT !.params = (n :> p.value) @@ @])

Parameters(s, list) == FoldLeft(Parameter, s, list)

DuplicatePin(pins, n) == Cardinality({i \in DOMAIN pins : Key(pins[i]) = Key(n)}) > 1

HeaderPorts(pins) ==
    [i \in DOMAIN pins |->
       [NewPort(pins[i]) EXCEPT !.known = ~DuplicatePin(pins, pins[i])]]

SameName(s, n) == {i \in DOMAIN s.circuits : Key(s.circuits[i].name) = Key(n)}

(* A second definition taints every definition of the name. *)
TaintDuplicates(s, n) ==
    IF Cardinality(SameName(s, n)) < 2 THEN s
    ELSE [s EXCEPT
            !.tainted = @ \cup {s.circuits[i].name : i \in SameName(s, n)},
            !.circuits = [i \in DOMAIN @ |->
                            IF i \in SameName(s, n)
                              THEN [@[i] EXCEPT !.tainted = TRUE] ELSE @[i]]]

(* _start_subckt; one that is still open ends there. *)
StartCircuit(s, r) ==
    LET closed == Leave(DiagnoseIf(s, s.open # 0, CdlScope(s)))
        opened == [closed EXCEPT
                     !.circuits = Append(@, [NewCircuit(r.name) EXCEPT
                                               !.ports = HeaderPorts(r.pins)]),
                     !.names = Append(@, r.name),
                     !.open = Len(closed.circuits) + 1]
        twice == \E p \in ToSet(r.pins) : DuplicatePin(r.pins, p)
        body == RecordNets(DiagnoseIf(opened, twice, r.name), r.pins, TRUE)
    IN  IF r.name = None THEN Diagnose(s, CdlScope(s))
        ELSE TaintDuplicates(Parameters(body, r.params), r.name)

(* _end_subckt *)
EndCircuit(s, r) ==
    IF s.open = 0 THEN Diagnose(s, "*")
    ELSE Leave(DiagnoseIf(s, r.name # None /\ Key(r.name) # Key(Here(s).name),
                          CdlScope(s)))

-----------------------------------------------------------------------------
(* Instances *)

(* _record_instance *)
RecordInstance(s, r, known) ==
    LET b == Here(s)
        same(x) == Key(x.name) = Key(r.name)
        twice == \E x \in ToSet(b.instances) : same(x)
        record == [name |-> r.name, nodes |-> r.nodes, master |-> r.master,
                   known |-> known]
        listed == [i \in DOMAIN Append(b.instances, record) |->
                     LET x == Append(b.instances, record)[i]
                     IN  IF twice /\ same(x) THEN [x EXCEPT !.known = FALSE] ELSE x]
        refs == IF r.master = None THEN {} ELSE {[to |-> r.master, known |-> known]}
        t == DiagnoseIf(With(s, [b EXCEPT !.instances = listed,
                                          !.references = @ \cup refs]),
                        twice, CdlScope(s))
    IN  RecordNets(t, r.nodes, known)

(* _parse_mos, _parse_passive and _parse_subckt_instance. *)
Instance(s, r) == RecordInstance(DiagnoseIf(s, ~r.ok, CdlScope(s)), r, r.ok)

(* An element other than M, R, C, L and X has neither nodes nor a master.  *)
(* The first one outside a subcircuit, before any instance there, is taken *)
(* for the title of the netlist.                                           *)
TakenForTitle(s) == s.open = 0 /\ s.top.instances = << >> /\ ~s.title

Unsupported(s, r) ==
    IF TakenForTitle(s) THEN [s EXCEPT !.title = TRUE]
    ELSE RecordInstance(Diagnose(s, CdlScope(s)),
                        [r EXCEPT !.nodes = << >>, !.master = None], FALSE)

-----------------------------------------------------------------------------
(* Pin metadata *)

(* A second word on a pin, whether it agrees or not, is not taken. *)
Described(port, p) ==
    LET dup == p.direction # None /\ port.directionKnown
        twin == p.role # None /\ port.roleKnown
    IN  [port EXCEPT
           !.direction = IF p.direction # None THEN p.direction ELSE @,
           !.directionKnown = IF p.direction # None THEN ~dup ELSE @,
           !.role = IF p.role # None THEN p.role ELSE @,
           !.roleKnown = IF p.role # None THEN ~(dup \/ twin) ELSE @,
           !.known = @ /\ ~dup /\ ~twin
                     /\ (p.direction # None \/ p.role # None)]

(* _apply_pin_metadata *)
PinMetadata(s, p) ==
    LET b == Here(s)
        same(port) == Key(port.name) = Key(p.name)
        found == {port \in ToSet(b.ports) : same(port)}
        ports == [i \in DOMAIN b.ports |->
                    IF same(b.ports[i]) THEN Described(b.ports[i], p) ELSE b.ports[i]]
        unclear == \E port \in found : ~Described([port EXCEPT !.known = TRUE], p).known
        lost == [b EXCEPT !.references = @ \cup {[to |-> p.name, known |-> FALSE]}]
    IN  IF s.open = 0 \/ found = {} THEN Diagnose(With(s, lost), CdlScope(s))
        ELSE DiagnoseIf(With(s, [b EXCEPT !.ports = ports]), unclear, CdlScope(s))

PinDirective(s, r) ==
    IF r.pins = << >> THEN Diagnose(s, CdlScope(s))
    ELSE FoldLeft(PinMetadata, s, r.pins)

-----------------------------------------------------------------------------
(* Other directives *)

Global(s, n) ==
    IF Key(n) \in s.globals THEN Diagnose(s, "*")
    ELSE [s EXCEPT !.globals = @ \cup {Key(n)}]

Globals(s, r) ==
    IF r.names = << >> THEN Diagnose(s, "*") ELSE FoldLeft(Global, s, r.names)

(* .MODEL: of two definitions the first stays, and is no longer known. *)
Model(s, r) ==
    IF r.name = None THEN Diagnose(s, CdlScope(s))
    ELSE IF Key(r.name) \in DOMAIN s.models
      THEN [Diagnose(s, CdlScope(s)) EXCEPT !.models[Key(r.name)].known = FALSE]
    ELSE [s EXCEPT !.models = (Key(r.name) :> [value |-> r.value, known |-> TRUE]) @@ @]

EndNetlist(s) ==
    [Leave(DiagnoseIf(s, s.open # 0, CdlScope(s))) EXCEPT !.ended = TRUE]

-----------------------------------------------------------------------------
(* The end of a file *)

(* _finalize_builder; the facts of a tainted circuit are all tainted. *)
CircuitFacts(s, b) ==
    LET scope == IF b.name = None THEN "*" ELSE b.name
        item(kind, n, value, known) == Fact(scope, kind, n, value, known /\ ~b.tainted)
        ports == ToSet(b.ports)
        net(n) == IF n \in s.globals
                    THEN Fact("*", "net", n, None, b.nets[n] /\ ~b.tainted)
                    ELSE item("net", n, None, b.nets[n])
    IN  (IF b.name = None THEN {} ELSE {item("circuit", b.name, None, TRUE)})
        \cup {item("pin", p.name, None, p.known) : p \in ports}
        \cup {item("direction", p.name, p.direction, p.directionKnown) : p \in ports}
        \cup {item("role", p.name, p.role, p.roleKnown) : p \in ports}
        \cup {item("instance", x.name, [nodes |-> x.nodes, master |-> x.master], x.known)
              : x \in ToSet(b.instances)}
        \cup {item("reference", x.to, None, x.known) : x \in b.references}
        \cup {item("parameter", n, b.params[n], TRUE) : n \in DOMAIN b.params}
        \cup {net(n) : n \in DOMAIN b.nets}

FileFacts(s) ==
    UNION {CircuitFacts(s, b) : b \in ToSet(s.circuits) \cup {s.top}}
    \cup {Fact("*", "model", n, s.models[n].value, s.models[n].known) : n \in DOMAIN s.models}
    \cup {Fact("*", "global", n, None, "*" \notin s.tainted) : n \in s.globals}

(* parse: a subcircuit without its .ENDS. *)
FinishFile(s) ==
    LET t == Leave(DiagnoseIf(s, s.open # 0, CdlScope(s)))
    IN  [CdlStart EXCEPT !.facts = s.facts \cup FileFacts(t), !.names = t.names,
                         !.tainted = t.tainted]

(* parse_cdl: a subcircuit defined in two files. *)
CdlView(s) ==
    LET end == FinishFile(s)
        twice == {n \in ToSet(end.names) :
                    Cardinality({i \in DOMAIN end.names : Key(end.names[i]) = Key(n)}) > 1}
        tainted == end.tainted \cup twice
    IN  Observed({IF f.scope \in twice THEN [f EXCEPT !.known = FALSE] ELSE f
                  : f \in end.facts}, tainted = {}, tainted)

-----------------------------------------------------------------------------
(* What the netlist states: subcircuits nest, a global net has no scope *)

CdlRunStart == [stack |-> << >>, nets |-> {}, globals |-> {}, facts |-> {}]

CdlIn(m) == IF m.stack = << >> THEN "*" ELSE Last(m.stack)

CdlStates(m, r) ==
    LET at(kind, n, value) == Statement(CdlIn(m), kind, n, value)
    IN  CASE r.type = "subckt" ->
               {Statement(r.name, "circuit", r.name, None)}
               \cup {Statement(r.name, "pin", p, None) : p \in ToSet(r.pins)}
               \cup {Statement(r.name, "parameter", p.name, p.value)
                     : p \in {x \in ToSet(r.params) : x.value # None}}
          [] r.type = "param" ->
               {at("parameter", p.name, p.value)
                : p \in {x \in ToSet(r.params) : x.value # None}}
          [] r.type \in {"instance", "device"} ->
               {at("instance", r.name, [nodes |-> r.nodes, master |-> r.master])}
               \cup IF r.master = None THEN {} ELSE {at("reference", r.master, None)}
          [] r.type = "pins" ->
               {at("direction", p.name, p.direction)
                : p \in {x \in ToSet(r.pins) : x.direction # None}}
               \cup {at("role", p.name, p.role)
                     : p \in {x \in ToSet(r.pins) : x.role # None}}
          [] r.type = "loose" -> {at("pin", p, None) : p \in ToSet(r.pins)}
          [] r.type = "model" -> {Statement("*", "model", Key(r.name), r.value)}
          [] r.type = "global" -> {Statement("*", "global", Key(n), None) : n \in ToSet(r.names)}
          [] OTHER -> {}

CdlNets(m, r) ==
    IF r.type = "subckt" THEN {<<r.name, Key(p)>> : p \in ToSet(r.pins)}
    ELSE IF r.type = "instance" THEN {<<CdlIn(m), Key(n)>> : n \in ToSet(r.nodes)}
    ELSE {}

CdlFileEnd(m) ==
    [CdlRunStart EXCEPT
       !.facts = m.facts \cup
                 {Statement(IF n[2] \in m.globals THEN "*" ELSE n[1], "net", n[2], None)
                  : n \in m.nets}]

CdlRun(m, r) ==
    IF r.type = "file" THEN CdlFileEnd(m)
    ELSE [facts |-> m.facts \cup IF r.name = None /\ r.type \in {"subckt", "model"}
                                   THEN {} ELSE CdlStates(m, r),
          nets |-> m.nets \cup IF r.name = None THEN {} ELSE CdlNets(m, r),
          globals |-> m.globals \cup IF r.type = "global" THEN Keys(ToSet(r.names)) ELSE {},
          stack |-> CASE r.type = "subckt" /\ r.name # None -> Append(m.stack, r.name)
                      [] r.type = "ends" /\ m.stack # << >> -> Front(m.stack)
                      [] OTHER -> m.stack]

CdlMeaning(lines) == CdlFileEnd(FoldLeft(CdlRun, CdlRunStart, lines)).facts

CdlSources ==
    {[format |-> "cdl", records |-> f, start |-> CdlStart, meant |-> CdlMeaning(f)]
       : f \in CdlFiles}

-----------------------------------------------------------------------------
(* _parse_logical, one action per kind of line *)

(* A token with an unbalanced quote is diagnosed, and its line still read. *)
Tokenized == DiagnoseIf(st, Rec.torn, CdlScope(st))

CdlStep(t, next) ==
    /\ format = "cdl" /\ ~st.halted
    /\ Take("cdl", t)
    /\ st' = IF st.ended THEN Diagnose(Tokenized, "*") ELSE next

CdlStartCircuit == CdlStep("subckt", StartCircuit(Tokenized, Rec))

CdlEndCircuit == CdlStep("ends", EndCircuit(Tokenized, Rec))

CdlInstance == CdlStep("instance", Instance(Tokenized, Rec))

CdlDevice == CdlStep("device", Unsupported(Tokenized, Rec))

CdlTitle == CdlStep("title", Unsupported(Tokenized, Rec))

CdlPins == CdlStep("pins", PinDirective(Tokenized, Rec))

CdlParameters == CdlStep("param", Parameters(Tokenized, Rec.params))

CdlGlobal == CdlStep("global", Globals(Tokenized, Rec))

CdlModel == CdlStep("model", Model(Tokenized, Rec))

CdlOpaque == CdlStep("opaque", Diagnose(Tokenized, CdlScope(Tokenized)))

CdlEndNetlist == CdlStep("end", EndNetlist(Tokenized))

(* _logical_lines: a continuation with no line before it. *)
CdlLoose == CdlStep("loose", Diagnose(st, "*"))

CdlNextFile ==
    /\ format = "cdl"
    /\ Take("cdl", "file")
    /\ st' = FinishFile(st)

CdlEnd ==
    /\ format = "cdl"
    /\ st.halted \/ pos > Len(file)
    /\ Report("cdl", CdlView(st))

CdlNext ==
    \/ CdlStartCircuit \/ CdlEndCircuit \/ CdlInstance \/ CdlDevice \/ CdlTitle
    \/ CdlPins \/ CdlParameters \/ CdlGlobal \/ CdlModel \/ CdlOpaque
    \/ CdlEndNetlist \/ CdlLoose \/ CdlNextFile \/ CdlEnd

=============================================================================
