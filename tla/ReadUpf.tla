------------------------------ MODULE ReadUpf ------------------------------
(***************************************************************************)
(* The UPF adapter (parsers/upf.py).  A UPF file is a Tcl script of        *)
(* power-intent commands; the adapter runs no Tcl.  A word that needs      *)
(* substitution cannot be read, and taints the object its command is       *)
(* about, or the whole view when that object is not static either.         *)
(*                                                                         *)
(* A word is its list of names and whether it is dynamic; the names of a   *)
(* dynamic word are what Tcl would put in its place, which the reader does *)
(* not see; there are none where Tcl would put a flag.  A command has its  *)
(* positional words, and options hold the words of their occurrences.      *)
(***************************************************************************)
EXTENDS Reading, TLC

CONSTANTS
    UpfScripts,     \* the scripts written: sequences of commands
    UpfPins,        \* the names with a path in them, which are pins
    UpfRooted,      \* [absolute name -> the name without its leading slash]
    UpfComponent,   \* component_name, or None
    UpfMaxObjects   \* _MAX_OBSERVATIONS

UpfStart ==
    [scope |-> None,    \* set_scope, None at the top
     objects |-> {},    \* the observations
     kinds |-> << >>,   \* [name -> supply_set or power_domain]: latest definition
     tops |-> {},       \* set_design_top
     ports |-> {},      \* create_supply_port
     roles |-> {},      \* <<port, role>> of set_domain_supply_net
     count |-> 0,       \* the budget's observations
     tainted |-> {},
     scanned |-> FALSE,
     halted |-> FALSE]  \* a resource budget ran out

UpfNamed == {"create_power_domain", "create_supply_port", "create_supply_net",
             "create_supply_set", "set_isolation", "set_isolation_control",
             "set_retention", "set_retention_control", "set_level_shifter",
             "create_power_switch"}

-----------------------------------------------------------------------------
(* What a command says, of the words that `c' gives its options *)

Words(c, o) == IF o \in DOMAIN c.args THEN c.args[o] ELSE << >>

(* The last occurrence of an option counts (_Arguments.one). *)
One(c, o) == IF Words(c, o) = << >> THEN << >> ELSE Last(Words(c, o)).items

Rootless(n) == IF n \in DOMAIN UpfRooted THEN UpfRooted[n] ELSE n

(* _scope_for: an absolute name, the current scope, or a name in it. *)
InScope(scope, n) ==
    CASE n \in DOMAIN UpfRooted -> <<None, UpfRooted[n]>>
      [] n = "." /\ scope # None -> <<None, scope>>
      [] OTHER -> <<scope, n>>

(* The comparison takes a name that begins with its scope for a whole path *)
(* (_reference_matches); set_scope is observed in the scope it enters.     *)
Path(at) == IF at[1] \in {None, at[2]} THEN <<at[2]>> ELSE at

UpfObject(relation, kind, scope, n) ==
    [kind |-> <<relation, kind>>, name |-> Path(InScope(scope, n))]

UpfEach(relation, kind, scope, names) ==
    [i \in DOMAIN names |-> UpfObject(relation, kind, scope, names[i])]

(* _reference_ports *)
Ports(scope, names) ==
    [i \in DOMAIN names |->
       UpfObject("reference", IF names[i] \in UpfPins THEN "pin" ELSE "port",
                 scope, names[i])]

(* The current scope after set_scope. *)
Entered(name) == IF name \in {"/", "."} THEN None ELSE Rootless(name)

(* The object a command defines or refers to by its own name. *)
Subject(c, name, scope, kinds) ==
    LET def(k) == <<UpfObject("definition", k, scope, name)>>
        ref(k) == <<UpfObject("reference", k, scope, name)>>
    IN  CASE c.type = "create_power_domain" -> def("power_domain")
          [] c.type = "create_supply_port" -> def("supply_port")
          [] c.type = "create_supply_net" -> def("supply_net")
          [] c.type = "create_supply_set" -> def("supply_set")
          [] c.type = "create_power_switch" -> def("power_switch")
          [] c.type \in UpfNamed -> def(c.type)
          [] c.type = "connect_supply_net" -> ref("supply_net")
          [] c.type = "set_domain_supply_net" -> ref("power_domain")
          [] c.type = "add_port_state" -> ref("supply_port")
          [] c.type = "add_power_state" ->
               ref(IF name \in DOMAIN kinds THEN kinds[name] ELSE "supply_set")
          [] c.type = "set_design_top" -> ref("instance")
          [] c.type = "set_scope" /\ Entered(name) # None ->
               <<UpfObject("reference", "instance", Entered(name), Entered(name))>>
          [] OTHER -> << >>

(* The first and the second name of every list an option is given. *)
Firsts(c, o) == [i \in DOMAIN SelectSeq(Words(c, o), LAMBDA w : w.items # << >>)
                   |-> SelectSeq(Words(c, o), LAMBDA w : w.items # << >>)[i].items[1]]

Seconds(c, o) == [i \in DOMAIN SelectSeq(Words(c, o), LAMBDA w : Len(w.items) >= 2)
                    |-> SelectSeq(Words(c, o), LAMBDA w : Len(w.items) >= 2)[i].items[2]]

(* The objects named by a command's options. *)
Mentioned(c, name, scope) ==
    LET domain == UpfEach("reference", "power_domain", scope, One(c, "domain"))
        instances(o) == UpfEach("reference", "instance", scope, One(c, o))
        nets(o) == UpfEach("reference", "supply_net", scope, One(c, o))
        path(o) == Ports(scope, SubSeq(One(c, o), 1, IF One(c, o) = << >> THEN 0 ELSE 1))
        inside(kind, o) == UpfEach("definition", kind, name, Firsts(c, o))
        pairs(o) == UpfEach("reference", "supply_net", scope, Seconds(c, o))
        supplies(o) == UpfEach("reference", "supply_port", scope, One(c, o))
        sets(o) == UpfEach("reference", "supply_set", scope, One(c, o))
    IN  domain \o instances("elements") \o instances("exclude_elements")
        \o Ports(scope, One(c, "ports"))
        \o UpfEach("reference", "pin", scope, One(c, "pins"))
        \o nets("primary_power_net") \o nets("primary_ground_net")
        \o supplies("primary_power_port") \o supplies("primary_ground_port")
        \o path("isolation_signal") \o path("save_signal") \o path("restore_signal")
        \o nets("isolation_power_net") \o nets("isolation_ground_net")
        \o nets("retention_power_net") \o nets("retention_ground_net")
        \o sets("input_supply_set") \o sets("output_supply_set")
        \o pairs("function")
        \o inside("supply_port", "input_supply_port") \o pairs("input_supply_port")
        \o inside("supply_port", "output_supply_port") \o pairs("output_supply_port")
        \o inside("port", "control_port") \o Ports(scope, Seconds(c, "control_port"))
        \o inside(IF c.type = "add_port_state" THEN "port_state" ELSE "power_state",
                  "state")

Says(c, name, scope, kinds) == Subject(c, name, scope, kinds) \o Mentioned(c, name, scope)

Direction(c) ==
    IF One(c, "direction") \in {<<"in">>, <<"out">>} THEN One(c, "direction")[1] ELSE None

LatestKind(c, name, kinds) ==
    CASE c.type = "create_power_domain" -> (Rootless(name) :> "power_domain") @@ kinds
      [] c.type = "create_supply_set" -> (Rootless(name) :> "supply_set") @@ kinds
      [] OTHER -> kinds

RolesOf(c) ==
    {<<n, "power">> : n \in ToSet(One(c, "primary_power_port"))}
    \cup {<<n, "ground">> : n \in ToSet(One(c, "primary_ground_port"))}

-----------------------------------------------------------------------------
(* Reading a command *)

StaticWord(w) == IF w.dynamic THEN [w EXCEPT !.items = << >>] ELSE w

(* _word_list and _word_text: nothing is read of a dynamic word. *)
Readable(c) ==
    [c EXCEPT !.args = [o \in DOMAIN @ |->
                          [i \in DOMAIN @[o] |-> StaticWord(@[o][i])]]]

HasDynamic(c) ==
    \/ \E w \in ToSet(c.words) : w.dynamic
    \/ \E o \in DOMAIN c.args : \E w \in ToSet(c.args[o]) : w.dynamic

(* _name: the first positional word, unless it needs substitution. *)
Static(c) == c.words # << >> /\ ~c.words[1].dynamic

NameOf(c) == c.words[1].items[1]

(* _prepare: substitution is put down to the first word that can be read. *)
UpfTarget(c) ==
    LET static == SelectSeq(c.words, LAMBDA w : ~w.dynamic)
    IN  IF static = << >> THEN "*" ELSE static[1].items[1]

(* _prepare: substitution, unknown options, options without their value. *)
Unprepared(c) == HasDynamic(c) \/ c.odd

(* The words a command cannot do without, besides its name. *)
Deficient(c) ==
    \/ /\ c.type = "create_supply_port"
       /\ One(c, "direction") # << >> /\ Direction(c) = None
    \/ /\ c.type = "create_supply_set"
       /\ \E w \in ToSet(Words(c, "function")) : w.items = << >>
    \/ /\ c.type = "connect_supply_net"
       /\ One(c, "ports") = << >> /\ One(c, "pins") = << >>
    \/ /\ c.type \in {"add_port_state", "add_power_state"}
       /\ Words(c, "state") = << >>

(* The scopes that a command taints.  An odd option of a command whose name *)
(* is computed taints a scope spelled like the computation: nobody's.       *)
Taints(c) ==
    (IF HasDynamic(c) THEN {UpfTarget(c)} ELSE {})
    \cup (IF c.words = << >> THEN {"*"} ELSE {})
    \cup (IF Static(c) /\ (c.odd \/ Deficient(Readable(c))) THEN {NameOf(c)} ELSE {})

UpfTaint(u, scopes) == [u EXCEPT !.tainted = @ \cup scopes]

(* _object: the observations in order, as long as the budget lasts. *)
Emit(u, target, known, says) ==
    LET room == UpfMaxObjects - u.count
        fits == SubSeq(says, 1, IF Len(says) < room THEN Len(says) ELSE room)
        facts == {Fact(target, s.kind, s.name, None, known) : s \in ToSet(fits)}
    IN  [UpfTaint(u, IF Len(says) > room THEN {"*"} ELSE {})
           EXCEPT !.objects = @ \cup facts,
                  !.count = @ + Len(fits),
                  !.halted = Len(says) > room]

(* What the facts of a command are known by. *)
Sound(c) == ~Unprepared(c) /\ ~Deficient(Readable(c))

(* A command of the subset: it is observed under its static name, with the *)
(* options that can be read.                                               *)
Observe(u, c) ==
    LET r == Readable(c)
        seen == UpfTaint(u, Taints(c))
    IN  IF ~Static(c) THEN seen
        ELSE Emit([seen EXCEPT !.kinds = LatestKind(c, NameOf(c), @),
                               !.roles = @ \cup RolesOf(r)],
                  NameOf(c), Sound(c), Says(r, NameOf(c), u.scope, u.kinds))

SetScope(u, c) ==
    IF Static(c) THEN [Observe(u, c) EXCEPT !.scope = Entered(NameOf(c))]
    ELSE Observe(u, c)

DesignTop(u, c) ==
    IF Static(c) THEN [Observe(u, c) EXCEPT !.tops = @ \cup {NameOf(c)}]
    ELSE Observe(u, c)

SupplyPort(u, c) ==
    LET port == [name |-> NameOf(c), direction |-> Direction(Readable(c)),
                 known |-> Sound(c)]
    IN  IF Static(c) THEN [Observe(u, c) EXCEPT !.ports = @ \cup {port}]
        ELSE Observe(u, c)

-----------------------------------------------------------------------------
(* _components: the supply ports are the ports of the design's top *)

UpfTop(tops) ==
    IF UpfComponent # None THEN UpfComponent
    ELSE IF Cardinality(tops) = 1 THEN CHOOSE t \in tops : TRUE ELSE None

PortNames(u) == {p.name : p \in u.ports}

PortsNamed(u, n) == {p \in u.ports : p.name = n}

Directions(u, n) == {p.direction : p \in PortsNamed(u, n)}

RolesAt(u, n) == {r \in {"power", "ground"} : <<n, r>> \in u.roles}

(* The role of a port is a fact of its own; only a supply has one for sure. *)
ComponentFacts(u) ==
    LET top == UpfTop(u.tops)
        port(n) == Fact(top, <<"component", "port">>, <<top, n>>,
                        IF Cardinality(Directions(u, n)) = 1
                          THEN CHOOSE d \in Directions(u, n) : TRUE ELSE None,
                        /\ \A p \in PortsNamed(u, n) : p.known
                        /\ Cardinality(Directions(u, n)) = 1
                        /\ Cardinality(RolesAt(u, n)) < 2)
        role(n) == {Fact(top, <<"component", "role">>, <<top, n>>, r, Cardinality(RolesAt(u, n)) = 1)
                    : r \in IF RolesAt(u, n) = {} THEN {None} ELSE RolesAt(u, n)}
    IN  IF top = None THEN {}
        ELSE {port(n) : n \in PortNames(u)} \cup UNION {role(n) : n \in PortNames(u)}

Ambiguous(u) == UpfComponent = None /\ Cardinality(u.tops) > 1

(* finish; no component when a budget ran out. *)
UpfView(u) ==
    LET v == UpfTaint(u, IF Ambiguous(u) THEN {"*"} ELSE {})
    IN  Observed(u.objects \cup IF u.halted THEN {} ELSE ComponentFacts(u),
                 v.tainted = {}, v.tainted)

-----------------------------------------------------------------------------
(* What the script says once Tcl has put every word in place: the objects  *)
(* by their path from the top of the design, found without the reader's    *)
(* definitions.  A statement is told under the name its command gives.     *)

(* The path of a name that is written inside the instance at `path'. *)
At(path, n) ==
    CASE n = "/" -> << >>
      [] n = "." -> path
      [] n \in DOMAIN UpfRooted -> <<UpfRooted[n]>>
      [] OTHER -> Append(path, n)

Created ==
    [create_power_domain |-> "power_domain", create_supply_port |-> "supply_port",
     create_supply_net |-> "supply_net", create_supply_set |-> "supply_set",
     create_power_switch |-> "power_switch", set_isolation |-> "set_isolation",
     set_isolation_control |-> "set_isolation_control",
     set_retention |-> "set_retention",
     set_retention_control |-> "set_retention_control",
     set_level_shifter |-> "set_level_shifter"]

Concerned ==
    [connect_supply_net |-> "supply_net", set_domain_supply_net |-> "power_domain",
     add_port_state |-> "supply_port", set_design_top |-> "instance"]

(* The kind of object that the i-th name of an option refers to. *)
Refers(o, i, n) ==
    LET wire == IF n \in UpfPins THEN "pin" ELSE "port"
    IN  CASE o = "domain" -> "power_domain"
          [] o \in {"elements", "exclude_elements"} -> "instance"
          [] o = "pins" -> "pin"
          [] o = "ports" -> wire
          [] o \in {"isolation_signal", "save_signal", "restore_signal"} /\ i = 1 -> wire
          [] o = "control_port" /\ i = 2 -> wire
          [] o \in {"primary_power_port", "primary_ground_port"} -> "supply_port"
          [] o \in {"input_supply_set", "output_supply_set"} -> "supply_set"
          [] o \in {"primary_power_net", "primary_ground_net", "isolation_power_net",
                    "isolation_ground_net", "retention_power_net",
                    "retention_ground_net"} -> "supply_net"
          [] o \in {"function", "input_supply_port", "output_supply_port"} /\ i = 2 ->
               "supply_net"
          [] OTHER -> None

(* The kind of part that the first name of an option gives the object. *)
PartKind(o, type) ==
    CASE o \in {"input_supply_port", "output_supply_port"} -> "supply_port"
      [] o = "control_port" -> "port"
      [] o = "state" /\ type = "add_port_state" -> "port_state"
      [] o = "state" -> "power_state"
      [] OTHER -> None

(* The names given to options, as <<option, place, name>>. *)
Given(c) ==
    UNION {UNION {{<<o, i, w.items[i]>> : i \in DOMAIN w.items} : w \in ToSet(c.args[o])}
             : o \in DOMAIN c.args}

(* What a command says of the objects at <<path>>s; a part is told by the   *)
(* name its owner has in the command.                                       *)
SaidBy(c, name, path, kinds) ==
    {<<"definition", Created[t], At(path, name)>> : t \in {c.type} \cap DOMAIN Created}
    \cup {<<"reference", Concerned[t], At(path, name)>> : t \in {c.type} \cap DOMAIN Concerned}
    \cup {<<"reference", "instance", At(path, name)>>
             : t \in {c.type} \cap IF name \in {"/", "."} THEN {} ELSE {"set_scope"}}
    \cup {<<"reference",
            IF At(path, name) \in DOMAIN kinds THEN kinds[At(path, name)] ELSE "supply_set",
            At(path, name)>> : t \in {c.type} \cap {"add_power_state"}}
    \cup {<<"reference", Refers(g[1], g[2], g[3]), At(path, g[3])>>
             : g \in {x \in Given(c) : Refers(x[1], x[2], x[3]) # None}}
    \cup {<<"definition", PartKind(g[1], c.type), <<name, g[3]>>>>
             : g \in {x \in Given(c) : x[2] = 1 /\ PartKind(x[1], c.type) # None}}

UpfRun(u, c) ==
    LET names == FlattenSeq([i \in DOMAIN c.words |-> c.words[i].items])
        name == names[1]
        here == At(u.path, name)
        flows == {g[3] : g \in {x \in Given(c) : x[1] = "direction"}} \cap {"in", "out"}
        supplied(o) == {At(u.path, g[3]) : g \in {x \in Given(c) : x[1] = o}}
    IN  IF c.type \in {"opaque", "upf_version"} \/ names = << >> THEN u
        ELSE [u EXCEPT
                !.said = @ \cup {Statement(name, <<s[1], s[2]>>, s[3], None)
                                   : s \in SaidBy(c, name, u.path, u.kinds)},
                !.kinds = IF c.type \in {"create_power_domain", "create_supply_set"}
                            THEN (here :> Created[c.type]) @@ @ ELSE @,
                !.path = IF c.type = "set_scope" THEN here ELSE @,
                !.tops = IF c.type = "set_design_top" THEN @ \cup {name} ELSE @,
                !.ports = IF c.type = "create_supply_port"
                            THEN @ \cup {<<here, IF flows = {} THEN None
                                                 ELSE CHOOSE d \in flows : TRUE>>}
                            ELSE @,
                !.power = @ \cup supplied("primary_power_port"),
                !.ground = @ \cup supplied("primary_ground_port")]

(* The top's ports are the supply ports at paths of one name. *)
UpfMeaning(script) ==
    LET u == FoldLeft(UpfRun,
                      [said |-> {}, kinds |-> << >>, path |-> << >>, tops |-> {},
                       ports |-> {}, power |-> {}, ground |-> {}],
                      script)
        tops == IF UpfComponent # None THEN {UpfComponent}
                ELSE IF Cardinality(u.tops) = 1 THEN u.tops ELSE {}
        of(kind, paths, value) ==
            {Statement(t, <<"component", kind>>, <<t, p[1]>>, value)
               : t \in tops, p \in {x \in paths : Len(x) = 1}}
        ports == {p[1] : p \in u.ports}
    IN  u.said \cup UNION {of("port", {p[1]}, p[2]) : p \in u.ports}
        \cup of("role", u.power \cap ports, "power")
        \cup of("role", u.ground \cap ports, "ground")

UpfSources ==
    {[format |-> "upf", records |-> s, start |-> UpfStart, meant |-> UpfMeaning(s)]
       : s \in UpfScripts}

-----------------------------------------------------------------------------
(* parse_upf: the scanner splits the source, then each command is handled *)

(* An unterminated word: the commands are handled all the same. *)
UpfScan ==
    /\ format = "upf" /\ view = None /\ ~st.scanned
    /\ st' = UpfTaint([st EXCEPT !.scanned = TRUE],
                      IF \E c \in ToSet(file) : c.torn THEN {"*"} ELSE {})
    /\ UNCHANGED <<format, file, meant, pos, faults, view>>

(* A source over one of the size limits is not read at all. *)
UpfOversized ==
    /\ format = "upf" /\ view = None /\ ~st.scanned
    /\ st' = UpfTaint([st EXCEPT !.scanned = TRUE, !.halted = TRUE], {"*"})
    /\ UNCHANGED <<format, file, meant, pos, faults, view>>

UpfStep(t, next) ==
    /\ format = "upf" /\ st.scanned /\ ~st.halted
    /\ Take("upf", t)
    /\ st' = next

(* A command outside the subset, or a command whose name is computed. *)
UpfOpaque == UpfStep("opaque", UpfTaint(st, {"*"}))

UpfVersion == UpfStep("upf_version", Observe(st, Rec))

UpfDesignTop == UpfStep("set_design_top", DesignTop(st, Rec))

UpfSetScope == UpfStep("set_scope", SetScope(st, Rec))

UpfSupplyPort == UpfStep("create_supply_port", SupplyPort(st, Rec))

UpfDefine == \E t \in UpfNamed \ {"create_supply_port"} : UpfStep(t, Observe(st, Rec))

UpfConnect ==
    \E t \in {"connect_supply_net", "set_domain_supply_net"} :
        UpfStep(t, Observe(st, Rec))

UpfStates ==
    \E t \in {"add_port_state", "add_power_state"} : UpfStep(t, Observe(st, Rec))

UpfEnd ==
    /\ format = "upf" /\ st.scanned
    /\ st.halted \/ pos > Len(file)
    /\ Report("upf", UpfView(st))

UpfNext ==
    \/ UpfScan \/ UpfOversized \/ UpfOpaque \/ UpfVersion \/ UpfDesignTop
    \/ UpfSetScope \/ UpfSupplyPort \/ UpfDefine \/ UpfConnect \/ UpfStates
    \/ UpfEnd

=============================================================================
