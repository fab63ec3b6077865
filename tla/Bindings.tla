----------------------------- MODULE Bindings ------------------------------
(***************************************************************************)
(* What the views say of one another's objects (engine.py): SDC, UPF and   *)
(* DEF references into the RTL hierarchy, UPF definitions, clocks and      *)
(* their targets, IP-XACT port maps, and package pin maps.                 *)
(*                                                                         *)
(* An object's name is the sequence of its path segments; '/' and '.' both *)
(* separate them, so the variants of a name differ only in the scope they  *)
(* spell.  A wildcard or regular expression is a segment of its own and    *)
(* Selects gives the names it matches.                                     *)
(*                                                                         *)
(* All names are canonical here: aliases are the matter of Inventory.      *)
(***************************************************************************)
EXTENDS Comparing

CONSTANTS
    Selects,         \* [pattern segment -> the object names it matches]
    UnsafePattern,   \* regular expressions outside the static subset
    NoConnect,       \* signal names that stand for an unused pin
    AllowMultiBond   \* policy.allow_multi_bond

ASSUME BindingsAssumption == AllowMultiBond \in BOOLEAN

-----------------------------------------------------------------------------
(* Views *)

ReadingViews(views) == {v \in Views : views[v] # None}

OfKind(views, kinds) == {v \in ReadingViews(views) : ViewKind[v] \in kinds}

ObjectsOf(view, relation) ==
    {o \in Range(view.objects) : o.relation = relation /\ o.known}

-----------------------------------------------------------------------------
(* Names *)

Unscoped(name, scope) ==
    IF scope # << >> /\ IsStrictPrefix(scope, name)
      THEN {SubSeq(name, Len(scope) + 1, Len(name))}
      ELSE {}

(* _name_variants. *)
NameVariants(name, scope) ==
    {name, scope \o name} \cup Unscoped(name, scope)

QualifiedName(o) ==
    IF IsStrictPrefix(o.scope, o.name) THEN o.name ELSE o.scope \o o.name

PortNames(view) == DOMAIN view.ports

DesignComponents(views) ==
    {views[v].component : v \in ReadingViews(views)} \ {None}

DesignPorts(views, component) ==
    UNION {PortNames(views[v]) : v \in {w \in ReadingViews(views) :
                                      views[w].component = component}}

(* The names of the elaborated design, over all RTL views. *)
RtlNames(views, kind) ==
    UNION {LET view == views[v]
               named == view.component # None
           IN  (IF named /\ kind \in {"instance", "cell"}
                  THEN {<<view.component>>} ELSE {})
               \cup (IF named /\ kind = "port"
                       THEN UNION {NameVariants(<<p>>, <<view.component>>) :
                                     p \in PortNames(view)}
                       ELSE {})
               \cup UNION {NameVariants(o.name, o.scope) :
                             o \in {d \in ObjectsOf(view, "definition") :
                                      d.kind = kind}}
           : v \in OfKind(views, {"rtl"})}

(* The names a view defines itself. *)
OwnNames(views, v, kind) ==
    UNION {NameVariants(o.name, o.scope) :
             o \in {d \in ObjectsOf(views[v], "definition") : d.kind = kind}}
    \cup (IF kind = "clock"
            THEN {<<c.name>> : c \in {d \in Range(views[v].clocks) : d.known}}
            ELSE {})

-----------------------------------------------------------------------------
(* References *)

(* The name as it is looked up from the reference's scope. *)
LookedUp(ref) ==
    IF ref.scope = << >> \/ IsPrefix(ref.scope, ref.name) THEN ref.name
    ELSE ref.scope \o ref.name

(* The names a pattern may be held against from the reference's scope. *)
InScope(ref, name) ==
    IF ref.scope = << >> THEN {name} ELSE Unscoped(name, ref.scope)

PatternOf(ref) == ref.name[Len(ref.name)]

(* A search sees the full name of an object in the scope as well as the    *)
(* rest of it; a glob only the rest.                                       *)
Hit(ref, name) ==
    IF ref.mode = "exact" THEN name = LookedUp(ref)
    ELSE IF ref.mode = "glob"
      THEN InScope(ref, name) \cap Selects[PatternOf(ref)] # {}
    ELSE LET seen == InScope(ref, name)
         IN  /\ seen # {}
             /\ (seen \cup {name}) \cap Selects[PatternOf(ref)] # {}

Unjudged(ref) == ref.mode = "regexp" /\ PatternOf(ref) \in UnsafePattern

RtlObject == {"port", "pin", "net", "instance"}

(* A DEF net ends at a pin of the top cell or of an instance. *)
ReferenceKind(v, ref) ==
    IF ref.kind = "cell" THEN "instance"
    ELSE IF ViewKind[v] = "def" /\ ref.kind = "pin" /\ ref.topPin THEN "port"
    ELSE ref.kind

(* The reference's own view may have lost the object's definition. *)
LostDefinition(views, v, ref) ==
    \/ WholeTainted(views[v])
    \/ ({ref.scope, ref.name, QualifiedName(ref)} \ {<< >>})
         \cap views[v].tainted # {}

AbsenceCode(v, kind) ==
    IF ViewKind[v] = "sdc" THEN "OC6001"
    ELSE IF ViewKind[v] = "def" THEN "OC6401"
    ELSE IF kind = "instance" THEN "OC6101"
    ELSE IF kind \in {"port", "pin"} THEN "OC6102"
    ELSE "OC6103"

Candidates(views, v, kind) ==
    IF kind \in RtlObject THEN RtlNames(views, kind)
                          ELSE OwnNames(views, v, kind)

(* Without an RTL view nothing is known of the design's objects. *)
Judged(views, kind) ==
    kind \in RtlObject => OfKind(views, {"rtl"}) # {}

ReferenceFindings(views) ==
    LET references ==
          {r \in UNION {{v} \X ObjectsOf(views[v], "reference") :
                          v \in OfKind(views, {"sdc", "upf", "def"})} :
             Judged(views, ReferenceKind(r[1], r[2]))}
        found(r) ==
          \E name \in Candidates(views, r[1], ReferenceKind(r[1], r[2])) :
             Hit(r[2], name)
    IN  {Finding("OC1105", r) : r \in {s \in references : Unjudged(s[2])}}
        \cup {Finding(AbsenceCode(r[1], ReferenceKind(r[1], r[2])), r) :
                r \in {s \in references :
                         /\ ~Unjudged(s[2])
                         /\ ~found(s)
                         /\ ~LostDefinition(views, s[1], s[2])}}

(* A UPF object is defined once and only then updated. *)
DefinitionPlaces(view, key) ==
    {i \in DOMAIN view.objects :
        LET o == view.objects[i]
        IN  /\ o.relation = "definition" /\ o.known
            /\ <<o.kind, QualifiedName(o)>> = key}

DuplicateFindings(views) ==
    UNION {LET view == views[v]
               keys == {<<o.kind, QualifiedName(o)>> :
                          o \in ObjectsOf(view, "definition")}
               updates(k) == {i \in DefinitionPlaces(view, k) :
                                view.objects[i].update}
               initial(k) == DefinitionPlaces(view, k) \ updates(k)
               legal(k) == /\ Cardinality(initial(k)) = 1
                           /\ \A i \in initial(k), u \in updates(k) : i < u
           IN  {Finding("OC6104", <<v, k>>) : k \in {j \in keys : ~legal(j)}}
           : v \in OfKind(views, {"upf"})}

-----------------------------------------------------------------------------
(* Clocks *)

KnownClocks(views) ==
    UNION {{<<v, i>> : i \in {j \in DOMAIN views[v].clocks :
                                views[v].clocks[j].known}} :
             v \in ReadingViews(views)}

ClockOf(views, c) == views[c[1]].clocks[c[2]]

PortVariants(component, port) == NameVariants(<<port>>, <<component>>)

(* The ports of the design a target names. *)
TargetPorts(views, target) ==
    {<<c, p>> \in UNION {{c} \X DesignPorts(views, c) :
                           c \in DesignComponents(views)} :
       \/ target \in PortVariants(c, p)
       \/ /\ Len(target) = 1 /\ target[1] \in DOMAIN Selects
          /\ PortVariants(c, p) \cap Selects[target[1]] # {}}

ResolvedTargets(views, targets) ==
    UNION {LET hit == TargetPorts(views, t)
           IN  IF hit = {} THEN {t} ELSE hit : t \in targets}

ClockDiffers(views, named) ==
    LET clocks == {ClockOf(views, c) : c \in named}
    IN  \/ \E f \in {"period", "waveform", "source"} :
              Differ({c[f] : c \in clocks} \ {None})
        \/ Differ({c.generated : c \in clocks})
        \/ Differ({ResolvedTargets(views, c.targets) : c \in clocks})

KnownRoles(views, component, port) ==
    {views[v].ports[port].role :
       v \in {w \in ReadingViews(views) :
                /\ views[w].component = component
                /\ port \in PortNames(views[w])
                /\ views[w].ports[port].status = "known"
                /\ views[w].ports[port].states["role"] \in {None, "known"}}}
      \ {None}

ClockFindings(views) ==
    LET known == KnownClocks(views)
        names == {ClockOf(views, c).name : c \in known}
        named(n) == {c \in known : ClockOf(views, c).name = n}
        targeted(c) == {tp \in UNION {{k} \X DesignPorts(views, k) :
                                        k \in DesignComponents(views)} :
                          PortVariants(tp[1], tp[2])
                            \cap ClockOf(views, c).targets # {}}
        noClock(tp) == LET roles == KnownRoles(views, tp[1], tp[2])
                       IN  roles # {} /\ "clock" \notin roles
    IN  {Finding("OC6002", n) : n \in {m \in names :
                                         ClockDiffers(views, named(m))}}
        \cup {Finding("OC6003", tp) :
                tp \in {t \in UNION {targeted(c) : c \in known} : noClock(t)}}

-----------------------------------------------------------------------------
(* Interfaces: each logical port maps to a physical one, perhaps some of   *)
(* its bits.                                                               *)

InterfaceComponent(view, i) ==
    IF i.component # None THEN i.component ELSE view.component

InterfaceFindings(views) ==
    LET all == UNION {{v} \X {i \in views[v].interfaces : i.known} :
                        v \in ReadingViews(views)}
        component(x) == InterfaceComponent(views[x[1]], x[2])
        known == {x \in all : component(x) \in DesignComponents(views)}
        physical(x) == {x[2].maps[l].port : l \in DOMAIN x[2].maps}
        mappedTo(x, p) == {l \in DOMAIN x[2].maps : x[2].maps[l].port = p}
    IN  UNION {{Finding("OC6201", <<x[1], x[2].name, p>>) :
                  p \in physical(x) \ DesignPorts(views, component(x))}
               \cup {Finding("OC6202", <<x[1], x[2].name, p>>) :
                       p \in {q \in physical(x) :
                                /\ ~x[2].manyToOne
                                /\ Cardinality(mappedTo(x, q)) > 1}}
               : x \in known}

-----------------------------------------------------------------------------
(* Package pin maps: rows of a package ball, a die pad and a signal *)

Rows(views, vs) ==
    UNION {{<<v, i>> : i \in DOMAIN views[v].mappings} : v \in vs}

RowOf(views, r) == views[r[1]].mappings[r[2]]

Connects(signal) == signal # None /\ signal \notin NoConnect

(* The pads the physical views place: pad and signal of their pin texts. *)
PhysicalPads(views) ==
    {p \in {RowOf(views, r) : r \in Rows(views, {v \in ReadingViews(views) :
                                                   ViewKind[v] # "package"})} :
       p.physical /\ p.pad # None /\ p.known}

PinMapFindings(views) ==
    LET known == {r \in Rows(views, OfKind(views, {"package"})) :
                    RowOf(views, r).known}
        complete(r) == LET m == RowOf(views, r)
                       IN  m.ball # None /\ (m.pad # None \/ m.signal # None)
        rows == {r \in known : complete(r)}
        value == [r \in rows |-> RowOf(views, r)]
        pads == PhysicalPads(views)
        placed(m) == {p.signal : p \in {q \in pads : q.pad = m.pad
                                          /\ Connects(q.signal)}}
        onBall(b) == {r \in rows : value[r].ball = b}
        balls == {value[r].ball : r \in rows}
        usedPads == {value[r].pad : r \in rows} \ {None}
        ballsOf(p) == {value[r].ball : r \in {s \in rows : value[s].pad = p}}
        signals(b) == {value[r].signal : r \in {s \in onBall(b) :
                                                  Connects(value[s].signal)}}
    IN  {Finding("OC5006", r) : r \in known \ rows}
        \cup {Finding("OC5001", r) :
                r \in {s \in rows : /\ value[s].pad # None /\ pads # {}
                                    /\ \A p \in pads : p.pad # value[s].pad}}
        \cup {Finding("OC5005", r) :
                r \in {s \in rows : /\ Connects(value[s].signal)
                                    /\ placed(value[s]) # {}
                                    /\ value[s].signal \notin placed(value[s])}}
        \cup {Finding("OC5002", r) :
                r \in {s \in rows :
                         LET m == value[s]
                         IN  /\ m.component \in DesignComponents(views)
                             /\ Connects(m.signal)
                             /\ m.signal \notin DesignPorts(views, m.component)}}
        \cup (IF AllowMultiBond
                THEN {Finding("OC5005", b) : b \in {c \in balls :
                                                      Differ(signals(c))}}
                ELSE {Finding("OC5003", b) :
                        b \in {c \in balls : Cardinality(onBall(c)) > 1}}
                     \cup {Finding("OC5004", p) :
                             p \in {q \in usedPads : Differ(ballsOf(q))}})

=============================================================================
