------------------------------- MODULE Checks -------------------------------
(***************************************************************************)
(* One analysis of a project (engine.py, CollationEngine.run): the views   *)
(* are read one after another, the values they state of ports, functions,  *)
(* registers, references, clocks, interfaces and pins are compared with    *)
(* one another and with the frozen contract, the connectivity rows are     *)
(* decided by bounded searches, and checker plugins add their findings.    *)
(* A report may be frozen as the contract and the project analysed again,  *)
(* after a view changed or not.                                            *)
(*                                                                         *)
(* An adapter may lose part of a source and say so: truth is what the      *)
(* source holds, facts what its adapter reports of it.                     *)
(***************************************************************************)
EXTENDS Ports, Registers, Bindings, PinFunctions, Connectivity, Plugins

CONSTANTS
    Sources,    \* [project -> [its views -> readings, [full, read]]]
    Checkers,   \* checkers a host may register
    MaxEdits,   \* bound: [project -> views changed after the freeze]
    MaxHosting  \* bound: [project -> registry operations of a host]

ASSUME ChecksAssumption ==
    /\ \A p \in DOMAIN Sources : DOMAIN Sources[p] \subseteq Views
    /\ MaxEdits \in [DOMAIN Sources -> Nat]
    /\ MaxHosting \in [DOMAIN Sources -> Nat]

VARIABLES
    project,   \* what is analysed
    truth,     \* [views -> what the source holds, None before it is read]
    facts,     \* [views -> what the adapter reports]
    registry,  \* checker plugins
    contract,  \* the frozen [ports, registers] with the report it froze
    phase,     \* "reading", "checking", "searching", "asking", "reported"
    report,    \* the findings of the engine's own checks so far
    asked,     \* checker plugins: [left, found], those still to run and
               \* what the others found
    todo,      \* connectivity rows still to be decided
    search,    \* the row being decided, None between rows
    edits,
    hosting    \* history: what a host did to the registry, and the runs

vars == <<project, truth, facts, registry, contract, phase, report, asked,
          todo, search, edits, hosting>>

-----------------------------------------------------------------------------
(* The checks that need no search *)

BlankView ==
    [component |-> None, ports |-> << >>, functions |-> << >>,
     complete |-> TRUE, tainted |-> {}, declares |-> {}, registers |-> << >>,
     objects |-> << >>, clocks |-> << >>, interfaces |-> {},
     mappings |-> << >>, rows |-> << >>, endpoints |-> << >>,
     graph |-> [edges |-> {}, complete |-> TRUE, nodes |-> {}]]

(* The port as each view has it. *)
Collated(views, port) ==
    [v \in Views |-> IF views[v] # None /\ port \in DOMAIN views[v].ports
                       THEN views[v].ports[port] ELSE None]

AllPorts(views) ==
    UNION {DOMAIN views[v].ports : v \in ReadingViews(views)}

FrozenOf(frozen, port) ==
    IF frozen # None /\ port \in DOMAIN frozen.ports THEN frozen.ports[port]
    ELSE None

ReadingFindings(views) ==
    {Finding("OC1104", v) : v \in {w \in ReadingViews(views) :
                                     ~views[w].complete}}
    \cup UNION {{Finding(c, v) : c \in ReadRequirements(views[v].rows).codes} :
                  v \in ReadingViews(views)}

StaticFindings(views, frozen) ==
    ReadingFindings(views)
    \cup UNION {{Finding(f.code, p) :
                   f \in PortFindings(Collated(views, p), FrozenOf(frozen, p))} :
                  p \in AllPorts(views)}
    \cup FunctionFindings(views)
    \cup PinMapFindings(views)
    \cup ReferenceFindings(views)
    \cup DuplicateFindings(views)
    \cup ClockFindings(views)
    \cup InterfaceFindings(views)
    \cup RegisterMapFindings(views,
                             IF frozen = None THEN None ELSE frozen.registers)

(* The known rows of every view, each on the endpoints of every RTL view. *)
Rtl(views) == OfKind(views, {"rtl"})

ViewsInOrder(vs) == SelectSeq(ViewOrder, LAMBDA v : v \in vs)

RowsToDecide(views) ==
    LET known(v) == SelectSeq(ReadRequirements(views[v].rows).rows,
                              LAMBDA r : r.known)
        rtl == ViewsInOrder(Rtl(views))
        pairs(r) == [i \in DOMAIN rtl |->
                       [about |-> [row |-> r, rtl |-> rtl[i]],
                        problem |-> Problem(r, views[rtl[i]].endpoints)]]
        ofView(v) == FlattenSeq([i \in DOMAIN known(v) |-> pairs(known(v)[i])])
        order == ViewsInOrder(ReadingViews(views))
    IN  FlattenSeq([i \in DOMAIN order |-> ofView(order[i])])

Frozen(views) ==
    [ports |-> [p \in AllPorts(views) |-> FrozenPort(Collated(views, p))],
     registers |-> FrozenRegisters(views)]

-----------------------------------------------------------------------------
(* The analysis *)

ProjectViews == DOMAIN Sources[project]

NobodyAsked == [left |-> << >>, found |-> {}]

Init ==
    /\ project \in DOMAIN Sources
    /\ truth = [v \in Views |-> None]
    /\ facts = truth
    /\ registry = EmptyRegistry
    /\ contract = None
    /\ phase = "reading"
    /\ report = {}
    /\ asked = NobodyAsked
    /\ todo = << >>
    /\ search = None
    /\ edits = 0
    /\ hosting = << >>

(* The next view is read, whole or with a loss it declares. *)
Parse(v) ==
    /\ phase = "reading"
    /\ v \in ProjectViews
    /\ facts[v] = None
    /\ \A w \in ProjectViews : facts[w] = None => IndexOf(v) <= IndexOf(w)
    /\ \E s \in Sources[project][v] :
          /\ truth' = [truth EXCEPT ![v] = s.full]
          /\ facts' = [facts EXCEPT ![v] = s.read]
    /\ UNCHANGED <<project, registry, contract, phase, report, asked, todo,
                   search, edits, hosting>>

AllRead ==
    /\ phase = "reading"
    /\ \A v \in ProjectViews : facts[v] # None
    /\ phase' = "checking"
    /\ UNCHANGED <<project, truth, facts, registry, contract, report, asked,
                   todo, search, edits, hosting>>

Check ==
    /\ phase = "checking"
    /\ report' = StaticFindings(facts, contract)
    /\ asked' = NobodyAsked
    /\ todo' = RowsToDecide(facts)
    /\ phase' = "searching"
    /\ UNCHANGED <<project, truth, facts, registry, contract, search, edits,
                   hosting>>

(* Unless its selectors settle a row, its first search begins. *)
StartRow ==
    /\ phase = "searching"
    /\ search = None
    /\ todo # << >>
    /\ todo' = Tail(todo)
    /\ LET item == Head(todo)
           p == item.problem
           at == FirstStage(p)
       IN  /\ report' = report \cup {Finding(c, item.about) : c \in p.codes}
           /\ search' = IF p.codes # {} THEN None
                        ELSE [about |-> item.about, problem |-> p, at |-> at,
                              open |-> OpenSearch(p, QueryOf(p, at)),
                              visited |-> {}, doubt |-> FALSE]
    /\ UNCHANGED <<project, truth, facts, registry, contract, phase, asked,
                   edits, hosting>>

GraphOf(s) == facts[s.about.rtl].graph

Arrived(s) ==
    /\ s.open.queue # << >>
    /\ Reached(s.problem, QueryOf(s.problem, s.at), Head(s.open.queue))

Outcome(s) == IF s.open.limited THEN "limited"
              ELSE IF Arrived(s) THEN "found" ELSE "none"

Over(s) == s.open.limited \/ s.open.queue = << >> \/ Arrived(s)

ExpandSearch ==
    /\ search # None
    /\ ~Over(search)
    /\ search' = [search EXCEPT
                    !.open = Expand(search.problem,
                                    QueryOf(search.problem, search.at),
                                    GraphOf(search).edges, @)]
    /\ UNCHANGED <<project, truth, facts, registry, contract, phase, report,
                   asked, todo, edits, hosting>>

(* What the search found leads to the next one or to a verdict. *)
Conclude ==
    /\ search # None
    /\ Over(search)
    /\ LET s == search
           outcome == Outcome(s)
           visited == IF s.at.stage = "direct" THEN VisitedNodes(s.open)
                                               ELSE s.visited
           doubt == \/ s.doubt
                    \/ outcome = "limited"
                    \/ s.at.stage = "maybe" /\ outcome = "found"
           next == IF s.problem.row.expect = "reachable"
                     THEN AfterReachable(s.problem, GraphOf(s), s.at, outcome,
                                         visited)
                     ELSE AfterUnreachable(s.problem, GraphOf(s), s.at,
                                           outcome, doubt)
       IN  IF "verdict" \in DOMAIN next
             THEN /\ search' = None
                  /\ report' = report \cup
                       FindingIf(next.verdict # None, next.verdict, s.about)
             ELSE /\ search' = [s EXCEPT
                        !.at = next, !.visited = visited, !.doubt = doubt,
                        !.open = OpenSearch(s.problem,
                                            QueryOf(s.problem, next))]
                  /\ report' = report
    /\ UNCHANGED <<project, truth, facts, registry, contract, phase, asked,
                   todo, edits, hosting>>

(* Last, the checker plugins.  Which ones is settled when they begin. *)
StartCheckers ==
    /\ phase = "searching"
    /\ search = None
    /\ todo = << >>
    /\ registry' = Discovered(registry)
    /\ asked' = [left |-> ListedCheckers(registry'),
                 found |-> registry'.discovered.failures]
    /\ hosting' = Append(hosting, [did |-> "run"])
    /\ phase' = "asking"
    /\ UNCHANGED <<project, truth, facts, contract, report, todo, search, edits>>

RunChecker ==
    /\ phase = "asking"
    /\ asked.left # << >>
    /\ asked' = [left |-> Tail(asked.left),
                 found |-> asked.found \cup CheckerOutcome(Head(asked.left))]
    /\ UNCHANGED <<project, truth, facts, registry, contract, phase, report,
                   todo, search, edits, hosting>>

AllAsked ==
    /\ phase = "asking"
    /\ asked.left = << >>
    /\ phase' = "reported"
    /\ UNCHANGED <<project, truth, facts, registry, contract, report, asked,
                   todo, search, edits, hosting>>

(* The generated contract of a run is saved, and the project run again.    *)
(* clean remembers, for the properties, whether it had findings.           *)
Freeze ==
    /\ phase = "reported"
    /\ contract = None
    /\ contract' = [ports |-> Frozen(facts).ports,
                    registers |-> Frozen(facts).registers,
                    clean |-> report = {}]
    /\ phase' = "checking"
    /\ UNCHANGED <<project, truth, facts, registry, report, asked, todo,
                   search, edits, hosting>>

Revise(v) ==
    /\ phase = "reported"
    /\ contract # None
    /\ edits < MaxEdits[project]
    /\ v \in ProjectViews
    /\ \E s \in Sources[project][v] :
          /\ s.read # facts[v]
          /\ truth' = [truth EXCEPT ![v] = s.full]
          /\ facts' = [facts EXCEPT ![v] = s.read]
    /\ edits' = edits + 1
    /\ phase' = "checking"
    /\ UNCHANGED <<project, registry, contract, report, asked, todo, search,
                   hosting>>

Hosted(step, changed) ==
    /\ hosting' = Append(hosting, step)
    /\ registry' = changed

HostSteps == {i \in DOMAIN hosting : hosting[i].did # "run"}

(* A host of the engine changes the registry or the environment between    *)
(* runs or, from another thread or a checker itself, while checkers run;   *)
(* or it asks for the inventory of plugins, which discovers them.          *)
Host ==
    /\ phase \in {"reading", "asking", "reported"}
    /\ Cardinality(HostSteps) < MaxHosting[project]
    /\ \/ \E c \in Checkers, replace \in BOOLEAN :
             IF IsRegistered(registry, c.name) /\ ~replace
               THEN Hosted([did |-> "refused"], registry)
               ELSE Hosted([did |-> "register", checker |-> c],
                           RegisterChecker(registry, c))
       \/ \E n \in {c.name : c \in Checkers} :
             Hosted([did |-> "unregister", name |-> n],
                    UnregisterChecker(registry, n))
       \/ \E clear \in BOOLEAN :
             Hosted([did |-> "reset", clear |-> clear],
                    ResetDiscovery(registry, clear))
       \/ Hosted([did |-> "switch"], SwitchPlugins(registry))
       \/ Hosted([did |-> "inventory"], Discovered(registry))
    /\ phase' = IF phase = "reported" THEN "checking" ELSE phase
    /\ UNCHANGED <<project, truth, facts, contract, report, asked, todo, search,
                   edits>>

(* What decides the connectivity rows and ends the analysis. *)
Search ==
    \/ StartRow \/ ExpandSearch \/ Conclude
    \/ StartCheckers \/ RunChecker \/ AllAsked

Next ==
    \/ \E v \in Views : Parse(v) \/ Revise(v)
    \/ AllRead
    \/ Check
    \/ Search
    \/ Freeze
    \/ Host

(* One thread searches and waits for nothing but checkers, which return. *)
Spec == Init /\ [][Next]_vars /\ WF_vars(Search)

-----------------------------------------------------------------------------
(* Properties *)

Reported == phase = "reported"

(* What is known of a value of a port, the frozen value included. *)
KnownValues(port, field) ==
    LET ports == Collated(facts, port)
        frozen == FrozenOf(contract, port)
    IN  {[value |-> ports[v][field], ordered |-> ports[v].orderKnown] :
           v \in {w \in Reporting(ports) : /\ StateFor(ports[w], field) = "known"
                                          /\ Given(field, ports[w][field])}}
        \cup IF frozen # None /\ Given(field, frozen[field])
               THEN {[value |-> frozen[field], ordered |-> TRUE]} ELSE {}

PortsAgree ==
    \A port \in AllPorts(facts) :
        LET shapes == KnownValues(port, "shape")
        IN  /\ \A field \in {"direction", "role"} :
                  ~Differ({k.value : k \in KnownValues(port, field)})
            /\ \A a, b \in shapes :
                  /\ SameBus(a.value, b.value)
                  /\ (\A k \in shapes : k.ordered)
                       => SameDirectionOfBits(a.value, b.value)

FunctionsAgree ==
    \A v, w \in ReadingViews(facts) :
        \A o \in DOMAIN facts[v].functions \cap DOMAIN facts[w].functions :
            ViewKind[v] # ViewKind[w]
              => SameMeaning(facts[v].functions[o], facts[w].functions[o])

(* Two views mean the same register by a name when none of them has it in  *)
(* two places, or when they place it alike.                                *)
RegistersAgree ==
    LET regs == WithContract(facts, IF contract = None THEN None
                                    ELSE contract.registers)
        several(base) == \E v \in DOMAIN regs :
                            Cardinality({ScopeOf(regs, e) :
                               e \in {f \in OfBase(regs, base) : f[1] = v}}) > 1
    IN  /\ \A d, e \in Entries(regs) :
              /\ d[1] # e[1] /\ BaseName(regs, d) = BaseName(regs, e)
              /\ several(BaseName(regs, d)) => ScopeOf(regs, d) = ScopeOf(regs, e)
              => SameRegister(Entry(regs, d), Entry(regs, e))
        /\ \A e \in Entries(regs) :
              Entry(regs, e).known => ~FieldsShareBit(Entry(regs, e))

(* A path in the design, without the name of its top component. *)
FromTop(tops, scope, name) ==
    LET path == IF IsStrictPrefix(scope, name) THEN name ELSE scope \o name
    IN  IF Len(path) > 1 /\ Head(path) \in tops THEN Tail(path) ELSE path

DesignPaths(kind) ==
    LET tops == DesignComponents(facts)
        paths(view) ==
          {FromTop(tops, o.scope, o.name) :
             o \in {d \in ObjectsOf(view, "definition") : d.kind = kind}}
          \cup (IF kind = "port" THEN {<<p>> : p \in PortNames(view)} ELSE {})
    IN  UNION {paths(facts[v]) : v \in Rtl(facts)}

(* A reference that spells a path of the design names an object there. *)
ReferencesMet ==
    \A v \in OfKind(facts, {"sdc", "upf", "def"}) :
        \A ref \in ObjectsOf(facts[v], "reference") :
            /\ Rtl(facts) # {}
            /\ ref.mode = "exact"
            /\ ReferenceKind(v, ref) \in RtlObject
            => FromTop(DesignComponents(facts), ref.scope, ref.name)
                 \in DesignPaths(ReferenceKind(v, ref))

(* A clock has one period, a ball one signal, a pad one ball. *)
ClocksAndPinsAgree ==
    LET rows == Rows(facts, OfKind(facts, {"package"}))
        pins == {m \in {RowOf(facts, r) : r \in rows} : m.known}
    IN  /\ \A c, d \in {ClockOf(facts, k) : k \in KnownClocks(facts)} :
              c.name = d.name => AgreeWhereStated(c.period, d.period)
        /\ ~AllowMultiBond => \A m, n \in pins : /\ m.ball = n.ball => m = n
                                                 /\ m.pad # None /\ m.pad = n.pad
                                                    => m.ball = n.ball

RowsMet(views, graphs(_)) ==
    \A v \in ReadingViews(views), rtl \in Rtl(views) :
        \A i \in DOMAIN views[v].rows :
            LET p == Problem(views[v].rows[i], views[rtl].endpoints)
            IN  p.codes = {} /\ \A wires \in graphs(views[rtl].graph) :
                                   Satisfied(p, wires)

(* An analysis without a finding means that the sources agree, judged      *)
(* without the engine's groupings and searches: buses have the same bits,  *)
(* functions the same truth table, registers of one place the same layout  *)
(* and no shared bits, references name objects of the design, and every    *)
(* connectivity row holds in every netlist the RTL view may stand for      *)
(* (CollationEngine.run).                                                  *)
CleanMeansSame ==
    Reported /\ report = {}
      => /\ PortsAgree
         /\ FunctionsAgree
         /\ RegistersAgree
         /\ ReferencesMet
         /\ ClocksAndPinsAgree
         /\ RowsMet(facts, Worlds)

(* An error says what is so: a row found violated fails in every netlist   *)
(* the view may stand for, functions found different differ for some       *)
(* input, and a layout found invalid has fields that share a bit or leave  *)
(* the register (_check_connectivity, _check_functions, _check_registers). *)
AccusationsHold ==
    Reported => \A f \in report :
        /\ \/ f.code \in {"OC6503", "OC6504", "OC6508"}
           \/ f.code = "OC6507" /\ Exact(f.object.row)
           => LET view == facts[f.object.rtl]
                  p == Problem(f.object.row, view.endpoints)
              IN  \A wires \in Worlds(view.graph) : ~Satisfied(p, wires)
        /\ f.code = "OC4301"
           => \E v, w \in WithFunction(facts, f.object) :
                ~SameMeaning(facts[v].functions[f.object],
                             facts[w].functions[f.object])
        /\ f.code = "OC6309"
           => LET regs == WithContract(facts, IF contract = None THEN None
                                              ELSE contract.registers)
              IN  \E e \in GroupMembers(regs, f.object) :
                    FieldsShareBit(Entry(regs, e)) \/ FieldTooWide(Entry(regs, e))

(* Findings that accuse no source of being wrong. *)
Doubts == {"OC1101", "OC1104", "OC1105", "OC4106", "OC4302", "OC6505"}

Errors(findings) == {f \in findings : f.code \notin Doubts}

TheWires(graph) ==
    {{[from |-> e.from, to |-> e.to, parity |-> e.parity] : e \in graph.edges}}

(* Sources that agree are not accused because an adapter lost part of one  *)
(* and said so ("a tainted width or dynamic Tcl reference cannot silently  *)
(* create a pass or an absent-object error", docs/architecture.md:57).     *)
LossNeverAccuses ==
    /\ Reported
    /\ Errors(StaticFindings(truth, contract)) = {}
    /\ RowsMet(truth, TheWires)
    => Errors(report) = {}

(* The contract a clean analysis saves says what the sources say: an       *)
(* analysis with it is clean as long as nothing changes                    *)
(* (docs/canonical-contract.md).                                           *)
FreshContractAgrees ==
    Reported /\ contract # None /\ edits = 0 /\ HostSteps = {}
      => (contract.clean => report = {})

(* A port value that is stated but not known. *)
StatesTheUnknown ==
    \E v \in ReadingViews(facts) : \E p \in PortNames(facts[v]) :
        \E field \in {"direction", "role", "shape"} :
            LET port == facts[v].ports[p]
            IN  Given(field, port[field]) /\ StateFor(port, field) # "known"

(* The same, when no view states a port value it does not know: those are  *)
(* frozen like any other (build_contract).                                 *)
FreshContractOfKnownAgrees == ~StatesTheUnknown => FreshContractAgrees

(* What a run owes an answer for, told from the history alone: checkers    *)
(* that a host has registered and not withdrawn when the run begins, and   *)
(* those installed, unless they were discovered while plugins were         *)
(* disabled: what a process has discovered it remembers.                   *)
LastRun == CHOOSE i \in DOMAIN hosting :
              /\ hosting[i].did = "run"
              /\ \A j \in DOMAIN hosting : hosting[j].did = "run" => j <= i

Withdraws(step, name) ==
    \/ step.did = "unregister" /\ step.name = name
    \/ step.did = "reset" /\ step.clear
    \/ step.did = "register" /\ step.checker.name = name

Promised(run) ==
    {hosting[i].checker :
       i \in {k \in 1..run : /\ hosting[k].did = "register"
                            /\ \A j \in (k + 1)..run :
                                  ~Withdraws(hosting[j], hosting[k].checker.name)}}

DisabledAt(i) ==
    Cardinality({j \in 1..i : hosting[j].did = "switch"}) % 2 = 1

DiscoversFor(i, run) ==
    /\ hosting[i].did \in {"run", "inventory"}
    /\ \A j \in 1..run :
          /\ hosting[j].did = "reset" => j < i
          /\ hosting[j].did \in {"run", "inventory"} /\ j < i
               => \E k \in j..i : hosting[k].did = "reset"

Installed(run) ==
    {EntryPoints[i].checker :
       i \in {k \in DOMAIN EntryPoints :
                \E d \in 1..run : DiscoversFor(d, run) /\ ~DisabledAt(d)}}

Failures(checker) ==
    {PluginFailure(checker, p) : p \in {"discovery", "execution"}}

(* A report answers for every checker it owes, with all that the checker   *)
(* found or with its failure, be it to load, to have a name of its own or  *)
(* to end; and it has nothing from a checker that was withdrawn or is      *)
(* disabled, whatever happened to the registry before and meanwhile        *)
(* (run_checker_plugins: "without allowing a crash to pass analysis").     *)
CheckersAnswer ==
    Reported =>
        LET owed == Promised(LastRun) \cup Installed(LastRun)
            complete(c) == c.does = "returns" /\ c.findings \subseteq asked.found
        IN  /\ \A c \in owed :
                  complete(c) \/ Failures(c) \cap asked.found # {}
            /\ asked.found \subseteq UNION {c.findings \cup Failures(c) : c \in owed}

(* Searches end: an analysis that has begun comes to its report            *)
(* (_find_connectivity_path, _check_connectivity).                         *)
SearchEnds == phase = "searching" ~> Reported

=============================================================================
