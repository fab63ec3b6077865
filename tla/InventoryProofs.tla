-------------------------- MODULE InventoryProofs --------------------------
(***************************************************************************)
(* What a check and a generated contract promise, for all projects, all    *)
(* files, all honest parsers and all histories of edits.                   *)
(***************************************************************************)
EXTENDS Inventory, TLAPS

-----------------------------------------------------------------------------
(* The configuration does not change while the files do, so a run reports  *)
(* the same of the same input.                                             *)

LEMMA SameNames ==
    ASSUME project' = project, NEW CONSTANT r, NEW CONSTANT kind,
           NEW CONSTANT component, NEW CONSTANT v, NEW CONSTANT n
    PROVE  /\ Collides(r, kind, component, v, n)' <=> Collides(r, kind, component, v, n)
           /\ Resolve(r, kind, component, v, n)' = Resolve(r, kind, component, v, n)
BY DEF Resolve, Candidates, Collides

LEMMA SameInput ==
    ASSUME UNCHANGED <<project, obs, aliases, contract>>
    PROVE  Input' = Input
BY DEF Input, InputWith, ContractRules, NameRules, PortRules, Rule, SameKey, View

LEMMA SameMembers ==
    ASSUME project' = project, NEW CONSTANT r, NEW CONSTANT c
    PROVE  /\ Definitions(r)' = Definitions(r)
           /\ Members(r, c)' = Members(r, c)
           /\ MemberViews(r, c)' = MemberViews(r, c)
           /\ Design(r)' = Design(r)
<1>1. Definitions(r)' = Definitions(r)
    BY DEF Definitions, View
<1>2. Members(r, c)' = Members(r, c) /\ Design(r)' = Design(r)
    BY <1>1, SameNames DEF Members, Design, ComponentName
<1>3. QED
    BY <1>1, <1>2 DEF MemberViews

LEMMA SamePorts ==
    ASSUME project' = project, NEW CONSTANT r, NEW CONSTANT c, NEW CONSTANT q
    PROVE  /\ PortFacts(r, c)' = PortFacts(r, c)
           /\ Ports(r, c)' = Ports(r, c)
           /\ PortMembers(r, c, q)' = PortMembers(r, c, q)
           /\ PortViews(r, c, q)' = PortViews(r, c, q)
<1>1. PortFacts(r, c)' = PortFacts(r, c)
    BY SameMembers DEF PortFacts
<1>2. QED
    BY <1>1, SameNames DEF Ports, PortViews, PortMembers, CanonicalPortName

LEMMA SameRequired ==
    ASSUME project' = project, NEW CONSTANT r, NEW CONSTANT c, NEW CONSTANT q
    PROVE  /\ RequiredViews(r, c)' = RequiredViews(r, c)
           /\ RequiredPortViews(r, c, q)' = RequiredPortViews(r, c, q)
<1>1. /\ ContractView' = ContractView
      /\ ParticipationViews(c)' = ParticipationViews(c)
      /\ OptionalViews(c)' = OptionalViews(c)
    BY DEF ContractView, ParticipationViews, OptionalViews, Participation, View
<1>2. FrozenViews(r, c)' = FrozenViews(r, c)
    BY <1>1 DEF FrozenViews, Frozen, Expand
<1>3. MemberViews(r, c)' = MemberViews(r, c)
    BY SameMembers
<1>4. RuledPortViews(r, c, q)' = RuledPortViews(r, c, q)
    BY <1>1, <1>3 DEF RuledPortViews, RuleAppliesToPort, DefaultPortViews,
                      Participation
<1>5. QED
    BY <1>1, <1>2, <1>3, <1>4
       DEF RequiredViews, RequiredPortViews, FilterOptionalPG, Frozen, Expand

LEMMA SameAliasDiagnostics ==
    ASSUME project' = project, NEW CONSTANT r
    PROVE  AliasDiagnostics(r)' = AliasDiagnostics(r)
<1>1. ASSUME NEW CONSTANT c
      PROVE  PortCollisions(r, c)' = PortCollisions(r, c)
    BY SameNames, SamePorts DEF PortCollisions
<1>2. {x \in Definitions(r) : Collides(r, "component", "", x[1], x[2])}'
        = {x \in Definitions(r) : Collides(r, "component", "", x[1], x[2])}
    <2>1. \A v, n : Collides(r, "component", "", v, n)'
                      <=> Collides(r, "component", "", v, n)
        BY SameNames
    <2>2. Definitions(r)' = Definitions(r)
        BY SameMembers
    <2>3. QED
        BY <2>1, <2>2
<1>3. Design(r)' = Design(r)
    BY SameMembers
<1>4. QED
    BY <1>1, <1>2, <1>3 DEF AliasDiagnostics

LEMMA SameDuplicateDiagnostics ==
    ASSUME project' = project, NEW CONSTANT r
    PROVE  DuplicateDiagnostics(r)' = DuplicateDiagnostics(r)
<1>1. ASSUME NEW CONSTANT c
      PROVE  DuplicateDefinitions(r, c)' = DuplicateDefinitions(r, c)
    <2>1. Members(r, c)' = Members(r, c) /\ View' = View
        BY SameMembers DEF View
    <2>2. QED
        BY <2>1 DEF DuplicateDefinitions
<1>2. ASSUME NEW CONSTANT c
      PROVE  DuplicatePorts(r, c)' = DuplicatePorts(r, c)
    <2>1. \A v, n : CanonicalPortName(r, c, v, n)' = CanonicalPortName(r, c, v, n)
        BY SameNames DEF CanonicalPortName
    <2>2. PortFacts(r, c)' = PortFacts(r, c)
        BY SamePorts
    <2>3. {x \in PortFacts(r, c) : \E y \in PortFacts(r, c) : Twins(r, c, x, y)}'
            = {x \in PortFacts(r, c) : \E y \in PortFacts(r, c) : Twins(r, c, x, y)}
        BY <2>1, <2>2 DEF Twins
    <2>4. QED
        BY <2>1, <2>3 DEF DuplicatePorts
<1>3. Design(r)' = Design(r)
    BY SameMembers
<1>4. QED
    BY <1>1, <1>2, <1>3 DEF DuplicateDiagnostics

LEMMA SameComponentDiagnostics ==
    ASSUME project' = project, NEW CONSTANT r
    PROVE  ComponentDiagnostics(r)' = ComponentDiagnostics(r)
<1>1. ASSUME NEW CONSTANT c
      PROVE  MissingComponentViews(r, c)' = MissingComponentViews(r, c)
    <2>1. /\ RequiredViews(r, c)' = RequiredViews(r, c)
          /\ MemberViews(r, c)' = MemberViews(r, c)
        BY SameRequired, SameMembers
    <2>2. QED
        BY <2>1 DEF MissingComponentViews, WholeViewTainted, View
<1>2. Design(r)' = Design(r) /\ View' = View
    BY SameMembers DEF View
<1>3. MissingComponents(r)' = MissingComponents(r)
    BY <1>1, <1>2 DEF MissingComponents
<1>4. ASSUME NEW CONSTANT k
      PROVE  ComponentsAgainst(k, r)' = ComponentsAgainst(k, r)
    BY <1>2 DEF ComponentsAgainst
<1>5. QED
    BY <1>3, <1>4 DEF ComponentDiagnostics

LEMMA SamePortDiagnostics ==
    ASSUME project' = project, NEW CONSTANT r, NEW CONSTANT c
    PROVE  PortDiagnostics(r, c)' = PortDiagnostics(r, c)
<1>1. ASSUME NEW CONSTANT q
      PROVE  MissingPortViews(r, c, q)' = MissingPortViews(r, c, q)
    <2>1. /\ RequiredPortViews(r, c, q)' = RequiredPortViews(r, c, q)
          /\ PortViews(r, c, q)' = PortViews(r, c, q)
          /\ Members(r, c)' = Members(r, c)
        BY SameRequired, SamePorts, SameMembers
    <2>2. QED
        BY <2>1 DEF MissingPortViews, ScopeTainted, WholeViewTainted, View
<1>2. Ports(r, c)' = Ports(r, c) /\ MemberViews(r, c)' = MemberViews(r, c)
    BY SamePorts, SameMembers
<1>3. MissingPorts(r, c)' = MissingPorts(r, c)
    BY <1>1, <1>2 DEF MissingPorts
<1>4. ASSUME NEW CONSTANT k
      PROVE  PortsAgainst(k, r, c)' = PortsAgainst(k, r, c)
    BY <1>2 DEF PortsAgainst
<1>5. QED
    BY <1>3, <1>4 DEF PortDiagnostics

LEMMA SameDiagnostics ==
    ASSUME project' = project, NEW CONSTANT r
    PROVE  Diagnostics(r)' = Diagnostics(r)
<1>1. Design(r)' = Design(r) /\ View' = View
    BY SameMembers DEF View
<1>2. IncompleteDiagnostics(r)' = IncompleteDiagnostics(r)
    BY <1>1 DEF IncompleteDiagnostics
<1>3. QED
    BY <1>1, <1>2, SameAliasDiagnostics, SameDuplicateDiagnostics,
       SameComponentDiagnostics, SamePortDiagnostics DEF Diagnostics

-----------------------------------------------------------------------------
(* What is true of every state.                                            *)

(* The state holds a configuration, and files in its views. *)
Configured ==
    /\ project \in Projects
    /\ aliases \in project.aliases
    /\ text \in [View -> Text]

(* No parser claims more of a file than it read. *)
Parsed ==
    /\ obs = [v \in View |-> obs[v]]
    /\ \A v \in View : Honest(text[v], obs[v])

(* A report is about the files, the aliases and the contract of now. *)
Told ==
    IF report.done THEN report.diagnostics = Diagnostics(Input)
                   ELSE report.diagnostics = {}

(* A contract names components of the views by names the files may hold. *)
NamesOfViews ==
    contract # NoContract =>
        \A c \in DOMAIN contract : \A v \in DOMAIN contract[c].names :
            v \in View /\ contract[c].names[v] \in CompName

IInv == Configured /\ Parsed /\ Told /\ NamesOfViews

LEMMA HonestOfAll ==
    ASSUME NEW t, NEW o, o = [comps |-> t, complete |-> TRUE, scopes |-> {}]
    PROVE  Honest(t, o)
BY DEF Honest

LEMMA InitHolds == Init => IInv
<1> SUFFICES ASSUME Init
             PROVE  IInv
    OBVIOUS
<1>1. Configured
    BY InventoryAssumption DEF Init, Configured, View, Text, PortName
<1>2. Parsed
    <2>1. obs = [v \in View |-> obs[v]]
        BY DEF Init
    <2>2. \A v \in View : obs[v] = [comps |-> text[v], complete |-> TRUE, scopes |-> {}]
        BY DEF Init
    <2>3. QED
        BY <2>1, <2>2, HonestOfAll DEF Parsed
<1>3. Told /\ NamesOfViews
    BY DEF Init, Told, NamesOfViews, NoReport
<1>4. QED
    BY <1>1, <1>2, <1>3 DEF IInv

LEMMA ConfiguredStep == IInv /\ [Next]_vars => Configured'
<1> SUFFICES ASSUME IInv, [Next]_vars
             PROVE  Configured'
    OBVIOUS
<1>1. project' = project
    BY DEF Next, vars, Edit, EditAliases, Check, ContractBuild
<1>2. View' = View /\ Text' = Text
    BY <1>1 DEF View, Text, PortName
<1>3. aliases' = aliases \/ aliases' \in project.aliases
    BY DEF Next, vars, Edit, EditAliases, Check, ContractBuild
<1>4. text' = text \/ \E v \in View, t \in Text : text' = [text EXCEPT ![v] = t]
    BY DEF Next, vars, Edit, EditAliases, Check, ContractBuild, EditedTexts
<1>5. QED
    BY <1>1, <1>2, <1>3, <1>4 DEF IInv, Configured

LEMMA ParsedStep == IInv /\ [Next]_vars => Parsed'
<1> SUFFICES ASSUME IInv, [Next]_vars
             PROVE  Parsed'
    OBVIOUS
<1>1. ASSUME NEW v \in View, Edit(v)
      PROVE  Parsed'
    <2>1. View' = View
        BY <1>1 DEF Edit, View
    <2>2. PICK t \in EditedTexts(text[v]) :
              /\ text' = [text EXCEPT ![v] = t]
              /\ \E o \in Parses(t) : obs' = [obs EXCEPT ![v] = o]
        BY <1>1 DEF Edit
    <2>3. PICK o \in Parses(t) : obs' = [obs EXCEPT ![v] = o]
        BY <2>2
    <2>4. Honest(t, o)
        BY <2>3 DEF Parses
    <2>5. text \in [View -> Text] /\ obs = [w \in View |-> obs[w]]
        BY DEF IInv, Configured, Parsed
    <2>6. \A w \in View : /\ text'[w] = IF w = v THEN t ELSE text[w]
                          /\ obs'[w] = IF w = v THEN o ELSE obs[w]
        BY <2>2, <2>3, <2>5
    <2>7. \A w \in View : Honest(text'[w], obs'[w])
        BY <2>4, <2>6 DEF IInv, Parsed
    <2>8. obs' = [w \in View |-> obs'[w]]
        BY <2>3, <2>5
    <2>9. QED
        BY <2>1, <2>7, <2>8 DEF Parsed, Honest
<1>2. CASE ~(\E v \in View : Edit(v))
    BY <1>2 DEF IInv, Parsed, Honest, View, Next, vars, EditAliases, Check, ContractBuild
<1>3. QED
    BY <1>1, <1>2

(* Nothing a report is about changes without the report.                   *)
LEMMA ToldStep == IInv /\ [Next]_vars => Told'
<1> SUFFICES ASSUME IInv, [Next]_vars
             PROVE  Told'
    OBVIOUS
<1>1. CASE report' = NoReport
    BY <1>1 DEF Told, NoReport
<1>2. CASE report' # NoReport
    <2>1. \/ Check
          \/ UNCHANGED <<project, obs, aliases, contract, report>>
        BY <1>2 DEF Next, vars, Edit, EditAliases, ContractBuild
    <2>2. project' = project /\ Input' = Input
        BY <2>1, SameInput DEF Check
    <2>3. \A r : Diagnostics(r)' = Diagnostics(r)
        BY <2>2, SameDiagnostics
    <2>4. Diagnostics(Input)' = Diagnostics(Input)
        BY <2>2, <2>3
    <2>5. QED
        BY <2>1, <2>4 DEF Check, IInv, Told
<1>3. QED
    BY <1>1, <1>2

LEMMA FrozenNameIsThere ==
    ASSUME NEW r, NEW c, NEW v \in MemberViews(r, c)
    PROVE  /\ v \in View
           /\ FrozenName(r, c, v) \in CompName
           /\ <<v, FrozenName(r, c, v)>> \in Members(r, c)
<1>1. PICK d \in Members(r, c) : d[1] = v
    BY DEF MemberViews
<1>2. d \in View \X CompName
    BY DEF Members, Definitions
<1>3. v \in View /\ d[2] \in CompName /\ <<v, d[2]>> \in Members(r, c)
    BY <1>1, <1>2
<1>4. QED
    BY <1>3 DEF FrozenName

LEMMA NamesOfViewsStep == IInv /\ [Next]_vars => NamesOfViews'
<1> SUFFICES ASSUME IInv, [Next]_vars
             PROVE  NamesOfViews'
    OBVIOUS
<1>1. project' = project
    BY DEF Next, vars, Edit, EditAliases, Check, ContractBuild
<1>2. CASE ContractBuild
    <2>1. contract' = BuildContract(Input)
        BY <1>2 DEF ContractBuild
    <2>2. \A c \in DOMAIN contract' :
              contract'[c].names = [v \in MemberViews(Input, c) |->
                                       FrozenName(Input, c, v)]
        BY <2>1 DEF BuildContract
    <2>3. ASSUME NEW c \in DOMAIN contract', NEW v \in DOMAIN contract'[c].names
          PROVE  v \in View /\ contract'[c].names[v] \in CompName
        <3>1. contract'[c].names = [w \in MemberViews(Input, c) |->
                                       FrozenName(Input, c, w)]
            BY <2>2
        <3>2. /\ v \in MemberViews(Input, c)
              /\ contract'[c].names[v] = FrozenName(Input, c, v)
            BY <2>3, <3>1
        <3>3. QED
            BY <3>2, FrozenNameIsThere
    <2>4. View' = View
        BY <1>1 DEF View
    <2>5. QED
        BY <2>3, <2>4 DEF NamesOfViews
<1>3. CASE contract' = contract
    BY <1>1, <1>3 DEF IInv, NamesOfViews, View
<1>4. QED
    BY <1>2, <1>3 DEF Next, vars, Edit, EditAliases, Check

LEMMA Invariance == Spec => []IInv
<1>1. IInv /\ [Next]_vars => IInv'
    BY ConfiguredStep, ParsedStep, ToldStep, NamesOfViewsStep DEF IInv
<1>2. QED
    BY <1>1, InitHolds, PTL DEF Spec

-----------------------------------------------------------------------------
(* Names.                                                                  *)

(* A contract rule has the closest rank.                                   *)
LEMMA RankOfRules ==
    ASSUME Configured, NEW k
    PROVE  /\ \A a \in ContractRules(k) : a.rank = 0
           /\ \A a \in InputWith(k).rules : a.rank \in Nat
<1>1. \A kind, component, canonical, native, v :
          Rule(kind, component, canonical, native, v).rank = 0
    BY DEF Rule, ContractRank
<1>2. ASSUME NEW n, NEW c
      PROVE  \A a \in NameRules(n, c) \cup PortRules(n, c) : a.rank = 0
    <2>1. \A a \in NameRules(n, c) : a.rank = 0
        BY <1>1 DEF NameRules
    <2>2. ASSUME NEW p
          PROVE  \A a \in {Rule("port", n, p, c.ports[p][v], v) :
                               v \in DOMAIN c.ports[p]} : a.rank = 0
        BY <1>1
    <2>3. \A a \in PortRules(n, c) : a.rank = 0
        BY <2>2 DEF PortRules
    <2>4. QED
        BY <2>1, <2>3
<1>3. \A a \in ContractRules(k) : a.rank = 0
    BY <1>2 DEF ContractRules
<1>4. \A a \in aliases : a.rank \in Nat
    BY InventoryAssumption DEF Configured
<1>5. InputWith(k).rules = aliases \cup ContractRules(k)
    BY DEF InputWith
<1>6. QED
    BY <1>3, <1>4, <1>5

(* A name in the contract is a candidate wherever its native name occurs.  *)
LEMMA FrozenNameIsCandidate ==
    ASSUME Configured, NEW k, NEW c \in DOMAIN Frozen(k),
           NEW v \in DOMAIN Frozen(k)[c].names, v \in View
    PROVE  c \in Candidates(InputWith(k), "component", "", v, Frozen(k)[c].names[v])
<1> DEFINE n == Frozen(k)[c].names[v]
           rule == Rule("component", "", c, n, v)
<1>1. rule \in InputWith(k).rules
    <2>1. rule \in NameRules(c, Frozen(k)[c])
        BY DEF NameRules
    <2>2. rule \in ContractRules(k)
        BY <2>1 DEF ContractRules
    <2>3. QED
        BY <2>2 DEF InputWith
<1>2. /\ rule.kind = "component" /\ rule.component = "" /\ rule.native = n
      /\ rule.rank = 0 /\ rule.canonical = c
      /\ v \in rule.views
    BY DEF Rule, ContractRank, SameKey
<1> HIDE DEF n, rule
<1>3. \A x \in InputWith(k).rules : rule.rank <= x.rank
    <2>1. \A x \in InputWith(k).rules : x.rank \in Nat
        BY RankOfRules
    <2>2. \A x \in InputWith(k).rules : 0 <= x.rank
        BY <2>1
    <2>3. rule.rank = 0
        BY <1>2
    <2>4. QED
        BY <2>2, <2>3
<1>4. c \in Candidates(InputWith(k), "component", "", v, n)
    BY <1>1, <1>2, <1>3 DEF Candidates
<1>5. QED
    BY <1>4 DEF n

(* Without a collision a candidate is the name.                            *)
LEMMA CandidateIsName ==
    ASSUME NEW r, NEW kind, NEW component, NEW v, NEW native,
           NEW c \in Candidates(r, kind, component, v, native),
           ~Collides(r, kind, component, v, native)
    PROVE  Resolve(r, kind, component, v, native) = c
BY DEF Resolve, Collides

(* A run that is not fatal had no collision.                               *)
LEMMA NoCollision ==
    ASSUME NEW r, ExitCode(Diagnostics(r)) # 2
    PROVE  /\ \A d \in Definitions(r) : ~Collides(r, "component", "", d[1], d[2])
           /\ \A c \in Design(r) : \A f \in PortFacts(r, c) :
                 ~Collides(r, "port", c, f[1], f[3])
<1>1. \A d \in AliasDiagnostics(r) : d.code # "OC2002"
    BY DEF ExitCode, Diagnostics
<1>2. \A x, y : Diag("OC2002", x, y).code = "OC2002"
    BY DEF Diag
<1>3. ASSUME NEW d \in Definitions(r), Collides(r, "component", "", d[1], d[2])
      PROVE  FALSE
    <2>1. Diag("OC2002", <<d[2]>>, {d[1]}) \in AliasDiagnostics(r)
        BY <1>3 DEF AliasDiagnostics
    <2>2. QED
        BY <1>1, <1>2, <2>1
<1>4. ASSUME NEW c \in Design(r), NEW f \in PortFacts(r, c),
             Collides(r, "port", c, f[1], f[3])
      PROVE  FALSE
    <2>1. Diag("OC2002", <<c, f[3]>>, {f[1]}) \in PortCollisions(r, c)
        BY <1>4 DEF PortCollisions
    <2>2. Diag("OC2002", <<c, f[3]>>, {f[1]}) \in AliasDiagnostics(r)
        BY <2>1 DEF AliasDiagnostics
    <2>3. QED
        BY <1>1, <1>2, <2>2
<1>5. QED
    BY <1>3, <1>4

LEMMA FrozenNames == IInv => FrozenNamesHold
<1> SUFFICES ASSUME IInv, report.done, contract # NoContract,
                    ExitCode(report.diagnostics) # 2,
                    NEW c \in DOMAIN contract,
                    NEW v \in DOMAIN contract[c].names,
                    contract[c].names[v] \in DOMAIN obs[v].comps
             PROVE  ComponentName(Input, v, contract[c].names[v]) = c
    BY DEF FrozenNamesHold
<1> DEFINE n == contract[c].names[v]
<1>1. v \in View /\ n \in CompName
    BY DEF IInv, NamesOfViews
<1>2. Input = InputWith(contract) /\ Input.obs = obs /\ Frozen(contract) = contract
    BY DEF Input, InputWith, Frozen
<1>3. <<v, n>> \in Definitions(Input)
    BY <1>1, <1>2 DEF Definitions
<1>4. ExitCode(Diagnostics(Input)) # 2
    BY DEF IInv, Told
<1>5. ~Collides(Input, "component", "", v, n)
    <2>1. <<v, n>>[1] = v /\ <<v, n>>[2] = n
        OBVIOUS
    <2>2. QED
        BY <1>3, <1>4, <2>1, NoCollision
<1>6. c \in Candidates(Input, "component", "", v, n)
    BY <1>1, <1>2, FrozenNameIsCandidate DEF IInv
<1>7. QED
    BY <1>5, <1>6, CandidateIsName DEF ComponentName

(* After any edits of the files and the alias tables, a native name that   *)
(* the contract gives a component either still means it or the run is      *)
(* fatal: _resolve compares it with the closest rules.                     *)
THEOREM FrozenNamesStay == Spec => []FrozenNamesHold
<1>1. QED
    BY Invariance, FrozenNames, PTL

-----------------------------------------------------------------------------
(* Absence.                                                                *)

(* View names in lower case: the key of a view is then parsed as itself,   *)
(* and a rule that names no view as it is spelled.                         *)
PlainKeys ==
    \A p \in Projects :
        /\ \A v \in p.views : FoldedKey[v] = v
        /\ \A i \in DOMAIN p.participation :
              \A w \in p.participation[i].views : FoldedKey[w] = w

(* What a project may require an object in. *)
Named(w) ==
    \/ w \in View
    \/ \E v \in View : w = FoldedKey[v]
    \/ \E i \in DOMAIN Participation : w \in Participation[i].views

(* A contract requires its components in no other. *)
RequiredIsNamed ==
    contract # NoContract =>
        \A c \in DOMAIN contract : \A w \in contract[c].required : Named(w)

LEMMA NamedIsPlain ==
    ASSUME PlainKeys, Configured, NEW w, Named(w)
    PROVE  FoldedKey[w] = w
BY DEF PlainKeys, Configured, Named, View, Participation

LEMMA ExpandIsNamed ==
    ASSUME NEW selected, selected \subseteq View,
           NEW active, active \subseteq View,
           NEW w \in Expand(selected, active)
    PROVE  Named(w)
<1> DEFINE hit(x) == {v \in active : FoldedKey[v] = FoldedKey[x]}
<1>1. PICK x \in selected : w \in IF hit(x) = {} THEN {FoldedKey[x]} ELSE hit(x)
    BY DEF Expand
<1>2. QED
    BY <1>1 DEF Named

LEMMA RequiredViewsAreNamed ==
    ASSUME NEW r, r.contract = contract, NamesOfViews, RequiredIsNamed,
           NEW c, NEW w \in RequiredViews(r, c)
    PROVE  Named(w)
<1>1. w \in View \/ w \in ParticipationViews(c) \/ w \in FrozenViews(r, c)
    BY DEF RequiredViews, ContractView
<1>2. CASE w \in ParticipationViews(c)
    BY <1>2 DEF ParticipationViews, Named
<1>3. CASE w \in FrozenViews(r, c)
    <2>1. contract # NoContract /\ c \in DOMAIN contract
        BY <1>3 DEF FrozenViews, Frozen
    <2>2. w \in contract[c].required
             \/ w \in Expand(DOMAIN contract[c].names, ContractView)
        BY <1>3, <2>1 DEF FrozenViews, Frozen
    <2>3. DOMAIN contract[c].names \subseteq View /\ ContractView \subseteq View
        BY <2>1 DEF NamesOfViews, ContractView
    <2>4. QED
        BY <2>1, <2>2, <2>3, ExpandIsNamed DEF RequiredIsNamed
<1>4. QED
    BY <1>1, <1>2, <1>3 DEF Named

LEMMA RequiredStep == IInv /\ RequiredIsNamed /\ [Next]_vars => RequiredIsNamed'
<1> SUFFICES ASSUME IInv, RequiredIsNamed, [Next]_vars
             PROVE  RequiredIsNamed'
    OBVIOUS
<1>1. project' = project
    BY DEF Next, vars, Edit, EditAliases, Check, ContractBuild
<1>2. ASSUME NEW CONSTANT w, Named(w)
      PROVE  Named(w)'
    BY <1>1, <1>2 DEF Named, View, Participation
<1>3. CASE ContractBuild
    <2>1. contract' = BuildContract(Input)
        BY <1>3 DEF ContractBuild
    <2>2. \A c \in DOMAIN contract' : contract'[c].required = RequiredViews(Input, c)
        BY <2>1 DEF BuildContract
    <2>3. ASSUME NEW CONSTANT c, NEW CONSTANT w \in RequiredViews(Input, c)
          PROVE  Named(w)
        BY RequiredViewsAreNamed DEF IInv, Input, InputWith
    <2>4. QED
        BY <1>2, <2>2, <2>3 DEF RequiredIsNamed
<1>4. CASE contract' = contract
    BY <1>2, <1>4 DEF RequiredIsNamed
<1>5. QED
    BY <1>3, <1>4 DEF Next, vars, Edit, EditAliases, Check

LEMMA RequiredInvariance == Spec => []RequiredIsNamed
<1>1. Init => RequiredIsNamed
    BY DEF Init, RequiredIsNamed
<1>2. QED
    BY <1>1, RequiredStep, Invariance, PTL DEF Spec

LEMMA TrueNames ==
    ASSUME NEW kind, NEW component, NEW v, NEW n
    PROVE  Resolve(TrueInput, kind, component, v, n)
             = Resolve(Input, kind, component, v, n)
<1>1. TrueInput.rules = Input.rules
    BY DEF TrueInput, Input, InputWith
<1>2. Candidates(TrueInput, kind, component, v, n)
        = Candidates(Input, kind, component, v, n)
    BY <1>1 DEF Candidates
<1>3. QED
    BY <1>2 DEF Resolve, Collides

(* Where a parser lost nothing of a component, a view that does not show   *)
(* it does not have it.                                                    *)
LEMMA NotShownIsNotThere ==
    ASSUME IInv, NEW v \in View, NEW c,
           ~WholeViewTainted(Input, v), v \notin MemberViews(Input, c)
    PROVE  ~HasComponent(v, c)
<1> SUFFICES ASSUME HasComponent(v, c)
             PROVE  FALSE
    OBVIOUS
<1>1. PICK d \in Members(TrueInput, c) : d[1] = v
    BY DEF HasComponent, MemberViews
<1>2. /\ d \in View \X CompName
      /\ d[2] \in DOMAIN TrueInput.obs[v].comps
      /\ ComponentName(TrueInput, v, d[2]) = c
    BY <1>1 DEF Members, Definitions
<1>3. TrueInput.obs[v].comps = text[v]
    BY DEF TrueInput, Input, InputWith
<1>4. ComponentName(Input, v, d[2]) = c
    BY <1>2, TrueNames DEF ComponentName
<1>5. DOMAIN obs[v].comps = DOMAIN text[v]
    BY DEF WholeViewTainted, Input, InputWith, IInv, Parsed, Honest
<1>6. d \in Members(Input, c)
    BY <1>1, <1>2, <1>3, <1>4, <1>5 DEF Members, Definitions, Input, InputWith
<1>7. QED
    BY <1>1, <1>6 DEF MemberViews

LEMMA PortNotShownIsNotThere ==
    ASSUME IInv, NEW v \in View, NEW c, NEW q,
           ~ScopeTainted(Input, v, {d[2] : d \in {m \in Members(Input, c) : m[1] = v}}),
           v \notin PortViews(Input, c, q)
    PROVE  ~HasPort(v, c, q)
<1> SUFFICES ASSUME HasPort(v, c, q)
             PROVE  FALSE
    OBVIOUS
<1> DEFINE natives == {d[2] : d \in {m \in Members(Input, c) : m[1] = v}}
<1>1. PICK f \in PortMembers(TrueInput, c, q) : f[1] = v
    BY DEF HasPort, PortViews
<1>2. f \in PortFacts(TrueInput, c) /\ CanonicalPortName(TrueInput, c, v, f[3]) = q
    BY <1>1 DEF PortMembers
<1>3. PICK d \in Members(TrueInput, c) :
          /\ d[1] \notin PackageView
          /\ f \in {<<d[1], d[2], p>> : p \in TrueInput.obs[d[1]].comps[d[2]]}
    BY <1>2 DEF PortFacts
<1>4. PICK p \in TrueInput.obs[d[1]].comps[d[2]] : f = <<d[1], d[2], p>>
    BY <1>3
<1>5. d[1] = v /\ p \in text[v][d[2]]
    BY <1>1, <1>4 DEF TrueInput, Input, InputWith
<1>6. /\ d \in View \X CompName
      /\ d[2] \in DOMAIN text[v]
      /\ ComponentName(TrueInput, v, d[2]) = c
    BY <1>5 DEF Members, Definitions, TrueInput, Input, InputWith
<1>7. ~WholeViewTainted(Input, v) /\ natives \cap obs[v].scopes = {}
    BY DEF ScopeTainted, Input, InputWith
<1>8. DOMAIN obs[v].comps = DOMAIN text[v]
    BY <1>7 DEF WholeViewTainted, Input, InputWith, IInv, Parsed, Honest
<1>9. ComponentName(Input, v, d[2]) = c
    BY <1>6, TrueNames DEF ComponentName
<1>10. d \in Members(Input, c)
    BY <1>5, <1>6, <1>8, <1>9 DEF Members, Definitions, Input, InputWith
<1>11. d[2] \in natives
    BY <1>5, <1>10
<1> HIDE DEF natives
<1>12. obs[v].comps[d[2]] = text[v][d[2]]
    BY <1>6, <1>7, <1>8, <1>11 DEF WholeViewTainted, Input, InputWith, IInv, Parsed, Honest
<1>13. f \in PortFacts(Input, c)
    BY <1>3, <1>4, <1>5, <1>10, <1>12 DEF PortFacts, Input, InputWith
<1>14. CanonicalPortName(Input, c, v, f[3]) = q
    BY <1>2, TrueNames DEF CanonicalPortName
<1>15. QED
    BY <1>1, <1>13, <1>14 DEF PortMembers, PortViews

(* What a report says is absent is absent from the views it compared, or   *)
(* from the design as a whole.                                             *)
MissedComponent(r, d) ==
    \E c \in Design(r) : d = Diag("OC3001", <<c>>, MissingComponentViews(r, c))

MissedPort(r, d) ==
    \E c \in Design(r) : \E q \in Ports(r, c) :
        d = Diag(MissingPortCode(q), <<c, q>>, MissingPortViews(r, c, q))

LostComponent(r, d) ==
    /\ r.contract # NoContract
    /\ \E c : c \notin Design(r) /\ d.object = <<c>>

LostPort(r, d) ==
    /\ r.contract # NoContract
    /\ \E c, q : /\ c \in Design(r) /\ q \notin Ports(r, c)
                /\ d.object = <<c, q>>

LEMMA AbsenceKinds ==
    ASSUME NEW r, NEW d \in Diagnostics(r), d.code \in AbsenceCodes
    PROVE  MissedComponent(r, d) \/ MissedPort(r, d)
           \/ LostComponent(r, d) \/ LostPort(r, d)
<1>1. \A code, x, y : /\ Diag(code, x, y).code = code
                      /\ Diag(code, x, y).object = x
    BY DEF Diag
<1>2. d \notin AliasDiagnostics(r)
    <2>1. ASSUME NEW c, d \in PortCollisions(r, c)
          PROVE  d.code = "OC2002"
        <3>1. \E x, y : d = Diag("OC2002", x, y)
            BY <2>1 DEF PortCollisions
        <3>2. QED
            BY <1>1, <3>1
    <2>2. ASSUME d \in {Diag("OC2002", <<x[2]>>, {x[1]}) :
              x \in {y \in Definitions(r) : Collides(r, "component", "", y[1], y[2])}}
          PROVE  d.code = "OC2002"
        <3>1. \E x, y : d = Diag("OC2002", x, y)
            BY <2>2
        <3>2. QED
            BY <1>1, <3>1
    <2>3. d \in AliasDiagnostics(r) => d.code = "OC2002"
        BY <2>1, <2>2 DEF AliasDiagnostics
    <2>4. QED
        BY <2>3 DEF AbsenceCodes
<1>3. d \notin DuplicateDiagnostics(r)
    <2>1. ASSUME NEW c, d \in DuplicateDefinitions(r, c)
          PROVE  d.code \in {"OC2003", "OC2004"}
        <3>1. PICK v, code : /\ code \in {"OC2003", "OC2004"}
                             /\ d = Diag(code, <<c>>, {v})
            BY <2>1 DEF DuplicateDefinitions
        <3>2. QED
            BY <1>1, <3>1
    <2>2. ASSUME NEW c, d \in DuplicatePorts(r, c)
          PROVE  d.code = "OC3103"
        <3>1. \E x, y : d = Diag("OC3103", x, y)
            BY <2>2 DEF DuplicatePorts
        <3>2. QED
            BY <1>1, <3>1
    <2>3. d \in DuplicateDiagnostics(r) => d.code \in {"OC2003", "OC2004", "OC3103"}
        BY <2>1, <2>2 DEF DuplicateDiagnostics
    <2>4. QED
        BY <2>3 DEF AbsenceCodes
<1>4. d \notin IncompleteDiagnostics(r)
    <2>1. ASSUME d \in IncompleteDiagnostics(r)
          PROVE  d.code = "OC1104"
        <3>1. \E x, y : d = Diag("OC1104", x, y)
            BY <2>1 DEF IncompleteDiagnostics
        <3>2. QED
            BY <1>1, <3>1
    <2>2. QED
        BY <2>1 DEF AbsenceCodes
<1>5. ASSUME d \in ComponentDiagnostics(r)
      PROVE  MissedComponent(r, d) \/ LostComponent(r, d)
    <2>1. CASE d \in MissingComponents(r)
        BY <2>1 DEF MissingComponents, MissedComponent
    <2>2. CASE r.contract # NoContract /\ d \in ComponentsAgainst(r.contract, r)
        <3>1. d \notin {Diag("OC3002", <<c>>, {}) : c \in Design(r) \ DOMAIN r.contract}
            <4>1. \A c : d # Diag("OC3002", <<c>>, {})
                BY <1>1 DEF AbsenceCodes
            <4>2. QED
                BY <4>1
        <3>2. \E c \in DOMAIN r.contract \ Design(r) : d.object = <<c>>
            BY <1>1, <2>2, <3>1 DEF ComponentsAgainst
        <3>3. QED
            BY <2>2, <3>2 DEF LostComponent
    <2>3. QED
        BY <1>5, <2>1, <2>2 DEF ComponentDiagnostics
<1>6. ASSUME NEW c \in Design(r), d \in PortDiagnostics(r, c)
      PROVE  MissedPort(r, d) \/ LostPort(r, d)
    <2>1. CASE d \in MissingPorts(r, c)
        BY <2>1 DEF MissingPorts, MissedPort
    <2>2. CASE /\ c \in DOMAIN Frozen(r.contract)
               /\ d \in PortsAgainst(Frozen(r.contract), r, c)
        <3>1. r.contract # NoContract
            BY <2>2 DEF Frozen
        <3>2. d \notin {Diag("OC3102", <<c, q>>, {}) :
                          q \in Ports(r, c) \ DOMAIN Frozen(r.contract)[c].ports}
            <4>1. \A q : d # Diag("OC3102", <<c, q>>, {})
                BY <1>1 DEF AbsenceCodes
            <4>2. QED
                BY <4>1
        <3>3. \E q : q \notin Ports(r, c) /\ d.object = <<c, q>>
            <4>1. \E q, code, x : /\ q \notin Ports(r, c)
                                  /\ d = Diag(code, <<c, q>>, x)
                BY <2>2, <3>2 DEF PortsAgainst
            <4>2. QED
                BY <1>1, <4>1
        <3>4. QED
            BY <3>1, <3>3 DEF LostPort
    <2>3. QED
        BY <1>6, <2>1, <2>2 DEF PortDiagnostics
<1>7. QED
    BY <1>2, <1>3, <1>4, <1>5, <1>6 DEF Diagnostics

LEMMA Absences ==
    ASSUME PlainKeys, IInv, RequiredIsNamed
    PROVE  AbsenceIsReal
<1> SUFFICES ASSUME contract = NoContract \/ (\A v \in View : FullyParsed(v)),
                    NEW d \in report.diagnostics, d.code \in AbsenceCodes,
                    NEW w \in d.views, NEW v \in View,
                    FoldedKey[v] = FoldedKey[w]
             PROVE  IF Len(d.object) = 1 THEN ~HasComponent(v, d.object[1])
                                         ELSE ~HasPort(v, d.object[1], d.object[2])
    BY DEF AbsenceIsReal, NoFalseAbsence
<1>1. d \in Diagnostics(Input)
    BY DEF IInv, Told
<1>2. FoldedKey[v] = v
    BY NamedIsPlain DEF Named, IInv
<1>3. Input.contract = contract
    BY DEF Input, InputWith
<1>4. ASSUME NEW c, NEW q, d.object = <<c, q>>, ~HasPort(v, c, q)
      PROVE  IF Len(d.object) = 1 THEN ~HasComponent(v, d.object[1])
                                  ELSE ~HasPort(v, d.object[1], d.object[2])
    BY <1>4
<1>5. ASSUME NEW c, d.object = <<c>>, ~HasComponent(v, c)
      PROVE  IF Len(d.object) = 1 THEN ~HasComponent(v, d.object[1])
                                  ELSE ~HasPort(v, d.object[1], d.object[2])
    BY <1>5
<1>6. CASE MissedComponent(Input, d)
    <2>1. PICK c \in Design(Input) :
              d = Diag("OC3001", <<c>>, MissingComponentViews(Input, c))
        BY <1>6 DEF MissedComponent
    <2>2. d.object = <<c>> /\ w \in MissingComponentViews(Input, c)
        BY <2>1 DEF Diag
    <2>3. /\ w \in RequiredViews(Input, c)
          /\ w \notin MemberViews(Input, c)
          /\ ~WholeViewTainted(Input, w)
        BY <2>2 DEF MissingComponentViews
    <2>4. v = w
        BY <1>2, <1>3, <2>3, RequiredViewsAreNamed, NamedIsPlain DEF IInv
    <2>5. ~HasComponent(v, c)
        BY <2>3, <2>4, NotShownIsNotThere
    <2>6. QED
        BY <1>5, <2>2, <2>5
<1>7. CASE MissedPort(Input, d)
    <2>1. PICK c, q : /\ q \in Ports(Input, c)
                      /\ d = Diag(MissingPortCode(q), <<c, q>>,
                                  MissingPortViews(Input, c, q))
        BY <1>7 DEF MissedPort
    <2>2. d.object = <<c, q>> /\ w \in MissingPortViews(Input, c, q)
        BY <2>1 DEF Diag
    <2>3. /\ w \in RequiredPortViews(Input, c, q)
          /\ w \notin PortViews(Input, c, q)
          /\ ~ScopeTainted(Input, w,
                 {m[2] : m \in {n \in Members(Input, c) : n[1] = w}})
        BY <2>2 DEF MissingPortViews
    <2>4. w \in MemberViews(Input, c)
        BY <2>3 DEF RequiredPortViews, FilterOptionalPG
    <2>5. w \in View
        BY <2>4, FrozenNameIsThere
    <2>6. v = w
        BY <1>2, <2>5, NamedIsPlain DEF Named, IInv
    <2>7. ~HasPort(v, c, q)
        BY <2>3, <2>6, PortNotShownIsNotThere
    <2>8. QED
        BY <1>4, <2>2, <2>7
<1>8. ASSUME contract # NoContract
      PROVE  ~WholeViewTainted(Input, v) /\ obs[v].scopes = {}
    BY <1>8 DEF FullyParsed, WholeViewTainted, Input, InputWith
<1>9. CASE LostComponent(Input, d)
    <2>1. PICK c : c \notin Design(Input) /\ d.object = <<c>>
        BY <1>9 DEF LostComponent
    <2>2. v \notin MemberViews(Input, c)
        BY <2>1 DEF MemberViews, Members, Design
    <2>3. ~HasComponent(v, c)
        BY <1>3, <1>8, <1>9, <2>2, NotShownIsNotThere DEF LostComponent
    <2>4. QED
        BY <1>5, <2>1, <2>3
<1>10. CASE LostPort(Input, d)
    <2>1. PICK c, q : /\ c \in Design(Input) /\ q \notin Ports(Input, c)
                      /\ d.object = <<c, q>>
        BY <1>10 DEF LostPort
    <2>2. v \notin PortViews(Input, c, q)
        BY <2>1 DEF PortViews, PortMembers, Ports
    <2>3. \A natives : ~ScopeTainted(Input, v, natives)
        BY <1>3, <1>8, <1>10 DEF LostPort, ScopeTainted, Input, InputWith
    <2>4. ~HasPort(v, c, q)
        BY <2>2, <2>3, PortNotShownIsNotThere
    <2>5. QED
        BY <1>4, <2>1, <2>4
<1>11. QED
    BY <1>1, <1>6, <1>7, <1>9, <1>10, AbsenceKinds

(* Whatever an honest parser loses, without a contract no file is said to  *)
(* lack what it holds, and with one none is as long as every view is read  *)
(* completely (_scope_tainted, _check_component_inventory).                *)
THEOREM OnlyTheAbsent ==
    ASSUME PlainKeys
    PROVE  Spec => []AbsenceIsReal
<1>1. IInv /\ RequiredIsNamed => AbsenceIsReal
    BY Absences
<1>2. QED
    BY <1>1, Invariance, RequiredInvariance, PTL

-----------------------------------------------------------------------------
(* Presence.                                                               *)

(* What a parser shows, the file holds. *)
LEMMA ShownIsThere ==
    ASSUME IInv, NEW v \in View, NEW c, v \in MemberViews(Input, c)
    PROVE  HasComponent(v, c)
<1>1. PICK d \in Members(Input, c) : d[1] = v
    BY DEF MemberViews
<1>2. /\ d \in View \X CompName
      /\ d[2] \in DOMAIN obs[v].comps
      /\ ComponentName(Input, v, d[2]) = c
    BY <1>1 DEF Members, Definitions, Input, InputWith
<1>3. ComponentName(TrueInput, v, d[2]) = c
    BY <1>2, TrueNames DEF ComponentName
<1>4. d[2] \in DOMAIN text[v]
    BY <1>2 DEF IInv, Parsed, Honest
<1>5. TrueInput.obs[v].comps = text[v]
    BY DEF TrueInput, Input, InputWith
<1>6. d \in Members(TrueInput, c)
    BY <1>1, <1>2, <1>3, <1>4, <1>5 DEF Members, Definitions
<1>7. QED
    BY <1>1, <1>6 DEF HasComponent, MemberViews

LEMMA PortShownIsThere ==
    ASSUME IInv, NEW v \in View, NEW c, NEW q, v \in PortViews(Input, c, q)
    PROVE  HasPort(v, c, q)
<1>1. PICK f \in PortFacts(Input, c) :
          f[1] = v /\ CanonicalPortName(Input, c, v, f[3]) = q
    BY DEF PortViews, PortMembers
<1>2. PICK d \in Members(Input, c) :
          /\ d[1] \notin PackageView
          /\ f \in {<<d[1], d[2], p>> : p \in Input.obs[d[1]].comps[d[2]]}
    BY DEF PortFacts
<1>3. PICK p \in Input.obs[d[1]].comps[d[2]] : f = <<d[1], d[2], p>>
    BY <1>2
<1>4. d[1] = v /\ p \in obs[v].comps[d[2]]
    BY <1>1, <1>3 DEF Input, InputWith
<1>5. /\ d \in View \X CompName
      /\ d[2] \in DOMAIN obs[v].comps
      /\ ComponentName(Input, v, d[2]) = c
    BY <1>4 DEF Members, Definitions, Input, InputWith
<1>6. ComponentName(TrueInput, v, d[2]) = c
    BY <1>5, TrueNames DEF ComponentName
<1>7. d[2] \in DOMAIN text[v] /\ p \in text[v][d[2]]
    BY <1>4, <1>5 DEF IInv, Parsed, Honest
<1>8. TrueInput.obs[v].comps = text[v]
    BY DEF TrueInput, Input, InputWith
<1>9. d \in Members(TrueInput, c)
    BY <1>4, <1>5, <1>6, <1>7, <1>8 DEF Members, Definitions
<1>10. f \in PortFacts(TrueInput, c)
    BY <1>2, <1>3, <1>4, <1>7, <1>8, <1>9 DEF PortFacts
<1>11. CanonicalPortName(TrueInput, c, v, f[3]) = q
    BY <1>1, TrueNames DEF CanonicalPortName
<1>12. QED
    BY <1>1, <1>10, <1>11 DEF HasPort, PortViews, PortMembers

LEMMA FullyParsedShowsAll ==
    ASSUME IInv, NEW v \in View, FullyParsed(v), NEW c
    PROVE  /\ ~WholeViewTainted(Input, v)
           /\ \A natives : ~ScopeTainted(Input, v, natives)
           /\ HasComponent(v, c) <=> v \in MemberViews(Input, c)
           /\ \A q : HasPort(v, c, q) <=> v \in PortViews(Input, c, q)
<1>1. ~WholeViewTainted(Input, v) /\ \A natives : ~ScopeTainted(Input, v, natives)
    BY DEF FullyParsed, WholeViewTainted, ScopeTainted, Input, InputWith
<1>2. HasComponent(v, c) <=> v \in MemberViews(Input, c)
    BY <1>1, NotShownIsNotThere, ShownIsThere
<1>3. ASSUME NEW q
      PROVE  HasPort(v, c, q) <=> v \in PortViews(Input, c, q)
    BY <1>1, PortNotShownIsNotThere, PortShownIsThere
<1>4. QED
    BY <1>1, <1>2, <1>3

(* A view a selector names exactly is among its views. *)
LEMMA ExpandKeeps ==
    ASSUME NEW selected, NEW active, NEW v \in selected, v \in active
    PROVE  v \in Expand(selected, active)
<1> DEFINE hit(x) == {w \in active : FoldedKey[w] = FoldedKey[x]}
<1>1. v \in IF hit(v) = {} THEN {FoldedKey[v]} ELSE hit(v)
    OBVIOUS
<1>2. QED
    BY <1>1 DEF Expand

(* A run with status 0 reported incomplete views at most. *)
Clean(r) == \A d \in Diagnostics(r) : d.code = "OC1104"

LEMMA CleanRun ==
    ASSUME IInv, report.done, ExitCode(report.diagnostics) = 0
    PROVE  Clean(Input)
BY DEF IInv, Told, ExitCode, Clean

LEMMA CleanParts ==
    ASSUME NEW r, Clean(r)
    PROVE  /\ \A c \in Design(r) : MissingComponentViews(r, c) = {}
           /\ \A c \in Design(r) : \A q \in Ports(r, c) :
                 MissingPortViews(r, c, q) = {}
           /\ r.contract # NoContract => DOMAIN r.contract = Design(r)
           /\ r.contract # NoContract => \A c \in Design(r) :
                 DOMAIN r.contract[c].ports = Ports(r, c)
<1>1. \A code, x, y : Diag(code, x, y).code = code
    BY DEF Diag
<1>2. \A c, x : /\ Diag("OC3001", c, x) \notin Diagnostics(r)
                /\ Diag("OC3002", c, x) \notin Diagnostics(r)
                /\ Diag("OC3102", c, x) \notin Diagnostics(r)
                /\ \A q : Diag(MissingPortCode(q), c, x) \notin Diagnostics(r)
    BY <1>1 DEF Clean, MissingPortCode
<1>3. \A d \in ComponentDiagnostics(r) : d \in Diagnostics(r)
    BY DEF Diagnostics
<1>4. \A c \in Design(r) : \A d \in PortDiagnostics(r, c) : d \in Diagnostics(r)
    BY DEF Diagnostics
<1>5. ASSUME NEW c \in Design(r), MissingComponentViews(r, c) # {}
      PROVE  FALSE
    <2>1. Diag("OC3001", <<c>>, MissingComponentViews(r, c)) \in MissingComponents(r)
        BY <1>5 DEF MissingComponents
    <2>2. QED
        BY <1>2, <1>3, <2>1 DEF ComponentDiagnostics
<1>6. ASSUME NEW c \in Design(r), NEW q \in Ports(r, c),
             MissingPortViews(r, c, q) # {}
      PROVE  FALSE
    <2>1. Diag(MissingPortCode(q), <<c, q>>, MissingPortViews(r, c, q))
              \in MissingPorts(r, c)
        BY <1>6 DEF MissingPorts
    <2>2. QED
        BY <1>2, <1>4, <2>1 DEF PortDiagnostics
<1>7. ASSUME r.contract # NoContract
      PROVE  DOMAIN r.contract = Design(r)
    <2>1. \A d \in ComponentsAgainst(r.contract, r) : d \in Diagnostics(r)
        BY <1>3, <1>7 DEF ComponentDiagnostics
    <2>2. ASSUME NEW c \in Design(r), c \notin DOMAIN r.contract
          PROVE  FALSE
        <3>1. Diag("OC3002", <<c>>, {}) \in ComponentsAgainst(r.contract, r)
            BY <2>2 DEF ComponentsAgainst
        <3>2. QED
            BY <1>2, <2>1, <3>1
    <2>3. ASSUME NEW c \in DOMAIN r.contract, c \notin Design(r)
          PROVE  FALSE
        <3>1. \E x : Diag("OC3001", <<c>>, x) \in ComponentsAgainst(r.contract, r)
            BY <2>3 DEF ComponentsAgainst
        <3>2. QED
            BY <1>2, <2>1, <3>1
    <2>4. QED
        BY <2>2, <2>3
<1>8. ASSUME r.contract # NoContract, NEW c \in Design(r)
      PROVE  DOMAIN r.contract[c].ports = Ports(r, c)
    <2>1. Frozen(r.contract) = r.contract /\ c \in DOMAIN r.contract
        BY <1>7, <1>8 DEF Frozen
    <2>2. \A d \in PortsAgainst(r.contract, r, c) : d \in Diagnostics(r)
        BY <1>4, <2>1 DEF PortDiagnostics
    <2>3. ASSUME NEW q \in Ports(r, c), q \notin DOMAIN r.contract[c].ports
          PROVE  FALSE
        <3>1. Diag("OC3102", <<c, q>>, {}) \in PortsAgainst(r.contract, r, c)
            BY <2>3 DEF PortsAgainst
        <3>2. QED
            BY <1>2, <2>2, <3>1
    <2>4. ASSUME NEW q \in DOMAIN r.contract[c].ports, q \notin Ports(r, c)
          PROVE  FALSE
        <3>1. \E x : Diag(MissingPortCode(q), <<c, q>>, x)
                        \in PortsAgainst(r.contract, r, c)
            BY <2>4 DEF PortsAgainst
        <3>2. QED
            BY <1>2, <2>2, <3>1
    <2>5. QED
        BY <2>3, <2>4
<1>9. QED
    BY <1>5, <1>6, <1>7, <1>8

(* A view that must hold a port: no rule exempts it, or the contract says  *)
(* that it has it.                                                         *)
LEMMA MustHoldPort ==
    ASSUME NEW r, NEW c, NEW q, NEW v \in ContractView,
           v \in MemberViews(r, c),
           v \in FilterOptionalPG(View, q),
           \/ v \notin OptionalPortViews(c, q)
           \/ /\ c \in DOMAIN Frozen(r.contract)
              /\ q \in DOMAIN Frozen(r.contract)[c].ports
              /\ v \in DOMAIN Frozen(r.contract)[c].ports[q]
    PROVE  v \in RequiredPortViews(r, c, q)
<1> DEFINE here == MemberViews(r, c) \ PackageView
           k == Frozen(r.contract)
           pinned == IF c \in DOMAIN k /\ q \in DOMAIN k[c].ports
                     THEN Expand(DOMAIN k[c].ports[q], here)
                     ELSE {}
<1>1. v \in here
    BY DEF ContractView
<1>2. ASSUME v \notin OptionalPortViews(c, q)
      PROVE  v \in RuledPortViews(r, c, q)
    <2>1. \A i \in DOMAIN Participation :
              RuleAppliesToPort(Participation[i], c, q)
                  => v \notin Participation[i].optional
        BY <1>2 DEF OptionalPortViews, Range
    <2>2. v \in DefaultPortViews(r, c)
        BY DEF DefaultPortViews
    <2>3. QED
        BY <2>1, <2>2 DEF RuledPortViews
<1>3. ASSUME c \in DOMAIN k, q \in DOMAIN k[c].ports, v \in DOMAIN k[c].ports[q]
      PROVE  v \in pinned
    <2>1. v \in Expand(DOMAIN k[c].ports[q], here)
        BY <1>1, <1>3, ExpandKeeps
    <2>2. QED
        BY <1>3, <2>1
<1>4. v \in RuledPortViews(r, c, q) \cup pinned
    BY <1>2, <1>3
<1>5. RequiredPortViews(r, c, q)
        = FilterOptionalPG((RuledPortViews(r, c, q) \cup pinned) \cap here, q)
    BY DEF RequiredPortViews
<1> HIDE DEF here, pinned
<1>6. QED
    BY <1>1, <1>4, <1>5 DEF FilterOptionalPG

LEMMA FrozenIsKept ==
    ASSUME IInv, report.done, contract # NoContract,
           ExitCode(report.diagnostics) = 0,
           NEW v \in ContractView, FullyParsed(v), NEW c
    PROVE  /\ HasComponent(v, c) => c \in DOMAIN contract
           /\ c \in DOMAIN contract /\ v \in DOMAIN contract[c].names
                 => HasComponent(v, c) \/ v \in OptionalViews(c)
           /\ c \in DOMAIN contract /\ HasComponent(v, c) =>
                 \A q : /\ HasPort(v, c, q) => q \in DOMAIN contract[c].ports
                        /\ /\ q \in DOMAIN contract[c].ports
                           /\ v \in FilterOptionalPG(View, q)
                           /\ \/ v \in DOMAIN contract[c].ports[q]
                              \/ v \notin OptionalPortViews(c, q)
                           => HasPort(v, c, q)
<1>1. Clean(Input)
    BY CleanRun
<1>2. v \in View
    BY DEF ContractView
<1>3. Input.contract = contract /\ Frozen(Input.contract) = contract
    BY DEF Input, InputWith, Frozen
<1>4. DOMAIN contract = Design(Input)
    BY <1>1, <1>3, CleanParts
<1>5. v \in MemberViews(Input, c) => c \in Design(Input)
    BY DEF MemberViews, Members, Design
<1>6. HasComponent(v, c) => c \in DOMAIN contract
    BY <1>2, <1>4, <1>5, FullyParsedShowsAll
<1>7. ASSUME c \in DOMAIN contract, v \in DOMAIN contract[c].names,
             ~HasComponent(v, c), v \notin OptionalViews(c)
      PROVE  FALSE
    <2>1. v \notin MemberViews(Input, c) /\ ~WholeViewTainted(Input, v)
        BY <1>2, <1>7, FullyParsedShowsAll
    <2>2. v \in Expand(DOMAIN contract[c].names, ContractView)
        BY <1>7, ExpandKeeps
    <2>3. v \in RequiredViews(Input, c)
        BY <1>3, <1>7, <2>2 DEF RequiredViews, FrozenViews
    <2>4. v \in MissingComponentViews(Input, c)
        BY <2>1, <2>3 DEF MissingComponentViews
    <2>5. QED
        BY <1>1, <1>4, <1>7, <2>4, CleanParts
<1>8. ASSUME c \in DOMAIN contract, HasComponent(v, c), NEW q, HasPort(v, c, q)
      PROVE  q \in DOMAIN contract[c].ports
    <2>1. v \in PortViews(Input, c, q)
        BY <1>2, <1>8, FullyParsedShowsAll
    <2>2. q \in Ports(Input, c)
        BY <2>1 DEF PortViews, PortMembers, Ports
    <2>3. QED
        BY <1>1, <1>3, <1>4, <1>8, <2>2, CleanParts
<1>9. ASSUME c \in DOMAIN contract, HasComponent(v, c), NEW q,
             q \in DOMAIN contract[c].ports,
             v \in FilterOptionalPG(View, q),
             v \in DOMAIN contract[c].ports[q] \/ v \notin OptionalPortViews(c, q),
             ~HasPort(v, c, q)
      PROVE  FALSE
    <2>1. v \in MemberViews(Input, c) /\ v \notin PortViews(Input, c, q)
        BY <1>2, <1>9, FullyParsedShowsAll
    <2>2. v \in RequiredPortViews(Input, c, q)
        BY <1>3, <1>9, <2>1, MustHoldPort
    <2>3. \A natives : ~ScopeTainted(Input, v, natives)
        BY <1>2, FullyParsedShowsAll
    <2>4. v \in MissingPortViews(Input, c, q)
        BY <2>1, <2>2, <2>3 DEF MissingPortViews
    <2>5. c \in Design(Input) /\ q \in Ports(Input, c)
        BY <1>1, <1>3, <1>4, <1>9, CleanParts
    <2>6. QED
        BY <1>1, <2>4, <2>5, CleanParts
<1>10. QED
    BY <1>6, <1>7, <1>8, <1>9

LEMMA ViewsAgree ==
    ASSUME IInv, report.done, ExitCode(report.diagnostics) = 0,
           NEW v \in ContractView, FullyParsed(v),
           NEW w \in ContractView, FullyParsed(w), NEW c, NEW q,
           HasComponent(v, c), HasPort(w, c, q),
           v \in FilterOptionalPG(View, q) \ OptionalPortViews(c, q)
    PROVE  HasPort(v, c, q)
<1> SUFFICES ASSUME ~HasPort(v, c, q)
             PROVE  FALSE
    OBVIOUS
<1>1. v \in View /\ w \in View
    BY DEF ContractView
<1>2. /\ v \in MemberViews(Input, c)
      /\ v \notin PortViews(Input, c, q)
      /\ w \in PortViews(Input, c, q)
      /\ \A natives : ~ScopeTainted(Input, v, natives)
    BY <1>1, FullyParsedShowsAll
<1>3. c \in Design(Input)
    BY <1>2 DEF MemberViews, Members, Design
<1>4. q \in Ports(Input, c)
    BY <1>2 DEF PortViews, PortMembers, Ports
<1>5. v \in RequiredPortViews(Input, c, q)
    BY <1>2, MustHoldPort
<1>6. v \in MissingPortViews(Input, c, q)
    BY <1>2, <1>5 DEF MissingPortViews
<1>7. QED
    BY <1>3, <1>4, <1>6, CleanRun, CleanParts

(* Exit status 0 of a check vouches for every view its parser read         *)
(* completely: those that define a component agree on its ports, and they  *)
(* hold what the contract holds and nothing else (_check_design), for all  *)
(* participation rules and aliases.                                        *)
THEOREM CleanIsAgreement == Spec => []CleanMeansAgreement
<1>1. IInv => CleanMeansFrozen
    BY FrozenIsKept DEF CleanMeansFrozen
<1>2. IInv => CleanMeansAgreement
    BY <1>1, ViewsAgree DEF CleanMeansAgreement
<1>3. QED
    BY <1>2, Invariance, PTL

-----------------------------------------------------------------------------
(* A freeze.                                                               *)

(* "No contract" is no contract. *)
NoContractIsNone == \A S, T : NoContract \notin [S -> T]

(* The contract was built from what the parsers report now, by a run that  *)
(* had k for its contract.                                                 *)
FrozenFrom(k) ==
    /\ contract = BuildContract(InputWith(k))
    /\ built.diagnostics = Diagnostics(InputWith(k))
    /\ ExitCode(Diagnostics(InputWith(k))) # 2

Written == built.done => \E k : FrozenFrom(k)

LEMMA SameContract ==
    ASSUME project' = project, NEW CONSTANT r
    PROVE  BuildContract(r)' = BuildContract(r)
<1>1. ASSUME NEW CONSTANT c, NEW CONSTANT v
      PROVE  FrozenName(r, c, v)' = FrozenName(r, c, v)
    <2>1. Members(r, c)' = Members(r, c)
        BY SameMembers
    <2>2. QED
        BY <2>1 DEF FrozenName
<1>2. ASSUME NEW CONSTANT c
      PROVE  FrozenPorts(r, c)' = FrozenPorts(r, c)
    <2>1. /\ Ports(r, c)' = Ports(r, c)
          /\ \A q : PortViews(r, c, q)' = PortViews(r, c, q)
          /\ \A q : PortMembers(r, c, q)' = PortMembers(r, c, q)
          /\ PortName' = PortName
        BY SamePorts DEF PortName
    <2>2. QED
        BY <2>1 DEF FrozenPorts
<1>3. /\ Design(r)' = Design(r)
      /\ \A c : MemberViews(r, c)' = MemberViews(r, c)
      /\ \A c : RequiredViews(r, c)' = RequiredViews(r, c)
    BY SameMembers, SameRequired
<1>4. QED
    BY <1>1, <1>2, <1>3 DEF BuildContract

LEMMA SameInputWith ==
    ASSUME UNCHANGED <<project, obs, aliases>>, NEW CONSTANT k
    PROVE  InputWith(k)' = InputWith(k)
BY DEF InputWith, ContractRules, NameRules, PortRules, Rule, SameKey, View

LEMMA WrittenStep == Written /\ [Next]_vars => Written'
<1> SUFFICES ASSUME Written, [Next]_vars
             PROVE  Written'
    OBVIOUS
<1>1. CASE built' = NoReport
    BY <1>1 DEF Written, NoReport
<1>2. ASSUME UNCHANGED <<project, obs, aliases>>, NEW CONSTANT k
      PROVE  /\ BuildContract(InputWith(k))' = BuildContract(InputWith(k))
             /\ Diagnostics(InputWith(k))' = Diagnostics(InputWith(k))
    <2>1. InputWith(k)' = InputWith(k)
        BY <1>2, SameInputWith
    <2>2. \A r : /\ BuildContract(r)' = BuildContract(r)
                 /\ Diagnostics(r)' = Diagnostics(r)
        BY <1>2, SameContract, SameDiagnostics
    <2>3. QED
        BY <2>1, <2>2
<1>3. CASE UNCHANGED <<project, obs, aliases, contract, built>>
    <2>1. ASSUME NEW CONSTANT k, FrozenFrom(k)
          PROVE  FrozenFrom(k)'
        BY <1>2, <1>3, <2>1 DEF FrozenFrom
    <2>2. QED
        BY <1>3, <2>1 DEF Written
<1>4. CASE ContractBuild
    <2>1. ASSUME NEW CONSTANT k, k = contract
          PROVE  FrozenFrom(k)'
        BY <1>2, <1>4, <2>1 DEF ContractBuild, FrozenFrom, Input
    <2>2. QED
        BY <2>1 DEF Written
<1>5. QED
    BY <1>1, <1>3, <1>4 DEF Next, vars, Edit, EditAliases, Check

LEMMA WrittenInvariance == Spec => []Written
<1>1. Init => Written
    BY DEF Init, Written, NoReport
<1>2. QED
    BY <1>1, WrittenStep, PTL DEF Spec

(* The run that built the contract saw nothing twice.                      *)
CleanFreeze(k) ==
    /\ FrozenFrom(k)
    /\ \A d \in Diagnostics(InputWith(k)) : d.code \notin {"OC2003", "OC2004", "OC3103"}

LEMMA FrozenParts ==
    ASSUME NoContractIsNone, NEW k, FrozenFrom(k)
    PROVE  /\ contract # NoContract
           /\ Frozen(contract) = contract
           /\ DOMAIN contract = Design(InputWith(k))
           /\ \A c \in DOMAIN contract :
                 /\ contract[c].names = [v \in MemberViews(InputWith(k), c) |->
                                            FrozenName(InputWith(k), c, v)]
                 /\ contract[c].required = RequiredViews(InputWith(k), c)
                 /\ contract[c].ports = FrozenPorts(InputWith(k), c)
<1> DEFINE r == InputWith(k)
           entry(c) == [names |-> [v \in MemberViews(r, c) |-> FrozenName(r, c, v)],
                        required |-> RequiredViews(r, c),
                        ports |-> FrozenPorts(r, c)]
<1>1. contract = [c \in Design(r) |-> entry(c)]
    BY DEF FrozenFrom, BuildContract
<1> HIDE DEF entry
<1>2. contract \in [Design(r) -> {entry(c) : c \in Design(r)}]
    BY <1>1
<1>3. contract # NoContract
    BY <1>2 DEF NoContractIsNone
<1>4. DOMAIN contract = Design(r) /\ \A c \in DOMAIN contract : contract[c] = entry(c)
    BY <1>1
<1>5. QED
    BY <1>3, <1>4 DEF Frozen, entry

LEMMA OneDefinition ==
    ASSUME NEW k, CleanFreeze(k), NEW c,
           NEW d \in Members(InputWith(k), c), NEW e \in Members(InputWith(k), c),
           d[1] = e[1]
    PROVE  d = e
<1> DEFINE r == InputWith(k)
<1> SUFFICES ASSUME d # e
             PROVE  FALSE
    OBVIOUS
<1>1. d \in View \X CompName /\ d \in Definitions(r) /\ ComponentName(r, d[1], d[2]) = c
    BY DEF Members, Definitions
<1>2. c \in Design(r)
    BY <1>1 DEF Design
<1>3. \E code \in {"OC2003", "OC2004"} :
          Diag(code, <<c>>, {d[1]}) \in DuplicateDefinitions(r, c)
    BY <1>1 DEF DuplicateDefinitions
<1>4. \E code \in {"OC2003", "OC2004"} : Diag(code, <<c>>, {d[1]}) \in Diagnostics(r)
    BY <1>2, <1>3 DEF Diagnostics, DuplicateDiagnostics
<1>5. \A code, x, y : Diag(code, x, y).code = code
    BY DEF Diag
<1>6. QED
    BY <1>4, <1>5 DEF CleanFreeze

LEMMA PortFactShape ==
    ASSUME NEW r, NEW c, NEW f \in PortFacts(r, c)
    PROVE  /\ f = <<f[1], f[2], f[3]>>
           /\ <<f[1], f[2]>> \in Members(r, c)
           /\ f[1] \notin PackageView
           /\ f[3] \in r.obs[f[1]].comps[f[2]]
<1>1. PICK d \in Members(r, c) :
          /\ d[1] \notin PackageView
          /\ f \in {<<d[1], d[2], p>> : p \in r.obs[d[1]].comps[d[2]]}
    BY DEF PortFacts
<1>2. PICK p \in r.obs[d[1]].comps[d[2]] : f = <<d[1], d[2], p>>
    BY <1>1
<1>3. d \in View \X CompName
    BY DEF Members, Definitions
<1>4. d = <<f[1], f[2]>>
    BY <1>2, <1>3
<1>5. QED
    BY <1>1, <1>2, <1>4

LEMMA OnePort ==
    ASSUME NEW k, CleanFreeze(k), NEW c,
           NEW f \in PortFacts(InputWith(k), c), NEW g \in PortFacts(InputWith(k), c),
           f[1] = g[1],
           \/ f[3] = g[3]
           \/ CanonicalPortName(InputWith(k), c, f[1], f[3])
                = CanonicalPortName(InputWith(k), c, g[1], g[3])
    PROVE  f = g
<1> DEFINE r == InputWith(k)
<1>1. <<f[1], f[2]>> \in Members(r, c) /\ <<g[1], g[2]>> \in Members(r, c)
    BY PortFactShape
<1>2. <<f[1], f[2]>> = <<g[1], g[2]>>
    BY <1>1, OneDefinition
<1>3. f[2] = g[2]
    BY <1>2
<1>4. ASSUME f[3] # g[3]
      PROVE  FALSE
    <2>1. Twins(r, c, f, g)
        BY <1>2, <1>4 DEF Twins
    <2>2. Diag("OC3103", <<c, CanonicalPortName(r, c, f[1], f[3])>>, {f[1]})
              \in DuplicatePorts(r, c)
        BY <2>1 DEF DuplicatePorts
    <2>3. c \in Design(r)
        BY <1>1 DEF Members, Design
    <2>4. Diag("OC3103", <<c, CanonicalPortName(r, c, f[1], f[3])>>, {f[1]})
              \in Diagnostics(r)
        <3>1. \A x \in DuplicatePorts(r, c) : x \in DuplicateDiagnostics(r)
            BY <2>3 DEF DuplicateDiagnostics
        <3>2. QED
            BY <2>2, <3>1 DEF Diagnostics
    <2>5. \A code, x, y : Diag(code, x, y).code = code
        BY DEF Diag
    <2>6. QED
        BY <2>4, <2>5 DEF CleanFreeze
<1>5. f = <<f[1], f[2], f[3]>> /\ g = <<g[1], g[2], g[3]>>
    BY PortFactShape
<1>6. QED
    BY <1>3, <1>4, <1>5

(* The contract holds the names of the run that built it. *)
LEMMA KeptName ==
    ASSUME NoContractIsNone, NEW k, CleanFreeze(k), NEW c,
           NEW d \in Members(InputWith(k), c)
    PROVE  /\ c \in DOMAIN contract
           /\ d[1] \in DOMAIN contract[c].names
           /\ contract[c].names[d[1]] = d[2]
<1> DEFINE r == InputWith(k)
<1>1. d \in View \X CompName /\ c \in Design(r) /\ d[1] \in MemberViews(r, c)
    BY DEF Members, Definitions, Design, MemberViews
<1>2. /\ c \in DOMAIN contract
      /\ contract[c].names = [v \in MemberViews(r, c) |-> FrozenName(r, c, v)]
    BY <1>1, FrozenParts DEF CleanFreeze
<1>3. <<d[1], FrozenName(r, c, d[1])>> \in Members(r, c)
    BY <1>1, FrozenNameIsThere
<1>4. <<d[1], FrozenName(r, c, d[1])>> = d
    BY <1>3, OneDefinition
<1>5. QED
    BY <1>1, <1>2, <1>4

(* A name it holds is the only one of its view.                            *)
LEMMA KeptNameOnly ==
    ASSUME NoContractIsNone, NEW k, CleanFreeze(k),
           NEW c \in DOMAIN contract, NEW v \in DOMAIN contract[c].names
    PROVE  v \in View /\ <<v, contract[c].names[v]>> \in Members(InputWith(k), c)
<1> DEFINE r == InputWith(k)
<1>1. contract[c].names = [w \in MemberViews(r, c) |-> FrozenName(r, c, w)]
    BY FrozenParts DEF CleanFreeze
<1>2. v \in MemberViews(r, c) /\ contract[c].names[v] = FrozenName(r, c, v)
    BY <1>1
<1>3. QED
    BY <1>2, FrozenNameIsThere

LEMMA PortFactType ==
    ASSUME IInv, NEW k, NEW c, NEW f \in PortFacts(InputWith(k), c)
    PROVE  f[1] \in View /\ f[3] \in PortName
<1>1. <<f[1], f[2]>> \in Members(InputWith(k), c) /\ f[3] \in obs[f[1]].comps[f[2]]
    BY PortFactShape DEF InputWith
<1>2. f[1] \in View /\ f[2] \in DOMAIN obs[f[1]].comps
    BY <1>1 DEF Members, Definitions, InputWith
<1>3. text[f[1]] \in Text /\ Honest(text[f[1]], obs[f[1]])
    BY <1>2 DEF IInv, Configured, Parsed
<1>4. f[2] \in DOMAIN text[f[1]] /\ f[3] \in text[f[1]][f[2]]
    BY <1>1, <1>2, <1>3 DEF Honest
<1>5. text[f[1]][f[2]] \subseteq PortName
    BY <1>3, <1>4 DEF Text
<1>6. QED
    BY <1>2, <1>4, <1>5

LEMMA KeptPorts ==
    ASSUME IInv, NoContractIsNone, NEW k, CleanFreeze(k), NEW c \in DOMAIN contract,
           NEW q \in DOMAIN contract[c].ports,
           NEW v \in DOMAIN contract[c].ports[q]
    PROVE  \E f \in PortMembers(InputWith(k), c, q) :
              f[1] = v /\ f[3] = contract[c].ports[q][v]
<1> DEFINE r == InputWith(k)
<1>1. contract[c].ports = FrozenPorts(r, c)
    BY FrozenParts DEF CleanFreeze
<1>2. q \in Ports(r, c)
    BY <1>1 DEF FrozenPorts
<1>3. contract[c].ports[q] = [w \in PortViews(r, c, q) |->
                                CHOOSE p \in PortName :
                                    \E f \in PortMembers(r, c, q) : f[1] = w /\ f[3] = p]
    BY <1>1, <1>2 DEF FrozenPorts
<1>4. /\ v \in PortViews(r, c, q)
      /\ contract[c].ports[q][v] =
            CHOOSE p \in PortName : \E f \in PortMembers(r, c, q) : f[1] = v /\ f[3] = p
    BY <1>3
<1>5. PICK g \in PortMembers(r, c, q) : g[1] = v
    BY <1>4 DEF PortViews
<1>6. g[3] \in PortName
    BY PortFactType DEF PortMembers
<1>7. \E p \in PortName : \E f \in PortMembers(r, c, q) : f[1] = v /\ f[3] = p
    BY <1>5, <1>6
<1>8. QED
    BY <1>4, <1>7

LEMMA KeptPort ==
    ASSUME IInv, NoContractIsNone, NEW k, CleanFreeze(k), NEW c,
           NEW f \in PortFacts(InputWith(k), c), NEW q,
           q = CanonicalPortName(InputWith(k), c, f[1], f[3])
    PROVE  /\ c \in DOMAIN contract
           /\ q \in DOMAIN contract[c].ports
           /\ f[1] \in DOMAIN contract[c].ports[q]
           /\ contract[c].ports[q][f[1]] = f[3]
<1> DEFINE r == InputWith(k)
<1>1. <<f[1], f[2]>> \in Members(r, c)
    BY PortFactShape
<1>2. c \in Design(r)
    BY <1>1 DEF Members, Design
<1>3. c \in DOMAIN contract /\ contract[c].ports = FrozenPorts(r, c)
    BY <1>2, FrozenParts DEF CleanFreeze
<1>4. f \in PortMembers(r, c, q) /\ q \in Ports(r, c) /\ f[1] \in PortViews(r, c, q)
    BY DEF PortMembers, Ports, PortViews
<1>5. q \in DOMAIN contract[c].ports /\ f[1] \in DOMAIN contract[c].ports[q]
    BY <1>3, <1>4 DEF FrozenPorts
<1>6. PICK g \in PortMembers(r, c, q) : g[1] = f[1] /\ g[3] = contract[c].ports[q][f[1]]
    BY <1>3, <1>5, KeptPorts
<1>7. g = f
    BY <1>4, <1>6, OnePort DEF PortMembers
<1>8. QED
    BY <1>3, <1>5, <1>6, <1>7

(* What a contract has to say of a name of a view in lower case.           *)
LEMMA RulesOfContract ==
    ASSUME PlainKeys, Configured, NoContractIsNone, NEW k, CleanFreeze(k),
           NEW a \in ContractRules(contract), NEW v \in View, v \in a.views
    PROVE  \/ /\ a.kind = "component" /\ a.component = ""
              /\ a.canonical \in DOMAIN contract
              /\ v \in DOMAIN contract[a.canonical].names
              /\ a.native = contract[a.canonical].names[v]
           \/ /\ a.kind = "port"
              /\ a.component \in DOMAIN contract
              /\ a.canonical \in DOMAIN contract[a.component].ports
              /\ v \in DOMAIN contract[a.component].ports[a.canonical]
              /\ a.native = contract[a.component].ports[a.canonical][v]
<1>1. Frozen(contract) = contract
    BY FrozenParts DEF CleanFreeze
<1>2. PICK c \in DOMAIN contract :
          a \in NameRules(c, contract[c]) \/ a \in PortRules(c, contract[c])
    BY <1>1 DEF ContractRules
<1>3. ASSUME NEW w, v \in SameKey(w), w \in View
      PROVE  v = w
    BY <1>3, NamedIsPlain DEF SameKey, Named
<1>4. CASE a \in NameRules(c, contract[c])
    <2>1. PICK w \in DOMAIN contract[c].names :
              a = Rule("component", "", c, contract[c].names[w], w)
        BY <1>4 DEF NameRules
    <2>2. w \in View
        BY KeptNameOnly
    <2>3. /\ a.kind = "component" /\ a.component = "" /\ a.canonical = c
          /\ a.native = contract[c].names[w] /\ a.views = SameKey(w)
        BY <2>1 DEF Rule
    <2>4. v = w
        BY <1>3, <2>2, <2>3
    <2>5. QED
        BY <2>3, <2>4
<1>5. CASE a \in PortRules(c, contract[c])
    <2>1. PICK q, w : /\ q \in DOMAIN contract[c].ports
                      /\ w \in DOMAIN contract[c].ports[q]
                      /\ a = Rule("port", c, q, contract[c].ports[q][w], w)
        BY <1>5 DEF PortRules
    <2>2. w \in View
        <3>1. contract[c].ports = FrozenPorts(InputWith(k), c)
            BY FrozenParts DEF CleanFreeze
        <3>2. w \in PortViews(InputWith(k), c, q)
            BY <2>1, <3>1 DEF FrozenPorts
        <3>3. PICK f \in PortFacts(InputWith(k), c) : f[1] = w
            BY <3>2 DEF PortViews, PortMembers
        <3>4. QED
            BY <3>3, PortFactShape DEF Members, Definitions
    <2>3. /\ a.kind = "port" /\ a.component = c /\ a.canonical = q
          /\ a.native = contract[c].ports[q][w] /\ a.views = SameKey(w)
        BY <2>1 DEF Rule
    <2>4. v = w
        BY <1>3, <2>2, <2>3
    <2>5. QED
        BY <2>1, <2>3, <2>4
<1>6. QED
    BY <1>2, <1>4, <1>5

(* A rule of the contract settles a name that the run before gave without  *)
(* it: an alias as close gave the same.                                    *)
LEMMA ContractRuleSettles ==
    ASSUME Configured, NEW k, NEW kind, NEW component, NEW v, NEW native, NEW c,
           ~Collides(InputWith(k), kind, component, v, native),
           Resolve(InputWith(k), kind, component, v, native) = c,
           NEW rule \in ContractRules(contract),
           rule.kind = kind, rule.component = component, rule.native = native,
           v \in rule.views, rule.canonical = c,
           \A a \in ContractRules(contract) :
               /\ a.kind = kind /\ a.component = component /\ a.native = native
               /\ v \in a.views
               => a.canonical = c
    PROVE  /\ Resolve(Input, kind, component, v, native) = c
           /\ ~Collides(Input, kind, component, v, native)
<1> DEFINE r == InputWith(k)
           Matches(a) == /\ a.kind = kind /\ a.component = component
                         /\ a.native = native /\ v \in a.views
<1>1. /\ r.rules = aliases \cup ContractRules(k)
      /\ Input.rules = aliases \cup ContractRules(contract)
    BY DEF Input, InputWith
<1>2. /\ \A a \in r.rules : a.rank \in Nat
      /\ \A a \in Input.rules : a.rank \in Nat
      /\ rule.rank = 0
    BY RankOfRules DEF Input
<1>3. c \in Candidates(Input, kind, component, v, native)
    <2>1. \A x \in Input.rules : rule.rank <= x.rank
        BY <1>2
    <2>2. rule \in Input.rules
        BY <1>1
    <2>3. QED
        BY <2>1, <2>2 DEF Candidates
<1>4. ASSUME NEW y \in Candidates(Input, kind, component, v, native)
      PROVE  y = c
    <2>1. PICK a \in Input.rules : /\ Matches(a) /\ a.canonical = y
                                   /\ \A x \in Input.rules : Matches(x) => a.rank <= x.rank
        BY <1>4 DEF Candidates
    <2>2. a.rank <= rule.rank
        BY <1>1, <2>1
    <2>3. a.rank = 0
        BY <1>2, <2>2
    <2>4. CASE a \in ContractRules(contract)
        BY <2>1, <2>4
    <2>5. CASE a \in aliases
        <3>1. a \in r.rules
            BY <1>1, <2>5
        <3>2. \A x \in r.rules : a.rank <= x.rank
            BY <1>2, <2>3
        <3>3. y \in Candidates(r, kind, component, v, native)
            BY <2>1, <3>1, <3>2 DEF Candidates
        <3>4. QED
            BY <3>3, CandidateIsName
    <2>6. QED
        BY <1>1, <2>1, <2>4, <2>5
<1>5. ~Collides(Input, kind, component, v, native)
    BY <1>4 DEF Collides
<1>6. QED
    BY <1>3, <1>5, CandidateIsName

LEMMA SameComponentName ==
    ASSUME PlainKeys, IInv, NoContractIsNone, NEW k, CleanFreeze(k),
           NEW c, NEW d \in Members(InputWith(k), c)
    PROVE  /\ ComponentName(Input, d[1], d[2]) = c
           /\ ~Collides(Input, "component", "", d[1], d[2])
<1> DEFINE r == InputWith(k)
           rule == Rule("component", "", c, d[2], d[1])
<1>1. /\ d \in Definitions(r) /\ d[1] \in View
      /\ ComponentName(r, d[1], d[2]) = c
    BY DEF Members, Definitions
<1>2. /\ c \in DOMAIN contract
      /\ d[1] \in DOMAIN contract[c].names
      /\ contract[c].names[d[1]] = d[2]
    BY KeptName
<1>3. Frozen(contract) = contract
    BY FrozenParts DEF CleanFreeze
<1>4. rule \in ContractRules(contract)
    <2>1. rule \in NameRules(c, contract[c])
        BY <1>2 DEF NameRules
    <2>2. QED
        BY <1>2, <1>3, <2>1 DEF ContractRules
<1>5. /\ rule.kind = "component" /\ rule.component = "" /\ rule.native = d[2]
      /\ rule.canonical = c /\ d[1] \in rule.views
    BY <1>1 DEF Rule, SameKey
<1>6. ~Collides(r, "component", "", d[1], d[2])
    BY <1>1, NoCollision DEF CleanFreeze, FrozenFrom
<1>7. Resolve(r, "component", "", d[1], d[2]) = c
    BY <1>1 DEF ComponentName
<1>8. ASSUME NEW a \in ContractRules(contract),
             a.kind = "component", a.component = "", a.native = d[2], d[1] \in a.views
      PROVE  a.canonical = c
    <2>1. /\ a.canonical \in DOMAIN contract
          /\ d[1] \in DOMAIN contract[a.canonical].names
          /\ d[2] = contract[a.canonical].names[d[1]]
        BY <1>1, <1>8, RulesOfContract DEF IInv
    <2>2. <<d[1], d[2]>> \in Members(r, a.canonical)
        BY <2>1, KeptNameOnly
    <2>3. <<d[1], d[2]>>[1] = d[1] /\ <<d[1], d[2]>>[2] = d[2]
        OBVIOUS
    <2>4. ComponentName(r, d[1], d[2]) = a.canonical
        BY <2>2, <2>3 DEF Members
    <2>5. QED
        BY <1>1, <2>4
<1> HIDE DEF rule
<1>9. ASSUME NEW none, none = ""
      PROVE  /\ Resolve(Input, "component", none, d[1], d[2]) = c
             /\ ~Collides(Input, "component", none, d[1], d[2])
    <2>1. /\ ~Collides(r, "component", none, d[1], d[2])
          /\ Resolve(r, "component", none, d[1], d[2]) = c
          /\ rule.kind = "component" /\ rule.component = none /\ rule.native = d[2]
          /\ rule.canonical = c /\ d[1] \in rule.views
        BY <1>5, <1>6, <1>7, <1>9
    <2>2. \A a \in ContractRules(contract) :
              /\ a.kind = "component" /\ a.component = none /\ a.native = d[2]
              /\ d[1] \in a.views
              => a.canonical = c
        BY <1>8, <1>9
    <2>3. QED
        BY <1>4, <2>1, <2>2, ContractRuleSettles DEF IInv
<1>10. QED
    BY <1>9 DEF ComponentName

LEMMA SameDesign ==
    ASSUME PlainKeys, IInv, NoContractIsNone, NEW k, CleanFreeze(k)
    PROVE  /\ Definitions(Input) = Definitions(InputWith(k))
           /\ Design(Input) = Design(InputWith(k))
           /\ \A c : /\ Members(Input, c) = Members(InputWith(k), c)
                     /\ MemberViews(Input, c) = MemberViews(InputWith(k), c)
                     /\ PortFacts(Input, c) = PortFacts(InputWith(k), c)
<1> DEFINE r == InputWith(k)
<1>1. Input.obs = r.obs
    BY DEF Input, InputWith
<1>2. Definitions(Input) = Definitions(r)
    BY <1>1 DEF Definitions
<1>3. ASSUME NEW d \in Definitions(r)
      PROVE  ComponentName(Input, d[1], d[2]) = ComponentName(r, d[1], d[2])
    <2>1. d \in Members(r, ComponentName(r, d[1], d[2]))
        BY DEF Members
    <2>2. QED
        BY <2>1, SameComponentName
<1>4. Design(Input) = Design(r)
    BY <1>2, <1>3 DEF Design
<1>5. ASSUME NEW c
      PROVE  Members(Input, c) = Members(r, c)
    BY <1>2, <1>3 DEF Members
<1>6. ASSUME NEW c
      PROVE  MemberViews(Input, c) = MemberViews(r, c)
    BY <1>5 DEF MemberViews
<1>7. ASSUME NEW c
      PROVE  PortFacts(Input, c) = PortFacts(r, c)
    BY <1>1, <1>5 DEF PortFacts
<1>8. QED
    BY <1>2, <1>4, <1>5, <1>6, <1>7

LEMMA SamePortName ==
    ASSUME PlainKeys, IInv, NoContractIsNone, NEW k, CleanFreeze(k), NEW c,
           NEW f \in PortFacts(InputWith(k), c)
    PROVE  /\ CanonicalPortName(Input, c, f[1], f[3])
                = CanonicalPortName(InputWith(k), c, f[1], f[3])
           /\ ~Collides(Input, "port", c, f[1], f[3])
<1> DEFINE r == InputWith(k)
           q == CanonicalPortName(r, c, f[1], f[3])
           rule == Rule("port", c, q, f[3], f[1])
<1>1. f[1] \in View
    BY PortFactType
<1>2. /\ c \in DOMAIN contract
      /\ q \in DOMAIN contract[c].ports
      /\ f[1] \in DOMAIN contract[c].ports[q]
      /\ contract[c].ports[q][f[1]] = f[3]
    BY KeptPort
<1>3. Frozen(contract) = contract /\ c \in Design(r)
    BY <1>2, FrozenParts DEF CleanFreeze
<1>4. rule \in ContractRules(contract)
    <2>1. rule \in PortRules(c, contract[c])
        BY <1>2 DEF PortRules
    <2>2. QED
        BY <1>2, <1>3, <2>1 DEF ContractRules
<1>5. /\ rule.kind = "port" /\ rule.component = c /\ rule.native = f[3]
      /\ rule.canonical = q /\ f[1] \in rule.views
    BY <1>1 DEF Rule, SameKey
<1>6. ~Collides(r, "port", c, f[1], f[3])
    BY <1>3, NoCollision DEF CleanFreeze, FrozenFrom
<1>7. Resolve(r, "port", c, f[1], f[3]) = q
    BY DEF CanonicalPortName
<1>8. ASSUME NEW a \in ContractRules(contract),
             a.kind = "port", a.component = c, a.native = f[3], f[1] \in a.views
      PROVE  a.canonical = q
    <2>1. /\ a.canonical \in DOMAIN contract[c].ports
          /\ f[1] \in DOMAIN contract[c].ports[a.canonical]
          /\ f[3] = contract[c].ports[a.canonical][f[1]]
        BY <1>1, <1>8, RulesOfContract DEF IInv
    <2>2. PICK g \in PortMembers(r, c, a.canonical) : g[1] = f[1] /\ g[3] = f[3]
        BY <1>2, <2>1, KeptPorts
    <2>3. g \in PortFacts(r, c) /\ CanonicalPortName(r, c, g[1], g[3]) = a.canonical
        BY DEF PortMembers
    <2>4. QED
        BY <2>2, <2>3
<1> HIDE DEF q, rule
<1>9. /\ Resolve(Input, "port", c, f[1], f[3]) = q
      /\ ~Collides(Input, "port", c, f[1], f[3])
    BY <1>4, <1>5, <1>6, <1>7, <1>8, ContractRuleSettles DEF IInv
<1>10. QED
    BY <1>9 DEF q, CanonicalPortName

LEMMA SamePortInventory ==
    ASSUME PlainKeys, IInv, NoContractIsNone, NEW k, CleanFreeze(k), NEW c
    PROVE  /\ Ports(Input, c) = Ports(InputWith(k), c)
           /\ \A q : PortViews(Input, c, q) = PortViews(InputWith(k), c, q)
           /\ DuplicatePorts(Input, c) = DuplicatePorts(InputWith(k), c)
<1> DEFINE r == InputWith(k)
<1>1. PortFacts(Input, c) = PortFacts(r, c)
    BY SameDesign
<1>2. \A f \in PortFacts(r, c) : CanonicalPortName(Input, c, f[1], f[3])
                                  = CanonicalPortName(r, c, f[1], f[3])
    BY SamePortName
<1>3. Ports(Input, c) = Ports(r, c)
    BY <1>1, <1>2 DEF Ports
<1>4. ASSUME NEW q
      PROVE  PortViews(Input, c, q) = PortViews(r, c, q)
    <2>1. PortMembers(Input, c, q) = PortMembers(r, c, q)
        BY <1>1, <1>2 DEF PortMembers
    <2>2. QED
        BY <2>1 DEF PortViews
<1>5. DuplicatePorts(Input, c) = DuplicatePorts(r, c)
    <2>1. {x \in PortFacts(Input, c) : \E y \in PortFacts(Input, c) : Twins(Input, c, x, y)}
            = {x \in PortFacts(r, c) : \E y \in PortFacts(r, c) : Twins(r, c, x, y)}
        BY <1>1, <1>2 DEF Twins
    <2>2. QED
        BY <1>1, <1>2, <2>1 DEF DuplicatePorts
<1>6. QED
    BY <1>3, <1>4, <1>5

(* Selectors spelled like the views they name select no other. *)
LEMMA ExpandIsPlain ==
    ASSUME PlainKeys, Configured, NEW selected, selected \subseteq View,
           NEW active, active \subseteq View
    PROVE  Expand(selected, active) \subseteq selected
<1> DEFINE hit(x) == {v \in active : FoldedKey[v] = FoldedKey[x]}
<1>1. SUFFICES ASSUME NEW w \in Expand(selected, active)
               PROVE  w \in selected
    OBVIOUS
<1>2. PICK x \in selected : w \in IF hit(x) = {} THEN {FoldedKey[x]} ELSE hit(x)
    BY DEF Expand
<1>3. \A v \in View : FoldedKey[v] = v
    BY NamedIsPlain DEF Named
<1>4. QED
    BY <1>2, <1>3

LEMMA SameMissingViews ==
    ASSUME PlainKeys, IInv, NoContractIsNone, NEW k, CleanFreeze(k),
           NEW c \in Design(InputWith(k))
    PROVE  MissingComponentViews(Input, c) = MissingComponentViews(InputWith(k), c)
<1> DEFINE r == InputWith(k)
           local == (IF project.strict THEN ContractView ELSE {})
                    \cup ParticipationViews(c)
           present == MemberViews(r, c)
<1>0. FrozenFrom(k)
    BY DEF CleanFreeze
<1>1. /\ Frozen(Input.contract) = contract /\ c \in DOMAIN contract
      /\ DOMAIN contract[c].names = present
      /\ contract[c].required = RequiredViews(r, c)
    <2>1. Frozen(contract) = contract /\ DOMAIN contract = Design(r)
        BY <1>0, FrozenParts
    <2>2. /\ contract[c].names = [v \in present |-> FrozenName(r, c, v)]
          /\ contract[c].required = RequiredViews(r, c)
        BY <1>0, <2>1, FrozenParts
    <2>3. Input.contract = contract
        BY DEF Input, InputWith
    <2> HIDE DEF r, present
    <2>4. DOMAIN contract[c].names = present
        BY <2>2
    <2>5. QED
        BY <2>1, <2>2, <2>3, <2>4 DEF r
<1>2. present \subseteq View /\ ContractView \subseteq View
    BY FrozenNameIsThere DEF ContractView
<1>3. Expand(present, ContractView) \subseteq present
    BY <1>2, ExpandIsPlain DEF IInv
<1>4. FrozenViews(Input, c) = RequiredViews(r, c) \cup Expand(present, ContractView)
    BY <1>1 DEF FrozenViews
<1>5. /\ RequiredViews(r, c) = (local \cup FrozenViews(r, c)) \ OptionalViews(c)
      /\ RequiredViews(Input, c) = (local \cup FrozenViews(Input, c)) \ OptionalViews(c)
    BY DEF RequiredViews
<1> HIDE DEF local
<1>6. RequiredViews(Input, c) \ present = RequiredViews(r, c) \ present
    BY <1>3, <1>4, <1>5
<1>7. MemberViews(Input, c) = present
    BY SameDesign
<1>8. \A v : WholeViewTainted(Input, v) <=> WholeViewTainted(r, v)
    BY DEF WholeViewTainted, Input, InputWith
<1>9. QED
    BY <1>6, <1>7, <1>8 DEF MissingComponentViews

LEMMA FewerMissingPorts ==
    ASSUME PlainKeys, IInv, NoContractIsNone, NEW k, CleanFreeze(k),
           NEW c \in Design(InputWith(k)), NEW q \in Ports(InputWith(k), c)
    PROVE  MissingPortViews(Input, c, q) \subseteq MissingPortViews(InputWith(k), c, q)
<1> DEFINE r == InputWith(k)
           here == MemberViews(r, c) \ PackageView
           present == PortViews(r, c, q)
<1>1. SUFFICES ASSUME NEW v \in MissingPortViews(Input, c, q)
               PROVE  v \in MissingPortViews(r, c, q)
    OBVIOUS
<1>2. /\ MemberViews(Input, c) = MemberViews(r, c)
      /\ Members(Input, c) = Members(r, c)
      /\ PortViews(Input, c, q) = present
    BY SameDesign, SamePortInventory
<1>3. /\ v \in RequiredPortViews(Input, c, q)
      /\ v \notin present
      /\ ~ScopeTainted(Input, v, {d[2] : d \in {m \in Members(r, c) : m[1] = v}})
    BY <1>2 DEF MissingPortViews
<1>4. /\ Frozen(Input.contract) = contract /\ c \in DOMAIN contract
      /\ contract[c].ports = FrozenPorts(r, c)
    BY FrozenParts DEF CleanFreeze, Input, InputWith
<1>5. q \in DOMAIN contract[c].ports /\ DOMAIN contract[c].ports[q] = present
    BY <1>4 DEF FrozenPorts
<1>6. RuledPortViews(Input, c, q) = RuledPortViews(r, c, q)
    BY <1>2 DEF RuledPortViews, DefaultPortViews
<1>7. RequiredPortViews(Input, c, q)
        = FilterOptionalPG((RuledPortViews(r, c, q) \cup Expand(present, here)) \cap here, q)
    BY <1>2, <1>4, <1>5, <1>6 DEF RequiredPortViews
<1>8. present \subseteq View /\ here \subseteq View
    BY PortFactType, FrozenNameIsThere DEF PortViews, PortMembers
<1>9. Expand(present, here) \subseteq present
    BY <1>8, ExpandIsPlain DEF IInv
<1> HIDE DEF here, present
<1>10. /\ v \in RuledPortViews(r, c, q) \cap here
       /\ v \in FilterOptionalPG(RuledPortViews(r, c, q) \cap here, q)
    BY <1>3, <1>7, <1>9 DEF FilterOptionalPG
<1>11. v \in RequiredPortViews(r, c, q)
    BY <1>10 DEF RequiredPortViews, FilterOptionalPG, here
<1>12. ~ScopeTainted(r, v, {d[2] : d \in {m \in Members(r, c) : m[1] = v}})
    BY <1>3 DEF ScopeTainted, WholeViewTainted, Input, InputWith
<1>13. QED
    BY <1>3, <1>11, <1>12 DEF MissingPortViews, present

(* The report e has said of at least as many views what d says. *)
SaidBy(e, d) == <<e.code, e.object>> = <<d.code, d.object>> /\ d.views \subseteq e.views

LEMMA FreezeSaysNoMore ==
    ASSUME PlainKeys, IInv, NoContractIsNone, NEW k, CleanFreeze(k),
           NEW d \in Diagnostics(Input)
    PROVE  \E e \in Diagnostics(InputWith(k)) : SaidBy(e, d)
<1> DEFINE r == InputWith(k)
           Goal == \E e \in Diagnostics(r) : SaidBy(e, d)
<1>1. d \in Diagnostics(r) => Goal
    BY DEF SaidBy
<1>2. /\ Design(Input) = Design(r) /\ Definitions(Input) = Definitions(r)
      /\ Input.obs = r.obs
    BY SameDesign DEF Input, InputWith
<1>3. /\ contract # NoContract /\ Input.contract = contract
      /\ Frozen(contract) = contract /\ DOMAIN contract = Design(r)
    BY FrozenParts DEF CleanFreeze, Input, InputWith
<1>4. ASSUME d \in AliasDiagnostics(Input)
      PROVE  FALSE
    <2>1. ASSUME NEW x \in Definitions(r)
          PROVE  ~Collides(Input, "component", "", x[1], x[2])
        <3>1. x \in Members(r, ComponentName(r, x[1], x[2]))
            BY DEF Members
        <3>2. QED
            BY <3>1, SameComponentName
    <2>2. ASSUME NEW c \in Design(r)
          PROVE  PortCollisions(Input, c) = {}
        <3>1. PortFacts(Input, c) = PortFacts(r, c)
            BY SameDesign
        <3>2. \A f \in PortFacts(r, c) : ~Collides(Input, "port", c, f[1], f[3])
            BY SamePortName
        <3>3. QED
            BY <3>1, <3>2 DEF PortCollisions
    <2>3. QED
        BY <1>2, <1>4, <2>1, <2>2 DEF AliasDiagnostics
<1>5. ASSUME d \in DuplicateDiagnostics(Input)
      PROVE  Goal
    <2>1. PICK c \in Design(r) :
              d \in DuplicateDefinitions(Input, c) \/ d \in DuplicatePorts(Input, c)
        BY <1>2, <1>5 DEF DuplicateDiagnostics
    <2>2. DuplicateDefinitions(Input, c) = DuplicateDefinitions(r, c)
        <3>1. Members(Input, c) = Members(r, c)
            BY SameDesign
        <3>2. QED
            BY <1>2, <3>1 DEF DuplicateDefinitions
    <2>3. DuplicatePorts(Input, c) = DuplicatePorts(r, c)
        BY SamePortInventory
    <2>4. d \in Diagnostics(r)
        BY <2>1, <2>2, <2>3 DEF Diagnostics, DuplicateDiagnostics
    <2>5. QED
        BY <1>1, <2>4
<1>6. ASSUME d \in IncompleteDiagnostics(Input)
      PROVE  Goal
    <2>1. d \in IncompleteDiagnostics(r)
        BY <1>2, <1>6 DEF IncompleteDiagnostics
    <2>2. QED
        BY <1>1, <2>1 DEF Diagnostics
<1>7. ASSUME d \in ComponentDiagnostics(Input)
      PROVE  Goal
    <2>1. ComponentsAgainst(contract, Input) = {}
        BY <1>2, <1>3 DEF ComponentsAgainst
    <2>2. d \in MissingComponents(Input)
        BY <1>3, <1>7, <2>1 DEF ComponentDiagnostics
    <2>3. PICK c \in Design(r) :
              /\ MissingComponentViews(Input, c) # {}
              /\ d = Diag("OC3001", <<c>>, MissingComponentViews(Input, c))
        BY <1>2, <2>2 DEF MissingComponents
    <2>4. MissingComponentViews(Input, c) = MissingComponentViews(r, c)
        BY SameMissingViews
    <2>5. d \in MissingComponents(r)
        BY <2>3, <2>4 DEF MissingComponents
    <2>6. QED
        BY <1>1, <2>5 DEF Diagnostics, ComponentDiagnostics
<1>8. ASSUME NEW c \in Design(r), d \in PortDiagnostics(Input, c)
      PROVE  Goal
    <2>1. Ports(Input, c) = Ports(r, c)
        BY SamePortInventory
    <2>2. DOMAIN contract[c].ports = Ports(r, c)
        <3>1. FrozenFrom(k)
            BY DEF CleanFreeze
        <3>2. c \in DOMAIN contract
            BY <1>3, <1>8
        <3>3. contract[c].ports = FrozenPorts(r, c)
            BY <3>1, <3>2, FrozenParts
        <3>4. QED
            BY <3>3 DEF FrozenPorts
    <2>3. PortsAgainst(contract, Input, c) = {}
        BY <2>1, <2>2 DEF PortsAgainst
    <2>4. d \in MissingPorts(Input, c)
        BY <1>3, <1>8, <2>3 DEF PortDiagnostics
    <2>5. PICK q \in Ports(r, c) :
              /\ MissingPortViews(Input, c, q) # {}
              /\ d = Diag(MissingPortCode(q), <<c, q>>, MissingPortViews(Input, c, q))
        BY <2>1, <2>4 DEF MissingPorts
    <2>6. MissingPortViews(Input, c, q) \subseteq MissingPortViews(r, c, q)
        BY FewerMissingPorts
    <2> DEFINE e == Diag(MissingPortCode(q), <<c, q>>, MissingPortViews(r, c, q))
    <2>7. e \in MissingPorts(r, c)
        BY <2>5, <2>6 DEF MissingPorts
    <2>8. e \in Diagnostics(r)
        BY <2>7 DEF Diagnostics, PortDiagnostics
    <2>9. SaidBy(e, d)
        BY <2>5, <2>6 DEF SaidBy, Diag
    <2> HIDE DEF e
    <2>10. QED
        BY <2>8, <2>9
<1> HIDE DEF Goal
<1>9. Goal
    BY <1>2, <1>4, <1>5, <1>6, <1>7, <1>8 DEF Diagnostics
<1>10. QED
    BY <1>9 DEF Goal

LEMMA Freezes ==
    ASSUME PlainKeys, NoContractIsNone, IInv, Written
    PROVE  FreezeIsClean
<1> SUFFICES ASSUME report.done, built.done,
                    \A d \in built.diagnostics :
                        d.code \notin {"OC2003", "OC2004", "OC3103"},
                    NEW d \in report.diagnostics
             PROVE  \E e \in built.diagnostics : SaidBy(e, d)
    BY DEF FreezeIsClean, SaidBy
<1>1. PICK k : FrozenFrom(k)
    BY DEF Written
<1>2. CleanFreeze(k)
    BY <1>1 DEF CleanFreeze, FrozenFrom
<1>3. d \in Diagnostics(Input)
    BY DEF IInv, Told
<1>4. QED
    BY <1>1, <1>2, <1>3, FreezeSaysNoMore DEF FrozenFrom

(* A contract is accepted by the sources it was built from: the check that *)
(* follows contract build repeats at most what the build itself reported.  *)
(* Every name, native or canonical, is read back with the meaning it was   *)
(* written with (build_contract and _AliasResolver), whatever the aliases. *)
THEOREM FreshContractIsClean ==
    ASSUME PlainKeys, NoContractIsNone
    PROVE  Spec => []FreezeIsClean
<1>1. IInv /\ Written => FreezeIsClean
    BY Freezes
<1>2. QED
    BY <1>1, Invariance, WrittenInvariance, PTL

=============================================================================
