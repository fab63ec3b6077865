----------------------------- MODULE Inventory -----------------------------
(***************************************************************************)
(* The reconciliation of source views (engine.py): native names are        *)
(* resolved to canonical ones, the canonical design is compared view by    *)
(* view and against the frozen contract, and the contract is rebuilt from  *)
(* the design.  The module covers presence (which component and which port *)
(* exists where); widths, directions and functions of a port are left out. *)
(*                                                                         *)
(* A view is a file an engineer edits.  Its parser may understand only     *)
(* part of it, and says so: what it lost is covered by a tainted scope.    *)
(* An alias selector is the set of views it matches and how closely.       *)
(***************************************************************************)
EXTENDS Integers, FiniteSets, SequencesExt

CONSTANTS
    Projects,        \* the configurations, as records of
                     \*   views, ports: the source views and the port names
                     \*   initial: [views -> Text], the files at the start
                     \*   aliases: the alias tables it may hold
                     \*   participation: the rules, in configuration order
                     \*   strict: policy.strict_inventory
                     \*   damage: <<complete, tainted scopes>> a parser reports
    CompName,        \* component names, native and canonical alike
    PackageView,     \* the csv views with the package_map profile
    SideView,        \* the sdc, upf and header views
    RtlView,         \* the views of kind rtl
    FoldedKey,       \* the view id parsed from a view's lower-case key
    PGPort,          \* the canonical ports of role power or ground
    RtlPowerPins,    \* policy.rtl_power_pins: "optional", "ignore", "required"
    NoContract,      \* no contract file is there yet
    ContractConfigured, \* contract.file names what contract build writes
    MaxEdits         \* bound on the edits of files and aliases

ASSUME InventoryAssumption ==
    /\ \A p \in Projects :
       /\ \A v \in p.views : /\ v \in DOMAIN FoldedKey
                            /\ FoldedKey[v] \in DOMAIN FoldedKey
                            /\ FoldedKey[FoldedKey[v]] = FoldedKey[v]
       /\ p.initial \in [p.views ->
              UNION {[S -> SUBSET p.ports] : S \in SUBSET CompName}]
       /\ \A table \in p.aliases : \A a \in table : a.rank \in Nat
    /\ RtlPowerPins \in {"optional", "ignore", "required"}
    /\ ContractConfigured \in BOOLEAN
    /\ MaxEdits \in Nat

VARIABLES
    project,    \* the configuration
    text,       \* what each file says: its components and their ports
    obs,        \* what the parser of each view reports of that text
    aliases,    \* the configured alias rules
    contract,   \* the frozen contract, or NoContract
    built,      \* what the run reported that built the contract of these files
    report,     \* the diagnostics of the last check of these files
    edits

vars == <<project, text, obs, aliases, contract, built, report, edits>>

View == project.views
PortName == project.ports
Participation == project.participation

(* A file: the ports of each component it has. *)
Text == UNION {[S -> SUBSET PortName] : S \in SUBSET CompName}

Observation == [comps : Text, complete : BOOLEAN,
                scopes : SUBSET (CompName \cup {"*"})]

-----------------------------------------------------------------------------
(* Alias resolution *)

Frozen(k) == IF k = NoContract THEN << >> ELSE k

SameKey(v) == {w \in View : FoldedKey[w] = FoldedKey[v]}

\* Mutant: the configuration wins over the contract.
LastRank == 4

(* The names the contract holds act as rules of the closest rank: their *)
(* selector is the key of a view.                                       *)
ContractRank == 0

Rule(kind, component, canonical, native, v) ==
    [kind |-> kind, component |-> component, canonical |-> canonical,
     native |-> native, rank |-> ContractRank, views |-> SameKey(v)]

NameRules(n, c) ==
    {Rule("component", "", n, c.names[v], v) : v \in DOMAIN c.names}

PortRules(n, c) ==
    UNION {{Rule("port", n, p, c.ports[p][v], v) : v \in DOMAIN c.ports[p]} :
              p \in DOMAIN c.ports}

ContractRules(k) ==
    UNION {NameRules(n, Frozen(k)[n]) \cup PortRules(n, Frozen(k)[n]) :
              n \in DOMAIN Frozen(k)}

(* The input of one engine run: what the parsers report, a contract, and   *)
(* the rules of its resolver (_AliasResolver).                             *)
InputWith(k) ==
    [obs |-> obs, rules |-> aliases \cup ContractRules(k), contract |-> k]

Input == InputWith(contract)

Candidates(r, kind, component, v, native) ==
    LET matches == {a \in r.rules :
                      /\ a.kind = kind
                      /\ a.component = component
                      /\ a.native = native
                      /\ v \in a.views}
    IN  {a.canonical : a \in {b \in matches :
                                \A x \in matches : b.rank <= x.rank}}

(* Two rules of the closest rank disagree (_AliasCollision). *)
Collides(r, kind, component, v, native) ==
    \E x, y \in Candidates(r, kind, component, v, native) : x # y

(* The canonical name; the native one without a rule and on a collision. *)
Resolve(r, kind, component, v, native) ==
    LET found == Candidates(r, kind, component, v, native)
    IN  IF found = {} \/ Collides(r, kind, component, v, native)
        THEN native
        ELSE CHOOSE c \in found : TRUE

ComponentName(r, v, native) == Resolve(r, "component", "", v, native)
CanonicalPortName(r, c, v, native) == Resolve(r, "port", c, v, native)

-----------------------------------------------------------------------------
(* The canonical design *)

Definitions(r) == {d \in View \X CompName : d[2] \in DOMAIN r.obs[d[1]].comps}

Design(r) == {ComponentName(r, d[1], d[2]) : d \in Definitions(r)}

(* The definitions <<view, native name>> grouped under a canonical name. *)
Members(r, c) == {d \in Definitions(r) : ComponentName(r, d[1], d[2]) = c}

MemberViews(r, c) == {d[1] : d \in Members(r, c)}

(* The ports of those definitions, <<view, native component, native port>>. *)
(* Package rows are not a pin inventory: theirs are not grouped.           *)
PortFacts(r, c) ==
    UNION {{<<d[1], d[2], p>> : p \in r.obs[d[1]].comps[d[2]]} :
              d \in {m \in Members(r, c) : m[1] \notin PackageView}}

PortMembers(r, c, q) ==
    {f \in PortFacts(r, c) : CanonicalPortName(r, c, f[1], f[3]) = q}

Ports(r, c) == {CanonicalPortName(r, c, f[1], f[3]) : f \in PortFacts(r, c)}

PortViews(r, c, q) == {f[1] : f \in PortMembers(r, c, q)}

-----------------------------------------------------------------------------
(* Which views must hold an object *)

ContractView == View \ (PackageView \cup SideView)

(* An exact selector names a view it matches; one that matches none still  *)
(* stands for a view of its own, parsed from its lower-case spelling.      *)
Expand(selected, active) ==
    UNION {LET hit == {v \in active : FoldedKey[v] = FoldedKey[w]}
           IN  IF hit = {} THEN {FoldedKey[w]} ELSE hit : w \in selected}

ParticipationViews(c) ==
    UNION {Participation[i].views :
              i \in {j \in DOMAIN Participation : c \in Participation[j].comps}}

OptionalViews(c) ==
    UNION {Participation[i].optional :
              i \in {j \in DOMAIN Participation : c \in Participation[j].comps}}

FrozenViews(r, c) ==
    LET k == Frozen(r.contract)
    IN  IF c \in DOMAIN k
        THEN k[c].required \cup Expand(DOMAIN k[c].names, ContractView)
        ELSE {}

RequiredViews(r, c) ==
    ((IF project.strict THEN ContractView ELSE {})
     \cup ParticipationViews(c) \cup FrozenViews(r, c))
    \ OptionalViews(c)

\* Mutant: an incomplete view without a scope counts as read.
StarTainted(r, v) == v \in View /\ "*" \in r.obs[v].scopes

WholeViewTainted(r, v) ==
    /\ v \in View
    /\ \/ ~r.obs[v].complete /\ r.obs[v].scopes = {}
       \/ "*" \in r.obs[v].scopes

ScopeTainted(r, v, natives) ==
    \/ WholeViewTainted(r, v)
    \/ v \in View /\ natives \cap r.obs[v].scopes # {}

FilterOptionalPG(views, q) ==
    IF q \in PGPort /\ RtlPowerPins \in {"optional", "ignore"}
    THEN views \ RtlView
    ELSE views

RuleAppliesToPort(rule, c, q) ==
    /\ c \in rule.comps
    /\ rule.roles # {} => (IF q \in PGPort THEN "pg" ELSE "signal") \in rule.roles

\* Mutant: only what the rules and the contract name.
NoDefaultPortViews(r, c) == {}

DefaultPortViews(r, c) == MemberViews(r, c) \cap ContractView

(* The participation rules act on a port's views one after the other: each *)
(* adds its views and then takes its optional ones away.  A view is left   *)
(* when no rule takes it away after the last that adds it.                 *)
RuledPortViews(r, c, q) ==
    LET applied == {i \in DOMAIN Participation :
                       RuleAppliesToPort(Participation[i], c, q)}
        left(v, n) == \A i \in applied : v \in Participation[i].optional => i < n
    IN  {v \in DefaultPortViews(r, c) : left(v, 0)}
        \cup UNION {{v \in Participation[n].views : left(v, n)} : n \in applied}

RequiredPortViews(r, c, q) ==
    LET k == Frozen(r.contract)
        here == MemberViews(r, c) \ PackageView
        pinned == IF c \in DOMAIN k /\ q \in DOMAIN k[c].ports
                  THEN Expand(DOMAIN k[c].ports[q], here)
                  ELSE {}
    IN  FilterOptionalPG((RuledPortViews(r, c, q) \cup pinned) \cap here, q)

-----------------------------------------------------------------------------
(* The diagnostics of a run *)

Diag(code, object, views) == [code |-> code, object |-> object, views |-> views]

PortCollisions(r, c) ==
    {Diag("OC2002", <<c, f[3]>>, {f[1]}) :
        f \in {x \in PortFacts(r, c) : Collides(r, "port", c, x[1], x[3])}}

AliasDiagnostics(r) ==
    {Diag("OC2002", <<d[2]>>, {d[1]}) :
        d \in {x \in Definitions(r) : Collides(r, "component", "", x[1], x[2])}}
    \cup UNION {PortCollisions(r, c) : c \in Design(r)}

(* One view defines a canonical component, or a port of it, twice. *)
DuplicateDefinitions(r, c) ==
    LET defined(v) == {r.obs[v].comps[d[2]] : d \in {m \in Members(r, c) : m[1] = v}}
        twice == {v \in View : \E d, e \in Members(r, c) :
                                  d[1] = v /\ e[1] = v /\ d # e}
    IN  {Diag(IF Cardinality(defined(v)) = 1 THEN "OC2003" ELSE "OC2004",
              <<c>>, {v}) : v \in twice}

(* Two ports of one definition under one name. *)
Twins(r, c, x, y) ==
    /\ <<y[1], y[2]>> = <<x[1], x[2]>>
    /\ y[3] # x[3]
    /\ CanonicalPortName(r, c, y[1], y[3]) = CanonicalPortName(r, c, x[1], x[3])

DuplicatePorts(r, c) ==
    {Diag("OC3103", <<c, CanonicalPortName(r, c, f[1], f[3])>>, {f[1]}) :
        f \in {x \in PortFacts(r, c) : \E y \in PortFacts(r, c) : Twins(r, c, x, y)}}

DuplicateDiagnostics(r) ==
    UNION {DuplicateDefinitions(r, c) \cup DuplicatePorts(r, c) : c \in Design(r)}

MissingComponentViews(r, c) ==
    {v \in RequiredViews(r, c) \ MemberViews(r, c) : ~WholeViewTainted(r, v)}

(* Components: required views first, then the contract in both directions. *)
MissingComponents(r) ==
    {Diag("OC3001", <<c>>, MissingComponentViews(r, c)) :
        c \in {x \in Design(r) : MissingComponentViews(r, x) # {}}}

ComponentsAgainst(k, r) ==
    LET expected(c) == IF k[c].required # {} THEN k[c].required
                                             ELSE DOMAIN k[c].names
    IN  {Diag("OC3002", <<c>>, {}) : c \in Design(r) \ DOMAIN k}
        \cup {Diag("OC3001", <<c>>, Expand(expected(c), View)) :
                 c \in DOMAIN k \ Design(r)}

ComponentDiagnostics(r) ==
    MissingComponents(r)
    \cup IF r.contract = NoContract THEN {} ELSE ComponentsAgainst(r.contract, r)

MissingPortCode(q) == IF q \in PGPort THEN "OC4202" ELSE "OC3101"

MissingPortViews(r, c, q) ==
    LET natives(v) == {d[2] : d \in {m \in Members(r, c) : m[1] = v}}
    IN  {v \in RequiredPortViews(r, c, q) \ PortViews(r, c, q) :
            ~ScopeTainted(r, v, natives(v))}

MissingPorts(r, c) ==
    {Diag(MissingPortCode(q), <<c, q>>, MissingPortViews(r, c, q)) :
        q \in {x \in Ports(r, c) : MissingPortViews(r, c, x) # {}}}

PortsAgainst(k, r, c) ==
    LET here == MemberViews(r, c) \ PackageView
        expected(q) == FilterOptionalPG(here \cup Expand(DOMAIN k[c].ports[q], here), q)
    IN  {Diag("OC3102", <<c, q>>, {}) : q \in Ports(r, c) \ DOMAIN k[c].ports}
        \cup {Diag(MissingPortCode(q), <<c, q>>, expected(q)) :
                 q \in DOMAIN k[c].ports \ Ports(r, c)}

(* Ports of a component the design has: the contract, then view by view. *)
PortDiagnostics(r, c) ==
    (IF c \in DOMAIN Frozen(r.contract)
     THEN PortsAgainst(Frozen(r.contract), r, c)
     ELSE {})
    \cup MissingPorts(r, c)

(* OC1104: a view the parser gave up on without a word of its own. *)
IncompleteDiagnostics(r) ==
    {Diag("OC1104", << >>, {v}) : v \in {w \in View : ~r.obs[w].complete}}

Diagnostics(r) ==
    AliasDiagnostics(r) \cup DuplicateDiagnostics(r)
    \cup IncompleteDiagnostics(r) \cup ComponentDiagnostics(r)
    \cup UNION {PortDiagnostics(r, c) : c \in Design(r)}

(* OC2002 is fatal, OC1104 a warning and every other code here an error. *)
ExitCode(diagnostics) ==
    IF \E d \in diagnostics : d.code = "OC2002" THEN 2
    ELSE IF \E d \in diagnostics : d.code # "OC1104" THEN 1
    ELSE 0

\* Mutant: the canonical name stands for the native one.
CanonicalAsNative(r, c, v) == c

(* The first native name of a view that the component goes by. *)
FrozenName(r, c, v) == CHOOSE n \in CompName : <<v, n>> \in Members(r, c)

FrozenPorts(r, c) ==
    [q \in Ports(r, c) |->
        [v \in PortViews(r, c, q) |->
            CHOOSE p \in PortName : \E f \in PortMembers(r, c, q) :
                f[1] = v /\ f[3] = p]]

(* The contract a run generates: the design under its canonical names, and *)
(* the views each component was required in.                               *)
BuildContract(r) ==
    [c \in Design(r) |->
        [names |-> [v \in MemberViews(r, c) |-> FrozenName(r, c, v)],
         required |-> RequiredViews(r, c),
         ports |-> FrozenPorts(r, c)]]

-----------------------------------------------------------------------------
(* The parser: it may lose part of a text, and taints what it lost. *)

Honest(t, o) ==
    /\ DOMAIN o.comps \subseteq DOMAIN t
    /\ \A c \in DOMAIN o.comps :
          /\ o.comps[c] \subseteq t[c]
          /\ o.comps[c] # t[c] =>
                o.scopes \cap {c, "*"} # {} \/ (~o.complete /\ o.scopes = {})
    /\ DOMAIN o.comps # DOMAIN t =>
          "*" \in o.scopes \/ (~o.complete /\ o.scopes = {})

Parses(t) ==
    {o \in {[comps |-> s, complete |-> d[1], scopes |-> d[2]] :
               s \in UNION {[S -> SUBSET PortName] : S \in SUBSET DOMAIN t},
               d \in project.damage} : Honest(t, o)}

(* One object more or one object less in a file. *)
EditedTexts(t) ==
    {u \in Text :
        \/ \E c \in CompName : /\ {DOMAIN t, DOMAIN u} = {DOMAIN t \ {c}, DOMAIN t \cup {c}}
                               /\ DOMAIN t # DOMAIN u
                               /\ \A d \in DOMAIN t \ {c} : u[d] = t[d]
        \/ /\ DOMAIN u = DOMAIN t
           /\ \E c \in DOMAIN t, p \in PortName :
                /\ u[c] = IF p \in t[c] THEN t[c] \ {p} ELSE t[c] \cup {p}
                /\ \A d \in DOMAIN t \ {c} : u[d] = t[d]}

-----------------------------------------------------------------------------
NoReport == [done |-> FALSE, diagnostics |-> {}]

Init ==
    /\ project \in Projects
    /\ text = project.initial
    /\ obs = [v \in View |-> [comps |-> text[v], complete |-> TRUE, scopes |-> {}]]
    /\ aliases \in project.aliases
    /\ contract = NoContract
    /\ built = NoReport
    /\ report = NoReport
    /\ edits = 0

(* An engineer edits a file; its parser reads the new text. *)
Edit(v) ==
    /\ edits < MaxEdits
    /\ \E t \in EditedTexts(text[v]) :
         /\ text' = [text EXCEPT ![v] = t]
         /\ \E o \in Parses(t) : obs' = [obs EXCEPT ![v] = o]
    /\ edits' = edits + 1
    /\ built' = NoReport
    /\ report' = NoReport
    /\ UNCHANGED <<project, aliases, contract>>

(* The alias tables of the configuration are edited. *)
EditAliases ==
    /\ edits < MaxEdits
    /\ \E a \in project.aliases \ {aliases} : aliases' = a
    /\ edits' = edits + 1
    /\ built' = NoReport
    /\ report' = NoReport
    /\ UNCHANGED <<project, text, obs, contract>>

(* opencollate check *)
Check ==
    /\ report' = [done |-> TRUE, diagnostics |-> Diagnostics(Input)]
    /\ UNCHANGED <<project, text, obs, aliases, contract, built, edits>>

(* opencollate contract build into the configured file; a fatal run writes *)
(* nothing.  A contract written elsewhere changes no later run.            *)
ContractBuild ==
    /\ ContractConfigured
    /\ ExitCode(Diagnostics(Input)) # 2
    /\ contract' = BuildContract(Input)
    /\ built' = [done |-> TRUE, diagnostics |-> Diagnostics(Input)]
    /\ report' = NoReport
    /\ UNCHANGED <<project, text, obs, aliases, edits>>

Next ==
    \/ \E v \in View : Edit(v)
    \/ EditAliases
    \/ Check
    \/ ContractBuild

Spec == Init /\ [][Next]_vars

-----------------------------------------------------------------------------
(* Properties *)

(* What the files really say, under the names the run gives them. *)
TrueInput ==
    [Input EXCEPT !.obs = [v \in View |-> [comps |-> text[v], complete |-> TRUE,
                                           scopes |-> {}]]]

HasComponent(v, c) == v \in MemberViews(TrueInput, c)
HasPort(v, c, q) == v \in PortViews(TrueInput, c, q)

FullyParsed(v) == obs[v].complete /\ obs[v].scopes = {}

AbsenceCodes == {"OC3001", "OC3101", "OC4202"}

(* A check never says an object is missing from a view whose file has it:  *)
(* what a parser lost is tainted, and absence is not reported there.       *)
NoFalseAbsence ==
    \A d \in report.diagnostics : d.code \in AbsenceCodes =>
        \A w \in d.views, v \in View : FoldedKey[v] = FoldedKey[w] =>
            IF Len(d.object) = 1 THEN ~HasComponent(v, d.object[1])
                                 ELSE ~HasPort(v, d.object[1], d.object[2])

(* A check never says so when no taint meets a contract: without a         *)
(* contract, absence is not reported where a parser lost something.        *)
AbsenceIsReal ==
    contract = NoContract \/ (\A v \in View : FullyParsed(v)) => NoFalseAbsence

(* A check right after contract build, with nothing edited between, finds  *)
(* no difference between the sources and the contract written from them:   *)
(* it reports nothing that the run which built the contract had not, of    *)
(* the same views at least.  (Of two definitions of one component in a     *)
(* view the contract keeps one name.)                                      *)
FreezeIsClean ==
    /\ report.done
    /\ built.done
    /\ \A d \in built.diagnostics : d.code \notin {"OC2003", "OC2004", "OC3103"}
    => \A d \in report.diagnostics : \E e \in built.diagnostics :
          /\ <<e.code, e.object>> = <<d.code, d.object>>
          /\ d.views \subseteq e.views

(* The views a participation rule exempts from having the port. *)
OptionalPortViews(c, q) ==
    UNION {rule.optional : rule \in {x \in Range(Participation) :
                                        RuleAppliesToPort(x, c, q)}}

(* With a contract, a clean check means that nothing it holds is gone from *)
(* a fully parsed view it named, and that nothing new came.                *)
CleanMeansFrozen ==
    report.done /\ contract # NoContract /\ ExitCode(report.diagnostics) = 0 =>
        \A v \in {x \in ContractView : FullyParsed(x)}, c \in CompName :
            /\ HasComponent(v, c) => c \in DOMAIN contract
            /\ c \in DOMAIN contract /\ v \in DOMAIN contract[c].names
                  => HasComponent(v, c) \/ v \in OptionalViews(c)
            /\ c \in DOMAIN contract /\ HasComponent(v, c) =>
                  \A q \in PortName :
                     /\ HasPort(v, c, q) => q \in DOMAIN contract[c].ports
                     /\ /\ q \in DOMAIN contract[c].ports
                        /\ v \in FilterOptionalPG(View, q)
                        /\ \/ v \in DOMAIN contract[c].ports[q]
                           \/ v \notin OptionalPortViews(c, q)
                        => HasPort(v, c, q)

(* A check with exit status 0 vouches for the fully parsed views: two of   *)
(* them that define a component give it the same ports, and they hold what *)
(* the contract holds.                                                     *)
CleanMeansAgreement ==
    /\ CleanMeansFrozen
    /\ report.done /\ ExitCode(report.diagnostics) = 0 =>
        \A v, w \in {x \in ContractView : FullyParsed(x)}, c \in CompName,
           q \in PortName :
            /\ HasComponent(v, c)
            /\ HasPort(w, c, q)
            /\ v \in FilterOptionalPG(View, q) \ OptionalPortViews(c, q)
            => HasPort(v, c, q)

(* An edit of the aliases after the freeze never gives a frozen native     *)
(* name a new meaning unseen: its name stays, or the run is fatal.         *)
FrozenNamesHold ==
    report.done /\ contract # NoContract /\ ExitCode(report.diagnostics) # 2 =>
        \A c \in DOMAIN contract : \A v \in DOMAIN contract[c].names :
            LET n == contract[c].names[v]
            IN  n \in DOMAIN obs[v].comps => ComponentName(Input, v, n) = c

=============================================================================
