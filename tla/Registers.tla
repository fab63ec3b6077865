----------------------------- MODULE Registers -----------------------------
(***************************************************************************)
(* Register maps (engine.py): registers of several views are brought       *)
(* together by component and name, by address-map scope where a name is    *)
(* used more than once, then compared field by field and frozen.           *)
(*                                                                         *)
(* A register is a record of its native name, its component or memory map, *)
(* its address block and register files (the scope), its placement, its    *)
(* access, its fields, and whether it is a known fact.                     *)
(***************************************************************************)
EXTENDS Comparing

CONSTANTS
    RegisterKey,  \* [register name -> name without case and _reg suffix]
    FieldKey,     \* [field name -> name without case]
    AccessKey,    \* [access spelling -> access it normalises to]
    NameRank      \* [register or field name -> its place in name order]

ASSUME RegistersAssumption ==
    /\ DOMAIN NameRank = DOMAIN RegisterKey \cup DOMAIN FieldKey
    /\ "registers" \in DOMAIN Authority

HeaderKinds == {"header", "c_header", "software"}
RegisterKinds == HeaderKinds \cup {"ipxact", "systemrdl"}

-----------------------------------------------------------------------------
(* Identity *)

RegisterComponent(r) ==
    IF r.component # None THEN r.component
    ELSE IF r.map # None THEN r.map ELSE "<unspecified>"

(* A header repeats a macro prefix, which is no place in an address map. *)
RegisterScope(v, r) ==
    IF v # ContractView /\ ViewKind[v] = "header" THEN << >>
    ELSE (IF r.block # << >> THEN r.block
          ELSE IF r.map # None THEN <<r.map>> ELSE << >>) \o r.files

(* The declarations of a register: <<view, position in the view>>. *)
Entries(regs) ==
    UNION {{<<v, i>> : i \in DOMAIN regs[v]} : v \in DOMAIN regs}

Entry(regs, e) == regs[e[1]][e[2]]

ScopeOf(regs, e) == RegisterScope(e[1], Entry(regs, e))

BaseName(regs, e) == <<RegisterComponent(Entry(regs, e)),
                       RegisterKey[Entry(regs, e).name]>>

OfBase(regs, base) == {e \in Entries(regs) : BaseName(regs, e) = base}

ScopesOfBase(regs, base, v) ==
    {ScopeOf(regs, e) : e \in {m \in OfBase(regs, base) : m[1] = v}}
      \ {<< >>}

(* One view has the name in several places. *)
RequiresScope(regs, base) ==
    \E v \in DOMAIN regs : Cardinality(ScopesOfBase(regs, base, v)) > 1

(* The register a declaration is about. *)
RegisterIdentity(regs, e) ==
    LET base == BaseName(regs, e)
    IN  IF RequiresScope(regs, base) /\ ScopeOf(regs, e) # << >>
          THEN base \o ScopeOf(regs, e)
          ELSE base

RegisterGroups(regs) == {RegisterIdentity(regs, e) : e \in Entries(regs)}

GroupMembers(regs, id) ==
    {e \in Entries(regs) : RegisterIdentity(regs, e) = id}

(* Views that hold the name in the other form, scoped or not, are not      *)
(* accused of missing the register.                                        *)
SuppressedViews(regs, id) ==
    LET base == <<id[1], id[2]>>
        scoped == Len(id) > 2
    IN  IF ~RequiresScope(regs, base) THEN {}
        ELSE {e[1] : e \in {m \in OfBase(regs, base) :
                              (ScopeOf(regs, m) = << >>) = scoped}}

AmbiguousNames(regs) ==
    {base \in {BaseName(regs, e) : e \in Entries(regs)} :
        /\ RequiresScope(regs, base)
        /\ \E e \in OfBase(regs, base) : ScopeOf(regs, e) = << >>}

-----------------------------------------------------------------------------
(* What a view is expected to hold *)

(* A register view speaks for the components it declares, with registers   *)
(* or without.                                                             *)
SpeaksFor(views, regs, v, component) ==
    \/ \E e \in Entries(regs) :
          e[1] = v /\ RegisterComponent(Entry(regs, e)) = component
    \/ /\ v # ContractView
       /\ ViewKind[v] \in RegisterKinds
       /\ component \in views[v].declares

MissingRegister(views, regs, id, members) ==
    {v \in DOMAIN regs :
        /\ SpeaksFor(views, regs, v, id[1])
        /\ \A e \in members : e[1] # v
        /\ v = ContractView \/ ~WholeTainted(views[v])
        /\ v \notin SuppressedViews(regs, id)}

(* One declaration of each view takes part: the first. *)
FirstOf(members) ==
    {e \in members : \A m \in members : m[1] = e[1] => e[2] <= m[2]}

-----------------------------------------------------------------------------
(* The values of a register *)

Stated(values) == values \ {None}

Access(a) == IF a = None THEN None ELSE AccessKey[a]

LastBit(f) == f.offset + f.width - 1

Placed(f) == f.known /\ f.offset # None /\ f.width # None

(* The placed fields by first bit, last bit and name. *)
FieldsInOrder(r) ==
    LET placed == {i \in DOMAIN r.fields : Placed(r.fields[i])}
        key(i) == <<r.fields[i].offset, LastBit(r.fields[i]),
                    NameRank[r.fields[i].name], i>>
    IN  SetToSortSeq(placed, LAMBDA i, j : i # j /\ Before(key(i), key(j)))

\* Mutant: a field may start at the last bit of an earlier one.
SweepFindsInside(r) ==
    LET order == FieldsInOrder(r)
        field(k) == r.fields[order[k]]
    IN  \E i, j \in DOMAIN order :
           i < j /\ field(j).offset < LastBit(field(i))

(* The sweep keeps the field that reaches furthest; one that starts at or  *)
(* before its last bit overlaps it.                                        *)
SweepFindsOverlap(r) ==
    LET step(acc, i) ==
          LET f == r.fields[i]
          IN  [reach |-> IF acc.reach = None \/ LastBit(f) > acc.reach
                           THEN LastBit(f) ELSE acc.reach,
               clash |-> acc.clash
                         \/ (acc.reach # None /\ f.offset <= acc.reach)]
    IN  FoldLeft(step, [reach |-> None, clash |-> FALSE],
                 FieldsInOrder(r)).clash

FieldTooWide(r) ==
    /\ r.size # None
    /\ \E i \in DOMAIN r.fields : /\ Placed(r.fields[i])
                                  /\ LastBit(r.fields[i]) >= r.size

-----------------------------------------------------------------------------
(* Fields, <<view, position of the register, position of the field>> *)

FieldEntries(regs, members) ==
    UNION {{<<e[1], e[2], i>> : i \in DOMAIN Entry(regs, e).fields} :
             e \in members}

FieldOf(regs, f) == regs[f[1]][f[2]].fields[f[3]]

FieldName(regs, f) == FieldKey[FieldOf(regs, f).name]

FieldFindings(views, regs, id, members) ==
    LET all == FieldEntries(regs, members)
        named(n) == {f \in all : FieldName(regs, f) = n}
        first(n) == {f \in named(n) :
                       \A g \in named(n) : g[1] = f[1] => f[3] <= g[3]}
        known(n) == {f \in {FieldOf(regs, g) : g \in first(n)} : f.known}
        missing(n) == {e[1] : e \in members} \ {f[1] : f \in named(n)}
        tainted == {v \in DOMAIN regs :
                      v # ContractView /\ WholeTainted(views[v])}
        findings(n) ==
          FindingIf(first(n) # named(n), "OC6307", id \o <<n>>)
            \cup FindingIf(missing(n) \ tainted # {}, "OC6304", id \o <<n>>)
            \cup FindingIf(\/ Differ(Stated({f.offset : f \in known(n)}))
                           \/ Differ(Stated({f.width : f \in known(n)})),
                           "OC6305", id \o <<n>>)
            \cup FindingIf(Differ(Stated({Access(f.access) : f \in known(n)})),
                           "OC6306", id \o <<n>>)
            \cup FindingIf(Differ(Stated({f.reset : f \in known(n)})),
                           "OC6308", id \o <<n>>)
    IN  UNION {findings(n) : n \in {FieldName(regs, f) : f \in all}}

RegisterFindings(views, regs, id) ==
    LET members == GroupMembers(regs, id)
        first == FirstOf(members)
        known == {r \in {Entry(regs, e) : e \in first} : r.known}
    IN  FindingIf(first # members, "OC6307", id)
          \cup FindingIf(MissingRegister(views, regs, id, members) # {}, "OC6301", id)
          \cup FindingIf(\E r \in known : SweepFindsOverlap(r)
                                            \/ FieldTooWide(r), "OC6309", id)
          \cup FindingIf(\/ Differ(Stated({r.offset : r \in known}))
                         \/ Differ(Stated({r.address : r \in known})),
                         "OC6302", id)
          \cup FindingIf(Differ(Stated({r.size : r \in known})), "OC6303", id)
          \cup FindingIf(Differ(Stated({Access(r.access) : r \in known})),
                         "OC6306", id)
          \cup FieldFindings(views, regs, id, first)

(* The registers of all views, the frozen ones as those of another view. *)
WithContract(views, frozen) ==
    LET reading == {v \in Views : views[v] # None}
    IN  [v \in reading \cup (IF frozen = None THEN {} ELSE {ContractView}) |->
           IF v = ContractView THEN frozen ELSE views[v].registers]

RegisterMapFindings(views, frozen) ==
    LET regs == WithContract(views, frozen)
    IN  {Finding("OC6310", base) : base \in AmbiguousNames(regs)}
          \cup UNION {RegisterFindings(views, regs, id) :
                        id \in RegisterGroups(regs)}

-----------------------------------------------------------------------------
(* Freezing a register map *)

RegisterFormat ==
    [v \in Views |-> IF ViewKind[v] = "ipxact" THEN 0
                     ELSE IF ViewKind[v] = "systemrdl" THEN 1
                     ELSE IF ViewKind[v] \in HeaderKinds THEN 10 ELSE 5]

(* The preferred of some declarations, each with a view and a name. *)
PreferredOf(members, name(_), position(_)) ==
    LET key(e) == SelectionKey(e[1], "registers", RegisterFormat)
                    \o <<NameRank[name(e)]>> \o position(e)
    IN  CHOOSE e \in members :
           \A m \in members \ {e} : Before(key(e), key(m))

KnownOr(members, known(_)) ==
    LET usable == {e \in members : known(e)}
    IN  IF usable = {} THEN members ELSE usable

(* Each field is taken from the view preferred for it, which need not be   *)
(* the view the register is taken from.                                    *)
FrozenFields(regs, members) ==
    LET all == FieldEntries(regs, members)
        named(n) == {f \in all : FieldName(regs, f) = n}
        chosen(n) ==
          FieldOf(regs,
                  PreferredOf(KnownOr(named(n),
                                      LAMBDA f : FieldOf(regs, f).known),
                              LAMBDA f : FieldOf(regs, f).name,
                              LAMBDA f : <<f[2], f[3]>>))
    IN  SetToSeq({[chosen(n) EXCEPT !.known = TRUE] :
                    n \in {FieldName(regs, f) : f \in all}})

\* Mutant: the contract forgets where a register sits.
Unplaced(regs, id) ==
    LET e == CHOOSE m \in GroupMembers(regs, id) :
               \A n \in GroupMembers(regs, id) : IndexOf(m[1]) <= IndexOf(n[1])
        r == Entry(regs, e)
    IN  [r EXCEPT !.component = RegisterComponent(r), !.block = << >>,
                  !.map = None, !.files = << >>, !.known = TRUE,
                  !.fields = FrozenFields(regs, GroupMembers(regs, id))]

FrozenRegister(regs, id) ==
    LET members == GroupMembers(regs, id)
        preferred == PreferredOf(KnownOr(members,
                                         LAMBDA e : Entry(regs, e).known),
                                 LAMBDA e : Entry(regs, e).name,
                                 LAMBDA e : <<e[2]>>)
        r == Entry(regs, preferred)
        scope == ScopeOf(regs, preferred)
    IN  [r EXCEPT !.component = RegisterComponent(r),
                  !.block = IF scope # << >> THEN scope ELSE r.block,
                  !.files = << >>,
                  !.known = TRUE,
                  !.fields = FrozenFields(regs, members)]

FrozenRegisters(views) ==
    LET regs == WithContract(views, None)
    IN  SetToSeq({FrozenRegister(regs, id) : id \in RegisterGroups(regs)})

-----------------------------------------------------------------------------
(* What the maps mean, apart from how they are brought together *)

AgreeWhereStated(a, b) == a = None \/ b = None \/ a = b

SameLayout(f, g) ==
    f.known /\ g.known => /\ AgreeWhereStated(f.offset, g.offset)
                          /\ AgreeWhereStated(f.width, g.width)
                          /\ AgreeWhereStated(Access(f.access), Access(g.access))
                          /\ AgreeWhereStated(f.reset, g.reset)

FieldNamed(r, n) == {r.fields[i] : i \in {j \in DOMAIN r.fields :
                                            FieldKey[r.fields[j].name] = n}}

FieldNames(r) == {FieldKey[r.fields[i].name] : i \in DOMAIN r.fields}

(* Software that uses r finds the register s describes. *)
SameRegister(r, s) ==
    /\ r.known /\ s.known => /\ AgreeWhereStated(r.offset, s.offset)
                             /\ AgreeWhereStated(r.address, s.address)
                             /\ AgreeWhereStated(r.size, s.size)
                             /\ AgreeWhereStated(Access(r.access), Access(s.access))
    /\ \A n \in FieldNames(r) \cap FieldNames(s) :
          \A f \in FieldNamed(r, n), g \in FieldNamed(s, n) : SameLayout(f, g)

(* Two fields of a register share a bit. *)
FieldsShareBit(r) ==
    \E i, j \in DOMAIN r.fields :
       /\ i # j /\ Placed(r.fields[i]) /\ Placed(r.fields[j])
       /\ r.fields[i].offset..LastBit(r.fields[i])
            \cap r.fields[j].offset..LastBit(r.fields[j]) # {}

=============================================================================
