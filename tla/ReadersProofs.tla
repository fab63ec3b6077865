--------------------------- MODULE ReadersProofs ---------------------------
(***************************************************************************)
(* The SDC adapter, for every script: what it reports as known is what the *)
(* script does in a shell with the design loaded, and what it leaves out   *)
(* lies in a tainted scope.                                                *)
(***************************************************************************)
EXTENDS Readers, WellFoundedInduction, TLAPS

-----------------------------------------------------------------------------
(* The run of a script exists, and goes from command to command.           *)

SdcIdle == [env |-> << >>, collections |-> {}, facts |-> {}]

(* The first n commands of a script have a run. *)
RunsTo(g, s, n) ==
    g = [k \in 0..n |-> IF k = 0 THEN SdcIdle ELSE TrueStep(g[k - 1], s[k])]

LEMMA RunExists ==
    ASSUME NEW s, NEW n \in Nat
    PROVE  \E g : RunsTo(g, s, n)
<1> DEFINE Bad == {m \in Nat : ~\E g : RunsTo(g, s, m)}
<1>1. 0 \notin Bad
    <2> DEFINE g == [k \in 0..0 |-> SdcIdle]
    <2>1. RunsTo(g, s, 0)
        <3>1. \A k \in 0..0 : k = 0
            OBVIOUS
        <3>2. g = [k \in 0..0 |-> IF k = 0 THEN SdcIdle ELSE TrueStep(g[k - 1], s[k])]
            BY <3>1
        <3>3. QED
            BY <3>2 DEF RunsTo
    <2>2. QED
        BY <2>1
<1>2. ASSUME NEW m \in Nat, m \notin Bad PROVE m + 1 \notin Bad
    <2>1. PICK g : RunsTo(g, s, m)
        BY <1>2
    <2> DEFINE h == [k \in 0..(m + 1) |-> IF k = m + 1 THEN TrueStep(g[m], s[m + 1]) ELSE g[k]]
    <2>2. \A k \in 0..m : /\ k \in 0..(m + 1) /\ k # m + 1
                          /\ g[k] = IF k = 0 THEN SdcIdle ELSE TrueStep(g[k - 1], s[k])
        BY <2>1 DEF RunsTo
    <2>3. \A k \in 0..m : h[k] = g[k]
        BY <2>2
    <2>4. ASSUME NEW k \in 0..(m + 1)
          PROVE  h[k] = IF k = 0 THEN SdcIdle ELSE TrueStep(h[k - 1], s[k])
        <3>1. CASE k = m + 1
            <4>1. k - 1 = m /\ k # 0 /\ m \in 0..m
                BY <3>1
            <4>2. h[k - 1] = g[m] /\ h[k] = TrueStep(g[m], s[k])
                BY <4>1, <2>3, <3>1
            <4>3. QED
                BY <4>1, <4>2
        <3>2. CASE k # m + 1 /\ k = 0
            <4>1. k \in 0..m
                BY <3>2
            <4>2. QED
                BY <4>1, <2>2, <2>3, <3>2
        <3>3. CASE k # m + 1 /\ k # 0
            <4>1. k \in 0..m /\ k - 1 \in 0..m
                BY <3>3
            <4>2. h[k] = g[k] /\ h[k - 1] = g[k - 1]
                BY <4>1, <2>3
            <4>3. QED
                BY <4>1, <4>2, <2>2, <3>3
        <3>4. QED
            BY <3>1, <3>2, <3>3
    <2>5. RunsTo(h, s, m + 1)
        <3> HIDE DEF h
        <3>1. h = [k \in 0..(m + 1) |-> h[k]]
            BY DEF h
        <3>2. QED
            BY <3>1, <2>4 DEF RunsTo
    <2>6. QED
        BY <2>5
<1>3. Bad = {}
    <2>1. SUFFICES ASSUME Bad # {} PROVE FALSE
        OBVIOUS
    <2>2. PICK m \in Bad : \A k \in Bad : ~(<<k, m>> \in OpToRel(<, Nat))
        BY <2>1, NatLessThanWellFounded, WFMin
    <2>3. m \in Nat /\ m # 0
        BY <1>1
    <2>4. m - 1 \in Nat /\ m - 1 < m /\ (m - 1) + 1 = m
        BY <2>3
    <2>5. m - 1 \in Bad
        BY <1>2, <2>4
    <2>6. <<m - 1, m>> \in OpToRel(<, Nat)
        BY <2>3, <2>4 DEF OpToRel
    <2>7. QED
        BY <2>2, <2>5, <2>6
<1>4. QED
    BY <1>3

LEMMA RunSteps ==
    ASSUME NEW s, Len(s) \in Nat
    PROVE  /\ SdcRun(s)[0] = SdcIdle
           /\ \A n \in 1..Len(s) : SdcRun(s)[n] = TrueStep(SdcRun(s)[n - 1], s[n])
<1> DEFINE f == CHOOSE g : RunsTo(g, s, Len(s))
<1>1. RunsTo(f, s, Len(s))
    BY RunExists
<1>2. SdcRun(s) = f
    BY DEF SdcRun, RunsTo, SdcIdle
<1> HIDE DEF f
<1>3. \A k \in 0..Len(s) : f[k] = IF k = 0 THEN SdcIdle ELSE TrueStep(f[k - 1], s[k])
    BY <1>1 DEF RunsTo
<1>4. 0 \in 0..Len(s) /\ \A n \in 1..Len(s) : n \in 0..Len(s) /\ n # 0
    OBVIOUS
<1>5. QED
    BY <1>2, <1>3, <1>4

-----------------------------------------------------------------------------
(* Words: one that raises no issue is followed.                            *)

(* A value of the reader, and the names its variable or word stands for:    *)
(* those of a text or a list, or those a collection was queried with.       *)
Same(v, names, collection) ==
    /\ v.status = "known"
    /\ ~collection => v.kind \in {"text", "list"} /\ v.items = names /\ v.dynamic = FALSE
    /\ collection => /\ v.kind = "refs"
                     /\ Names(v.items) = ToSet(names)
                     /\ \A r \in ToSet(v.items) :
                           /\ r.status = "known"
                           /\ r.dynamic <=> r.name \in DOMAIN SdcMatches

Asked(names) == {Statement("*", "reference", n, None) : n \in names}

Follows(env, run) ==
    /\ DOMAIN env = DOMAIN run.env
    /\ run.collections \subseteq DOMAIN env
    /\ \A x \in DOMAIN env : Same(env[x], run.env[x], x \in run.collections)
    /\ \A x \in run.collections : Asked(ToSet(run.env[x])) \subseteq run.facts

LEMMA NamesOfQueries ==
    ASSUME NEW refs, NEW names,
           DOMAIN refs = DOMAIN names, \A i \in DOMAIN names : refs[i].name = names[i]
    PROVE  Names(refs) = ToSet(names)
<1>1. Names(refs) = {refs[i].name : i \in DOMAIN names}
    BY DEF Names, ToSet
<1>2. ToSet(names) = {names[i] : i \in DOMAIN names}
    BY DEF ToSet
<1>3. QED
    BY <1>1, <1>2

LEMMA LeafFollowed ==
    ASSUME NEW env, NEW run, Follows(env, run),
           NEW w, SdcLeaf(w), ~LeafIssue(env, w)
    PROVE  Same(Leaf(env, w), TrueLeaf(run.env, w), TrueCollection(run, w))
<1>1. w.form \in {"lit", "var", "join"}
    BY DEF SdcLeaf, LeafIssue
<1>2. CASE w.form = "lit"
    BY <1>2 DEF Leaf, TrueLeaf, TrueCollection, Same, Text, Value
<1>3. ASSUME w.form \in {"var", "join"}
      PROVE  /\ w.name \in DOMAIN env
             /\ Same(env[w.name], run.env[w.name], w.name \in run.collections)
             /\ Variable(env, w.name) = env[w.name]
             /\ TrueVariable(run.env, w.name) = run.env[w.name]
    BY <1>3 DEF LeafIssue, Variable, TrueVariable, Unresolved, Value, Follows
<1>4. CASE w.form = "var"
    BY <1>3, <1>4 DEF Leaf, TrueLeaf, TrueCollection
<1>5. CASE w.form = "join"
    <2> DEFINE v == env[w.name]
    <2>1. Leaf(env, w) = Joined(w, v) /\ Joined(w, v).status = "known"
        BY <1>3, <1>5 DEF Leaf, LeafIssue
    <2>2. v.kind # "refs" /\ v.kind # "none"
        BY <2>1, <1>3, <1>5 DEF Joined, Unresolved, Value, Same
    <2>3. w.name \notin run.collections
        BY <2>2, <1>3, <1>5 DEF Same
    <2>4. Joined(w, v) = Value("text", Prepend(w.prefix, v.items), v.status, v.dynamic)
        BY <2>1, <2>2 DEF Joined, Unresolved, Value
    <2>5. TrueLeaf(run.env, w) = Prepend(w.prefix, v.items)
        BY <1>3, <1>5, <2>3 DEF TrueLeaf, Same
    <2>6. ~TrueCollection(run, w)
        BY <1>5 DEF TrueCollection
    <2>7. v.status = "known" /\ v.dynamic = FALSE
        BY <1>3, <1>5, <2>3 DEF Same
    <2>8. QED
        BY <2>1, <2>4, <2>5, <2>6, <2>7 DEF Same, Value
<1>6. QED
    BY <1>1, <1>2, <1>4, <1>5

(* The words that the scripts in question use: no query of a collection.    *)
Direct(run, w) == SdcWord(w) /\ ~(w.form = "get" /\ TrueCollection(run, w.of))

LEMMA WordFollowed ==
    ASSUME NEW env, NEW run, Follows(env, run),
           NEW w, Direct(run, w), ~WordIssue(env, w)
    PROVE  /\ Same(Word(env, w), TrueNames(run.env, w), TrueCollection(run, w))
           /\ TrueObjects(run.env, w) = Objects(TrueNames(run.env, w))
<1>1. CASE SdcLeaf(w)
    <2>1. ~LeafIssue(env, w) /\ Word(env, w) = Leaf(env, w)
          /\ TrueNames(run.env, w) = TrueLeaf(run.env, w) /\ w.form # "get"
        BY <1>1 DEF SdcLeaf, WordIssue, Word, TrueNames
    <2>2. QED
        BY <1>1, <2>1, LeafFollowed DEF TrueObjects
<1>2. CASE w.form = "list" /\ SdcLeaf(w.of)
    <2> DEFINE v == Leaf(env, w.of)
    <2>1. ~LeafIssue(env, w.of) /\ Word(env, w) = Listed(v) /\ Listed(v).status = "known"
        BY <1>2 DEF WordIssue, Word
    <2>2. Same(v, TrueLeaf(run.env, w.of), TrueCollection(run, w.of))
        BY <1>2, <2>1, LeafFollowed
    <2>3. TrueNames(run.env, w) = TrueLeaf(run.env, w.of) /\ ~TrueCollection(run, w)
          /\ TrueObjects(run.env, w) = Objects(TrueNames(run.env, w))
        BY <1>2 DEF TrueNames, TrueCollection, TrueObjects
    <2> HIDE DEF v
    <2>4. Scalar(v) /\ Listed(v) = Value("list", v.items, "known", FALSE)
        BY <2>1 DEF Listed, Unresolved, Value
    <2>5. ~TrueCollection(run, w.of)
        BY <2>2, <2>4 DEF Same, Scalar
    <2>6. QED
        BY <2>1, <2>2, <2>3, <2>4, <2>5 DEF Same, Value
<1>3. CASE w.form = "get" /\ SdcLeaf(w.of) /\ w.filtered \in BOOLEAN
    <2> DEFINE v == Leaf(env, w.of)
               names == TrueLeaf(run.env, w.of)
    <2>1. /\ ~LeafIssue(env, w.of) /\ ~w.filtered /\ Queries(v) # << >>
          /\ Word(env, w) = Selected(v, w.filtered)
        BY <1>3 DEF WordIssue, Word
    <2>2. Same(v, names, FALSE)
        <3>1. Same(v, names, TrueCollection(run, w.of))
            BY <1>3, <2>1, LeafFollowed
        <3>2. ~TrueCollection(run, w.of)
            BY <1>3 DEF Direct
        <3>3. QED
            BY <3>1, <3>2 DEF Same
    <2>3. TrueNames(run.env, w) = names /\ TrueCollection(run, w)
          /\ TrueObjects(run.env, w) = Objects(TrueNames(run.env, w))
        BY <1>3, <2>1 DEF TrueNames, TrueCollection, TrueObjects
    <2> HIDE DEF v, names
    <2>4. Items(v) /\ v.status = "known" /\ v.items = names
        BY <2>2 DEF Same, Items
    <2> DEFINE q == [i \in DOMAIN names |-> [name |-> names[i], status |-> "known"]]
               r == [i \in DOMAIN names |->
                       [name |-> names[i], status |-> "known",
                        dynamic |-> names[i] \in DOMAIN SdcMatches]]
    <2>5. QueriesOf(v) = q /\ Queries(v) = q
        BY <2>1, <2>4 DEF QueriesOf, Queries
    <2>6. Selected(v, w.filtered).items = r /\ Selected(v, w.filtered).status = "known"
          /\ Selected(v, w.filtered).kind = "refs"
        <3> DEFINE tainted == w.filtered \/ ~Items(v) \/ v.status # "known" \/ Queries(v) = << >>
                   ref(x) == [name |-> x.name,
                              status |-> IF w.filtered THEN "unsupported"
                                         ELSE IF x.status # "known" THEN "tainted" ELSE "known",
                              dynamic |-> tainted \/ x.name \in DOMAIN SdcMatches]
                   refs == [i \in DOMAIN QueriesOf(v) |-> ref(QueriesOf(v)[i])]
        <3>1. tainted <=> FALSE
            BY <2>1, <2>4
        <3>2. /\ Selected(v, w.filtered).items = refs
              /\ Selected(v, w.filtered).kind = "refs"
              /\ Selected(v, w.filtered).status =
                   IF w.filtered THEN "unsupported" ELSE IF tainted THEN "tainted" ELSE "known"
            BY Zenon DEF Selected, Value
        <3> HIDE DEF tainted
        <3>3. ASSUME NEW i \in DOMAIN names PROVE ref(q[i]) = r[i]
            BY <2>1, <3>1
        <3>4. refs = [i \in DOMAIN q |-> ref(q[i])]
            BY <2>5
        <3>5. DOMAIN q = DOMAIN names
            OBVIOUS
        <3> HIDE DEF q, ref
        <3>6. refs = r
            BY <3>3, <3>4, <3>5
        <3>7. QED
            BY <3>1, <3>2, <3>6, <2>1
    <2>7. Names(r) = ToSet(names)
        <3>1. DOMAIN r = DOMAIN names /\ \A i \in DOMAIN names : r[i].name = names[i]
            OBVIOUS
        <3> HIDE DEF r
        <3>2. QED
            BY <3>1, NamesOfQueries
    <2>8. \A x \in ToSet(r) : x.status = "known" /\ (x.dynamic <=> x.name \in DOMAIN SdcMatches)
        <3>1. DOMAIN r = DOMAIN names
            OBVIOUS
        <3>2. ASSUME NEW i \in DOMAIN names
              PROVE  /\ r[i].status = "known"
                     /\ r[i].dynamic <=> r[i].name \in DOMAIN SdcMatches
            <4> DEFINE d == names[i] \in DOMAIN SdcMatches
            <4> HIDE DEF d
            <4>1. r[i] = [name |-> names[i], status |-> "known", dynamic |-> d]
                BY DEF d
            <4>2. r[i].status = "known" /\ r[i].name = names[i] /\ r[i].dynamic = d
                BY <4>1
            <4>3. QED
                BY <4>2, Zenon DEF d
        <3> HIDE DEF r
        <3>3. QED
            BY <3>1, <3>2 DEF ToSet
    <2>9. QED
        BY <2>1, <2>3, <2>6, <2>7, <2>8 DEF Same
<1>4. QED
    BY <1>1, <1>2, <1>3 DEF Direct, SdcWord

-----------------------------------------------------------------------------
(* Commands: what one adds to the observation, and to what is stated.      *)

Reader(s) ==
    /\ s = [vars |-> s.vars, facts |-> s.facts, tainted |-> s.tainted, split |-> s.split]
    /\ s.tainted \in {{}, {"*"}}

LEMMA IssueRaised ==
    ASSUME NEW s, Reader(s), NEW raised
    PROVE  /\ Reader(Issue(s, raised))
           /\ Issue(s, raised).vars = s.vars
           /\ Issue(s, raised).facts = s.facts
           /\ Issue(s, raised).split = s.split
           /\ Issue(s, raised).tainted = {} => s.tainted = {} /\ ~raised
<1>1. Issue(s, raised) = [s EXCEPT !.tainted = s.tainted \cup (IF raised THEN {"*"} ELSE {})]
    BY DEF Issue
<1>2. Issue(s, raised) =
        [vars |-> s.vars, facts |-> s.facts,
         tainted |-> s.tainted \cup (IF raised THEN {"*"} ELSE {}), split |-> s.split]
    BY <1>1 DEF Reader
<1>3. /\ s.tainted \cup (IF raised THEN {"*"} ELSE {}) \in {{}, {"*"}}
      /\ s.tainted \cup (IF raised THEN {"*"} ELSE {}) = {} => s.tainted = {} /\ ~raised
    BY DEF Reader
<1>4. QED
    BY <1>2, <1>3 DEF Reader

LEMMA FactsAdded ==
    ASSUME NEW s, Reader(s), NEW facts
    PROVE  /\ Reader(Add(s, facts))
           /\ Add(s, facts).vars = s.vars
           /\ Add(s, facts).facts = s.facts \cup facts
           /\ Add(s, facts).split = s.split
           /\ Add(s, facts).tainted = s.tainted
<1>1. Add(s, facts) =
        [vars |-> s.vars, facts |-> s.facts \cup facts, tainted |-> s.tainted,
         split |-> s.split]
    BY DEF Reader, Add
<1>2. QED
    BY <1>1 DEF Reader

(* The facts that words leave behind, and what the script asks with them.   *)
LeftBy(env, words) == UNION {WordFacts(env, w) : w \in words}

LEMMA WordsUsed ==
    ASSUME NEW s, Reader(s), NEW words
    PROVE  /\ Reader(Use(s, words))
           /\ Use(s, words).vars = s.vars
           /\ Use(s, words).facts = s.facts \cup LeftBy(s.vars, words)
           /\ Use(s, words).split = s.split
           /\ Use(s, words).tainted = {} =>
                 s.tainted = {} /\ \A w \in words : ~WordIssue(s.vars, w)
<1> DEFINE t == Issue(s, \E w \in words : WordIssue(s.vars, w))
<1>1. Use(s, words) = Add(t, LeftBy(s.vars, words))
    BY DEF Use, Add, LeftBy
<1>2. /\ Reader(t) /\ t.vars = s.vars /\ t.facts = s.facts /\ t.split = s.split
      /\ t.tainted = {} => s.tainted = {} /\ ~\E w \in words : WordIssue(s.vars, w)
    BY IssueRaised
<1> HIDE DEF t
<1>3. QED
    BY <1>1, <1>2, FactsAdded

(* Every known fact is stated, and every statement has a fact.              *)
Founded(facts, stated) == \A f \in facts : f.known => States(f) \in stated

Kept(stated, facts) ==
    \A m \in stated : \E f \in facts :
        f.scope = m.scope /\ f.kind = m.kind /\ f.name = m.name

LEMMA Unions ==
    ASSUME NEW facts, NEW stated, NEW more, NEW new
    PROVE  /\ Founded(facts, stated) /\ Founded(more, stated \cup new) =>
                 Founded(facts \cup more, stated \cup new)
           /\ Kept(stated, facts) /\ Kept(new, facts \cup more) =>
                 Kept(stated \cup new, facts \cup more)
    BY DEF Founded, Kept

LEMMA ReferencesAgree ==
    ASSUME NEW refs
    PROVE  /\ Founded(References(refs), Asked(Names(refs)))
           /\ Kept(Asked(Names(refs)), References(refs))
<1> DEFINE fact(r) == Fact("*", "reference", r.name, None, r.status = "known")
<1>1. References(refs) = {fact(r) : r \in ToSet(refs)}
    BY DEF References
<1>2. Asked(Names(refs)) = {Statement("*", "reference", r.name, None) : r \in ToSet(refs)}
    BY DEF Asked, Names
<1>3. ASSUME NEW r
      PROVE  /\ States(fact(r)) = Statement("*", "reference", r.name, None)
             /\ fact(r).scope = "*" /\ fact(r).kind = "reference" /\ fact(r).name = r.name
    <2> DEFINE known == r.status = "known"
    <2> HIDE DEF known
    <2>1. fact(r) = [scope |-> "*", kind |-> "reference", name |-> r.name,
                     value |-> None, known |-> known]
        BY DEF Fact, known
    <2> HIDE DEF fact
    <2>2. QED
        BY <2>1 DEF States, Statement
<1>4. ASSUME NEW r
      PROVE  LET m == Statement("*", "reference", r.name, None)
             IN  m.scope = "*" /\ m.kind = "reference" /\ m.name = r.name
    BY DEF Statement
<1> HIDE DEF fact
<1>5. Founded(References(refs), Asked(Names(refs)))
    BY <1>1, <1>2, <1>3 DEF Founded
<1>6. Kept(Asked(Names(refs)), References(refs))
    BY <1>1, <1>2, <1>3, <1>4 DEF Kept
<1>7. QED
    BY <1>5, <1>6

LEMMA WordsAgree ==
    ASSUME NEW env, NEW run, Follows(env, run), NEW words,
           \A w \in words : Direct(run, w) /\ ~WordIssue(env, w)
    PROVE  LET asked == UNION {Asked(ToSet(TrueNames(run.env, w)))
                                 : w \in {x \in words : x.form = "get"}}
           IN  Founded(LeftBy(env, words), asked) /\ Kept(asked, LeftBy(env, words))
<1> DEFINE asked == UNION {Asked(ToSet(TrueNames(run.env, w)))
                             : w \in {x \in words : x.form = "get"}}
<1>1. ASSUME NEW w \in words, w.form = "get"
      PROVE  /\ Names(Word(env, w).items) = ToSet(TrueNames(run.env, w))
             /\ WordFacts(env, w) = References(Word(env, w).items)
    <2>1. Same(Word(env, w), TrueNames(run.env, w), TrueCollection(run, w))
        BY WordFollowed
    <2>2. QED
        BY <1>1, <2>1 DEF Same, TrueCollection, WordFacts
<1>2. ASSUME NEW f \in LeftBy(env, words), f.known PROVE States(f) \in asked
    <2>1. PICK w \in words : f \in WordFacts(env, w)
        BY <1>2 DEF LeftBy
    <2>2. w.form = "get"
        BY <2>1 DEF WordFacts
    <2>3. States(f) \in Asked(Names(Word(env, w).items))
        BY <1>1, <1>2, <2>1, <2>2, ReferencesAgree DEF Founded
    <2>4. QED
        BY <1>1, <2>2, <2>3
<1>3. ASSUME NEW m \in asked
      PROVE  \E f \in LeftBy(env, words) :
                f.scope = m.scope /\ f.kind = m.kind /\ f.name = m.name
    <2>1. PICK w \in words : w.form = "get" /\ m \in Asked(ToSet(TrueNames(run.env, w)))
        BY <1>3
    <2>2. PICK f \in WordFacts(env, w) :
             f.scope = m.scope /\ f.kind = m.kind /\ f.name = m.name
        BY <1>1, <2>1, ReferencesAgree DEF Kept
    <2>3. f \in LeftBy(env, words)
        BY <2>2 DEF LeftBy
    <2>4. QED
        BY <2>2, <2>3
<1>4. QED
    BY <1>2, <1>3 DEF Founded, Kept

(* What a reader that followed the script up to a command knows after it.   *)
Advances(s, t, run, c) ==
    /\ Follows(t.vars, TrueStep(run, c))
    /\ Kept(run.facts, s.facts) => Kept(TrueStep(run, c).facts, t.facts)
    /\ Founded(s.facts, run.facts)
       /\ (\A w \in Unasked(run, c) : ToSet(TrueNames(run.env, w)) \cap DOMAIN SdcMatches = {})
         => Founded(t.facts, TrueStep(run, c).facts)

(* A command changes the reader as the code does, and cannot clear a taint. *)
Changes(s, t) ==
    /\ Reader(t)
    /\ t.split = s.split
    /\ t.tainted = {} => s.tainted = {}

LEMMA StepOfRun ==
    ASSUME NEW run, NEW c
    PROVE  /\ TrueStep(run, c).facts =
                run.facts \cup (TrueFacts(run.env, c)
                                \cup TrueReferences(run.env, c, TrueWords(c)))
           /\ c.type = "set" /\ c.word # None =>
                /\ TrueStep(run, c).env = Assign(run.env, c.name, TrueNames(run.env, c.word))
                /\ TrueStep(run, c).collections =
                     IF TrueCollection(run, c.word) THEN run.collections \cup {c.name}
                     ELSE run.collections \ {c.name}
           /\ c.type = "unset" /\ c.name # None =>
                /\ TrueStep(run, c).env = [n \in DOMAIN run.env \ {c.name} |-> run.env[n]]
                /\ TrueStep(run, c).collections = run.collections \ {c.name}
           /\ c.type \notin {"set", "unset", "opaque"} =>
                /\ TrueStep(run, c).env = run.env
                /\ TrueStep(run, c).collections = run.collections
<1>1. TrueStep(run, c).facts =
        run.facts \cup (TrueFacts(run.env, c) \cup TrueReferences(run.env, c, TrueWords(c)))
    BY DEF TrueStep
<1>2. ASSUME c.type = "set", c.word # None
      PROVE  /\ TrueStep(run, c).env = Assign(run.env, c.name, TrueNames(run.env, c.word))
             /\ TrueStep(run, c).collections =
                  IF TrueCollection(run, c.word) THEN run.collections \cup {c.name}
                  ELSE run.collections \ {c.name}
    BY <1>2 DEF TrueStep
<1>3. ASSUME c.type = "unset", c.name # None
      PROVE  /\ TrueStep(run, c).env = [n \in DOMAIN run.env \ {c.name} |-> run.env[n]]
             /\ TrueStep(run, c).collections = run.collections \ {c.name}
    BY <1>3 DEF TrueStep
<1>4. ASSUME c.type \notin {"set", "unset", "opaque"}
      PROVE  TrueStep(run, c).env = run.env /\ TrueStep(run, c).collections = run.collections
    BY <1>4 DEF TrueStep
<1>5. QED
    BY <1>1, <1>2, <1>3, <1>4

(* A command that sets no variable only adds facts.                         *)
LEMMA StillFollows ==
    ASSUME NEW env, NEW run, Follows(env, run),
           NEW c, c.type \notin {"set", "unset", "opaque"}
    PROVE  Follows(env, TrueStep(run, c))
<1> DEFINE after == TrueStep(run, c)
<1>1. after.env = run.env /\ after.collections = run.collections
    BY StepOfRun
<1>2. run.facts \subseteq after.facts
    <2>1. after.facts = run.facts \cup (TrueFacts(run.env, c)
                                        \cup TrueReferences(run.env, c, TrueWords(c)))
        BY StepOfRun
    <2> HIDE DEF after
    <2>2. QED
        BY <2>1
<1> HIDE DEF after
<1>3. \A x \in after.collections : Asked(ToSet(after.env[x])) \subseteq after.facts
    <2>1. SUFFICES ASSUME NEW x \in run.collections
                   PROVE  Asked(ToSet(run.env[x])) \subseteq after.facts
        BY <1>1
    <2>2. Asked(ToSet(run.env[x])) \subseteq run.facts
        BY DEF Follows
    <2>3. QED
        BY <2>2, <1>2
<1>4. DOMAIN env = DOMAIN after.env /\ after.collections \subseteq DOMAIN env
    BY <1>1 DEF Follows
<1>5. \A x \in DOMAIN env : Same(env[x], after.env[x], x \in after.collections)
    <2>1. \A x \in DOMAIN env : Same(env[x], run.env[x], x \in run.collections)
        BY DEF Follows
    <2>2. QED
        BY <1>1, <2>1, Zenon
<1>6. QED
    BY <1>3, <1>4, <1>5, Zenon DEF Follows, after

LEMMA SetChanges ==
    ASSUME NEW s, Reader(s), NEW c
    PROVE  Changes(s, SetVariable(s, c)) /\ Changes(s, Unset(s, c))
<1>1. Changes(s, SetVariable(s, c))
    <2>1. CASE c.word = None
        BY <2>1, IssueRaised DEF SetVariable, Changes
    <2>2. CASE c.word # None
        <3> DEFINE u == Use(s, {c.word})
                   env == Assign(u.vars, c.name, Word(s.vars, c.word))
        <3>1. Reader(u) /\ u.split = s.split /\ (u.tainted = {} => s.tainted = {})
            BY WordsUsed
        <3>2. SetVariable(s, c) = [u EXCEPT !.vars = env]
            BY <2>2 DEF SetVariable
        <3> HIDE DEF u, env
        <3>3. SetVariable(s, c) = [vars |-> env, facts |-> u.facts,
                                   tainted |-> u.tainted, split |-> u.split]
            BY <3>1, <3>2 DEF Reader
        <3>4. QED
            BY <3>1, <3>3 DEF Reader, Changes
    <2>3. QED
        BY <2>1, <2>2
<1>2. Changes(s, Unset(s, c))
    <2>1. CASE c.name = None
        BY <2>1, IssueRaised DEF Unset, Changes
    <2>2. CASE c.name # None
        <3> DEFINE env == [n \in DOMAIN s.vars \ {c.name} |-> s.vars[n]]
        <3>1. Unset(s, c) = [s EXCEPT !.vars = env]
            BY <2>2 DEF Unset
        <3> HIDE DEF env
        <3>2. Unset(s, c) = [vars |-> env, facts |-> s.facts,
                             tainted |-> s.tainted, split |-> s.split]
            BY <3>1 DEF Reader
        <3>3. QED
            BY <3>2 DEF Reader, Changes
    <2>3. QED
        BY <2>1, <2>2
<1>3. QED
    BY <1>1, <1>2

(* The words of a command, as they stand in a script.                       *)
Usable(run, c) ==
    /\ \A w \in TrueWords(c) : Direct(run, w)
    /\ c.type \notin {"set", "unset", "opaque", "unbalanced"} => c.number \in BOOLEAN

LEMMA SetFollowed ==
    ASSUME NEW s, Reader(s), NEW run, Follows(s.vars, run),
           NEW c, c.type = "set", Usable(run, c),
           SetVariable(s, c).tainted = {}
    PROVE  Advances(s, SetVariable(s, c), run, c)
<1> DEFINE w == c.word
           u == Use(s, {w})
           t == SetVariable(s, c)
           after == TrueStep(run, c)
           v == Word(s.vars, w)
           names == TrueNames(run.env, w)
<1>1. w # None
    <2>1. ASSUME w = None PROVE FALSE
        <3>1. Issue(s, TRUE).tainted = {}
            BY <2>1 DEF SetVariable
        <3>2. QED
            BY <3>1, IssueRaised
    <2>2. QED
        BY <2>1
<1>2. Reader(u) /\ u.vars = s.vars /\ u.facts = s.facts \cup LeftBy(s.vars, {w})
    BY WordsUsed
<1>3. t = [u EXCEPT !.vars = Assign(u.vars, c.name, v)]
    BY <1>1 DEF SetVariable
<1>4. t.vars = Assign(s.vars, c.name, v) /\ t.facts = u.facts /\ t.tainted = u.tainted
    <2> HIDE DEF u, v, t
    <2>1. u = [vars |-> u.vars, facts |-> u.facts, tainted |-> u.tainted, split |-> u.split]
        BY <1>2 DEF Reader
    <2> DEFINE env == Assign(u.vars, c.name, v)
    <2> HIDE DEF env
    <2>2. t = [u EXCEPT !.vars = env]
        BY <1>3 DEF env
    <2>3. t.vars = env /\ t.facts = u.facts /\ t.tainted = u.tainted
        BY <2>1, <2>2
    <2>4. QED
        BY <2>3, <1>2 DEF env
<1>5. ~WordIssue(s.vars, w)
    <2>1. u.tainted = {}
        BY <1>4
    <2>2. QED
        BY <2>1, WordsUsed
<1>6. TrueWords(c) = {w} /\ TrueFacts(run.env, c) = {}
    BY <1>1 DEF TrueWords, Optional, TrueFacts
<1>7. Direct(run, w)
    BY <1>6 DEF Usable
<1>8. Same(v, names, TrueCollection(run, w))
    BY <1>5, <1>7, WordFollowed
<1> DEFINE asked == UNION {Asked(ToSet(TrueNames(run.env, x)))
                             : x \in {y \in {w} : y.form = "get"}}
<1>9. Founded(LeftBy(s.vars, {w}), asked) /\ Kept(asked, LeftBy(s.vars, {w}))
    BY <1>5, <1>7, WordsAgree
<1>10. after.facts = run.facts \cup asked
    <2>1. TrueReferences(run.env, c, {w}) = asked
        BY DEF TrueReferences, Asked
    <2>2. after.facts = run.facts \cup (TrueFacts(run.env, c)
                                        \cup TrueReferences(run.env, c, TrueWords(c)))
        BY StepOfRun
    <2> HIDE DEF after, asked
    <2>3. QED
        BY <1>6, <2>1, <2>2
<1>11. /\ after.env = Assign(run.env, c.name, names)
       /\ after.collections = IF TrueCollection(run, w) THEN run.collections \cup {c.name}
                              ELSE run.collections \ {c.name}
    BY <1>1, StepOfRun, Zenon
<1>12. TrueCollection(run, w) => Asked(ToSet(names)) \subseteq after.facts
    <2>1. CASE w.form = "get"
        <3>1. Asked(ToSet(names)) \subseteq asked
            BY <2>1
        <3> HIDE DEF asked, after
        <3>2. QED
            BY <3>1, <1>10
    <2>2. CASE w.form = "var" /\ w.name \in run.collections
        <3>1. names = run.env[w.name]
            BY <2>2 DEF TrueNames, TrueLeaf, TrueVariable, Follows
        <3>2. Asked(ToSet(run.env[w.name])) \subseteq run.facts
            BY <2>2 DEF Follows
        <3> HIDE DEF asked, after, names
        <3>3. QED
            BY <3>1, <3>2, <1>10
    <2>3. QED
        BY <2>1, <2>2 DEF TrueCollection
<1> HIDE DEF t, after, v, names, asked, u
<1>13. \A x \in run.collections : Asked(ToSet(run.env[x])) \subseteq after.facts
    <2>1. \A x \in run.collections : Asked(ToSet(run.env[x])) \subseteq run.facts
        BY DEF Follows
    <2>2. run.facts \subseteq after.facts
        BY <1>10
    <2>3. QED
        BY <2>1, <2>2
<1>14. /\ DOMAIN t.vars = DOMAIN s.vars \cup {c.name}
       /\ t.vars[c.name] = v
       /\ \A x \in DOMAIN s.vars : x # c.name => t.vars[x] = s.vars[x]
    BY <1>4 DEF Assign
<1>15. /\ DOMAIN after.env = DOMAIN run.env \cup {c.name}
       /\ after.env[c.name] = names
       /\ \A x \in DOMAIN run.env : x # c.name => after.env[x] = run.env[x]
    BY <1>11 DEF Assign
<1>16. DOMAIN s.vars = DOMAIN run.env /\ run.collections \subseteq DOMAIN s.vars
       /\ \A x \in DOMAIN s.vars : Same(s.vars[x], run.env[x], x \in run.collections)
    BY DEF Follows
<1>17. ASSUME NEW x \in DOMAIN t.vars
       PROVE  Same(t.vars[x], after.env[x], x \in after.collections)
    <2>1. CASE x = c.name
        <3>1. x \in after.collections <=> TrueCollection(run, w)
            BY <1>11, <2>1
        <3>2. t.vars[x] = v /\ after.env[x] = names
            BY <1>14, <1>15, <2>1
        <3>3. QED
            BY <3>1, <3>2, <1>8 DEF Same
    <2>2. CASE x # c.name
        <3>1. x \in after.collections <=> x \in run.collections
            BY <1>11, <2>2
        <3>2. t.vars[x] = s.vars[x] /\ after.env[x] = run.env[x] /\ x \in DOMAIN s.vars
            BY <1>14, <1>15, <1>16, <2>2
        <3>3. Same(s.vars[x], run.env[x], x \in run.collections)
            BY <3>2, <1>16
        <3>4. QED
            BY <3>1, <3>2, <3>3 DEF Same
    <2>3. QED
        BY <2>1, <2>2
<1>18. ASSUME NEW x \in after.collections
       PROVE  Asked(ToSet(after.env[x])) \subseteq after.facts /\ x \in DOMAIN t.vars
    <2>1. CASE x = c.name
        <3>1. TrueCollection(run, w)
            BY <1>11, <2>1
        <3>2. QED
            BY <3>1, <1>12, <1>14, <1>15, <2>1
    <2>2. CASE x # c.name
        <3>1. x \in run.collections
            BY <1>11, <2>2
        <3>2. after.env[x] = run.env[x] /\ x \in DOMAIN t.vars
            BY <3>1, <1>14, <1>15, <1>16, <2>2
        <3>3. QED
            BY <3>1, <3>2, <1>13
    <2>3. QED
        BY <2>1, <2>2
<1>19. Follows(t.vars, after)
    <2>1. DOMAIN t.vars = DOMAIN after.env
        BY <1>14, <1>15, <1>16
    <2>2. QED
        BY <2>1, <1>17, <1>18 DEF Follows
<1>20. t.facts = s.facts \cup LeftBy(s.vars, {w})
    BY <1>2, <1>4
<1>21. /\ Kept(run.facts, s.facts) => Kept(after.facts, t.facts)
       /\ Founded(s.facts, run.facts) => Founded(t.facts, after.facts)
    <2>1. Founded(LeftBy(s.vars, {w}), run.facts \cup asked)
        BY <1>9 DEF Founded
    <2>2. Kept(asked, s.facts \cup LeftBy(s.vars, {w}))
        BY <1>9 DEF Kept
    <2> DEFINE left == LeftBy(s.vars, {w})
    <2> HIDE DEF left
    <2>3. /\ Founded(s.facts, run.facts) => Founded(s.facts \cup left, run.facts \cup asked)
          /\ Kept(run.facts, s.facts) => Kept(run.facts \cup asked, s.facts \cup left)
        BY <2>1, <2>2, Unions, Zenon DEF left
    <2>4. QED
        BY <2>3, <1>10, <1>20, Zenon DEF left
<1>22. QED
    BY <1>19, <1>21 DEF Advances, t, after

LEMMA UnsetFollowed ==
    ASSUME NEW s, Reader(s), NEW run, Follows(s.vars, run),
           NEW c, c.type = "unset", Unset(s, c).tainted = {}
    PROVE  Advances(s, Unset(s, c), run, c)
<1> DEFINE t == Unset(s, c)
           after == TrueStep(run, c)
<1>1. c.name # None
    <2>1. ASSUME c.name = None PROVE FALSE
        <3>1. Issue(s, TRUE).tainted = {}
            BY <2>1 DEF Unset
        <3>2. QED
            BY <3>1, IssueRaised
    <2>2. QED
        BY <2>1
<1>2. t.vars = [n \in DOMAIN s.vars \ {c.name} |-> s.vars[n]] /\ t.facts = s.facts
    <2> DEFINE env == [n \in DOMAIN s.vars \ {c.name} |-> s.vars[n]]
    <2>1. t = [s EXCEPT !.vars = env]
        BY <1>1 DEF Unset
    <2> HIDE DEF env, t
    <2>2. t.vars = env /\ t.facts = s.facts
        BY <2>1 DEF Reader
    <2>3. QED
        BY <2>2 DEF env
<1>3. after.env = [n \in DOMAIN run.env \ {c.name} |-> run.env[n]]
      /\ after.collections = run.collections \ {c.name}
    BY <1>1, StepOfRun
<1>4. after.facts = run.facts
    <2>1. TrueWords(c) = {} /\ TrueFacts(run.env, c) = {}
        BY DEF TrueWords, TrueFacts
    <2>2. TrueReferences(run.env, c, {}) = {}
        BY DEF TrueReferences
    <2>3. after.facts = run.facts \cup (TrueFacts(run.env, c)
                                        \cup TrueReferences(run.env, c, TrueWords(c)))
        BY StepOfRun
    <2> HIDE DEF after
    <2>4. QED
        BY <2>1, <2>2, <2>3
<1> HIDE DEF t, after
<1>5. /\ DOMAIN s.vars = DOMAIN run.env /\ run.collections \subseteq DOMAIN s.vars
      /\ \A x \in DOMAIN s.vars : Same(s.vars[x], run.env[x], x \in run.collections)
      /\ \A x \in run.collections : Asked(ToSet(run.env[x])) \subseteq run.facts
    BY DEF Follows
<1>6. DOMAIN t.vars = DOMAIN s.vars \ {c.name} /\ DOMAIN after.env = DOMAIN t.vars
      /\ \A x \in DOMAIN t.vars : t.vars[x] = s.vars[x] /\ after.env[x] = run.env[x]
    BY <1>2, <1>3, <1>5
<1>7. ASSUME NEW x \in DOMAIN t.vars
      PROVE  Same(t.vars[x], after.env[x], x \in after.collections)
    <2>1. x \in after.collections <=> x \in run.collections
        BY <1>3, <1>6
    <2>2. Same(s.vars[x], run.env[x], x \in run.collections)
        BY <1>5, <1>6
    <2>3. QED
        BY <1>6, <2>1, <2>2 DEF Same
<1>8. ASSUME NEW x \in after.collections
      PROVE  Asked(ToSet(after.env[x])) \subseteq after.facts /\ x \in DOMAIN t.vars
    BY <1>3, <1>4, <1>5, <1>6
<1>9. Follows(t.vars, after)
    BY <1>6, <1>7, <1>8 DEF Follows
<1>10. QED
    BY <1>2, <1>4, <1>9 DEF Advances, t, after

-----------------------------------------------------------------------------
(* Constraints: a known one names the objects that the shell finds.        *)

Unpatterned(names) == ToSet(names) \cap DOMAIN SdcMatches = {}

LEMMA ExactObjects ==
    ASSUME NEW names, Unpatterned(names)
    PROVE  Objects(names) = ToSet(names)
<1> DEFINE S == ToSet(names)
           found(n) == IF n \in DOMAIN SdcMatches THEN SdcMatches[n] ELSE {n}
<1>1. Objects(names) = UNION {found(n) : n \in S}
    BY DEF Objects
<1>2. \A n \in S : found(n) = {n}
    BY DEF Unpatterned
<1> HIDE DEF found, S
<1>3. UNION {found(n) : n \in S} = S
    BY <1>2
<1>4. QED
    BY <1>1, <1>3 DEF S

(* What a command takes for its objects, when nothing is ambiguous.         *)
LEMMA TargetsFollowed ==
    ASSUME NEW v, NEW names, NEW collection \in BOOLEAN, Same(v, names, collection),
           NEW ambiguous \in BOOLEAN, ~TargetsIssue(v, ambiguous)
    PROVE  LET refs == Targets(v, ambiguous)
           IN  /\ Names(refs) = ToSet(names)
               /\ \A r \in ToSet(refs) : r.status = "known"
               /\ Sure(refs) /\ (collection \/ ambiguous) => Unpatterned(names)
<1> DEFINE refs == Targets(v, ambiguous)
<1>1. CASE collection
    <2>1. v.kind = "refs" /\ Names(v.items) = ToSet(names)
          /\ \A r \in ToSet(v.items) : /\ r.status = "known"
                                       /\ r.dynamic <=> r.name \in DOMAIN SdcMatches
        BY <1>1 DEF Same
    <2>2. refs = v.items
        BY <2>1 DEF Targets, Items
    <2> HIDE DEF refs
    <2>3. Sure(refs) => \A r \in ToSet(refs) : r.name \notin DOMAIN SdcMatches
        BY <2>1, <2>2 DEF Sure
    <2>4. (\A r \in ToSet(refs) : r.name \notin DOMAIN SdcMatches) => Unpatterned(names)
        <3>1. \A n \in ToSet(names) : \E r \in ToSet(refs) : n = r.name
            BY <2>1, <2>2 DEF Names
        <3>2. QED
            BY <3>1 DEF Unpatterned
    <2>5. QED
        BY <2>1, <2>2, <2>3, <2>4 DEF refs
<1>2. CASE ~collection
    <2> DEFINE ref(n) == [name |-> n, status |-> IF ambiguous THEN "unsupported" ELSE v.status,
                          dynamic |-> v.dynamic \/ ambiguous]
    <2>1. v.kind \in {"text", "list"} /\ v.items = names /\ v.status = "known"
        BY <1>2 DEF Same
    <2>2. refs = [i \in DOMAIN names |-> ref(names[i])]
        BY <2>1 DEF Targets, Items
    <2>3. \A n : ref(n).name = n /\ (~ambiguous => ref(n).status = "known")
        BY <2>1
    <2> HIDE DEF ref, refs
    <2>4. DOMAIN refs = DOMAIN names /\ \A i \in DOMAIN names : refs[i].name = names[i]
        BY <2>2, <2>3
    <2>5. Names(refs) = ToSet(names)
        BY <2>4, NamesOfQueries
    <2>6. ambiguous => ToSet(names) = {} /\ ToSet(refs) = {}
        <3>1. ambiguous => names = << >>
            BY <2>1 DEF TargetsIssue, Items
        <3>2. ToSet(<< >>) = {}
            BY DEF ToSet
        <3>3. DOMAIN names = {} => ToSet(refs) = {}
            BY <2>4 DEF ToSet
        <3>4. QED
            BY <3>1, <3>2, <3>3
    <2>7. \A r \in ToSet(refs) : r.status = "known"
        <3>1. \A i \in DOMAIN names : ~ambiguous => refs[i].status = "known"
            BY <2>2, <2>3
        <3>2. QED
            BY <2>4, <2>6, <3>1 DEF ToSet
    <2>8. ambiguous => Unpatterned(names)
        BY <2>6 DEF Unpatterned
    <2>9. QED
        BY <1>2, <2>5, <2>7, <2>8 DEF refs
<1>3. QED
    BY <1>1, <1>2

(* The references of the words of a command that is not a delay.            *)
LEMMA AskedByCommand ==
    ASSUME NEW run, NEW c, c.type # "set_delay", NEW words
    PROVE  TrueReferences(run.env, c, words) =
             UNION {Asked(ToSet(TrueNames(run.env, w)))
                      : w \in {x \in words : x.form = "get"}}
    BY DEF TrueReferences, Asked

LEMMA PathChanges ==
    ASSUME NEW s, Reader(s), NEW c
    PROVE  Changes(s, PathException(s, c))
<1> DEFINE u == Use(s, {c.from, c.to})
<1>1. Reader(u) /\ u.split = s.split /\ (u.tainted = {} => s.tainted = {})
    BY WordsUsed
<1> HIDE DEF u
<1>2. \E wrong, facts : PathException(s, c) = Add(Issue(u, wrong), facts)
    BY DEF PathException, u
<1>3. PICK wrong, facts : PathException(s, c) = Add(Issue(u, wrong), facts)
    BY <1>2
<1>4. Reader(Issue(u, wrong)) /\ Issue(u, wrong).split = u.split
      /\ (Issue(u, wrong).tainted = {} => u.tainted = {})
    BY <1>1, IssueRaised
<1> DEFINE i == Issue(u, wrong)
<1> HIDE DEF i
<1>5. QED
    BY <1>1, <1>3, <1>4, FactsAdded DEF Changes, i

LEMMA PathFollowed ==
    ASSUME NEW s, Reader(s), NEW run, Follows(s.vars, run),
           NEW c, c.type = "path", Usable(run, c),
           PathException(s, c).tainted = {}
    PROVE  Advances(s, PathException(s, c), run, c)
<1> DEFINE W == {c.from, c.to}
           t == PathException(s, c)
           after == TrueStep(run, c)
           from == Word(s.vars, c.from)
           to == Word(s.vars, c.to)
           collections == from.kind = "refs" /\ to.kind = "refs"
           ends(v) == IF v.kind = "refs" THEN v.items ELSE << >>
           sure == /\ c.number /\ collections
                   /\ from.status = "known" /\ to.status = "known"
                   /\ Sure(from.items) /\ Sure(to.items)
           wrong == ~c.number \/ ~collections
           u == Use(s, W)
           F == {Fact("*", "path", c.id,
                  [targets |-> Names(ends(to)), source |-> Names(ends(from))], sure)}
           G == {Statement("*", "path", c.id, [targets |-> TrueObjects(run.env, c.to),
                                               source |-> TrueObjects(run.env, c.from)])}
           asked == UNION {Asked(ToSet(TrueNames(run.env, w))) : w \in {x \in W : x.form = "get"}}
<1>1. t = Add(Issue(u, wrong), F)
    BY DEF PathException
<1>2. TrueWords(c) = W /\ TrueFacts(run.env, c) = G
    BY DEF TrueWords, TrueFacts
<1>3. after.facts = run.facts \cup (G \cup asked)
    <2>1. c.type # "set_delay"
        OBVIOUS
    <2>2. TrueReferences(run.env, c, W) = asked
        BY <2>1, AskedByCommand
    <2> HIDE DEF G, asked, W, after
    <2>3. QED
        BY <1>2, <2>2, StepOfRun DEF after
<1>4. c.number \in BOOLEAN /\ \A w \in W : Direct(run, w)
    BY <1>2 DEF Usable
<1>5. /\ Reader(u) /\ u.vars = s.vars
      /\ u.facts = s.facts \cup LeftBy(s.vars, W)
      /\ u.tainted = {} => \A w \in W : ~WordIssue(s.vars, w)
    BY WordsUsed
<1>6. /\ Reader(Issue(u, wrong)) /\ Issue(u, wrong).vars = u.vars
      /\ Issue(u, wrong).facts = u.facts
      /\ Issue(u, wrong).tainted = {} => u.tainted = {} /\ ~wrong
    BY <1>5, IssueRaised
<1> DEFINE i == Issue(u, wrong)
<1> HIDE DEF i, F, G, asked, wrong, u, t, after
<1>7. t.vars = s.vars /\ t.facts = s.facts \cup LeftBy(s.vars, W) \cup F /\ ~wrong
      /\ \A w \in W : ~WordIssue(s.vars, w)
    <2>1. Reader(i) /\ i.vars = s.vars /\ i.facts = s.facts \cup LeftBy(s.vars, W)
          /\ (i.tainted = {} => u.tainted = {} /\ ~wrong)
        BY <1>5, <1>6 DEF i
    <2>2. t = Add(i, F) /\ t.tainted = {}
        BY <1>1 DEF i, t
    <2>3. t.vars = i.vars /\ t.facts = i.facts \cup F /\ i.tainted = {}
        BY <2>1, <2>2, FactsAdded
    <2>4. QED
        BY <1>5, <2>1, <2>3
<1>8. Founded(LeftBy(s.vars, W), asked) /\ Kept(asked, LeftBy(s.vars, W))
    BY <1>4, <1>7, WordsAgree DEF asked
<1>9. ASSUME NEW w \in W, Word(s.vars, w).kind = "refs", Sure(Word(s.vars, w).items)
      PROVE  Names(Word(s.vars, w).items) = TrueObjects(run.env, w)
    <2> DEFINE v == Word(s.vars, w)
               names == TrueNames(run.env, w)
    <2>1. Same(v, names, TrueCollection(run, w)) /\ TrueObjects(run.env, w) = Objects(names)
        BY <1>4, <1>7, WordFollowed
    <2>2. TrueCollection(run, w) /\ TrueCollection(run, w) \in BOOLEAN
        BY <1>9, <2>1 DEF Same, TrueCollection
    <2>3. Targets(v, FALSE) = v.items /\ ~TargetsIssue(v, FALSE)
        BY <1>9 DEF Targets, Items, TargetsIssue
    <2> HIDE DEF v, names
    <2>4. Same(v, names, TRUE)
        BY <2>1, <2>2 DEF Same
    <2>5. Names(v.items) = ToSet(names) /\ Unpatterned(names)
        BY <2>3, <2>4, <1>9, TargetsFollowed DEF v
    <2>6. QED
        BY <2>1, <2>5, ExactObjects DEF v
<1>10. Founded(F, G)
    <2>1. ASSUME sure
          PROVE  /\ Names(ends(to)) = TrueObjects(run.env, c.to)
                 /\ Names(ends(from)) = TrueObjects(run.env, c.from)
        BY <1>9, <2>1
    <2> DEFINE value == [targets |-> Names(ends(to)), source |-> Names(ends(from))]
    <2>2. sure => value = [targets |-> TrueObjects(run.env, c.to),
                           source |-> TrueObjects(run.env, c.from)]
        BY <2>1
    <2> HIDE DEF value, sure
    <2>3. States(Fact("*", "path", c.id, value, sure)) = Statement("*", "path", c.id, value)
          /\ Fact("*", "path", c.id, value, sure).known = sure
        BY DEF States, Fact, Statement
    <2>4. QED
        BY <2>2, <2>3 DEF Founded, F, G, value
<1>11. Kept(G, F)
    BY DEF Kept, F, G, Fact, Statement
<1>12. Follows(t.vars, after)
    BY <1>7, StillFollows DEF after
<1>13. QED
    <2> DEFINE left == LeftBy(s.vars, W)
    <2>1. Founded(left \cup F, run.facts \cup (G \cup asked))
        BY <1>8, <1>10 DEF Founded
    <2>2. Kept(G \cup asked, s.facts \cup (left \cup F))
        BY <1>8, <1>11 DEF Kept
    <2> HIDE DEF left
    <2>3. /\ Founded(s.facts, run.facts) =>
                Founded(s.facts \cup (left \cup F), run.facts \cup (G \cup asked))
          /\ Kept(run.facts, s.facts) =>
                Kept(run.facts \cup (G \cup asked), s.facts \cup (left \cup F))
        BY <2>1, <2>2, Unions, Zenon
    <2>4. t.facts = s.facts \cup (left \cup F)
        BY <1>7 DEF left
    <2>5. QED
        BY <1>3, <1>12, <2>3, <2>4, Zenon DEF Advances, t, after

LEMMA Advance ==
    ASSUME NEW s, NEW t, NEW run, Follows(s.vars, run),
           NEW c, c.type \notin {"set", "unset", "opaque"},
           NEW more, NEW new,
           t.vars = s.vars, t.facts = s.facts \cup more,
           TrueStep(run, c).facts = run.facts \cup new,
           Kept(new, more),
           (\A w \in Unasked(run, c) : Unpatterned(TrueNames(run.env, w)))
             => Founded(more, run.facts \cup new)
    PROVE  Advances(s, t, run, c)
<1>1. Follows(t.vars, TrueStep(run, c))
    BY StillFollows
<1>2. Kept(run.facts, s.facts) => Kept(run.facts \cup new, s.facts \cup more)
    <2>1. Kept(new, s.facts \cup more)
        BY DEF Kept
    <2>2. QED
        BY <2>1, Unions
<1>3. ASSUME Founded(s.facts, run.facts),
             \A w \in Unasked(run, c) : Unpatterned(TrueNames(run.env, w))
      PROVE  Founded(s.facts \cup more, run.facts \cup new)
    BY <1>3, Unions
<1>4. QED
    BY <1>1, <1>2, <1>3 DEF Advances, Unpatterned

LEMMA DelayChanges ==
    ASSUME NEW s, Reader(s), NEW c
    PROVE  Changes(s, SetDelay(s, c))
<1> DEFINE u == Use(s, Optional(c.targets) \cup {c.clock})
<1>1. Reader(u) /\ u.split = s.split /\ (u.tainted = {} => s.tainted = {})
    BY WordsUsed
<1> HIDE DEF u
<1>2. \E wrong, facts : SetDelay(s, c) = Add(Issue(u, wrong), facts)
    BY DEF SetDelay, u
<1>3. PICK wrong, facts : SetDelay(s, c) = Add(Issue(u, wrong), facts)
    BY <1>2
<1> DEFINE i == Issue(u, wrong)
<1>4. Reader(i) /\ i.split = u.split /\ (i.tainted = {} => u.tainted = {})
    BY <1>1, IssueRaised
<1> HIDE DEF i
<1>5. SetDelay(s, c) = Add(i, facts)
    BY <1>3 DEF i
<1>6. QED
    BY <1>1, <1>4, <1>5, FactsAdded DEF Changes

LEMMA DelayFollowed ==
    ASSUME NEW s, Reader(s), NEW run, Follows(s.vars, run),
           NEW c, c.type = "set_delay", Usable(run, c),
           SetDelay(s, c).tainted = {}
    PROVE  Advances(s, SetDelay(s, c), run, c)
<1> DEFINE W == Optional(c.targets) \cup {c.clock}
           t == SetDelay(s, c)
           after == TrueStep(run, c)
           tv == IF c.targets = None THEN Unresolved("known") ELSE Word(s.vars, c.targets)
           cv == Word(s.vars, c.clock)
           targets == Targets(tv, FALSE)
           clocks == Targets(cv, FALSE)
           sure == /\ c.number
                   /\ tv.status = "known" /\ cv.status = "known"
                   /\ targets # << >> /\ Sure(targets) /\ Sure(clocks)
           wrong == ~c.number \/ targets = << >>
           u == Use(s, W)
           value == [targets |-> Names(targets), source |-> Names(clocks)]
           F == {Fact("*", "delay", c.id, value, sure)}
           R == References(targets) \cup References(clocks) \cup F
           true == [targets |-> TrueObjects(run.env, c.targets),
                    source |-> TrueObjects(run.env, c.clock)]
           G == {Statement("*", "delay", c.id, true)}
           asked == UNION {Asked(ToSet(TrueNames(run.env, w))) : w \in W}
           left == LeftBy(s.vars, W)
<1>1. t = Add(Issue(u, wrong), R)
    BY DEF SetDelay
<1>2. /\ Reader(u) /\ u.vars = s.vars
      /\ u.facts = s.facts \cup left
      /\ u.tainted = {} => \A w \in W : ~WordIssue(s.vars, w)
    BY WordsUsed
<1>3. t.vars = s.vars /\ t.facts = s.facts \cup (left \cup R) /\ ~wrong
      /\ \A w \in W : ~WordIssue(s.vars, w)
    <2> DEFINE i == Issue(u, wrong)
    <2>1. /\ Reader(i) /\ i.vars = u.vars /\ i.facts = u.facts
          /\ i.tainted = {} => u.tainted = {} /\ ~wrong
        BY <1>2, IssueRaised
    <2>2. t = Add(i, R) /\ t.tainted = {}
        BY <1>1
    <2> HIDE DEF i, R, t, u, wrong, W, left
    <2>3. t.vars = i.vars /\ t.facts = i.facts \cup R /\ i.tainted = {}
        BY <2>1, <2>2, FactsAdded
    <2>4. QED
        BY <1>2, <2>1, <2>3
<1>4. c.targets # None
    <2>1. Targets(Unresolved("known"), FALSE) = << >>
        BY DEF Targets, Unresolved, Value, Items
    <2>2. QED
        BY <1>3, <2>1
<1>5. W = {c.targets, c.clock} /\ TrueWords(c) = W /\ TrueFacts(run.env, c) = G
      /\ tv = Word(s.vars, c.targets)
    BY <1>4 DEF TrueWords, TrueFacts, Optional
<1>6. \A w \in W : Direct(run, w)
    BY <1>5 DEF Usable
<1>7. after.facts = run.facts \cup (G \cup asked)
    <2>1. TrueReferences(run.env, c, W) = asked
        BY DEF TrueReferences, Asked
    <2>2. TrueWords(c) = W /\ TrueFacts(run.env, c) = G
        BY <1>5
    <2>3. after.facts = run.facts \cup (TrueFacts(run.env, c)
                                        \cup TrueReferences(run.env, c, TrueWords(c)))
        BY StepOfRun
    <2> HIDE DEF G, asked, W, after
    <2>4. QED
        BY <2>1, <2>2, <2>3
<1>8. ASSUME NEW w \in W
      PROVE  LET refs == Targets(Word(s.vars, w), FALSE)
             IN  /\ Names(refs) = ToSet(TrueNames(run.env, w))
                 /\ Sure(refs) /\ (TrueCollection(run, w) \/ Unpatterned(TrueNames(run.env, w)))
                      => Names(refs) = TrueObjects(run.env, w)
    <2> DEFINE v == Word(s.vars, w)
               names == TrueNames(run.env, w)
    <2>1. Same(v, names, TrueCollection(run, w)) /\ TrueObjects(run.env, w) = Objects(names)
        BY <1>3, <1>6, WordFollowed
    <2>2. ~TargetsIssue(v, FALSE) /\ TrueCollection(run, w) \in BOOLEAN
        BY DEF TargetsIssue, TrueCollection
    <2> HIDE DEF v, names
    <2>3. /\ Names(Targets(v, FALSE)) = ToSet(names)
          /\ Sure(Targets(v, FALSE)) /\ TrueCollection(run, w) => Unpatterned(names)
        BY <2>1, <2>2, TargetsFollowed
    <2>4. QED
        BY <2>1, <2>3, ExactObjects DEF v, names
<1>9. /\ Names(targets) = ToSet(TrueNames(run.env, c.targets))
      /\ Names(clocks) = ToSet(TrueNames(run.env, c.clock))
    BY <1>5, <1>8
<1>10. asked = Asked(Names(targets)) \cup Asked(Names(clocks))
    BY <1>5, <1>9
<1>11. Founded(left, asked)
    <2> DEFINE got == UNION {Asked(ToSet(TrueNames(run.env, w))) : w \in {x \in W : x.form = "get"}}
    <2>1. Founded(left, got)
        BY <1>3, <1>6, WordsAgree
    <2>2. got \subseteq asked
        OBVIOUS
    <2> HIDE DEF got, asked, left
    <2>3. QED
        BY <2>1, <2>2 DEF Founded
<1>12. ASSUME \A w \in Unasked(run, c) : Unpatterned(TrueNames(run.env, w)), sure
       PROVE  value = true
    <2>1. Unasked(run, c) = {w \in W : ~TrueCollection(run, w)}
        BY DEF Unasked
    <2>2. \A w \in W : TrueCollection(run, w) \/ Unpatterned(TrueNames(run.env, w))
        BY <1>12, <2>1
    <2>3. Names(targets) = TrueObjects(run.env, c.targets)
        BY <1>5, <1>8, <1>12, <2>2
    <2>4. Names(clocks) = TrueObjects(run.env, c.clock)
        BY <1>5, <1>8, <1>12, <2>2
    <2>5. QED
        BY <2>3, <2>4
<1> HIDE DEF value, true, sure
<1>13. /\ States(Fact("*", "delay", c.id, value, sure)) = Statement("*", "delay", c.id, value)
       /\ Fact("*", "delay", c.id, value, sure).known = sure
    BY DEF States, Fact, Statement
<1>14. (\A w \in Unasked(run, c) : Unpatterned(TrueNames(run.env, w))) => Founded(F, G)
    BY <1>12, <1>13 DEF Founded
<1>15. Kept(G, F)
    BY DEF Kept, Fact, Statement
<1> HIDE DEF F, G
<1>16. Founded(References(targets) \cup References(clocks), asked)
       /\ Kept(asked, References(targets) \cup References(clocks))
    <2> HIDE DEF targets, clocks, asked
    <2>1. /\ Founded(References(targets), Asked(Names(targets)))
          /\ Founded(References(clocks), Asked(Names(clocks)))
          /\ Kept(Asked(Names(targets)), References(targets))
          /\ Kept(Asked(Names(clocks)), References(clocks))
        BY ReferencesAgree
    <2>2. QED
        BY <1>10, <2>1 DEF Founded, Kept
<1>17. Kept(G \cup asked, left \cup R)
    <2> HIDE DEF targets, clocks, asked, left
    <2>1. QED
        BY <1>15, <1>16 DEF Kept
<1>18. (\A w \in Unasked(run, c) : Unpatterned(TrueNames(run.env, w)))
         => Founded(left \cup R, run.facts \cup (G \cup asked))
    <2> HIDE DEF targets, clocks, asked, left
    <2>1. QED
        BY <1>11, <1>14, <1>16 DEF Founded
<1> HIDE DEF t, asked, left, R, W
<1>19. QED
    BY <1>3, <1>7, <1>17, <1>18, Advance DEF t

LEMMA ClockChanges ==
    ASSUME NEW s, Reader(s), NEW c
    PROVE  Changes(s, CreateClock(s, c))
<1> DEFINE u == Use(s, Optional(c.name) \cup Optional(c.targets) \cup Optional(c.source))
<1>1. Reader(u) /\ u.split = s.split /\ (u.tainted = {} => s.tainted = {})
    BY WordsUsed
<1> HIDE DEF u
<1>2. \E wrong, facts : CreateClock(s, c) = Add(Issue(u, wrong), facts)
    BY DEF CreateClock, u
<1>3. PICK wrong, facts : CreateClock(s, c) = Add(Issue(u, wrong), facts)
    BY <1>2
<1> DEFINE i == Issue(u, wrong)
<1>4. Reader(i) /\ i.split = u.split /\ (i.tainted = {} => u.tainted = {})
    BY <1>1, IssueRaised
<1> HIDE DEF i
<1>5. CreateClock(s, c) = Add(i, facts)
    BY <1>3 DEF i
<1>6. QED
    BY <1>1, <1>4, <1>5, FactsAdded DEF Changes

(* A word where only a collection is unambiguous.                           *)
LEMMA CollectionFollowed ==
    ASSUME NEW env, NEW run, Follows(env, run), NEW w,
           Direct(run, w), ~WordIssue(env, w),
           ~TargetsIssue(Word(env, w), TRUE)
    PROVE  /\ Names(Targets(Word(env, w), TRUE)) = ToSet(TrueNames(run.env, w))
           /\ Sure(Targets(Word(env, w), TRUE)) \/ Unpatterned(TrueNames(run.env, w))
                => Names(Targets(Word(env, w), TRUE)) = TrueObjects(run.env, w)
<1> DEFINE v == Word(env, w)
           refs == Targets(v, TRUE)
           names == TrueNames(run.env, w)
           collection == TrueCollection(run, w)
<1>1. Same(v, names, collection) /\ TrueObjects(run.env, w) = Objects(names)
    BY WordFollowed
<1>2. collection \in BOOLEAN
    BY DEF TrueCollection
<1> HIDE DEF names, collection, v
<1>3. /\ Names(refs) = ToSet(names)
      /\ Sure(refs) => Unpatterned(names)
    BY <1>1, <1>2, TargetsFollowed DEF v
<1>4. Unpatterned(names) => Names(refs) = TrueObjects(run.env, w)
    BY <1>1, <1>3, ExactObjects
<1>5. QED
    BY <1>3, <1>4 DEF names, v

(* The clocks that a command declares are those of the shell.               *)
LEMMA ClocksNamed ==
    ASSUME NEW s, NEW c, NEW targets,
           \A n \in ClockNames(s, c, targets) : n[1] # SdcUnnamed
    PROVE  ClockNames(s, c, targets) # {<<SdcUnnamed, Names(targets)>>}
<1> DEFINE n == <<SdcUnnamed, Names(targets)>>
<1>1. n[1] = SdcUnnamed
    OBVIOUS
<1> HIDE DEF n
<1>2. ClockNames(s, c, targets) # {n}
    BY <1>1
<1>3. QED
    BY <1>2 DEF n

LEMMA NamedClock ==
    ASSUME NEW s, NEW run, Follows(s.vars, run), NEW c, c.name # None,
           Direct(run, c.name), ~WordIssue(s.vars, c.name), NEW targets,
           \A n \in ClockNames(s, c, targets) : n[1] # SdcUnnamed
    PROVE  ClockNames(s, c, targets)
             = {<<TextName(TrueNames(run.env, c.name)), Names(targets)>>}
<1> DEFINE names == ClockNames(s, c, targets)
           v == Word(s.vars, c.name)
<1>1. names # {<<SdcUnnamed, Names(targets)>>}
    BY ClocksNamed
<1>2. Scalar(v) /\ names = {<<TextName(v.items), Names(targets)>>}
    BY <1>1 DEF ClockNames
<1>3. Same(v, TrueNames(run.env, c.name), TrueCollection(run, c.name))
    BY WordFollowed
<1>4. v.items = TrueNames(run.env, c.name)
    BY <1>2, <1>3 DEF Same, Scalar
<1>5. QED
    BY <1>2, <1>4

LEMMA UnnamedClocks ==
    ASSUME NEW s, NEW c, c.name = None, NEW targets,
           \A n \in ClockNames(s, c, targets) : n[1] # SdcUnnamed
    PROVE  /\ ClockNames(s, c, targets) = {<<n, {n}>> : n \in Names(targets)}
           /\ Sure(targets)
<1>1. ClockNames(s, c, targets) # {<<SdcUnnamed, Names(targets)>>}
    BY ClocksNamed
<1>2. QED
    BY <1>1 DEF ClockNames

(* What an unambiguous word stands for is asked where it is written, or was  *)
(* asked when its variable was set.                                         *)
LEMMA AskedBefore ==
    ASSUME NEW env, NEW run, Follows(env, run), NEW w, w # None,
           Direct(run, w), ~WordIssue(env, w), ~TargetsIssue(Word(env, w), TRUE)
    PROVE  Asked(ToSet(TrueNames(run.env, w)))
             \subseteq run.facts \cup (IF w.form = "get" THEN Asked(ToSet(TrueNames(run.env, w)))
                                       ELSE {})
<1>1. CASE w.form = "get"
    BY <1>1
<1>2. CASE w.form = "var" /\ w.name \in run.collections
    <2>1. TrueNames(run.env, w) = run.env[w.name]
        BY <1>2 DEF TrueNames, TrueLeaf, TrueVariable, Follows
    <2>2. Asked(ToSet(run.env[w.name])) \subseteq run.facts
        BY <1>2 DEF Follows
    <2>3. QED
        BY <2>1, <2>2
<1>3. CASE ~TrueCollection(run, w)
    <2> DEFINE v == Word(env, w)
               names == TrueNames(run.env, w)
    <2>1. Same(v, names, FALSE)
        BY <1>3, WordFollowed DEF Same
    <2> HIDE DEF v, names
    <2>2. v.items = names /\ v.kind \in {"text", "list"}
        BY <2>1 DEF Same
    <2>3. names = << >>
        BY <2>2 DEF TargetsIssue, Items, v
    <2>4. Asked(ToSet(names)) = {}
        BY <2>3 DEF Asked, ToSet
    <2>5. QED
        BY <2>4 DEF names
<1>4. QED
    BY <1>1, <1>2, <1>3 DEF TrueCollection

LEMMA ClockFollowed ==
    ASSUME NEW s, Reader(s), NEW run, Follows(s.vars, run),
           NEW c, c.type \in {"create_clock", "create_generated_clock"}, Usable(run, c),
           CreateClock(s, c).tainted = {}
    PROVE  Advances(s, CreateClock(s, c), run, c)
<1> DEFINE W == Optional(c.name) \cup Optional(c.targets) \cup Optional(c.source)
           t == CreateClock(s, c)
           after == TrueStep(run, c)
           tv == IF c.targets = None THEN Text(<< >>) ELSE Word(s.vars, c.targets)
           sv == IF c.source = None THEN Unresolved("tainted") ELSE Word(s.vars, c.source)
           targets == Targets(tv, TRUE)
           generated == c.type = "create_generated_clock"
           source == IF generated THEN Names(Targets(sv, TRUE)) ELSE {}
           names == ClockNames(s, c, targets)
           sure == /\ c.number
                   /\ tv.status = "known" /\ Sure(targets)
                   /\ c.name # None => Word(s.vars, c.name).status = "known"
                   /\ generated => targets # << >> /\ SourceSure(sv)
           wrong == \/ ~c.number
                    \/ \E n \in names : n[1] = SdcUnnamed
                    \/ TargetsIssue(tv, TRUE)
                    \/ generated /\ (\/ targets = << >> \/ c.source = None
                                     \/ TargetsIssue(sv, TRUE))
           u == Use(s, W)
           fact(n) == Fact("*", "clock", n[1], [targets |-> n[2], source |-> source], sure)
           F == {fact(n) : n \in names}
           R == References(targets) \cup F
           trueTargets == IF c.targets = None THEN {} ELSE TrueObjects(run.env, c.targets)
           trueSource == IF c.type = "create_clock" \/ c.source = None THEN {}
                         ELSE TrueObjects(run.env, c.source)
           clock(n, o) == Statement("*", "clock", n, [targets |-> o, source |-> trueSource])
           G == TrueClocks(run.env, c)
           asked == UNION {Asked(ToSet(TrueNames(run.env, w))) : w \in {x \in W : x.form = "get"}}
           left == LeftBy(s.vars, W)
<1>1. t = Add(Issue(u, wrong), R)
    BY Zenon DEF CreateClock
<1>2. /\ Reader(u) /\ u.vars = s.vars
      /\ u.facts = s.facts \cup left
      /\ u.tainted = {} => \A w \in W : ~WordIssue(s.vars, w)
    BY WordsUsed
<1>3. t.vars = s.vars /\ t.facts = s.facts \cup (left \cup R) /\ ~wrong
      /\ \A w \in W : ~WordIssue(s.vars, w)
    <2> DEFINE i == Issue(u, wrong)
    <2>1. /\ Reader(i) /\ i.vars = u.vars /\ i.facts = u.facts
          /\ i.tainted = {} => u.tainted = {} /\ ~wrong
        BY <1>2, IssueRaised
    <2>2. t = Add(i, R) /\ t.tainted = {}
        BY <1>1
    <2> HIDE DEF i, R, t, u, wrong, W, left
    <2>3. t.vars = i.vars /\ t.facts = i.facts \cup R /\ i.tainted = {}
        BY <2>1, <2>2, FactsAdded
    <2>4. QED
        BY <1>2, <2>1, <2>3
<1>4. TrueWords(c) = W /\ TrueFacts(run.env, c) = G
    BY DEF TrueWords, TrueFacts
<1>5. \A w \in W : Direct(run, w)
    BY <1>4 DEF Usable
<1>6. after.facts = run.facts \cup (G \cup asked)
    <2>1. TrueReferences(run.env, c, W) = asked
        BY AskedByCommand
    <2>2. after.facts = run.facts \cup (TrueFacts(run.env, c)
                                        \cup TrueReferences(run.env, c, TrueWords(c)))
        BY StepOfRun
    <2> HIDE DEF G, asked, W, after
    <2>3. QED
        BY <1>4, <2>1, <2>2
<1>7. /\ c.name # None => Direct(run, c.name) /\ ~WordIssue(s.vars, c.name)
      /\ c.targets # None => Direct(run, c.targets) /\ ~WordIssue(s.vars, c.targets)
      /\ c.source # None => Direct(run, c.source) /\ ~WordIssue(s.vars, c.source)
    BY <1>3, <1>5 DEF Optional
<1> DEFINE found(w) == Names(Targets(Word(s.vars, w), TRUE))
<1>c. ASSUME NEW w, Direct(run, w), ~WordIssue(s.vars, w),
             ~TargetsIssue(Word(s.vars, w), TRUE)
      PROVE  /\ found(w) = ToSet(TrueNames(run.env, w))
             /\ Sure(Targets(Word(s.vars, w), TRUE)) \/ Unpatterned(TrueNames(run.env, w))
                  => found(w) = TrueObjects(run.env, w)
    BY <1>c, CollectionFollowed, Zenon
<1>8. ~TargetsIssue(tv, TRUE) /\ (\A n \in names : n[1] # SdcUnnamed)
      /\ (generated => c.source # None /\ ~TargetsIssue(sv, TRUE))
    <2> HIDE DEF names, tv, sv, targets
    <2>1. QED
        BY <1>3
<1>9. /\ Names(targets) = IF c.targets = None THEN {} ELSE ToSet(TrueNames(run.env, c.targets))
      /\ Sure(targets) => Names(targets) = trueTargets
    <2>1. CASE c.targets = None
        <3>1. Targets(Text(<< >>), TRUE) = << >>
            BY DEF Targets, Text, Value, Items
        <3>2. Names(<< >>) = {}
            BY DEF Names, ToSet
        <3>3. QED
            BY <2>1, <3>1, <3>2
    <2>2. CASE c.targets # None
        <3>1. tv = Word(s.vars, c.targets) /\ trueTargets = TrueObjects(run.env, c.targets)
            BY <2>2
        <3> HIDE DEF tv, trueTargets
        <3>2. Direct(run, c.targets) /\ ~WordIssue(s.vars, c.targets)
              /\ ~TargetsIssue(Word(s.vars, c.targets), TRUE)
            BY <1>7, <1>8, <2>2, <3>1
        <3>3. /\ Names(Targets(Word(s.vars, c.targets), TRUE)) = ToSet(TrueNames(run.env, c.targets))
              /\ Sure(Targets(Word(s.vars, c.targets), TRUE))
                    => Names(Targets(Word(s.vars, c.targets), TRUE)) = TrueObjects(run.env, c.targets)
            BY <3>2, <1>c
        <3>4. QED
            BY <2>2, <3>1, <3>3
    <2>3. QED
        BY <2>1, <2>2
<1>10. /\ c.name # None => names = {<<TextName(TrueNames(run.env, c.name)), Names(targets)>>}
       /\ c.name = None => names = {<<n, {n}>> : n \in trueTargets} /\ Sure(targets)
    <2>1. (\A n \in names : n[1] # SdcUnnamed) /\ names = ClockNames(s, c, targets)
        BY <1>8
    <2> HIDE DEF targets, trueTargets, names
    <2>2. CASE c.name # None
        <3>1. names = {<<TextName(TrueNames(run.env, c.name)), Names(targets)>>}
            BY <1>7, <2>1, <2>2, NamedClock
        <3>2. QED
            BY <2>2, <3>1
    <2>3. CASE c.name = None
        <3>1. names = {<<n, {n}>> : n \in Names(targets)} /\ Sure(targets)
            BY <2>1, <2>3, UnnamedClocks
        <3>2. QED
            BY <1>9, <2>3, <3>1
    <2>4. QED
        BY <2>2, <2>3
<1>11. ASSUME \A w \in Unasked(run, c) : Unpatterned(TrueNames(run.env, w))
       PROVE  source = trueSource
    <2>1. CASE ~generated
        BY <2>1
    <2>2. CASE generated
        <3>1. c.source # None /\ Unpatterned(TrueNames(run.env, c.source))
            BY <1>8, <1>11, <2>2 DEF Unasked, Optional
        <3>2. sv = Word(s.vars, c.source) /\ trueSource = TrueObjects(run.env, c.source)
              /\ source = Names(Targets(sv, TRUE))
            BY <2>2, <3>1
        <3>3. Names(Targets(sv, TRUE)) = TrueObjects(run.env, c.source)
            <4>1. Direct(run, c.source) /\ ~WordIssue(s.vars, c.source)
                  /\ ~TargetsIssue(Word(s.vars, c.source), TRUE)
                BY <1>7, <1>8, <2>2, <3>1, <3>2
            <4>2. Names(Targets(Word(s.vars, c.source), TRUE)) = TrueObjects(run.env, c.source)
                BY <3>1, <4>1, <1>c
            <4>3. QED
                BY <3>2, <4>2
        <3>4. QED
            BY <3>2, <3>3
    <2>3. QED
        BY <2>1, <2>2
<1>12. G = IF c.name # None THEN {clock(TextName(TrueNames(run.env, c.name)), trueTargets)}
           ELSE {clock(n, {n}) : n \in trueTargets}
    BY DEF TrueClocks
<1>13. \A n \in names : /\ fact(n).scope = "*" /\ fact(n).kind = "clock"
                        /\ fact(n).name = n[1] /\ fact(n).known = sure
                        /\ States(fact(n)) =
                             Statement("*", "clock", n[1], [targets |-> n[2], source |-> source])
    <2> HIDE DEF sure, names, source
    <2>1. QED
        BY DEF Fact, States, Statement
<1>14. \A n, o : clock(n, o).scope = "*" /\ clock(n, o).kind = "clock" /\ clock(n, o).name = n
    BY DEF Statement
<1>15. Founded(References(targets), Asked(Names(targets)))
    <2> HIDE DEF targets
    <2>1. QED
        BY ReferencesAgree
<1>16. Asked(Names(targets)) \subseteq run.facts \cup asked
    <2>1. CASE c.targets = None
        <3>1. Names(targets) = {}
            BY <1>9, <2>1
        <3> HIDE DEF targets
        <3>2. QED
            BY <3>1 DEF Asked
    <2>2. CASE c.targets # None
        <3>1. Asked(ToSet(TrueNames(run.env, c.targets)))
                \subseteq run.facts \cup (IF c.targets.form = "get"
                                          THEN Asked(ToSet(TrueNames(run.env, c.targets))) ELSE {})
            BY <1>7, <1>8, <2>2, AskedBefore
        <3>2. c.targets.form = "get" =>
                Asked(ToSet(TrueNames(run.env, c.targets))) \subseteq asked
            BY <2>2 DEF Optional
        <3> HIDE DEF targets, asked
        <3>3. QED
            BY <1>9, <2>2, <3>1, <3>2
    <2>3. QED
        BY <2>1, <2>2
<1>17. Founded(left, asked) /\ Kept(asked, left)
    <2> HIDE DEF W
    <2>1. QED
        BY <1>3, <1>5, WordsAgree
<1>18. Kept(G, F)
    <2> HIDE DEF fact, clock, names, targets, trueTargets, G
    <2>1. ASSUME NEW m \in G
          PROVE  \E n \in names : /\ fact(n).scope = m.scope /\ fact(n).kind = m.kind
                                  /\ fact(n).name = m.name
        <3>1. CASE c.name # None
            <4> DEFINE n == <<TextName(TrueNames(run.env, c.name)), Names(targets)>>
            <4>1. n \in names /\ n[1] = TextName(TrueNames(run.env, c.name))
                BY <1>10, <3>1
            <4>2. m = clock(n[1], trueTargets)
                BY <1>12, <3>1, <4>1
            <4> HIDE DEF n
            <4>3. fact(n).scope = "*" /\ fact(n).kind = "clock" /\ fact(n).name = n[1]
                BY <4>1, <1>13
            <4>4. m.scope = "*" /\ m.kind = "clock" /\ m.name = n[1]
                BY <4>2, <1>14
            <4>5. QED
                BY <4>1, <4>3, <4>4
        <3>2. CASE c.name = None
            <4>1. PICK o \in trueTargets : m = clock(o, {o})
                BY <1>12, <3>2
            <4>2. <<o, {o}>> \in names /\ <<o, {o}>>[1] = o
                BY <1>10, <3>2
            <4> DEFINE n == <<o, {o}>>
            <4> HIDE DEF n
            <4>3. fact(n).scope = "*" /\ fact(n).kind = "clock" /\ fact(n).name = o
                BY <4>2, <1>13 DEF n
            <4>4. m.scope = "*" /\ m.kind = "clock" /\ m.name = o
                BY <4>1, <1>14
            <4>5. QED
                BY <4>2, <4>3, <4>4 DEF n
        <3>3. QED
            BY <3>1, <3>2
    <2>2. QED
        BY <2>1 DEF Kept, F
<1>19. ASSUME \A w \in Unasked(run, c) : Unpatterned(TrueNames(run.env, w))
       PROVE  Founded(F, G)
    <2>1. source = trueSource
        BY <1>11, <1>19
    <2>2. sure => Names(targets) = trueTargets
        BY <1>9
    <2> HIDE DEF fact, names, targets, trueTargets, G, sure, source, trueSource
    <2>3. ASSUME NEW n \in names, sure
          PROVE  States(fact(n)) \in G
        <3>1. States(fact(n)) = clock(n[1], n[2])
            BY <1>13, <2>1, Zenon
        <3> HIDE DEF clock
        <3>2. CASE c.name # None
            <4>1. n = <<TextName(TrueNames(run.env, c.name)), trueTargets>>
                BY <1>10, <2>2, <2>3, <3>2
            <4>2. n[1] = TextName(TrueNames(run.env, c.name)) /\ n[2] = trueTargets
                BY <4>1
            <4>3. QED
                BY <1>12, <3>1, <3>2, <4>2
        <3>3. CASE c.name = None
            <4>1. PICK o \in trueTargets : n = <<o, {o}>>
                BY <1>10, <3>3
            <4>2. n[1] = o /\ n[2] = {o}
                BY <4>1
            <4>3. QED
                BY <1>12, <3>1, <3>3, <4>2
        <3>4. QED
            BY <3>2, <3>3
    <2>4. QED
        BY <2>3, <1>13 DEF Founded, F
<1> HIDE DEF F, G, asked, left, targets
<1>20. Kept(G \cup asked, left \cup R)
    BY <1>17, <1>18 DEF Kept
<1>21. (\A w \in Unasked(run, c) : Unpatterned(TrueNames(run.env, w)))
         => Founded(left \cup R, run.facts \cup (G \cup asked))
    BY <1>15, <1>16, <1>17, <1>19 DEF Founded
<1> HIDE DEF t, R, W
<1>22. QED
    BY <1>3, <1>6, <1>20, <1>21, Advance DEF t

-----------------------------------------------------------------------------
(* The reader follows the script until the first thing that it cannot.     *)

(* What is known of a script and of the reader before the next command.     *)
Evaluating ==
    /\ file \in SdcScripts
    /\ meant = SdcMeaning(file)
    /\ pos \in 1..(Len(file) + 1)
    /\ ~Requeries(file) =>
          /\ Follows(st.vars, SdcRun(file)[pos - 1])
          /\ Kept(SdcRun(file)[pos - 1].facts, st.facts)
          /\ ~TakesPatterns(file) => Founded(st.facts, SdcRun(file)[pos - 1].facts)

(* An observation declares itself incomplete, or is what the reader has     *)
(* after the last command.                                                  *)
Told ==
    view # None =>
        \/ view.complete = FALSE /\ view.tainted = {"*"}
        \/ st.tainted = {} /\ pos = Len(file) + 1 /\ view = SdcView(st)

SdcInv ==
    format = "sdc" =>
        /\ Reader(st)
        /\ st.tainted = {} => Evaluating
        /\ Told

LEMMA ScriptLength ==
    ASSUME NEW s \in SdcScripts
    PROVE  SdcScript(s) /\ Len(s) \in Nat /\ DOMAIN s = 1..Len(s)
<1>1. SdcScript(s)
    BY SdcAssumption
<1>2. s \in Seq(ToSet(s))
    BY <1>1 DEF SdcScript
<1>3. QED
    BY <1>1, <1>2

LEMMA StartsFollowing ==
    ASSUME Init
    PROVE  SdcInv
<1>1. SUFFICES ASSUME format = "sdc" PROVE Reader(st) /\ (st.tainted = {} => Evaluating) /\ Told
    BY DEF SdcInv
<1>2. PICK s \in Sources, how \in {"utf-8", "latin-1", "unreadable"} :
         /\ format = s.format
         /\ file = IF how = "unreadable" THEN << >> ELSE s.records
         /\ meant = s.meant
         /\ st = [s.start EXCEPT !.tainted = IF how = "utf-8" THEN {} ELSE {"*"}]
         /\ pos = 1
         /\ view = None
    BY Zenon DEF Init
<1>3. \A x \in GdsSources : x.format = "gds"
    BY DEF GdsSources
<1>4. \A x \in UpfSources : x.format = "upf"
    BY DEF UpfSources
<1>5. \A x \in CdlSources : x.format = "cdl"
    BY DEF CdlSources
<1>6. \A x \in DefSources : x.format = "def"
    BY DEF DefSources
<1>7. s \in SdcSources
    BY <1>1, <1>2, <1>3, <1>4, <1>5, <1>6 DEF Sources
<1>8. PICK script \in SdcScripts :
         s = [format |-> "sdc", records |-> script, start |-> SdcStart,
              meant |-> SdcMeaning(script)]
    BY <1>7 DEF SdcSources
<1>9. s.records = script /\ s.start = SdcStart /\ s.meant = SdcMeaning(script)
    BY <1>8
<1> DEFINE first == IF how = "utf-8" THEN {} ELSE {"*"}
<1>10. st = [vars |-> << >>, facts |-> {}, tainted |-> first, split |-> FALSE]
    <2>1. st = [SdcStart EXCEPT !.tainted = first]
        BY <1>2, <1>9, Zenon
    <2> HIDE DEF first
    <2>2. QED
        BY <2>1 DEF SdcStart
<1>11. Reader(st)
    <2>1. first \in {{}, {"*"}}
        OBVIOUS
    <2> HIDE DEF first
    <2>2. QED
        BY <1>10, <2>1 DEF Reader
<1>12. Told
    BY <1>2 DEF Told
<1>13. ASSUME st.tainted = {} PROVE Evaluating
    <2>1. how = "utf-8"
        BY <1>10, <1>13
    <2>2. file = script /\ meant = SdcMeaning(file) /\ pos = 1
        BY <1>2, <1>9, <2>1
    <2>3. Len(file) \in Nat
        BY <2>2, ScriptLength
    <2>4. pos \in 1..(Len(file) + 1) /\ pos - 1 = 0
        BY <2>2, <2>3
    <2> DEFINE run == SdcRun(file)[pos - 1]
    <2>5. run = SdcIdle
        BY <2>3, <2>4, RunSteps
    <2>6. run.env = << >> /\ run.collections = {} /\ run.facts = {}
        BY <2>5 DEF SdcIdle
    <2>7. st.vars = << >> /\ st.facts = {}
        BY <1>10
    <2> HIDE DEF run
    <2>8. Follows(st.vars, run)
        BY <2>6, <2>7 DEF Follows
    <2>9. Kept(run.facts, st.facts) /\ Founded(st.facts, run.facts)
        BY <2>6, <2>7 DEF Kept, Founded
    <2>10. QED
        BY <2>2, <2>4, <2>8, <2>9 DEF Evaluating, run
<1>14. QED
    BY <1>11, <1>12, <1>13

(* The next command of a script that queries no collection is usable.       *)
LEMMA NextUsable ==
    ASSUME NEW s \in SdcScripts, ~Requeries(s), NEW i \in 1..Len(s)
    PROVE  Usable(SdcRun(s)[i - 1], s[i])
<1>1. SdcScript(s) /\ i \in DOMAIN s
    BY ScriptLength
<1>2. ASSUME NEW w \in TrueWords(s[i]) PROVE Direct(SdcRun(s)[i - 1], w)
    <2>1. SdcWord(w)
        BY <1>1 DEF SdcScript
    <2>2. ~(w.form = "get" /\ TrueCollection(SdcRun(s)[i - 1], w.of))
        BY <1>1 DEF Requeries
    <2>3. QED
        BY <2>1, <2>2 DEF Direct
<1>3. s[i].type \notin {"set", "unset", "opaque", "unbalanced"} => s[i].number \in BOOLEAN
    BY <1>1 DEF SdcScript
<1>4. QED
    BY <1>2, <1>3 DEF Usable

(* What one command must do to the reader.                                  *)
Handles(s, t, c) ==
    /\ Changes(s, t)
    /\ t.tainted = {} =>
         \A run : Follows(s.vars, run) /\ Usable(run, c) => Advances(s, t, run, c)

LEMMA CommandKeeps ==
    ASSUME format = "sdc", SdcInv, NEW type, Take("sdc", type), Handles(st, st', Rec)
    PROVE  SdcInv'
<1>1. /\ view = None /\ pos <= Len(file) /\ pos' = pos + 1
      /\ format' = format /\ file' = file /\ meant' = meant /\ view' = view
    BY DEF Take, Pending
<1>2. Reader(st') /\ (st'.tainted = {} => st.tainted = {})
    BY DEF Handles, Changes
<1>3. Told'
    BY <1>1 DEF Told
<1>4. ASSUME st'.tainted = {} PROVE Evaluating'
    <2>1. Evaluating
        BY <1>2, <1>4 DEF SdcInv
    <2>2. file \in SdcScripts /\ meant = SdcMeaning(file) /\ pos \in 1..(Len(file) + 1)
        BY <2>1 DEF Evaluating
    <2>3. Len(file) \in Nat
        BY <2>2, ScriptLength
    <2>4. pos \in 1..Len(file) /\ pos' \in 1..(Len(file) + 1) /\ pos' - 1 = pos
        BY <1>1, <2>2, <2>3
    <2>5. ASSUME ~Requeries(file)
          PROVE  /\ Follows(st'.vars, SdcRun(file)[pos])
                 /\ Kept(SdcRun(file)[pos].facts, st'.facts)
                 /\ ~TakesPatterns(file) => Founded(st'.facts, SdcRun(file)[pos].facts)
        <3> DEFINE run == SdcRun(file)[pos - 1]
                   c == file[pos]
        <3>1. SdcRun(file)[pos] = TrueStep(run, c)
            BY <2>3, <2>4, RunSteps
        <3>2. /\ Follows(st.vars, run) /\ Kept(run.facts, st.facts)
              /\ ~TakesPatterns(file) => Founded(st.facts, run.facts)
            BY <2>1, <2>5 DEF Evaluating
        <3>3. Usable(run, c)
            BY <2>2, <2>4, <2>5, NextUsable
        <3>4. Advances(st, st', run, c)
            BY <1>4, <3>2, <3>3 DEF Handles, Rec
        <3>5. ~TakesPatterns(file) =>
                \A w \in Unasked(run, c) :
                   ToSet(TrueNames(run.env, w)) \cap DOMAIN SdcMatches = {}
            <4>1. pos \in DOMAIN file
                BY <2>2, <2>4, ScriptLength
            <4>2. QED
                BY <4>1 DEF TakesPatterns
        <3> HIDE DEF run, c
        <3>6. QED
            BY <3>1, <3>2, <3>4, <3>5 DEF Advances
    <2>6. QED
        BY <1>1, <2>2, <2>4, <2>5 DEF Evaluating
<1>5. QED
    BY <1>2, <1>3, <1>4 DEF SdcInv

LEMMA OpaqueHandled ==
    ASSUME NEW s, Reader(s), NEW c
    PROVE  Handles(s, Issue(s, TRUE), c)
<1>1. Reader(Issue(s, TRUE)) /\ Issue(s, TRUE).split = s.split
      /\ Issue(s, TRUE).tainted # {}
    BY IssueRaised
<1>2. QED
    BY <1>1 DEF Handles, Changes

(* An observation is only told where the reader is.                         *)
LEMMA ReportKeeps ==
    ASSUME format = "sdc", SdcInv, NEW v, Report("sdc", v),
           \/ v.complete = FALSE /\ v.tainted = {"*"}
           \/ st.tainted = {} /\ pos = Len(file) + 1 /\ v = SdcView(st)
    PROVE  SdcInv'
<1>1. /\ view' = v /\ st' = st /\ file' = file /\ meant' = meant
      /\ format' = format /\ pos' = pos
    BY DEF Report
<1>2. Told'
    BY <1>1 DEF Told, SdcView
<1>3. Evaluating' = Evaluating
    BY <1>1 DEF Evaluating
<1>4. QED
    BY <1>1, <1>2, <1>3 DEF SdcInv

LEMMA SdcStepKeeps ==
    ASSUME SdcInv, SdcNext
    PROVE  SdcInv'
<1>1. CASE SdcSplit
    <2>1. format = "sdc" /\ Reader(st) /\ view = None
          /\ st' = [st EXCEPT !.split = TRUE]
        BY <1>1 DEF SdcSplit, SdcInv
    <2>2. st' = [vars |-> st.vars, facts |-> st.facts, tainted |-> st.tainted, split |-> TRUE]
        BY <2>1 DEF Reader
    <2>3. Reader(st') /\ st'.vars = st.vars /\ st'.facts = st.facts
          /\ st'.tainted = st.tainted
        BY <2>1, <2>2 DEF Reader
    <2>4. /\ format' = format /\ file' = file /\ meant' = meant /\ pos' = pos
          /\ view' = view
        BY <1>1 DEF SdcSplit
    <2>5. Told'
        BY <2>1, <2>4 DEF Told
    <2>6. Evaluating => Evaluating'
        BY <2>3, <2>4 DEF Evaluating
    <2>7. QED
        BY <2>1, <2>3, <2>5, <2>6 DEF SdcInv
<1>2. CASE SdcUnbalanced
    <2>1. format = "sdc" /\ Reader(st) /\ Report("sdc", SdcView(Issue(st, TRUE)))
        BY <1>2 DEF SdcUnbalanced, SdcInv
    <2>2. Issue(st, TRUE).tainted = {"*"}
        BY <2>1, IssueRaised DEF Reader
    <2>3. SdcView(Issue(st, TRUE)).complete = FALSE
          /\ SdcView(Issue(st, TRUE)).tainted = {"*"}
        BY <2>2 DEF SdcView, Observed
    <2>4. QED
        BY <2>1, <2>3, ReportKeeps
<1>3. CASE SdcSet
    <2>1. format = "sdc" /\ Take("sdc", "set") /\ Rec.type = "set" /\ Reader(st)
          /\ st' = SetVariable(st, Rec)
        BY <1>3 DEF SdcSet, SdcStep, SdcInv, Take
    <2>2. Handles(st, st', Rec)
        BY <2>1, SetChanges, SetFollowed DEF Handles
    <2>3. QED
        BY <2>1, <2>2, CommandKeeps
<1>4. CASE SdcUnset
    <2>1. format = "sdc" /\ Take("sdc", "unset") /\ Rec.type = "unset" /\ Reader(st)
          /\ st' = Unset(st, Rec)
        BY <1>4 DEF SdcUnset, SdcStep, SdcInv, Take
    <2>2. Handles(st, st', Rec)
        BY <2>1, SetChanges, UnsetFollowed DEF Handles
    <2>3. QED
        BY <2>1, <2>2, CommandKeeps
<1>5. CASE SdcClock
    <2>1. PICK type \in {"create_clock", "create_generated_clock"} :
             SdcStep(type, CreateClock(st, Rec))
        BY <1>5 DEF SdcClock
    <2>2. format = "sdc" /\ Take("sdc", type) /\ Rec.type = type /\ Reader(st)
          /\ st' = CreateClock(st, Rec)
        BY <2>1 DEF SdcStep, SdcInv, Take
    <2>3. Handles(st, st', Rec)
        BY <2>2, ClockChanges, ClockFollowed DEF Handles
    <2>4. QED
        BY <2>2, <2>3, CommandKeeps
<1>6. CASE SdcDelay
    <2>1. format = "sdc" /\ Take("sdc", "set_delay") /\ Rec.type = "set_delay" /\ Reader(st)
          /\ st' = SetDelay(st, Rec)
        BY <1>6 DEF SdcDelay, SdcStep, SdcInv, Take
    <2>2. Handles(st, st', Rec)
        BY <2>1, DelayChanges, DelayFollowed DEF Handles
    <2>3. QED
        BY <2>1, <2>2, CommandKeeps
<1>7. CASE SdcPath
    <2>1. format = "sdc" /\ Take("sdc", "path") /\ Rec.type = "path" /\ Reader(st)
          /\ st' = PathException(st, Rec)
        BY <1>7 DEF SdcPath, SdcStep, SdcInv, Take
    <2>2. Handles(st, st', Rec)
        BY <2>1, PathChanges, PathFollowed DEF Handles
    <2>3. QED
        BY <2>1, <2>2, CommandKeeps
<1>8. CASE SdcOpaque
    <2>1. format = "sdc" /\ Take("sdc", "opaque") /\ Reader(st) /\ st' = Issue(st, TRUE)
        BY <1>8 DEF SdcOpaque, SdcStep, SdcInv
    <2>2. Handles(st, st', Rec)
        BY <2>1, OpaqueHandled
    <2>3. QED
        BY <2>1, <2>2, CommandKeeps
<1>9. CASE SdcEnd
    <2>1. format = "sdc" /\ Reader(st) /\ pos > Len(file) /\ Report("sdc", SdcView(st))
        BY <1>9 DEF SdcEnd, SdcInv
    <2>2. SdcView(st).tainted = st.tainted /\ SdcView(st).complete = (st.tainted = {})
        BY Zenon DEF SdcView, Observed
    <2>3. CASE st.tainted = {}
        <3>1. file \in SdcScripts /\ pos \in 1..(Len(file) + 1)
            BY <2>1, <2>3 DEF SdcInv, Evaluating
        <3>2. pos = Len(file) + 1
            BY <2>1, <3>1, ScriptLength
        <3>3. QED
            BY <2>1, <2>3, <3>2, ReportKeeps
    <2>4. CASE st.tainted # {}
        <3>1. SdcView(st).complete = FALSE /\ SdcView(st).tainted = {"*"}
            BY <2>1, <2>2, <2>4 DEF Reader
        <3>2. QED
            BY <2>1, <3>1, ReportKeeps
    <2>5. QED
        BY <2>3, <2>4
<1>10. QED
    BY <1>1, <1>2, <1>3, <1>4, <1>5, <1>6, <1>7, <1>8, <1>9 DEF SdcNext

(* A source is read by the adapter of its format to the end.                *)
LEMMA FormatStays ==
    ASSUME Next
    PROVE  /\ format' = format
           /\ format = "sdc" => SdcNext
<1>1. GdsNext => format = "gds" /\ format' = format
    <2>1. \A t, next : GdsStep(t, next) => format = "gds" /\ format' = format
        BY DEF GdsStep, Take, Pending
    <2>2. GdsBadFraming => format = "gds" /\ format' = format
        BY DEF GdsBadFraming, Pending
    <2>3. GdsEnd => format = "gds" /\ format' = format
        BY DEF GdsEnd, Report
    <2>4. QED
        BY <2>1, <2>2, <2>3, Zenon
        DEF GdsNext, GdsHeader, GdsBeginLibrary, GdsLibraryField, GdsEndLibrary,
            GdsBeginCell, GdsNameCell, GdsEndCell, GdsBeginElement, GdsElementField,
            GdsTransform, GdsEndElement, GdsSkip, GdsUnknown
<1>2. UpfNext => format = "upf" /\ format' = format
    <2>1. \A t, next : UpfStep(t, next) => format = "upf" /\ format' = format
        BY DEF UpfStep, Take, Pending
    <2>2. UpfScan \/ UpfOversized => format = "upf" /\ format' = format
        BY DEF UpfScan, UpfOversized
    <2>3. UpfEnd => format = "upf" /\ format' = format
        BY DEF UpfEnd, Report
    <2>4. QED
        BY <2>1, <2>2, <2>3, Zenon
        DEF UpfNext, UpfOpaque, UpfVersion, UpfDesignTop, UpfSetScope, UpfSupplyPort,
            UpfDefine, UpfConnect, UpfStates
<1>3. CdlNext => format = "cdl" /\ format' = format
    <2>1. \A t, next : CdlStep(t, next) => format = "cdl" /\ format' = format
        BY DEF CdlStep, Take, Pending
    <2>2. CdlNextFile => format = "cdl" /\ format' = format
        BY DEF CdlNextFile, Take, Pending
    <2>3. CdlEnd => format = "cdl" /\ format' = format
        BY DEF CdlEnd, Report
    <2>4. QED
        BY <2>1, <2>2, <2>3, Zenon
        DEF CdlNext, CdlStartCircuit, CdlEndCircuit, CdlInstance, CdlDevice, CdlTitle,
            CdlPins, CdlParameters, CdlGlobal, CdlModel, CdlOpaque, CdlEndNetlist, CdlLoose
<1>4. DefNext => format = "def" /\ format' = format
    <2>1. \A types, next : DefStep(types, next) => format = "def" /\ format' = format
        BY DEF DefStep, Take, Pending
    <2>2. DefSkip => format = "def" /\ format' = format
        BY DEF DefSkip, Take, Pending
    <2>3. DefEnd => format = "def" /\ format' = format
        BY DEF DefEnd, Report
    <2>4. QED
        BY <2>1, <2>2, <2>3, Zenon
        DEF DefNext, DefMeta, DefDesign, DefOpen, DefEntry, DefClose, DefEndDesign,
            DefVendor, DefUnknown
<1>5. SdcNext => format' = format
    <2>1. \A t, next : SdcStep(t, next) => format' = format
        BY DEF SdcStep, Take
    <2>2. SdcSplit => format' = format
        BY DEF SdcSplit
    <2>3. SdcUnbalanced \/ SdcEnd => format' = format
        BY DEF SdcUnbalanced, SdcEnd, Report
    <2>4. QED
        BY <2>1, <2>2, <2>3, Zenon
        DEF SdcNext, SdcSet, SdcUnset, SdcClock, SdcDelay, SdcPath, SdcOpaque
<1>6. Lose \/ Repeat \/ Spoil \/ Cut => format \in Fragile /\ format' = format
    BY DEF Lose, Repeat, Spoil, Cut, Damaging
<1>7. QED
    BY <1>1, <1>2, <1>3, <1>4, <1>5, <1>6, SdcAssumption DEF Next

-----------------------------------------------------------------------------
(* The SDC adapter follows every script until the first thing in it that it *)
(* reports: up to there its variables, its facts and the script's meaning   *)
(* agree command by command, and from there on the whole view is tainted    *)
(* for good (parse_sdc and the handlers of parsers/sdc.py).                 *)
THEOREM SdcFollows == Spec => []SdcInv
<1>1. Init => SdcInv
    BY StartsFollowing
<1>2. SdcInv /\ [Next]_vars => SdcInv'
    <2>1. SUFFICES ASSUME SdcInv, [Next]_vars PROVE SdcInv'
        OBVIOUS
    <2>2. CASE UNCHANGED vars
        BY <2>1, <2>2 DEF vars, SdcInv, Evaluating, Told
    <2>3. CASE Next
        <3>1. CASE format = "sdc"
            BY <2>1, <2>3, <3>1, FormatStays, SdcStepKeeps
        <3>2. CASE format # "sdc"
            BY <2>3, <3>2, FormatStays DEF SdcInv
        <3>3. QED
            BY <3>1, <3>2
    <2>4. QED
        BY <2>1, <2>2, <2>3
<1>3. QED
    BY <1>1, <1>2, PTL DEF Spec

(* What the reader of a whole script knows, against the script's meaning.   *)
LEMMA WholeScript ==
    ASSUME SdcInv, format = "sdc", view # None, ~Requeries(file)
    PROVE  \/ \A scope : Covered(view, scope)
           \/ /\ Kept(meant, view.facts)
              /\ ~TakesPatterns(file) => Founded(view.facts, meant)
<1>1. CASE view.complete = FALSE /\ view.tainted = {"*"}
    BY <1>1 DEF Covered
<1>2. CASE st.tainted = {} /\ pos = Len(file) + 1 /\ view = SdcView(st)
    <2>1. Evaluating
        BY <1>2 DEF SdcInv
    <2>2. pos - 1 = Len(file)
        BY <1>2, <2>1, ScriptLength DEF Evaluating
    <2>3. meant = SdcRun(file)[pos - 1].facts
        BY <2>1, <2>2 DEF Evaluating, SdcMeaning
    <2>4. view.facts = st.facts
        BY <1>2 DEF SdcView, Observed
    <2>5. QED
        BY <2>1, <2>3, <2>4 DEF Evaluating
<1>3. QED
    BY <1>1, <1>2 DEF SdcInv, Told

(* A known clock, delay, path or reference of an SDC view that is not       *)
(* tainted is what the script does in a shell with the design loaded,       *)
(* whatever the script sets, unsets, queries and constrains, for every set  *)
(* of scripts and every design.  It holds of the scripts that do not query  *)
(* a variable which holds a collection, and that do not give a pattern      *)
(* where the adapter asks for a name without saying so (_get,               *)
(* _implicit_references).                                                   *)
THEOREM SdcInventsNothing ==
    Spec => [](format = "sdc" /\ ~Requeries(file) /\ ~TakesPatterns(file)
                 => NothingInvented)
<1>1. SdcInv => (format = "sdc" /\ ~Requeries(file) /\ ~TakesPatterns(file)
                   => NothingInvented)
    <2>1. SUFFICES ASSUME SdcInv, format = "sdc", ~Requeries(file), ~TakesPatterns(file),
                          view # None, NEW f \in view.facts,
                          f.known, ~Covered(view, f.scope)
                   PROVE  States(f) \in meant
        BY DEF NothingInvented
    <2>2. Founded(view.facts, meant)
        BY <2>1, WholeScript
    <2>3. QED
        BY <2>1, <2>2 DEF Founded
<1>2. QED
    BY <1>1, SdcFollows, PTL

(* What an SDC script does and its view lacks is covered by the taint: a    *)
(* command outside the static subset, a value that cannot be followed, or   *)
(* unbalanced text never ends in a clock or constraint that is silently     *)
(* missing.  Patterns are no exception here.                                *)
THEOREM SdcDeclaresLoss ==
    Spec => [](format = "sdc" /\ ~Requeries(file) => LossIsDeclared)
<1>1. SdcInv => (format = "sdc" /\ ~Requeries(file) => LossIsDeclared)
    <2>1. SUFFICES ASSUME SdcInv, format = "sdc", ~Requeries(file),
                          view # None, NEW m \in meant, ~Covered(view, m.scope)
                   PROVE  \E f \in view.facts :
                             f.scope = m.scope /\ f.kind = m.kind /\ f.name = m.name
        BY DEF LossIsDeclared
    <2>2. Kept(meant, view.facts)
        BY <2>1, WholeScript
    <2>3. QED
        BY <2>1, <2>2 DEF Kept
<1>2. QED
    BY <1>1, SdcFollows, PTL

=============================================================================
