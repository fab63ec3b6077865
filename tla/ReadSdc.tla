------------------------------ MODULE ReadSdc ------------------------------
(***************************************************************************)
(* The SDC adapter (parsers/sdc.py).  An SDC file is a Tcl script; the     *)
(* adapter does not run it.  It evaluates set, unset, list and get_* with  *)
(* the values it can follow, records the clocks and constraints it meets,  *)
(* and taints the whole view at the first thing it cannot follow.          *)
(*                                                                         *)
(* A word is a literal (its list of names), a variable, a literal joined   *)
(* to a variable, an array element, a get_* or list of another word, or    *)
(* the call of a command outside the static subset.                        *)
(***************************************************************************)
EXTENDS Reading, TLC

CONSTANTS
    SdcScripts,   \* the scripts written: sequences of commands
    SdcMatches,   \* [pattern -> SUBSET name]: the objects a pattern matches
    SdcElsewhere  \* the name code outside the subset computes

SdcStart == [vars |-> << >>, facts |-> {}, tainted |-> {}, split |-> FALSE]

Value(kind, items, status, dynamic) ==
    [kind |-> kind, items |-> items, status |-> status, dynamic |-> dynamic]

(* The name of a clock whose own name cannot be resolved. *)
SdcUnnamed == "<unresolved-clock>"

Text(items) == Value("text", items, "known", FALSE)

Unresolved(status) == Value("none", << >>, status, TRUE)

Scalar(v) == v.kind = "text" \/ (v.kind = "list" /\ Len(v.items) = 1)

Items(v) == v.kind \in {"text", "list"}

(* A prefix written before the value of a variable. *)
Prepend(prefix, items) ==
    IF items = << >> THEN <<prefix>> ELSE [items EXCEPT ![1] = prefix \o @]

(* The one name that the words of a text make when they are not taken apart. *)
TextName(items) == IF Len(items) = 1 THEN items[1] ELSE ToString(items)

-----------------------------------------------------------------------------
(* Words: the value, and whether the word raises an issue *)

Joined(w, v) ==
    CASE v.kind = "refs" \/ (v.kind = "list" /\ Len(v.items) # 1) ->
           Unresolved("unsupported")
      [] v.kind = "none" -> Unresolved(v.status)
      [] OTHER -> Value("text", Prepend(w.prefix, v.items), v.status, v.dynamic)

Variable(env, name) ==
    IF name \in DOMAIN env THEN env[name] ELSE Unresolved("tainted")

Leaf(env, w) ==
    CASE w.form = "lit" -> Text(w.items)
      [] w.form = "var" -> Variable(env, w.name)
      [] w.form = "join" -> Joined(w, Variable(env, w.name))
      [] OTHER -> Unresolved("unsupported")

LeafIssue(env, w) ==
    \/ w.form \in {"array", "call"}
    \/ w.form \in {"var", "join"} /\ Variable(env, w.name).status # "known"
    \/ w.form = "join" /\ Leaf(env, w).status # "known"

(* _get: one query for each name, or one for a value that has no names. *)
Queries(v) ==
    IF Items(v) /\ v.status = "known"
      THEN [i \in DOMAIN v.items |-> [name |-> v.items[i], status |-> "known"]]
      ELSE <<[name |-> "[...]", status |-> v.status]>>

QueriesOf(v) ==
    IF Queries(v) = << >> THEN <<[name |-> "<unresolved>", status |-> "tainted"]>>
    ELSE Queries(v)

Selected(v, filtered) ==
    LET tainted == \/ filtered \/ ~Items(v) \/ v.status # "known"
                   \/ Queries(v) = << >>
        ref(q) == [name |-> q.name,
                   status |-> IF filtered THEN "unsupported"
                              ELSE IF q.status # "known" THEN "tainted" ELSE "known",
                   dynamic |-> tainted \/ q.name \in DOMAIN SdcMatches]
        refs == [i \in DOMAIN QueriesOf(v) |-> ref(QueriesOf(v)[i])]
    IN  Value("refs", refs,
              IF filtered THEN "unsupported" ELSE IF tainted THEN "tainted" ELSE "known",
              tainted \/ \E r \in ToSet(refs) : r.dynamic)

Listed(v) ==
    IF Scalar(v) /\ v.status = "known" THEN Value("list", v.items, "known", FALSE)
    ELSE Unresolved("unsupported")

(* _word, and _nested_value for what stands in brackets. *)
Word(env, w) ==
    CASE w.form = "get" -> Selected(Leaf(env, w.of), w.filtered)
      [] w.form = "list" -> Listed(Leaf(env, w.of))
      [] OTHER -> Leaf(env, w)

WordIssue(env, w) ==
    CASE w.form = "get" -> \/ LeafIssue(env, w.of) \/ w.filtered
                           \/ Queries(Leaf(env, w.of)) = << >>
      [] w.form = "list" -> \/ LeafIssue(env, w.of)
                            \/ Word(env, w).status # "known"
      [] OTHER -> LeafIssue(env, w)

(* The references a get_* leaves behind, whatever its value is used for. *)
References(refs) ==
    {Fact("*", "reference", r.name, None, r.status = "known") : r \in ToSet(refs)}

WordFacts(env, w) ==
    IF w.form = "get" THEN References(Word(env, w).items) ELSE {}

(* _implicit_references: a literal where a collection is expected. *)
Targets(v, ambiguous) ==
    CASE v.kind = "refs" -> v.items
      [] Items(v) ->
           [i \in DOMAIN v.items |->
              [name |-> v.items[i],
               status |-> IF ambiguous THEN "unsupported" ELSE v.status,
               dynamic |-> v.dynamic \/ ambiguous]]
      [] OTHER -> << >>

TargetsIssue(v, ambiguous) == ambiguous /\ Items(v) /\ v.items # << >>

Names(refs) == {r.name : r \in ToSet(refs)}

\* Mutant: only the status counts, not where the words came from.
SureByStatus(refs) == \A r \in ToSet(refs) : r.status = "known"

Sure(refs) == \A r \in ToSet(refs) : r.status = "known" /\ ~r.dynamic

-----------------------------------------------------------------------------
(* Commands: from the state before to the state after *)

Issue(s, raised) == [s EXCEPT !.tainted = @ \cup (IF raised THEN {"*"} ELSE {})]

Use(s, words) ==
    [Issue(s, \E w \in words : WordIssue(s.vars, w))
       EXCEPT !.facts = @ \cup UNION {WordFacts(s.vars, w) : w \in words}]

Add(s, facts) == [s EXCEPT !.facts = @ \cup facts]

Assign(env, name, value) ==
    [n \in DOMAIN env \cup {name} |-> IF n = name THEN value ELSE env[n]]

Optional(w) == IF w = None THEN {} ELSE {w}

(* _set; an arity other than two is not the static form. *)
SetVariable(s, c) ==
    IF c.word = None THEN Issue(s, TRUE)
    ELSE [Use(s, {c.word}) EXCEPT !.vars = Assign(@, c.name, Word(s.vars, c.word))]

Unset(s, c) ==
    IF c.name = None THEN Issue(s, TRUE)
    ELSE [s EXCEPT !.vars = [n \in DOMAIN @ \ {c.name} |-> @[n]]]

(* _clock_names; without a name, every exact target is a clock of its own. *)
ClockNames(s, c, targets) ==
    LET named == c.name # None
        v == Word(s.vars, c.name)
    IN  CASE named /\ Scalar(v) /\ v.items # << >> /\ v.status = "known" ->
               {<<TextName(v.items), Names(targets)>>}
          [] ~named /\ targets # << >> /\ Sure(targets) ->
               {<<t, {t}>> : t \in Names(targets)}
          [] OTHER -> {<<SdcUnnamed, Names(targets)>>}

(* The -source of a generated clock: a pattern is not held against it. *)
SourceSure(v) ==
    /\ v.status = "known"
    /\ Targets(v, TRUE) # << >>
    /\ \A r \in ToSet(Targets(v, TRUE)) : r.status = "known"

(* _create_clock, for create_generated_clock as well. *)
CreateClock(s, c) ==
    LET tv == IF c.targets = None THEN Text(<< >>) ELSE Word(s.vars, c.targets)
        sv == IF c.source = None THEN Unresolved("tainted") ELSE Word(s.vars, c.source)
        targets == Targets(tv, TRUE)
        generated == c.type = "create_generated_clock"
        source == IF generated THEN Names(Targets(sv, TRUE)) ELSE {}
        names == ClockNames(s, c, targets)
        sure == /\ c.number
                /\ tv.status = "known" /\ Sure(targets)
                /\ c.name # None => Word(s.vars, c.name).status = "known"
                /\ generated => targets # << >> /\ SourceSure(sv)
        wrong == \/ ~c.number
                 \/ \E n \in names : n[1] = SdcUnnamed
                 \/ TargetsIssue(tv, TRUE)
                 \/ generated /\ (\/ targets = << >> \/ c.source = None
                                  \/ TargetsIssue(sv, TRUE))
    IN  Add(Issue(Use(s, Optional(c.name) \cup Optional(c.targets)
                           \cup Optional(c.source)), wrong),
            References(targets)
            \cup {Fact("*", "clock", n[1], [targets |-> n[2], source |-> source], sure)
                  : n \in names})

(* _delay: a number, the ports it applies to and the clock it refers to. *)
SetDelay(s, c) ==
    LET tv == IF c.targets = None THEN Unresolved("known") ELSE Word(s.vars, c.targets)
        cv == Word(s.vars, c.clock)
        targets == Targets(tv, FALSE)
        clocks == Targets(cv, FALSE)
        sure == /\ c.number
                /\ tv.status = "known" /\ cv.status = "known"
                /\ targets # << >> /\ Sure(targets) /\ Sure(clocks)
    IN  Add(Issue(Use(s, Optional(c.targets) \cup {c.clock}),
                  ~c.number \/ targets = << >>),
            References(targets) \cup References(clocks)
            \cup {Fact("*", "delay", c.id,
                       [targets |-> Names(targets), source |-> Names(clocks)], sure)})

(* _path_exception: endpoints must be collections. *)
PathException(s, c) ==
    LET from == Word(s.vars, c.from)
        to == Word(s.vars, c.to)
        collections == from.kind = "refs" /\ to.kind = "refs"
        ends(v) == IF v.kind = "refs" THEN v.items ELSE << >>
        sure == /\ c.number /\ collections
                /\ from.status = "known" /\ to.status = "known"
                /\ Sure(from.items) /\ Sure(to.items)
    IN  Add(Issue(Use(s, {c.from, c.to}), ~c.number \/ ~collections),
            {Fact("*", "path", c.id,
                  [targets |-> Names(ends(to)), source |-> Names(ends(from))], sure)})

-----------------------------------------------------------------------------
(* What the script does in a Tcl shell with the design loaded *)

TrueVariable(env, name) == IF name \in DOMAIN env THEN env[name] ELSE << >>

TrueLeaf(env, w) ==
    CASE w.form = "lit" -> w.items
      [] w.form = "var" -> TrueVariable(env, w.name)
      [] w.form = "join" -> Prepend(w.prefix, TrueVariable(env, w.name))
      [] OTHER -> <<SdcElsewhere>>

Objects(names) ==
    UNION {IF n \in DOMAIN SdcMatches THEN SdcMatches[n] ELSE {n} : n \in ToSet(names)}

(* The names a word stands for, and the objects when it is a collection. *)
TrueNames(env, w) == TrueLeaf(env, IF w.form \in {"get", "list"} THEN w.of ELSE w)

TrueObjects(env, w) ==
    IF w.form = "get" /\ w.filtered THEN {} ELSE Objects(TrueNames(env, w))

(* A get_* names objects, and so does any word where a collection is due. *)
TrueReferences(env, c, words) ==
    UNION {{Statement("*", "reference", n, None) : n \in ToSet(TrueNames(env, w))}
           : w \in {x \in words : x.form = "get" \/ c.type = "set_delay"}}

TrueClocks(env, c) ==
    LET targets == IF c.targets = None THEN {} ELSE TrueObjects(env, c.targets)
        source == IF c.type = "create_clock" \/ c.source = None THEN {}
                  ELSE TrueObjects(env, c.source)
        clock(n, t) == Statement("*", "clock", n, [targets |-> t, source |-> source])
    IN  IF c.name # None THEN {clock(TextName(TrueNames(env, c.name)), targets)}
        ELSE {clock(t, {t}) : t \in targets}

TrueFacts(env, c) ==
    CASE c.type \in {"create_clock", "create_generated_clock"} -> TrueClocks(env, c)
      [] c.type = "set_delay" ->
           {Statement("*", "delay", c.id,
              [targets |-> IF c.targets = None THEN {} ELSE TrueObjects(env, c.targets),
               source |-> TrueObjects(env, c.clock)])}
      [] c.type = "path" ->
           {Statement("*", "path", c.id, [targets |-> TrueObjects(env, c.to),
                                          source |-> TrueObjects(env, c.from)])}
      [] OTHER -> {}

TrueWords(c) ==
    CASE c.type = "set" -> Optional(c.word)
      [] c.type \in {"create_clock", "create_generated_clock"} ->
           Optional(c.name) \cup Optional(c.targets) \cup Optional(c.source)
      [] c.type = "set_delay" -> Optional(c.targets) \cup {c.clock}
      [] c.type = "path" -> {c.from, c.to}
      [] OTHER -> {}

(* A word whose value is a collection of objects. *)
TrueCollection(run, w) ==
    w.form = "get" \/ (w.form = "var" /\ w.name \in run.collections)

TrueStep(run, c) ==
    [env |-> IF c.type = "set" /\ c.word # None THEN
                  Assign(run.env, c.name, TrueNames(run.env, c.word))
             ELSE IF c.type = "unset" /\ c.name # None THEN
                  [n \in DOMAIN run.env \ {c.name} |-> run.env[n]]
             ELSE IF c.type \in {"set", "unset", "opaque"} THEN
                  [n \in DOMAIN run.env |-> <<SdcElsewhere>>]
             ELSE run.env,
     collections |->
        IF c.type = "set" /\ c.word # None /\ TrueCollection(run, c.word) THEN
             run.collections \cup {c.name}
        ELSE IF c.type \in {"set", "unset"} THEN run.collections \ {c.name}
        ELSE run.collections,
     facts |-> run.facts \cup TrueFacts(run.env, c)
                 \cup TrueReferences(run.env, c, TrueWords(c))]

(* What holds in the shell after the first n commands of a script. *)
SdcRun(script) ==
    LET run[n \in 0..Len(script)] ==
            IF n = 0 THEN [env |-> << >>, collections |-> {}, facts |-> {}]
            ELSE TrueStep(run[n - 1], script[n])
    IN  run

SdcMeaning(script) == SdcRun(script)[Len(script)].facts

(* The scripts of the model.  Each command has the words its type needs; a  *)
(* list is made of a variable that is not set or of one word without blanks, *)
(* because only such a list and its text are the same.  A script is text: no *)
(* line of it is lost or comes twice without notice.                        *)
SdcLeaf(w) == w.form \in {"lit", "var", "join", "array", "call"}

SdcWord(w) ==
    \/ SdcLeaf(w)
    \/ w.form = "get" /\ SdcLeaf(w.of) /\ w.filtered \in BOOLEAN
    \/ w.form = "list" /\ SdcLeaf(w.of)

OneWord(env, w) ==
    \/ w.form = "var" /\ w.name \notin DOMAIN env
    \/ Len(TrueLeaf(env, w)) = 1

SdcScript(s) ==
    /\ s \in Seq(ToSet(s))
    /\ \A i \in DOMAIN s :
          /\ s[i].type \notin {"set", "unset", "opaque", "unbalanced"} =>
                s[i].number \in BOOLEAN
          /\ \A w \in TrueWords(s[i]) :
                /\ SdcWord(w)
                /\ w.form = "list" => OneWord(SdcRun(s)[i - 1].env, w.of)

ASSUME SdcAssumption == "sdc" \notin Fragile /\ \A s \in SdcScripts : SdcScript(s)

(* A script that queries a collection which a variable holds. *)
Requeries(s) ==
    \E i \in DOMAIN s : \E w \in TrueWords(s[i]) :
        w.form = "get" /\ TrueCollection(SdcRun(s)[i - 1], w.of)

(* The words that the adapter takes for names without asking whether they   *)
(* are patterns: the source of a generated clock, and what a delay is given *)
(* directly.                                                                *)
Unasked(run, c) ==
    CASE c.type = "create_generated_clock" -> Optional(c.source)
      [] c.type = "set_delay" ->
           {w \in Optional(c.targets) \cup {c.clock} : ~TrueCollection(run, w)}
      [] OTHER -> {}

TakesPatterns(s) ==
    \E i \in DOMAIN s : \E w \in Unasked(SdcRun(s)[i - 1], s[i]) :
        ToSet(TrueNames(SdcRun(s)[i - 1].env, w)) \cap DOMAIN SdcMatches # {}

SdcSources ==
    {[format |-> "sdc", records |-> s, start |-> SdcStart, meant |-> SdcMeaning(s)]
       : s \in SdcScripts}

-----------------------------------------------------------------------------
(* parse_sdc: the whole source is split into commands before any is read *)

SdcView(s) == Observed(s.facts, s.tainted = {}, s.tainted)

SdcSplit ==
    /\ format = "sdc" /\ view = None /\ ~st.split
    /\ st' = [st EXCEPT !.split = TRUE]
    /\ \A c \in ToSet(file) : c.type # "unbalanced"
    /\ UNCHANGED <<format, file, meant, pos, faults, view>>

(* Unbalanced quotes, braces or brackets: nothing is evaluated. *)
SdcUnbalanced ==
    /\ format = "sdc" /\ ~st.split
    /\ \E c \in ToSet(file) : c.type = "unbalanced"
    /\ Report("sdc", SdcView(Issue(st, TRUE)))

SdcStep(t, next) == format = "sdc" /\ st.split /\ Take("sdc", t) /\ st' = next

SdcSet == SdcStep("set", SetVariable(st, Rec))

SdcUnset == SdcStep("unset", Unset(st, Rec))

SdcClock ==
    \E t \in {"create_clock", "create_generated_clock"} :
        SdcStep(t, CreateClock(st, Rec))

SdcDelay == SdcStep("set_delay", SetDelay(st, Rec))

SdcPath == SdcStep("path", PathException(st, Rec))

(* A command outside the subset is reported and not executed. *)
SdcOpaque == SdcStep("opaque", Issue(st, TRUE))

SdcEnd ==
    /\ format = "sdc" /\ st.split
    /\ pos > Len(file)
    /\ Report("sdc", SdcView(st))

SdcNext ==
    \/ SdcSplit \/ SdcUnbalanced \/ SdcSet \/ SdcUnset \/ SdcClock
    \/ SdcDelay \/ SdcPath \/ SdcOpaque \/ SdcEnd

=============================================================================
