---------------------------- MODULE Connectivity ----------------------------
(***************************************************************************)
(* Static connectivity (engine.py, parsers/connectivity.py): rows of a     *)
(* CSV state which bits must or must not reach which others, and bounded   *)
(* breadth-first searches over the edges of an RTL view decide each row.   *)
(*                                                                         *)
(* An endpoint is <<signal, bit>>, an edge a record of its two ends, its   *)
(* parity (TRUE when it inverts, None when unknown) and its state.  An     *)
(* edge that is not known is a frontier: there may be a path, of either    *)
(* parity, or none.                                                        *)
(***************************************************************************)
EXTENDS Comparing

CONSTANTS
    NodeRank,          \* [endpoint -> its place in key order]
    SignalGlobs,       \* [glob -> the signals it matches]
    MaxSelectedBits,   \* _MAX_CONNECTIVITY_REQUIREMENT_BITS
    MaxPairSearches,   \* _MAX_CONNECTIVITY_PAIR_SEARCHES
    MaxSearchStates    \* _MAX_CONNECTIVITY_SEARCH_STATES

ASSUME ConnectivityAssumption ==
    /\ MaxSelectedBits \in Nat \ {0}
    /\ MaxPairSearches \in Nat \ {0}
    /\ MaxSearchStates \in Nat \ {0}

-----------------------------------------------------------------------------
(* Reading the rows: a row that repeats or contradicts an earlier one      *)
(* puts both in doubt.  A malformed row is lost.                           *)

WholeKey(r) == <<r.source, r.sink, r.transform, r.through, r.exclude>>
PathKey(r) == <<r.source, r.sink, r.through, r.exclude>>

WellFormed(r) == r.valid /\ (r.expect = "unreachable" => r.transform = "any")

(* The first row of the list with the same key. *)
FirstWith(rows, same(_)) ==
    LET hits == {i \in DOMAIN rows : same(rows[i])}
    IN  {i \in hits : \A j \in hits : i <= j}

ConflictingRows(rows, r) ==
    LET path == FirstWith(rows, LAMBDA q : PathKey(q) = PathKey(r))
    IN  FirstWith(rows, LAMBDA q : q.id = r.id)
          \cup FirstWith(rows, LAMBDA q : WholeKey(q) = WholeKey(r))
          \cup {i \in path : rows[i].expect # r.expect}

ReadRow(acc, r) ==
    IF ~WellFormed(r)
      THEN [acc EXCEPT !.complete = FALSE, !.tainted = {Everything},
                       !.codes = @ \cup {"OC1101"}]
    ELSE LET clash == ConflictingRows(acc.rows, r)
             doubted == [i \in DOMAIN acc.rows |->
                           [acc.rows[i] EXCEPT !.known = @ /\ i \notin clash]]
         IN  [acc EXCEPT !.rows = Append(doubted,
                                         [r EXCEPT !.known = clash = {}]),
                         !.complete = @ /\ clash = {},
                         !.codes = @ \cup (IF clash = {} THEN {}
                                           ELSE {"OC6509"})]

ReadRequirements(rows) ==
    FoldLeft(ReadRow, [rows |-> << >>, complete |-> TRUE, tainted |-> {},
                       codes |-> {}], rows)

-----------------------------------------------------------------------------
(* Selectors: a signal or glob with all bits (None), <<bit>> or a range    *)
(* <<left, right>>.                                                        *)

Resolution(ends, code) == [ends |-> ends, code |-> code]

(* The endpoints of a signal, in declaration order. *)
BitsOf(endpoints, signal) ==
    SelectSeq(endpoints, LAMBDA e : e[1] = signal)

BitList(range) ==
    IF range[2] > range[1]
      THEN [i \in 1..(range[2] - range[1] + 1) |-> range[1] + i - 1]
      ELSE [i \in 1..(range[1] - range[2] + 1) |-> range[1] - i + 1]

Resolve(selector, endpoints) ==
    LET named == {e[1] : e \in Range(endpoints)}
        hits == named \cap (IF selector.base \in DOMAIN SignalGlobs
                              THEN SignalGlobs[selector.base]
                              ELSE {selector.base})
        bits == BitsOf(endpoints, CHOOSE s \in hits : TRUE)
        some(list) == [i \in DOMAIN list |->
                         <<CHOOSE s \in hits : TRUE, list[i]>>]
        missing == Resolution(<< >>, "OC6501")
    IN  IF hits = {} THEN missing
        ELSE IF Cardinality(hits) > 1 THEN Resolution(<< >>, "OC6502")
        ELSE IF selector.bits = None THEN Resolution(bits, None)
        ELSE IF Len(selector.bits) = 1
          THEN IF some(selector.bits)[1] \in Range(bits)
                 THEN Resolution(some(selector.bits), None) ELSE missing
        ELSE LET wanted == BitList(selector.bits)
             IN  IF Len(wanted) > MaxSelectedBits
                   THEN Resolution(<< >>, "OC6505")
                 ELSE IF Range(some(wanted)) \subseteq Range(bits)
                   THEN Resolution(some(wanted), None) ELSE missing

(* The first selector of a list that fails ends its resolution. *)
FirstFailure(selectors, endpoints) ==
    LET codes == [i \in DOMAIN selectors |->
                    Resolve(selectors[i], endpoints).code]
        failed == {i \in DOMAIN codes : codes[i] # None}
    IN  IF failed = {} THEN None
        ELSE codes[CHOOSE i \in failed : \A j \in failed : i <= j]

Exact(r) == r.transform \in {"identity", "reverse"}

(* The inversion a row asks for. *)
WantedParity(r) ==
    IF r.transform = "any" THEN None ELSE r.transform = "inverted"

(* A row on the endpoints of an RTL view: the codes that end it before a   *)
(* search, or what is to be searched.                                      *)
Problem(r, endpoints) ==
    LET sources == Resolve(r.source, endpoints)
        sinks == Resolve(r.sink, endpoints)
        ends(selectors, i) == Range(Resolve(selectors[i], endpoints).ends)
        through == FirstFailure(r.through, endpoints)
        exclude == IF through # None THEN through
                   ELSE FirstFailure(r.exclude, endpoints)
        n == Len(sources.ends)
        m == Len(sinks.ends)
        pairs == IF r.expect = "unreachable" THEN n * m
                 ELSE IF Exact(r) THEN n * (m - 1) ELSE 0
        codes ==
          IF {sources.code, sinks.code} # {None}
            THEN {sources.code, sinks.code} \ {None}
          ELSE IF exclude # None THEN {exclude}
          ELSE IF n > MaxSelectedBits \/ m > MaxSelectedBits THEN {"OC6505"}
          ELSE IF n # m THEN {"OC6506"}
          ELSE IF pairs > MaxPairSearches THEN {"OC6505"}
          ELSE {}
    IN  [codes |-> codes,
         row |-> r,
         sources |-> sources.ends,
         sinks |-> IF r.expect = "reachable" /\ r.transform = "reverse"
                     THEN Reverse(sinks.ends) ELSE sinks.ends,
         through |-> [i \in DOMAIN r.through |-> ends(r.through, i)],
         excluded |-> UNION {ends(r.exclude, i) : i \in DOMAIN r.exclude}]

-----------------------------------------------------------------------------
(* One search: a state is a node, the waypoints passed, the parity so far  *)
(* and whether a frontier was crossed.                                     *)

SearchState(node, passed, parity, crossed) ==
    [node |-> node, passed |-> passed, parity |-> parity, crossed |-> crossed]

(* Waypoints passed at a node, all that it satisfies in a row. *)
Advance(through, node, passed) ==
    CHOOSE k \in passed..Len(through) :
        /\ \A i \in (passed + 1)..k : node \in through[i]
        /\ k < Len(through) => node \notin through[k + 1]

Frontier(edge) == edge.state \in {"tainted", "unsupported"}

Usable(edges, frontiers) ==
    {e \in edges : \/ e.state = "known" /\ e.parity # None
                   \/ frontiers /\ Frontier(e)}

EdgeKey(e) ==
    <<NodeRank[e.to],
      IF e.state = "known" THEN 0 ELSE IF e.state = "tainted" THEN 1 ELSE 2,
      IF e.parity = None THEN -1 ELSE IF e.parity THEN 1 ELSE 0>>

EdgesFrom(edges, node) ==
    SetToSortSeq({e \in edges : e.from = node},
                 LAMBDA a, b : a # b /\ Before(EdgeKey(a), EdgeKey(b)))

ParityAfter(parity, edge) ==
    IF parity = None \/ edge.parity = None THEN None ELSE parity # edge.parity

(* What is looked for: <<from, to, over frontiers, parity, must cross>>. *)
Query(from, to, frontiers, parity, cross) ==
    [from |-> from, to |-> to, frontiers |-> frontiers, parity |-> parity,
     cross |-> cross]

InitialState(p, q) ==
    SearchState(q.from, Advance(p.through, q.from, 0), FALSE, FALSE)

(* A search between excluded endpoints is over before it starts. *)
OpenSearch(p, q) ==
    LET s == InitialState(p, q)
        idle == {q.from, q.to} \cap p.excluded # {}
    IN  [queue |-> IF idle THEN << >> ELSE <<s>>,
         seen |-> {s},
         limited |-> FALSE]

Reached(p, q, s) ==
    /\ s.node = q.to
    /\ s.passed = Len(p.through)
    /\ q.parity = None \/ s.parity = q.parity
    /\ q.cross => s.crossed

\* Mutant: the waypoints may be passed in any order, or not at all.
AnyOrder(p, q, s, edge) ==
    SearchState(edge.to, Len(p.through), ParityAfter(s.parity, edge),
                q.cross /\ (s.crossed \/ edge.state # "known"))

After(p, q, s, edge) ==
    SearchState(edge.to, Advance(p.through, edge.to, s.passed),
                ParityAfter(s.parity, edge),
                q.cross /\ (s.crossed \/ edge.state # "known"))

(* The states an expansion adds, in edge order. *)
FreshStates(p, q, s, seen, edges) ==
    LET next == [i \in DOMAIN edges |-> After(p, q, s, edges[i])]
        fresh == {i \in DOMAIN edges :
                    /\ edges[i].to \notin p.excluded
                    /\ next[i] \notin seen
                    /\ \A j \in 1..(i - 1) : next[j] # next[i]}
        order == SetToSortSeq(fresh, <)
    IN  [k \in DOMAIN order |-> next[order[k]]]

(* The limit ends the whole search. *)
AddStates(open, new) ==
    IF Cardinality(open.seen) + Len(new) > MaxSearchStates
      THEN [open EXCEPT !.limited = TRUE]
      ELSE [open EXCEPT !.queue = Tail(@) \o new,
                        !.seen = @ \cup Range(new)]

(* The first state of the queue is expanded. *)
Expand(p, q, edges, open) ==
    AddStates(open, FreshStates(p, q, Head(open.queue), open.seen,
                                EdgesFrom(Usable(edges, q.frontiers),
                                          Head(open.queue).node)))

VisitedNodes(open) == {s.node : s \in open.seen}

-----------------------------------------------------------------------------
(* The plan of a row: the stage of source bit i and, for the stages about  *)
(* another sink, the sink j.                                               *)

Stage(stage, i, j) == [stage |-> stage, i |-> i, j |-> j]

QueryOf(p, at) ==
    LET from == p.sources[at.i]
        own == p.sinks[at.i]
        other == p.sinks[at.j]
        parity == WantedParity(p.row)
    IN  CASE at.stage = "direct"    -> Query(from, own, FALSE, parity, FALSE)
          [] at.stage = "alternate" -> Query(from, own, FALSE, ~parity, FALSE)
          [] at.stage = "cross"     -> Query(from, other, FALSE, None, FALSE)
          [] at.stage = "tainted"   -> Query(from, own, TRUE, None, TRUE)
          [] at.stage = "crossTainted" -> Query(from, other, TRUE, None, TRUE)
          [] at.stage = "any"       -> Query(from, own, FALSE, None, FALSE)
          [] at.stage = "wrong"     -> Query(from, other, FALSE, parity, FALSE)
          [] at.stage = "possible"  -> Query(from, own, TRUE, None, FALSE)
          [] at.stage = "forbidden" -> Query(from, other, FALSE, None, FALSE)
          [] at.stage = "maybe"     -> Query(from, other, TRUE, None, FALSE)

FirstStage(p) ==
    IF p.row.expect = "reachable" THEN Stage("direct", 1, 1)
                                  ELSE Stage("forbidden", 1, 1)

(* How a row ends: with a code, or None when nothing is wrong. *)
Verdict(code) == [verdict |-> code]

Least(S) == CHOOSE j \in S : \A k \in S : j <= k

(* The sinks after j that are not the bit's own. *)
OtherSinks(p, i, j) == {k \in (j + 1)..Len(p.sinks) : k # i}

(* The bit is settled: on to the next one. *)
NextBit(p, at) ==
    IF at.i = Len(p.sources) THEN Verdict(None)
                             ELSE Stage("direct", at.i + 1, 1)

(* Nothing doubtful was found, but the graph may have lost edges. *)
UnlessIncomplete(graph, then) ==
    IF graph.complete THEN then ELSE Verdict("OC6505")

(* A right path is known: is another possible over a frontier? *)
AfterCross(p, graph, at) ==
    IF \E e \in graph.edges : Frontier(e) THEN Stage("tainted", at.i, 1)
    ELSE UnlessIncomplete(graph, NextBit(p, at))

NextCross(p, graph, at, j) ==
    LET others == OtherSinks(p, at.i, j)
    IN  IF Exact(p.row) /\ others # {}
          THEN Stage("cross", at.i, Least(others))
          ELSE AfterCross(p, graph, at)

NextCrossTainted(p, graph, at, j) ==
    LET others == OtherSinks(p, at.i, j)
    IN  IF Exact(p.row) /\ others # {}
          THEN Stage("crossTainted", at.i, Least(others))
          ELSE UnlessIncomplete(graph, NextBit(p, at))

(* No right path is known: a path to another sink, which the first search  *)
(* must have visited, is a wrong mapping.                                  *)
NextWrong(p, at, visited, j) ==
    LET others == {k \in OtherSinks(p, at.i, j) : p.sinks[k] \in visited}
    IN  IF others # {} THEN Stage("wrong", at.i, Least(others))
                       ELSE Stage("possible", at.i, 1)

(* What follows from the outcome of a search in a reachable row. *)
AfterReachable(p, graph, at, outcome, visited) ==
    CASE at.stage = "direct" ->
           IF outcome = "limited" THEN Verdict("OC6505")
           ELSE IF outcome = "none" THEN Stage("any", at.i, 1)
           ELSE IF WantedParity(p.row) = None THEN NextBit(p, at)
           ELSE Stage("alternate", at.i, 1)
      [] at.stage = "alternate" ->
           IF outcome # "none" THEN Verdict("OC6505")
           ELSE NextCross(p, graph, at, 0)
      [] at.stage = "cross" ->
           IF outcome = "limited" THEN Verdict("OC6505")
           ELSE IF outcome = "found" THEN Verdict("OC6507")
           ELSE NextCross(p, graph, at, at.j)
      [] at.stage = "tainted" ->
           IF outcome # "none" THEN Verdict("OC6505")
           ELSE NextCrossTainted(p, graph, at, 0)
      [] at.stage = "crossTainted" ->
           IF outcome # "none" THEN Verdict("OC6505")
           ELSE NextCrossTainted(p, graph, at, at.j)
      [] at.stage = "any" ->
           IF outcome = "limited" THEN Verdict("OC6505")
           ELSE IF outcome = "found" /\ WantedParity(p.row) # None
             THEN Verdict("OC6508")
           ELSE NextWrong(p, at, visited, 0)
      [] at.stage = "wrong" ->
           IF outcome = "found" THEN Verdict("OC6507")
           ELSE NextWrong(p, at, visited, at.j)
      [] at.stage = "possible" ->
           IF outcome = "none" /\ graph.complete THEN Verdict("OC6503")
                                                 ELSE Verdict("OC6505")

\* Mutant: after the last sink of a bit the search begins with it again.
SameBit(p, graph, at, doubt) ==
    IF at.j < Len(p.sinks) THEN Stage("forbidden", at.i, at.j + 1)
                           ELSE Stage("forbidden", at.i, 1)

NextPair(p, graph, at, doubt) ==
    IF at.j < Len(p.sinks) THEN Stage("forbidden", at.i, at.j + 1)
    ELSE IF at.i < Len(p.sources) THEN Stage("forbidden", at.i + 1, 1)
    ELSE IF doubt THEN Verdict("OC6505")
    ELSE UnlessIncomplete(graph, Verdict(None))

(* In an unreachable row a limit or a possible path is remembered. *)
AfterUnreachable(p, graph, at, outcome, doubt) ==
    IF at.stage = "forbidden"
      THEN IF outcome = "found" THEN Verdict("OC6504")
                                ELSE Stage("maybe", at.i, at.j)
      ELSE NextPair(p, graph, at, doubt)

-----------------------------------------------------------------------------
(* What a row means: the netlists the view may stand for, and walks in     *)
(* them.                                                                   *)

(* Every frontier may be a connection of either parity, or none. *)
Worlds(graph) ==
    LET known == {e \in graph.edges : e.state = "known"}
        unclear == {e \in graph.edges : Frontier(e)}
        wires(f) == UNION {IF f[e] = "none" THEN {}
                           ELSE {[from |-> e.from, to |-> e.to,
                                  parity |-> f[e] = "inverting"]} :
                             e \in unclear}
        plain == {[from |-> e.from, to |-> e.to, parity |-> e.parity] :
                    e \in known}
    IN  {plain \cup wires(f) :
           f \in [unclear -> {"none", "straight", "inverting"}]}
        \cup (IF graph.complete THEN {}
              ELSE {plain \cup
                    [from : graph.nodes, to : graph.nodes, parity : BOOLEAN]})

(* Walks: <<node, waypoints passed, parity>>, closed under the wires. *)
RECURSIVE WalkClosure(_, _, _)
WalkClosure(p, wires, walks) ==
    LET more == {<<e.to, Advance(p.through, e.to, w[2]), w[3] # e.parity>> :
                   <<e, w>> \in {x \in wires \X walks :
                                   /\ x[1].from = x[2][1]
                                   /\ x[1].to \notin p.excluded}}
    IN  IF more \subseteq walks THEN walks
        ELSE WalkClosure(p, wires, walks \cup more)

ParitiesBetween(p, wires, from, to) ==
    IF {from, to} \cap p.excluded # {} THEN {}
    ELSE {w[3] : w \in {v \in WalkClosure(p, wires,
                                {<<from, Advance(p.through, from, 0), FALSE>>}) :
                          v[1] = to /\ v[2] = Len(p.through)}}

Satisfied(p, wires) ==
    LET parities(i, j) == ParitiesBetween(p, wires, p.sources[i], p.sinks[j])
        wanted == WantedParity(p.row)
    IN  IF p.row.expect = "unreachable"
          THEN \A i \in DOMAIN p.sources, j \in DOMAIN p.sinks :
                  parities(i, j) = {}
          ELSE \A i \in DOMAIN p.sources :
                  /\ parities(i, i) # {}
                  /\ wanted # None => parities(i, i) = {wanted}
                  /\ Exact(p.row) => \A j \in DOMAIN p.sinks \ {i} :
                                        parities(i, j) = {}

=============================================================================
