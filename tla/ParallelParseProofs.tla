------------------------- MODULE ParallelParseProofs -------------------------
(***************************************************************************)
(* ordered_parallel_map does what a serial loop does, keeps unsafe parsers *)
(* alone and leaves no worker behind, for every number of sources and of   *)
(* workers, every choice of unsafe and of failing sources, and every       *)
(* schedule of the pool.                                                   *)
(***************************************************************************)
EXTENDS ParallelParse, FiniteSetTheorems, TLAPS

FutureStates == {"none", "pending", "running", "ok", "failed", "cancelled"}

Typed ==
    /\ jobs \in 1..MaxJobs
    /\ safe \in [Sources -> BOOLEAN]
    /\ bad \in [Sources -> BOOLEAN]
    /\ pc \in {"scan", "inline", "submit", "resolve", "cancel", "shutdown",
               "returned", "raised"}
    /\ next \in 1..(N + 1)
    /\ block \in Seq(Sources)
    /\ future \in [Sources -> FutureStates]
    /\ turn \in Nat
    /\ inline \in 0..N
    /\ results \in Seq(Sources)
    /\ raised \in 0..N

(* The block is a run of consecutive sources that ends before next; base   *)
(* is the last source before it.                                           *)
base == next - 1 - Len(block)

Blocked ==
    /\ base \in Nat
    /\ \A i \in 1..Len(block) : /\ block[i] = base + i
                                /\ Pooled(base + i)
    /\ pc \in {"inline", "returned"} => block = << >>
    /\ pc \in {"submit", "resolve", "cancel"} => turn <= Len(block)

Inlined ==
    /\ pc # "inline" => inline = 0
    /\ pc = "inline" => inline \in Sources /\ inline = base

(* Of a source of the block: whether the calling thread has passed it in   *)
(* its loop, and what its future may be.                                   *)
Passed(s) == s - base <= turn

Allowed(s) ==
    CASE pc = "scan" -> {"none"}
      [] pc = "submit" -> IF Passed(s) THEN {"pending", "running", "ok", "failed"}
                                    ELSE {"none"}
      [] pc = "resolve" -> IF Passed(s) THEN {"ok"}
                           ELSE {"pending", "running", "ok", "failed"}
      [] pc = "cancel" -> IF raised = 0 THEN {"ok"}
                          ELSE IF Passed(s)
                            THEN {"running", "ok", "failed", "cancelled"}
                            ELSE {"pending", "running", "ok", "failed"}
      [] pc = "shutdown" -> IF raised = 0 THEN {"ok"}
                            ELSE {"running", "ok", "failed", "cancelled"}
      [] OTHER -> {"ok", "failed", "cancelled"}

InOrder(s) ==
    /\ s <= base => future[s] \in {"none", "ok"}
    /\ s >= next => future[s] = "none"
    /\ base < s /\ s < next => future[s] \in Allowed(s)
    /\ future[s] = "ok" => ~bad[s]
    /\ future[s] = "failed" => bad[s]

Futures == \A s \in Sources : InOrder(s)

(* The sources the call has dealt with. *)
Settled == IF pc = "inline" THEN base - 1 ELSE base

Outcomes ==
    /\ pc # "raised" => /\ Len(results) = Settled
                        /\ \A s \in 1..Settled : ~bad[s] /\ results[s] = s
    /\ pc \in {"scan", "inline", "submit", "resolve", "returned"} => raised = 0
    /\ pc = "returned" => next = N + 1
    /\ pc = "raised" => raised # 0
    /\ raised # 0 => /\ bad[raised]
                     /\ \A s \in 1..(raised - 1) : ~bad[s]

Crew == Cardinality(In("running")) <= jobs

IInv == Typed /\ Blocked /\ Inlined /\ Futures /\ Outcomes /\ Crew

USE SourcesAssumption, JobsAssumption

-----------------------------------------------------------------------------
LEMMA RunningFinite ==
    ASSUME NEW state
    PROVE  IsFiniteSet(In(state)) /\ Cardinality(In(state)) \in Nat
<1>1. IsFiniteSet(Sources)
    BY FS_Interval DEF Sources
<1>2. In(state) \subseteq Sources
    BY DEF In
<1>3. QED
    BY <1>1, <1>2, FS_Subset, FS_CardinalityType

LEMMA InitInv == Init => IInv
<1> SUFFICES ASSUME Init PROVE IInv
    OBVIOUS
<1>1. Typed
    BY DEF Init, Typed, FutureStates, Sources
<1>2. Len(block) = 0 /\ Len(results) = 0
    BY DEF Init
<1>3. /\ next = 1 /\ pc = "scan" /\ inline = 0 /\ raised = 0 /\ block = << >>
      /\ future = [s \in Sources |-> "none"]
    BY DEF Init
<1>4. base = 0
    BY <1>2, <1>3 DEF base
<1>5. Blocked /\ Inlined
    BY <1>2, <1>3, <1>4 DEF Blocked, Inlined
<1>6. Outcomes
    BY <1>2, <1>3, <1>4 DEF Outcomes, Settled
<1>7. Futures
    BY <1>2, <1>3, <1>4 DEF Futures, InOrder, Sources
<1>8. In("running") = {}
    BY <1>3 DEF In
<1>9. jobs \in Nat
    BY <1>1 DEF Typed
<1>10. Crew
    BY <1>8, <1>9, FS_EmptySet DEF Crew
<1>11. QED
    BY <1>1, <1>5, <1>6, <1>7, <1>10 DEF IInv

-----------------------------------------------------------------------------
(* Facts about one state *)

LEMMA BlockOf ==
    ASSUME IInv
    PROVE  /\ Len(block) \in Nat /\ next \in Nat /\ next <= N + 1
           /\ base \in Nat /\ base + Len(block) = next - 1
           /\ Sources = 1..N
           /\ \A s \in Sources :
                 base < s /\ s < next =>
                    /\ s - base \in 1..Len(block)
                    /\ block[s - base] = s
                    /\ Pooled(s)
           /\ \A i \in 1..Len(block) :
                 /\ block[i] = base + i
                 /\ block[i] \in Sources
                 /\ base < block[i] /\ block[i] < next
<1>1. /\ Len(block) \in Nat /\ next \in Nat /\ next <= N + 1
      /\ base \in Nat /\ Sources = 1..N
    BY DEF IInv, Typed, Blocked, Sources
<1>2. base + Len(block) = next - 1
    BY <1>1 DEF base
<1>3. \A i \in 1..Len(block) : block[i] = base + i /\ Pooled(base + i)
    BY DEF IInv, Blocked
<1>4. ASSUME NEW s \in Sources, base < s, s < next
      PROVE  s - base \in 1..Len(block) /\ block[s - base] = s /\ Pooled(s)
    <2>1. s - base \in 1..Len(block) /\ base + (s - base) = s
        BY <1>1, <1>2, <1>4
    <2>2. QED
        BY <2>1, <1>3
<1>5. ASSUME NEW i \in 1..Len(block)
      PROVE  /\ block[i] = base + i
             /\ block[i] \in Sources
             /\ base < block[i] /\ block[i] < next
    BY <1>1, <1>2, <1>3
<1>6. QED
    BY <1>1, <1>2, <1>4, <1>5

(* A future that a worker may take or has taken is one of the block, while *)
(* the calling thread waits for the block.                                 *)
LEMMA Engaged ==
    ASSUME IInv, NEW s \in Sources, future[s] \in {"pending", "running"}
    PROVE  /\ base < s /\ s < next
           /\ pc \in {"submit", "resolve", "cancel", "shutdown"}
<1>1. base \in Nat /\ next \in Nat /\ s \in Int
    BY BlockOf
<1>2. base < s /\ s < next
    BY <1>1 DEF IInv, Futures, InOrder
<1>3. future[s] \in Allowed(s)
    BY <1>2 DEF IInv, Futures, InOrder
<1>4. pc \in {"scan", "inline", "submit", "resolve", "cancel", "shutdown",
              "returned", "raised"}
    BY DEF IInv, Typed
<1>5. QED
    BY <1>2, <1>3, <1>4 DEF Allowed, Passed

LEMMA FewerRunning ==
    ASSUME In("running")' \subseteq In("running"), jobs' = jobs,
           jobs \in Nat, Crew
    PROVE  Crew'
<1>1. /\ IsFiniteSet(In("running"))
      /\ Cardinality(In("running")) \in Nat
    BY RunningFinite
<1>2. /\ Cardinality(In("running")') \in Nat
      /\ Cardinality(In("running")') <= Cardinality(In("running"))
    BY <1>1, FS_Subset, FS_CardinalityType
<1>3. QED
    BY <1>1, <1>2 DEF Crew

LEMMA Jobs == ASSUME IInv PROVE jobs \in Nat /\ jobs >= 1
BY DEF IInv, Typed

-----------------------------------------------------------------------------
(* Every step preserves the invariant *)

LEMMA Appended ==
    ASSUME NEW S, NEW q \in Seq(S), NEW e \in S
    PROVE  /\ Append(q, e) \in Seq(S)
           /\ Len(Append(q, e)) = Len(q) + 1
           /\ Append(q, e)[Len(q) + 1] = e
           /\ \A i \in 1..Len(q) : Append(q, e)[i] = q[i]
OBVIOUS

LEMMA GatherStep == IInv /\ Gather => IInv'
<1> SUFFICES ASSUME IInv, Gather PROVE IInv'
    OBVIOUS
<1> USE BlockOf, Jobs
<1>1. /\ pc = "scan" /\ next \in Sources /\ Pooled(next)
      /\ block' = Append(block, next) /\ next' = next + 1
      /\ UNCHANGED <<arguments, pc, future, turn, inline, results, raised>>
    BY DEF Gather
<1>2. block \in Seq(Sources)
    BY DEF IInv, Typed
<1>3. Len(block') = Len(block) + 1 /\ base' = base
    BY <1>1, <1>2 DEF base
<1>4. Typed'
    BY <1>1 DEF IInv, Typed, arguments
<1>5. \A i \in 1..Len(block') : block'[i] = base + i /\ Pooled(base + i)
    BY <1>1, <1>2, <1>3
<1>6. Blocked'
    BY <1>1, <1>3, <1>5 DEF Blocked, Pooled, Serial, arguments
<1>7. Inlined'
    BY <1>1, <1>3 DEF IInv, Inlined
<1>8. Futures'
    BY <1>1, <1>3 DEF IInv, Futures, InOrder, Allowed, Passed, arguments
<1>9. Outcomes'
    BY <1>1, <1>3 DEF IInv, Outcomes, Settled, arguments
<1>10. Crew'
    BY <1>1 DEF IInv, Crew, In, arguments
<1>11. QED
    BY <1>4, <1>6, <1>7, <1>8, <1>9, <1>10 DEF IInv

LEMMA FlushStep == IInv /\ Flush => IInv'
<1> SUFFICES ASSUME IInv, Flush PROVE IInv'
    OBVIOUS
<1> USE BlockOf, Jobs
<1>1. /\ pc = "scan" /\ pc' = "submit" /\ turn' = 0
      /\ UNCHANGED <<arguments, next, block, future, inline, results, raised>>
    BY DEF Flush, Goto
<1>2. base' = base
    BY <1>1 DEF base
<1>3. Typed' /\ Crew'
    BY <1>1 DEF IInv, Typed, Crew, In, arguments
<1>4. Blocked' /\ Inlined'
    BY <1>1, <1>2 DEF IInv, Blocked, Inlined, Pooled, Serial, arguments
<1>5. Futures'
    BY <1>1, <1>2 DEF IInv, Futures, InOrder, Allowed, Passed, arguments
<1>6. Outcomes'
    BY <1>1, <1>2 DEF IInv, Outcomes, Settled, arguments
<1>7. QED
    BY <1>3, <1>4, <1>5, <1>6 DEF IInv

LEMMA CallInlineStep == IInv /\ CallInline => IInv'
<1> SUFFICES ASSUME IInv, CallInline PROVE IInv'
    OBVIOUS
<1> USE BlockOf, Jobs
<1>1. /\ pc = "scan" /\ next \in Sources
      /\ pc' = "inline" /\ inline' = next /\ next' = next + 1
      /\ UNCHANGED <<arguments, block, future, turn, results, raised>>
    BY DEF CallInline
<1>2. block = << >> /\ Len(block) = 0
    BY DEF CallInline
<1>3. base = next - 1 /\ base' = next
    BY <1>1, <1>2 DEF base
<1>4. Typed' /\ Crew'
    BY <1>1 DEF IInv, Typed, Crew, In, arguments
<1>5. Len(block') = 0 /\ block' = << >>
    BY <1>1, <1>2
<1>6. Blocked'
    BY <1>1, <1>3, <1>5 DEF IInv, Blocked
<1>7. Inlined'
    BY <1>1, <1>3 DEF Inlined
<1>8. Futures'
    <2>1. ASSUME NEW s \in Sources
          PROVE  InOrder(s)'
        <3>1. s \in Int /\ next \in Nat
            OBVIOUS
        <3>2. ~(base' < s /\ s < next') /\ (s <= base' => s <= base \/ s >= next)
            BY ONLY <1>1, <1>3, <3>1
        <3>3. s >= next' => s >= next
            BY ONLY <1>1, <3>1
        <3>4. InOrder(s) /\ future' = future /\ bad' = bad
            BY <1>1 DEF IInv, Futures, arguments
        <3>5. QED
            BY ONLY <3>2, <3>3, <3>4 DEF InOrder
    <2>2. QED
        BY <1>1, <2>1 DEF Futures, Sources
<1>9. Outcomes'
    <2>1. Settled = base /\ Settled' = base
        BY ONLY <1>1, <1>3 DEF Settled
    <2>2. bad' = bad /\ raised = 0
        BY <1>1 DEF IInv, Outcomes, arguments
    <2>3. Len(results) = base /\ \A s \in 1..base : ~bad[s] /\ results[s] = s
        BY <1>1, <2>1 DEF IInv, Outcomes
    <2>4. QED
        BY ONLY <1>1, <2>1, <2>2, <2>3 DEF Outcomes
<1>10. QED
    BY <1>4, <1>6, <1>7, <1>8, <1>9 DEF IInv

LEMMA ReturnInlineStep == IInv /\ ReturnInline => IInv'
<1> SUFFICES ASSUME IInv, ReturnInline PROVE IInv'
    OBVIOUS
<1> USE BlockOf, Jobs
<1>1. /\ pc = "inline" /\ inline' = 0
      /\ UNCHANGED <<arguments, next, block, future, turn>>
      /\ \/ bad[inline] /\ pc' = "raised" /\ raised' = inline /\ results' = results
         \/ /\ ~bad[inline] /\ pc' = "scan" /\ raised' = raised
            /\ results' = Append(results, inline)
    BY DEF ReturnInline
<1>2. inline \in Sources /\ inline = base /\ base' = base
    BY <1>1 DEF IInv, Inlined, base
<1>3. results \in Seq(Sources) /\ Len(results) = base - 1
    BY <1>1 DEF IInv, Typed, Outcomes, Settled
<1>4. Typed'
    <2>1. results' \in Seq(Sources)
        <3>1. results' = results \/ results' = Append(results, inline)
            BY <1>1
        <3>2. Append(results, inline) \in Seq(Sources)
            BY <1>2, <1>3, Appended
        <3>3. QED
            BY <1>3, <3>1, <3>2
    <2>2. pc' \in {"raised", "scan"} /\ raised' \in 0..N
        BY <1>1, <1>2 DEF IInv, Typed
    <2>3. QED
        BY <1>1, <2>1, <2>2 DEF IInv, Typed, arguments
<1>12. Crew'
    BY <1>1 DEF IInv, Crew, In, arguments
<1>5. Blocked'
    BY <1>1, <1>2 DEF IInv, Blocked, Pooled, Serial, arguments
<1>6. Inlined'
    BY <1>1 DEF Inlined
<1>7. block = << >> /\ Len(block) = 0
    BY <1>1 DEF IInv, Blocked
<1>8. Futures'
    BY <1>1, <1>2, <1>7 DEF IInv, Futures, InOrder, arguments
<1>9. \A s \in 1..(base - 1) : ~bad[s] /\ results[s] = s
    BY <1>1 DEF IInv, Outcomes, Settled
<1>10. Outcomes'
    <2>1. raised = 0 /\ base \in 1..N
        BY <1>1, <1>2 DEF IInv, Outcomes
    <2>2. CASE bad[inline]
        <3>1. pc' = "raised" /\ raised' = base /\ bad' = bad /\ bad[base] /\ base # 0
            BY <1>1, <1>2, <2>1, <2>2 DEF arguments
        <3>2. QED
            BY ONLY <1>9, <3>1 DEF Outcomes
    <2>3. CASE ~bad[inline]
        <3>1. /\ Len(results') = base
              /\ \A s \in 1..base : ~bad[s] /\ results'[s] = s
            <4>1. results' = Append(results, inline)
                BY <1>1, <2>3
            <4>2. /\ Len(results') = Len(results) + 1
                  /\ results'[Len(results) + 1] = inline
                  /\ \A s \in 1..Len(results) : results'[s] = results[s]
                BY <1>2, <1>3, <4>1, Appended
            <4>3. base - 1 + 1 = base /\ 1..base = 1..(base - 1) \cup {base}
                BY <2>1
            <4>4. results'[base] = base /\ ~bad[base] /\ Len(results') = base
                BY <1>2, <1>3, <2>3, <4>2, <4>3
            <4>5. \A s \in 1..(base - 1) : results'[s] = s
                BY <1>3, <1>9, <4>2
            <4>6. QED
                BY <1>9, <4>3, <4>4, <4>5
        <3>2. pc' = "scan" /\ raised' = 0 /\ bad' = bad
            BY <1>1, <2>1, <2>3 DEF arguments
        <3>3. Settled' = base
            BY ONLY <1>2, <3>2 DEF Settled
        <3>4. QED
            BY ONLY <3>1, <3>2, <3>3 DEF Outcomes
    <2>4. QED
        BY <2>2, <2>3
<1>11. QED
    BY <1>4, <1>12, <1>5, <1>6, <1>8, <1>10 DEF IInv

LEMMA FinishStep == IInv /\ Finish => IInv'
<1> SUFFICES ASSUME IInv, Finish PROVE IInv'
    OBVIOUS
<1> USE BlockOf, Jobs
<1>1. /\ pc = "scan" /\ next \notin Sources /\ block = << >>
      /\ pc' = "returned"
      /\ UNCHANGED <<arguments, next, block, future, turn, inline, results, raised>>
    BY DEF Finish
<1>2. base' = base /\ Len(block) = 0
    BY <1>1 DEF base
<1>3. next = N + 1
    BY <1>1 DEF IInv, Typed
<1>4. Typed' /\ Crew'
    BY <1>1 DEF IInv, Typed, Crew, In, arguments
<1>5. Blocked' /\ Inlined'
    BY <1>1, <1>2 DEF IInv, Blocked, Inlined, Pooled, Serial, arguments
<1>6. Futures'
    BY <1>1, <1>2 DEF IInv, Futures, InOrder, arguments
<1>7. Outcomes'
    BY <1>1, <1>2, <1>3 DEF IInv, Outcomes, Settled, arguments
<1>8. QED
    BY <1>4, <1>5, <1>6, <1>7 DEF IInv

(* The loops over the block change one future, of a source of the block,   *)
(* or go on to the next loop.                                              *)
LEMMA SubmitStep == IInv /\ Submit => IInv'
<1> SUFFICES ASSUME IInv, Submit PROVE IInv'
    OBVIOUS
<1> USE BlockOf, Jobs
<1>1. pc = "submit" /\ UNCHANGED <<arguments, next, block, inline, results, raised>>
    BY DEF Submit
<1>2. base' = base /\ turn \in Nat /\ turn <= Len(block)
    BY <1>1 DEF IInv, Typed, Blocked, base
<1>3. CASE turn < Len(block)
    <2>1. /\ future' = [future EXCEPT ![block[turn + 1]] = "pending"]
          /\ turn' = turn + 1 /\ pc' = pc
        BY <1>3 DEF Submit
    <2>2. turn + 1 \in 1..Len(block)
        BY <1>2, <1>3
    <2>3. block[turn + 1] = base + (turn + 1) /\ block[turn + 1] \in Sources
        BY <2>2
    <2>4. Typed'
        BY <1>1, <1>2, <2>1, <2>3 DEF IInv, Typed, FutureStates, arguments
    <2>5. Blocked' /\ Inlined' /\ Outcomes'
        BY <1>1, <1>2, <1>3, <2>1
        DEF IInv, Blocked, Inlined, Outcomes, Settled, Pooled, Serial, arguments
    <2>6. future \in [Sources -> FutureStates]
        BY DEF IInv, Typed
    <2>7. ASSUME NEW s \in Sources
          PROVE  InOrder(s)'
        <3>1. CASE s = base + (turn + 1)
            <4>1. future'[s] = "pending" /\ Passed(s)'
                BY <1>2, <2>1, <2>3, <2>6, <3>1 DEF Passed
            <4>2. base < s /\ s < next
                BY <1>2, <1>3, <3>1
            <4>3. QED
                BY <1>1, <1>2, <2>1, <4>1, <4>2 DEF InOrder, Allowed
        <3>2. CASE s # base + (turn + 1)
            <4>1. future'[s] = future[s] /\ (Passed(s)' <=> Passed(s))
                BY <1>2, <2>1, <2>3, <2>6, <3>2 DEF Passed
            <4>2. QED
                BY <1>1, <1>2, <2>1, <4>1
                DEF IInv, Futures, InOrder, Allowed, arguments
        <3>3. QED
            BY <3>1, <3>2
    <2>8. In("running")' \subseteq In("running")
        BY <2>1, <2>6 DEF In
    <2>9. Crew'
        BY <1>1, <2>8, FewerRunning DEF IInv, arguments
    <2>10. QED
        BY <2>4, <2>5, <2>7, <2>9 DEF IInv, Futures
<1>4. CASE ~(turn < Len(block))
    <2>1. pc' = "resolve" /\ turn' = 0 /\ future' = future
        BY <1>4 DEF Submit, Goto
    <2>2. Typed' /\ Crew'
        BY <1>1, <2>1 DEF IInv, Typed, Crew, In, arguments
    <2>3. Blocked' /\ Inlined' /\ Outcomes'
        BY <1>1, <1>2, <2>1
        DEF IInv, Blocked, Inlined, Outcomes, Settled, Pooled, Serial, arguments
    <2>6. \A s \in Sources : base < s /\ s < next
                              => s - base <= turn /\ ~(s - base <= 0)
        BY <1>2, <1>4
    <2>7. \A s \in Sources : base < s /\ s < next
                              => future[s] \in {"pending", "running", "ok", "failed"}
        BY <1>1, <2>6 DEF IInv, Futures, InOrder, Allowed, Passed
    <2>4. Futures'
        <3>1. ASSUME NEW s \in Sources, base < s, s < next
              PROVE  future[s] \in Allowed(s)'
            BY <1>2, <2>1, <2>6, <2>7, <3>1 DEF Allowed, Passed
        <3>2. QED
            BY <1>1, <1>2, <2>1, <3>1 DEF IInv, Futures, InOrder, arguments
    <2>5. QED
        BY <2>2, <2>3, <2>4 DEF IInv
<1>5. QED
    BY <1>3, <1>4
LEMMA ResolveStep == IInv /\ Resolve => IInv'
<1> SUFFICES ASSUME IInv, Resolve PROVE IInv'
    OBVIOUS
<1> USE BlockOf, Jobs
<1>1. pc = "resolve" /\ UNCHANGED <<arguments, next, block, future, inline, results>>
    BY DEF Resolve
<1>2. /\ base' = base /\ turn \in Nat /\ turn <= Len(block)
      /\ raised = 0 /\ Settled = base
    BY <1>1 DEF IInv, Typed, Blocked, Outcomes, Settled, base
<1>3. \A s \in Sources : base < s /\ s < next /\ s - base <= turn
                            => future[s] = "ok"
    BY <1>1 DEF IInv, Futures, InOrder, Allowed, Passed
<1>4. Crew'
    BY <1>1 DEF IInv, Crew, In, arguments
<1>5. CASE turn < Len(block) /\ future[Awaited] = "ok" /\ pc' = "resolve"
    <2>1. turn' = turn + 1 /\ raised' = raised
        BY <1>1, <1>5 DEF Resolve, Goto
    <2>2. turn + 1 \in 1..Len(block)
        BY <1>2, <1>5
    <2>3. Awaited = base + (turn + 1)
        BY <2>2 DEF Awaited
    <2>4. Typed' /\ Blocked' /\ Inlined' /\ Outcomes'
        BY <1>1, <1>2, <1>5, <2>1
        DEF IInv, Typed, Blocked, Inlined, Outcomes, Settled, Pooled, Serial, arguments
    <2>5. ASSUME NEW s \in Sources
          PROVE  InOrder(s)'
        <3>1. CASE base < s /\ s < next /\ s - base <= turn + 1
            <4>1. s - base <= turn \/ s = Awaited
                BY <1>2, <2>3, <3>1
            <4>2. future[s] = "ok" /\ Passed(s)'
                BY <1>2, <1>3, <1>5, <2>1, <3>1, <4>1 DEF Passed
            <4>3. QED
                BY <1>1, <1>2, <1>5, <3>1, <4>2
                DEF IInv, Futures, InOrder, Allowed, arguments
        <3>2. CASE ~(base < s /\ s < next /\ s - base <= turn + 1)
            <4>1. base < s /\ s < next => ~Passed(s) /\ ~Passed(s)'
                BY <1>2, <2>1, <3>2 DEF Passed
            <4>2. QED
                BY <1>1, <1>2, <1>5, <4>1
                DEF IInv, Futures, InOrder, Allowed, arguments
        <3>3. QED
            BY <3>1, <3>2
    <2>6. QED
        BY <1>4, <2>4, <2>5 DEF IInv, Futures
<1>6. CASE turn < Len(block) /\ future[Awaited] = "failed" /\ pc' = "cancel"
    <2>1. turn' = 0 /\ raised' = Awaited
        BY <1>1, <1>6 DEF Resolve, Goto
    <2>2. turn + 1 \in 1..Len(block)
        BY <1>2, <1>6
    <2>3. Awaited = base + (turn + 1) /\ Awaited \in Sources
        BY <2>2 DEF Awaited
    <2>4. Typed' /\ Blocked' /\ Inlined'
        <3>1. Typed'
            <4>1. Awaited \in 0..N
                BY <2>3
            <4>2. QED
                BY ONLY IInv, <1>1, <1>6, <2>1, <4>1 DEF IInv, Typed, arguments
        <3>2. Blocked'
            BY <1>1, <1>2, <1>6, <2>1 DEF IInv, Blocked, Pooled, Serial, arguments
        <3>3. Inlined'
            BY <1>1, <1>6 DEF IInv, Inlined
        <3>4. QED
            BY <3>1, <3>2, <3>3
    <2>5. bad[Awaited]
        BY <1>6, <2>3 DEF IInv, Futures, InOrder
    <2>6. ASSUME NEW s \in 1..(Awaited - 1)
          PROVE  ~bad[s]
        <3>1. CASE s <= base
            BY <1>1, <1>2, <3>1 DEF IInv, Outcomes
        <3>2. CASE s > base
            <4>1. s \in Sources /\ s < next /\ s - base <= turn
                BY <1>2, <2>3, <3>2
            <4>2. QED
                BY <1>3, <3>2, <4>1 DEF IInv, Futures, InOrder
        <3>3. QED
            BY <1>2, <2>3, <3>1, <3>2
    <2>7. Outcomes'
        BY <1>1, <1>2, <1>6, <2>1, <2>3, <2>5, <2>6
        DEF IInv, Outcomes, Settled, arguments
    <2>8. ASSUME NEW s \in Sources
          PROVE  InOrder(s)'
        <3>0. s \in Int /\ base' = base
            BY <1>1, <1>2 DEF base
        <3>1. base < s /\ s < next
                => /\ future[s] \in {"pending", "running", "ok", "failed"}
                   /\ ~Passed(s)'
            <4>1. base < s => ~Passed(s)'
                BY ONLY BlockOf, IInv, <2>1, <3>0 DEF Passed
            <4>2. base < s /\ s < next => future[s] \in Allowed(s)
                BY DEF IInv, Futures, InOrder
            <4>3. QED
                BY ONLY <1>1, <4>1, <4>2 DEF Allowed
        <3>2. raised' # 0
            BY <1>2, <2>1, <2>3
        <3>3. QED
            BY <1>1, <1>2, <1>6, <3>1, <3>2
            DEF IInv, Futures, InOrder, Allowed, arguments
    <2>9. QED
        BY <1>4, <2>4, <2>7, <2>8 DEF IInv, Futures
<1>7. CASE ~(turn < Len(block))
    <2>1. pc' = "cancel" /\ turn' = 0 /\ raised' = raised
        BY <1>7 DEF Resolve, Goto
    <2>2. Typed' /\ Blocked' /\ Inlined' /\ Outcomes'
        BY <1>1, <1>2, <2>1
        DEF IInv, Typed, Blocked, Inlined, Outcomes, Settled, Pooled, Serial, arguments
    <2>3. ASSUME NEW s \in Sources
          PROVE  InOrder(s)'
        <3>1. base < s /\ s < next => future[s] = "ok"
            BY <1>2, <1>3, <1>7
        <3>2. QED
            BY <1>1, <1>2, <2>1, <3>1
            DEF IInv, Futures, InOrder, Allowed, arguments
    <2>4. QED
        BY <1>4, <2>2, <2>3 DEF IInv, Futures
<1>8. QED
    BY <1>1, <1>5, <1>6, <1>7 DEF Resolve, Goto

LEMMA CancelStep == IInv /\ Cancel => IInv'
<1> SUFFICES ASSUME IInv, Cancel PROVE IInv'
    OBVIOUS
<1> USE BlockOf, Jobs
<1>1. pc = "cancel" /\ UNCHANGED <<arguments, next, block, inline, results, raised>>
    BY DEF Cancel
<1>2. /\ base' = base /\ turn \in Nat /\ turn <= Len(block)
      /\ future \in [Sources -> FutureStates]
    BY <1>1 DEF IInv, Typed, Blocked, base
<1>3. CASE turn < Len(block)
    <2>1. /\ future' = [future EXCEPT ![block[turn + 1]] =
                          IF @ = "pending" THEN "cancelled" ELSE @]
          /\ turn' = turn + 1 /\ pc' = pc
        BY <1>3 DEF Cancel
    <2>2. turn + 1 \in 1..Len(block)
        BY <1>2, <1>3
    <2>3. block[turn + 1] = base + (turn + 1) /\ block[turn + 1] \in Sources
        BY <2>2
    <2>4. Typed'
        BY <1>1, <1>2, <2>1, <2>3 DEF IInv, Typed, FutureStates, arguments
    <2>5. Blocked' /\ Inlined' /\ Outcomes'
        BY <1>1, <1>2, <1>3, <2>1
        DEF IInv, Blocked, Inlined, Outcomes, Settled, Pooled, Serial, arguments
    <2>6. ASSUME NEW s \in Sources
          PROVE  InOrder(s)'
        <3>1. CASE s = base + (turn + 1)
            <4>1. future'[s] = IF future[s] = "pending" THEN "cancelled"
                                                        ELSE future[s]
                BY <1>2, <2>1, <2>3, <3>1
            <4>2. base < s /\ s < next /\ ~Passed(s) /\ Passed(s)'
                BY <1>2, <1>3, <2>1, <3>1 DEF Passed
            <4>3. QED
                BY <1>1, <1>2, <2>1, <4>1, <4>2
                DEF IInv, Futures, InOrder, Allowed, arguments
        <3>2. CASE s # base + (turn + 1)
            <4>1. future'[s] = future[s] /\ (Passed(s)' <=> Passed(s))
                BY <1>2, <2>1, <2>3, <3>2 DEF Passed
            <4>2. QED
                BY <1>1, <1>2, <2>1, <4>1
                DEF IInv, Futures, InOrder, Allowed, arguments
        <3>3. QED
            BY <3>1, <3>2
    <2>7. In("running")' \subseteq In("running")
        BY <1>2, <2>1 DEF In
    <2>8. Crew'
        BY <1>1, <2>7, FewerRunning DEF IInv, arguments
    <2>9. QED
        BY <2>4, <2>5, <2>6, <2>8 DEF IInv, Futures
<1>4. CASE ~(turn < Len(block))
    <2>1. pc' = "shutdown" /\ turn' = 0 /\ future' = future
        BY <1>4 DEF Cancel, Goto
    <2>2. Typed' /\ Crew'
        BY <1>1, <2>1 DEF IInv, Typed, Crew, In, arguments
    <2>3. Blocked' /\ Inlined' /\ Outcomes'
        BY <1>1, <1>2, <2>1
        DEF IInv, Blocked, Inlined, Outcomes, Settled, Pooled, Serial, arguments
    <2>4. ASSUME NEW s \in Sources
          PROVE  InOrder(s)'
        <3>1. base < s /\ s < next => Passed(s)
            BY <1>2, <1>4 DEF Passed
        <3>2. QED
            BY <1>1, <1>2, <2>1, <3>1
            DEF IInv, Futures, InOrder, Allowed, arguments
    <2>5. QED
        BY <2>2, <2>3, <2>4 DEF IInv, Futures
<1>5. QED
    BY <1>3, <1>4
LEMMA Joined ==
    ASSUME NEW S, NEW q \in Seq(S), NEW r \in Seq(S)
    PROVE  /\ q \o r \in Seq(S)
           /\ Len(q \o r) = Len(q) + Len(r)
           /\ \A i \in 1..Len(q) : (q \o r)[i] = q[i]
           /\ \A i \in (Len(q) + 1)..(Len(q) + Len(r)) :
                 (q \o r)[i] = r[i - Len(q)]
OBVIOUS

(* Nothing runs any more: of a call without a failure the whole block is   *)
(* collected, of another one every future has come to its end.             *)
LEMMA ShutdownStep == IInv /\ Shutdown => IInv'
<1> SUFFICES ASSUME IInv, Shutdown PROVE IInv'
    OBVIOUS
<1> USE BlockOf, Jobs
<1>1. /\ pc = "shutdown" /\ In("running") = {}
      /\ UNCHANGED <<arguments, next, future, turn, inline, raised>>
    BY DEF Shutdown, Drained
<1>2. Settled = base /\ Len(results) = base /\ results \in Seq(Sources)
    BY <1>1 DEF IInv, Typed, Outcomes, Settled
<1>3. Crew'
    BY <1>1 DEF IInv, Crew, In, arguments
<1>4. CASE raised # 0
    <2>1. pc' = "raised" /\ block' = block /\ results' = results
        BY <1>4 DEF Shutdown
    <2>2. base' = base
        BY <1>1, <2>1 DEF base
    <2>3. Typed' /\ Blocked' /\ Inlined' /\ Outcomes'
        BY <1>1, <1>4, <2>1, <2>2
        DEF IInv, Typed, Blocked, Inlined, Outcomes, Pooled, Serial, arguments
    <2>4. ASSUME NEW s \in Sources
          PROVE  InOrder(s)'
        <3>1. future[s] # "running"
            BY <1>1 DEF In
        <3>2. QED
            BY <1>1, <1>4, <2>1, <2>2, <3>1
            DEF IInv, Futures, InOrder, Allowed, arguments
    <2>5. QED
        BY <1>3, <2>3, <2>4 DEF IInv, Futures
<1>5. CASE raised = 0
    <2>1. pc' = "scan" /\ block' = << >> /\ results' = results \o block
        BY <1>5 DEF Shutdown
    <2>2. Len(block') = 0
        BY <2>1
    <2>3. base' = next - 1 /\ base' \in Nat
        BY <1>1, <2>2 DEF base
    <2>4. block \in Seq(Sources)
        BY DEF IInv, Typed
    <2>5. /\ results' \in Seq(Sources)
          /\ Len(results') = next - 1
          /\ \A i \in 1..base : results'[i] = results[i]
          /\ \A i \in (base + 1)..(next - 1) : results'[i] = block[i - base]
        <3> DEFINE all == results \o block
        <3>1. /\ all \in Seq(Sources)
              /\ Len(all) = Len(results) + Len(block)
              /\ \A i \in 1..Len(results) : all[i] = results[i]
              /\ \A i \in (Len(results) + 1)..(Len(results) + Len(block)) :
                    all[i] = block[i - Len(results)]
            <4>1. results \in Seq(Sources)
                BY <1>2
            <4>2. QED
                BY ONLY <4>1, <2>4, Joined
        <3>2. results' = all
            BY <2>1
        <3>3. Len(results) = base /\ base + Len(block) = next - 1
            BY <1>2
        <3> HIDE DEF all
        <3>4. QED
            BY <3>1, <3>2, <3>3
    <2>6. block' \in Seq(Sources)
        BY <2>1
    <2>7. Typed'
        BY <1>1, <2>1, <2>5, <2>6 DEF IInv, Typed, arguments
    <2>8. Blocked'
        BY <1>1, <2>1, <2>2, <2>3 DEF Blocked
    <2>9. Inlined'
        BY <1>1, <2>1 DEF IInv, Inlined
    <2>10. \A s \in Sources : base < s /\ s < next => future[s] = "ok" /\ ~bad[s]
        BY <1>1, <1>5 DEF IInv, Futures, InOrder, Allowed
    <2>11. ASSUME NEW s \in 1..(next - 1)
           PROVE  ~bad[s] /\ results'[s] = s
        <3>1. CASE s <= base
            BY <1>1, <1>2, <2>5, <3>1 DEF IInv, Outcomes
        <3>2. CASE s > base
            <4>1. s \in Sources /\ s < next /\ s \in (base + 1)..(next - 1)
                BY <3>2
            <4>2. block[s - base] = s
                BY <3>2, <4>1
            <4>3. QED
                BY <2>5, <2>10, <3>2, <4>1, <4>2
        <3>3. QED
            BY <3>1, <3>2
    <2>12. Outcomes'
        BY <1>1, <1>5, <2>1, <2>3, <2>5, <2>11 DEF Outcomes, Settled, arguments
    <2>13. ASSUME NEW s \in Sources
           PROVE  InOrder(s)'
        BY <1>1, <2>3, <2>10 DEF IInv, Futures, InOrder, arguments
    <2>14. QED
        BY <1>3, <2>7, <2>8, <2>9, <2>12, <2>13 DEF IInv, Futures
<1>6. QED
    BY <1>4, <1>5

(* A worker moves one future that is in the block. *)
LEMMA TakeStep == ASSUME NEW s \in Sources PROVE IInv /\ Take(s) => IInv'
<1> SUFFICES ASSUME IInv, Take(s) PROVE IInv'
    OBVIOUS
<1> USE BlockOf, Jobs
<1>1. /\ future[s] = "pending" /\ Cardinality(In("running")) < Workers
      /\ future' = [future EXCEPT ![s] = "running"]
      /\ UNCHANGED <<arguments, pc, next, block, turn, inline, results, raised>>
    BY DEF Take
<1>2. base' = base /\ future \in [Sources -> FutureStates]
    BY <1>1 DEF IInv, Typed, base
<1>3. /\ base < s /\ s < next
      /\ pc \in {"submit", "resolve", "cancel", "shutdown"}
    BY <1>1, Engaged
<1>4. Typed'
    BY <1>1, <1>2 DEF IInv, Typed, FutureStates, arguments
<1>5. Blocked' /\ Inlined' /\ Outcomes'
    BY <1>1, <1>2
    DEF IInv, Blocked, Inlined, Outcomes, Settled, Pooled, Serial, arguments
<1>6. ASSUME NEW t \in Sources
      PROVE  InOrder(t)'
    <2>1. Passed(t)' <=> Passed(t)
        BY <1>1, <1>2 DEF Passed
    <2>2. CASE t = s
        <3>1. future'[t] = "running"
            BY <1>1, <1>2, <2>2
        <3>2. QED
            BY <1>1, <1>2, <1>3, <2>1, <2>2, <3>1
            DEF IInv, Futures, InOrder, Allowed, arguments
    <2>3. CASE t # s
        <3>1. future'[t] = future[t]
            BY <1>1, <1>2, <2>3
        <3>2. QED
            BY <1>1, <1>2, <2>1, <3>1
            DEF IInv, Futures, InOrder, Allowed, arguments
    <2>4. QED
        BY <2>2, <2>3
<1>7. Crew'
    <2>1. In("running")' = In("running") \cup {s} /\ s \notin In("running")
        BY <1>1, <1>2 DEF In
    <2>2. IsFiniteSet(In("running")) /\ Cardinality(In("running")) \in Nat
        BY RunningFinite
    <2>3. Cardinality(In("running")') = Cardinality(In("running")) + 1
        BY ONLY <2>1, <2>2, FS_AddElement
    <2>4. jobs \in Nat /\ Len(block) \in Nat
        OBVIOUS
    <2>5. Workers <= jobs /\ Workers \in Nat
        BY ONLY <2>4 DEF Workers
    <2>6. jobs' = jobs /\ Cardinality(In("running")) < Workers
        BY <1>1 DEF arguments
    <2>7. QED
        BY ONLY <2>2, <2>3, <2>4, <2>5, <2>6 DEF Crew
<1>8. QED
    BY <1>4, <1>5, <1>6, <1>7 DEF IInv, Futures

LEMMA CompleteStep == ASSUME NEW s \in Sources PROVE IInv /\ Complete(s) => IInv'
<1> SUFFICES ASSUME IInv, Complete(s) PROVE IInv'
    OBVIOUS
<1> USE BlockOf, Jobs
<1>1. /\ future[s] = "running"
      /\ future' = [future EXCEPT ![s] = IF bad[s] THEN "failed" ELSE "ok"]
      /\ UNCHANGED <<arguments, pc, next, block, turn, inline, results, raised>>
    BY DEF Complete
<1>2. base' = base /\ future \in [Sources -> FutureStates]
    BY <1>1 DEF IInv, Typed, base
<1>3. /\ base < s /\ s < next
      /\ pc \in {"submit", "resolve", "cancel", "shutdown"}
    BY <1>1, Engaged
<1>4. Typed'
    BY <1>1, <1>2 DEF IInv, Typed, FutureStates, arguments
<1>5. Blocked' /\ Inlined' /\ Outcomes'
    BY <1>1, <1>2
    DEF IInv, Blocked, Inlined, Outcomes, Settled, Pooled, Serial, arguments
<1>6. ASSUME NEW t \in Sources
      PROVE  InOrder(t)'
    <2>1. Passed(t)' <=> Passed(t)
        BY <1>1, <1>2 DEF Passed
    <2>2. CASE t = s
        <3>1. future'[t] = IF bad[t] THEN "failed" ELSE "ok"
            BY <1>1, <1>2, <2>2
        <3>2. future[t] \in Allowed(t)
            BY <1>3, <2>2 DEF IInv, Futures, InOrder
        <3>3. future'[t] \in Allowed(t)'
            BY <1>1, <1>3, <2>1, <2>2, <3>1, <3>2 DEF Allowed
        <3>4. QED
            BY <1>1, <1>2, <1>3, <2>2, <3>1, <3>3 DEF InOrder, arguments
    <2>3. CASE t # s
        <3>1. future'[t] = future[t]
            BY <1>1, <1>2, <2>3
        <3>2. QED
            BY <1>1, <1>2, <2>1, <3>1
            DEF IInv, Futures, InOrder, Allowed, arguments
    <2>4. QED
        BY <2>2, <2>3
<1>7. In("running")' \subseteq In("running")
    BY <1>1, <1>2 DEF In
<1>8. Crew'
    BY <1>1, <1>7, FewerRunning DEF IInv, arguments
<1>9. QED
    BY <1>4, <1>5, <1>6, <1>8 DEF IInv, Futures

LEMMA StepInv == IInv /\ [Next]_vars => IInv'
<1> SUFFICES ASSUME IInv, [Next]_vars PROVE IInv'
    OBVIOUS
<1>1. CASE Caller
    BY <1>1, GatherStep, FlushStep, CallInlineStep, ReturnInlineStep,
       FinishStep, SubmitStep, ResolveStep, CancelStep, ShutdownStep DEF Caller
<1>2. CASE \E s \in Sources : Take(s) \/ Complete(s)
    BY <1>2, TakeStep, CompleteStep
<1>3. CASE UNCHANGED vars
    BY <1>3 DEF vars, arguments, IInv, Typed, Blocked, Inlined, Outcomes, Crew,
                Futures, InOrder, Allowed, Passed, Settled, base, Pooled,
                Serial, In
<1>4. QED
    BY <1>1, <1>2, <1>3 DEF Next, Done

-----------------------------------------------------------------------------
(* The results *)

LEMMA Invariance == Spec => []IInv
BY InitInv, StepInv, PTL DEF Spec

(* The call returns all observations in the order of the configuration, or *)
(* raises the exception of the first source that fails, whatever the       *)
(* threads do.                                                             *)
THEOREM SerialOutcome == Spec => []SameAsSerial
<1>1. ASSUME IInv PROVE SameAsSerial
    <2> USE BlockOf
    <2>1. CASE pc = "returned"
        <3>1. block = << >> /\ Len(block) = 0 /\ next = N + 1
            BY <1>1, <2>1 DEF IInv, Blocked, Outcomes
        <3>2. Settled = N
            BY <1>1, <2>1, <3>1 DEF Settled
        <3>3. Len(results) = N /\ \A s \in 1..N : ~bad[s] /\ results[s] = s
            BY <1>1, <2>1, <3>2 DEF IInv, Outcomes
        <3>4. results \in Seq(Sources)
            BY <1>1 DEF IInv, Typed
        <3>5. results = [s \in Sources |-> s]
            BY <1>1, <3>3, <3>4
        <3>6. Failing = {}
            BY <1>1, <3>3 DEF Failing
        <3>7. QED
            BY <2>1, <3>5, <3>6 DEF SameAsSerial
    <2>2. CASE pc = "raised"
        <3>1. raised \in 1..N /\ bad[raised] /\ \A s \in 1..(raised - 1) : ~bad[s]
            BY <1>1, <2>2 DEF IInv, Typed, Outcomes
        <3>2. raised \in Failing /\ \A s \in Failing : raised <= s
            BY <1>1, <3>1 DEF Failing
        <3>3. QED
            BY <2>2, <3>2 DEF SameAsSerial
    <2>3. QED
        BY <2>1, <2>2 DEF SameAsSerial
<1>2. QED
    BY <1>1, Invariance, PTL

(* A parser that is not thread-safe is alone, and at most as many run as   *)
(* jobs were asked for.                                                    *)
THEOREM UnsafeAlone == Spec => []NoUnsafeOverlap
<1>1. ASSUME IInv PROVE NoUnsafeOverlap
    <2> DEFINE active == In("running") \cup ({inline} \ {0})
    <2> USE BlockOf, Jobs
    <2>1. CASE pc = "inline"
        <3>1. In("running") = {}
            BY <1>1, <2>1, Engaged DEF In
        <3>2. active = {inline}
            BY <1>1, <2>1, <3>1 DEF IInv, Inlined
        <3>3. Cardinality(active) <= jobs
            BY <1>1, <3>2, FS_Singleton
        <3>4. QED
            BY <3>2, <3>3 DEF NoUnsafeOverlap
    <2>2. CASE pc # "inline"
        <3>1. active = In("running")
            BY <1>1, <2>2 DEF IInv, Inlined
        <3>2. \A s \in active : safe[s]
            BY <1>1, <3>1, Engaged DEF In, Pooled
        <3>3. Cardinality(active) <= jobs
            BY <1>1, <3>1 DEF IInv, Crew
        <3>4. QED
            BY <3>2, <3>3 DEF NoUnsafeOverlap
    <2>3. QED
        BY <2>1, <2>2
<1>2. QED
    BY <1>1, Invariance, PTL

(* When the call is over, no worker parses or will parse. *)
THEOREM NoneLeftBehind == Spec => []NothingLeftBehind
<1>1. ASSUME IInv PROVE NothingLeftBehind
    BY <1>1, Engaged DEF NothingLeftBehind, In
<1>2. QED
    BY <1>1, Invariance, PTL

=============================================================================
