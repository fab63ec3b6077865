---------------------------- MODULE ParallelParse ----------------------------
(***************************************************************************)
(* ordered_parallel_map of execution.py, as _load_observations of cli.py    *)
(* uses it: configured sources are parsed by a pool of threads, consecutive *)
(* thread-safe ones in one block, each unsafe one alone in the calling      *)
(* thread.  A source is its position in the configuration.                  *)
(***************************************************************************)
EXTENDS Integers, Sequences, SequencesExt

CONSTANTS
    N,        \* how many sources are configured
    MaxJobs   \* the largest worker count asked for (64 in the code)

ASSUME SourcesAssumption == N \in Nat
ASSUME JobsAssumption == MaxJobs \in Nat \ {0}

Sources == 1..N

VARIABLES
    jobs,     \* argument: the worker count
    safe,     \* argument: which sources have a thread-safe parser
    bad,      \* which sources the parser raises on
    pc,       \* where the calling thread is
    next,     \* the source the scan is at
    block,    \* the safe sources waiting to be submitted together
    future,   \* the state of each source's future
    turn,     \* how far the calling thread is in submitting or resolving
    inline,   \* the source the calling thread is parsing itself, 0 if none
    results,  \* the sources whose observations were collected, in order
    raised    \* the source whose exception surfaced, 0 if none

arguments == <<jobs, safe, bad>>
vars == <<arguments, pc, next, block, future, turn, inline, results, raised>>

Init ==
    /\ jobs \in 1..MaxJobs
    /\ safe \in [Sources -> BOOLEAN]
    /\ bad \in [Sources -> BOOLEAN]
    /\ pc = "scan"
    /\ next = 1
    /\ block = <<>>
    /\ future = [s \in Sources |-> "none"]
    /\ turn = 0
    /\ inline = 0
    /\ results = <<>>
    /\ raised = 0

In(state) == {s \in Sources : future[s] = state}

\* One worker or fewer than two sources: everything runs in the caller.
Serial == jobs = 1 \/ N < 2

\* Mutant: every source goes to the pool.
PooledRegardless(s) == ~Serial

Pooled(s) == ~Serial /\ safe[s]

-----------------------------------------------------------------------------
(* The calling thread.                                                      *)

\* To the next loop over the block.
Goto(label) == pc' = label /\ turn' = 0

Gather ==
    /\ pc = "scan" /\ next \in Sources
    /\ Pooled(next)
    /\ block' = Append(block, next)
    /\ next' = next + 1
    /\ UNCHANGED <<arguments, pc, future, turn, inline, results, raised>>

\* A barrier or the end of the sources: flush what was gathered.
Flush ==
    /\ pc = "scan" /\ block # <<>>
    /\ next \in Sources => ~Pooled(next)
    /\ Goto("submit")
    /\ UNCHANGED <<arguments, next, block, future, inline, results, raised>>

CallInline ==
    /\ pc = "scan" /\ next \in Sources
    /\ ~Pooled(next) /\ block = <<>>
    /\ pc' = "inline"
    /\ inline' = next
    /\ next' = next + 1
    /\ UNCHANGED <<arguments, block, future, turn, results, raised>>

ReturnInline ==
    /\ pc = "inline"
    /\ inline' = 0
    /\ IF bad[inline]
       THEN pc' = "raised" /\ raised' = inline /\ UNCHANGED results
       ELSE pc' = "scan" /\ results' = Append(results, inline) /\ UNCHANGED raised
    /\ UNCHANGED <<arguments, next, block, future, turn>>

Finish ==
    /\ pc = "scan" /\ next \notin Sources /\ block = <<>>
    /\ pc' = "returned"
    /\ UNCHANGED <<arguments, next, block, future, turn, inline, results, raised>>

\* executor.submit, source by source: a worker may start the first one before
\* the last one is submitted.
Submit ==
    /\ pc = "submit"
    /\ IF turn < Len(block)
       THEN /\ future' = [future EXCEPT ![block[turn + 1]] = "pending"]
            /\ turn' = turn + 1
            /\ UNCHANGED pc
       ELSE Goto("resolve") /\ UNCHANGED future
    /\ UNCHANGED <<arguments, next, block, inline, results, raised>>

\* Mutant: a failure is raised as soon as it is known.
FirstToFail == IF In("failed") # {} THEN CHOOSE s \in In("failed") : TRUE ELSE block[turn + 1]

Awaited == block[turn + 1]

\* future.result() waits, in configuration order.
Resolve ==
    /\ pc = "resolve"
    /\ IF turn < Len(block)
       THEN \/ /\ future[Awaited] = "ok"
               /\ turn' = turn + 1
               /\ UNCHANGED <<pc, raised>>
            \/ /\ future[Awaited] = "failed"
               /\ raised' = Awaited
               /\ Goto("cancel")
       ELSE Goto("cancel") /\ UNCHANGED raised
    /\ UNCHANGED <<arguments, next, block, future, inline, results>>

\* The finally block: a future that no worker has taken is cancelled.
Cancel ==
    /\ pc = "cancel"
    /\ IF turn < Len(block)
       THEN /\ future' = [future EXCEPT ![block[turn + 1]] =
                            IF @ = "pending" THEN "cancelled" ELSE @]
            /\ turn' = turn + 1
            /\ UNCHANGED pc
       ELSE Goto("shutdown") /\ UNCHANGED future
    /\ UNCHANGED <<arguments, next, block, inline, results, raised>>

\* Mutant: shutdown(wait=False).
NoWait == TRUE

Drained == In("running") = {}

\* shutdown(wait=True), then the list of results or the exception goes up.
Shutdown ==
    /\ pc = "shutdown"
    /\ Drained
    /\ IF raised # 0
       THEN pc' = "raised" /\ UNCHANGED <<block, results>>
       ELSE pc' = "scan" /\ results' = results \o block /\ block' = <<>>
    /\ UNCHANGED <<arguments, next, future, turn, inline, raised>>

Caller ==
    \/ Gather \/ Flush \/ CallInline \/ ReturnInline \/ Finish
    \/ Submit \/ Resolve \/ Cancel \/ Shutdown

-----------------------------------------------------------------------------
(* The pool: a free worker takes the oldest pending future.                 *)

\* Mutant: one worker too few for a short block.
OneWorkerShort == IF jobs < Len(block) THEN jobs ELSE Len(block) - 1

Workers == IF jobs < Len(block) THEN jobs ELSE Len(block)

Take(s) ==
    /\ future[s] = "pending"
    /\ Cardinality(In("running")) < Workers
    /\ \A t \in In("pending") : s <= t
    /\ future' = [future EXCEPT ![s] = "running"]
    /\ UNCHANGED <<arguments, pc, next, block, turn, inline, results, raised>>

Complete(s) ==
    /\ future[s] = "running"
    /\ future' = [future EXCEPT ![s] = IF bad[s] THEN "failed" ELSE "ok"]
    /\ UNCHANGED <<arguments, pc, next, block, turn, inline, results, raised>>

Done ==
    /\ pc \in {"returned", "raised"}
    /\ UNCHANGED vars

Next ==
    \/ Caller
    \/ \E s \in Sources : Take(s) \/ Complete(s)
    \/ Done

\* Threads are scheduled and parsers return: nothing else is assumed.
Fairness ==
    /\ WF_vars(Caller)
    /\ \A s \in Sources : WF_vars(Take(s)) /\ WF_vars(Complete(s))

Spec == Init /\ [][Next]_vars /\ Fairness

-----------------------------------------------------------------------------
(* Properties.                                                              *)

Failing == {s \in Sources : bad[s]}

\* The outcome is the one a serial loop would have, on every schedule: all
\* observations in configuration order, or the exception of the first source
\* that fails ("result order and first-failure order follow configuration order").
SameAsSerial ==
    /\ pc = "returned" => Failing = {} /\ results = [s \in Sources |-> s]
    /\ pc = "raised" => raised \in Failing /\ \A s \in Failing : raised <= s

\* A parser that is not thread-safe never runs beside another one, and the
\* pool never runs more parsers than jobs asked for.
NoUnsafeOverlap ==
    LET active == In("running") \cup ({inline} \ {0}) IN
    /\ \A s \in active : ~safe[s] => active = {s}
    /\ Cardinality(active) <= jobs

\* Once the call is over, whichever way, no worker still parses or will.
NothingLeftBehind ==
    pc \in {"returned", "raised"} => In("pending") \cup In("running") = {}

\* The call returns or raises: no worker waits for the caller that waits for it.
CallEnds == <>(pc \in {"returned", "raised"})
=============================================================================
