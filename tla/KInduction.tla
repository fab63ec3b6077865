------------------------------ MODULE KInduction ------------------------------
(***************************************************************************)
(* Source-bound verification of synchronous designs: run_request of         *)
(* sequential.py verifies the properties of a request one after the other,  *)
(* verify_property of sequential_smt.py by bounded model checking and       *)
(* k-induction, and only "proven" for every property is exit status 0.      *)
(*                                                                         *)
(* A solver context is the set of frame sequences that satisfy it, and a    *)
(* query asks whether one of them has a property; the solver may also give  *)
(* up.  A frame is a register valuation and an input valuation: the wires   *)
(* are functions of it.  Once the request is proven, the design itself runs *)
(* on, to be compared with what was promised.                               *)
(***************************************************************************)
EXTENDS Integers, Sequences, SequencesExt, FiniteSetsExt

CONSTANTS
    States,       \* valuations of the registers
    Inputs,       \* valuations of the primary inputs that meet the assumptions
    Active,       \* those with the reset active; {} when there is no reset
    ResetCycles,  \* spec["reset"]["cycles"], 0 when there is no reset
    Circuits,     \* the designs: the next register valuation of each frame
    Signals,
    Observe,      \* the value of each signal in a frame
    Requests,     \* the sequences of properties to verify
    Depth,        \* spec["depth"]
    Induction,    \* spec["induction"]
    MaxCycles,    \* bound: cycles the design runs for
    None

Frames == [state : States, input : Inputs]
Guards == [signal : Signals, equals : Int, lag : Nat]

ASSUME DesignAssumption ==
    /\ States # {} /\ Active \subseteq Inputs
    /\ Inputs \ Active # {}
    /\ ResetCycles \in Nat /\ (ResetCycles > 0 <=> Active # {})
    /\ Circuits \subseteq [Frames -> States]
    /\ Observe \in [Signals -> [Frames -> Int]]
ASSUME NoneAssumption == None \notin Signals /\ None \notin 0..2
ASSUME BoundsAssumption == Depth \in Nat \ {0} /\ Induction \in Nat /\ MaxCycles \in Nat

VARIABLES
    pc,       \* where run_request is
    circuit,  \* the lowered design
    request,  \* the properties
    results,  \* their results so far
    base,     \* the solver context of the unrolling from the initial states
    through,  \* checked_through of the result under way
    cover,    \* cover_cycle: the first cycle where the guard can be met
    step,     \* the solver context of the induction step
    width,    \* how many frames it has
    k,        \* the induction depth it has hypotheses for
    exit,     \* the exit status
    run       \* the frames of the design when it runs

search == <<base, through, cover, step, width, k>>
vars == <<pc, circuit, request, results, search, exit, run>>

-----------------------------------------------------------------------------
(* The meaning of a property: guards with lags, and a signal that equals a  *)
(* constant or what another signal was latency cycles ago.  Cycles count    *)
(* from 0.                                                                  *)

At(frames, t, signal) == Observe[signal][frames[t + 1]]

Enabled(p, frames, t) == \A g \in p.when : At(frames, t - g.lag, g.signal) = g.equals

Expected(p, frames, t) ==
    IF p.source # None THEN At(frames, t - p.latency, p.source) ELSE p.equals

Holds(p, frames, t) == Enabled(p, frames, t) => At(frames, t, p.sink) = Expected(p, frames, t)

History(p) == Max({g.lag : g \in p.when} \cup {p.latency})

Properties ==
    [when : SUBSET Guards, sink : Signals, source : Signals \cup {None}, equals : Int,
     latency : Nat, start : Nat]

ASSUME RequestsAssumption ==
    \A r \in Requests :
        /\ r \in Seq(Properties) /\ r # <<>>
        /\ \A i \in DOMAIN r : /\ IsFiniteSet(r[i].when)
                              /\ History(r[i]) <= r[i].start /\ r[i].start <= Depth

-----------------------------------------------------------------------------
(* The unrolling.                                                           *)

\* Mutant: the reset is left to the solver.
AnyInputs(resetting) == Inputs

InputsWhen(resetting) == {i \in Inputs : Active # {} => ((i \in Active) <=> resetting)}

\* The frames that may come after these: the first one has any registers.
Successors(frames, resetting) ==
    [state : IF frames = <<>> THEN States ELSE {circuit[Last(frames)]},
     input : InputsWhen(resetting)]

\* Mutant: one cycle of reset too many.
LongReset(t) == t <= ResetCycles

ResetAt(t) == t < ResetCycles

Extended(context, resetting) ==
    UNION {{Append(f, g) : g \in Successors(f, resetting)} : f \in context}

-----------------------------------------------------------------------------
Init ==
    /\ pc = "next property"
    /\ circuit \in Circuits
    /\ request \in Requests
    /\ results = <<>>
    /\ base = {<<>>} /\ through = -1 /\ cover = None
    /\ step = {<<>>} /\ width = 0 /\ k = 0
    /\ exit = None
    /\ run = <<>>

Property == request[Len(results) + 1]

Begin ==
    /\ pc = "next property" /\ Len(results) < Len(request)
    /\ pc' = "base"
    /\ UNCHANGED <<circuit, request, results, search, exit, run>>

Clear ==
    /\ base' = {<<>>} /\ through' = -1 /\ cover' = None
    /\ step' = {<<>>} /\ width' = 0 /\ k' = 0

\* verify_property returns, and its solvers go out of scope.
Conclude(status, last, trace) ==
    /\ pc' = "next property"
    /\ results' = Append(results, [status |-> status, through |-> last, trace |-> trace])
    /\ Clear
    /\ UNCHANGED <<circuit, request, exit, run>>

\* One more cycle from the initial states.  A frame can always be added, so the
\* context itself is satisfiable, which the code asks first.
Unroll ==
    /\ pc = "base" /\ through < Depth
    /\ base' = Extended(base, ResetAt(through + 1))
    /\ through' = through + 1
    /\ pc' = IF through' >= Property.start THEN "ask" ELSE "base"
    /\ UNCHANGED <<circuit, request, results, cover, step, width, k, exit, run>>

\* Can the guard be met in this cycle, and can the property fail?
AskCycle ==
    /\ pc = "ask"
    /\ LET failing == {f \in base : ~Holds(Property, f, through)} IN
       \/ \E f \in failing : Conclude("counterexample", through, f)
       \/ /\ failing = {}
          /\ cover' = IF cover = None /\ \E f \in base : Enabled(Property, f, through)
                      THEN through ELSE cover
          /\ pc' = "base"
          /\ UNCHANGED <<circuit, request, results, base, through, step, width, k, exit, run>>

\* No induction for a guard that was never met.
Uncovered ==
    /\ pc = "base" /\ through = Depth /\ cover = None
    /\ Conclude("uncovered", through, <<>>)

\* The window of the step starts anywhere, with the reset inactive.
FillWindow ==
    /\ pc = "base" /\ through = Depth /\ cover # None
    /\ step' = Extended(step, FALSE)
    /\ width' = width + 1
    /\ pc' = IF width = History(Property) THEN "step" ELSE "base"
    /\ UNCHANGED <<circuit, request, results, base, through, cover, k, exit, run>>

\* The first cycle whose window is past the reset, and past the start.
Prefix == Max({Property.start, ResetCycles + History(Property)})

Tryable == k < Induction /\ Prefix + k + 1 <= Depth

\* One more hypothesis and one more frame.
Assume ==
    /\ pc = "step" /\ Tryable
    /\ k' = k + 1
    /\ width' = width + 1
    /\ step' = Extended({f \in step : Holds(Property, f, width - 1)}, FALSE)
    /\ pc' = "prove"
    /\ UNCHANGED <<circuit, request, results, base, through, cover, exit, run>>

\* Must the property hold in the last frame as well?
Prove ==
    /\ pc = "prove"
    /\ IF \A f \in step : Holds(Property, f, width - 1)
       THEN Conclude("proven", through, <<>>)
       ELSE pc' = "step" /\ UNCHANGED <<circuit, request, results, search, exit, run>>

Bounded ==
    /\ pc = "step" /\ ~Tryable
    /\ Conclude("bounded", through, <<>>)

\* A query may be answered unknown, and the deadline or the query bound may be
\* exhausted, at any of them; the cycles before this one stay checked.
Inconclusive ==
    /\ pc \in {"base", "ask", "step", "prove"}
    /\ Conclude("inconclusive", IF pc = "ask" THEN through - 1 ELSE through, <<>>)

\* Any other exception, or the deadline between two properties: the rest of
\* the request is inconclusive.
BackendFails ==
    /\ Len(results) < Len(request) /\ pc # "done"
    /\ pc' = "next property"
    /\ results' = results \o [i \in 1..Len(request) - Len(results) |->
                                [status |-> "inconclusive", through |-> -1, trace |-> <<>>]]
    /\ Clear
    /\ UNCHANGED <<circuit, request, exit, run>>

Statuses == {results[i].status : i \in DOMAIN results}

\* Mutant: an undecided property does not count.
FailedOnly == IF "counterexample" \in Statuses THEN 1 ELSE 0

ExitCode ==
    IF Statuses \ {"proven", "counterexample"} # {} THEN 2
    ELSE IF "counterexample" \in Statuses THEN 1 ELSE 0

Finish ==
    /\ pc = "next property" /\ Len(results) = Len(request)
    /\ pc' = "done"
    /\ exit' = ExitCode
    /\ UNCHANGED <<circuit, request, results, search, run>>

\* The design itself, in operation under the reset protocol and assumptions.
\* A design that is known to fail is not followed.
Operate ==
    /\ pc = "done" /\ exit # 1
    /\ Len(run) < MaxCycles
    /\ \E f \in Successors(run, Len(run) < ResetCycles) : run' = Append(run, f)
    /\ UNCHANGED <<pc, circuit, request, results, search, exit>>

Next ==
    \/ Begin \/ Unroll \/ AskCycle \/ Uncovered
    \/ FillWindow \/ Assume \/ Prove \/ Bounded
    \/ Inconclusive \/ BackendFails \/ Finish
    \/ Operate

Spec == Init /\ [][Next]_vars

-----------------------------------------------------------------------------
(* Properties.                                                              *)

HoldsFor(p, from, to) == \A t \in from..to : Holds(p, run, t)

\* "Never prove by contradiction": the hypotheses of the induction step can be
\* met, although the code asks the solver this only of the unrolling.
NeverVacuous == base # {} /\ step # {}

\* Exit status 0 means that every property of the request holds in every cycle
\* from its start on, however long the design runs and whatever its registers
\* hold at power-up: what was proven with a bound is true without one.
Soundness ==
    /\ exit = 0 => \A i \in DOMAIN request : HoldsFor(request[i], request[i].start, Len(run) - 1)
    /\ NeverVacuous

\* checked_through of a result that is no counterexample is kept by the design.
CheckedThrough ==
    pc = "done" => \A i \in DOMAIN results : results[i].status # "counterexample" =>
        HoldsFor(request[i], request[i].start, Min({results[i].through, Len(run) - 1}))

\* What replay_trace accepts, frame by frame and with no solver.
Replays(p, frames) ==
    /\ Len(frames) > p.start
    /\ \A j \in DOMAIN frames :
        /\ frames[j].input \in Inputs
        /\ Active # {} => ((frames[j].input \in Active) <=> (j <= ResetCycles))
        /\ j > 1 => frames[j].state = circuit[frames[j - 1]]
    /\ \A t \in p.start..Len(frames) - 2 : Holds(p, frames, t)
    /\ ~Holds(p, frames, Len(frames) - 1)

\* A counterexample is a real run that fails for the first time in its last
\* frame: "counterexample failed independent integer replay" cannot be raised.
CounterexamplesReplay ==
    \A i \in DOMAIN results : results[i].status = "counterexample" =>
        /\ Replays(request[i], results[i].trace)
        /\ results[i].through = Len(results[i].trace) - 1

=============================================================================
