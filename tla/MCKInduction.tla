---------------------------- MODULE MCKInduction ----------------------------
(* Small designs for KInduction: three states, one data input, one reset.   *)
EXTENDS KInduction

SmallStates == 0..2
SmallInputs == [data : 0..1, reset : 0..1]
Resetting == {i \in SmallInputs : i.reset = 1}

\* The reset clears the registers; the data input matters in state 0.
SmallCircuits ==
    {[f \in Frames |->
        IF f.input.reset = 1 THEN 0
        ELSE IF f.state = 0 THEN zero[f.input.data] ELSE other[f.state]] :
     zero \in [0..1 -> SmallStates], other \in {<<0, 0>>, <<2, 1>>, <<2, 2>>}}

SmallObserve ==
    [s \in {"state", "data"} |->
        [f \in Frames |-> IF s = "state" THEN f.state ELSE f.input.data]]

Guarded(signal, value, lag) == [signal |-> signal, equals |-> value, lag |-> lag]
Constant(when, value, start) ==
    [when |-> when, sink |-> "state", latency |-> 0, source |-> None, equals |-> value,
     start |-> start]

NeverTwo == Constant({Guarded("state", 2, 0)}, 0, 1)
StaysZero == Constant({}, 0, 1)
TwoThenZero == Constant({Guarded("state", 2, 1)}, 0, 1)
OneThenTwo == Constant({Guarded("state", 1, 1)}, 2, 2)
OneThenTwoLate == Constant({Guarded("state", 1, 1)}, 2, 3)
TwoLate == Constant({}, 2, 3)
DataMovesOn == Constant({Guarded("data", 1, 1), Guarded("state", 0, 1)}, 1, 2)
Follows ==
    [when |-> {Guarded("data", 0, 0)}, sink |-> "state", latency |-> 1, source |-> "data",
     equals |-> 0, start |-> 2]

SmallRequests ==
    {<<p>> : p \in {NeverTwo, StaysZero, TwoThenZero, OneThenTwoLate, TwoLate, DataMovesOn, Follows}}
        \cup {<<OneThenTwo, NeverTwo>>}
=============================================================================
