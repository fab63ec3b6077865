-------------------------- MODULE MCObservationCache --------------------------
(* Two threads of one process, or one thread in each of two processes, over  *)
(* sources that share a file.                                                *)
EXTENDS ObservationCache

CONSTANTS c1, c2

SharedFiles == [lib |-> {"a"}, rtl |-> {"a", "b"}, plugin |-> {"b"}]
UnevenSizes == [lib |-> 1, rtl |-> 2, plugin |-> 1]
LateBacktick == {<<"b", MaxVersion>>}

Calls(n) == [c \in {c1, c2} |-> IF c = c1 THEN n ELSE 1]

SmallDeployments ==
    {[processes |-> {{c1, c2}}, calls |-> Calls(2)],
     [processes |-> {{c1}, {c2}}, calls |-> Calls(2)]}
=============================================================================
