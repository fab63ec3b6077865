------------------------------- MODULE RupCheck -------------------------------
(***************************************************************************)
(* What checking a RUP refutation means: a clause may join the formula      *)
(* when unit propagation under its negation is contradictory, and the proof *)
(* is accepted once the empty clause has joined.  Clauses are sets of       *)
(* literals; propagation is a property of sets, with no algorithm.          *)
(***************************************************************************)
EXTENDS Integers

CONSTANT Variables

Lits == {l \in -Variables..Variables : l # 0}

VARIABLES
    status,   \* input, proof, accepted, invalid or failed
    formula,  \* the clauses held
    claim     \* the line under test, as a set of at most one clause

absVars == <<status, formula, claim>>

\* T holds every literal that a clause of F forces when the rest is false.
ClosedUnder(F, T) ==
    \A c \in F : \A l \in c : (\A m \in c \ {l} : -m \in T) => l \in T

\* Propagating the negation of c contradicts itself: so does every closed set
\* of literals that contains that negation.
Refutes(F, c) ==
    \/ {} \in F
    \/ \A T \in SUBSET Lits :
        ClosedUnder(F, T) /\ (\A l \in c : -l \in T) => \E l \in T : -l \in T

Init == status = "input" /\ formula = {} /\ claim = {}

Load ==
    /\ status = "input"
    /\ \E c \in SUBSET Lits : formula' = formula \cup {c}
    /\ UNCHANGED <<status, claim>>

BeginProof ==
    /\ status = "input"
    /\ status' = "proof"
    /\ UNCHANGED <<formula, claim>>

Claim ==
    /\ status = "proof"
    /\ claim = {}
    /\ \E c \in SUBSET Lits : claim' = {c}
    /\ UNCHANGED <<status, formula>>

\* The claim is proved; the clause joins the formula with it or after it.
Prove ==
    /\ status = "proof"
    /\ \E c \in claim : Refutes(formula, c)
    /\ claim' = {}
    /\ UNCHANGED <<status, formula>>

Learn ==
    /\ status = "proof"
    /\ \E c \in SUBSET Lits : Refutes(formula, c) /\ formula' = formula \cup {c}
    /\ UNCHANGED <<status, claim>>

\* A line that does not follow ends the check.
Deny ==
    /\ status = "proof"
    /\ \A c \in claim : ~Refutes(formula, c)
    /\ status' = "invalid"
    /\ UNCHANGED <<formula, claim>>

\* Malformed evidence, a bound or the budget.
Fail ==
    /\ status \in {"input", "proof"}
    /\ status' = "failed"
    /\ claim' = {}
    /\ UNCHANGED formula

Accept ==
    /\ status = "proof"
    /\ {} \in formula
    /\ status' = "accepted"
    /\ UNCHANGED <<formula, claim>>

Next == Load \/ BeginProof \/ Claim \/ Prove \/ Learn \/ Deny \/ Fail \/ Accept

Spec == Init /\ [][Next]_absVars
=============================================================================
