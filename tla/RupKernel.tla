------------------------------ MODULE RupKernel ------------------------------
(***************************************************************************)
(* The solver-free proof kernel, proof_kernel.py: verify_rup reads the     *)
(* clauses of a regenerated obligation and then the lines of an untrusted  *)
(* certificate, and lets a line into its database only when unit           *)
(* propagation under the line's negation runs into a contradiction.        *)
(*                                                                         *)
(* One action is one iteration of one of the kernel's loops.  The watched  *)
(* literals are modelled position by position, because what they are after *)
(* one check is what the next check starts from.                           *)
(*                                                                         *)
(* A clause is a sequence of non-zero integers, as in the code.  The       *)
(* work counter and the clock of Meter are abstracted to Exhaust: either   *)
(* may run out at any place where the code spends.                         *)
(***************************************************************************)
EXTENDS Integers, Sequences, SequencesExt

CONSTANTS
    Variables,    \* the number of propositional variables of the obligation
    InputCnfs,    \* the obligations to check: sequences of raw clauses
    ProofLines,   \* the raw clauses a certificate may contain
    MaxClauses,   \* Limits.clauses
    MaxLiterals,  \* Limits.literals
    MaxSteps      \* Limits.steps

ASSUME VariablesAssumption == Variables \in Nat \ {0}
ASSUME EvidenceAssumption ==
    /\ InputCnfs \subseteq Seq(Seq(Int))
    /\ ProofLines \subseteq Seq(Int)
ASSUME LimitsAssumption ==
    /\ MaxClauses \in Nat \ {0}
    /\ MaxLiterals \in Nat \ {0}
    /\ MaxSteps \in Nat \ {0}

Literal == {l \in -Variables..Variables : l # 0}

VARIABLES
    pc,          \* where verify_rup, _clause or conflicts is
    why,         \* the reason of the ProofError, once rejected
    cnf,         \* argument: the raw clauses of the obligation
    proofLength, \* argument: len(proof)
    phase,       \* which of the two loops of verify_rup is running
    line,        \* how many clauses that loop has read
    raw,         \* the clause being read, as given
    scanned,     \* how many literals of raw _clause has looked at
    clause,      \* the literals it has kept
    tautology,   \* whether it met a literal and its negation
    literals,    \* the running literal count of verify_rup
    clauses,     \* database: the normalised clauses
    positions,   \* database: the two watched positions of each clause
    watches,     \* database: for each literal, the clauses watching it
    units,       \* database: the literals of the unit clauses
    empty,       \* database: whether the empty clause was added
    trail,       \* conflicts: the assigned literals, in order
    cursor,      \* conflicts: how many of them are propagated
    index        \* conflicts: position in the list being walked

arguments   == <<cnf, proofLength>>
reading     == <<phase, line, raw, scanned, clause, tautology, literals>>
database    == <<clauses, positions, watches, units, empty>>
propagation == <<trail, cursor, index>>
vars == <<pc, why, arguments, reading, database, propagation>>

Reasons == {"none", "shape", "literal", "bound", "not rup", "trailing",
            "no empty clause", "exhausted"}

-----------------------------------------------------------------------------
(* What the clauses mean.  An assignment is the set of literals it makes    *)
(* true: one of each pair.                                                  *)

Assignments ==
    {T \in SUBSET Literal : \A l \in Literal : (l \in T) <=> (-l \notin T)}

Satisfies(T, c) == \E i \in DOMAIN c : c[i] \in T

SatisfiesAll(T, cs) == \A i \in DOMAIN cs : Satisfies(T, cs[i])

-----------------------------------------------------------------------------
Init ==
    /\ pc = "start"
    /\ why = "none"
    /\ cnf \in InputCnfs
    /\ proofLength \in 0..MaxSteps + 1
    /\ phase = "input"
    /\ line = 0
    /\ raw = <<>>
    /\ scanned = 0
    /\ clause = <<>>
    /\ tautology = FALSE
    /\ literals = 0
    /\ clauses = <<>>
    /\ positions = <<>>
    /\ watches = [l \in Literal |-> <<>>]
    /\ units = <<>>
    /\ empty = FALSE
    /\ trail = <<>>
    /\ cursor = 0
    /\ index = 0

Reject(reason) ==
    /\ pc' = "rejected"
    /\ why' = reason

\* The argument checks at the head of verify_rup.
Start ==
    /\ pc = "start"
    /\ IF Len(cnf) <= MaxClauses /\ proofLength \in 1..MaxSteps
       THEN pc' = "next" /\ UNCHANGED why
       ELSE Reject("shape")
    /\ UNCHANGED <<arguments, reading, database, propagation>>

\* The head of _clause: the whole clause is measured before it is read.
BeginClause(c) ==
    /\ raw' = c
    /\ scanned' = 0
    /\ clause' = <<>>
    /\ tautology' = FALSE
    /\ line' = line + 1
    /\ IF Len(c) <= MaxLiterals
       THEN pc' = "scan" /\ UNCHANGED why
       ELSE Reject("bound")

ReadInput ==
    /\ pc = "next"
    /\ phase = "input"
    /\ line < Len(cnf)
    /\ BeginClause(cnf[line + 1])
    /\ UNCHANGED <<arguments, phase, literals, database, propagation>>

BeginProof ==
    /\ pc = "next"
    /\ phase = "input"
    /\ line = Len(cnf)
    /\ phase' = "proof"
    /\ line' = 0
    /\ UNCHANGED <<pc, why, arguments, raw, scanned, clause, tautology, literals,
                   database, propagation>>

ReadProof ==
    /\ pc = "next"
    /\ phase = "proof"
    /\ line < proofLength
    /\ \E c \in ProofLines : BeginClause(c)
    /\ UNCHANGED <<arguments, phase, literals, database, propagation>>

\* Mutant: the last line is not looked at.
FinishAnyhow ==
    /\ pc = "next" /\ phase = "proof" /\ line = proofLength
    /\ pc' = "accepted"
    /\ UNCHANGED <<why, arguments, reading, database, propagation>>

\* All lines are read: the last one must be the explicit empty clause.
Finish ==
    /\ pc = "next"
    /\ phase = "proof"
    /\ line = proofLength
    /\ IF raw = <<>>
       THEN pc' = "accepted" /\ UNCHANGED why
       ELSE Reject("no empty clause")
    /\ UNCHANGED <<arguments, reading, database, propagation>>

\* One iteration of the loop of _clause: duplicates are dropped, and a
\* literal whose negation was seen makes the clause a tautology.
ScanLiteral ==
    /\ pc = "scan"
    /\ scanned < Len(raw)
    /\ LET lit == raw[scanned + 1] IN
       IF lit \in Literal
       THEN /\ tautology' = (tautology \/ -lit \in ToSet(clause))
            /\ clause' = IF lit \in ToSet(clause) THEN clause
                                                  ELSE Append(clause, lit)
            /\ scanned' = scanned + 1
            /\ UNCHANGED <<pc, why>>
       ELSE /\ Reject("literal")
            /\ UNCHANGED <<tautology, clause, scanned>>
    /\ UNCHANGED <<arguments, phase, line, raw, literals, database, propagation>>

\* verify_rup after _clause returned: an input clause, a tautology, and
\* anything once the database holds the empty clause, need no propagation.
EndClause ==
    /\ pc = "scan"
    /\ scanned = Len(raw)
    /\ literals' = literals + Len(raw)
    /\ IF literals' > MaxLiterals
       THEN Reject("bound")
       ELSE /\ pc' = IF phase = "input" \/ tautology \/ empty THEN "add" ELSE "units"
            /\ UNCHANGED why
    /\ UNCHANGED <<arguments, phase, line, raw, scanned, clause, tautology,
                   database, propagation>>

-----------------------------------------------------------------------------
(* conflicts: unit propagation under the negation of clause.                *)

IsTrue(lit)  == lit \in ToSet(trail)

\* Mutant: any assigned literal counts as contradicted.
IsAssigned(lit) == {lit, -lit} \cap ToSet(trail) # {}
IsFalse(lit) == -lit \in ToSet(trail)

\* Mutant: the propagation cursor is kept for the next check.
ConflictKeepsCursor ==
    /\ pc' = "add" /\ trail' = <<>> /\ index' = 0
    /\ UNCHANGED cursor

\* The locals of conflicts go out of scope when it returns True.
Conflict ==
    /\ pc' = "add"
    /\ trail' = <<>>
    /\ cursor' = 0
    /\ index' = 0

\* put(lit), by the callers that walk a list of literals.
Put(lit) ==
    IF IsFalse(lit)
    THEN Conflict
    ELSE /\ trail' = IF IsTrue(lit) THEN trail ELSE Append(trail, lit)
         /\ index' = index + 1
         /\ UNCHANGED <<pc, cursor>>

PutUnit ==
    /\ pc = "units"
    /\ IF index < Len(units)
       THEN Put(units[index + 1])
       ELSE pc' = "negate" /\ index' = 0 /\ UNCHANGED <<trail, cursor>>
    /\ UNCHANGED <<why, arguments, reading, database>>

PutNegation ==
    /\ pc = "negate"
    /\ IF index < Len(clause)
       THEN Put(-clause[index + 1])
       ELSE pc' = "propagate" /\ index' = 0 /\ UNCHANGED <<trail, cursor>>
    /\ UNCHANGED <<why, arguments, reading, database>>

falseLit == -trail[cursor + 1]
watched  == watches[falseLit]
identity == watched[index + 1]

\* Which of the two watched positions of clause id holds the false literal.
Side(id) == IF clauses[id][positions[id][1]] = falseLit THEN 1 ELSE 2
Other(id) == clauses[id][positions[id][3 - Side(id)]]

\* Mutant: the watch may move to a literal that is false already.
AnyUnwatched(id) == {k \in DOMAIN clauses[id] : k \notin ToSet(positions[id])}

\* The positions the watch on the false literal could move to.
Replacements(id) ==
    {k \in DOMAIN clauses[id] :
        k \notin ToSet(positions[id]) /\ ~IsFalse(clauses[id][k])}

\* The code raises when the visited clause does not watch the false literal;
\* there is no action for it: WatchesAgree shows that it cannot happen, and
\* a state where it did would be a deadlock.
Visiting ==
    /\ pc = "propagate"
    /\ cursor < Len(trail)
    /\ index < Len(watched)
    /\ clauses[identity][positions[identity][Side(identity)]] = falseLit

SkipSatisfied ==
    /\ Visiting
    /\ IsTrue(Other(identity))
    /\ index' = index + 1
    /\ UNCHANGED <<pc, why, arguments, reading, database, trail, cursor>>

\* Mutant: the last entry is popped but not put in the hole.
PopLast(list, i) == SubSeq(list, 1, Len(list) - 1)

\* watched[index] = watched[-1]; watched.pop()
FillHole(list, i) ==
    [j \in 1..Len(list) - 1 |-> IF j = i THEN Last(list) ELSE list[j]]

\* The watch moves to the first literal that is not false, and the list being
\* walked fills the hole with its last entry.
MoveWatch ==
    /\ Visiting
    /\ ~IsTrue(Other(identity))
    /\ \E to \in Replacements(identity) :
        /\ \A k \in Replacements(identity) : to <= k
        /\ positions' = [positions EXCEPT ![identity][Side(identity)] = to]
        /\ watches' = [l \in Literal |->
                CASE l = falseLit -> FillHole(watches[l], index + 1)
                  [] l = clauses[identity][to] -> Append(watches[l], identity)
                  [] OTHER -> watches[l]]
    /\ UNCHANGED <<pc, why, arguments, reading, clauses, units, empty, propagation>>

\* No literal to move to: the other watched literal is forced, or false too.
ForceOther ==
    /\ Visiting
    /\ ~IsTrue(Other(identity))
    /\ Replacements(identity) = {}
    /\ Put(Other(identity))
    /\ UNCHANGED <<why, arguments, reading, database>>

\* Mutant: the list is walked again for the same literal.
SameFalseLiteral ==
    /\ pc = "propagate" /\ cursor < Len(trail) /\ index = Len(watched)
    /\ index' = 0
    /\ UNCHANGED <<pc, why, arguments, reading, database, trail, cursor>>

NextFalseLiteral ==
    /\ pc = "propagate"
    /\ cursor < Len(trail)
    /\ index = Len(watched)
    /\ cursor' = cursor + 1
    /\ index' = 0
    /\ UNCHANGED <<pc, why, arguments, reading, database, trail>>

\* conflicts returns False: the line does not follow by propagation.
NoConflict ==
    /\ pc = "propagate"
    /\ cursor = Len(trail)
    /\ Reject("not rup")
    /\ UNCHANGED <<arguments, reading, database, propagation>>

-----------------------------------------------------------------------------
(* add.                                                                     *)

Remember(c) ==
    LET id == Len(clauses) + 1 IN
    /\ clauses' = Append(clauses, c)
    /\ positions' = Append(positions, <<1, 2>>)
    /\ empty' = (empty \/ c = <<>>)
    /\ units' = IF Len(c) = 1 THEN Append(units, c[1]) ELSE units
    /\ watches' = [l \in Literal |->
                     IF Len(c) > 1 /\ l \in {c[1], c[2]}
                     THEN Append(watches[l], id) ELSE watches[l]]

AddClause ==
    /\ pc = "add"
    /\ IF phase = "proof" /\ ~tautology /\ clause = <<>> /\ line # proofLength
       THEN Reject("trailing") /\ UNCHANGED database
       ELSE IF tautology
       THEN pc' = "next" /\ UNCHANGED <<why, database>>
       ELSE IF Len(clauses) >= MaxClauses
       THEN Reject("bound") /\ UNCHANGED database
       ELSE Remember(clause) /\ pc' = "next" /\ UNCHANGED why
    /\ UNCHANGED <<arguments, reading, propagation>>

\* Where the kernel calls Meter.spend or Meter.remaining.
Spending ==
    \/ pc = "scan" /\ scanned < Len(raw)
    \/ pc = "units" /\ index < Len(units)
    \/ pc = "negate" /\ index < Len(clause)
    \/ Visiting
    \/ pc = "next" /\ phase = "proof" /\ line = proofLength /\ raw = <<>>

\* The work bound or the deadline of the caller runs out there.
Exhaust ==
    /\ Spending
    /\ Reject("exhausted")
    /\ UNCHANGED <<arguments, reading, database, propagation>>

Done ==
    /\ pc \in {"accepted", "rejected"}
    /\ UNCHANGED vars

Kernel ==
    \/ Start \/ ReadInput \/ BeginProof \/ ReadProof \/ Finish
    \/ ScanLiteral \/ EndClause
    \/ PutUnit \/ PutNegation
    \/ SkipSatisfied \/ MoveWatch \/ ForceOther
    \/ NextFalseLiteral \/ NoConflict
    \/ AddClause \/ Exhaust

Next == Kernel \/ Done

Spec == Init /\ [][Next]_vars /\ WF_vars(Kernel)

-----------------------------------------------------------------------------
(* Properties.                                                              *)

ClauseType == Seq(Literal)

\* The shape of the state, and the loop indices inside what they index.
TypeOK ==
    /\ pc \in {"start", "next", "scan", "units", "negate", "propagate", "add",
               "accepted", "rejected"}
    /\ why \in Reasons
    /\ cnf \in InputCnfs
    /\ proofLength \in 0..MaxSteps + 1
    /\ phase \in {"input", "proof"}
    /\ line \in Nat
    /\ raw \in Seq(Int)
    /\ scanned \in 0..Len(raw)
    /\ clause \in ClauseType
    /\ tautology \in BOOLEAN
    /\ literals \in Nat
    /\ clauses \in Seq(ClauseType)
    /\ positions \in Seq([{1, 2} -> Nat])
    /\ Len(positions) = Len(clauses)
    /\ watches \in [Literal -> Seq(DOMAIN clauses)]
    /\ units \in Seq(Literal)
    /\ empty \in BOOLEAN
    /\ trail \in Seq(Literal)
    /\ cursor \in 0..Len(trail)
    /\ index \in Nat

\* What the receiver of a certificate relies on: an accepted proof means that
\* no assignment satisfies the obligation (verify_rup returning normally).
Soundness ==
    pc = "accepted" => \A T \in Assignments : ~SatisfiesAll(T, cnf)

\* Every clause the kernel retains, input or learned, is a consequence of the
\* obligation: retaining a proved line can never make a later one too easy
\* (the argument of verify_rup's comment on omitted deletions).
DatabaseEntailed ==
    \A T \in Assignments :
        SatisfiesAll(T, cnf) => \A i \in DOMAIN clauses : Satisfies(T, clauses[i])

Occurrences(id, l) == Cardinality({i \in DOMAIN watches[l] : watches[l][i] = id})

\* Watch positions survive the reset of the assignment between checks, early
\* returns included: each long clause sits exactly once in the lists of its
\* two distinct watched literals and in no other list, so the internal error
\* "inconsistent proof-checker watch state" is unreachable.
WatchesAgree ==
    \A id \in DOMAIN clauses : Len(clauses[id]) > 1 =>
        LET watchedLits == {clauses[id][positions[id][1]], clauses[id][positions[id][2]]} IN
        /\ positions[id][1] # positions[id][2]
        /\ \A l \in Literal : Occurrences(id, l) = IF l \in watchedLits THEN 1 ELSE 0

\* The verdict the abstract checker sees in a kernel state.
Verdict ==
    CASE pc = "accepted" -> "accepted"
      [] pc = "rejected" /\ why = "not rup" -> "invalid"
      [] pc = "rejected" /\ why # "not rup" -> "failed"
      [] pc \notin {"accepted", "rejected"} -> phase

\* The line under test: from the start of its propagation to its addition.
Claimed ==
    IF pc \in {"units", "negate", "propagate"} \/ (pc = "rejected" /\ why = "not rup")
    THEN {ToSet(clause)} ELSE {}

Abstract == INSTANCE RupCheck WITH
    status <- Verdict,
    formula <- {ToSet(clauses[i]) : i \in DOMAIN clauses},
    claim <- Claimed

\* The watched-literal kernel accepts a line exactly when it is a reverse unit
\* propagation consequence in the textbook sense, with no watches, no trail
\* and no order of visits: it refines RupCheck.
ImplementsRupCheck == Abstract!Spec

\* The kernel always reaches a verdict: the propagation loop cannot run on,
\* whatever the certificate says.  Fairness: one thread that keeps running.
Terminates == <>(pc \in {"accepted", "rejected"})
=============================================================================
