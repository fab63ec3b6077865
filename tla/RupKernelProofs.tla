--------------------------- MODULE RupKernelProofs ---------------------------
(***************************************************************************)
(* RupKernel, for every number of variables, every obligation and every     *)
(* certificate: the shape of its state, the discipline of its watch lists,  *)
(* that what it accepts is a refutation, and that every step of it is a     *)
(* step of RupCheck.                                                        *)
(***************************************************************************)
EXTENDS RupKernel, FiniteSetTheorems, SequenceTheorems, TLAPS

-----------------------------------------------------------------------------
(* Typing: the type invariant with what keeps it inductive, that a watched  *)
(* position of a long clause is one of its positions.                       *)

PositionsInside ==
    \A id \in DOMAIN clauses : Len(clauses[id]) > 1 =>
        \A side \in {1, 2} : positions[id][side] \in DOMAIN clauses[id]

OnlyLongWatched ==
    \A l \in Literal : \A i \in DOMAIN watches[l] : Len(clauses[watches[l][i]]) > 1

Shape == TypeOK /\ PositionsInside /\ OnlyLongWatched

LEMMA LiteralFacts ==
    /\ Literal \subseteq Int
    /\ \A l \in Literal : -l \in Literal
BY VariablesAssumption DEF Literal

\* The literal a visit negates, the clause it visits and that clause's other
\* watched literal are what their names say.
LEMMA VisitFacts ==
    ASSUME Shape, Visiting
    PROVE  /\ falseLit \in Literal
           /\ identity \in DOMAIN clauses
           /\ identity \in 1..Len(positions)
           /\ Len(clauses[identity]) > 1
           /\ clauses[identity] \in Seq(Literal)
           /\ positions[identity] \in [{1, 2} -> Nat]
           /\ Side(identity) \in {1, 2}
           /\ Other(identity) \in Literal
<1>1. trail[cursor + 1] \in Literal
  BY DEF Shape, TypeOK, Visiting
<1>2. falseLit \in Literal
  BY <1>1, LiteralFacts DEF falseLit
<1>3. watched \in Seq(DOMAIN clauses) /\ index + 1 \in DOMAIN watched
  BY <1>2 DEF Shape, TypeOK, Visiting, watched
<1>4. identity \in DOMAIN clauses
  BY <1>3 DEF identity
<1>5. Len(clauses[identity]) > 1
  BY <1>2, <1>3 DEF identity, watched, Shape, OnlyLongWatched
<1>6. clauses[identity] \in Seq(Literal)
  BY <1>4 DEF Shape, TypeOK, ClauseType
<1>7. Side(identity) \in {1, 2}
  BY DEF Side
<1>8. positions[identity][3 - Side(identity)] \in DOMAIN clauses[identity]
  BY <1>4, <1>5, <1>7 DEF Shape, PositionsInside
<1>9. Other(identity) \in Literal
  BY <1>6, <1>8 DEF Other
<1>10. identity \in 1..Len(positions) /\ positions[identity] \in [{1, 2} -> Nat]
  BY <1>4 DEF Shape, TypeOK
<1>11. QED
  BY <1>2, <1>4, <1>5, <1>6, <1>7, <1>9, <1>10

\* The false literal negates one on the trail.
LEMMA FalseLitFacts ==
    ASSUME Shape, Visiting
    PROVE  -falseLit \in ToSet(trail)
<1>1. trail \in Seq(Literal) /\ cursor + 1 \in 1..Len(trail)
  BY DEF Visiting, Shape, TypeOK
<1>2. trail[cursor + 1] \in ToSet(trail) /\ trail[cursor + 1] \in Literal
  BY <1>1, ElementOfSeq DEF ToSet
<1>3. -falseLit = trail[cursor + 1]
  <2>1. \A x \in Int : -(-x) = x
    OBVIOUS
  <2>2. QED
    BY <1>2, <2>1, LiteralFacts DEF falseLit
<1>4. QED
  BY <1>2, <1>3

LEMMA ToSetInto ==
    ASSUME NEW S, NEW s \in Seq(S)
    PROVE  ToSet(s) \subseteq S
BY DEF ToSet

\* put keeps the trail a sequence of literals and the cursor inside it.
LEMMA PutTyping ==
    ASSUME Shape, NEW lit \in Literal, Put(lit), pc \in {"units", "negate", "propagate"}
    PROVE  /\ pc' \in {"units", "negate", "propagate", "add"}
           /\ trail' \in Seq(Literal)
           /\ cursor' \in 0..Len(trail')
           /\ index' \in Nat
<1>1. CASE IsFalse(lit)
  BY <1>1 DEF Put, Conflict
<1>2. CASE ~IsFalse(lit)
  <2>1. trail \in Seq(Literal) /\ cursor \in 0..Len(trail) /\ index \in Nat
    BY DEF Shape, TypeOK
  <2>2. trail' \in {trail, Append(trail, lit)} /\ cursor' = cursor /\ index' = index + 1
    BY <1>2 DEF Put
  <2>3. trail' \in Seq(Literal) /\ Len(trail') >= Len(trail)
    BY <2>1, <2>2
  <2>4. pc' = pc
    BY <1>2 DEF Put
  <2>5. QED
    BY <2>1, <2>2, <2>3, <2>4
<1>3. QED
  BY <1>1, <1>2

\* Reading a clause: the arguments stay put, the clause is a raw clause.
LEMMA BeginTyping ==
    ASSUME Shape, NEW c \in Seq(Int), BeginClause(c)
    PROVE  /\ pc' \in {"scan", "rejected"}
           /\ why' \in Reasons
           /\ raw' \in Seq(Int)
           /\ scanned' \in 0..Len(raw')
           /\ clause' \in ClauseType
           /\ tautology' \in BOOLEAN
           /\ line' \in Nat
<1>1. why \in Reasons /\ line \in Nat
  BY DEF Shape, TypeOK
<1>2. <<>> \in ClauseType
  BY DEF ClauseType
<1>3. raw' = c /\ Len(c) \in Nat /\ scanned' = 0 /\ tautology' = FALSE /\ line' = line + 1
  BY DEF BeginClause
<1>4. pc' \in {"scan", "rejected"} /\ why' \in Reasons
  BY <1>1 DEF BeginClause, Reject, Reasons
<1>5. clause' = <<>>
  BY DEF BeginClause
<1>6. tautology' \in BOOLEAN
  BY <1>3
<1>7. raw' \in Seq(Int) /\ scanned' \in 0..Len(raw') /\ line' \in Nat
  BY <1>1, <1>3
<1>8. QED
  BY <1>2, <1>4, <1>5, <1>6, <1>7

\* A new clause watches its first two literals.
LEMMA RememberTyping ==
    ASSUME Shape, Remember(clause)
    PROVE  /\ clauses' \in Seq(ClauseType)
           /\ positions' \in Seq([{1, 2} -> Nat])
           /\ Len(positions') = Len(clauses')
           /\ watches' \in [Literal -> Seq(DOMAIN clauses')]
           /\ units' \in Seq(Literal)
           /\ empty' \in BOOLEAN
           /\ PositionsInside'
           /\ OnlyLongWatched'
<1> DEFINE id == Len(clauses) + 1
<1>1. clause \in ClauseType /\ clauses \in Seq(ClauseType)
  BY DEF Shape, TypeOK
<1>2. clauses' \in Seq(ClauseType) /\ Len(clauses') = id /\ clauses'[id] = clause
  BY <1>1 DEF Remember
<1>3. \A i \in DOMAIN clauses : i \in DOMAIN clauses' /\ clauses'[i] = clauses[i]
  BY <1>1 DEF Remember
<1>4. <<1, 2>> \in [{1, 2} -> Nat]
  OBVIOUS
<1>5. positions' \in Seq([{1, 2} -> Nat]) /\ Len(positions') = id
  BY <1>4 DEF Remember, Shape, TypeOK
<1>6. positions'[id] = <<1, 2>> /\ \A i \in 1..Len(clauses) : positions'[i] = positions[i]
  <2>1. positions \in Seq([{1, 2} -> Nat]) /\ Len(positions) = Len(clauses)
    BY DEF Shape, TypeOK
  <2>2. positions' = Append(positions, <<1, 2>>)
    BY DEF Remember
  <2>3. QED
    BY <2>1, <2>2, <1>4, AppendProperties
<1>7. PositionsInside'
  <2> SUFFICES ASSUME NEW i \in DOMAIN clauses', Len(clauses'[i]) > 1, NEW side \in {1, 2}
               PROVE  positions'[i][side] \in DOMAIN clauses'[i]
    BY DEF PositionsInside
  <2>1. CASE i = id
    <3>1. clauses'[i] \in Seq(Literal)
      BY <2>1, <1>1, <1>2 DEF ClauseType
    <3>2. positions'[i][side] = side
      BY <2>1, <1>6
    <3>3. QED
      BY <3>1, <3>2
  <2>2. CASE i # id
    <3>1. i \in DOMAIN clauses /\ i \in 1..Len(clauses)
      BY <2>2, <1>1, <1>2
    <3>2. QED
      BY <3>1, <1>3, <1>6 DEF Shape, PositionsInside
  <2>3. QED
    BY <2>1, <2>2
<1>8. ASSUME NEW l \in Literal
      PROVE  /\ watches'[l] \in Seq(DOMAIN clauses')
             /\ \A i \in DOMAIN watches'[l] : Len(clauses'[watches'[l][i]]) > 1
  <2>1. watches[l] \in Seq(DOMAIN clauses)
    BY DEF Shape, TypeOK
  <2>2. watches[l] \in Seq(DOMAIN clauses')
    BY <2>1, <1>1, <1>2
  <2>3. \A i \in DOMAIN watches[l] : Len(clauses'[watches[l][i]]) > 1
    BY <2>1, <1>3 DEF Shape, OnlyLongWatched
  <2>4. CASE Len(clause) > 1 /\ l \in {clause[1], clause[2]}
    <3>1. watches'[l] = Append(watches[l], id)
      BY <2>4 DEF Remember
    <3>2. id \in DOMAIN clauses' /\ Len(clauses'[id]) > 1
      BY <2>4, <1>1, <1>2
    <3>3. watches'[l] \in Seq(DOMAIN clauses')
      BY ONLY <3>1, <3>2, <2>2
    <3>4. ASSUME NEW i \in DOMAIN watches'[l]
          PROVE  \/ watches'[l][i] = id
                 \/ i \in DOMAIN watches[l] /\ watches'[l][i] = watches[l][i]
      <4>1. watches[l] \in Seq(DOMAIN clauses') /\ id \in DOMAIN clauses'
        BY <2>2, <3>2
      <4>2. i \in 1..(Len(watches[l]) + 1) /\ Len(watches[l]) \in Nat
        BY ONLY <3>1, <4>1, i \in DOMAIN watches'[l]
      <4>3. watches'[l][Len(watches[l]) + 1] = id
        BY ONLY <3>1, <4>1
      <4>4. CASE i = Len(watches[l]) + 1
        BY ONLY <4>2, <4>3, <4>4
      <4>5. CASE i \in 1..Len(watches[l])
        BY ONLY <3>1, <4>1, <4>5
      <4>6. QED
        BY ONLY <4>2, <4>4, <4>5
    <3>5. QED
      BY <3>2, <3>3, <3>4, <2>3
  <2>5. CASE ~(Len(clause) > 1 /\ l \in {clause[1], clause[2]})
    <3>1. watches'[l] = watches[l]
      BY <2>5 DEF Remember
    <3>2. QED
      BY <3>1, <2>2, <2>3
  <2>6. QED
    BY <2>4, <2>5
<1>9. watches' \in [Literal -> Seq(DOMAIN clauses')] /\ OnlyLongWatched'
  <2>1. watches' = [l \in Literal |-> watches'[l]]
    BY DEF Remember
  <2>2. QED
    BY <2>1, <1>8 DEF OnlyLongWatched
<1>10. units' \in Seq(Literal) /\ empty' \in BOOLEAN
  <2>1. ASSUME Len(clause) = 1 PROVE clause[1] \in Literal
    <3>1. clause \in Seq(Literal)
      BY <1>1 DEF ClauseType
    <3>2. 1 \in 1..Len(clause)
      BY <2>1
    <3>3. QED
      BY <3>1, <3>2, ElementOfSeq
  <2>2. units \in Seq(Literal)
    BY DEF Shape, TypeOK
  <2>3. units' = IF Len(clause) = 1 THEN Append(units, clause[1]) ELSE units
    BY DEF Remember
  <2>4. units' \in Seq(Literal)
    BY <2>1, <2>2, <2>3, AppendProperties
  <2>5. empty' \in BOOLEAN
    BY DEF Remember
  <2>6. QED
    BY <2>4, <2>5
<1>11. QED
  BY <1>2, <1>5, <1>7, <1>9, <1>10

\* Nothing about the database can change while the database does not.
LEMMA SameDatabase ==
    ASSUME Shape, UNCHANGED database
    PROVE  /\ clauses' \in Seq(ClauseType)
           /\ positions' \in Seq([{1, 2} -> Nat])
           /\ Len(positions') = Len(clauses')
           /\ watches' \in [Literal -> Seq(DOMAIN clauses')]
           /\ units' \in Seq(Literal)
           /\ empty' \in BOOLEAN
           /\ PositionsInside'
           /\ OnlyLongWatched'
BY DEF database, Shape, TypeOK, PositionsInside, OnlyLongWatched

LEMMA ReplacedEntry ==
    ASSUME NEW S, NEW p \in Seq(S), NEW i \in 1..Len(p), NEW e \in S,
           NEW q, q = [p EXCEPT ![i] = e]
    PROVE  /\ q \in Seq(S)
           /\ Len(q) = Len(p)
           /\ \A j \in 1..Len(p) : q[j] = IF j = i THEN e ELSE p[j]
BY ExceptSeq

LEMMA MoveWatchTyping ==
    ASSUME Shape, MoveWatch
    PROVE  /\ positions' \in Seq([{1, 2} -> Nat])
           /\ Len(positions') = Len(clauses')
           /\ watches' \in [Literal -> Seq(DOMAIN clauses')]
           /\ PositionsInside'
           /\ OnlyLongWatched'
<1> DEFINE id == identity
           side == Side(id)
<1>1. Visiting /\ clauses' = clauses
  BY DEF MoveWatch
<1>2. PICK to \in Replacements(id) :
        /\ positions' = [positions EXCEPT ![id][side] = to]
        /\ watches' = [l \in Literal |->
                CASE l = falseLit -> FillHole(watches[l], index + 1)
                  [] l = clauses[id][to] -> Append(watches[l], id)
                  [] OTHER -> watches[l]]
  BY DEF MoveWatch
<1> HIDE DEF id, side
<1>3. /\ id \in DOMAIN clauses /\ id \in 1..Len(positions) /\ Len(clauses[id]) > 1
      /\ clauses[id] \in Seq(Literal) /\ positions[id] \in [{1, 2} -> Nat]
      /\ side \in {1, 2} /\ falseLit \in Literal
  BY <1>1, VisitFacts DEF id, side
<1>4. to \in DOMAIN clauses[id] /\ to \in Nat
  BY <1>3 DEF Replacements
<1>5. clauses[id][to] \in Literal
  BY <1>3, <1>4, ElementOfSeq
<1>6. positions \in Seq([{1, 2} -> Nat]) /\ Len(positions) = Len(clauses)
  BY DEF Shape, TypeOK
<1>7. [positions[id] EXCEPT ![side] = to] \in [{1, 2} -> Nat]
  BY <1>3, <1>4
<1>8. /\ positions' \in Seq([{1, 2} -> Nat])
      /\ Len(positions') = Len(positions)
      /\ \A j \in 1..Len(positions) :
            positions'[j] = IF j = id THEN [positions[id] EXCEPT ![side] = to] ELSE positions[j]
  <2> DEFINE new == [positions[id] EXCEPT ![side] = to]
  <2>1. positions' = [positions EXCEPT ![id] = new]
    BY <1>2
  <2>2. new \in [{1, 2} -> Nat]
    BY <1>7
  <2> HIDE DEF new
  <2>3. /\ positions' \in Seq([{1, 2} -> Nat])
        /\ Len(positions') = Len(positions)
        /\ \A j \in 1..Len(positions) : positions'[j] = IF j = id THEN new ELSE positions[j]
    BY <1>3, <1>6, <2>1, <2>2, ReplacedEntry
  <2>4. QED
    BY <2>3 DEF new
<1>9. PositionsInside'
  <2> SUFFICES ASSUME NEW i \in DOMAIN clauses, Len(clauses[i]) > 1, NEW s \in {1, 2}
               PROVE  positions'[i][s] \in DOMAIN clauses[i]
    BY <1>1 DEF PositionsInside
  <2>1. positions[i][s] \in DOMAIN clauses[i]
    BY DEF Shape, PositionsInside
  <2>2. i \in 1..Len(positions)
    BY <1>6 DEF Shape, TypeOK
  <2>3. CASE i = id /\ s = side
    BY <2>2, <2>3, <1>3, <1>4, <1>8
  <2>4. CASE i # id \/ s # side
    <3>1. positions'[i][s] = positions[i][s]
      BY <2>2, <2>4, <1>3, <1>8
    <3>2. QED
      BY <3>1, <2>1
  <2>5. QED
    BY <2>3, <2>4
<1>10. ASSUME NEW l \in Literal
       PROVE  /\ watches'[l] \in Seq(DOMAIN clauses)
              /\ \A i \in DOMAIN watches'[l] : Len(clauses[watches'[l][i]]) > 1
  <2> DEFINE Longs == {c \in DOMAIN clauses : Len(clauses[c]) > 1}
  <2>1. \A m \in Literal : watches[m] \in Seq(Longs)
    <3> SUFFICES ASSUME NEW m \in Literal PROVE watches[m] \in Seq(Longs)
      OBVIOUS
    <3>1. watches[m] \in Seq(DOMAIN clauses)
      BY DEF Shape, TypeOK
    <3>2. \A i \in 1..Len(watches[m]) : watches[m][i] \in Longs
      BY <3>1, ElementOfSeq DEF Shape, OnlyLongWatched
    <3>3. QED
      BY <3>1, <3>2
  <2>2. id \in Longs
    BY <1>3
  <2> HIDE DEF Longs
  <2>5. \A w \in Seq(Longs) : FillHole(w, index + 1) \in Seq(Longs)
    <3> SUFFICES ASSUME NEW w \in Seq(Longs) PROVE FillHole(w, index + 1) \in Seq(Longs)
      OBVIOUS
    <3>1. CASE Len(w) = 0
      BY <3>1 DEF FillHole
    <3>2. CASE Len(w) # 0
      <4>1. Len(w) - 1 \in Nat /\ w[Len(w)] \in Longs
        BY <3>2, ElementOfSeq
      <4>2. \A j \in 1..Len(w) - 1 : (IF j = index + 1 THEN Last(w) ELSE w[j]) \in Longs
        BY <4>1, ElementOfSeq DEF Last
      <4>3. QED
        BY <4>1, <4>2 DEF FillHole
    <3>3. QED
      BY <3>1, <3>2
  <2>4. watches[l] \in Seq(Longs) /\ Append(watches[l], id) \in Seq(Longs)
    BY <2>1, <2>2, AppendProperties
  <2>6. watches'[l] \in {FillHole(watches[l], index + 1), Append(watches[l], id), watches[l]}
    BY <1>2
  <2>7. watches'[l] \in Seq(Longs)
    BY <2>4, <2>5, <2>6
  <2>8. \A i \in DOMAIN watches'[l] : watches'[l][i] \in Longs
    BY <2>7, ElementOfSeq, LenProperties
  <2>9. watches'[l] \in Seq(DOMAIN clauses)
    BY <2>7, SeqMonotonic DEF Longs
  <2>10. QED
    BY <2>8, <2>9 DEF Longs
<1>11. watches' \in [Literal -> Seq(DOMAIN clauses)]
  <2>1. watches \in [Literal -> Seq(DOMAIN clauses)]
    BY DEF Shape, TypeOK
  <2>2. watches' = [l \in Literal |-> watches'[l]]
    BY <1>2, <2>1
  <2>3. QED
    BY <2>2, <1>10
<1>12. OnlyLongWatched'
  BY <1>1, <1>10 DEF OnlyLongWatched
<1>13. QED
  BY <1>1, <1>6, <1>8, <1>9, <1>11, <1>12

\* Every action keeps the shape of the state.
LEMMA ShapeStep ==
    ASSUME Shape, Next
    PROVE  Shape'
<1> USE DEF Shape
<1>1. CASE Start
  BY <1>1, SameDatabase DEF Start, Reject, Reasons, TypeOK, arguments, reading, propagation
<1>2. CASE ReadInput
  <2>1. cnf[line + 1] \in Seq(Int)
    BY <1>2, EvidenceAssumption, ElementOfSeq DEF ReadInput, TypeOK
  <2>2. BeginClause(cnf[line + 1]) /\ UNCHANGED <<arguments, phase, literals, database, propagation>>
    BY <1>2 DEF ReadInput
  <2>3. QED
    BY <2>1, <2>2, BeginTyping, SameDatabase DEF TypeOK, arguments, propagation
<1>3. CASE BeginProof
  BY <1>3, SameDatabase DEF BeginProof, TypeOK, arguments, propagation
<1>4. CASE ReadProof
  <2>1. PICK c \in ProofLines : BeginClause(c)
    BY <1>4 DEF ReadProof
  <2>2. c \in Seq(Int) /\ UNCHANGED <<arguments, phase, literals, database, propagation>>
    BY <1>4, EvidenceAssumption DEF ReadProof
  <2>3. QED
    BY <2>1, <2>2, BeginTyping, SameDatabase DEF TypeOK, arguments, propagation
<1>5. CASE Finish
  BY <1>5, SameDatabase DEF Finish, Reject, Reasons, TypeOK, arguments, reading, propagation
<1>6. CASE ScanLiteral
  <2> DEFINE lit == raw[scanned + 1]
  <2>1. UNCHANGED <<arguments, phase, line, raw, literals, database, propagation>>
    BY <1>6 DEF ScanLiteral
  <2>2. CASE lit \in Literal
    <3>1. /\ clause' = IF lit \in ToSet(clause) THEN clause ELSE Append(clause, lit)
          /\ scanned' = scanned + 1 /\ scanned < Len(raw)
      BY <1>6, <2>2 DEF ScanLiteral
    <3>5. tautology' \in BOOLEAN
      BY <1>6, <2>2 DEF ScanLiteral
    <3>4. clause' \in ClauseType /\ scanned' \in 0..Len(raw)
      BY <3>1, <2>2, AppendProperties DEF TypeOK, ClauseType
    <3>2. UNCHANGED <<pc, why>>
      BY <1>6, <2>2 DEF ScanLiteral
    <3>3. QED
      BY <2>1, <3>2, <3>4, <3>5, SameDatabase DEF TypeOK, arguments, propagation
  <2>3. CASE lit \notin Literal
    BY <1>6, <2>1, <2>3, SameDatabase
       DEF ScanLiteral, Reject, Reasons, TypeOK, arguments, propagation
  <2>4. QED
    BY <2>2, <2>3
<1>7. CASE EndClause
  <2>1. UNCHANGED <<arguments, phase, line, raw, scanned, clause, tautology, database, propagation>>
    BY <1>7 DEF EndClause
  <2>2. literals' \in Nat
    BY <1>7 DEF EndClause, TypeOK
  <2>3. pc' \in {"add", "units", "rejected"} /\ why' \in Reasons
    BY <1>7 DEF EndClause, Reject, Reasons, TypeOK
  <2>4. QED
    BY <2>1, <2>2, <2>3, SameDatabase DEF TypeOK, arguments, propagation
<1>8. CASE PutUnit
  <2>1. UNCHANGED <<why, arguments, reading, database>>
    BY <1>8 DEF PutUnit
  <2>2. CASE index < Len(units)
    <3>1. units[index + 1] \in Literal
      BY <2>2, ElementOfSeq DEF TypeOK
    <3>2. Put(units[index + 1]) /\ pc = "units"
      BY <1>8, <2>2 DEF PutUnit
    <3>3. QED
      BY <2>1, <3>1, <3>2, PutTyping, SameDatabase DEF TypeOK, arguments, reading
  <2>3. CASE ~(index < Len(units))
    BY <1>8, <2>1, <2>3, SameDatabase DEF PutUnit, TypeOK, arguments, reading
  <2>4. QED
    BY <2>2, <2>3
<1>9. CASE PutNegation
  <2>1. UNCHANGED <<why, arguments, reading, database>>
    BY <1>9 DEF PutNegation
  <2>2. CASE index < Len(clause)
    <3>4. clause \in Seq(Literal) /\ index + 1 \in 1..Len(clause)
      BY <2>2 DEF TypeOK, ClauseType
    <3>1. -clause[index + 1] \in Literal
      BY <3>4, LiteralFacts, ElementOfSeq
    <3>2. Put(-clause[index + 1]) /\ pc = "negate"
      BY <1>9, <2>2 DEF PutNegation
    <3>3. QED
      BY <2>1, <3>1, <3>2, PutTyping, SameDatabase DEF TypeOK, arguments, reading
  <2>3. CASE ~(index < Len(clause))
    BY <1>9, <2>1, <2>3, SameDatabase DEF PutNegation, TypeOK, arguments, reading
  <2>4. QED
    BY <2>2, <2>3
<1>10. CASE SkipSatisfied
  BY <1>10, SameDatabase DEF SkipSatisfied, TypeOK, arguments, reading
<1>11. CASE MoveWatch
  <2>1. UNCHANGED <<pc, why, arguments, reading, clauses, units, empty, propagation>>
    BY <1>11 DEF MoveWatch
  <2>2. QED
    BY <1>11, <2>1, MoveWatchTyping DEF TypeOK, arguments, reading, propagation
<1>12. CASE ForceOther
  <2>1. Visiting /\ Put(Other(identity)) /\ UNCHANGED <<why, arguments, reading, database>>
    BY <1>12 DEF ForceOther
  <2>2. Other(identity) \in Literal /\ pc = "propagate"
    BY <2>1, VisitFacts DEF Visiting
  <2>3. QED
    BY <2>1, <2>2, PutTyping, SameDatabase DEF TypeOK, arguments, reading
<1>13. CASE NextFalseLiteral
  BY <1>13, SameDatabase DEF NextFalseLiteral, TypeOK, arguments, reading
<1>14. CASE NoConflict
  BY <1>14, SameDatabase DEF NoConflict, Reject, Reasons, TypeOK, arguments, reading, propagation
<1>15. CASE AddClause
  <2>1. UNCHANGED <<arguments, reading, propagation>> /\ pc' \in {"next", "rejected"}
        /\ why' \in Reasons
    BY <1>15 DEF AddClause, Reject, Reasons, TypeOK
  <2>2. CASE UNCHANGED database
    BY <2>1, <2>2, SameDatabase DEF TypeOK, arguments, reading, propagation
  <2>3. CASE Remember(clause)
    BY <2>1, <2>3, RememberTyping DEF TypeOK, arguments, reading, propagation
  <2>4. QED
    BY <1>15, <2>2, <2>3 DEF AddClause
<1>16. CASE Exhaust
  BY <1>16, SameDatabase DEF Exhaust, Reject, Reasons, TypeOK, arguments, reading, propagation
<1>17. CASE Done
  BY <1>17, SameDatabase DEF Done, vars, TypeOK, arguments, reading, propagation
<1>18. QED
  BY <1>1, <1>2, <1>3, <1>4, <1>5, <1>6, <1>7, <1>8, <1>9, <1>10, <1>11, <1>12, <1>13,
     <1>14, <1>15, <1>16, <1>17 DEF Next, Kernel

LEMMA ShapeInit == Init => Shape
<1> SUFFICES ASSUME Init PROVE Shape
  OBVIOUS
<1>1. cnf \in InputCnfs /\ proofLength \in 0..MaxSteps + 1
  BY DEF Init
<1>2. watches \in [Literal -> Seq(DOMAIN clauses)]
  BY DEF Init
<1>3. clauses = <<>> /\ \A l \in Literal : watches[l] = <<>>
  BY DEF Init
<1>4. PositionsInside /\ OnlyLongWatched
  BY <1>3 DEF PositionsInside, OnlyLongWatched
<1>5. TypeOK
  <2>1. /\ raw = <<>> /\ clause = <<>> /\ clauses = <<>> /\ positions = <<>>
        /\ units = <<>> /\ trail = <<>>
    BY DEF Init
  <2>2. /\ pc = "start" /\ why \in Reasons /\ phase = "input" /\ line = 0 /\ literals = 0
        /\ scanned = 0 /\ cursor = 0 /\ index = 0
    BY DEF Init, Reasons
  <2>3. tautology \in BOOLEAN /\ empty \in BOOLEAN
    BY DEF Init
  <2>4. /\ raw \in Seq(Int) /\ clause \in ClauseType /\ clauses \in Seq(ClauseType)
        /\ positions \in Seq([{1, 2} -> Nat]) /\ units \in Seq(Literal) /\ trail \in Seq(Literal)
        /\ Len(positions) = Len(clauses) /\ scanned \in 0..Len(raw) /\ cursor \in 0..Len(trail)
    BY <2>1, <2>2, EmptySeq DEF ClauseType
  <2>5. QED
    BY <1>1, <1>2, <2>2, <2>3, <2>4 DEF TypeOK
<1>6. QED
  BY <1>4, <1>5 DEF Shape

LEMMA ShapeInvariant == Spec => []Shape
<1>1. Shape /\ UNCHANGED vars => Shape'
  <2> SUFFICES ASSUME Shape, UNCHANGED vars PROVE Shape'
    OBVIOUS
  <2>1. UNCHANGED database
    BY DEF vars
  <2>2. QED
    BY <2>1, SameDatabase DEF vars, Shape, TypeOK, arguments, reading, propagation
<1>2. QED
  BY <1>1, ShapeInit, ShapeStep, PTL DEF Spec

\* Every state of the kernel is well formed: the loops index inside the
\* lists they walk and the watch lists name clauses of the database, for
\* every obligation and certificate.
THEOREM Typing == Spec => []TypeOK
<1>1. Shape => TypeOK
  BY DEF Shape
<1>2. QED
  BY <1>1, ShapeInvariant, PTL

-----------------------------------------------------------------------------
(* The watch lists: every long clause sits exactly once in the lists of its *)
(* two watched literals.  That takes clauses without repeated literals.     *)

WatchedLits(id) == {clauses[id][positions[id][1]], clauses[id][positions[id][2]]}

NoRepeats ==
    /\ IsInjective(clause)
    /\ \A id \in DOMAIN clauses : IsInjective(clauses[id])

WatchesApart ==
    \A id \in DOMAIN clauses : Len(clauses[id]) > 1 => positions[id][1] # positions[id][2]

ListsSimple == \A l \in Literal : IsInjective(watches[l])

ListsExact ==
    \A id \in DOMAIN clauses : \A l \in Literal :
        id \in ToSet(watches[l]) <=> Len(clauses[id]) > 1 /\ l \in WatchedLits(id)

Watching == NoRepeats /\ WatchesApart /\ ListsSimple /\ ListsExact

LEMMA AppendFacts ==
    ASSUME NEW S, NEW w \in Seq(S), NEW x \in S
    PROVE  /\ ToSet(Append(w, x)) = ToSet(w) \cup {x}
           /\ IsInjective(w) /\ x \notin ToSet(w) => IsInjective(Append(w, x))
<1> DEFINE v == Append(w, x)
<1>1. /\ DOMAIN v = 1..Len(w) + 1 /\ DOMAIN w = 1..Len(w) /\ Len(w) \in Nat
      /\ v[Len(w) + 1] = x
      /\ \A j \in DOMAIN w : v[j] = w[j]
  OBVIOUS
<1> HIDE DEF v
<1>2. \A j \in DOMAIN v : j \in DOMAIN w \/ j = Len(w) + 1
  BY <1>1
<1>3. ToSet(v) = ToSet(w) \cup {x}
  <2>1. \A j \in DOMAIN w : j \in DOMAIN v
    BY <1>1
  <2>2. Len(w) + 1 \in DOMAIN v
    BY <1>1
  <2>3. QED
    BY <1>1, <1>2, <2>1, <2>2 DEF ToSet
<1>4. ASSUME IsInjective(w), x \notin ToSet(w) PROVE IsInjective(v)
  <2> SUFFICES ASSUME NEW a \in DOMAIN v, NEW b \in DOMAIN v, v[a] = v[b] PROVE a = b
    BY DEF IsInjective
  <2>1. \A j \in DOMAIN w : v[j] # x
    BY <1>1, <1>4 DEF ToSet
  <2>2. QED
    BY <1>1, <1>2, <1>4, <2>1 DEF IsInjective
<1>5. QED
  BY <1>3, <1>4 DEF v

\* Filling the hole drops the entry and moves no entry before it.
LEMMA FillHoleFacts ==
    ASSUME NEW S, NEW w \in Seq(S), IsInjective(w), NEW i \in 1..Len(w)
    PROVE  /\ IsInjective(FillHole(w, i))
           /\ ToSet(FillHole(w, i)) = ToSet(w) \ {w[i]}
           /\ \A j \in 1..i - 1 : j \in DOMAIN FillHole(w, i) /\ FillHole(w, i)[j] = w[j]
<1> DEFINE v == FillHole(w, i)
           n == Len(w)
<1>1. n \in Nat /\ n >= 1 /\ DOMAIN w = 1..n /\ i \in 1..n
  OBVIOUS
<1>2. /\ DOMAIN v = 1..n - 1
      /\ \A j \in 1..n - 1 : v[j] = IF j = i THEN w[n] ELSE w[j]
  BY DEF FillHole, Last
<1> HIDE DEF v, n
<1>3. ASSUME NEW a \in DOMAIN v, NEW b \in DOMAIN v, v[a] = v[b] PROVE a = b
  <2>1. \A x, y \in 1..n : w[x] = w[y] => x = y
    BY <1>1 DEF IsInjective
  <2>2. a \in 1..n /\ b \in 1..n /\ a # n /\ b # n /\ n \in 1..n
    BY <1>1, <1>2, <1>3
  <2>3. v[a] = (IF a = i THEN w[n] ELSE w[a]) /\ v[b] = (IF b = i THEN w[n] ELSE w[b])
    BY <1>2, <1>3
  <2>4. QED
    BY <1>3, <2>1, <2>2, <2>3
<1>4. ASSUME NEW x PROVE x \in ToSet(v) <=> x \in ToSet(w) /\ x # w[i]
  <2>1. ASSUME NEW j \in DOMAIN v, v[j] = x PROVE x \in ToSet(w) /\ x # w[i]
    <3>1. \A y, z \in 1..n : w[y] = w[z] => y = z
      BY <1>1 DEF IsInjective
    <3>2. j \in 1..n /\ n \in 1..n /\ j # n
      BY <1>1, <1>2, <2>1
    <3>3. x = IF j = i THEN w[n] ELSE w[j]
      BY <1>2, <2>1
    <3>4. PICK k \in 1..n : x = w[k] /\ k # i
      BY <1>1, <3>2, <3>3
    <3>5. QED
      BY <1>1, <3>1, <3>4 DEF ToSet
  <2>2. ASSUME NEW k \in DOMAIN w, w[k] = x, x # w[i] PROVE x \in ToSet(v)
    <3>1. k \in 1..n /\ k # i
      BY <1>1, <2>2
    <3>2. CASE k = n
      <4>1. i \in 1..n - 1
        BY <1>1, <3>1, <3>2
      <4>2. v[i] = x
        BY <1>2, <2>2, <3>2, <4>1
      <4>3. QED
        BY <1>2, <4>1, <4>2 DEF ToSet
    <3>3. CASE k # n
      <4>1. k \in 1..n - 1
        BY <1>1, <3>1, <3>3
      <4>2. v[k] = x
        BY <1>2, <2>2, <3>1, <4>1
      <4>3. QED
        BY <1>2, <4>1, <4>2 DEF ToSet
    <3>4. QED
      BY <3>2, <3>3
  <2>3. QED
    BY <2>1, <2>2 DEF ToSet
<1>5. ASSUME NEW j \in 1..i - 1 PROVE j \in DOMAIN v /\ v[j] = w[j]
  <2>1. j \in 1..n - 1 /\ j # i
    BY <1>1
  <2>2. QED
    BY <1>2, <2>1
<1>6. QED
  BY <1>3, <1>4, <1>5 DEF v, IsInjective

\* Where a visit may move the watch: to a third literal of the clause, which
\* is not false.
LEMMA MoveFacts ==
    ASSUME Shape, Watching, Visiting,
           NEW to \in Replacements(identity)
    PROVE  /\ to \in DOMAIN clauses[identity]
           /\ clauses[identity][to] \in Literal
           /\ clauses[identity][to] \notin WatchedLits(identity)
           /\ ~IsFalse(clauses[identity][to])
           /\ to # positions[identity][1] /\ to # positions[identity][2]
<1> DEFINE id == identity
<1>1. /\ id \in DOMAIN clauses /\ Len(clauses[id]) > 1 /\ clauses[id] \in Seq(Literal)
      /\ positions[id] \in [{1, 2} -> Nat]
  BY VisitFacts
<1>2. to \in DOMAIN clauses[id] /\ to \notin ToSet(positions[id]) /\ ~IsFalse(clauses[id][to])
  BY DEF Replacements
<1>3. to # positions[id][1] /\ to # positions[id][2]
  BY <1>1, <1>2 DEF ToSet
<1>4. clauses[id][to] \in Literal
  BY <1>1, <1>2, ElementOfSeq
<1>5. IsInjective(clauses[id])
  BY <1>1 DEF Watching, NoRepeats
<1>6. \A side \in {1, 2} : positions[id][side] \in DOMAIN clauses[id]
  BY <1>1 DEF Shape, PositionsInside
<1>7. clauses[id][to] # clauses[id][positions[id][1]] /\ clauses[id][to] # clauses[id][positions[id][2]]
  BY <1>2, <1>3, <1>5, <1>6 DEF IsInjective
<1>8. QED
  BY <1>2, <1>3, <1>4, <1>7 DEF WatchedLits

\* The two watched literals of the visited clause, by side.
LEMMA SideFacts ==
    ASSUME Shape, Watching, Visiting
    PROVE  /\ clauses[identity][positions[identity][Side(identity)]] = falseLit
           /\ WatchedLits(identity) = {falseLit, Other(identity)}
           /\ Other(identity) # falseLit
           /\ Side(identity) \in {1, 2}
           /\ positions[identity][Side(identity)] # positions[identity][3 - Side(identity)]
<1> DEFINE id == identity
<1>1. /\ id \in DOMAIN clauses /\ Len(clauses[id]) > 1 /\ Side(id) \in {1, 2}
  BY VisitFacts
<1>2. clauses[id][positions[id][Side(id)]] = falseLit
  BY DEF Visiting
<1>3. positions[id][1] # positions[id][2] /\ IsInjective(clauses[id])
  BY <1>1 DEF Watching, WatchesApart, NoRepeats
<1>4. positions[id][1] \in DOMAIN clauses[id] /\ positions[id][2] \in DOMAIN clauses[id]
  BY <1>1 DEF Shape, PositionsInside
<1>5. clauses[id][positions[id][1]] # clauses[id][positions[id][2]]
  BY <1>3, <1>4 DEF IsInjective
<1> HIDE DEF id
<1>6. CASE Side(id) = 1
  <2>1. Other(id) = clauses[id][positions[id][2]]
    BY <1>6 DEF Other
  <2>2. QED
    BY <1>1, <1>2, <1>3, <1>5, <1>6, <2>1 DEF WatchedLits, id
<1>7. CASE Side(id) = 2
  <2>1. Other(id) = clauses[id][positions[id][1]]
    BY <1>7 DEF Other
  <2>2. QED
    BY <1>1, <1>2, <1>3, <1>5, <1>7, <2>1 DEF WatchedLits, id
<1>8. QED
  BY <1>1, <1>6, <1>7

\* What MoveWatch does to the lists and the watched literals.
Moved(to) ==
    /\ to \in Replacements(identity)
    /\ clauses' = clauses
    /\ positions' \in Seq([{1, 2} -> Nat])
    /\ positions'[identity] = [positions[identity] EXCEPT ![Side(identity)] = to]
    /\ \A j \in DOMAIN clauses : j # identity => positions'[j] = positions[j]
    /\ watches'[falseLit] = FillHole(watches[falseLit], index + 1)
    /\ watches'[clauses[identity][to]] = Append(watches[clauses[identity][to]], identity)
    /\ \A l \in Literal \ {falseLit, clauses[identity][to]} : watches'[l] = watches[l]

LEMMA MoveEffect ==
    ASSUME Shape, Watching, MoveWatch
    PROVE  Visiting /\ \E to \in Replacements(identity) : Moved(to)
<1>1. Visiting
  BY DEF MoveWatch
<1>2. PICK to \in Replacements(identity) :
        /\ positions' = [positions EXCEPT ![identity][Side(identity)] = to]
        /\ watches' = [l \in Literal |->
                CASE l = falseLit -> FillHole(watches[l], index + 1)
                  [] l = clauses[identity][to] -> Append(watches[l], identity)
                  [] OTHER -> watches[l]]
  BY DEF MoveWatch
<1>3. /\ clauses[identity][to] \in Literal /\ clauses[identity][to] # falseLit
      /\ to \in Nat
  <2>1. to \in DOMAIN clauses[identity] /\ clauses[identity] \in Seq(Literal)
    BY <1>1, MoveFacts, VisitFacts
  <2>2. QED
    BY <1>1, <2>1, MoveFacts, SideFacts
<1> DEFINE id == identity
           new == [positions[id] EXCEPT ![Side(id)] = to]
<1>4. falseLit \in Literal /\ id \in DOMAIN clauses /\ id \in 1..Len(positions)
      /\ positions[id] \in [{1, 2} -> Nat] /\ Side(id) \in {1, 2}
  BY <1>1, VisitFacts
<1>5. positions \in Seq([{1, 2} -> Nat]) /\ Len(positions) = Len(clauses)
      /\ DOMAIN clauses = 1..Len(positions)
  BY DEF Shape, TypeOK
<1>6. new \in [{1, 2} -> Nat]
  BY <1>3, <1>4
<1>7. positions' = [positions EXCEPT ![id] = new]
  BY <1>2
<1> HIDE DEF id, new
<1>8. /\ positions' \in Seq([{1, 2} -> Nat])
      /\ \A j \in 1..Len(positions) : positions'[j] = IF j = id THEN new ELSE positions[j]
  BY <1>4, <1>5, <1>6, <1>7, ReplacedEntry
<1>9. watches' = [l \in Literal |->
                CASE l = falseLit -> FillHole(watches[l], index + 1)
                  [] l = clauses[identity][to] -> Append(watches[l], identity)
                  [] OTHER -> watches[l]]
  BY <1>2
<1>10. /\ watches'[falseLit] = FillHole(watches[falseLit], index + 1)
       /\ watches'[clauses[identity][to]] = Append(watches[clauses[identity][to]], identity)
  <2>1. ASSUME NEW l \in Literal, l = falseLit
        PROVE  watches'[l] = FillHole(watches[l], index + 1)
    BY <1>3, <1>9, <2>1
  <2>2. ASSUME NEW l \in Literal, l # falseLit, l = clauses[identity][to]
        PROVE  watches'[l] = Append(watches[l], identity)
    BY <1>9, <2>2
  <2>3. QED
    BY <1>3, <1>4, <2>1, <2>2
<1>11. \A l \in Literal \ {falseLit, clauses[identity][to]} : watches'[l] = watches[l]
  BY <1>9
<1>12. clauses' = clauses
  BY DEF MoveWatch
<1>13. positions'[identity] = [positions[identity] EXCEPT ![Side(identity)] = to]
       /\ \A j \in DOMAIN clauses : j # identity => positions'[j] = positions[j]
  BY <1>4, <1>5, <1>8 DEF id, new
<1>14. Moved(to)
  BY <1>8, <1>10, <1>11, <1>12, <1>13 DEF Moved
<1>15. QED
  BY <1>1, <1>14

\* The new sides of the visited clause; the others watch what they watched.
LEMMA MovedWatches ==
    ASSUME Shape, Watching, Visiting, NEW to \in Replacements(identity), Moved(to)
    PROVE  /\ positions'[identity][Side(identity)] = to
           /\ positions'[identity][3 - Side(identity)] = positions[identity][3 - Side(identity)]
           /\ \A j \in DOMAIN clauses : WatchedLits(j)' =
                IF j = identity THEN {clauses[identity][to], Other(identity)} ELSE WatchedLits(j)
<1>1. Side(identity) \in {1, 2} /\ positions[identity] \in [{1, 2} -> Nat]
  BY VisitFacts
<1>2. positions'[identity] = [positions[identity] EXCEPT ![Side(identity)] = to]
      /\ clauses' = clauses
  BY DEF Moved
<1> DEFINE s == Side(identity)
           p == positions[identity]
           q == positions'[identity]
<1> HIDE DEF s, p, q
<1>3. s \in {1, 2} /\ p \in [{1, 2} -> Nat] /\ q = [p EXCEPT ![s] = to]
  BY <1>1, <1>2 DEF s, p, q
<1>4. q[s] = to /\ q[3 - s] = p[3 - s]
  BY <1>3
<1>5. \/ s = 1 /\ q[1] = to /\ q[2] = p[2]
      \/ s = 2 /\ q[2] = to /\ q[1] = p[1]
  BY <1>3
<1>6. {clauses[identity][q[1]], clauses[identity][q[2]]} = {clauses[identity][to], clauses[identity][p[3 - s]]}
  BY <1>5
<1>7. ASSUME NEW j \in DOMAIN clauses
      PROVE  WatchedLits(j)' =
                IF j = identity THEN {clauses[identity][to], Other(identity)} ELSE WatchedLits(j)
  <2>1. WatchedLits(j)' = {clauses[j][positions'[j][1]], clauses[j][positions'[j][2]]}
    BY <1>2 DEF WatchedLits
  <2>2. CASE j = identity
    BY <1>6, <2>1, <2>2 DEF Other, s, p, q
  <2>3. CASE j # identity
    BY <2>1, <2>3 DEF Moved, WatchedLits
  <2>4. QED
    BY <2>2, <2>3
<1>8. QED
  BY <1>4, <1>7 DEF s, p, q

LEMMA WatchingMove ==
    ASSUME Shape, Watching, MoveWatch
    PROVE  Watching'
<1>1. Visiting
  BY DEF MoveWatch
<1>2. PICK to \in Replacements(identity) : Moved(to)
  BY MoveEffect
<1> DEFINE id == identity
           f == falseLit
           o == Other(id)
           t == clauses[id][to]
           s == Side(id)
<1>3. /\ f \in Literal /\ t \in Literal /\ o \in Literal /\ t # f /\ t # o /\ f # o
      /\ id \in DOMAIN clauses /\ Len(clauses[id]) > 1
      /\ to # positions[id][1] /\ to # positions[id][2] /\ s \in {1, 2}
      /\ WatchedLits(id) = {f, o}
  BY <1>1, MoveFacts, SideFacts, VisitFacts
<1>4. /\ positions'[id][s] = to /\ positions'[id][3 - s] = positions[id][3 - s]
      /\ \A j \in DOMAIN clauses : WatchedLits(j)' = IF j = id THEN {t, o} ELSE WatchedLits(j)
  BY <1>1, <1>2, MovedWatches
<1>5. /\ watches'[f] = FillHole(watches[f], index + 1)
      /\ watches'[t] = Append(watches[t], id)
      /\ \A l \in Literal \ {f, t} : watches'[l] = watches[l]
      /\ \A j \in DOMAIN clauses : j # id => positions'[j] = positions[j]
      /\ clauses' = clauses
  BY <1>2 DEF Moved
<1>6. watches[f] \in Seq(DOMAIN clauses) /\ index + 1 \in 1..Len(watches[f])
      /\ watches[f][index + 1] = id
  <2>1. watches[f] \in Seq(DOMAIN clauses) /\ index \in Nat
    BY <1>3 DEF Shape, TypeOK
  <2>2. index < Len(watches[f]) /\ watches[f][index + 1] = id
    BY <1>1 DEF Visiting, watched, identity
  <2>3. QED
    BY <2>1, <2>2
<1>7. watches[t] \in Seq(DOMAIN clauses)
  BY <1>3 DEF Shape, TypeOK
<1>8. \A l \in Literal : IsInjective(watches[l])
  BY DEF Watching, ListsSimple
<1>9. \A j \in DOMAIN clauses : \A l \in Literal :
         j \in ToSet(watches[l]) <=> Len(clauses[j]) > 1 /\ l \in WatchedLits(j)
  BY DEF Watching, ListsExact
<1>10. clause' = clause
  BY DEF MoveWatch, reading
<1>11. NoRepeats'
  BY <1>5, <1>10 DEF Watching, NoRepeats
<1>12. WatchesApart'
  <2> SUFFICES ASSUME NEW j \in DOMAIN clauses, Len(clauses[j]) > 1
               PROVE  positions'[j][1] # positions'[j][2]
    BY <1>5 DEF WatchesApart
  <2>1. CASE j = id
    <3>1. CASE s = 1
      BY <1>3, <1>4, <2>1, <3>1
    <3>2. CASE s = 2
      BY <1>3, <1>4, <2>1, <3>2
    <3>3. QED
      BY <1>3, <3>1, <3>2
  <2>2. CASE j # id
    BY <1>5, <2>2 DEF Watching, WatchesApart
  <2>3. QED
    BY <2>1, <2>2
<1> HIDE DEF id, f, o, t, s
<1>13. /\ IsInjective(watches'[f])
       /\ ToSet(watches'[f]) = ToSet(watches[f]) \ {id}
  BY <1>3, <1>5, <1>6, <1>8, FillHoleFacts
<1>14. id \notin ToSet(watches[t])
  BY <1>3, <1>9
<1>15. /\ IsInjective(watches'[t])
       /\ ToSet(watches'[t]) = ToSet(watches[t]) \cup {id}
  BY <1>3, <1>5, <1>7, <1>8, <1>14, AppendFacts
<1>16. ListsSimple'
  <2>1. ASSUME NEW l \in Literal PROVE IsInjective(watches'[l])
    BY <1>5, <1>8, <1>13, <1>15
  <2>2. QED
    BY <2>1 DEF ListsSimple
<1>17. ListsExact'
  <2>1. ASSUME NEW j \in DOMAIN clauses, NEW l \in Literal
        PROVE  j \in ToSet(watches'[l]) <=> Len(clauses[j]) > 1 /\ l \in WatchedLits(j)'
    <3>1. CASE l = f
      BY <1>3, <1>4, <1>9, <1>13, <3>1
    <3>2. CASE l = t
      BY <1>3, <1>4, <1>9, <1>15, <3>2
    <3>3. CASE l # f /\ l # t
      BY <1>3, <1>4, <1>5, <1>9, <3>3
    <3>4. QED
      BY <3>1, <3>2, <3>3
  <2>2. QED
    BY <1>5, <2>1 DEF ListsExact
<1>18. QED
  BY <1>11, <1>12, <1>16, <1>17 DEF Watching

\* A clause joins the lists of its first two literals and no other.
LEMMA WatchingRemember ==
    ASSUME Shape, Watching, Remember(clause), clause' = clause
    PROVE  Watching'
<1> DEFINE id == Len(clauses) + 1
<1>1. clause \in Seq(Literal) /\ clauses \in Seq(ClauseType) /\ clauses' = Append(clauses, clause)
  BY DEF Shape, TypeOK, ClauseType, Remember
<1>2. /\ DOMAIN clauses = 1..Len(clauses) /\ Len(clauses) \in Nat
      /\ DOMAIN clauses' = 1..id /\ clauses'[id] = clause
      /\ \A j \in DOMAIN clauses : clauses'[j] = clauses[j]
  <2>1. clause \in ClauseType
    BY DEF Shape, TypeOK
  <2>2. QED
    BY <1>1, <2>1
<1>3. /\ positions'[id] = <<1, 2>>
      /\ \A j \in DOMAIN clauses : positions'[j] = positions[j]
  <2>1. positions \in Seq([{1, 2} -> Nat]) /\ Len(positions) = Len(clauses)
    BY DEF Shape, TypeOK
  <2>2. positions' = Append(positions, <<1, 2>>)
    BY DEF Remember
  <2>3. QED
    BY <1>2, <2>1, <2>2
<1>4. \A l \in Literal : watches'[l] =
         IF Len(clause) > 1 /\ l \in {clause[1], clause[2]}
         THEN Append(watches[l], id) ELSE watches[l]
  BY DEF Remember
<1>5. \A l \in Literal : watches[l] \in Seq(DOMAIN clauses) /\ IsInjective(watches[l])
  BY DEF Shape, TypeOK, Watching, ListsSimple
<1>6. id \notin DOMAIN clauses /\ \A j \in DOMAIN clauses' : j \in DOMAIN clauses \/ j = id
  BY <1>2
<1>7. ASSUME NEW j \in DOMAIN clauses'
      PROVE  WatchedLits(j)' = IF j = id THEN {clause[1], clause[2]} ELSE WatchedLits(j)
  <2>1. WatchedLits(j)' = {clauses'[j][positions'[j][1]], clauses'[j][positions'[j][2]]}
    BY DEF WatchedLits
  <2>2. CASE j = id
    <3>1. positions'[j][1] = 1 /\ positions'[j][2] = 2
      BY <1>3, <2>2
    <3>2. QED
      BY <1>2, <2>1, <2>2, <3>1
  <2>3. CASE j # id
    BY <1>2, <1>3, <1>6, <2>1, <2>3 DEF WatchedLits
  <2>4. QED
    BY <2>2, <2>3
<1> HIDE DEF id
<1>8. NoRepeats'
  <2>1. IsInjective(clause) /\ \A j \in DOMAIN clauses : IsInjective(clauses[j])
    BY DEF Watching, NoRepeats
  <2>2. \A j \in DOMAIN clauses' : IsInjective(clauses'[j])
    BY <1>2, <1>6, <2>1
  <2>3. QED
    BY <2>1, <2>2 DEF NoRepeats
<1>9. WatchesApart'
  <2> SUFFICES ASSUME NEW j \in DOMAIN clauses', Len(clauses'[j]) > 1
               PROVE  positions'[j][1] # positions'[j][2]
    BY DEF WatchesApart
  <2>1. CASE j = id
    BY <1>3, <2>1
  <2>2. CASE j # id
    BY <1>2, <1>3, <1>6, <2>2 DEF Watching, WatchesApart
  <2>3. QED
    BY <2>1, <2>2
<1>10. \A l \in Literal : id \notin ToSet(watches[l])
  BY <1>5, <1>6, ToSetInto
<1>11. ASSUME NEW l \in Literal
       PROVE  /\ IsInjective(watches'[l])
              /\ ToSet(watches'[l]) =
                    IF Len(clause) > 1 /\ l \in {clause[1], clause[2]}
                    THEN ToSet(watches[l]) \cup {id} ELSE ToSet(watches[l])
  <2>1. CASE Len(clause) > 1 /\ l \in {clause[1], clause[2]}
    <3>1. watches[l] \in Seq(DOMAIN clauses')
      <4>1. DOMAIN clauses \subseteq DOMAIN clauses'
        BY <1>2 DEF id
      <4>2. QED
        BY <1>5, <4>1, SeqMonotonic
    <3>2. id \in DOMAIN clauses'
      BY <1>2 DEF id
    <3>3. IsInjective(watches[l]) /\ id \notin ToSet(watches[l])
      BY <1>5, <1>10
    <3>4. watches'[l] = Append(watches[l], id)
      BY <1>4, <2>1
    <3>5. QED
      BY <2>1, <3>1, <3>2, <3>3, <3>4, AppendFacts
  <2>2. CASE ~(Len(clause) > 1 /\ l \in {clause[1], clause[2]})
    BY <1>4, <1>5, <2>2
  <2>3. QED
    BY <2>1, <2>2
<1>12. ListsSimple'
  BY <1>11 DEF ListsSimple
<1>13. ListsExact'
  <2> SUFFICES ASSUME NEW j \in DOMAIN clauses', NEW l \in Literal
               PROVE  j \in ToSet(watches'[l]) <=> Len(clauses'[j]) > 1 /\ l \in WatchedLits(j)'
    BY DEF ListsExact
  <2>1. CASE j = id
    BY <1>2, <1>7, <1>10, <1>11, <2>1
  <2>2. CASE j # id
    <3>1. j \in DOMAIN clauses /\ clauses'[j] = clauses[j] /\ WatchedLits(j)' = WatchedLits(j)
      BY <1>2, <1>6, <1>7, <2>2
    <3>2. j \in ToSet(watches[l]) <=> Len(clauses[j]) > 1 /\ l \in WatchedLits(j)
      BY <3>1 DEF Watching, ListsExact
    <3>3. j \in ToSet(watches'[l]) <=> j \in ToSet(watches[l])
      BY <1>11, <2>2
    <3>4. QED
      BY <3>1, <3>2, <3>3
  <2>3. QED
    BY <2>1, <2>2
<1>14. QED
  BY <1>8, <1>9, <1>12, <1>13 DEF Watching

\* The lists and the clauses stand while neither changes.
LEMMA WatchingSame ==
    ASSUME Watching, UNCHANGED <<clauses, positions, watches>>, IsInjective(clause')
    PROVE  Watching'
<1>1. NoRepeats' /\ WatchesApart' /\ ListsSimple'
  BY DEF Watching, NoRepeats, WatchesApart, ListsSimple
<1>2. \A id : WatchedLits(id)' = WatchedLits(id)
  BY DEF WatchedLits
<1>3. ListsExact'
  BY <1>2 DEF Watching, ListsExact
<1>4. QED
  BY <1>1, <1>3 DEF Watching

LEMMA WatchingStep ==
    ASSUME Shape, Watching, Next
    PROVE  Watching'
<1>1. IsInjective(clause) /\ IsInjective(<<>>)
  BY DEF Watching, NoRepeats, IsInjective
<1>2. ASSUME UNCHANGED <<clause, database>> PROVE Watching'
  BY <1>1, <1>2, WatchingSame DEF database
<1>3. CASE ReadInput \/ ReadProof
  <2>1. clause' = <<>> /\ UNCHANGED database
    BY <1>3 DEF ReadInput, ReadProof, BeginClause
  <2>2. QED
    BY <1>1, <2>1, WatchingSame DEF database
<1>4. CASE ScanLiteral
  <2>1. UNCHANGED database
    BY <1>4 DEF ScanLiteral
  <2>2. IsInjective(clause')
    <3> DEFINE lit == raw[scanned + 1]
    <3>1. CASE lit \in Literal
      <4>1. clause' = IF lit \in ToSet(clause) THEN clause ELSE Append(clause, lit)
        BY <1>4, <3>1 DEF ScanLiteral
      <4>2. clause \in Seq(Literal)
        BY DEF Shape, TypeOK, ClauseType
      <4>3. QED
        BY <1>1, <3>1, <4>1, <4>2, AppendFacts
    <3>2. CASE lit \notin Literal
      BY <1>1, <1>4, <3>2 DEF ScanLiteral
    <3>3. QED
      BY <3>1, <3>2
  <2>3. QED
    BY <2>1, <2>2, WatchingSame DEF database
<1>5. CASE MoveWatch
  BY <1>5, WatchingMove
<1>6. CASE AddClause
  <2>1. clause' = clause /\ (UNCHANGED database \/ Remember(clause))
    BY <1>6 DEF AddClause, reading
  <2>2. QED
    BY <1>2, <2>1, WatchingRemember
<1>7. CASE \/ Start \/ BeginProof \/ Finish \/ EndClause \/ PutUnit \/ PutNegation
           \/ SkipSatisfied \/ ForceOther \/ NextFalseLiteral \/ NoConflict \/ Exhaust \/ Done
  <2>1. UNCHANGED <<clause, database>>
    BY <1>7 DEF Start, BeginProof, Finish, EndClause, PutUnit, PutNegation, SkipSatisfied,
                ForceOther, NextFalseLiteral, NoConflict, Exhaust, Done, vars, reading
  <2>2. QED
    BY <1>2, <2>1
<1>8. QED
  BY <1>3, <1>4, <1>5, <1>6, <1>7 DEF Next, Kernel

LEMMA WatchingInvariant == Spec => []Watching
<1>1. Init => Watching
  <2> SUFFICES ASSUME Init PROVE Watching
    OBVIOUS
  <2>1. clauses = <<>> /\ clause = <<>> /\ \A l \in Literal : watches[l] = <<>>
    BY DEF Init
  <2>2. QED
    BY <2>1 DEF Watching, NoRepeats, WatchesApart, ListsSimple, ListsExact, IsInjective
<1>2. Watching /\ UNCHANGED vars => Watching'
  BY WatchingSame DEF Watching, NoRepeats, vars, reading, database
<1>3. QED
  BY <1>1, <1>2, WatchingStep, ShapeInvariant, PTL DEF Spec

\* Occurrences counts the entries of a list.
LEMMA OccurrencesFacts ==
    ASSUME NEW id, NEW l, IsInjective(watches[l])
    PROVE  Occurrences(id, l) = IF id \in ToSet(watches[l]) THEN 1 ELSE 0
<1> DEFINE places == {i \in DOMAIN watches[l] : watches[l][i] = id}
<1>1. CASE id \in ToSet(watches[l])
  <2>1. PICK i \in DOMAIN watches[l] : watches[l][i] = id
    BY <1>1 DEF ToSet
  <2>2. places = {i}
    BY <2>1 DEF IsInjective
  <2>3. QED
    BY <1>1, <2>2, FS_Singleton DEF Occurrences
<1>2. CASE id \notin ToSet(watches[l])
  <2>1. places = {}
    BY <1>2 DEF ToSet
  <2>2. QED
    BY <1>2, <2>1, FS_EmptySet DEF Occurrences
<1>3. QED
  BY <1>1, <1>2

\* The watch lists and the watched positions agree in every state, between
\* and inside checks: the kernel's internal error cannot be raised.
THEOREM WatchesKept == Spec => []WatchesAgree
<1>1. Watching => WatchesAgree
  <2> SUFFICES ASSUME Watching PROVE WatchesAgree
    OBVIOUS
  <2>1. ASSUME NEW id \in DOMAIN clauses, Len(clauses[id]) > 1
        PROVE  positions[id][1] # positions[id][2]
    BY <2>1 DEF Watching, WatchesApart
  <2>2. ASSUME NEW id \in DOMAIN clauses, Len(clauses[id]) > 1, NEW l \in Literal
        PROVE  Occurrences(id, l) = IF l \in WatchedLits(id) THEN 1 ELSE 0
    <3>1. IsInjective(watches[l]) /\ (id \in ToSet(watches[l]) <=> l \in WatchedLits(id))
      BY <2>2 DEF Watching, ListsSimple, ListsExact
    <3>2. QED
      BY <3>1, OccurrencesFacts
  <2>3. QED
    BY <2>1, <2>2 DEF WatchesAgree, WatchedLits
<1>2. QED
  BY <1>1, WatchingInvariant, PTL

\* The clause a walk comes to does watch the literal the walk is for.
NeverInconsistent ==
    pc = "propagate" /\ cursor < Len(trail) /\ index < Len(watched) => Visiting

\* "inconsistent proof-checker watch state", the internal error that conflicts
\* raises when it does not, is unreachable.
THEOREM InternalErrorUnreachable == Spec => []NeverInconsistent
<1>1. Shape /\ Watching => NeverInconsistent
  <2> SUFFICES ASSUME Shape, Watching, pc = "propagate", cursor < Len(trail), index < Len(watched)
               PROVE  clauses[identity][positions[identity][Side(identity)]] = falseLit
    BY DEF NeverInconsistent, Visiting
  <2>1. trail[cursor + 1] \in Literal
    BY DEF Shape, TypeOK
  <2>2. falseLit \in Literal
    BY <2>1, LiteralFacts DEF falseLit
  <2>3. watched \in Seq(DOMAIN clauses) /\ index + 1 \in DOMAIN watched
    BY <2>2 DEF Shape, TypeOK, watched
  <2>4. identity \in DOMAIN clauses /\ identity \in ToSet(watches[falseLit])
    BY <2>3 DEF identity, watched, ToSet
  <2>5. falseLit \in WatchedLits(identity)
    BY <2>2, <2>4 DEF Watching, ListsExact
  <2>6. QED
    BY <2>5 DEF WatchedLits, Side
<1>2. QED
  BY <1>1, ShapeInvariant, WatchingInvariant, PTL

-----------------------------------------------------------------------------
(* What the verdicts mean.  First soundness: an accepted certificate refutes *)
(* its obligation, since each clause the database holds, each literal the   *)
(* trail holds and each line that is let in is true in the models of the    *)
(* obligation.  Then exactness: the kernel also denies no line that follows. *)

Models == {T \in Assignments : SatisfiesAll(T, cnf)}

\* The models that falsify the line under test: propagation hunts for them.
Witnesses == {T \in Models : ~Satisfies(T, clause)}

Reading == pc \in {"scan", "units", "negate", "propagate", "add"}
Testing == pc \in {"units", "negate", "propagate"}

\* The clause being read is the raw clause, as a set, as far as it is read.
ClauseRead ==
    /\ Reading => ToSet(clause) = {raw[j] : j \in 1..scanned}
    /\ Reading /\ pc # "scan" => scanned = Len(raw)
    /\ Reading /\ tautology => scanned > 0

\* In the first loop it is a clause of the obligation, and is not tested.
InputRead ==
    /\ pc = "start" => phase = "input"
    /\ phase = "input" => ~Testing
    /\ phase = "input" /\ pc = "scan" => line \in DOMAIN cnf /\ raw = cnf[line]

UnitsEntailed == \A T \in Models : \A i \in DOMAIN units : units[i] \in T
EmptyEntailed == empty => Models = {}

\* The trail is empty between checks, and within one true in every witness.
TrailEntailed ==
    /\ Testing => \A T \in Witnesses : ToSet(trail) \subseteq T
    /\ ~Testing /\ pc # "rejected" => trail = <<>>

\* What is about to be added has no witness against it.
Justified == pc = "add" /\ ~tautology => Witnesses = {}

\* Once the last line read is the empty clause, the obligation has no model.
Refuted ==
    /\ pc \notin {"start", "rejected"} => proofLength > 0
    /\ pc = "next" /\ phase = "proof" /\ line > 0 /\ raw = <<>> => Models = {}
    /\ pc = "accepted" => Models = {}

Sound ==
    /\ ClauseRead
    /\ InputRead
    /\ DatabaseEntailed
    /\ UnitsEntailed
    /\ EmptyEntailed
    /\ TrailEntailed
    /\ Justified
    /\ Refuted

-----------------------------------------------------------------------------
LEMMA ModelFacts ==
    /\ DatabaseEntailed <=> \A T \in Models : \A i \in DOMAIN clauses : Satisfies(T, clauses[i])
    /\ \A T \in Models : \A l \in Literal : (l \in T) <=> (-l \notin T)
BY DEF Models, DatabaseEntailed, Assignments

\* put extends the trail by literals true in every witness, and when it finds
\* a contradiction there is no witness.
LEMMA PutSound ==
    ASSUME Shape, Sound, Testing, NEW lit \in Literal, Put(lit),
           \A T \in Witnesses : lit \in T,
           UNCHANGED <<clause, cnf>>
    PROVE  TrailEntailed' /\ Justified' /\ pc' \in {pc, "add"}
<1>1. \A T \in Witnesses : ToSet(trail) \subseteq T
  BY DEF Sound, TrailEntailed
<1>2. Witnesses' = Witnesses
  BY DEF Witnesses, Models, SatisfiesAll, Satisfies
<1>3. CASE IsFalse(lit)
  <2>1. Witnesses = {}
    BY <1>1, <1>3, ModelFacts DEF IsFalse, Witnesses
  <2>2. pc' = "add" /\ trail' = <<>>
    BY <1>3 DEF Put, Conflict
  <2>3. QED
    BY <1>2, <2>1, <2>2 DEF TrailEntailed, Justified, Testing
<1>4. CASE ~IsFalse(lit)
  <2>1. pc' = pc /\ trail' = IF IsTrue(lit) THEN trail ELSE Append(trail, lit)
    BY <1>4 DEF Put
  <2>2. trail \in Seq(Literal)
    BY DEF Shape, TypeOK
  <2>3. ToSet(trail') \subseteq ToSet(trail) \cup {lit}
    BY <2>1, <2>2, AppendProperties DEF ToSet
  <2>4. QED
    BY <1>1, <1>2, <2>1, <2>3 DEF TrailEntailed, Justified, Testing
<1>5. QED
  BY <1>3, <1>4

\* The forced literal is true in every witness: the database clause is, and
\* every other literal of it is the negation of one on the trail.
LEMMA ForcedInWitnesses ==
    ASSUME Shape, Sound, Visiting, Replacements(identity) = {},
           NEW T \in Witnesses
    PROVE  Other(identity) \in T
<1> DEFINE c == clauses[identity]
           p == positions[identity]
           s == Side(identity)
<1>1. /\ falseLit \in Literal /\ identity \in DOMAIN clauses /\ c \in Seq(Literal)
      /\ p \in [{1, 2} -> Nat] /\ s \in {1, 2}
  BY VisitFacts
<1>2. T \in Models /\ ToSet(trail) \subseteq T
  BY DEF Sound, TrailEntailed, Testing, Visiting, Witnesses
<1>3. PICK k \in DOMAIN c : c[k] \in T
  BY <1>1, <1>2, ModelFacts DEF Sound, Satisfies
<1>4. c[k] \in Literal /\ k \in Nat
  BY <1>1, <1>3, ElementOfSeq
<1>5. -c[k] \notin T
  BY <1>2, <1>3, <1>4, ModelFacts
<1>6. k \in ToSet(p)
  BY <1>2, <1>3, <1>5 DEF Replacements, IsFalse
<1>7. c[p[s]] = falseLit
  BY DEF Visiting
<1>9. -falseLit \in T
  BY <1>2, FalseLitFacts
<1>10. k # p[s]
  BY <1>1, <1>2, <1>3, <1>7, <1>9, ModelFacts
<1>11. k = p[3 - s]
  <2>1. k = p[1] \/ k = p[2]
    BY <1>1, <1>6 DEF ToSet
  <2>2. QED
    BY <1>1, <1>10, <2>1
<1>12. QED
  BY <1>3, <1>11 DEF Other

\* The parts of Sound that only the database carries.
LEMMA SoundDatabase ==
    ASSUME Sound, UNCHANGED <<database, cnf>>
    PROVE  /\ DatabaseEntailed' /\ UnitsEntailed' /\ EmptyEntailed'
           /\ Models' = Models
BY DEF Sound, database, DatabaseEntailed, UnitsEntailed, EmptyEntailed, Models,
       SatisfiesAll, Satisfies

\* A step that rejects leaves nothing to show but the database.
LEMMA SoundReject ==
    ASSUME Sound, pc' = "rejected", UNCHANGED <<database, cnf>>
    PROVE  Sound'
<1>1. DatabaseEntailed' /\ UnitsEntailed' /\ EmptyEntailed'
  BY SoundDatabase
<1>2. ClauseRead' /\ InputRead' /\ TrailEntailed' /\ Justified' /\ Refuted'
  BY DEF ClauseRead, InputRead, TrailEntailed, Justified, Refuted, Reading, Testing
<1>3. QED
  BY <1>1, <1>2 DEF Sound

\* Reading another clause starts from a clean slate.
LEMMA SoundBegin ==
    ASSUME Sound, pc = "next", NEW c, BeginClause(c),
           UNCHANGED <<arguments, phase, database, propagation>>,
           phase = "input" => line + 1 \in DOMAIN cnf /\ c = cnf[line + 1]
    PROVE  Sound'
<1>1. DatabaseEntailed' /\ UnitsEntailed' /\ EmptyEntailed'
  BY SoundDatabase DEF arguments
<1>2. /\ raw' = c /\ scanned' = 0 /\ clause' = <<>> /\ tautology' = FALSE
      /\ line' = line + 1 /\ pc' \in {"scan", "rejected"}
  BY DEF BeginClause, Reject
<1>3. ClauseRead'
  BY <1>2 DEF ClauseRead, Reading, ToSet
<1>4. trail' = trail /\ cnf' = cnf /\ proofLength' = proofLength /\ phase' = phase
  BY DEF propagation, arguments
<1>5. InputRead' /\ Justified'
  BY <1>2, <1>4 DEF InputRead, Justified, Testing
<1>6. TrailEntailed' /\ Refuted'
  BY <1>2, <1>4 DEF Sound, TrailEntailed, Refuted, Testing
<1>7. QED
  BY <1>1, <1>3, <1>5, <1>6 DEF Sound

LEMMA SoundScan ==
    ASSUME Shape, Sound, ScanLiteral
    PROVE  Sound'
<1> DEFINE lit == raw[scanned + 1]
<1>1. /\ UNCHANGED <<arguments, phase, line, raw, literals, database, propagation>>
      /\ pc = "scan" /\ scanned < Len(raw)
  BY DEF ScanLiteral
<1>2. CASE lit \in Literal
  <2>1. clause' = IF lit \in ToSet(clause) THEN clause ELSE Append(clause, lit)
    BY <1>2 DEF ScanLiteral
  <2>2. scanned' = scanned + 1 /\ pc' = pc
    BY <1>2 DEF ScanLiteral
  <2>3. clause \in Seq(Literal) /\ scanned \in Nat
    BY DEF Shape, TypeOK, ClauseType
  <2>4. ToSet(clause') = ToSet(clause) \cup {lit}
    BY <1>2, <2>1, <2>3, AppendProperties DEF ToSet
  <2>5. ToSet(clause) = {raw[j] : j \in 1..scanned}
    BY <1>1 DEF Sound, ClauseRead, Reading
  <2>6. ToSet(clause') = {raw'[j] : j \in 1..scanned'}
    BY <1>1, <2>2, <2>3, <2>4, <2>5
  <2>7. ClauseRead'
    BY <1>1, <2>2, <2>3, <2>6 DEF ClauseRead, Reading
  <2>8. DatabaseEntailed' /\ UnitsEntailed' /\ EmptyEntailed'
    BY <1>1, SoundDatabase DEF arguments
  <2>9. InputRead' /\ TrailEntailed' /\ Justified' /\ Refuted'
    BY <1>1, <2>2 DEF Sound, InputRead, TrailEntailed, Justified, Refuted, Testing,
                      arguments, propagation
  <2>10. QED
    BY <2>7, <2>8, <2>9 DEF Sound
<1>3. CASE lit \notin Literal
  BY <1>1, <1>3, SoundReject DEF ScanLiteral, Reject, arguments
<1>4. QED
  BY <1>2, <1>3

\* An input clause is one of the obligation's, and once the database is known
\* to be contradictory there is no witness against anything.
LEMMA SoundEndClause ==
    ASSUME Shape, Sound, EndClause
    PROVE  Sound'
<1>1. /\ UNCHANGED <<arguments, phase, line, raw, scanned, clause, tautology,
                     database, propagation>>
      /\ pc = "scan" /\ scanned = Len(raw)
  BY DEF EndClause
<1>2. CASE literals' > MaxLiterals
  BY <1>1, <1>2, SoundReject DEF EndClause, Reject, arguments
<1>3. CASE ~(literals' > MaxLiterals)
  <2>1. pc' = IF phase = "input" \/ tautology \/ empty THEN "add" ELSE "units"
    BY <1>3 DEF EndClause
  <2>2. /\ DatabaseEntailed' /\ UnitsEntailed' /\ EmptyEntailed'
        /\ Models' = Models
    BY <1>1, SoundDatabase DEF arguments
  <2>3. ClauseRead'
    BY <1>1, <2>1 DEF Sound, ClauseRead, Reading
  <2>4. InputRead'
    BY <1>1, <2>1 DEF InputRead, Testing
  <2>5. trail' = <<>>
    BY <1>1 DEF Sound, TrailEntailed, Testing, propagation
  <2>6. TrailEntailed'
    BY <2>1, <2>5 DEF TrailEntailed, Testing, ToSet
  <2>7. Witnesses' = Witnesses
    BY <1>1, <2>2 DEF Witnesses, Satisfies
  <2>8. ASSUME phase = "input" PROVE Witnesses = {}
    <3>1. line \in DOMAIN cnf /\ raw = cnf[line]
      BY <1>1, <2>8 DEF Sound, InputRead
    <3>2. ToSet(clause) = {raw[j] : j \in 1..Len(raw)}
      BY <1>1 DEF Sound, ClauseRead, Reading
    <3>3. \A T \in Models : Satisfies(T, raw)
      BY <3>1 DEF Models, SatisfiesAll
    <3>4. raw \in Seq(Int)
      BY DEF Shape, TypeOK
    <3>5. \A T \in Models : Satisfies(T, clause)
      <4> SUFFICES ASSUME NEW T \in Models PROVE Satisfies(T, clause)
        OBVIOUS
      <4>1. PICK j \in DOMAIN raw : raw[j] \in T
        BY <3>3 DEF Satisfies
      <4>2. raw[j] \in ToSet(clause)
        BY <3>2, <3>4, <4>1
      <4>3. QED
        BY <4>1, <4>2 DEF Satisfies, ToSet
    <3>6. QED
      BY <3>5 DEF Witnesses
  <2>9. Justified'
    BY <1>1, <2>1, <2>7, <2>8 DEF Sound, EmptyEntailed, Justified, Witnesses
  <2>10. Refuted'
    BY <1>1, <2>1 DEF Sound, Refuted, arguments
  <2>11. QED
    BY <2>2, <2>3, <2>4, <2>6, <2>9, <2>10 DEF Sound
<1>4. QED
  BY <1>2, <1>3

\* A step inside the test of a line that keeps the database.
LEMMA SoundTest ==
    ASSUME Sound, Testing, TrailEntailed', Justified', pc' \in {"units", "negate", "propagate", "add"},
           UNCHANGED <<arguments, reading, database>>
    PROVE  Sound'
<1>1. DatabaseEntailed' /\ UnitsEntailed' /\ EmptyEntailed'
  BY SoundDatabase DEF arguments
<1>2. phase # "input"
  BY DEF Sound, InputRead
<1>3. ClauseRead' /\ InputRead' /\ Refuted'
  BY <1>2 DEF Sound, ClauseRead, InputRead, Refuted, Reading, Testing, arguments, reading
<1>4. QED
  BY <1>1, <1>3 DEF Sound

\* Walking on without touching the trail.
LEMMA SoundWalk ==
    ASSUME Sound, Testing, Testing', UNCHANGED <<arguments, reading, database, trail>>
    PROVE  Sound'
<1>1. Witnesses' = Witnesses
  BY SoundDatabase DEF Witnesses, Satisfies, arguments, reading
<1>2. TrailEntailed' /\ Justified'
  BY <1>1 DEF Sound, TrailEntailed, Justified, Testing
<1>3. QED
  BY <1>2, SoundTest DEF Testing

LEMMA SoundUnits ==
    ASSUME Shape, Sound, PutUnit
    PROVE  Sound'
<1>1. pc = "units" /\ UNCHANGED <<why, arguments, reading, database>>
  BY DEF PutUnit
<1>2. CASE index < Len(units)
  <2>1. units \in Seq(Literal) /\ index + 1 \in 1..Len(units)
    BY <1>2 DEF Shape, TypeOK
  <2>2. units[index + 1] \in Literal
    BY <2>1, ElementOfSeq
  <2>3. \A T \in Witnesses : units[index + 1] \in T
    BY <2>1 DEF Sound, UnitsEntailed, Witnesses
  <2>4. Put(units[index + 1])
    BY <1>2 DEF PutUnit
  <2>5. UNCHANGED <<clause, cnf>>
    BY <1>1 DEF arguments, reading
  <2>6. TrailEntailed' /\ Justified' /\ pc' \in {"units", "add"}
    BY <1>1, <2>2, <2>3, <2>4, <2>5, PutSound DEF Testing
  <2>7. QED
    BY <1>1, <2>6, SoundTest DEF Testing
<1>3. CASE ~(index < Len(units))
  <2>1. pc' = "negate" /\ trail' = trail
    BY <1>3 DEF PutUnit
  <2>2. QED
    BY <1>1, <2>1, SoundWalk DEF Testing
<1>4. QED
  BY <1>2, <1>3

LEMMA SoundNegation ==
    ASSUME Shape, Sound, PutNegation
    PROVE  Sound'
<1>1. pc = "negate" /\ UNCHANGED <<why, arguments, reading, database>>
  BY DEF PutNegation
<1>2. CASE index < Len(clause)
  <2>1. clause \in Seq(Literal) /\ index + 1 \in 1..Len(clause)
    BY <1>2 DEF Shape, TypeOK, ClauseType
  <2>2. clause[index + 1] \in Literal
    BY <2>1, ElementOfSeq
  <2>3. -clause[index + 1] \in Literal
    BY <2>2, LiteralFacts
  <2>4. \A T \in Witnesses : -clause[index + 1] \in T
    <3> SUFFICES ASSUME NEW T \in Witnesses PROVE -clause[index + 1] \in T
      OBVIOUS
    <3>1. clause[index + 1] \notin T
      BY <2>1 DEF Witnesses, Satisfies
    <3>2. QED
      BY <3>1, <2>2, ModelFacts DEF Witnesses
  <2>5. Put(-clause[index + 1])
    BY <1>2 DEF PutNegation
  <2>6. UNCHANGED <<clause, cnf>>
    BY <1>1 DEF arguments, reading
  <2>7. TrailEntailed' /\ Justified' /\ pc' \in {"negate", "add"}
    BY <1>1, <2>3, <2>4, <2>5, <2>6, PutSound DEF Testing
  <2>8. QED
    BY <1>1, <2>7, SoundTest DEF Testing
<1>3. CASE ~(index < Len(clause))
  <2>1. pc' = "propagate" /\ trail' = trail
    BY <1>3 DEF PutNegation
  <2>2. QED
    BY <1>1, <2>1, SoundWalk DEF Testing
<1>4. QED
  BY <1>2, <1>3

LEMMA SoundForce ==
    ASSUME Shape, Sound, ForceOther
    PROVE  Sound'
<1>1. /\ Visiting /\ Replacements(identity) = {} /\ Put(Other(identity))
      /\ UNCHANGED <<arguments, reading, database>>
  BY DEF ForceOther
<1>2. Other(identity) \in Literal /\ pc = "propagate"
  BY <1>1, VisitFacts DEF Visiting
<1>3. \A T \in Witnesses : Other(identity) \in T
  BY <1>1, ForcedInWitnesses
<1>4. UNCHANGED <<clause, cnf>>
  BY <1>1 DEF arguments, reading
<1>5. TrailEntailed' /\ Justified' /\ pc' \in {"propagate", "add"}
  BY <1>1, <1>2, <1>3, <1>4, PutSound DEF Testing
<1>6. QED
  BY <1>1, <1>2, <1>5, SoundTest DEF Testing

\* Moving a watch changes no clause.
LEMMA SoundMove ==
    ASSUME Sound, MoveWatch
    PROVE  Sound'
<1>1. /\ pc = "propagate"
      /\ UNCHANGED <<pc, why, arguments, reading, clauses, units, empty, propagation>>
  BY DEF MoveWatch, Visiting
<1>2. Models' = Models
  BY <1>1 DEF Models, SatisfiesAll, Satisfies, arguments
<1>3. DatabaseEntailed' /\ UnitsEntailed' /\ EmptyEntailed'
  BY <1>1, <1>2 DEF Sound, DatabaseEntailed, UnitsEntailed, EmptyEntailed,
                    SatisfiesAll, Satisfies, arguments
<1>4. Witnesses' = Witnesses
  BY <1>1, <1>2 DEF Witnesses, Satisfies, reading
<1>5. TrailEntailed' /\ Justified'
  BY <1>1, <1>4 DEF Sound, TrailEntailed, Justified, Testing, propagation
<1>6. ClauseRead' /\ InputRead' /\ Refuted'
  BY <1>1 DEF Sound, ClauseRead, InputRead, Refuted, Reading, Testing, arguments, reading
<1>7. QED
  BY <1>3, <1>5, <1>6 DEF Sound

\* The empty line is read as the empty clause, and as nothing else.
LEMMA EmptyLine ==
    ASSUME Shape, Sound, pc = "add", raw = <<>>
    PROVE  ~tautology /\ clause = <<>>
<1>1. clause \in Seq(Literal) /\ scanned = 0
  BY DEF Sound, ClauseRead, Reading, Shape, TypeOK, ClauseType
<1>2. ToSet(clause) = {} /\ ~tautology
  BY <1>1 DEF Sound, ClauseRead, Reading
<1>3. DOMAIN clause = {}
  BY <1>2 DEF ToSet
<1>4. QED
  BY <1>1, <1>2, <1>3

\* What is retained is entailed, as is the unit or the contradiction it is.
LEMMA SoundAdd ==
    ASSUME Shape, Sound, AddClause
    PROVE  Sound'
<1>1. pc = "add" /\ UNCHANGED <<arguments, reading, propagation>>
  BY DEF AddClause
<1>2. cnf' = cnf /\ clause' = clause /\ trail' = trail
  BY <1>1 DEF arguments, reading, propagation
<1>3. CASE pc' = "rejected" /\ UNCHANGED database
  BY <1>2, <1>3, SoundReject
<1>4. ASSUME pc' = "next" PROVE ClauseRead' /\ InputRead' /\ TrailEntailed' /\ Justified'
  BY <1>1, <1>2, <1>4 DEF Sound, ClauseRead, InputRead, TrailEntailed, Justified,
                          Reading, Testing
<1>5. clause \in Seq(Literal)
  BY DEF Shape, TypeOK, ClauseType
<1>7. raw = <<>> => ~tautology /\ clause = <<>>
  BY <1>1, EmptyLine
<1>8. clause = <<>> /\ ~tautology => Models = {}
  BY <1>1 DEF Sound, Justified, Witnesses, Satisfies
<1>9. Models' = Models
  BY <1>2 DEF Models, SatisfiesAll, Satisfies
<1>10. ASSUME pc' = "next" PROVE Refuted'
  BY <1>1, <1>7, <1>8, <1>9, <1>10 DEF Sound, Refuted, arguments, reading
<1>11. CASE pc' = "next" /\ UNCHANGED database
  BY <1>2, <1>4, <1>10, <1>11, SoundDatabase DEF Sound
<1>12. CASE ~tautology /\ pc' = "next" /\ Remember(clause)
  <2>1. \A T \in Models : Satisfies(T, clause)
    BY <1>1, <1>12 DEF Sound, Justified, Witnesses
  <2>2. clauses \in Seq(ClauseType) /\ clauses' = Append(clauses, clause)
    BY <1>12 DEF Remember, Shape, TypeOK
  <2>3. DatabaseEntailed'
    <3> SUFFICES ASSUME NEW T \in Models, NEW i \in DOMAIN clauses'
                 PROVE  Satisfies(T, clauses'[i])
      BY <1>9, ModelFacts DEF DatabaseEntailed, Models, SatisfiesAll, Satisfies
    <3>1. i = Len(clauses) + 1 \/ (i \in DOMAIN clauses /\ clauses'[i] = clauses[i])
      BY <2>2
    <3>2. CASE i = Len(clauses) + 1
      BY <2>1, <2>2, <3>2
    <3>3. CASE i \in DOMAIN clauses /\ clauses'[i] = clauses[i]
      BY <3>3, ModelFacts DEF Sound
    <3>4. QED
      BY <3>1, <3>2, <3>3
  <2>4. UnitsEntailed'
    <3>1. units' = IF Len(clause) = 1 THEN Append(units, clause[1]) ELSE units
      BY <1>12 DEF Remember
    <3>2. ASSUME Len(clause) = 1, NEW T \in Models PROVE clause[1] \in T
      <4>1. DOMAIN clause = {1}
        BY <1>5, <3>2
      <4>2. QED
        BY <2>1, <4>1 DEF Satisfies
    <3>3. units \in Seq(Literal) /\ \A T \in Models : \A i \in DOMAIN units : units[i] \in T
      BY DEF Sound, UnitsEntailed, Shape, TypeOK
    <3>4. ASSUME NEW T \in Models, NEW i \in DOMAIN units' PROVE units'[i] \in T
      BY <3>1, <3>2, <3>3
    <3>5. QED
      BY <1>9, <3>4 DEF UnitsEntailed
  <2>5. EmptyEntailed'
    BY <1>8, <1>9, <1>12 DEF Remember, Sound, EmptyEntailed
  <2>6. QED
    BY <1>4, <1>10, <1>12, <2>3, <2>4, <2>5 DEF Sound
<1>13. QED
  BY <1>3, <1>11, <1>12 DEF AddClause, Reject

LEMMA SoundIdle ==
    ASSUME Sound, UNCHANGED vars
    PROVE  Sound'
<1>1. /\ UNCHANGED <<pc, cnf, proofLength, phase, line, raw, scanned, clause, tautology, trail>>
      /\ UNCHANGED database
  BY DEF vars, arguments, reading, propagation
<1>2. DatabaseEntailed' /\ UnitsEntailed' /\ EmptyEntailed' /\ Models' = Models
  BY <1>1, SoundDatabase
<1>3. Witnesses' = Witnesses
  BY <1>1, <1>2 DEF Witnesses, Satisfies
<1>4. ClauseRead' /\ InputRead' /\ TrailEntailed' /\ Justified' /\ Refuted'
  BY <1>1, <1>2, <1>3 DEF Sound, ClauseRead, InputRead, TrailEntailed, Justified, Refuted,
                          Reading, Testing
<1>5. QED
  BY <1>2, <1>4 DEF Sound

LEMMA SoundStep ==
    ASSUME Shape, Sound, Next
    PROVE  Sound'
<1>1. CASE Start
  <2>1. UNCHANGED <<arguments, reading, database, propagation>> /\ pc = "start"
    BY <1>1 DEF Start
  <2>2. CASE pc' = "rejected"
    BY <2>1, <2>2, SoundReject DEF arguments
  <2>3. CASE pc' = "next" /\ proofLength \in 1..MaxSteps
    <3>1. DatabaseEntailed' /\ UnitsEntailed' /\ EmptyEntailed'
      BY <2>1, SoundDatabase DEF arguments
    <3>2. ClauseRead' /\ InputRead' /\ TrailEntailed' /\ Justified'
      BY <2>1, <2>3 DEF Sound, ClauseRead, InputRead, TrailEntailed, Justified, Reading,
                        Testing, propagation
    <3>3. Refuted'
      BY <2>1, <2>3 DEF Sound, InputRead, Refuted, arguments, reading
    <3>4. QED
      BY <3>1, <3>2, <3>3 DEF Sound
  <2>4. QED
    BY <1>1, <2>2, <2>3 DEF Start, Reject
<1>2. CASE ReadInput
  <2>1. cnf \in Seq(Seq(Int)) /\ line \in Nat
    BY EvidenceAssumption DEF Shape, TypeOK
  <2>2. line + 1 \in DOMAIN cnf
    BY <1>2, <2>1 DEF ReadInput
  <2>3. QED
    BY <1>2, <2>2, SoundBegin DEF ReadInput
<1>3. CASE BeginProof
  <2>1. /\ pc = "next" /\ pc' = pc /\ line' = 0
        /\ UNCHANGED <<arguments, raw, scanned, clause, tautology, literals, database, propagation>>
    BY <1>3 DEF BeginProof
  <2>2. DatabaseEntailed' /\ UnitsEntailed' /\ EmptyEntailed'
    BY <2>1, SoundDatabase DEF arguments
  <2>3. ClauseRead' /\ InputRead' /\ TrailEntailed' /\ Justified' /\ Refuted'
    BY <2>1 DEF Sound, ClauseRead, InputRead, TrailEntailed, Justified, Refuted, Reading,
                Testing, propagation, arguments
  <2>4. QED
    BY <2>2, <2>3 DEF Sound
<1>4. CASE ReadProof
  BY <1>4, SoundBegin DEF ReadProof
<1>5. CASE Finish
  <2>1. /\ pc = "next" /\ phase = "proof" /\ line = proofLength
        /\ UNCHANGED <<arguments, reading, database, propagation>>
    BY <1>5 DEF Finish
  <2>2. CASE pc' = "rejected"
    BY <2>1, <2>2, SoundReject DEF arguments
  <2>3. CASE pc' = "accepted" /\ raw = <<>>
    <3>1. DatabaseEntailed' /\ UnitsEntailed' /\ EmptyEntailed' /\ Models' = Models
      BY <2>1, SoundDatabase DEF arguments
    <3>2. ClauseRead' /\ InputRead' /\ TrailEntailed' /\ Justified'
      BY <2>1, <2>3 DEF Sound, ClauseRead, InputRead, TrailEntailed, Justified, Reading,
                        Testing, propagation, reading
    <3>3. Refuted'
      BY <2>1, <2>3, <3>1 DEF Sound, Refuted, arguments
    <3>4. QED
      BY <3>1, <3>2, <3>3 DEF Sound
  <2>4. QED
    BY <1>5, <2>2, <2>3 DEF Finish, Reject
<1>6. CASE ScanLiteral
  BY <1>6, SoundScan
<1>7. CASE EndClause
  BY <1>7, SoundEndClause
<1>8. CASE PutUnit
  BY <1>8, SoundUnits
<1>9. CASE PutNegation
  BY <1>9, SoundNegation
<1>10. CASE SkipSatisfied
  BY <1>10, SoundWalk DEF SkipSatisfied, Visiting, Testing
<1>11. CASE MoveWatch
  BY <1>11, SoundMove
<1>12. CASE ForceOther
  BY <1>12, SoundForce
<1>13. CASE NextFalseLiteral
  BY <1>13, SoundWalk DEF NextFalseLiteral, Testing
<1>14. CASE NoConflict
  BY <1>14, SoundReject DEF NoConflict, Reject, arguments
<1>15. CASE AddClause
  BY <1>15, SoundAdd
<1>16. CASE Exhaust
  BY <1>16, SoundReject DEF Exhaust, Reject, arguments
<1>17. CASE Done
  BY <1>17, SoundIdle DEF Done
<1>18. QED
  BY <1>1, <1>2, <1>3, <1>4, <1>5, <1>6, <1>7, <1>8, <1>9, <1>10, <1>11, <1>12, <1>13,
     <1>14, <1>15, <1>16, <1>17 DEF Next, Kernel

LEMMA SoundInit == Init => Sound
BY DEF Init, Sound, ClauseRead, InputRead, DatabaseEntailed, UnitsEntailed, EmptyEntailed,
       TrailEntailed, Justified, Refuted, Reading, Testing, SatisfiesAll

LEMMA SoundInvariant == Spec => []Sound
<1>1. Sound /\ UNCHANGED vars => Sound'
  BY SoundIdle
<1>2. QED
  BY <1>1, SoundInit, SoundStep, ShapeInvariant, PTL DEF Spec

\* Every clause the kernel retains follows from the obligation.
THEOREM RetainedEntailed == Spec => []DatabaseEntailed
<1>1. Sound => DatabaseEntailed
  BY DEF Sound
<1>2. QED
  BY <1>1, SoundInvariant, PTL

\* verify_rup accepts no certificate for an obligation that has a model.
THEOREM KernelSound == Spec => []Soundness
<1>1. Sound => Soundness
  BY DEF Sound, Refuted, Models, Soundness
<1>2. QED
  BY <1>1, SoundInvariant, PTL

-----------------------------------------------------------------------------
(* Every verdict is the one RupCheck asks for.  The argument is about the   *)
(* fixpoints of the line under test: the sets of literals that are closed   *)
(* under the clauses of the database and hold the negation of the line.     *)
(* The trail stays inside each of them, and when a walk ends without a      *)
(* conflict the trail is one itself, and consistent: there the two-watched- *)
(* literal discipline is needed.                                            *)

Formula == {ToSet(clauses[i]) : i \in DOMAIN clauses}

Closed(T) ==
    \A id \in DOMAIN clauses : \A l \in ToSet(clauses[id]) :
        (\A m \in ToSet(clauses[id]) \ {l} : -m \in T) => l \in T

Negated(T) == \A i \in DOMAIN clause : -clause[i] \in T

Fixpoints == {T \in SUBSET Literal : Closed(T) /\ Negated(T)}

Consistent(T) == \A l \in T : -l \notin T

\* What RupCheck calls Refutes(formula, claim), over the kernel's lists.
Contradicted ==
    \/ \E id \in DOMAIN clauses : clauses[id] = <<>>
    \/ \A T \in Fixpoints : ~Consistent(T)

\* The flag and the list beside the clauses say what the clauses say.
EmptyExact == empty <=> \E id \in DOMAIN clauses : clauses[id] = <<>>

UnitsExact ==
    /\ \A id \in DOMAIN clauses : Len(clauses[id]) = 1 => clauses[id][1] \in ToSet(units)
    /\ \A i \in DOMAIN units : \E id \in DOMAIN clauses :
            Len(clauses[id]) = 1 /\ clauses[id][1] = units[i]

\* What the walks of a test have put on the trail.
TrailForced ==
    Testing => ~empty /\ \A T \in Fixpoints : ToSet(trail) \subseteq T

TrailConsistent == Consistent(ToSet(trail))

TrailFresh ==
    /\ ~Testing /\ pc # "rejected" => trail = <<>> /\ cursor = 0 /\ index = 0
    /\ pc \in {"units", "negate"} => cursor = 0

UnitsPut ==
    /\ pc = "units" => \A i \in DOMAIN units : i <= index => units[i] \in ToSet(trail)
    /\ pc \in {"negate", "propagate"} => ToSet(units) \subseteq ToSet(trail)

NegationsPut ==
    /\ pc = "negate" => \A i \in DOMAIN clause : i <= index => -clause[i] \in ToSet(trail)
    /\ pc = "propagate" => Negated(ToSet(trail))

\* The visits of clause id on behalf of the watched literal w are done.
Visited(w, id) ==
    \/ \E j \in 1..cursor : trail[j] = -w
    \/ /\ cursor < Len(trail) /\ trail[cursor + 1] = -w
       /\ \E i \in DOMAIN watches[w] : i <= index /\ watches[w][i] = id

\* A watch may rest on a visited false literal only while the other one is true.
OtherTrue ==
    pc = "propagate" =>
        \A id \in DOMAIN clauses : Len(clauses[id]) > 1 => \A s \in {1, 2} :
            Visited(clauses[id][positions[id][s]], id) =>
                clauses[id][positions[id][3 - s]] \in ToSet(trail)

Proved == pc = "add" /\ phase = "proof" /\ ~tautology => Contradicted

LastLine == pc = "next" /\ phase = "proof" /\ line > 0 /\ raw = <<>> => empty

Exact ==
    /\ EmptyExact
    /\ UnitsExact
    /\ TrailForced
    /\ TrailConsistent
    /\ TrailFresh
    /\ UnitsPut
    /\ NegationsPut
    /\ OtherTrue
    /\ Proved
    /\ LastLine

Kept == Shape /\ Watching /\ Sound /\ Exact

-----------------------------------------------------------------------------
LEMMA NoEntries ==
    ASSUME NEW S, NEW s \in Seq(S)
    PROVE  ToSet(s) = {} <=> s = <<>>
<1>1. DOMAIN s = 1..Len(s) /\ Len(s) \in Nat
  OBVIOUS
<1>2. ASSUME ToSet(s) = {} PROVE s = <<>>
  <2>1. DOMAIN s = {}
    BY <1>2 DEF ToSet
  <2>2. Len(s) = 0
    BY <1>1, <2>1
  <2>3. QED
    BY <2>2, EmptySeq
<1>3. QED
  BY <1>2 DEF ToSet

LEMMA ClosedMeaning ==
    ASSUME NEW T
    PROVE  Abstract!ClosedUnder(Formula, T) <=> Closed(T)
BY DEF Abstract!ClosedUnder, Formula, Closed

LEMMA RefutesMeaning ==
    ASSUME Shape
    PROVE  /\ {} \in Formula <=> \E id \in DOMAIN clauses : clauses[id] = <<>>
           /\ Abstract!Refutes(Formula, ToSet(clause)) <=> Contradicted
<1>1. ASSUME NEW id \in DOMAIN clauses PROVE ToSet(clauses[id]) = {} <=> clauses[id] = <<>>
  <2>1. clauses[id] \in Seq(Literal)
    BY DEF Shape, TypeOK, ClauseType
  <2>2. QED
    BY <2>1, NoEntries
<1>2. {} \in Formula <=> \E id \in DOMAIN clauses : clauses[id] = <<>>
  BY <1>1 DEF Formula
<1>3. ASSUME NEW T PROVE (\A l \in ToSet(clause) : -l \in T) <=> Negated(T)
  BY DEF ToSet, Negated
<1>4. Abstract!Lits = Literal
  BY DEF Abstract!Lits, Literal
<1>5. Abstract!Refutes(Formula, ToSet(clause)) <=>
         \/ {} \in Formula
         \/ \A T \in SUBSET Literal : Closed(T) /\ Negated(T) => ~Consistent(T)
  BY <1>3, <1>4, ClosedMeaning DEF Abstract!Refutes, Consistent
<1>6. QED
  BY <1>2, <1>5 DEF Contradicted, Fixpoints

\* The fixpoints are about the clauses and the line, which a test keeps.
LEMMA SameFixpoints ==
    ASSUME UNCHANGED <<clauses, clause>>
    PROVE  /\ Fixpoints' = Fixpoints
           /\ Contradicted' = Contradicted
           /\ \A T : Negated(T)' = Negated(T)
BY DEF Fixpoints, Contradicted, Closed, Negated

\* The two ways put ends.
Clash == pc' = "add" /\ trail' = <<>> /\ cursor' = 0 /\ index' = 0 /\ Contradicted

Extended(lit) ==
    /\ pc' = pc /\ cursor' = cursor /\ index' = index + 1
    /\ Len(trail') >= Len(trail)
    /\ \A j \in DOMAIN trail : trail'[j] = trail[j]
    /\ ToSet(trail') = ToSet(trail) \cup {lit}
    /\ -lit \notin ToSet(trail)

LEMMA PutEffect ==
    ASSUME Shape, Exact, Testing, NEW lit \in Literal, Put(lit), \A T \in Fixpoints : lit \in T
    PROVE  Clash \/ Extended(lit)
<1>1. CASE IsFalse(lit)
  <2>1. -(-lit) = lit
    BY LiteralFacts
  <2>2. ASSUME NEW T \in Fixpoints PROVE ~Consistent(T)
    <3>1. lit \in T /\ -lit \in T
      BY <1>1 DEF Exact, TrailForced, IsFalse
    <3>2. QED
      BY <3>1 DEF Consistent
  <2>3. QED
    BY <1>1, <2>2 DEF Put, Conflict, Clash, Contradicted
<1>2. CASE ~IsFalse(lit)
  <2>1. pc' = pc /\ cursor' = cursor /\ index' = index + 1
    BY <1>2 DEF Put
  <2>2. trail \in Seq(Literal)
    BY DEF Shape, TypeOK
  <2>3. CASE IsTrue(lit)
    <3>1. trail' = trail
      BY <1>2, <2>3 DEF Put
    <3>2. QED
      BY <1>2, <2>1, <2>2, <2>3, <3>1 DEF Extended, IsTrue, IsFalse
  <2>4. CASE ~IsTrue(lit)
    <3>1. trail' = Append(trail, lit)
      BY <1>2, <2>4 DEF Put
    <3>2. Len(trail') >= Len(trail) /\ \A j \in DOMAIN trail : trail'[j] = trail[j]
      BY <2>2, <3>1
    <3>3. ToSet(trail') = ToSet(trail) \cup {lit}
      BY <2>2, <3>1, AppendFacts
    <3>4. QED
      BY <1>2, <2>1, <3>2, <3>3 DEF Extended, IsFalse
  <2>5. QED
    BY <2>3, <2>4
<1>3. QED
  BY <1>1, <1>2

\* The unit clauses are forced in every fixpoint.
LEMMA UnitsForced ==
    ASSUME Shape, Exact, NEW i \in DOMAIN units, NEW T \in Fixpoints
    PROVE  units[i] \in T
<1>1. PICK id \in DOMAIN clauses : Len(clauses[id]) = 1 /\ clauses[id][1] = units[i]
  BY DEF Exact, UnitsExact
<1>2. clauses[id] \in Seq(Literal)
  BY DEF Shape, TypeOK, ClauseType
<1>3. DOMAIN clauses[id] = {1}
  BY <1>1, <1>2
<1>4. ToSet(clauses[id]) = {units[i]}
  BY <1>1, <1>3 DEF ToSet
<1>5. QED
  BY <1>4 DEF Fixpoints, Closed

\* The negated literals of the line are in every fixpoint by definition.
LEMMA NegationsForced ==
    ASSUME Shape, NEW i \in DOMAIN clause
    PROVE  -clause[i] \in Literal /\ \A T \in Fixpoints : -clause[i] \in T
<1>1. clause \in Seq(Literal)
  BY DEF Shape, TypeOK, ClauseType
<1>2. clause[i] \in Literal
  BY <1>1, ElementOfSeq
<1>3. -clause[i] \in Literal
  BY <1>2, LiteralFacts
<1>4. \A T \in Fixpoints : -clause[i] \in T
  BY DEF Fixpoints, Negated
<1>5. QED
  BY <1>3, <1>4

\* What the loops over the units and over the line put, they put in every
\* fixpoint.
LEMMA UnitEffect ==
    ASSUME Shape, Exact, PutUnit, index < Len(units)
    PROVE  /\ index + 1 \in DOMAIN units /\ units[index + 1] \in Literal
           /\ \A T \in Fixpoints : units[index + 1] \in T
           /\ Clash \/ Extended(units[index + 1])
<1>1. units \in Seq(Literal) /\ index + 1 \in DOMAIN units
  BY DEF Shape, TypeOK
<1>2. units[index + 1] \in Literal /\ \A T \in Fixpoints : units[index + 1] \in T
  BY <1>1, ElementOfSeq, UnitsForced
<1>3. Put(units[index + 1]) /\ Testing
  BY DEF PutUnit, Testing
<1>4. QED
  BY <1>1, <1>2, <1>3, PutEffect

LEMMA NegationEffect ==
    ASSUME Shape, Exact, PutNegation, index < Len(clause)
    PROVE  /\ index + 1 \in DOMAIN clause /\ -clause[index + 1] \in Literal
           /\ \A T \in Fixpoints : -clause[index + 1] \in T
           /\ Clash \/ Extended(-clause[index + 1])
<1>1. index + 1 \in DOMAIN clause
  BY DEF Shape, TypeOK, ClauseType
<1>2. -clause[index + 1] \in Literal /\ \A T \in Fixpoints : -clause[index + 1] \in T
  BY <1>1, NegationsForced
<1>3. Put(-clause[index + 1]) /\ Testing
  BY DEF PutNegation, Testing
<1>4. QED
  BY <1>1, <1>2, <1>3, PutEffect

LEMMA ExtendedTrail ==
    ASSUME Shape, Exact, Testing, NEW lit \in Literal, Extended(lit),
           \A T \in Fixpoints : lit \in T, UNCHANGED <<clauses, clause, empty>>
    PROVE  TrailForced' /\ TrailConsistent'
<1>1. ToSet(trail') = ToSet(trail) \cup {lit} /\ -lit \notin ToSet(trail)
  BY DEF Extended
<1>2. Fixpoints' = Fixpoints
  BY SameFixpoints
<1>3. TrailForced'
  BY <1>1, <1>2 DEF Exact, TrailForced
<1>4. TrailConsistent'
  <2>1. ToSet(trail) \subseteq Literal
    BY ToSetInto DEF Shape, TypeOK
  <2>2. lit \in Int /\ lit # 0
    BY DEF Literal
  <2>3. \A l \in ToSet(trail) : l \in Int /\ l # 0 /\ -l \notin ToSet(trail)
    BY <2>1 DEF Exact, TrailConsistent, Consistent, Literal
  <2>4. ASSUME NEW l \in ToSet(trail) \cup {lit} PROVE -l \notin ToSet(trail) \cup {lit}
    <3>1. CASE l = lit
      BY <1>1, <2>2, <3>1
    <3>2. CASE l \in ToSet(trail)
      <4>1. -l # lit
        <5>1. l = -(-l)
          BY <2>3, <3>2
        <5>2. QED
          BY <1>1, <3>2, <5>1
      <4>2. QED
        BY <2>3, <3>2, <4>1
    <3>3. QED
      BY <3>1, <3>2
  <2>5. QED
    BY <1>1, <2>4 DEF TrailConsistent, Consistent
<1>5. QED
  BY <1>3, <1>4

-----------------------------------------------------------------------------
LEMMA ExactDatabase ==
    ASSUME Exact, UNCHANGED database
    PROVE  EmptyExact' /\ UnitsExact'
BY DEF Exact, EmptyExact, UnitsExact, database

\* A step that rejects keeps the database and the trail it had.
LEMMA ExactReject ==
    ASSUME Exact, pc' = "rejected", UNCHANGED <<database, trail>>
    PROVE  Exact'
<1>1. EmptyExact' /\ UnitsExact'
  BY ExactDatabase
<1>2. TrailForced' /\ TrailFresh' /\ UnitsPut' /\ NegationsPut' /\ OtherTrue' /\ Proved' /\ LastLine'
  BY DEF TrailForced, TrailFresh, UnitsPut, NegationsPut, OtherTrue, Proved, LastLine, Testing
<1>3. TrailConsistent'
  BY DEF Exact, TrailConsistent, Consistent
<1>4. QED
  BY <1>1, <1>2, <1>3 DEF Exact

\* Outside the tests there is no trail to speak of.
LEMMA ExactOutside ==
    ASSUME Exact, ~Testing, pc # "rejected", UNCHANGED <<database, propagation>>,
           pc' \notin {"units", "negate", "propagate", "rejected"}, Proved', LastLine'
    PROVE  Exact'
<1>1. EmptyExact' /\ UnitsExact'
  BY ExactDatabase
<1>2. TrailForced' /\ UnitsPut' /\ NegationsPut' /\ OtherTrue'
  BY DEF TrailForced, UnitsPut, NegationsPut, OtherTrue, Testing
<1>3. TrailConsistent' /\ TrailFresh'
  BY DEF Exact, TrailConsistent, Consistent, TrailFresh, propagation, Testing
<1>4. QED
  BY <1>1, <1>2, <1>3 DEF Exact

LEMMA ExactBegin ==
    ASSUME Exact, pc = "next", NEW c, BeginClause(c), UNCHANGED <<database, propagation>>
    PROVE  Exact'
<1>1. pc' \in {"scan", "rejected"}
  BY DEF BeginClause, Reject
<1>2. CASE pc' = "scan"
  BY <1>2, ExactOutside DEF Proved, LastLine, Testing
<1>3. CASE pc' = "rejected"
  BY <1>3, ExactReject DEF propagation
<1>4. QED
  BY <1>1, <1>2, <1>3

\* A conflict ends the test: the line is proved.
LEMMA ExactClash ==
    ASSUME Exact, Clash, UNCHANGED <<reading, database>>
    PROVE  Exact'
<1>1. EmptyExact' /\ UnitsExact'
  BY ExactDatabase
<1>2. pc' = "add" /\ trail' = <<>> /\ cursor' = 0 /\ index' = 0 /\ Contradicted
  BY DEF Clash
<1>3. Contradicted'
  BY <1>2, SameFixpoints DEF reading, database
<1>4. TrailForced' /\ TrailFresh' /\ UnitsPut' /\ NegationsPut' /\ OtherTrue' /\ Proved' /\ LastLine'
  BY <1>2, <1>3 DEF TrailForced, TrailFresh, UnitsPut, NegationsPut, OtherTrue, Proved, LastLine,
                    Testing
<1>5. TrailConsistent'
  BY <1>2 DEF TrailConsistent, Consistent, ToSet
<1>6. QED
  BY <1>1, <1>3, <1>4, <1>5 DEF Exact

\* Once the database holds the empty clause nothing has to be tested.
LEMMA ExactEndClause ==
    ASSUME Shape, Exact, EndClause
    PROVE  Exact'
<1>1. /\ pc = "scan"
      /\ UNCHANGED <<arguments, phase, line, raw, scanned, clause, tautology, database, propagation>>
  BY DEF EndClause
<1>2. CASE literals' > MaxLiterals
  BY <1>1, <1>2, ExactReject DEF EndClause, Reject, propagation
<1>3. CASE ~(literals' > MaxLiterals) /\ (phase = "input" \/ tautology \/ empty)
  <2>1. pc' = "add"
    BY <1>3 DEF EndClause
  <2>2. LastLine'
    BY <2>1 DEF LastLine
  <2>3. Contradicted' = Contradicted
    BY <1>1, SameFixpoints DEF database
  <2>4. Proved'
    BY <1>1, <1>3, <2>1, <2>3 DEF Proved, Exact, EmptyExact, Contradicted
  <2>5. QED
    BY <1>1, <2>1, <2>2, <2>4, ExactOutside DEF Testing
<1>4. CASE ~(literals' > MaxLiterals) /\ ~(phase = "input" \/ tautology \/ empty)
  <2>1. pc' = "units"
    BY <1>4 DEF EndClause
  <2>2. trail' = <<>> /\ cursor' = 0 /\ index' = 0 /\ ~empty'
    BY <1>1, <1>4 DEF Exact, TrailFresh, Testing, propagation, database
  <2>3. EmptyExact' /\ UnitsExact'
    BY <1>1, ExactDatabase
  <2>4. ToSet(trail') = {}
    BY <2>2 DEF ToSet
  <2>5. TrailForced' /\ TrailConsistent' /\ TrailFresh'
    BY <2>1, <2>2, <2>4 DEF TrailForced, TrailConsistent, Consistent, TrailFresh, Testing
  <2>6. units \in Seq(Literal) /\ units' = units
    BY <1>1 DEF Shape, TypeOK, database
  <2>7. UnitsPut' /\ NegationsPut'
    BY <2>1, <2>2, <2>6 DEF UnitsPut, NegationsPut
  <2>8. OtherTrue' /\ Proved' /\ LastLine'
    BY <2>1 DEF OtherTrue, Proved, LastLine
  <2>9. QED
    BY <2>3, <2>5, <2>7, <2>8 DEF Exact
<1>5. QED
  BY <1>2, <1>3, <1>4

\* OtherTrue by the literal a side watches.
LEMMA OtherTrueNext ==
    ASSUME Shape',
           \A id \in DOMAIN clauses' : Len(clauses'[id]) > 1 => \A s \in {1, 2} :
               \A w \in Literal : w = clauses'[id][positions'[id][s]] /\ Visited(w, id)' =>
                   clauses'[id][positions'[id][3 - s]] \in ToSet(trail')
    PROVE  OtherTrue'
<1> SUFFICES ASSUME NEW id \in DOMAIN clauses', Len(clauses'[id]) > 1, NEW s \in {1, 2},
                    Visited(clauses[id][positions[id][s]], id)'
             PROVE  clauses'[id][positions'[id][3 - s]] \in ToSet(trail')
  BY DEF OtherTrue
<1>1. PICK w : w = clauses'[id][positions'[id][s]]
  OBVIOUS
<1>2. Visited(w, id)'
  BY <1>1 DEF Visited
<1>3. w \in Literal
  <2>1. clauses'[id] \in Seq(Literal)
    <3>1. clauses' \in Seq(Seq(Literal))
      BY DEF Shape, TypeOK, ClauseType
    <3>2. QED
      BY <3>1
  <2>2. positions'[id][s] \in DOMAIN clauses'[id]
    BY DEF Shape, PositionsInside
  <2>3. QED
    BY <1>1, <2>1, <2>2, ElementOfSeq
<1>4. QED
  BY <1>1, <1>2, <1>3

LEMMA ExactUnits ==
    ASSUME Shape, Exact, PutUnit
    PROVE  Exact'
<1>1. pc = "units" /\ UNCHANGED <<reading, database>> /\ Testing
  BY DEF PutUnit, Testing
<1>2. EmptyExact' /\ UnitsExact'
  BY <1>1, ExactDatabase
<1>3. units \in Seq(Literal) /\ index \in Nat /\ units' = units /\ clause' = clause
      /\ clauses' = clauses /\ empty' = empty
  BY <1>1 DEF Shape, TypeOK, database, reading
<1>4. CASE index < Len(units)
  <2> DEFINE lit == units[index + 1]
  <2>1. index + 1 \in DOMAIN units /\ lit \in Literal /\ (Clash \/ Extended(lit))
    BY <1>4, UnitEffect
  <2>2. \A T \in Fixpoints : lit \in T
    BY <1>4, UnitEffect
  <2> HIDE DEF lit
  <2>3. CASE Clash
    BY <1>1, <2>3, ExactClash
  <2>4. CASE Extended(lit)
    <3>1. TrailForced' /\ TrailConsistent'
      BY <1>1, <1>3, <2>1, <2>2, <2>4, ExtendedTrail
    <3>2. /\ pc' = "units" /\ cursor' = cursor /\ index' = index + 1
          /\ ToSet(trail') = ToSet(trail) \cup {lit}
      BY <1>1, <2>4 DEF Extended
    <3>3. TrailFresh' /\ NegationsPut' /\ OtherTrue' /\ Proved' /\ LastLine'
      BY <1>1, <3>2 DEF Exact, TrailFresh, NegationsPut, OtherTrue, Proved, LastLine, Testing
    <3>4. ASSUME NEW i \in DOMAIN units, i <= index + 1 PROVE units[i] \in ToSet(trail')
      <4>1. i <= index \/ i = index + 1
        BY <1>3, <3>4
      <4>2. QED
        BY <1>1, <3>2, <4>1 DEF Exact, UnitsPut, lit
    <3>5. UnitsPut'
      BY <1>3, <3>2, <3>4 DEF UnitsPut
    <3>6. QED
      BY <1>2, <3>1, <3>3, <3>5 DEF Exact
  <2>5. QED
    BY <2>1, <2>3, <2>4
<1>5. CASE ~(index < Len(units))
  <2>1. pc' = "negate" /\ index' = 0 /\ trail' = trail /\ cursor' = cursor
    BY <1>5 DEF PutUnit
  <2>2. TrailForced'
    BY <1>1, <1>3, <2>1, SameFixpoints DEF Exact, TrailForced, Testing
  <2>3. TrailConsistent' /\ TrailFresh'
    BY <1>1, <2>1 DEF Exact, TrailConsistent, Consistent, TrailFresh, Testing
  <2>4. \A i \in DOMAIN units : units[i] \in ToSet(trail)
    BY <1>1, <1>3, <1>5 DEF Exact, UnitsPut
  <2>5. UnitsPut'
    BY <1>3, <2>1, <2>4 DEF UnitsPut, ToSet
  <2>6. clause \in Seq(Literal)
    BY DEF Shape, TypeOK, ClauseType
  <2>7. NegationsPut' /\ OtherTrue' /\ Proved' /\ LastLine'
    BY <1>3, <2>1, <2>6 DEF NegationsPut, OtherTrue, Proved, LastLine
  <2>8. QED
    BY <1>2, <2>2, <2>3, <2>5, <2>7 DEF Exact
<1>6. QED
  BY <1>4, <1>5

LEMMA ExactNegation ==
    ASSUME Shape, Shape', Exact, PutNegation
    PROVE  Exact'
<1>1. pc = "negate" /\ UNCHANGED <<reading, database>> /\ Testing
  BY DEF PutNegation, Testing
<1>2. EmptyExact' /\ UnitsExact'
  BY <1>1, ExactDatabase
<1>3. clause \in Seq(Literal) /\ index \in Nat /\ units' = units /\ clause' = clause
      /\ clauses' = clauses /\ empty' = empty
  BY <1>1 DEF Shape, TypeOK, ClauseType, database, reading
<1>4. CASE index < Len(clause)
  <2> DEFINE lit == -clause[index + 1]
  <2>1. index + 1 \in DOMAIN clause /\ lit \in Literal /\ (Clash \/ Extended(lit))
    BY <1>4, NegationEffect
  <2>2. \A T \in Fixpoints : lit \in T
    BY <1>4, NegationEffect
  <2> HIDE DEF lit
  <2>3. CASE Clash
    BY <1>1, <2>3, ExactClash
  <2>4. CASE Extended(lit)
    <3>1. TrailForced' /\ TrailConsistent'
      BY <1>1, <1>3, <2>1, <2>2, <2>4, ExtendedTrail
    <3>2. /\ pc' = "negate" /\ cursor' = cursor /\ index' = index + 1
          /\ ToSet(trail') = ToSet(trail) \cup {lit}
      BY <1>1, <2>4 DEF Extended
    <3>3. TrailFresh' /\ UnitsPut' /\ OtherTrue' /\ Proved' /\ LastLine'
      BY <1>1, <1>3, <3>2 DEF Exact, TrailFresh, UnitsPut, OtherTrue, Proved, LastLine, Testing
    <3>4. ASSUME NEW i \in DOMAIN clause, i <= index + 1 PROVE -clause[i] \in ToSet(trail')
      <4>1. i <= index \/ i = index + 1
        BY <1>3, <3>4
      <4>2. QED
        BY <1>1, <3>2, <4>1 DEF Exact, NegationsPut, lit
    <3>5. NegationsPut'
      BY <1>3, <3>2, <3>4 DEF NegationsPut
    <3>6. QED
      BY <1>2, <3>1, <3>3, <3>5 DEF Exact
  <2>5. QED
    BY <2>1, <2>3, <2>4
<1>5. CASE ~(index < Len(clause))
  <2>1. pc' = "propagate" /\ index' = 0 /\ trail' = trail /\ cursor' = cursor /\ cursor = 0
    BY <1>1, <1>5 DEF PutNegation, Exact, TrailFresh
  <2>2. TrailForced'
    BY <1>1, <1>3, <2>1, SameFixpoints DEF Exact, TrailForced, Testing
  <2>3. TrailConsistent' /\ TrailFresh' /\ UnitsPut'
    BY <1>1, <1>3, <2>1 DEF Exact, TrailConsistent, Consistent, TrailFresh, UnitsPut, Testing
  <2>4. \A i \in DOMAIN clause : -clause[i] \in ToSet(trail)
    BY <1>1, <1>3, <1>5 DEF Exact, NegationsPut
  <2>5. NegationsPut'
    BY <1>3, <2>1, <2>4 DEF NegationsPut, Negated
  <2>6. watches' = watches /\ \A l \in Literal : watches[l] \in Seq(DOMAIN clauses)
    BY <1>1 DEF Shape, TypeOK, database
  <2>7. ASSUME NEW w \in Literal, NEW id, Visited(w, id)' PROVE FALSE
    BY <2>1, <2>6, <2>7 DEF Visited
  <2>8. OtherTrue'
    BY <2>7, OtherTrueNext
  <2>9. Proved' /\ LastLine'
    BY <2>1 DEF Proved, LastLine
  <2>10. QED
    BY <1>2, <2>2, <2>3, <2>5, <2>8, <2>9 DEF Exact
<1>6. QED
  BY <1>4, <1>5

\* What a visit leaves alone when it goes on to the next entry of the list.
Onward ==
    /\ Testing' /\ pc = "propagate" /\ pc' = pc
    /\ UNCHANGED <<reading, database, cursor>>
    /\ index' = index + 1
    /\ Len(trail') >= Len(trail)
    /\ \A j \in DOMAIN trail : trail'[j] = trail[j]
    /\ ToSet(trail) \subseteq ToSet(trail')

\* Going on past a clause whose other literal is true keeps the discipline.
LEMMA OnwardOtherTrue ==
    ASSUME Shape, Shape', Watching, Exact, Visiting, Onward, Other(identity) \in ToSet(trail')
    PROVE  OtherTrue'
<1> SUFFICES ASSUME NEW id \in DOMAIN clauses', Len(clauses'[id]) > 1, NEW s \in {1, 2},
                    NEW w \in Literal, w = clauses'[id][positions'[id][s]], Visited(w, id)'
             PROVE  clauses'[id][positions'[id][3 - s]] \in ToSet(trail')
  BY OtherTrueNext
<1>1. /\ pc = "propagate" /\ clauses' = clauses /\ positions' = positions /\ watches' = watches
      /\ cursor' = cursor /\ index' = index + 1 /\ ToSet(trail) \subseteq ToSet(trail')
      /\ \A j \in DOMAIN trail : trail'[j] = trail[j]
  BY DEF Onward, database
<1>2. /\ trail \in Seq(Literal) /\ cursor \in 0..Len(trail) /\ cursor < Len(trail)
      /\ index \in Nat /\ watches[w] \in Seq(DOMAIN clauses)
  BY DEF Shape, TypeOK, Visiting
<1>3. Visited(w, id) \/ (w = falseLit /\ id = identity)
  <2>1. CASE \E j \in 1..cursor : trail'[j] = -w
    <3>1. PICK j \in 1..cursor : trail'[j] = -w
      BY <2>1
    <3>2. trail[j] = -w
      BY <1>1, <1>2, <3>1
    <3>3. QED
      BY <3>1, <3>2 DEF Visited
  <2>2. CASE /\ trail'[cursor + 1] = -w
             /\ \E i \in DOMAIN watches[w] : i <= index + 1 /\ watches[w][i] = id
    <3>1. trail[cursor + 1] = -w
      BY <1>1, <1>2, <2>2
    <3>2. w = falseLit
      BY <3>1, LiteralFacts DEF falseLit
    <3>3. PICK i \in DOMAIN watches[w] : i <= index + 1 /\ watches[w][i] = id
      BY <2>2
    <3>4. i <= index \/ i = index + 1
      BY <1>2, <3>3
    <3>5. CASE i <= index
      BY <1>2, <3>1, <3>3, <3>5 DEF Visited
    <3>6. CASE i = index + 1
      BY <3>2, <3>3, <3>6 DEF identity, watched
    <3>7. QED
      BY <3>4, <3>5, <3>6
  <2>3. QED
    BY <1>1, <2>1, <2>2 DEF Visited
<1>4. CASE Visited(w, id)
  <2>1. clauses[id][positions[id][3 - s]] \in ToSet(trail)
    BY <1>1, <1>4 DEF Exact, OtherTrue
  <2>2. QED
    BY <1>1, <2>1
<1>5. CASE w = falseLit /\ id = identity
  <2>1. s = Side(id)
    <3>1. positions[id][1] # positions[id][2] /\ IsInjective(clauses[id])
          /\ positions[id][1] \in DOMAIN clauses[id] /\ positions[id][2] \in DOMAIN clauses[id]
      BY <1>1 DEF Watching, WatchesApart, NoRepeats, Shape, PositionsInside
    <3>2. clauses[id][positions[id][1]] # clauses[id][positions[id][2]]
      BY <3>1 DEF IsInjective
    <3>3. QED
      BY <1>1, <1>5, <3>2 DEF Side
  <2>2. QED
    BY <1>1, <1>5, <2>1 DEF Other
<1>6. QED
  BY <1>3, <1>4, <1>5

LEMMA ExactOnward ==
    ASSUME Shape, Shape', Watching, Exact, Visiting, Onward, Other(identity) \in ToSet(trail'),
           TrailForced', TrailConsistent'
    PROVE  Exact'
<1>1. /\ pc = "propagate" /\ pc' = pc /\ clauses' = clauses /\ units' = units /\ clause' = clause
      /\ ToSet(trail) \subseteq ToSet(trail') /\ UNCHANGED database
  BY DEF Onward, database, reading
<1>2. EmptyExact' /\ UnitsExact'
  BY <1>1, ExactDatabase
<1>3. OtherTrue'
  BY OnwardOtherTrue
<1>4. TrailFresh' /\ UnitsPut' /\ Proved' /\ LastLine'
  BY <1>1 DEF Exact, TrailFresh, UnitsPut, Proved, LastLine, Testing
<1>5. NegationsPut'
  BY <1>1 DEF Exact, NegationsPut, Negated
<1>6. QED
  BY <1>2, <1>3, <1>4, <1>5 DEF Exact

LEMMA ExactSkip ==
    ASSUME Shape, Shape', Watching, Exact, SkipSatisfied
    PROVE  Exact'
<1>1. /\ Visiting /\ IsTrue(Other(identity)) /\ index' = index + 1 /\ pc = "propagate"
      /\ UNCHANGED <<pc, reading, database, trail, cursor>>
  BY DEF SkipSatisfied, Visiting
<1>2. trail \in Seq(Literal)
  BY DEF Shape, TypeOK
<1>3. Onward
  BY <1>1, <1>2 DEF Onward, Testing
<1>4. TrailForced'
  BY <1>1, SameFixpoints DEF Exact, TrailForced, Testing, reading, database
<1>5. TrailConsistent'
  BY <1>1 DEF Exact, TrailConsistent, Consistent
<1>6. QED
  BY <1>1, <1>3, <1>4, <1>5, ExactOnward DEF IsTrue

\* With the rest of the clause false in a fixpoint, the other watch is in it.
LEMMA OtherForced ==
    ASSUME Shape, Watching, Exact, Visiting, Replacements(identity) = {}, NEW T \in Fixpoints
    PROVE  Other(identity) \in T
<1> DEFINE c == clauses[identity]
           o == Other(identity)
<1>1. /\ identity \in DOMAIN clauses /\ c \in Seq(Literal) /\ o \in Literal
      /\ falseLit \in Literal /\ positions[identity] \in [{1, 2} -> Nat] /\ Len(c) > 1
  BY VisitFacts
<1>2. ToSet(trail) \subseteq T
  BY DEF Exact, TrailForced, Testing, Visiting
<1>3. -falseLit \in T
  BY <1>2, FalseLitFacts
<1>4. WatchedLits(identity) = {falseLit, o}
  BY SideFacts
<1>5. ASSUME NEW m \in ToSet(c) \ {o} PROVE -m \in T
  <2>1. PICK k \in DOMAIN c : c[k] = m
    BY DEF ToSet
  <2>2. CASE k \in ToSet(positions[identity])
    <3>1. k = positions[identity][1] \/ k = positions[identity][2]
      BY <1>1, <2>2 DEF ToSet
    <3>2. m = falseLit
      BY <1>4, <1>5, <2>1, <3>1 DEF WatchedLits
    <3>3. QED
      BY <1>3, <3>2
  <2>3. CASE k \notin ToSet(positions[identity])
    <3>1. IsFalse(c[k])
      BY <2>3 DEF Replacements
    <3>2. QED
      BY <1>2, <2>1, <3>1 DEF IsFalse
  <2>4. QED
    BY <2>2, <2>3
<1>6. o \in ToSet(c)
  <2>1. o \in WatchedLits(identity)
    BY <1>4
  <2>2. positions[identity][1] \in DOMAIN c /\ positions[identity][2] \in DOMAIN c
    BY <1>1 DEF Shape, PositionsInside
  <2>3. QED
    BY <2>1, <2>2 DEF WatchedLits, ToSet
<1>7. QED
  BY <1>1, <1>5, <1>6 DEF Fixpoints, Closed

LEMMA ForceEffect ==
    ASSUME Shape, Watching, Exact, ForceOther
    PROVE  /\ Other(identity) \in Literal
           /\ \A T \in Fixpoints : Other(identity) \in T
           /\ Clash \/ Extended(Other(identity))
<1>1. Visiting /\ Replacements(identity) = {} /\ Put(Other(identity)) /\ Testing
  BY DEF ForceOther, Visiting, Testing
<1>2. Other(identity) \in Literal /\ \A T \in Fixpoints : Other(identity) \in T
  BY <1>1, VisitFacts, OtherForced
<1>3. QED
  BY <1>1, <1>2, PutEffect

LEMMA ExactForce ==
    ASSUME Shape, Shape', Watching, Exact, ForceOther
    PROVE  Exact'
<1> DEFINE lit == Other(identity)
<1>1. /\ Visiting /\ pc = "propagate" /\ Testing
      /\ UNCHANGED <<reading, database>>
  BY DEF ForceOther, Visiting, Testing
<1>2. lit \in Literal /\ (\A T \in Fixpoints : lit \in T) /\ (Clash \/ Extended(lit))
  BY ForceEffect
<1> HIDE DEF lit
<1>3. CASE Clash
  BY <1>1, <1>3, ExactClash
<1>4. CASE Extended(lit)
  <2>1. TrailForced' /\ TrailConsistent'
    BY <1>1, <1>2, <1>4, ExtendedTrail DEF reading, database
  <2>2. Onward /\ lit \in ToSet(trail')
    BY <1>1, <1>4 DEF Extended, Onward, Testing
  <2>3. QED
    BY <1>1, <2>1, <2>2, ExactOnward DEF lit
<1>5. QED
  BY <1>2, <1>3, <1>4

\* A literal is done when every clause that watches its negation is visited.
LEMMA ExactNextFalseLiteral ==
    ASSUME Shape, Shape', Watching, Exact, NextFalseLiteral
    PROVE  Exact'
<1>1. /\ pc = "propagate" /\ pc' = pc /\ cursor < Len(trail) /\ index = Len(watched)
      /\ cursor' = cursor + 1 /\ index' = 0 /\ trail' = trail /\ UNCHANGED <<reading, database>>
  BY DEF NextFalseLiteral
<1>2. EmptyExact' /\ UnitsExact'
  BY <1>1, ExactDatabase
<1>3. /\ clauses' = clauses /\ positions' = positions /\ watches' = watches /\ units' = units
      /\ clause' = clause /\ empty' = empty
  BY <1>1 DEF reading, database
<1>4. TrailForced' /\ TrailConsistent'
  BY <1>1, <1>3, SameFixpoints
     DEF Exact, TrailForced, TrailConsistent, Consistent, Testing
<1>5. TrailFresh' /\ UnitsPut' /\ Proved' /\ LastLine'
  BY <1>1, <1>3 DEF Exact, TrailFresh, UnitsPut, Proved, LastLine, Testing
<1>6. NegationsPut'
  BY <1>1, <1>3 DEF Exact, NegationsPut, Negated
<1>7. OtherTrue'
  <2> SUFFICES ASSUME NEW id \in DOMAIN clauses', Len(clauses'[id]) > 1, NEW s \in {1, 2},
                      NEW w \in Literal, w = clauses'[id][positions'[id][s]], Visited(w, id)'
               PROVE  clauses'[id][positions'[id][3 - s]] \in ToSet(trail')
    BY OtherTrueNext
  <2>1. /\ trail \in Seq(Literal) /\ cursor \in 0..Len(trail)
        /\ watches[w] \in Seq(DOMAIN clauses)
    BY DEF Shape, TypeOK
  <2>2. PICK j \in 1..cursor + 1 : trail[j] = -w
    <3>1. \A i \in DOMAIN watches[w] : ~(i <= 0)
      BY <2>1
    <3>2. QED
      BY <1>1, <1>3, <3>1 DEF Visited
  <2>3. Visited(w, id)
    <3>1. CASE j \in 1..cursor
      BY <2>2, <3>1 DEF Visited
    <3>2. CASE j = cursor + 1
      <4>1. w = falseLit
        BY <2>2, <3>2, LiteralFacts DEF falseLit
      <4>2. w \in WatchedLits(id)
        BY <1>3 DEF WatchedLits
      <4>3. id \in ToSet(watches[w])
        BY <1>3, <4>2 DEF Watching, ListsExact
      <4>4. PICK i \in DOMAIN watches[w] : watches[w][i] = id
        BY <4>3 DEF ToSet
      <4>5. i <= index
        BY <1>1, <2>1, <4>1, <4>4 DEF watched
      <4>6. QED
        BY <1>1, <2>2, <3>2, <4>4, <4>5 DEF Visited
    <3>3. QED
      BY <2>1, <2>2, <3>1, <3>2
  <2>4. QED
    BY <1>1, <1>3, <2>3 DEF Exact, OtherTrue
<1>8. QED
  BY <1>2, <1>4, <1>5, <1>6, <1>7 DEF Exact

\* A watch moves to a literal that is not false, so neither side of the
\* clause counts as visited afterwards, and the entries before the hole stay.
LEMMA ExactMove ==
    ASSUME Shape, Shape', Watching, Exact, MoveWatch
    PROVE  Exact'
<1> DEFINE f == falseLit
           o == Other(identity)
<1>1. /\ Visiting /\ pc = "propagate" /\ ~IsTrue(o)
      /\ UNCHANGED <<pc, reading, clauses, units, empty, trail, cursor, index>>
  BY DEF MoveWatch, Visiting, propagation
<1>2. PICK to \in Replacements(identity) : Moved(to)
  BY MoveEffect
<1> DEFINE t == clauses[identity][to]
<1>3. /\ f \in Literal /\ t \in Literal /\ o \in Literal /\ t # f /\ f # o
      /\ ~IsFalse(t) /\ WatchedLits(identity) = {f, o}
      /\ identity \in DOMAIN clauses /\ Side(identity) \in {1, 2}
  BY <1>1, <1>2, MoveFacts, SideFacts, VisitFacts
<1>4. /\ positions'[identity][Side(identity)] = to
      /\ positions'[identity][3 - Side(identity)] = positions[identity][3 - Side(identity)]
  BY <1>1, <1>2, MovedWatches
<1>5. /\ watches'[f] = FillHole(watches[f], index + 1)
      /\ watches'[t] = Append(watches[t], identity)
      /\ \A l \in Literal \ {f, t} : watches'[l] = watches[l]
      /\ \A j \in DOMAIN clauses : j # identity => positions'[j] = positions[j]
  BY <1>2 DEF Moved
<1>6. /\ UNCHANGED <<clauses, units, empty, clause, trail, cursor, index, phase, line, raw, tautology>>
      /\ pc' = "propagate"
  BY <1>1 DEF reading
<1>7. EmptyExact' /\ UnitsExact' /\ TrailForced' /\ TrailConsistent' /\ TrailFresh'
  BY <1>1, <1>6, SameFixpoints
     DEF Exact, EmptyExact, UnitsExact, TrailForced, TrailConsistent, Consistent, TrailFresh, Testing
<1>8. UnitsPut' /\ NegationsPut' /\ Proved' /\ LastLine'
  BY <1>1, <1>6 DEF Exact, UnitsPut, NegationsPut, Negated, Proved, LastLine
<1>9. trail \in Seq(Literal) /\ cursor \in 0..Len(trail) /\ cursor < Len(trail) /\ index \in Nat
  BY <1>1 DEF Shape, TypeOK, Visiting
<1> HIDE DEF f, o, t
<1>10. ASSUME NEW w \in Literal, NEW id, Visited(w, id) PROVE IsFalse(w)
  BY <1>9, <1>10 DEF Visited, IsFalse, ToSet
<1>11. \A w \in Literal : trail[cursor + 1] = -w => w = f
  BY LiteralFacts DEF falseLit, f
<1>12. ASSUME NEW w \in Literal, NEW id \in DOMAIN clauses, Visited(w, id)'
       PROVE  Visited(w, id)
  <2>1. CASE \E j \in 1..cursor : trail[j] = -w
    BY <2>1 DEF Visited
  <2>2. CASE /\ trail[cursor + 1] = -w
             /\ \E i \in DOMAIN watches'[w] : i <= index /\ watches'[w][i] = id
    <3>1. w = f
      BY <1>11, <2>2
    <3>2. PICK i \in DOMAIN watches'[f] : i <= index /\ watches'[f][i] = id
      BY <2>2, <3>1
    <3>3. /\ watches[f] \in Seq(DOMAIN clauses) /\ index + 1 \in 1..Len(watches[f])
          /\ IsInjective(watches[f])
      <4>1. watches[f] \in Seq(DOMAIN clauses) /\ IsInjective(watches[f])
        BY <1>3 DEF Shape, TypeOK, Watching, ListsSimple
      <4>2. index < Len(watches[f])
        BY <1>1 DEF Visiting, watched, f
      <4>3. QED
        BY <1>9, <4>1, <4>2
    <3>4. i \in 1..index
      <4>1. DOMAIN watches'[f] = 1..Len(watches[f]) - 1
        BY <1>5 DEF FillHole
      <4>2. QED
        BY <1>9, <3>2, <4>1
    <3>5. i \in 1..(index + 1) - 1
      BY <1>9, <3>4
    <3>6. watches'[f][i] = watches[f][i]
      BY <1>5, <3>3, <3>5, FillHoleFacts
    <3>7. i \in DOMAIN watches[f]
      BY <1>9, <3>3, <3>4
    <3>8. QED
      BY <1>9, <2>2, <3>1, <3>2, <3>6, <3>7 DEF Visited
  <2>3. QED
    BY <1>6, <1>12, <2>1, <2>2 DEF Visited
<1>13. OtherTrue'
  <2> SUFFICES ASSUME NEW id \in DOMAIN clauses', Len(clauses'[id]) > 1, NEW s \in {1, 2},
                      NEW w \in Literal, w = clauses'[id][positions'[id][s]], Visited(w, id)'
               PROVE  clauses'[id][positions'[id][3 - s]] \in ToSet(trail')
    BY OtherTrueNext
  <2>1. Visited(w, id)
    BY <1>6, <1>12
  <2>2. CASE id # identity
    BY <1>1, <1>5, <1>6, <2>1, <2>2 DEF Exact, OtherTrue
  <2>3. CASE id = identity
    <3>1. w # t
      BY <1>3, <1>10, <2>1
    <3>2. s = 3 - Side(identity)
      BY <1>3, <1>4, <1>6, <2>3, <3>1 DEF t
    <3>3. w = o /\ w = clauses[id][positions[id][s]]
      BY <1>4, <1>6, <2>3, <3>2 DEF o, Other
    <3>4. clauses[id][positions[id][3 - s]] \in ToSet(trail)
      BY <1>1, <1>6, <2>1, <3>3 DEF Exact, OtherTrue
    <3>5. 3 - s = Side(identity)
      BY <1>3, <3>2
    <3>6. falseLit \in ToSet(trail)
      BY <1>1, <2>3, <3>4, <3>5, SideFacts
    <3>7. -falseLit \in ToSet(trail)
      BY <1>1, FalseLitFacts
    <3>8. QED
      BY <3>6, <3>7 DEF Exact, TrailConsistent, Consistent
  <2>4. QED
    BY <2>2, <2>3
<1>14. QED
  BY <1>7, <1>8, <1>13 DEF Exact

\* What joins the database joins the flag and the list beside it.
LEMMA ExactAdd ==
    ASSUME Shape, Sound, Exact, AddClause
    PROVE  Exact'
<1>1. pc = "add" /\ UNCHANGED <<reading, propagation>>
  BY DEF AddClause
<1>2. CASE pc' = "rejected" /\ UNCHANGED database
  BY <1>1, <1>2, ExactReject DEF propagation
<1>3. raw' = raw /\ (raw = <<>> => ~tautology /\ clause = <<>>)
  BY <1>1, EmptyLine DEF reading
<1>4. CASE pc' = "next" /\ tautology /\ UNCHANGED database
  <2>1. Proved' /\ LastLine'
    BY <1>3, <1>4 DEF Proved, LastLine
  <2>2. QED
    BY <1>1, <1>4, <2>1, ExactOutside DEF Testing
<1>5. CASE pc' = "next" /\ Remember(clause)
  <2>1. /\ clause \in Seq(Literal) /\ clauses \in Seq(Seq(Literal)) /\ units \in Seq(Literal)
        /\ clauses' = Append(clauses, clause)
        /\ empty' = (empty \/ clause = <<>>)
        /\ units' = IF Len(clause) = 1 THEN Append(units, clause[1]) ELSE units
    BY <1>5 DEF Remember, Shape, TypeOK, ClauseType
  <2> DEFINE new == Len(clauses) + 1
  <2>2. /\ new \in DOMAIN clauses' /\ clauses'[new] = clause
        /\ \A id \in DOMAIN clauses : id \in DOMAIN clauses' /\ clauses'[id] = clauses[id]
        /\ \A id \in DOMAIN clauses' : id \in DOMAIN clauses \/ id = new
    BY <2>1
  <2> HIDE DEF new
  <2>3. EmptyExact'
    BY <2>1, <2>2 DEF Exact, EmptyExact
  <2>4. ASSUME Len(clause) = 1 PROVE clause[1] \in Literal
    <3>1. clause \in Seq(Literal) /\ 1 \in 1..Len(clause)
      BY <2>1, <2>4
    <3>2. QED
      BY <3>1, ElementOfSeq
  <2>5. ToSet(units') = IF Len(clause) = 1 THEN ToSet(units) \cup {clause[1]} ELSE ToSet(units)
    <3>1. CASE Len(clause) = 1
      <4>1. units' = Append(units, clause[1]) /\ units \in Seq(Literal) /\ clause[1] \in Literal
        BY <2>1, <2>4, <3>1
      <4>2. QED
        BY <3>1, <4>1, AppendFacts
    <3>2. CASE Len(clause) # 1
      BY <2>1, <3>2
    <3>3. QED
      BY <3>1, <3>2
  <2>6. \A id \in DOMAIN clauses' : Len(clauses'[id]) = 1 => clauses'[id][1] \in ToSet(units')
    BY <2>2, <2>5 DEF Exact, UnitsExact
  <2>7. ASSUME NEW u \in ToSet(units')
        PROVE  \E id \in DOMAIN clauses' : Len(clauses'[id]) = 1 /\ clauses'[id][1] = u
    <3>1. CASE u \in ToSet(units)
      <4>1. PICK i \in DOMAIN units : units[i] = u
        BY <3>1 DEF ToSet
      <4>2. PICK id \in DOMAIN clauses : Len(clauses[id]) = 1 /\ clauses[id][1] = u
        BY <4>1 DEF Exact, UnitsExact
      <4>3. QED
        BY <2>2, <4>2
    <3>2. CASE Len(clause) = 1 /\ u = clause[1]
      BY <2>2, <3>2
    <3>3. QED
      BY <2>5, <2>7, <3>1, <3>2
  <2>8. UnitsExact'
    BY <2>6, <2>7 DEF UnitsExact, ToSet
  <2>9. TrailForced' /\ UnitsPut' /\ NegationsPut' /\ OtherTrue' /\ Proved'
    BY <1>5 DEF TrailForced, UnitsPut, NegationsPut, OtherTrue, Proved, Testing
  <2>10. TrailConsistent' /\ TrailFresh'
    BY <1>1, <1>5 DEF Exact, TrailConsistent, Consistent, TrailFresh, propagation, Testing
  <2>11. LastLine'
    BY <1>3, <2>1 DEF LastLine
  <2>12. QED
    BY <2>3, <2>8, <2>9, <2>10, <2>11 DEF Exact
<1>6. QED
  BY <1>2, <1>4, <1>5 DEF AddClause, Reject

LEMMA ExactStep ==
    ASSUME Shape, Shape', Watching, Sound, Exact, Next
    PROVE  Exact'
<1>1. CASE Start
  <2>1. UNCHANGED <<database, propagation>> /\ pc = "start" /\ pc' \in {"next", "rejected"}
        /\ UNCHANGED reading
    BY <1>1 DEF Start, Reject
  <2>2. CASE pc' = "next"
    <3>1. Proved' /\ LastLine'
      BY <2>1, <2>2 DEF Sound, InputRead, Proved, LastLine, reading
    <3>2. QED
      BY <2>1, <2>2, <3>1, ExactOutside DEF Testing
  <2>3. CASE pc' = "rejected"
    BY <2>1, <2>3, ExactReject DEF propagation
  <2>4. QED
    BY <2>1, <2>2, <2>3
<1>2. CASE ReadInput
  BY <1>2, ExactBegin DEF ReadInput
<1>3. CASE BeginProof
  <2>1. pc = "next" /\ pc' = pc /\ line' = 0 /\ UNCHANGED <<database, propagation>>
    BY <1>3 DEF BeginProof
  <2>2. Proved' /\ LastLine'
    BY <2>1 DEF Proved, LastLine
  <2>3. QED
    BY <2>1, <2>2, ExactOutside DEF Testing
<1>4. CASE ReadProof
  BY <1>4, ExactBegin DEF ReadProof
<1>5. CASE Finish
  <2>1. pc = "next" /\ UNCHANGED <<database, propagation>> /\ pc' \in {"accepted", "rejected"}
    BY <1>5 DEF Finish, Reject
  <2>2. CASE pc' = "accepted"
    BY <2>1, <2>2, ExactOutside DEF Testing, Proved, LastLine
  <2>3. CASE pc' = "rejected"
    BY <2>1, <2>3, ExactReject DEF propagation
  <2>4. QED
    BY <2>1, <2>2, <2>3
<1>6. CASE ScanLiteral
  <2>1. pc = "scan" /\ UNCHANGED <<database, propagation>> /\ pc' \in {"scan", "rejected"}
    BY <1>6 DEF ScanLiteral, Reject
  <2>2. CASE pc' = "scan"
    BY <2>1, <2>2, ExactOutside DEF Testing, Proved, LastLine
  <2>3. CASE pc' = "rejected"
    BY <2>1, <2>3, ExactReject DEF propagation
  <2>4. QED
    BY <2>1, <2>2, <2>3
<1>7. CASE EndClause
  BY <1>7, ExactEndClause
<1>8. CASE PutUnit
  BY <1>8, ExactUnits
<1>9. CASE PutNegation
  BY <1>9, ExactNegation
<1>10. CASE SkipSatisfied
  BY <1>10, ExactSkip
<1>11. CASE MoveWatch
  BY <1>11, ExactMove
<1>12. CASE ForceOther
  BY <1>12, ExactForce
<1>13. CASE NextFalseLiteral
  BY <1>13, ExactNextFalseLiteral
<1>14. CASE NoConflict
  BY <1>14, ExactReject DEF NoConflict, Reject, propagation
<1>15. CASE AddClause
  BY <1>15, ExactAdd
<1>16. CASE Exhaust
  BY <1>16, ExactReject DEF Exhaust, Reject, propagation
<1>17. CASE Done
  <2>1. pc \in {"accepted", "rejected"} /\ pc' = pc /\ UNCHANGED <<database, propagation>>
    BY <1>17 DEF Done, vars
  <2>2. CASE pc = "accepted"
    BY <2>1, <2>2, ExactOutside DEF Testing, Proved, LastLine
  <2>3. CASE pc = "rejected"
    BY <2>1, <2>3, ExactReject DEF propagation
  <2>4. QED
    BY <2>1, <2>2, <2>3
<1>18. QED
  BY <1>1, <1>2, <1>3, <1>4, <1>5, <1>6, <1>7, <1>8, <1>9, <1>10, <1>11, <1>12, <1>13,
     <1>14, <1>15, <1>16, <1>17 DEF Next, Kernel

LEMMA ExactInit ==
    ASSUME Init
    PROVE  Exact
<1>1. /\ pc = "start" /\ clauses = <<>> /\ units = <<>> /\ trail = <<>> /\ ~empty
      /\ cursor = 0 /\ index = 0
  BY DEF Init
<1>2. EmptyExact /\ UnitsExact /\ TrailConsistent
  BY <1>1 DEF EmptyExact, UnitsExact, TrailConsistent, Consistent, ToSet
<1>3. TrailForced /\ TrailFresh /\ UnitsPut /\ NegationsPut /\ OtherTrue /\ Proved /\ LastLine
  BY <1>1 DEF TrailForced, TrailFresh, UnitsPut, NegationsPut, OtherTrue, Proved, LastLine, Testing
<1>4. QED
  BY <1>2, <1>3 DEF Exact

LEMMA ExactIdle ==
    ASSUME Shape, Shape', Exact, UNCHANGED vars
    PROVE  Exact'
<1>1. /\ UNCHANGED <<pc, phase, line, raw, clause, tautology, clauses, positions, watches,
                     units, empty, trail, cursor, index>>
      /\ UNCHANGED database
  BY DEF vars, reading, database, propagation
<1>2. EmptyExact' /\ UnitsExact' /\ TrailFresh' /\ UnitsPut' /\ LastLine'
  BY <1>1 DEF Exact, EmptyExact, UnitsExact, TrailFresh, UnitsPut, LastLine, Testing
<1>3. TrailForced' /\ TrailConsistent' /\ NegationsPut' /\ Proved'
  BY <1>1, SameFixpoints
     DEF Exact, TrailForced, TrailConsistent, Consistent, NegationsPut, Negated, Proved, Testing
<1>4. OtherTrue'
  <2>1. ASSUME NEW w, NEW id PROVE Visited(w, id)' <=> Visited(w, id)
    BY <1>1 DEF Visited
  <2>2. QED
    <3>1. CASE pc = "propagate"
      BY <1>1, <2>1, <3>1, OtherTrueNext DEF Exact, OtherTrue
    <3>2. CASE pc # "propagate"
      BY <1>1, <3>2 DEF OtherTrue
    <3>3. QED
      BY <3>1, <3>2
<1>5. QED
  BY <1>2, <1>3, <1>4 DEF Exact

LEMMA ExactInvariant == Spec => []Exact
<1>1. Init => Exact
  BY ExactInit
<1>2. Shape /\ Shape' /\ Watching /\ Sound /\ Exact /\ [Next]_vars => Exact'
  BY ExactStep, ExactIdle
<1>3. QED
  BY <1>1, <1>2, ShapeInvariant, WatchingInvariant, SoundInvariant, PTL DEF Spec

-----------------------------------------------------------------------------
(* The steps of the kernel as steps of RupCheck.                            *)

Over == pc \in {"accepted", "rejected"}

\* What an unfinished kernel shows of itself.
LEMMA Shown ==
    /\ ~Over => Verdict = phase
    /\ pc = "accepted" => Verdict = "accepted"
    /\ pc = "rejected" => Verdict = IF why = "not rup" THEN "invalid" ELSE "failed"
    /\ Claimed = IF Testing \/ (pc = "rejected" /\ why = "not rup")
                 THEN {ToSet(clause)} ELSE {}
BY DEF Over, Verdict, Claimed, Testing

LEMMA ShownNext ==
    /\ ~Over' => Verdict' = phase'
    /\ pc' = "accepted" => Verdict' = "accepted"
    /\ pc' = "rejected" => Verdict' = IF why' = "not rup" THEN "invalid" ELSE "failed"
    /\ Claimed' = IF Testing' \/ (pc' = "rejected" /\ why' = "not rup")
                  THEN {ToSet(clause')} ELSE {}
BY DEF Over, Verdict, Claimed, Testing

LEMMA SameFormula ==
    ASSUME clauses' = clauses
    PROVE  Formula' = Formula
BY DEF Formula

\* A step inside reading or testing a line shows nothing.
LEMMA Unseen ==
    ASSUME ~Over, ~Over', UNCHANGED <<phase, clauses>>, UNCHANGED clause \/ ~Testing, Testing <=> Testing'
    PROVE  UNCHANGED Abstract!absVars
<1>1. Verdict' = Verdict
  BY Shown, ShownNext
<1>2. Claimed' = Claimed
  BY Shown, ShownNext DEF Over, Testing
<1>3. QED
  BY <1>1, <1>2, SameFormula DEF Abstract!absVars, Formula

LEMMA Failed ==
    ASSUME Shape, ~Over, pc' = "rejected", why' # "not rup", UNCHANGED clauses
    PROVE  Abstract!Next
<1>1. Verdict \in {"input", "proof"}
  BY Shown DEF Shape, TypeOK
<1>2. Verdict' = "failed" /\ Claimed' = {}
  BY ShownNext DEF Testing
<1>3. Abstract!Fail
  BY <1>1, <1>2, SameFormula DEF Abstract!Fail, Formula
<1>4. QED
  BY <1>3 DEF Abstract!Next

LEMMA LineIsClaim ==
    ASSUME Shape
    PROVE  ToSet(clause) \in SUBSET Abstract!Lits
<1>1. Abstract!Lits = Literal
  BY DEF Abstract!Lits, Literal
<1>2. QED
  BY <1>1, ToSetInto DEF Shape, TypeOK, ClauseType

\* A test ends in a conflict, or goes on unseen.
LEMMA Tested ==
    ASSUME Shape, Sound, Exact, Testing, Clash \/ Testing', UNCHANGED <<reading, database>>
    PROVE  [Abstract!Next]_Abstract!absVars
<1>1. phase = "proof" /\ phase' = phase /\ clause' = clause /\ clauses' = clauses
  BY DEF Shape, TypeOK, Sound, InputRead, reading, database
<1>2. CASE Testing'
  BY <1>1, <1>2, Unseen DEF Testing, Over
<1>3. CASE Clash
  <2>1. pc' = "add" /\ Contradicted
    BY <1>3 DEF Clash
  <2>2. Verdict = "proof" /\ Verdict' = "proof" /\ Claimed = {ToSet(clause)} /\ Claimed' = {}
    BY <1>1, <2>1, Shown, ShownNext DEF Over, Testing
  <2>3. Abstract!Refutes(Formula, ToSet(clause))
    BY <2>1, RefutesMeaning
  <2>4. Abstract!Prove
    BY <1>1, <2>2, <2>3, SameFormula DEF Abstract!Prove, Formula
  <2>5. QED
    BY <2>4 DEF Abstract!Next
<1>4. QED
  BY <1>2, <1>3

\* At the end of the trail, the trail is a consistent fixpoint.
LEMMA TrailIsFixpoint ==
    ASSUME Shape, Watching, Exact, pc = "propagate", cursor = Len(trail)
    PROVE  ~Contradicted
<1> DEFINE T == ToSet(trail)
<1>1. trail \in Seq(Literal) /\ T \in SUBSET Literal
  BY ToSetInto DEF Shape, TypeOK
<1>2. Consistent(T) /\ Negated(T) /\ ToSet(units) \subseteq T
  BY DEF Exact, TrailConsistent, NegationsPut, UnitsPut
<1>3. ASSUME NEW w \in Literal, -w \in T, NEW id PROVE Visited(w, id)
  <2>1. PICK j \in DOMAIN trail : trail[j] = -w
    BY <1>3 DEF ToSet
  <2>2. j \in 1..cursor
    BY <1>1, <2>1
  <2>3. QED
    BY <2>1, <2>2 DEF Visited
<1>4. ASSUME NEW id \in DOMAIN clauses, NEW l \in ToSet(clauses[id]),
             \A m \in ToSet(clauses[id]) \ {l} : -m \in T
      PROVE  l \in T
  <2> DEFINE c == clauses[id]
             w1 == c[positions[id][1]]
             w2 == c[positions[id][2]]
  <2>1. c \in Seq(Literal)
    BY DEF Shape, TypeOK, ClauseType
  <2>2. CASE Len(c) = 1
    <3>1. DOMAIN c = {1} /\ c[1] \in T
      BY <1>2, <2>1, <2>2 DEF Exact, UnitsExact
    <3>2. QED
      BY <3>1 DEF ToSet
  <2>3. CASE Len(c) > 1
    <3>1. positions[id][1] \in DOMAIN c /\ positions[id][2] \in DOMAIN c
          /\ positions[id][1] # positions[id][2] /\ IsInjective(c)
      BY <2>3 DEF Shape, PositionsInside, Watching, WatchesApart, NoRepeats
    <3>2. w1 \in ToSet(c) /\ w2 \in ToSet(c) /\ w1 # w2 /\ w1 \in Literal /\ w2 \in Literal
      BY <2>1, <3>1, ElementOfSeq DEF ToSet, IsInjective
    <3>3. Visited(w1, id) => w2 \in T
      BY <2>3 DEF Exact, OtherTrue
    <3>4. Visited(w2, id) => w1 \in T
      BY <2>3 DEF Exact, OtherTrue
    <3> HIDE DEF w1, w2, T
    <3>5. CASE l = w1
      BY <1>3, <1>4, <3>2, <3>4, <3>5
    <3>6. CASE l = w2
      BY <1>3, <1>4, <3>2, <3>3, <3>6
    <3>7. CASE l # w1 /\ l # w2
      <4>1. -w1 \in T /\ -w2 \in T
        BY <1>4, <3>2, <3>7
      <4>2. w2 \in T
        BY <1>3, <3>2, <3>3, <4>1
      <4>3. QED
        BY <1>2, <4>1, <4>2 DEF Consistent
    <3>8. QED
      BY <3>5, <3>6, <3>7
  <2>4. Len(c) # 0
    BY <2>1 DEF ToSet
  <2>5. Len(c) \in Nat
    BY <2>1
  <2>6. Len(c) = 1 \/ Len(c) > 1
    <3>1. \A n \in Nat : n # 0 => n = 1 \/ n > 1
      OBVIOUS
    <3>2. QED
      BY ONLY <2>4, <2>5, <3>1
  <2>7. QED
    BY <2>2, <2>3, <2>6
<1>5. T \in Fixpoints
  BY <1>1, <1>2, <1>4 DEF Fixpoints, Closed
<1>6. ~\E id \in DOMAIN clauses : clauses[id] = <<>>
  BY DEF Exact, TrailForced, EmptyExact, Testing
<1>7. QED
  BY <1>2, <1>5, <1>6 DEF Contradicted

\* A line that is not a consequence by propagation is denied, and only then.
LEMMA Denied ==
    ASSUME Shape, Watching, Sound, Exact, NoConflict
    PROVE  Abstract!Next
<1>1. /\ pc = "propagate" /\ cursor = Len(trail) /\ pc' = "rejected" /\ why' = "not rup"
      /\ UNCHANGED <<reading, database>>
  BY DEF NoConflict, Reject
<1>2. phase = "proof"
  BY <1>1 DEF Shape, TypeOK, Sound, InputRead, Testing
<1>3. Verdict = "proof" /\ Verdict' = "invalid" /\ Claimed = {ToSet(clause)} /\ Claimed' = Claimed
  BY <1>1, <1>2, Shown, ShownNext DEF Over, Testing, reading
<1>4. ~Abstract!Refutes(Formula, ToSet(clause))
  BY <1>1, RefutesMeaning, TrailIsFixpoint
<1>5. Abstract!Deny
  BY <1>1, <1>3, <1>4, SameFormula DEF Abstract!Deny, Formula, database
<1>6. QED
  BY <1>5 DEF Abstract!Next

\* An input clause is loaded; a line of the proof is learned when it is
\* refuted; a tautology is not kept.
LEMMA Added ==
    ASSUME Shape, Sound, Exact, AddClause
    PROVE  [Abstract!Next]_Abstract!absVars
<1>1. pc = "add" /\ UNCHANGED reading /\ phase' = phase /\ clause' = clause
  BY DEF AddClause, reading
<1>2. CASE pc' = "rejected" /\ UNCHANGED database
  <2>1. why' # "not rup"
    BY <1>2 DEF AddClause, Reject
  <2>2. QED
    BY <1>1, <1>2, <2>1, Failed DEF Over, database
<1>3. CASE pc' = "next" /\ tautology /\ UNCHANGED database
  BY <1>1, <1>3, Unseen DEF Over, Testing, database
<1>4. CASE pc' = "next" /\ ~tautology /\ Remember(clause)
  <2>1. Verdict = phase /\ Verdict' = phase /\ Claimed = {} /\ Claimed' = {}
    BY <1>1, <1>4, Shown, ShownNext DEF Over, Testing
  <2>2. clauses \in Seq(Seq(Literal)) /\ clause \in Seq(Literal) /\ clauses' = Append(clauses, clause)
    BY <1>4 DEF Remember, Shape, TypeOK, ClauseType
  <2> DEFINE new == Len(clauses) + 1
  <2>3. /\ new \in DOMAIN clauses' /\ clauses'[new] = clause
        /\ \A id \in DOMAIN clauses : id \in DOMAIN clauses' /\ clauses'[id] = clauses[id]
        /\ \A id \in DOMAIN clauses' : id \in DOMAIN clauses \/ id = new
    BY <2>2
  <2> HIDE DEF new
  <2>4. Formula' = Formula \cup {ToSet(clause)}
    BY <2>3 DEF Formula
  <2>5. CASE phase = "input"
    <3>1. Abstract!Load
      BY <2>1, <2>4, <2>5, LineIsClaim DEF Abstract!Load, Formula
    <3>2. QED
      BY <3>1 DEF Abstract!Next
  <2>6. CASE phase = "proof"
    <3>1. Abstract!Refutes(Formula, ToSet(clause))
      BY <1>1, <1>4, <2>6, RefutesMeaning DEF Exact, Proved
    <3>2. Abstract!Learn
      BY <2>1, <2>4, <2>6, <3>1, LineIsClaim DEF Abstract!Learn, Formula
    <3>3. QED
      BY <3>2 DEF Abstract!Next
  <2>7. QED
    BY <2>5, <2>6 DEF Shape, TypeOK
<1>5. QED
  BY <1>2, <1>3, <1>4 DEF AddClause, Reject

\* A line that has to be tested is claimed.
LEMMA Ended ==
    ASSUME Shape, EndClause
    PROVE  [Abstract!Next]_Abstract!absVars
<1>1. pc = "scan" /\ phase' = phase /\ clause' = clause /\ clauses' = clauses
  BY DEF EndClause, database
<1>2. CASE pc' = "rejected"
  <2>1. why' # "not rup"
    BY <1>2 DEF EndClause, Reject
  <2>2. QED
    BY <1>1, <1>2, <2>1, Failed DEF Over
<1>3. CASE pc' = "add"
  BY <1>1, <1>3, Unseen DEF Over, Testing
<1>4. CASE pc' = "units" /\ phase # "input"
  <2>1. phase = "proof"
    BY <1>4 DEF Shape, TypeOK
  <2>2. Verdict = "proof" /\ Verdict' = "proof" /\ Claimed = {} /\ Claimed' = {ToSet(clause)}
    BY <1>1, <1>4, <2>1, Shown, ShownNext DEF Over, Testing
  <2>3. Abstract!Claim
    BY <1>1, <2>2, SameFormula, LineIsClaim DEF Abstract!Claim, Formula
  <2>4. QED
    BY <2>3 DEF Abstract!Next
<1>5. QED
  BY <1>2, <1>3, <1>4 DEF EndClause, Reject

\* A proof is accepted once its last line is the empty clause, which by then
\* is in the database.
LEMMA Finished ==
    ASSUME Shape, Sound, Exact, Finish
    PROVE  Abstract!Next
<1>1. /\ pc = "next" /\ phase = "proof" /\ line = proofLength /\ clauses' = clauses
      /\ UNCHANGED database
  BY DEF Finish, database
<1>2. CASE pc' = "rejected" /\ why' = "no empty clause"
  BY <1>1, <1>2, Failed DEF Over
<1>3. CASE pc' = "accepted" /\ raw = <<>>
  <2>1. line > 0
    BY <1>1 DEF Sound, Refuted
  <2>2. {} \in Formula
    BY <1>1, <1>3, <2>1, RefutesMeaning DEF Exact, LastLine, EmptyExact
  <2>3. Verdict = "proof" /\ Verdict' = "accepted" /\ Claimed = {} /\ Claimed' = {}
    BY <1>1, <1>3, Shown, ShownNext DEF Over, Testing
  <2>4. Abstract!Accept
    BY <1>1, <2>2, <2>3, SameFormula DEF Abstract!Accept, Formula
  <2>5. QED
    BY <2>4 DEF Abstract!Next
<1>4. QED
  BY <1>2, <1>3 DEF Finish, Reject

LEMMA NextImplements ==
    ASSUME Kept, Next
    PROVE  [Abstract!Next]_Abstract!absVars
<1> USE DEF Kept
<1>1. CASE Start
  <2>1. pc = "start" /\ phase' = phase /\ clause' = clause /\ clauses' = clauses
    BY <1>1 DEF Start, reading, database
  <2>2. pc' = "next" \/ (pc' = "rejected" /\ why' # "not rup")
    BY <1>1 DEF Start, Reject
  <2>3. QED
    BY <2>1, <2>2, Unseen, Failed DEF Over, Testing
<1>2. ASSUME NEW c, BeginClause(c), pc = "next", phase' = phase, UNCHANGED database
      PROVE  [Abstract!Next]_Abstract!absVars
  <2>1. clauses' = clauses
    BY <1>2 DEF database
  <2>2. pc' = "scan" \/ (pc' = "rejected" /\ why' # "not rup")
    BY <1>2 DEF BeginClause, Reject
  <2>3. QED
    BY <1>2, <2>1, <2>2, Unseen, Failed DEF Over, Testing
<1>3. CASE ReadInput \/ ReadProof
  BY <1>2, <1>3 DEF ReadInput, ReadProof
<1>4. CASE BeginProof
  <2>1. pc = "next" /\ pc' = pc /\ phase = "input" /\ phase' = "proof" /\ clauses' = clauses
    BY <1>4 DEF BeginProof, database
  <2>2. Verdict = "input" /\ Verdict' = "proof" /\ Claimed = {} /\ Claimed' = {}
    BY <2>1, Shown, ShownNext DEF Over, Testing
  <2>3. Abstract!BeginProof
    BY <2>1, <2>2, SameFormula DEF Abstract!BeginProof, Formula
  <2>4. QED
    BY <2>3 DEF Abstract!Next
<1>5. CASE Finish
  BY <1>5, Finished
<1>6. CASE ScanLiteral
  <2>1. pc = "scan" /\ phase' = phase /\ clauses' = clauses
    BY <1>6 DEF ScanLiteral, database
  <2>2. pc' = "scan" \/ (pc' = "rejected" /\ why' # "not rup")
    BY <1>6, <2>1 DEF ScanLiteral, Reject
  <2>3. QED
    BY <2>1, <2>2, Unseen, Failed DEF Over, Testing
<1>7. CASE EndClause
  BY <1>7, Ended
<1>8. CASE PutUnit
  <2>1. pc = "units" /\ Testing /\ UNCHANGED <<reading, database>>
    BY <1>8 DEF PutUnit, Testing
  <2>2. CASE index < Len(units)
    <3>1. Clash \/ Extended(units[index + 1])
      BY <1>8, <2>2, UnitEffect
    <3>2. Clash \/ Testing'
      BY <2>1, <3>1 DEF Extended, Testing
    <3>3. QED
      BY <2>1, <3>2, Tested
  <2>3. CASE ~(index < Len(units))
    BY <1>8, <2>1, <2>3, Tested DEF PutUnit, Testing
  <2>4. QED
    BY <2>2, <2>3
<1>9. CASE PutNegation
  <2>1. pc = "negate" /\ Testing /\ UNCHANGED <<reading, database>>
    BY <1>9 DEF PutNegation, Testing
  <2>2. CASE index < Len(clause)
    <3>1. Clash \/ Extended(-clause[index + 1])
      BY <1>9, <2>2, NegationEffect
    <3>2. Clash \/ Testing'
      BY <2>1, <3>1 DEF Extended, Testing
    <3>3. QED
      BY <2>1, <3>2, Tested
  <2>3. CASE ~(index < Len(clause))
    BY <1>9, <2>1, <2>3, Tested DEF PutNegation, Testing
  <2>4. QED
    BY <2>2, <2>3
<1>10. CASE SkipSatisfied \/ NextFalseLiteral
  BY <1>10, Tested DEF SkipSatisfied, NextFalseLiteral, Visiting, Testing
<1>11. CASE MoveWatch
  <2>1. /\ pc = "propagate" /\ pc' = pc /\ phase' = phase /\ clause' = clause /\ clauses' = clauses
    BY <1>11 DEF MoveWatch, Visiting, reading
  <2>2. QED
    BY <2>1, Unseen DEF Over, Testing
<1>12. CASE ForceOther
  <2>1. pc = "propagate" /\ Testing /\ UNCHANGED <<reading, database>>
    BY <1>12 DEF ForceOther, Visiting, Testing
  <2>2. Clash \/ Extended(Other(identity))
    BY <1>12, ForceEffect
  <2>3. Clash \/ Testing'
    BY <2>1, <2>2 DEF Extended, Testing
  <2>4. QED
    BY <2>1, <2>3, Tested
<1>13. CASE NoConflict
  BY <1>13, Denied
<1>14. CASE AddClause
  BY <1>14, Added
<1>15. CASE Exhaust
  <2>1. ~Over /\ pc' = "rejected" /\ why' # "not rup" /\ clauses' = clauses
    BY <1>15 DEF Exhaust, Spending, Visiting, Reject, Over, database
  <2>2. QED
    BY <2>1, Failed
<1>16. CASE Done
  <2>1. UNCHANGED vars
    BY <1>16 DEF Done
  <2>2. QED
    BY <2>1 DEF vars, reading, database, Abstract!absVars, Verdict, Claimed
<1>17. QED
  BY <1>1, <1>3, <1>4, <1>5, <1>6, <1>7, <1>8, <1>9, <1>10, <1>11, <1>12, <1>13, <1>14,
     <1>15, <1>16 DEF Next, Kernel

\* The kernel keeps what RupCheck promises: a line is let in exactly when it
\* follows by unit propagation in the textbook sense, denied exactly when it
\* does not, and a proof is accepted only with the empty clause let in.
THEOREM KernelDecidesRup == Spec => ImplementsRupCheck
<1>1. Init => Abstract!Init
  BY DEF Init, Abstract!Init, Verdict, Claimed
<1>2. Kept /\ [Next]_vars => [Abstract!Next]_Abstract!absVars
  <2>1. ASSUME UNCHANGED vars PROVE UNCHANGED Abstract!absVars
    BY <2>1 DEF vars, reading, database, Abstract!absVars, Verdict, Claimed
  <2>2. QED
    BY <2>1, NextImplements
<1>3. Shape /\ Watching /\ Sound /\ Exact => Kept
  BY DEF Kept
<1>4. QED
  BY <1>1, <1>2, <1>3, ShapeInvariant, WatchingInvariant, SoundInvariant, ExactInvariant, PTL
     DEF Spec, ImplementsRupCheck, Abstract!Spec
=============================================================================
