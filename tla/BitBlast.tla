------------------------------- MODULE BitBlast -------------------------------
(***************************************************************************)
(* sequential_cnf.py: the deterministic translation of a circuit, unrolled   *)
(* over cycles, into clauses.  Bits are little-endian signed literals;        *)
(* literal 1 is true and -1 is false.                                         *)
(*                                                                         *)
(* A formula q holds the number of variables, the clauses, the cache of      *)
(* gates, and in out the literal or the bits that the last operator           *)
(* returned; operators thread q in the order in which the code calls them.    *)
(* The limits of Meter are left to the user of the module.                    *)
(***************************************************************************)
EXTENDS TransitionIR

NoFormula == [variables |-> 1, clauses |-> <<<<1>>>>, cache |-> <<>>, out |-> <<>>]

With(q, out) == [q EXCEPT !.out = out]

\* The rest of a translation, with the formula and the result so far.
Then(q, Rest(_)) == Rest(q)

Variable(q) == [q EXCEPT !.variables = @ + 1, !.out = q.variables + 1]

Bits(q, width) ==
    [q EXCEPT !.variables = @ + width, !.out = [i \in 1..width |-> q.variables + i]]

ConstBits(v, width) == [i \in 1..width |-> IF (v \div 2^(i - 1)) % 2 = 1 THEN 1 ELSE -1]

\* Satisfied clauses are dropped, false and repeated literals left out.
Clause(q, lits) ==
    IF \E i \in DOMAIN lits : lits[i] = 1 \/ \E j \in 1..(i - 1) : lits[j] = -lits[i]
    THEN q
    ELSE LET Keep(kept, l) == IF l = -1 \/ Contains(kept, l) THEN kept ELSE Append(kept, l)
         IN  [q EXCEPT !.clauses = Append(@, FoldLeft(Keep, <<>>, lits))]

\* A gate that was built before is used again.
Gate(q, key, Build(_)) ==
    IF key \in DOMAIN q.cache THEN With(q, q.cache[key])
    ELSE Then(Variable(q), LAMBDA r :
            [FoldLeft(Clause, r, Build(r.out)) EXCEPT !.cache = (key :> r.out) @@ @])

AndClauses(a, b, v) == <<<<-v, a>>, <<-v, b>>, <<v, -a, -b>>>>
XorClauses(a, b, v) == <<<<a, b, -v>>, <<-a, -b, -v>>, <<a, -b, v>>, <<-a, b, v>>>>

AndGate(q, a, b) ==
    IF a = -1 \/ b = -1 \/ a = -b THEN With(q, -1)
    ELSE IF a = 1 THEN With(q, b)
    ELSE IF b = 1 \/ a = b THEN With(q, a)
    ELSE Gate(q, <<"and", {a, b}>>, LAMBDA v : AndClauses(a, b, v))

NegateIf(condition, q) == IF condition THEN With(q, -q.out) ELSE q
Negate(q) == NegateIf(TRUE, q)
OrGate(q, a, b) == Negate(AndGate(q, -a, -b))

XorGate(q, a, b) ==
    IF a = b THEN With(q, -1)
    ELSE IF a = -b THEN With(q, 1)
    ELSE IF a \in {1, -1} THEN With(q, IF a = 1 THEN -b ELSE b)
    ELSE IF b \in {1, -1} THEN With(q, IF b = 1 THEN -a ELSE a)
    ELSE Gate(q, <<"xor", {a, b}>>, LAMBDA v : XorClauses(a, b, v))

AllOf(q, lits) == FoldLeft(LAMBDA r, l : AndGate(r, r.out, l), With(q, 1), lits)
Inverted(bits) == [i \in DOMAIN bits |-> -bits[i]]
AnyOf(q, lits) == Negate(AllOf(q, Inverted(lits)))

MuxGate(q, select, yes, no) ==
    IF yes = no THEN With(q, yes)
    ELSE Then(AndGate(q, select, yes), LAMBDA y :
         Then(AndGate(y, -select, no), LAMBDA n : OrGate(n, y.out, n.out)))

\* Position by position: the results of Op, collected.
Collect(q, bits) == With(q, Append(bits, q.out))
Each(q, width, Op(_, _)) ==
    FoldLeft(LAMBDA r, i : Collect(Op(r, i), r.out), With(q, <<>>), [i \in 1..width |-> i])

Same(q, a, b) ==
    Then(Each(q, Len(a), LAMBDA r, i : Negate(XorGate(r, a[i], b[i]))), LAMBDA equal :
        AllOf(equal, equal.out))

\* Ripple carry: the result is the sum, the last carry is lost.
FullAdder(r, x, y) ==
    Then(XorGate(r.q, x, y), LAMBDA xy :
    Then(XorGate(xy, xy.out, r.carry), LAMBDA sum :
    Then(AndGate(sum, x, y), LAMBDA both :
    Then(AndGate(both, xy.out, r.carry), LAMBDA through :
    Then(OrGate(through, both.out, through.out), LAMBDA carry :
        [q |-> carry, carry |-> carry.out, bits |-> Append(r.bits, sum.out)])))))

Adder(q, a, b, carry) ==
    Then(FoldLeftDomain(LAMBDA r, i : FullAdder(r, a[i], b[i]),
                        [q |-> q, carry |-> carry, bits |-> <<>>], a), LAMBDA added :
        With(added.q, added.bits))

\* From the lowest bit up; signed numbers compare with the sign bits flipped.
LessSoFar(q, x, y) ==
    Then(AndGate(q, -x, y), LAMBDA below :
    Then(XorGate(below, x, y), LAMBDA differ :
    Then(AndGate(differ, -differ.out, q.out), LAMBDA kept :
        OrGate(kept, below.out, kept.out))))

\* Mutant: the sign bits are not flipped.
LessUnsigned(q, a, b, signed) ==
    FoldLeftDomain(LAMBDA r, i : LessSoFar(r, a[i], b[i]), With(q, -1), a)

Less(q, a, b, signed) ==
    LET Flip(bits) == IF signed THEN [bits EXCEPT ![Len(bits)] = -@] ELSE bits
    IN  FoldLeftDomain(LAMBDA r, i : LessSoFar(r, Flip(a)[i], Flip(b)[i]), With(q, -1), a)

Repeat(bit, n) == [i \in 1..n |-> bit]
Boolean(q, width) == With(q, <<q.out>> \o Repeat(-1, width - 1))

\* One row of products for each bit of the multiplier.
Products(q, a, bit, width) == Each(q, width, LAMBDA r, i : AndGate(r, a[i], bit))

Multiplier(q, a, b, width) ==
    LET Row(r, j) ==
            Then(Products(r, a, b[j], width - j + 1), LAMBDA row :
                Adder(row, r.out, Repeat(-1, j - 1) \o row.out, -1))
    IN  FoldLeftDomain(Row, With(q, ConstBits(0, width)), b)

\* One stage of multiplexers for each bit of the count.
Moved(op, bits, by, fill) ==
    IF op \in LeftShifts THEN Repeat(-1, by) \o SubSeq(bits, 1, Len(bits) - by)
    ELSE SubSeq(bits, by + 1, Len(bits)) \o Repeat(fill, by)

Shifter(q, op, a, count, fill) ==
    LET Choice(r, select, shifted, bits) ==
            Each(r, Len(bits), LAMBDA s, i : MuxGate(s, select, shifted[i], bits[i]))
        Distance(j) == Min({2^(j - 1), Len(a)})
    IN  FoldLeftDomain(LAMBDA r, j : Choice(r, count[j], Moved(op, r.out, Distance(j), fill), r.out),
                       With(q, a), count)

Ordering(q, op, a, b, signed) ==
    LET reverse == op \in {"GreaterThan", "LessThanEqual"}
    IN  NegateIf(op \in {"LessThanEqual", "GreaterThanEqual"},
                 Less(q, IF reverse THEN b ELSE a, IF reverse THEN a ELSE b, signed))

Reduction(q, op, bits) ==
    NegateIf(op \in Negated,
        CASE op \in {"BitwiseAnd", "BitwiseNand"} -> AllOf(q, bits)
          [] op \in {"BitwiseOr", "BitwiseNor"} -> AnyOf(q, bits)
          [] op \in {"BitwiseXor", "BitwiseXnor"} ->
                FoldLeft(LAMBDA r, l : XorGate(r, r.out, l), With(q, -1), bits))

LogicGate(q, op, a, b) ==
    Then(AnyOf(q, a), LAMBDA left :
    Then(AnyOf(left, b), LAMBDA right :
        IF op = "LogicalAnd" THEN AndGate(right, left.out, right.out)
        ELSE OrGate(right, left.out, right.out)))

BitGate(q, op, x, y) ==
    CASE op = "BinaryAnd" -> AndGate(q, x, y)
      [] op = "BinaryOr" -> OrGate(q, x, y)
      [] op \in {"BinaryXor", "BinaryXnor"} -> NegateIf(op = "BinaryXnor", XorGate(q, x, y))

\* The bits of a node; of are the operand nodes, a their bits.
LowerNode(q, n, of, a) ==
    LET op == n.op
        sign == IF of[1].signed THEN Last(a[1]) ELSE -1
        bothSigned == \A j \in DOMAIN of : of[j].signed
    IN  CASE op = "const" -> With(q, ConstBits(n.value, n.width))
          [] op = "cast" -> With(q, SubSeq(a[1] \o Repeat(sign, n.width), 1, n.width))
          [] op = "mux" ->
                Then(AnyOf(q, a[1]), LAMBDA s :
                    Each(s, n.width, LAMBDA r, i : MuxGate(r, s.out, a[2][i], a[3][i])))
          [] op = "slice" -> With(q, SubSeq(a[1], n.value + 1, n.value + n.width))
          [] op = "concat" -> With(q, FlattenSeq(Reverse(a)))
          [] op = "Add" -> Adder(q, a[1], a[2], -1)
          [] op = "Subtract" -> Adder(q, a[1], Inverted(a[2]), 1)
          [] op = "Multiply" -> Multiplier(q, a[1], a[2], n.width)
          [] op \in Bitwise2 -> Each(q, n.width, LAMBDA r, i : BitGate(r, op, a[1][i], a[2][i]))
          [] op \in {"Equality", "Inequality"} ->
                Boolean(NegateIf(op = "Inequality", Same(q, a[1], a[2])), n.width)
          [] op \in Orders -> Boolean(Ordering(q, op, a[1], a[2], bothSigned), n.width)
          [] op \in Logical -> Boolean(LogicGate(q, op, a[1], a[2]), n.width)
          [] op \in Shifts ->
                Shifter(q, op, a[1], a[2], IF op = "ArithmeticShiftRight" THEN sign ELSE -1)
          [] op = "Plus" -> With(q, a[1])
          [] op = "Minus" -> Adder(q, ConstBits(0, n.width), Inverted(a[1]), 1)
          [] op = "BitwiseNot" -> With(q, Inverted(a[1]))
          [] op = "LogicalNot" -> Boolean(Negate(AnyOf(q, a[1])), n.width)
          [] op \in Reductions -> Boolean(Reduction(q, op, a[1]), n.width)

-----------------------------------------------------------------------------
(* The unrolling: u holds the formula, the bits of the signals in each       *)
(* cycle and the bits of the nodes lowered so far in each cycle.             *)

NewUnroller == [cnf |-> NoFormula, frames |-> <<>>, nodes |-> <<>>]

NodeBits(c, u, n, t) ==
    IF n.op = "ref" THEN With(u.cnf, u.frames[t][n.name])
    ELSE LowerNode(u.cnf, n, [j \in DOMAIN n.args |-> c.nodes[n.args[j]]],
                   [j \in DOMAIN n.args |-> u.nodes[t][n.args[j]]])

\* The explicit stack of the code visits operands from left to right, once each.
RECURSIVE Lower(_, _, _, _)
Lower(c, u, i, t) ==
    IF i \in DOMAIN u.nodes[t] THEN [u EXCEPT !.cnf.out = u.nodes[t][i]]
    ELSE Then(FoldLeft(LAMBDA r, j : Lower(c, r, j, t), u, c.nodes[i].args), LAMBDA below :
         Then(NodeBits(c, below, c.nodes[i], t), LAMBDA q :
            [below EXCEPT !.cnf = q, !.nodes[t] = (i :> q.out) @@ @]))

\* While a cycle is opened, u also holds its frame.
Named(u, n) == [u EXCEPT !.frame = (n :> u.cnf.out) @@ @]

\* Fixed inputs are constants, the other inputs and the first registers are free.
AppendInput(c, u, n, fixed) ==
    Named([u EXCEPT !.cnf = IF n \in DOMAIN fixed
                            THEN With(@, ConstBits(fixed[n], c.signals[n].width))
                            ELSE Bits(@, c.signals[n].width)], n)

\* A later register is its next-state expression, one cycle before.
AppendRegister(c, u, n) ==
    Named(IF u.frames = <<>> THEN [u EXCEPT !.cnf = Bits(@, c.signals[n].width)]
          ELSE Lower(c, u, c.next[n], Len(u.frames)), n)

Opened(u) ==
    [cnf |-> u.cnf, frames |-> Append(u.frames, u.frame), nodes |-> Append(u.nodes, <<>>)]

AppendWire(c, u, w, t) ==
    Then(Lower(c, u, c.comb[w], t), LAMBDA v : [v EXCEPT !.frames[t] = (w :> v.cnf.out) @@ @])

\* append: the next cycle, with its wires in order.
AppendFrame(c, u, spec, induction) ==
    LET fixed == Fixed(spec, Len(u.frames), induction)
        Inputs1(v) == FoldLeft(LAMBDA r, n : AppendInput(c, r, n, fixed), v, SetToSeq(c.inputs))
        Registers(v) == FoldLeft(LAMBDA r, n : AppendRegister(c, r, n), v, SetToSeq(DOMAIN c.next))
    IN  FoldLeft(LAMBDA r, w : AppendWire(c, r, w, Len(u.frames) + 1),
                 Opened(Registers(Inputs1(u @@ [frame |-> <<>>]))), c.order)

RECURSIVE Unrolled(_, _, _, _)
Unrolled(c, spec, cycles, induction) ==
    IF cycles = 0 THEN NewUnroller
    ELSE AppendFrame(c, Unrolled(c, spec, cycles - 1, induction), spec, induction)

\* property: the literals of the guard and of the whole property at cycle t.
GuardBits(q, c, frames, p, t) ==
    LET Is(r, g) == Same(r, frames[t + 1 - g.lag][g.signal],
                         ConstBits(g.equals, c.signals[g.signal].width))
    IN  Then(FoldLeft(LAMBDA r, g : Collect(Is(r, g), r.out), With(q, <<>>), SetToSeq(p.when)),
             LAMBDA guards : AllOf(guards, guards.out))

ExpectedBits(c, frames, p, t) ==
    IF p.source = "" THEN ConstBits(p.equals, c.signals[p.sink].width)
    ELSE frames[t + 1 - p.latency][p.source]

PropertyAt(c, u, p, t) ==
    Then(GuardBits(u.cnf, c, u.frames, p, t), LAMBDA guard :
    Then(Same(guard, u.frames[t + 1][p.sink], ExpectedBits(c, u.frames, p, t)), LAMBDA equal :
    Then(OrGate(equal, -guard.out, equal.out), LAMBDA whole :
        [u |-> [u EXCEPT !.cnf = whole], guard |-> guard.out, predicate |-> whole.out])))

Problem(q, assertion) ==
    [variables |-> q.variables, clauses |-> Append(q.clauses, <<assertion>>)]

\* base_problem: some checked cycle fails; some checked cycle is guarded.
BaseProblem(c, spec, u, p) ==
    LET Cycle(r, s) == [u |-> s.u, guards |-> Append(r.guards, s.guard),
                        failures |-> Append(r.failures, -s.predicate)]
        Checked == FoldLeft(LAMBDA r, i : Cycle(r, PropertyAt(c, r.u, p, p.start + i - 1)),
                            [u |-> u, guards |-> <<>>, failures |-> <<>>],
                            [i \in 1..(spec.depth - p.start + 1) |-> i])
    IN  Then(Checked, LAMBDA r :
        Then(AnyOf(r.u.cnf, r.failures), LAMBDA bad :
        Then(AnyOf(bad, r.guards), LAMBDA cover :
            [u |-> [r.u EXCEPT !.cnf = cover],
             base |-> Problem(cover, bad.out), cover |-> Problem(cover, cover.out)])))

\* step_problem: k cycles where the property holds, and then one where it fails.
Assume(s) == [s.u EXCEPT !.cnf = Clause(@, <<s.predicate>>)]

StepProblem(c, spec, p, k) ==
    LET h == History(p)
        Assumed == FoldLeft(LAMBDA u, i : Assume(PropertyAt(c, u, p, h + i - 1)),
                            Unrolled(c, spec, h + k + 1, TRUE), [i \in 1..k |-> i])
    IN  Then(PropertyAt(c, Assumed, p, h + k), LAMBDA last :
            [u |-> last.u, step |-> Problem(last.u.cnf, -last.predicate)])

-----------------------------------------------------------------------------
(* What formulas mean.                                                      *)

\* A model is the sequence of the values of the variables.
Value(m, lit) == IF lit > 0 THEN m[lit] ELSE ~m[-lit]
Satisfies(m, clause) == \E i \in DOMAIN clause : Value(m, clause[i])

Abs(lit) == IF lit > 0 THEN lit ELSE -lit
Highest(clause) == Max({1} \cup {Abs(clause[i]) : i \in DOMAIN clause})

\* All models, variable by variable; a clause is tried once its variables are known.
ModelsOf(problem) ==
    LET decided == [v \in 1..problem.variables |->
                        {cl \in ToSet(problem.clauses) : Highest(cl) = v}]
        Extend(models, v) ==
            {m \in {Append(n, b) : n \in models, b \in BOOLEAN} :
                \A cl \in decided[v] : Satisfies(m, cl)}
    IN  FoldLeft(Extend, {<<>>}, [v \in 1..problem.variables |-> v])

Decoded(m, bits) == SumFunction([i \in DOMAIN bits |-> Int01(Value(m, bits[i])) * 2^(i - 1)])

DecodedFrame(m, frame) == [n \in DOMAIN frame |-> Decoded(m, frame[n])]
=============================================================================
