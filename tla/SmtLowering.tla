----------------------------- MODULE SmtLowering -----------------------------
(***************************************************************************)
(* The other lowering of a circuit: Unroller of sequential_smt.py, which     *)
(* hands bit-vector terms to Z3.  A term is taken for its value in a          *)
(* valuation of the signals, with the width that Z3 gives it; the operations  *)
(* of Z3 are those of the bit-vector theory.                                  *)
(***************************************************************************)
EXTENDS TransitionIR

-----------------------------------------------------------------------------
(* The operations of the solver.                                            *)

Vec(v, size) == [size |-> size, v |-> Mask(v, size)]
AsSigned(b) == SignedValue(b.v, b.size)

Extract(hi, lo, b) == Vec(b.v \div 2^lo, hi - lo + 1)
ZeroExt(by, b) == Vec(b.v, b.size + by)
SignExt(by, b) == Vec(AsSigned(b), b.size + by)
Concat2(a, b) == Vec(a.v * 2^b.size + b.v, a.size + b.size)
Shl(a, count) == Vec(IF count.v >= a.size THEN 0 ELSE a.v * 2^count.v, a.size)
LShR(a, count) == Vec(IF count.v >= a.size THEN 0 ELSE a.v \div 2^count.v, a.size)
AShR(a, count) ==
    Vec(IF count.v >= a.size THEN IF AsSigned(a) < 0 THEN -1 ELSE 0
        ELSE AsSigned(a) \div 2^count.v, a.size)

-----------------------------------------------------------------------------
(* Unroller.resize and Unroller.lower.                                      *)

Resize(b, width, signed) ==
    IF width = b.size THEN b
    ELSE IF width < b.size THEN Extract(width - 1, 0, b)
    ELSE IF signed THEN SignExt(width - b.size, b) ELSE ZeroExt(width - b.size, b)

SmtOrder(op, a, b, signed) ==
    LET x == IF signed THEN AsSigned(a) ELSE a.v
        y == IF signed THEN AsSigned(b) ELSE b.v
    IN  CASE op = "LessThan" -> x < y
          [] op = "LessThanEqual" -> x <= y
          [] op = "GreaterThan" -> x > y
          [] op = "GreaterThanEqual" -> x >= y

\* The count is cut to the width of what is shifted: by itself a mutant.
CutShift(op, a, count, signed) ==
    LET shift == Resize(count, a.size, FALSE)
    IN  IF op \in LeftShifts THEN Shl(a, shift)
        ELSE IF op = "ArithmeticShiftRight" /\ signed THEN AShR(a, shift) ELSE LShR(a, shift)

\* The uncut count decides whether anything is left.
SmtShift(op, a, count, signed) ==
    LET overflow == 2^count.size > a.size /\ count.v >= Vec(a.size, count.size).v
        negative == op = "ArithmeticShiftRight" /\ signed /\ AsSigned(a) < 0
    IN  IF overflow THEN Vec(IF negative THEN -1 ELSE 0, a.size)
        ELSE CutShift(op, a, count, signed)

SmtReduction(op, a) ==
    LET Bit(j) == Extract(j, j, a).v # 0
        Parity[j \in 0..(a.size - 1)] == IF j = 0 THEN Bit(0) ELSE Parity[j - 1] # Bit(j)
        whole == CASE op \in {"BitwiseAnd", "BitwiseNand"} -> a = Vec(-1, a.size)
                   [] op \in {"BitwiseOr", "BitwiseNor"} -> a.v # 0
                   [] op \in {"BitwiseXor", "BitwiseXnor"} -> Parity[a.size - 1]
    IN  IF op \in Negated THEN ~whole ELSE whole

SmtArithmetic(op, a, b) ==
    CASE op = "Add" -> Vec(a.v + b.v, a.size)
      [] op = "Subtract" -> Vec(a.v - b.v, a.size)
      [] op = "Multiply" -> Vec(a.v * b.v, a.size)
      [] op = "BinaryAnd" -> Vec(a.v & b.v, a.size)
      [] op = "BinaryOr" -> Vec(a.v | b.v, a.size)
      [] op = "BinaryXor" -> Vec(a.v ^^ b.v, a.size)
      [] op = "BinaryXnor" -> Vec(-(a.v ^^ b.v) - 1, a.size)

SmtApply(n, of, a, env) ==
    LET op == n.op
        Truth(b) == Vec(Int01(b), n.width)
    IN  CASE op = "ref" -> Vec(env[n.name], n.width)
          [] op = "const" -> Vec(n.value, n.width)
          [] op = "cast" -> Resize(a[1], n.width, of[1].signed)
          [] op = "mux" -> IF a[1].v # 0 THEN a[2] ELSE a[3]
          [] op = "slice" -> Extract(n.value + n.width - 1, n.value, a[1])
          [] op = "concat" -> FoldLeft(Concat2, a[1], Tail(a))
          [] op \in Arithmetic -> SmtArithmetic(op, a[1], a[2])
          [] op = "Equality" -> Truth(a[1] = a[2])
          [] op = "Inequality" -> Truth(a[1] # a[2])
          [] op \in Orders ->
                Truth(SmtOrder(op, a[1], a[2], \A j \in DOMAIN of : of[j].signed))
          [] op = "LogicalAnd" -> Truth(a[1].v # 0 /\ a[2].v # 0)
          [] op = "LogicalOr" -> Truth(a[1].v # 0 \/ a[2].v # 0)
          [] op \in Shifts -> SmtShift(op, a[1], a[2], of[1].signed)
          [] op = "Plus" -> a[1]
          [] op = "Minus" -> Vec(-a[1].v, a[1].size)
          [] op = "BitwiseNot" -> Vec(-a[1].v - 1, a[1].size)
          [] op = "LogicalNot" -> Truth(a[1].v = 0)
          [] op \in Reductions -> Truth(SmtReduction(op, a[1]))

RECURSIVE SmtTerm(_, _, _)
SmtTerm(c, i, env) ==
    LET n == c.nodes[i]
        of == [j \in DOMAIN n.args |-> c.nodes[n.args[j]]]
        a == [j \in DOMAIN n.args |-> SmtTerm(c, n.args[j], env)]
    IN  SmtApply(n, of, a, env)

\* A node whose term has another width is an error, and no term.
SmtTyped(c, env) == \A i \in DOMAIN c.nodes : SmtTerm(c, i, env).size = c.nodes[i].width

\* append: every signal of every cycle is a variable of its own.
SmtFrame(c, spec, f, t, induction) ==
    /\ \A w \in DOMAIN c.comb : f[w] = SmtTerm(c, c.comb[w], f).v
    /\ \A n \in DOMAIN Fixed(spec, t, induction) : f[n] = Fixed(spec, t, induction)[n]

SmtStep(c, f, g) == \A r \in DOMAIN c.next : g[r] = SmtTerm(c, c.next[r], f).v
=============================================================================
