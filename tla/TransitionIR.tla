----------------------------- MODULE TransitionIR -----------------------------
(***************************************************************************)
(* The typed transition IR of sequential verification: how the frontend     *)
(* (sequential_rtl.py) lowers assignments into a Circuit, how a Circuit is   *)
(* closed, and the integer interpreter of sequential_ir.py, which is the     *)
(* meaning of a design.  sequential_spec.py gives the meaning of a property. *)
(*                                                                         *)
(* An expression is a node whose args are expressions; a node's args are     *)
(* the indices of earlier nodes.  An operator that may add nodes returns the *)
(* circuit with the node it made in out, and ok is FALSE once the code has   *)
(* raised SequentialError.  Widths and signs are those that slang infers.    *)
(***************************************************************************)
EXTENDS Integers, Sequences, SequencesExt, FiniteSetsExt, Functions, Bitwise, TLC

Shifts == {"LogicalShiftLeft", "ArithmeticShiftLeft", "LogicalShiftRight",
           "ArithmeticShiftRight"}
LeftShifts == {"LogicalShiftLeft", "ArithmeticShiftLeft"}
Logical == {"LogicalAnd", "LogicalOr"}
Bitwise2 == {"BinaryAnd", "BinaryOr", "BinaryXor", "BinaryXnor"}
Arithmetic == {"Add", "Subtract", "Multiply"} \cup Bitwise2
Orders == {"LessThan", "LessThanEqual", "GreaterThan", "GreaterThanEqual"}
Comparisons == {"Equality", "Inequality"} \cup Orders
Binary == Shifts \cup Logical \cup Arithmetic \cup Comparisons
Negated == {"BitwiseNand", "BitwiseNor", "BitwiseXnor"}
Reductions == {"BitwiseAnd", "BitwiseOr", "BitwiseXor"} \cup Negated
Unary == {"Plus", "Minus", "BitwiseNot", "LogicalNot"} \cup Reductions

Int01(b) == IF b THEN 1 ELSE 0
Mask(v, width) == v % 2^width
SignedValue(v, width) == IF v >= 2^(width - 1) THEN v - 2^width ELSE v

-----------------------------------------------------------------------------
(* Building a circuit.                                                      *)

Driven(c) == c.inputs \cup DOMAIN c.next \cup DOMAIN c.comb

NewCircuit(signals, inputs) ==
    [nodes |-> <<>>, signals |-> signals, inputs |-> inputs, next |-> <<>>, comb |-> <<>>,
     order |-> <<>>, out |-> 0, ok |-> TRUE]

Rejected(c) == [c EXCEPT !.ok = FALSE]

\* Equal nodes are one node.
AddNode(c, n) ==
    IF Contains(c.nodes, n)
    THEN [c EXCEPT !.out = CHOOSE i \in DOMAIN c.nodes : c.nodes[i] = n]
    ELSE [c EXCEPT !.nodes = Append(@, n), !.out = Len(c.nodes) + 1]

\* A circuit has no signal for the clock: reading it as data is rejected too.
Unreadable(c, e) == e.op = "ref" /\ e.name \notin DOMAIN c.signals

IllTyped(nodes, e, args) ==
    \/ /\ e.op \in Binary \ (Shifts \cup Logical)
       /\ nodes[args[1]].width # nodes[args[2]].width
    \/ e.op = "concat" /\ SumFunction([i \in DOMAIN args |-> nodes[args[i]].width]) # e.width
    \/ e.op = "slice" /\ e.value + e.width > nodes[args[1]].width

\* The type of a reference is that of its signal; literals are masked.
AsNode(c, e, args) ==
    CASE e.op = "ref" ->
            [e EXCEPT !.width = c.signals[e.name].width, !.signed = c.signals[e.name].signed]
      [] e.op = "const" -> [e EXCEPT !.value = Mask(@, e.width)]
      [] OTHER -> [e EXCEPT !.args = args]

RECURSIVE Expression(_, _)
Expression(c, e) ==
    LET Operand(r, a) ==
            LET s == Expression(r.circuit, a) IN [circuit |-> s, args |-> Append(r.args, s.out)]
        lowered == FoldLeft(Operand, [circuit |-> c, args |-> <<>>], e.args)
        into == lowered.circuit
    IN  IF ~into.ok \/ Unreadable(into, e) \/ IllTyped(into.nodes, e, lowered.args)
        THEN Rejected(into)
        ELSE AddNode(into, AsNode(into, e, lowered.args))

\* assignment and add_driver: one driver for each whole signal that is no input.
Drive(c, a) ==
    LET lowered == Expression(c, a.expression) IN
    IF \/ a.target \in c.inputs \/ a.target \notin DOMAIN c.signals
       \/ ~lowered.ok
       \/ lowered.nodes[lowered.out].width # c.signals[a.target].width
       \/ a.target \in DOMAIN c.next \cup DOMAIN c.comb
    THEN Rejected(lowered)
    ELSE IF a.sequential
    THEN [lowered EXCEPT !.next = (a.target :> lowered.out) @@ @]
    ELSE [lowered EXCEPT !.comb = (a.target :> lowered.out) @@ @]

RECURSIVE ConeOf(_, _)
ConeOf(nodes, i) == {i} \cup UNION {ConeOf(nodes, j) : j \in ToSet(nodes[i].args)}

ReadBy(nodes, i) == {nodes[j].name : j \in {k \in ConeOf(nodes, i) : nodes[k].op = "ref"}}

\* Kahn's ordering of the wires, each after the wires it reads.
RECURSIVE Ordered(_, _)
Ordered(reads, done) ==
    LET ready == {w \in DOMAIN reads \ ToSet(done) : reads[w] \subseteq ToSet(done)} IN
    IF ready = {} THEN done ELSE Ordered(reads, Append(done, CHOOSE w \in ready : TRUE))

\* Everything read is driven, and no wire depends on itself.
Finalize(c) ==
    LET reads == [w \in DOMAIN c.comb |-> ReadBy(c.nodes, c.comb[w]) \cap DOMAIN c.comb]
        order == Ordered(reads, <<>>)
        read == {n.name : n \in {m \in ToSet(c.nodes) : m.op = "ref"}}
    IN  IF read \subseteq Driven(c) /\ ToSet(order) = DOMAIN c.comb
        THEN [c EXCEPT !.order = order, !.out = 0]
        ELSE Rejected(c)

LoadCircuit(design) ==
    LET Step(c, a) == IF c.ok THEN Drive(c, a) ELSE c
        c == FoldLeft(Step, NewCircuit(design.signals, design.inputs), design.assignments)
    IN  IF c.ok THEN Finalize(c) ELSE c

-----------------------------------------------------------------------------
(* evaluate and simulate_frame: the integer interpreter.                    *)

Combine(op, x, y, width) ==
    CASE op = "Add" -> x + y
      [] op = "Subtract" -> x - y
      [] op = "Multiply" -> x * y
      [] op = "BinaryAnd" -> x & y
      [] op = "BinaryOr" -> x | y
      [] op = "BinaryXor" -> x ^^ y
      [] op = "BinaryXnor" -> -(x ^^ y) - 1

Compare(op, x, y) ==
    CASE op = "Equality" -> x = y
      [] op = "Inequality" -> x # y
      [] op = "LessThan" -> x < y
      [] op = "LessThanEqual" -> x <= y
      [] op = "GreaterThan" -> x > y
      [] op = "GreaterThanEqual" -> x >= y

\* A count beyond the width never builds a huge integer.
ShiftBy(op, left, x, count) ==
    LET v == IF op = "ArithmeticShiftRight" /\ left.signed THEN SignedValue(x, left.width) ELSE x
    IN  IF count >= left.width THEN IF op = "ArithmeticShiftRight" /\ v < 0 THEN -1 ELSE 0
        ELSE IF op \in LeftShifts THEN v * 2^count ELSE v \div 2^count

Ones(v, width) == SumFunction([i \in 0..(width - 1) |-> (v \div 2^i) % 2])

Reduce(op, v, width) ==
    LET whole == CASE op \in {"BitwiseAnd", "BitwiseNand"} -> v = 2^width - 1
                   [] op \in {"BitwiseOr", "BitwiseNor"} -> v # 0
                   [] op \in {"BitwiseXor", "BitwiseXnor"} -> Ones(v, width) % 2 = 1
    IN  IF op \in Negated THEN ~whole ELSE whole

\* The value of a node before it is masked; of are the operand nodes, a their values.
Apply(n, of, a, env) ==
    LET op == n.op
        bothSigned == \A j \in DOMAIN of : of[j].signed
        Operand(j) == IF bothSigned THEN SignedValue(a[j], of[j].width) ELSE a[j]
    IN  CASE op = "ref" -> env[n.name]
          [] op = "const" -> n.value
          [] op = "cast" -> IF of[1].signed THEN SignedValue(a[1], of[1].width) ELSE a[1]
          [] op = "mux" -> IF a[1] # 0 THEN a[2] ELSE a[3]
          [] op = "slice" -> a[1] \div 2^n.value
          [] op = "concat" ->
                FoldLeftDomain(LAMBDA v, j : v * 2^(of[j].width) + a[j], 0, a)
          [] op \in Arithmetic -> Combine(op, a[1], a[2], n.width)
          [] op \in Comparisons -> Int01(Compare(op, Operand(1), Operand(2)))
          [] op = "LogicalAnd" -> Int01(a[1] # 0 /\ a[2] # 0)
          [] op = "LogicalOr" -> Int01(a[1] # 0 \/ a[2] # 0)
          [] op \in Shifts -> ShiftBy(op, of[1], a[1], a[2])
          [] op = "Plus" -> a[1]
          [] op = "Minus" -> -a[1]
          [] op = "BitwiseNot" -> -a[1] - 1
          [] op = "LogicalNot" -> Int01(a[1] = 0)
          [] op \in Reductions -> Int01(Reduce(op, a[1], of[1].width))

RECURSIVE Evaluate(_, _, _)
Evaluate(c, i, env) ==
    LET n == c.nodes[i]
        of == [j \in DOMAIN n.args |-> c.nodes[n.args[j]]]
        a == [j \in DOMAIN n.args |-> Evaluate(c, n.args[j], env)]
    IN  Mask(Apply(n, of, a, env), n.width)

\* The wires, in order, on top of registers and inputs.
Observed(c, env) ==
    FoldLeft(LAMBDA e, w : (w :> Evaluate(c, c.comb[w], e)) @@ e, env, c.order)

Updated(c, frame) == [r \in DOMAIN c.next |-> Evaluate(c, c.next[r], frame)]

-----------------------------------------------------------------------------
(* The runs of a circuit under a request, from any registers; cycles count  *)
(* from 0.  In an induction step the reset is over.                         *)

ResetValue(spec, t, induction) ==
    IF ~induction /\ t < spec.reset.cycles THEN spec.reset.active ELSE 1 - spec.reset.active

Fixed(spec, t, induction) ==
    IF spec.reset.cycles = 0 THEN spec.assumptions
    ELSE (spec.reset.signal :> ResetValue(spec, t, induction)) @@ spec.assumptions

RECURSIVE Valuations(_, _)
Valuations(signals, names) ==
    IF names = {} THEN {<<>>}
    ELSE LET n == CHOOSE m \in names : TRUE IN
         {(n :> v) @@ f : v \in 0..(2^signals[n].width - 1),
                          f \in Valuations(signals, names \ {n})}

InputsAt(c, spec, t, induction) ==
    {i \in Valuations(c.signals, c.inputs) :
        \A n \in DOMAIN Fixed(spec, t, induction) : i[n] = Fixed(spec, t, induction)[n]}

RECURSIVE Runs(_, _, _, _)
Runs(c, spec, cycles, induction) ==
    IF cycles = 1
    THEN {<<Observed(c, i @@ s)>> : i \in InputsAt(c, spec, 0, induction),
                                    s \in Valuations(c.signals, DOMAIN c.next)}
    ELSE {Append(r, Observed(c, i @@ Updated(c, Last(r)))) :
            r \in Runs(c, spec, cycles - 1, induction),
            i \in InputsAt(c, spec, cycles - 1, induction)}

-----------------------------------------------------------------------------
(* Properties of a request.                                                 *)

History(p) == Max({p.latency} \cup {g.lag : g \in p.when})

Enabled(p, frames, t) == \A g \in p.when : frames[t + 1 - g.lag][g.signal] = g.equals

Expected(p, frames, t) ==
    IF p.source = "" THEN p.equals ELSE frames[t + 1 - p.latency][p.source]

Holds(p, frames, t) == Enabled(p, frames, t) => frames[t + 1][p.sink] = Expected(p, frames, t)

\* validate_signals
FitsCircuit(c, spec) ==
    LET Readable(n, v) == n \in Driven(c) /\ v < 2^c.signals[n].width IN
    /\ \A n \in DOMAIN spec.assumptions : n \in c.inputs /\ Readable(n, spec.assumptions[n])
    /\ spec.reset.cycles > 0 =>
        /\ spec.reset.signal \in c.inputs \ DOMAIN spec.assumptions
        /\ c.signals[spec.reset.signal].width = 1
    /\ \A i \in DOMAIN spec.properties : LET p == spec.properties[i] IN
        /\ Readable(p.sink, p.equals)
        /\ p.source # "" =>
            Readable(p.source, 0) /\ c.signals[p.source].width = c.signals[p.sink].width
        /\ \A g \in p.when : Readable(g.signal, g.equals)
        /\ p.start <= spec.depth
=============================================================================
