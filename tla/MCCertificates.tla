--------------------------- MODULE MCCertificates ---------------------------
(* Small designs: one for every operator and for pairs of operators, two    *)
(* cycles of each, and four that are certified, verified and edited.        *)
EXTENDS Certificates

Node(op, width, signed, args, value, name) ==
    [op |-> op, width |-> width, signed |-> signed, args |-> args, value |-> value,
     name |-> name]
Ref(n) == Node("ref", 0, FALSE, <<>>, 0, n)
Const(v, width) == Node("const", width, FALSE, <<>>, v, "")
Cast(e, width, signed) == Node("cast", width, signed, <<e>>, 0, "")
Op(op, width, args) == Node(op, width, FALSE, args, 0, "")
Slice(e, low, width) == Node("slice", width, FALSE, <<e>>, low, "")
Mux(a, b, c, width) == Op("mux", width, <<a, b, c>>)

Sig(width, signed) == [width |-> width, signed |-> signed]
Wire(n, e) == [target |-> n, sequential |-> FALSE, expression |-> e]
Reg(n, e) == [target |-> n, sequential |-> TRUE, expression |-> e]

NoReset == [signal |-> "", active |-> 0, cycles |-> 0]
When(signal, value, lag) == [signal |-> signal, equals |-> value, lag |-> lag]
Constantly(id, sink, value, start, when) ==
    [id |-> id, sink |-> sink, source |-> "", equals |-> value, latency |-> 0, start |-> start,
     when |-> when]
Copies(id, sink, source, latency, start, when) ==
    [id |-> id, sink |-> sink, source |-> source, equals |-> 0, latency |-> latency,
     start |-> start, when |-> when]

-----------------------------------------------------------------------------
(* Operators: x is an unsigned input, y a signed register, w a wire.        *)

X == Ref("x")
Y == Ref("y")
Signed(e) == Cast(e, 2, TRUE)

Width(op) == IF op \in Comparisons \cup Logical THEN 1 ELSE 2
Operands == {<<X, Y>>, <<Y, X>>, <<Y, Const(2, 2)>>, <<Signed(X), Y>>, <<Y, Y>>}
BinaryNodes == {Op(op, Width(op), a) : op \in Binary, a \in Operands}
WideShifts == {Op(op, 3, <<Cast(Y, 3, TRUE), X>>) : op \in Shifts} \cup
              {Op(op, 2, <<Y, Cast(X, 3, FALSE)>>) : op \in Shifts} \cup
              {Op(op, 1, <<Slice(Y, 1, 1), X>>) : op \in Shifts}
SignedRightShift == Node("ArithmeticShiftRight", 2, TRUE, <<Y, X>>, 0, "")
UnaryNodes == {Op(op, IF op \in Reductions \cup {"LogicalNot"} THEN 1 ELSE 2, <<a>>) :
                op \in Unary, a \in {X, Y}}
Conversions ==
    {Cast(a, width, signed) : a \in {X, Y}, width \in 1..3, signed \in BOOLEAN} \cup
    {Slice(a, low, 1) : a \in {X, Y}, low \in 0..1} \cup
    {Op("concat", 4, <<X, Y>>), Op("concat", 3, <<Slice(X, 1, 1), Y>>), Mux(X, Y, Const(1, 2), 2),
     Mux(Y, X, Y, 2)}

Inner == {Op(op, 2, <<X, Y>>) : op \in {"Add", "Subtract", "Multiply", "BinaryXor", "BinaryAnd"}}
            \cup {SignedRightShift}
Pairs == {Op(op, Width(op), <<e, Y>>) : op \in Binary, e \in Inner} \cup
         {Mux(Op("LessThan", 1, <<X, e>>), e, X, 2) : e \in Inner}

OperatorSignals(w) == [x |-> Sig(2, FALSE), y |-> Sig(2, TRUE), w |-> Sig(w, FALSE)]

OperatorProject(e) ==
    [design |-> [signals |-> OperatorSignals(e.width), inputs |-> {"x"},
                 assignments |-> <<Wire("w", e), Reg("y", Cast(Ref("w"), 2, TRUE))>>],
     request |-> [depth |-> 1, induction |-> 0, reset |-> NoReset, assumptions |-> <<>>,
                  properties |-> <<Constantly("p", "w", 1, 0, {When("y", 2, 0)})>>]]

-----------------------------------------------------------------------------
(* Designs with a reset, and a register that the properties do not need.    *)

Bit == Sig(1, FALSE)
Cleared(e, width) == Mux(Ref("rst"), Const(0, width), e, width)
Controlled(signals, assignments) ==
    [signals |-> signals @@ [rst |-> Bit, d |-> Bit], inputs |-> {"rst", "d"},
     assignments |-> assignments]

Pipe(e) == Controlled([r |-> Bit, w |-> Bit],
    <<Reg("r", Cleared(e, 1)), Wire("w", Op("BitwiseNot", 1, <<Ref("r")>>))>>)
Swap == Controlled([a |-> Bit, b |-> Bit, spare |-> Bit, v |-> Bit, w |-> Bit],
    <<Reg("spare", Op("BinaryXor", 1, <<Ref("spare"), Ref("w")>>)), Reg("a", Cleared(Ref("v"), 1)), Reg("b", Cleared(Ref("a"), 1)),
      Wire("w", Ref("v")), Wire("v", Ref("b"))>>)
Counter == Controlled([c |-> Sig(2, FALSE), last |-> Bit],
    <<Reg("c", Cleared(Op("Add", 2, <<Ref("c"), Const(1, 2)>>), 2)),
      Wire("last", Op("Equality", 1, <<Ref("c"), Const(3, 2)>>))>>)
Loop == Controlled([v |-> Bit, w |-> Bit], <<Wire("v", Ref("w")), Wire("w", Ref("v"))>>)

Request(depth, induction, properties) ==
    [depth |-> depth, induction |-> induction, assumptions |-> <<>>,
     reset |-> [signal |-> "rst", active |-> 1, cycles |-> 1], properties |-> properties]
Assuming(request, n, v) == [request EXCEPT !.assumptions = n :> v]

Follows == Copies("follows", "r", "d", 1, 1, {When("rst", 0, 1)})
Inverted1 == Constantly("inverted", "w", 0, 2, {When("d", 1, 1), When("rst", 0, 1)})
StaysClear == Constantly("clear", "a", 0, 1, {})
NotLast == Constantly("last", "last", 0, 1, {})
Unguarded == Constantly("never", "a", 0, 1, {When("b", 1, 0)})

Pipes == {Pipe(Ref("d")), Pipe(Op("BitwiseNot", 1, <<Ref("d")>>))}
SmallEdits ==
    {[design |-> p, request |-> Assuming(Request(4, 1, <<Follows, Inverted1>>), "d", 1)] :
        p \in Pipes} \cup
    {[design |-> Swap, request |-> Assuming(Request(3, 2, <<StaysClear>>), "d", 0)],
     [design |-> Loop, request |-> Request(2, 1, <<Constantly("p", "v", 0, 1, {})>>)]}

SmallProjects ==
    {OperatorProject(e) : e \in BinaryNodes \cup WideShifts \cup {SignedRightShift} \cup
                                UnaryNodes \cup Conversions \cup Pairs} \cup
    SmallEdits \cup
    {[design |-> Swap, request |-> Assuming(Request(3, 1, <<StaysClear>>), "d", 0)],
     [design |-> Swap, request |-> Assuming(Request(3, 2, <<Unguarded>>), "d", 0)],
     [design |-> Counter, request |-> Request(2, 4, <<NotLast>>)],
     [design |-> Pipe(Ref("d")), request |-> Request(2, 1, <<Follows>>)],
     [design |-> Pipe(Ref("r")), request |-> Request(3, 1, <<Follows>>)]}
=============================================================================
