---------------------------- MODULE PinFunctions ----------------------------
(***************************************************************************)
(* The Boolean functions of outputs (engine.py and boolean.py): each view  *)
(* gives an expression, a list of tokens; it is parsed, its variables are  *)
(* checked against the pins of the cell, and the expressions of different  *)
(* kinds of view are compared by a truth table of bounded size.            *)
(*                                                                         *)
(* A token is an operator, a constant or a pin name.  '~' is written "!",  *)
(* '+' is "|" and '*' is "&".                                              *)
(***************************************************************************)
EXTENDS Comparing

CONSTANT MaxBooleanInputs   \* policy.max_boolean_inputs

ASSUME FunctionsAssumption == MaxBooleanInputs \in Nat

Operator == {"|", "^", "&", "!", "'", "(", ")"}
Constants == {"0", "1"}

TokenAt(ts, i) == IF i > Len(ts) THEN "EOF" ELSE ts[i]

IsName(t) == t \notin Operator \cup Constants \cup {"EOF"}

-----------------------------------------------------------------------------
(* The parser: recursive descent over the tokens.  Every level gives the   *)
(* expression it read, None on a syntax error, and the next token.         *)

Expr(op, value, args) == [op |-> op, value |-> value, args |-> args]

Parsed(expr, next) == [expr |-> expr, next |-> next]

(* _combine: a single operand stands for itself, nested ones are merged. *)
Combine(op, operands) ==
    IF Len(operands) = 1 THEN operands[1]
    ELSE Expr(op, None,
              FlattenSeq([i \in DOMAIN operands |->
                            IF operands[i].op = op THEN operands[i].args
                                                   ELSE <<operands[i]>>]))

(* Two operands next to each other are an implicit "&". *)
StartsOperand(t) == IsName(t) \/ t \in Constants \cup {"(", "!"}

Tighter(level) == IF level = "|" THEN "^" ELSE IF level = "^" THEN "&"
                  ELSE "unary"

RECURSIVE Inversions(_, _, _)
Inversions(ts, mark, i) ==
    IF TokenAt(ts, i) = mark THEN 1 + Inversions(ts, mark, i + 1) ELSE 0

RECURSIVE ParseLevel(_, _, _)
RECURSIVE ParseRest(_, _, _, _)

ParsePrimary(ts, i) ==
    LET t == TokenAt(ts, i)
    IN  IF t \in Constants THEN Parsed(Expr("const", t, << >>), i + 1)
        ELSE IF IsName(t) THEN Parsed(Expr("var", t, << >>), i + 1)
        ELSE IF t = "("
          THEN LET inner == ParseLevel(ts, "|", i + 1)
               IN  IF inner.expr # None /\ TokenAt(ts, inner.next) = ")"
                     THEN Parsed(inner.expr, inner.next + 1)
                     ELSE Parsed(None, i)
        ELSE Parsed(None, i)

ParseUnary(ts, i) ==
    LET before == Inversions(ts, "!", i)
        primary == ParsePrimary(ts, i + before)
        after == IF primary.expr = None THEN 0
                 ELSE Inversions(ts, "'", primary.next)
    IN  IF primary.expr = None THEN primary
        ELSE Parsed(IF (before + after) % 2 = 1
                      THEN Expr("!", None, <<primary.expr>>)
                      ELSE primary.expr,
                    primary.next + after)

(* Another operand of this level follows. *)
Continues(ts, level, i) ==
    \/ TokenAt(ts, i) = level
    \/ level = "&" /\ StartsOperand(TokenAt(ts, i))

ParseLevel(ts, level, i) ==
    IF level = "unary" THEN ParseUnary(ts, i)
    ELSE LET first == ParseLevel(ts, Tighter(level), i)
         IN  IF first.expr = None THEN first
             ELSE ParseRest(ts, level, <<first.expr>>, first.next)

ParseRest(ts, level, operands, i) ==
    IF ~Continues(ts, level, i) THEN Parsed(Combine(level, operands), i)
    ELSE LET start == IF TokenAt(ts, i) = level THEN i + 1 ELSE i
             item == ParseLevel(ts, Tighter(level), start)
         IN  IF item.expr = None THEN item
             ELSE ParseRest(ts, level, Append(operands, item.expr), item.next)

ParseBoolean(ts) ==
    LET whole == ParseLevel(ts, "|", 1)
    IN  IF whole.expr # None /\ whole.next = Len(ts) + 1 THEN whole.expr
                                                         ELSE None

-----------------------------------------------------------------------------
(* Evaluation *)

RECURSIVE Variables(_)
Variables(e) ==
    IF e.op = "var" THEN {e.value}
    ELSE UNION {Variables(e.args[i]) : i \in DOMAIN e.args}

RECURSIVE Evaluate(_, _)
Evaluate(e, env) ==
    LET true == {i \in DOMAIN e.args : Evaluate(e.args[i], env)}
    IN  CASE e.op = "const" -> e.value = "1"
          [] e.op = "var"   -> env[e.value]
          [] e.op = "!"     -> true = {}
          [] e.op = "&"     -> true = DOMAIN e.args
          [] e.op = "|"     -> true # {}
          [] e.op = "^"     -> Cardinality(true) % 2 = 1

(* check_equivalence: a truth table, or no answer above the limit. *)
Equivalence(a, b) ==
    LET names == Variables(a) \cup Variables(b)
    IN  IF Cardinality(names) > MaxBooleanInputs THEN "unknown"
        ELSE IF \A env \in [names -> BOOLEAN] :
                  Evaluate(a, env) = Evaluate(b, env) THEN "same"
        ELSE "different"

-----------------------------------------------------------------------------
(* The check: cells give, for each view, its kind's expression of the      *)
(* output as tokens or None, and the pins of its cell.                     *)

WithFunction(views, output) ==
    {v \in Views : views[v] # None /\ output \in DOMAIN views[v].functions}

(* _ordered_values: the baseline first, then the order of the views. *)
FunctionOrder(vs) ==
    SetToSortSeq(vs, LAMBDA v, w :
        Before(<<IF v = BaselineView THEN 0 ELSE 1, IndexOf(v)>>,
               <<IF w = BaselineView THEN 0 ELSE 1, IndexOf(w)>>))

UnknownPins(view, expr) == Variables(expr) \ DOMAIN view.ports

(* The comparison ends at the first expression that differs from the first *)
(* one or cannot be compared with it.                                      *)
FirstVerdict(exprs) ==
    LET verdicts == [i \in 2..Len(exprs) |-> Equivalence(exprs[1], exprs[i])]
        odd == {i \in 2..Len(exprs) : verdicts[i] # "same"}
    IN  IF odd = {} THEN "same"
        ELSE verdicts[CHOOSE i \in odd : \A j \in odd : i <= j]

OutputFindings(views, output) ==
    LET vs == WithFunction(views, output)
        expr == [v \in vs |-> ParseBoolean(views[v].functions[output])]
        broken == {v \in vs : expr[v] = None}
        strange == {v \in vs \ broken :
                      /\ ViewKind[v] = "liberty"
                      /\ UnknownPins(views[v], expr[v]) # {}}
        order == FunctionOrder(vs)
        verdict == FirstVerdict([i \in DOMAIN order |-> expr[order[i]]])
    IN  IF ~Differ({ViewKind[v] : v \in vs}) THEN {}
        ELSE FindingIf(broken # {}, "OC4302", output)
               \cup FindingIf(strange # {}, "OC4303", output)
               \cup (IF broken \cup strange # {} \/ Len(order) < 2 THEN {}
                     ELSE FindingIf(verdict = "unknown", "OC4302", output)
                            \cup FindingIf(verdict = "different",
                                           "OC4301", output))

FunctionFindings(views) ==
    UNION {OutputFindings(views, o) :
             o \in UNION {DOMAIN views[v].functions :
                            v \in {w \in Views : views[w] # None}}}

-----------------------------------------------------------------------------
(* What an expression means, read from outside in: the loosest operator    *)
(* outside parentheses splits it.                                          *)

DepthBefore(ts, k) ==
    Cardinality({i \in 1..(k - 1) : ts[i] = "("})
      - Cardinality({i \in 1..(k - 1) : ts[i] = ")"})

SplitsAt(ts, op) ==
    {k \in 2..(Len(ts) - 1) : ts[k] = op /\ DepthBefore(ts, k) = 0}

EndsOperand(t) == IsName(t) \/ t \in Constants \cup {")", "'"}

(* Adjacent operands, the second beginning at k. *)
Seams(ts) ==
    {k \in 2..Len(ts) : /\ EndsOperand(ts[k - 1]) /\ StartsOperand(ts[k])
                        /\ DepthBefore(ts, k) = 0}

LastOf(S) == CHOOSE k \in S : \A j \in S : j <= k

RECURSIVE Meaning(_, _)
Meaning(ts, env) ==
    LET left(k) == SubSeq(ts, 1, k - 1)
        right(k) == SubSeq(ts, k + 1, Len(ts))
        half(op) == LastOf(SplitsAt(ts, op))
    IN  IF SplitsAt(ts, "|") # {}
          THEN Meaning(left(half("|")), env) \/ Meaning(right(half("|")), env)
        ELSE IF SplitsAt(ts, "^") # {}
          THEN Meaning(left(half("^")), env) # Meaning(right(half("^")), env)
        ELSE IF SplitsAt(ts, "&") # {}
          THEN Meaning(left(half("&")), env) /\ Meaning(right(half("&")), env)
        ELSE IF Seams(ts) # {}
          THEN LET k == LastOf(Seams(ts))
               IN  Meaning(left(k), env)
                     /\ Meaning(SubSeq(ts, k, Len(ts)), env)
        ELSE IF ts[Len(ts)] = "'" THEN ~Meaning(Front(ts), env)
        ELSE IF ts[1] = "!" THEN ~Meaning(Tail(ts), env)
        ELSE IF ts[1] = "(" THEN Meaning(SubSeq(ts, 2, Len(ts) - 1), env)
        ELSE IF IsName(ts[1]) THEN env[ts[1]]
        ELSE ts[1] = "1"

NamesIn(ts) == {t \in Range(ts) : IsName(t)}

SameMeaning(a, b) ==
    \A env \in [NamesIn(a) \cup NamesIn(b) -> BOOLEAN] :
        Meaning(a, env) = Meaning(b, env)

=============================================================================
