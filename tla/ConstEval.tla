------------------------------- MODULE ConstEval -------------------------------
(***************************************************************************)
(* ConstEvaluator (src/ir/ir_builder_const_eval.cpp) and, next to it, what    *)
(* the expression is worth when it is lowered and run (ir_builder_expr.cpp). *)
(* An expression is [op, n, name, args]; the chain of simple levels of the   *)
(* grammar is left out.  The compiler computes in int32_t: what C++ leaves    *)
(* undefined is the outcome "undefined".                                    *)
(***************************************************************************)
EXTENDS Integers, Sequences

CONSTANT MaxInt  \* the greatest int32_t

ASSUME IntAssumption == MaxInt \in Nat

MinInt == -MaxInt - 1

Exp(op, args) == [op |-> op, n |-> 0, name |-> "", args |-> args]
Num(n) == [op |-> "num", n |-> n, name |-> "", args |-> <<>>]
LVal(x, indices) == [op |-> "lval", n |-> 0, name |-> x, args |-> indices]
FuncCall(f, args) == [op |-> "call", n |-> 0, name |-> f, args |-> args]

Outcome(status, n) == [status |-> status, n |-> n]
Value(n) == Outcome("ok", n)
Error == Outcome("error", 0)
Undefined == Outcome("undefined", 0)

Truth(b) == IF b THEN 1 ELSE 0
Int32(n) == IF n \in MinInt .. MaxInt THEN Value(n) ELSE Undefined

\* A wrong variant: the quotient is rounded down.
Floored(a, b) == IF b < 0 THEN (-a) \div (-b) ELSE a \div b

Truncated(a, b) ==
  LET q == (IF a < 0 THEN -a ELSE a) \div (IF b < 0 THEN -b ELSE b)
  IN IF (a < 0) = (b < 0) THEN q ELSE -q

NoQuotient(a, b) == b = 0 \/ (a = MinInt /\ b = -1)

EvalBinaryOp(op, a, b) ==
  CASE op = "MUL" -> Int32(a * b)
    [] op = "ADD" -> Int32(a + b)
    [] op = "SUB" -> Int32(a - b)
    [] op \in {"DIV", "MOD"} /\ NoQuotient(a, b) -> Undefined
    [] op = "DIV" -> Value(Truncated(a, b))
    [] op = "MOD" -> Value(a - b * Truncated(a, b))
    [] op = "LT" -> Value(Truth(a < b)) [] op = "GT" -> Value(Truth(a > b))
    [] op = "LE" -> Value(Truth(a <= b)) [] op = "GE" -> Value(Truth(a >= b))
    [] op = "EQ" -> Value(Truth(a = b)) [] op = "NEQ" -> Value(Truth(a # b))
    [] op = "LOR" -> Value(Truth(a # 0 \/ b # 0))
    [] op = "LAND" -> Value(Truth(a # 0 /\ b # 0))

EvalUnaryOp(op, a) ==
  CASE op = "PLUS" -> Value(a)
    [] op = "MINUS" -> Int32(-a)
    [] op = "NOT" -> Value(Truth(a = 0))

\* env gives the entry of every name that is visible.  The indices of an
\* lvalue are not looked at; both sides of || and && are evaluated.
RECURSIVE EvalExp(_, _)
EvalExp(e, env) ==
  LET arg(k) == EvalExp(e.args[k], env)
  IN CASE e.op = "num" -> Value(e.n)
       [] e.op = "lval" -> IF e.name \in DOMAIN env /\ env[e.name].kind = "const"
                             THEN Value(env[e.name].n) ELSE Error
       [] e.op = "call" -> Error
       [] e.op \in {"PLUS", "MINUS", "NOT"} ->
            IF arg(1).status # "ok" THEN arg(1) ELSE EvalUnaryOp(e.op, arg(1).n)
       [] OTHER ->
            IF arg(1).status # "ok" THEN arg(1)
            ELSE IF arg(2).status # "ok" THEN arg(2)
            ELSE EvalBinaryOp(e.op, arg(1).n, arg(2).n)

Wrap(n) == ((n - MinInt) % (MaxInt - MinInt + 1)) + MinInt

\* The binary instructions of the lowered expression.
RunBinary(op, a, b) ==
  CASE op = "MUL" -> Value(Wrap(a * b))
    [] op = "ADD" -> Value(Wrap(a + b))
    [] op = "SUB" -> Value(Wrap(a - b))
    [] op \in {"DIV", "MOD"} /\ NoQuotient(a, b) -> Undefined
    [] op = "DIV" ->
         Value(CHOOSE q \in MinInt .. MaxInt :
                 \E r \in MinInt .. MaxInt :
                   /\ a = q * b + r
                   /\ r * r < b * b /\ r * a >= 0)
    [] op = "MOD" ->
         Value(CHOOSE r \in MinInt .. MaxInt :
                 /\ r * r < b * b /\ r * a >= 0
                 /\ \E q \in MinInt .. MaxInt : a = q * b + r)
    [] op = "LT" -> Value(Truth(a < b)) [] op = "GT" -> Value(Truth(b < a))
    [] op = "LE" -> Value(1 - Truth(b < a)) [] op = "GE" -> Value(1 - Truth(a < b))
    [] op = "EQ" -> Value(Truth(Wrap(a - b) = 0))
    [] op = "NEQ" -> Value(Truth(Wrap(a - b) # 0))
=============================================================================
