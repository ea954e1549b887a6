---------------------------- MODULE MCDeclarations ----------------------------
(***************************************************************************)
(* Families of programs.  Scoping: the name x as a global, a parameter, in    *)
(* the body, in a block of it and in a global behind the function.          *)
(* Constants: every operator on the boundary values of the integers, in a    *)
(* constant, a global and a length.  Braces: every initializer of up to four  *)
(* items, in the four kinds of arrays.  Scalars: with and without braces, the   *)
(* name declared once or twice.  Negative: lengths and initializers that are   *)
(* not allowed.  Calls: lvalues of every rank where a function takes a    *)
(* scalar, an array or a matrix.                                            *)
(***************************************************************************)
EXTENDS DeclarationRules

Const(x, e) == Item("const", x, <<>>, Scalar(e), <<>>)
VarOf(x, e) == Item("var", x, <<>>, Scalar(e), <<>>)
VarX == VarOf("x", Num(0))
Array(kind, x, dims, init) == Item(kind, x, dims, init, <<>>)
Assign(x, e) == Item("assign", x, <<>>, Scalar(e), <<>>)
ExpStmt(e) == Item("exp", "", <<>>, Scalar(e), <<>>)
Return(e) == Item("return", "", <<>>, Scalar(e), <<>>)
BareReturn == Item("return", "", <<>>, NoInit, <<>>)
Block(items) == Item("block", "", <<>>, NoInit, items)
Func(f, params, unit, items) ==
  [Item("func", f, <<>>, NoInit, items) EXCEPT !.params = params, !.unit = unit]
Param(x) == [name |-> x, ptr |-> FALSE, dims |-> <<>>]
ArrayParam(x, dims) == [name |-> x, ptr |-> TRUE, dims |-> dims]
X == LVal("x", <<>>)

Before == {<<>>, <<VarX>>, <<Const("x", Num(3))>>}
After == {<<>>, <<VarOf("y", Num(2))>>, <<VarOf("x", Num(2))>>}
Middle == {VarOf("x", X), Const("x", Num(1)), Const("x", X), Assign("x", Num(4)),
         ExpStmt(X), Array("array", "x", <<Num(2)>>, Braces(<<Scalar(X)>>))}
Final == {ExpStmt(LVal("y", <<>>)), Return(X), Assign("y", X)}

Scoping ==
  {before \o <<Func("f", params, FALSE, <<Block(<<inner, stop>>), one, last>>)>> \o after :
     before \in Before, params \in {<<>>, <<Param("x")>>}, inner \in Middle,
     stop \in {BareReturn, ExpStmt(X), Const("x", X)},
     one \in Middle, last \in Final, after \in After}

Boundary == {MinInt, -3, -1, 0, 1, 2, MaxInt}
Literal(n) ==
  CASE n >= 0 -> Num(n)
    [] n < 0 /\ n > MinInt -> Exp("MINUS", <<Num(-n)>>)
    [] n = MinInt -> Exp("SUB", <<Exp("MINUS", <<Num(MaxInt)>>), Num(1)>>)
Binary == {"MUL", "DIV", "MOD", "ADD", "SUB", "LT", "GT", "LE", "GE", "EQ", "NEQ", "LOR", "LAND"}

Constants ==
  {<<Const("a", Literal(m)),
     Func("f", <<>>, TRUE,
          <<Const("c", Exp(op, <<Exp(unary, <<LVal("a", <<>>)>>), Literal(n)>>)),
            Array("array", "v", <<Num(1), LVal("c", <<>>)>>, NoInit)>>),
     VarOf("g", Exp(op, <<LVal("a", <<>>), other>>))>> :
     m \in Boundary, n \in Boundary, op \in Binary, unary \in {"PLUS", "MINUS", "NOT"},
     other \in {Num(2), FuncCall("getint", <<>>)}}

One(k) == Scalar(Num(k))
Part(k, size) == Braces([j \in 1 .. size |-> One(k + j)])
Pieces(k) == {One(k), Part(k, 0), Part(k, 1), Part(k, 2), Braces(<<One(k), Part(k, 2)>>)}
Lists ==
  {Braces(<<>>)} \cup {Braces(<<a>>) : a \in Pieces(1)}
  \cup {Braces(<<a, b>>) : a \in Pieces(1), b \in Pieces(4)}
  \cup {Braces(<<a, b, c>>) : a \in Pieces(1), b \in Pieces(4), c \in Pieces(7)}
  \cup {Braces(<<a, b, c, One(10), One(11)>>) : a \in Pieces(1), b \in Pieces(4), c \in Pieces(7)}
Shapes == {<<Num(3)>>, <<Num(2), Num(2)>>, <<Num(2), Num(3)>>, <<Num(2), Num(2), Num(2)>>}

Braced ==
  {<<Array(kind, "v", dims, init)>> :
     kind \in {"array", "constarray"}, dims \in Shapes, init \in Lists}
  \cup {<<Func("f", <<>>, TRUE, <<Array(kind, "v", dims, init), ExpStmt(Num(0))>>)>> :
          kind \in {"array", "constarray"}, dims \in Shapes, init \in Lists}

ScalarInits == {One(1), Scalar(X), Braces(<<>>), Braces(<<One(1)>>), Braces(<<One(1), One(2)>>)}
TwoScalars ==
  {<<Item(kind, "x", <<>>, a, <<>>), Item("var", y, <<>>, b, <<>>)>> :
     kind \in {"const", "var"}, y \in {"x", "y"}, a \in ScalarInits, b \in ScalarInits}
Scalars == TwoScalars \cup {<<Func("f", <<>>, TRUE, items)>> : items \in TwoScalars}

\* A length that is not positive; a pair of negative ones, whose product is positive,
\* passes the check of the code and is left out: see the README.
Negative == {<<Array(kind, "v", <<Literal(n), Num(2)>>, init)>> :
               kind \in {"array", "constarray"}, n \in Boundary,
               init \in {One(1), Braces(<<One(1)>>), Braces(<<Scalar(X)>>)}}

Parameters == {<<>>, <<Param("a")>>, <<ArrayParam("a", <<>>)>>, <<ArrayParam("a", <<Num(2)>>)>>,
               <<Param("a"), ArrayParam("b", <<>>)>>, <<Param("a"), Param("a")>>}
LValues == {LVal(x, indices) : x \in {"s", "v", "m", "p", "k"},
                               indices \in {<<>>, <<Num(0)>>, <<Num(0), Num(1)>>}}
Values == {FuncCall("getint", <<>>), FuncCall("putint", <<Num(1)>>),
           Exp("PLUS", <<FuncCall("putint", <<Num(1)>>)>>)}

\* The corners of lower_call_arg that are laxer than the language, one dimension
\* too few or too many, and an index of a constant are left out: see the README.
Plain(e, params) ==
  LET rank == [s |-> 0, k |-> 0, v |-> 1, p |-> 1, m |-> 2]
      left == rank[e.name] - Len(e.args)
  IN e.op = "lval" =>
     /\ e.name = "k" => e.args = <<>>
     /\ params # <<>> /\ e.name \in {"v", "p", "m"} =>
          left \notin {Len(Last(params).dims), Len(Last(params).dims) + 2} \/ ~Last(params).ptr

Calls ==
  {<<Const("k", Num(1)), VarOf("s", Num(0)), Array("array", "v", <<Num(2)>>, NoInit),
     Array("array", "m", <<Num(2), Num(2)>>, NoInit),
     Func("f", params, TRUE, <<>>),
     Func("main", <<ArrayParam("p", <<>>)>>, FALSE,
          <<ExpStmt(FuncCall(callee, first \o <<e>>)), Return(e)>>)>> :
     <<params, e>> \in {pe \in Parameters \X (LValues \cup Values) : Plain(pe[2], pe[1])},
     callee \in {"f", "putint", "h"}, first \in {<<>>, <<Num(1)>>}}

MCPrograms == Scoping \cup Constants \cup Braced \cup Scalars \cup Negative \cup Calls
=============================================================================
