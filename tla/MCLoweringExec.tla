--------------------------- MODULE MCLoweringExec ---------------------------
(***************************************************************************)
(* Three families of function bodies.  Statement n of a body has its parts at *)
(* 2n and 2n + 1 and its condition or operand, a call, at 20 + n.  Flat: two   *)
(* statements of two levels in a row.  InLoop: a loop around a statement of    *)
(* three levels, followed by an assignment.  Expressions: two levels of ||, &&, *)
(* strict operators and numbers over calls, in each place an expression can    *)
(* stand.                                                                   *)
(***************************************************************************)
EXTENDS LoweringExec

MCNode == 1 .. 47
MCOutcome == {0, 2}

Leaf == {"assign", "return", "break", "continue"}
Inner == {"block", "if", "ifelse", "while"}

Cond(n) == 20 + n

PartsOf(kind, n) ==
  CASE kind = "block"  -> <<2 * n, 2 * n + 1>>
    [] kind = "if"     -> <<Cond(n), 2 * n>>
    [] kind = "ifelse" -> <<Cond(n), 2 * n, 2 * n + 1>>
    [] kind = "while"  -> <<Cond(n), 2 * n>>
    [] kind \in {"assign", "return"} -> <<Cond(n)>>
    [] OTHER -> <<>>

\* A body from the kinds of its statements and the parts that are not as PartsOf
\* says; every other node is a call without arguments.
Calls == [n \in MCNode |-> "call"]
NoParts == [n \in MCNode |-> <<>>]

Body(kinds, parts) ==
  [root |-> 1,
   kind |-> [n \in DOMAIN kinds |-> IF kinds[n] = "ifelse" THEN "if" ELSE kinds[n]] @@ Calls,
   kids |-> parts @@ [n \in DOMAIN kinds |-> PartsOf(kinds[n], n)] @@ NoParts]

AsUsual == [n \in {} |-> <<>>]

\* The statements of at most two levels rooted at n.
TwoLevels(n) ==
  {(n :> k) : k \in Leaf}
  \cup {(n :> k) @@ (2 * n :> a) : k \in {"if", "while"}, a \in Leaf}
  \cup {(n :> k) @@ (2 * n :> a) @@ (2 * n + 1 :> b) :
          k \in {"block", "ifelse"}, a \in Leaf, b \in Leaf}

Flat == {Body((1 :> "block") @@ s @@ t, AsUsual) : s \in TwoLevels(2), t \in TwoLevels(3)}

InLoop ==
  {Body((1 :> "block") @@ (2 :> "while") @@ (3 :> "assign") @@ (4 :> k) @@ s @@ (9 :> a), AsUsual) : k \in Inner, s \in TwoLevels(8), a \in Leaf}

ExpKids(kind, n) == IF kind \in {"or", "and"} THEN <<2 * n - 40, 2 * n - 39>> ELSE <<>>

Expressions ==
  {Body((1 :> "block") @@ (2 :> stmt) @@ (3 :> "assign") @@ (4 :> "assign")
        @@ (41 :> top) @@ (42 :> l) @@ (43 :> r),
        (2 :> (<<41>> \o IF stmt \in {"if", "while"} THEN <<4>> ELSE <<>>))
        @@ (41 :> <<42, 43>>) @@ (42 :> ExpKids(l, 42)) @@ (43 :> ExpKids(r, 43))) :
     stmt \in {"assign", "return", "if", "while", "exp"}, top \in {"or", "and", "bin", "call"},
     l \in {"or", "and", "call", "num"}, r \in {"or", "and", "call", "num"}}

MCPrograms == Flat \cup InLoop \cup Expressions
=============================================================================
