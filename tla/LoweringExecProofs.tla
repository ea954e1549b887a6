------------------------- MODULE LoweringExecProofs -------------------------
(***************************************************************************)
(* Proof that the blocks FuncLowering makes of a function body do what the    *)
(* body does, for every AST, every nesting and every outcome of the calls     *)
(* (SameEvents of LoweringExec).                                            *)
(*                                                                         *)
(* A place <<b, k>> of the blocks means a continuation of the source: what    *)
(* remains to be done when control is there.  CodeInv is about the lowering:  *)
(* there is a set of such meanings that holds the whole body at the entry and *)
(* in which each meaning is kept by the instruction at its place, or, where   *)
(* the place is not written yet, promised by a frame.  When the lowering is   *)
(* done nothing is left to promise, and the meanings are a simulation between *)
(* the two executions.                                                      *)
(***************************************************************************)
EXTENDS LoweringExec, FuncLoweringProofs, WellFoundedInduction

SourceLabels == {"stmt", "exp", "finish", "apply", "test", "loop", "lhs", "rhs"}
SourceItem == [at : SourceLabels, node : Node, refs : {<<>>}]
Todos == Seq(SourceItem)

\* Two items no source has: the right side is to be skipped, and the value of
\* the || or && is to be loaded.
ItemLabels == SourceLabels \cup {"short", "load"}
Item0(label, n) == Frame(label, n, <<>>)
AnyItem == [at : ItemLabels, node : Node, refs : {<<>>}]
Meanings == {T \in Seq(AnyItem) : T # <<>> => Tail(T) \in Todos}

Place == Nat \X Nat

Stmts(n, i) == [j \in 1 .. Len(Kids(n)) - i + 1 |-> Stmt(Kids(n)[i + j - 1])]

\* What the condition of n chooses between.
Body(n) == <<Stmt(Kids(n)[2])>> \o IF Kind(n) = "while" THEN <<Item0("loop", n)>> ELSE <<>>
Otherwise(n) == IF Len(Kids(n)) = 3 THEN <<Stmt(Kids(n)[3])>> ELSE <<>>

\* L is what is left of T from its first loop on.
Ahead(T, L) ==
  \E j \in 1 .. Len(T) :
    /\ T[j].at = "loop"
    /\ \A i \in 1 .. j - 1 : T[i].at # "loop"
    /\ L = SubSeq(T, j, Len(T))

\* The source goes on from <<Item0(l, n)>> \o R to U, whatever the values are.
Advances(l, n, R, U) ==
  \/ l = "stmt" /\ Kind(n) = "block" /\ U = Stmts(n, 1) \o R
  \/ l = "stmt" /\ Kind(n) \in {"if", "while"} /\ U = <<Exp(Kids(n)[1]), Item0("test", n)>> \o R
  \/ /\ l = "stmt" /\ Kind(n) \in {"return", "assign", "exp"}
     /\ U = (Operands(n) \o <<Item0("finish", n)>>) \o R
  \/ l = "stmt" /\ Kind(n) = "break" /\ \E L : Ahead(R, L) /\ U = Tail(L)
  \/ l = "stmt" /\ Kind(n) = "continue" /\ Ahead(R, U)
  \/ l = "loop" /\ Kind(n) = "while" /\ U = <<Stmt(n)>> \o R
  \/ l = "finish" /\ Kind(n) = "exp" /\ U = R
  \/ l = "exp" /\ Kind(n) = "num" /\ U = R
  \/ /\ l = "exp" /\ Kind(n) \in {"call", "bin"}
     /\ U = (Operands(n) \o <<Item0("apply", n)>>) \o R
  \/ l = "exp" /\ Kind(n) \in {"or", "and"} /\ U = <<Exp(Kids(n)[1]), Item0("lhs", n)>> \o R

Quiet(T, U) == T # <<>> /\ Advances(Head(T).at, Head(T).node, Tail(T), U)

Loading(n, R) == <<Item0("load", n)>> \o R

\* The instruction does <<Item0(l, n)>>, and what comes after it means the rest.
Performs(inst, S, l, n, R, next) ==
  \/ l = "finish" /\ Kind(n) = "return" /\ inst = Ret(n)
  \/ l = "finish" /\ Kind(n) = "assign" /\ inst = Do("assign", n) /\ <<R, next>> \in S
  \/ l = "apply" /\ Kind(n) \in {"call", "bin"} /\ inst = Do(Kind(n), n) /\ <<R, next>> \in S
  \/ /\ l = "test" /\ Kind(n) \in {"if", "while"}
     /\ \E b, c : /\ inst = Br(Kids(n)[1], b, c)
                  /\ <<Body(n) \o R, <<b, 1>>>> \in S
                  /\ <<Otherwise(n) \o R, <<c, 1>>>> \in S
  \/ /\ l = "lhs" /\ Kind(n) \in {"or", "and"}
     /\ \E b, c : /\ inst = ShortCircuitBranch(n, b, c)
                  /\ <<<<Item0("short", n)>> \o R, <<b, 1>>>> \in S
                  /\ <<<<Exp(Kids(n)[2]), Item0("rhs", n)>> \o R, <<c, 1>>>> \in S
  \/ /\ l = "rhs" /\ Kind(n) \in {"or", "and"} /\ inst = Do("store", n)
     /\ <<Loading(n, R), next>> \in S
  \/ /\ l = "short" /\ Kind(n) \in {"or", "and"} /\ inst = Do("shortcut", n)
     /\ <<Loading(n, R), next>> \in S
  \/ l = "load" /\ Kind(n) \in {"or", "and"} /\ inst = Do("load", n) /\ <<R, next>> \in S

Does(inst, S, T, next) ==
  \/ inst.op = "jump" /\ <<T, <<inst.to[1], 1>>>> \in S
  \/ T = <<>> /\ inst = Ret(program.root)
  \/ T # <<>> /\ Performs(inst, S, Head(T).at, Head(T).node, Tail(T), next)

Keeps(f, S, T, p) ==
  /\ p[1] \in 1 .. Len(f.blocks)
  /\ p[2] \in 1 .. Len(f.blocks[p[1]])
  /\ Does(f.blocks[p[1]][p[2]], S, T, <<p[1], p[2] + 1>>)

\* What a call in progress still has to do, and what it has promised of the
\* blocks it owns; R is what its caller does afterwards.
Items(f) ==
  CASE f.at \in SourceLabels -> <<Item0(f.at, f.node)>>
    [] f.at = "branch"       -> <<Item0("test", f.node)>>
    [] f.at = "create"       -> <<Item0("lhs", f.node)>>
    [] f.at = "item"         -> Stmts(f.node, f.refs[1])
    [] OTHER                 -> <<>>

Owes(f, R) ==
  CASE f.at = "then" -> {<<f.refs[1], Otherwise(f.node) \o R>>}
    [] f.at \in {"else"} -> {<<f.refs[1], R>>}
    [] f.at = "test" -> {<<f.refs[2], Body(f.node) \o R>>, <<f.refs[3], R>>}
    [] f.at = "loop" -> {<<f.refs[2], R>>}
    [] f.at = "lhs"  -> {<<f.refs[1], <<Item0("short", f.node)>> \o R>>,
                         <<f.refs[1] + 1, <<Exp(Kids(f.node)[2]), Item0("rhs", f.node)>> \o R>>,
                         <<f.refs[1] + 2, Loading(f.node, R)>>}
    [] f.at = "rhs"  -> {<<f.refs[1], Loading(f.node, R)>>}
    [] OTHER -> {}

\* r[k] is what remains after the k-th call.
Now(fs, r) == IF fs = <<>> THEN <<>> ELSE Items(fs[1]) \o r[1]

Promised(f, fs, r, b, T) ==
  \/ b = f.current /\ T = Now(fs, r)
  \/ \E k \in 1 .. Len(fs) : <<b, T>> \in Owes(fs[k], r[k])

Fits(f, fs, r, S, T, p) ==
  \/ \E U : Quiet(T, U) /\ <<U, p>> \in S
  \/ Keeps(f, S, T, p)
  \/ /\ p[1] \in Opens(f)
     /\ p[2] = Len(f.blocks[p[1]]) + 1
     /\ Promised(f, fs, r, p[1], T)

LoopFrames == {"test", "loop"}
Looping(f, R) == <<<<Item0("loop", f.node)>> \o R, <<f.refs[1], 1>>>>

Code(f, fs, r, S) ==
  /\ r \in Seq(Todos) /\ Len(r) = Len(fs)
  /\ S \subseteq Meanings \X Place
  /\ <<<<Stmt(program.root)>>, <<1, 1>>>> \in S
  /\ \A k \in 1 .. Len(fs) - 1 : r[k] = Items(fs[k + 1]) \o r[k + 1]
  /\ fs # <<>> => r[Len(fs)] = <<>>
  /\ \A x \in S : Fits(f, fs, r, S, x[1], x[2])
  /\ \A k \in 1 .. Len(fs) : fs[k].at \in LoopFrames => Looping(fs[k], r[k]) \in S
  /\ \A k, m \in 1 .. Len(fs) :
       /\ k < m
       /\ fs[m].at = "loop"
       /\ \A j \in k + 1 .. m - 1 : fs[j].at # "loop"
       => Ahead(r[k], <<Item0("loop", fs[m].node)>> \o r[m])
  /\ \A b \in Opens(f) : b # f.current => f.blocks[b] = <<>>

CodeInv == \E S, r : Code(fn, frames, r, S)

-----------------------------------------------------------------------------
(***************************************************************************)
(* Sequences of items.                                                      *)
(***************************************************************************)

(* An item in front of the rest. *)
LEMMA Pushed ==
  ASSUME NEW S, NEW a \in S, NEW R \in Seq(S)
  PROVE  /\ <<a>> \o R \in Seq(S) /\ Head(<<a>> \o R) = a /\ Tail(<<a>> \o R) = R
         /\ <<a>> \o R # <<>>
OBVIOUS

LEMMA Paired ==
  ASSUME NEW S, NEW a \in S, NEW b \in S
  PROVE  <<a>> \o <<b>> = <<a, b>>
<1> DEFINE s == <<a>> \o <<b>>
           t == <<a, b>>
<1>1. s \in Seq(S) /\ Len(s) = 2 /\ s[1] = a /\ s[2] = b
  <2> DEFINE u == <<a>>
             v == <<b>>
  <2>1. u \in Seq(S) /\ v \in Seq(S) /\ Len(u) = 1 /\ Len(v) = 1 /\ u[1] = a /\ v[1] = b
    OBVIOUS
  <2> HIDE DEF u, v
  <2>2. /\ u \o v \in Seq(S) /\ Len(u \o v) = Len(u) + Len(v)
        /\ \A i \in 1 .. Len(u) + Len(v) :
             (u \o v)[i] = IF i <= Len(u) THEN u[i] ELSE v[i - Len(u)]
    BY <2>1, ConcatProperties
  <2>3. 1 \in 1 .. Len(u) + Len(v) /\ 2 \in 1 .. Len(u) + Len(v)
    BY <2>1
  <2>4. (u \o v)[1] = a /\ (u \o v)[2] = b
    BY <2>1, <2>2, <2>3
  <2>5. QED
    BY <2>1, <2>2, <2>4 DEF u, v
<1>2. t \in Seq(S) /\ Len(t) = 2 /\ t[1] = a /\ t[2] = b
  OBVIOUS
<1> HIDE DEF s, t
<1>3. \A i \in 1 .. Len(s) : s[i] = t[i]
  BY <1>1, <1>2
<1>4. s = t
  BY <1>1, <1>2, <1>3, SeqEqual
<1>5. QED
  BY <1>4 DEF s, t

(* The items are what their labels and nodes say. *)
LEMMA SourceItems ==
  ASSUME NEW n \in Node
  PROVE  /\ \A l \in SourceLabels :
              Item0(l, n) \in SourceItem /\ Item0(l, n).at = l /\ Item0(l, n).node = n
         /\ \A l \in ItemLabels :
              Item0(l, n) \in AnyItem /\ Item0(l, n).at = l /\ Item0(l, n).node = n
         /\ Stmt(n) = Item0("stmt", n) /\ Exp(n) = Item0("exp", n)
         /\ Stmt(n) \in SourceItem /\ Exp(n) \in SourceItem
BY DEF Item0, Frame, SourceItem, AnyItem, Stmt, Exp, SourceLabels, ItemLabels

(* What a source has to do is a meaning, alone or behind one more item. *)
LEMMA TodosAreMeanings ==
  /\ Todos \subseteq Meanings
  /\ \A a \in AnyItem : \A R \in Todos :
       /\ <<a>> \o R \in Meanings
       /\ Head(<<a>> \o R) = a /\ Tail(<<a>> \o R) = R /\ <<a>> \o R # <<>>
  /\ <<>> \in Todos
<1>1. SourceItem \subseteq AnyItem
  BY DEF SourceItem, AnyItem, ItemLabels
<1>2. Todos \subseteq Seq(AnyItem)
  BY <1>1, SeqMonotonic DEF Todos
<1>3. ASSUME NEW T \in Todos PROVE T \in Meanings
  <2>1. T # <<>> => Tail(T) \in Todos
    BY HeadTailProperties DEF Todos
  <2>2. QED
    BY <1>2, <2>1 DEF Meanings
<1>4. ASSUME NEW a \in AnyItem, NEW R \in Todos
      PROVE  /\ <<a>> \o R \in Meanings
             /\ Head(<<a>> \o R) = a /\ Tail(<<a>> \o R) = R /\ <<a>> \o R # <<>>
  <2>1. R \in Seq(AnyItem)
    BY <1>2
  <2>2. /\ <<a>> \o R \in Seq(AnyItem) /\ Head(<<a>> \o R) = a /\ Tail(<<a>> \o R) = R
        /\ <<a>> \o R # <<>>
    BY <2>1, Pushed
  <2>3. QED
    BY <2>2 DEF Meanings
<1>5. <<>> \in Todos
  BY EmptySeq DEF Todos
<1>6. QED
  BY <1>3, <1>4, <1>5

LEMMA TwoItems ==
  ASSUME NEW x \in SourceItem, NEW y \in SourceItem, NEW R \in Todos
  PROVE  <<x, y>> \o R = <<x>> \o (<<y>> \o R)
<1>1. <<x>> \in Seq(SourceItem) /\ <<y>> \in Seq(SourceItem) /\ R \in Seq(SourceItem)
  BY DEF Todos
<1>2. (<<x>> \o <<y>>) \o R = <<x>> \o (<<y>> \o R)
  BY <1>1, ConcatAssociative
<1>3. <<x>> \o <<y>> = <<x, y>>
  BY Paired
<1>4. QED
  BY <1>2, <1>3

(* The items of a block from the i-th on.                                   *)
LEMMA StmtsFacts ==
  ASSUME IsAst(program), NEW n \in Node, Kind(n) = "block", NEW i \in Nat \ {0}
  PROVE  /\ Stmts(n, i) \in Todos
         /\ \A j \in 1 .. Len(Stmts(n, i)) : Stmts(n, i)[j].at # "loop"
         /\ i <= Len(Kids(n)) => Stmts(n, i) = <<Stmt(Kids(n)[i])>> \o Stmts(n, i + 1)
         /\ i > Len(Kids(n)) => Stmts(n, i) = <<>>
         /\ Stmts(n, 1) = [k \in 1 .. Len(Kids(n)) |-> Stmt(Kids(n)[k])]
<1> DEFINE l == Len(Kids(n))
<1>1. /\ Kids(n) \in Seq(Node) /\ l \in Nat
      /\ \A k \in 1 .. l : Kids(n)[k] \in Node
  BY KidFacts
<1>2. \A k \in 1 .. l : Stmt(Kids(n)[k]) \in SourceItem /\ Stmt(Kids(n)[k]).at = "stmt"
  BY <1>1, SourceItems DEF Stmt, Frame
<1>3. ASSUME NEW m \in Nat \ {0}
      PROVE  /\ Stmts(n, m) \in Todos
             /\ Len(Stmts(n, m)) = IF m <= l THEN l - m + 1 ELSE 0
             /\ \A j \in 1 .. l - m + 1 : Stmts(n, m)[j] = Stmt(Kids(n)[m + j - 1])
             /\ m > l => Stmts(n, m) = <<>>
  <2>1. \A j \in 1 .. l - m + 1 : m + j - 1 \in 1 .. l
    BY <1>1
  <2>2. CASE m <= l
    <3>1. l - m + 1 \in Nat
      BY <1>1, <2>2
    <3>2. \A j \in 1 .. l - m + 1 : Stmt(Kids(n)[m + j - 1]) \in SourceItem
      BY <1>2, <2>1
    <3>3. Stmts(n, m) \in Seq(SourceItem)
      BY <3>1, <3>2 DEF Stmts
    <3>4. QED
      BY <2>2, <3>1, <3>3 DEF Stmts, Todos
  <2>3. CASE m > l
    <3>1. 1 .. l - m + 1 = {}
      BY <1>1, <2>3
    <3>2. Stmts(n, m) = [j \in {} |-> Stmt(Kids(n)[m + j - 1])]
      BY <3>1 DEF Stmts
    <3>3. Stmts(n, m) = <<>>
      BY <3>2
    <3>4. QED
      BY <1>1, <2>3, <3>1, <3>3, EmptySeq DEF Todos
  <2>4. QED
    BY <1>1, <2>2, <2>3
<1>4. ASSUME i <= l PROVE Stmts(n, i) = <<Stmt(Kids(n)[i])>> \o Stmts(n, i + 1)
  <2> DEFINE a == Stmt(Kids(n)[i])
             R == Stmts(n, i + 1)
             u == <<a>>
  <2>1. a \in SourceItem /\ R \in Seq(SourceItem) /\ Len(R) = l - i
    <3>1. i + 1 \in Nat \ {0}
      OBVIOUS
    <3>2. R \in Todos /\ Len(R) = IF i + 1 <= l THEN l - (i + 1) + 1 ELSE 0
      BY <1>3, <3>1
    <3>3. QED
      BY <1>1, <1>2, <1>4, <3>2 DEF Todos
  <2>2. \A j \in 1 .. l - i : R[j] = Stmt(Kids(n)[i + 1 + j - 1])
    <3>1. i + 1 \in Nat \ {0} /\ l - (i + 1) + 1 = l - i
      BY <1>1
    <3>2. QED
      BY <1>3, <3>1
  <2>3. u \in Seq(SourceItem) /\ Len(u) = 1 /\ u[1] = a
    BY <2>1
  <2> HIDE DEF a, R, u
  <2>4. /\ u \o R \in Seq(SourceItem) /\ Len(u \o R) = Len(u) + Len(R)
        /\ \A j \in 1 .. Len(u) + Len(R) : (u \o R)[j] = IF j <= Len(u) THEN u[j] ELSE R[j - Len(u)]
    BY <2>1, <2>3, ConcatProperties
  <2>5. /\ Stmts(n, i) \in Seq(SourceItem) /\ Len(Stmts(n, i)) = l - i + 1
        /\ \A j \in 1 .. l - i + 1 : Stmts(n, i)[j] = Stmt(Kids(n)[i + j - 1])
    BY <1>3, <1>4 DEF Todos
  <2>6. ASSUME NEW j \in 1 .. l - i + 1 PROVE Stmts(n, i)[j] = (u \o R)[j]
    <3>1. CASE j = 1
      <4>1. (u \o R)[j] = a
        BY <1>1, <2>1, <2>3, <2>4, <3>1
      <4>2. i + j - 1 = i
        BY <3>1
      <4>3. QED
        BY <2>5, <4>1, <4>2 DEF a
    <3>2. CASE j # 1
      <4>1. j - 1 \in 1 .. l - i /\ i + 1 + (j - 1) - 1 = i + j - 1 /\ ~(j <= 1)
            /\ j \in 1 .. 1 + (l - i)
        BY <1>1, <3>2
      <4>2. (u \o R)[j] = R[j - 1]
        BY <2>1, <2>3, <2>4, <4>1
      <4>3. QED
        BY <2>2, <2>5, <4>1, <4>2
    <3>3. QED
      BY <3>1, <3>2
  <2>7. Stmts(n, i) = u \o R
    <3>1. Len(u \o R) = l - i + 1
      BY <1>1, <2>1, <2>3, <2>4
    <3>2. QED
      BY <2>4, <2>5, <2>6, <3>1, SeqEqual
  <2>8. QED
    BY <2>7 DEF a, R, u
<1>5. \A j \in 1 .. Len(Stmts(n, i)) : Stmts(n, i)[j].at # "loop"
  <2> SUFFICES ASSUME NEW j \in 1 .. Len(Stmts(n, i)) PROVE Stmts(n, i)[j].at # "loop"
    OBVIOUS
  <2>1. j \in 1 .. l - i + 1 /\ i + j - 1 \in 1 .. l
    BY <1>1, <1>3
  <2>2. QED
    BY <1>2, <1>3, <2>1
<1>6. Stmts(n, 1) = [k \in 1 .. l |-> Stmt(Kids(n)[k])]
  <2>1. \A j \in 1 .. l : 1 + j - 1 = j
    BY <1>1
  <2>2. l - 1 + 1 = l
    BY <1>1
  <2>3. QED
    BY <2>1, <2>2 DEF Stmts
<1>7. QED
  BY <1>3, <1>4, <1>5, <1>6

(* The two ways a condition can go are things a source can do. *)
LEMMA ChoicesTyped ==
  ASSUME IsAst(program), NEW n \in Node
  PROVE  /\ Kind(n) \in {"if", "while"} => Body(n) \in Todos
         /\ Kind(n) = "if" => Body(n) = <<Stmt(Kids(n)[2])>>
         /\ Kind(n) \in {"if", "while"} => Otherwise(n) \in Todos
         /\ Kind(n) = "while" => Otherwise(n) = <<>>
<1> DEFINE s == <<Stmt(Kids(n)[2])>>
           t == IF Kind(n) = "while" THEN <<Item0("loop", n)>> ELSE <<>>
<1>1. ASSUME Kind(n) \in {"if", "while"} PROVE s \in Todos /\ t \in Todos
  <2>1. Stmt(Kids(n)[2]) \in SourceItem /\ Item0("loop", n) \in SourceItem
    BY <1>1, BranchingKids, SourceItems DEF SourceLabels
  <2>2. QED
    BY <2>1, EmptySeq DEF Todos
<1>2. ASSUME Kind(n) \in {"if", "while"} PROVE Body(n) \in Todos
  BY <1>1, <1>2, ConcatProperties DEF Body, Todos
<1>3. ASSUME Kind(n) = "if" PROVE Body(n) = s
  <2>1. s \in Todos /\ t = <<>>
    BY <1>1, <1>3
  <2>2. s \o <<>> = s
    BY <2>1, ConcatEmptySeq DEF Todos
  <2>3. QED
    BY <1>3, <2>2 DEF Body
<1>4. ASSUME Kind(n) = "if" PROVE Otherwise(n) \in Todos
  <2>1. CASE HasElse(n)
    BY <1>4, <2>1, BranchingKids, SourceItems DEF Otherwise, HasElse, Todos
  <2>2. CASE ~HasElse(n)
    BY <2>2, EmptySeq DEF Otherwise, HasElse, Todos
  <2>3. QED
    BY <2>1, <2>2
<1>5. ASSUME Kind(n) = "while" PROVE Otherwise(n) = <<>> /\ <<>> \in Todos
  <2>1. Len(Kids(n)) = 2
    BY <1>5, KidFacts
  <2>2. QED
    BY <2>1, TodosAreMeanings DEF Otherwise
<1>6. QED
  BY <1>2, <1>3, <1>4, <1>5

(* The operands of a node are expressions to be done. *)
LEMMA OperandItems ==
  ASSUME IsAst(program), NEW n \in Node, Kind(n) \notin {"block", "if", "while"}
  PROVE  /\ Operands(n) \in Todos
         /\ \A k \in 1 .. Len(Operands(n)) : Operands(n)[k].at = "exp"
<1>1. /\ Kids(n) \in Seq(Node) /\ Len(Kids(n)) \in Nat
      /\ \A k \in 1 .. Len(Kids(n)) : Kids(n)[k] \in Node
  BY KidFacts
<1>2. \A k \in 1 .. Len(Kids(n)) : Exp(Kids(n)[k]) \in SourceItem /\ Exp(Kids(n)[k]).at = "exp"
  BY <1>1, SourceItems DEF Exp, Frame
<1>3. Operands(n) \in Todos /\ Len(Operands(n)) = Len(Kids(n))
  BY <1>1, <1>2 DEF Operands, Todos
<1>4. QED
  BY <1>2, <1>3 DEF Operands

(* What a call in progress has to do never passes a loop, but for "loop" itself. *)
LEMMA ItemsTyped ==
  ASSUME IsAst(program), NEW m \in Nat, NEW f, FrameOK(f, m)
  PROVE  /\ Items(f) \in Todos
         /\ f.at # "loop" => \A j \in 1 .. Len(Items(f)) : Items(f)[j].at # "loop"
<1>1. f \in FrameRecord /\ f.node \in Node /\ f.at \in Labels
  BY DEF FrameOK, FrameRecord
<1>2. \A l \in SourceLabels : <<Item0(l, f.node)>> \in Todos
  BY <1>1, SourceItems DEF Todos
<1>3. CASE f.at \in SourceLabels
  <2>1. Items(f) = <<Item0(f.at, f.node)>>
    BY <1>3 DEF Items, SourceLabels
  <2>2. Item0(f.at, f.node).at = f.at
    BY DEF Item0, Frame
  <2>3. QED
    BY <1>2, <1>3, <2>1, <2>2
<1>4. CASE f.at = "branch"
  <2>1. Items(f) = <<Item0("test", f.node)>>
    BY <1>4 DEF Items, SourceLabels
  <2>2. Item0("test", f.node).at = "test"
    BY DEF Item0, Frame
  <2>3. "test" \in SourceLabels
    BY DEF SourceLabels
  <2>4. QED
    BY <1>2, <2>1, <2>2, <2>3
<1>5. CASE f.at = "create"
  <2>1. Items(f) = <<Item0("lhs", f.node)>>
    BY <1>5 DEF Items, SourceLabels
  <2>2. Item0("lhs", f.node).at = "lhs"
    BY DEF Item0, Frame
  <2>3. "lhs" \in SourceLabels
    BY DEF SourceLabels
  <2>4. QED
    BY <1>2, <2>1, <2>2, <2>3
<1>6. CASE f.at = "item"
  <2>1. Items(f) = Stmts(f.node, f.refs[1])
    BY <1>6 DEF Items, SourceLabels
  <2>2. Kind(f.node) = "block" /\ f.refs[1] \in Nat \ {0}
    BY <1>1, <1>6 DEF FrameOK, FrameRecord
  <2>3. QED
    BY <1>1, <2>1, <2>2, StmtsFacts, ZenonT(30)
<1>7. CASE f.at \notin SourceLabels \cup {"branch", "create", "item"}
  <2>1. Items(f) = <<>>
    BY <1>7 DEF Items
  <2>2. QED
    BY <2>1, TodosAreMeanings
<1>8. QED
  BY <1>3, <1>4, <1>5, <1>6, <1>7

-----------------------------------------------------------------------------
(***************************************************************************)
(* The innermost loop of a continuation.                                    *)
(***************************************************************************)

(* The first loop stays the first behind items that are none. *)
LEMMA AheadPast ==
  ASSUME NEW X \in Todos, NEW R \in Todos, \A j \in 1 .. Len(X) : X[j].at # "loop",
         NEW L, Ahead(R, L)
  PROVE  Ahead(X \o R, L)
<1>1. PICK j \in 1 .. Len(R) : /\ R[j].at = "loop"
                               /\ \A i \in 1 .. j - 1 : R[i].at # "loop"
                               /\ L = SubSeq(R, j, Len(R))
  BY DEF Ahead
<1> DEFINE T == X \o R
           m == Len(X)
           l == Len(R)
<1>2. /\ T \in Seq(SourceItem) /\ Len(T) = m + l /\ m \in Nat /\ l \in Nat
      /\ \A i \in 1 .. m + l : T[i] = IF i <= m THEN X[i] ELSE R[i - m]
  BY ConcatProperties, LenProperties DEF Todos
<1>3. j \in Nat /\ 1 <= j /\ j <= l
  BY <1>1, <1>2
<1> HIDE DEF T
<1>4. m + j \in 1 .. Len(T) /\ T[m + j] = R[j]
  <2>1. m + j \in 1 .. m + l /\ ~(m + j <= m) /\ m + j - m = j
    BY <1>2, <1>3
  <2>2. QED
    BY <1>2, <2>1
<1>5. ASSUME NEW i \in 1 .. m + j - 1 PROVE T[i].at # "loop"
  <2>1. i \in 1 .. m + l
    BY <1>2, <1>3
  <2>2. CASE i <= m
    <3>1. T[i] = X[i] /\ i \in 1 .. m
      BY <1>2, <2>1, <2>2
    <3>2. QED
      BY <3>1
  <2>3. CASE ~(i <= m)
    <3>1. T[i] = R[i - m] /\ i - m \in 1 .. j - 1
      BY <1>2, <1>3, <2>1, <2>3
    <3>2. QED
      BY <1>1, <3>1
  <2>4. QED
    BY <2>2, <2>3
<1>6. SubSeq(T, m + j, Len(T)) = SubSeq(R, j, Len(R))
  <2> DEFINE a == SubSeq(T, m + j, Len(T))
             b == SubSeq(R, j, Len(R))
  <2>1. \A i \in m + j .. m + l : T[i] \in SourceItem
    BY <1>2, <1>3
  <2>2. \A i \in j .. l : R[i] \in SourceItem
    BY <1>3 DEF Todos
  <2>3. /\ a \in Seq(SourceItem) /\ Len(a) = l - j + 1
        /\ \A i \in 1 .. l - j + 1 : a[i] = T[m + j + i - 1]
    <3>1. m + j \in Int /\ m + l \in Int /\ m + j <= m + l /\ m + l - (m + j) + 1 = l - j + 1
      BY <1>2, <1>3
    <3>2. QED
      BY <1>2, <2>1, <3>1, SubSeqProperties
  <2>4. /\ b \in Seq(SourceItem) /\ Len(b) = l - j + 1
        /\ \A i \in 1 .. l - j + 1 : b[i] = R[j + i - 1]
    <3>1. j \in Int /\ l \in Int
      BY <1>2, <1>3
    <3>2. QED
      BY <1>3, <2>2, <3>1, SubSeqProperties
  <2> HIDE DEF a, b
  <2>5. ASSUME NEW i \in 1 .. l - j + 1 PROVE a[i] = b[i]
    <3> DEFINE q == m + j + i - 1
    <3>1. q \in 1 .. m + l /\ ~(q <= m) /\ q - m = j + i - 1
      BY <1>2, <1>3
    <3> HIDE DEF q
    <3>2. T[q] = R[q - m]
      BY <1>2, <3>1
    <3>3. T[q] = R[j + i - 1]
      BY <3>1, <3>2
    <3>4. QED
      BY <2>3, <2>4, <3>3 DEF q
  <2>6. a = b
    BY <2>3, <2>4, <2>5, SeqEqual
  <2>7. QED
    BY <2>6 DEF a, b
<1>7. Ahead(T, L)
  <2> DEFINE q == m + j
  <2>1. q \in 1 .. Len(T) /\ T[q].at = "loop"
    BY <1>1, <1>4
  <2>2. \A i \in 1 .. q - 1 : T[i].at # "loop"
    BY <1>5
  <2>3. L = SubSeq(T, q, Len(T))
    BY <1>1, <1>6
  <2> HIDE DEF q
  <2>4. QED
    BY <2>1, <2>2, <2>3 DEF Ahead
<1>8. QED
  BY <1>7 DEF T

(* A loop in front is the first loop. *)
LEMMA AheadHere ==
  ASSUME NEW n \in Node, NEW R \in Todos
  PROVE  Ahead(<<Item0("loop", n)>> \o R, <<Item0("loop", n)>> \o R)
<1> DEFINE T == <<Item0("loop", n)>> \o R
<1>1. "loop" \in SourceLabels
  BY DEF SourceLabels
<1>2. Item0("loop", n) \in SourceItem /\ Item0("loop", n).at = "loop"
  BY <1>1, SourceItems
<1>3. T \in Seq(SourceItem) /\ Head(T) = Item0("loop", n) /\ T # <<>>
  BY <1>2, Pushed DEF Todos
<1> HIDE DEF T
<1>4. T[1].at = "loop" /\ 1 \in 1 .. Len(T)
  BY <1>2, <1>3, EmptySeq
<1>5. T = SubSeq(T, 1, Len(T))
  BY <1>3, SubSeqFull
<1>6. \A i \in 1 .. 1 - 1 : T[i].at # "loop"
  OBVIOUS
<1>7. Ahead(T, T)
  BY <1>4, <1>5, <1>6 DEF Ahead
<1>8. QED
  BY <1>7 DEF T

(* There is only one first loop. *)
LEMMA AheadUnique ==
  ASSUME NEW T \in Todos, NEW L, NEW M, Ahead(T, L), Ahead(T, M)
  PROVE  L = M /\ L \in Todos /\ L # <<>>
<1>1. PICK j \in 1 .. Len(T) : /\ T[j].at = "loop"
                               /\ \A i \in 1 .. j - 1 : T[i].at # "loop"
                               /\ L = SubSeq(T, j, Len(T))
  BY DEF Ahead
<1>2. PICK k \in 1 .. Len(T) : /\ T[k].at = "loop"
                               /\ \A i \in 1 .. k - 1 : T[i].at # "loop"
                               /\ M = SubSeq(T, k, Len(T))
  BY DEF Ahead
<1>3. Len(T) \in Nat
  BY LenProperties DEF Todos
<1>4. j = k
  <2>1. ~(j \in 1 .. k - 1) /\ ~(k \in 1 .. j - 1)
    BY <1>1, <1>2
  <2>2. QED
    BY <1>3, <2>1
<1>5. L \in Todos /\ Len(L) = Len(T) - j + 1
  <2>1. \A i \in j .. Len(T) : T[i] \in SourceItem
    BY <1>3 DEF Todos
  <2>2. j \in Int /\ Len(T) \in Int /\ j <= Len(T)
    BY <1>3
  <2>3. QED
    BY <1>1, <2>1, <2>2, SubSeqProperties DEF Todos
<1>6. L # <<>>
  BY <1>3, <1>5
<1>7. QED
  BY <1>1, <1>2, <1>4, <1>5, <1>6

-----------------------------------------------------------------------------
(***************************************************************************)
(* A step of the lowering keeps the meanings it found: the innermost frame is *)
(* replaced by calls, r[1] by c, and the meanings N are added.               *)
(***************************************************************************)

Extends(f, h, mine) ==
  /\ Len(f.blocks) <= Len(h.blocks)
  /\ \A b \in 1 .. Len(f.blocks) :
       /\ Len(f.blocks[b]) <= Len(h.blocks[b])
       /\ \A k \in 1 .. Len(f.blocks[b]) : h.blocks[b][k] = f.blocks[b][k]
       /\ b \notin mine => h.blocks[b] = f.blocks[b]

Links(calls, c, R) ==
  /\ calls \in Seq(FrameRecord) /\ c \in Seq(Todos) /\ Len(c) = Len(calls)
  /\ \A k \in 1 .. Len(calls) - 1 :
       /\ c[k] = Items(calls[k + 1]) \o c[k + 1]
       /\ calls[k].at # "loop"
       /\ IF calls[Len(calls)].at = "loop"
            THEN Ahead(c[k], <<Item0("loop", calls[Len(calls)].node)>> \o R)
            ELSE \A L : Ahead(R, L) => Ahead(c[k], L)
  /\ calls # <<>> => c[Len(calls)] = R

TopPromised(r, b, T) ==
  \/ b = fn.current /\ T = Now(frames, r)
  \/ <<b, T>> \in Owes(Top, r[1])

(* More meanings keep what an instruction does. *)
LEMMA DoesMore ==
  ASSUME NEW inst, NEW S, NEW S2, S \subseteq S2, NEW T, NEW next, Does(inst, S, T, next)
  PROVE  Does(inst, S2, T, next)
<1>1. \A x : x \in S => x \in S2
  OBVIOUS
<1>2. \A l, n, R : Performs(inst, S, l, n, R, next) => Performs(inst, S2, l, n, R, next)
  <2> SUFFICES ASSUME NEW l, NEW n, NEW R, Performs(inst, S, l, n, R, next)
               PROVE  Performs(inst, S2, l, n, R, next)
    OBVIOUS
  <2>1. CASE l = "finish" /\ Kind(n) = "return" /\ inst = Ret(n)
    BY <2>1 DEF Performs
  <2>2. CASE l = "finish" /\ Kind(n) = "assign" /\ inst = Do("assign", n) /\ <<R, next>> \in S
    BY <1>1, <2>2 DEF Performs
  <2>3. CASE l = "apply" /\ Kind(n) \in {"call", "bin"} /\ inst = Do(Kind(n), n)
             /\ <<R, next>> \in S
    BY <1>1, <2>3 DEF Performs
  <2>4. CASE l = "test" /\ Kind(n) \in {"if", "while"}
             /\ \E b, c : /\ inst = Br(Kids(n)[1], b, c)
                          /\ <<Body(n) \o R, <<b, 1>>>> \in S
                          /\ <<Otherwise(n) \o R, <<c, 1>>>> \in S
    BY <1>1, <2>4 DEF Performs
  <2>5. CASE l = "lhs" /\ Kind(n) \in {"or", "and"}
             /\ \E b, c : /\ inst = ShortCircuitBranch(n, b, c)
                          /\ <<<<Item0("short", n)>> \o R, <<b, 1>>>> \in S
                          /\ <<<<Exp(Kids(n)[2]), Item0("rhs", n)>> \o R, <<c, 1>>>> \in S
    BY <1>1, <2>5 DEF Performs
  <2>6. CASE l = "rhs" /\ Kind(n) \in {"or", "and"} /\ inst = Do("store", n)
             /\ <<Loading(n, R), next>> \in S
    BY <1>1, <2>6 DEF Performs
  <2>7. CASE l = "short" /\ Kind(n) \in {"or", "and"} /\ inst = Do("shortcut", n)
             /\ <<Loading(n, R), next>> \in S
    BY <1>1, <2>7 DEF Performs
  <2>8. CASE l = "load" /\ Kind(n) \in {"or", "and"} /\ inst = Do("load", n)
             /\ <<R, next>> \in S
    BY <1>1, <2>8 DEF Performs
  <2>9. QED
    BY <2>1, <2>2, <2>3, <2>4, <2>5, <2>6, <2>7, <2>8 DEF Performs
<1>3. QED
  BY <1>1, <1>2 DEF Does

(* A written instruction stays, and so does what it keeps. *)
LEMMA KeepsMore ==
  ASSUME GoodFn(fn), GoodFn(fn'), NEW mine, Extends(fn, fn', mine), NEW S, NEW S2, S \subseteq S2,
         NEW T, NEW p \in Place, Keeps(fn, S, T, p)
  PROVE  Keeps(fn', S2, T, p)
<1>1. /\ p[1] \in 1 .. Len(fn.blocks) /\ p[2] \in 1 .. Len(fn.blocks[p[1]])
  BY DEF Keeps
<1>2. /\ Len(fn.blocks) \in Nat /\ Len(fn'.blocks) \in Nat
      /\ fn.blocks[p[1]] \in Seq(AnyInstruction) /\ fn'.blocks \in Seq(Seq(AnyInstruction))
  BY <1>1, LenProperties DEF GoodFn, AnyFn
<1>3. p[1] \in 1 .. Len(fn'.blocks)
  BY <1>1, <1>2 DEF Extends
<1>4. Len(fn.blocks[p[1]]) \in Nat /\ Len(fn'.blocks[p[1]]) \in Nat
  <2>1. fn'.blocks[p[1]] \in Seq(AnyInstruction)
    BY <1>2, <1>3
  <2>2. QED
    BY <1>2, <2>1, LenProperties
<1>5. p[2] \in 1 .. Len(fn'.blocks[p[1]]) /\ fn'.blocks[p[1]][p[2]] = fn.blocks[p[1]][p[2]]
  <2>1. /\ Len(fn.blocks[p[1]]) <= Len(fn'.blocks[p[1]])
        /\ fn'.blocks[p[1]][p[2]] = fn.blocks[p[1]][p[2]]
    BY <1>1 DEF Extends
  <2>2. QED
    BY <1>1, <1>4, <2>1
<1>6. Does(fn.blocks[p[1]][p[2]], S, T, <<p[1], p[2] + 1>>)
  BY DEF Keeps
<1>7. Does(fn.blocks[p[1]][p[2]], S2, T, <<p[1], p[2] + 1>>)
  BY <1>6, DoesMore
<1>8. QED
  BY <1>3, <1>5, <1>7 DEF Keeps

(* A frame promises only of the blocks it owns. *)
LEMMA OwesOwned ==
  ASSUME NEW m \in Nat, NEW f, FrameOK(f, m), NEW R, NEW b, NEW T, <<b, T>> \in Owes(f, R), b # NoBlock
  PROVE  b \in Owned(f)
<1>1. f \in FrameRecord
  BY DEF FrameOK
<1>2. CASE f.at = "then"
  BY <1>2 DEF Owes, Owned
<1>3. CASE f.at = "else"
  BY <1>3 DEF Owes, Owned
<1>4. CASE f.at = "test"
  BY <1>4 DEF Owes, Owned
<1>5. CASE f.at = "loop"
  BY <1>5 DEF Owes, Owned
<1>6. CASE f.at = "lhs"
  <2>1. b \in {f.refs[1], f.refs[1] + 1, f.refs[1] + 2} /\ f.refs[1] \in Nat
    BY <1>6 DEF Owes, FrameOK
  <2>2. Owned(f) = f.refs[1] .. f.refs[1] + 2
    BY <1>6 DEF Owned
  <2>3. QED
    BY <2>1, <2>2
<1>7. CASE f.at = "rhs"
  BY <1>7 DEF Owes, Owned
<1>8. CASE f.at \notin {"then", "else", "test", "loop", "lhs", "rhs"}
  BY <1>8 DEF Owes
<1>9. QED
  BY <1>2, <1>3, <1>4, <1>5, <1>6, <1>7, <1>8

(* Open blocks are blocks. *)
LEMMA OpenNumbers ==
  ASSUME NEW f, GoodFn(f), NEW b \in Opens(f)
  PROVE  b \in 1 .. Len(f.blocks) /\ b \in Nat /\ b # NoBlock
<1>1. Len(f.blocks) \in Nat
  BY LenProperties DEF GoodFn, AnyFn
<1>2. b \in 1 .. Len(f.blocks)
  BY DEF Opens
<1>3. QED
  BY <1>1, <1>2 DEF NoBlock

\* The two stacks after the step.
Shifted(calls, c, r, r2) ==
  LET l == Len(calls)
      n == Len(frames)
  IN /\ l \in Nat /\ n \in Nat \ {0} /\ Top = frames[1]
     /\ r2 \in Seq(Todos) /\ Len(r2) = l + n - 1
     /\ frames' \in Seq(FrameRecord) /\ Len(frames') = l + n - 1
     /\ \A k \in 1 .. l : frames'[k] = calls[k] /\ r2[k] = c[k]
     /\ \A k \in 2 .. n : /\ l + k - 1 \in 1 .. l + n - 1
                          /\ frames'[l + k - 1] = frames[k] /\ r2[l + k - 1] = r[k]
     /\ \A k \in 1 .. l + n - 1 : k \in 1 .. l \/ k - l + 1 \in 2 .. n
     /\ l = 0 <=> calls = <<>>
     /\ l > 0 => c[l] = r[1]

(* The stacks of calls and of rests, position by position. *)
LEMMA StacksFacts ==
  ASSUME LoweringInv, frames # <<>>, NEW r, NEW S, Code(fn, frames, r, S),
         NEW calls, NEW c, Links(calls, c, r[1]), frames' = calls \o Tail(frames),
         NEW r2, r2 = c \o Tail(r)
  PROVE  Shifted(calls, c, r, r2)
<1> DEFINE l == Len(calls)
           n == Len(frames)
<1>1. /\ calls \in Seq(FrameRecord) /\ c \in Seq(Todos) /\ Len(c) = l
  BY DEF Links
<1>2. frames \in Seq(FrameRecord) /\ r \in Seq(Todos) /\ Len(r) = n
  BY TopFacts DEF Code
<1>3. n \in Nat \ {0} /\ r # <<>> /\ Top = frames[1] /\ l \in Nat /\ (l = 0 <=> calls = <<>>)
  <2>1. n \in Nat \ {0}
    BY <1>2, EmptySeq
  <2>2. r # <<>>
    BY <1>2, <2>1, EmptySeq
  <2>3. l \in Nat /\ (l = 0 <=> calls = <<>>)
    BY <1>1, EmptySeq, LenProperties
  <2>4. QED
    BY <1>2, <2>1, <2>2, <2>3 DEF Top
<1>4. /\ frames' \in Seq(FrameRecord)
      /\ Len(frames') = l + n - 1
      /\ \A k \in 1 .. l : frames'[k] = calls[k]
      /\ \A k \in 2 .. n : l + k - 1 \in 1 .. l + n - 1 /\ frames'[l + k - 1] = frames[k]
      /\ \A k \in 1 .. l + n - 1 : k \in 1 .. l \/ k - l + 1 \in 2 .. n
  BY <1>1, <1>2, Replaced
<1>5. /\ r2 \in Seq(Todos)
      /\ Len(r2) = l + n - 1
      /\ \A k \in 1 .. l : r2[k] = c[k]
      /\ \A k \in 2 .. n : r2[l + k - 1] = r[k]
  <2>1. r \in Seq(Todos) /\ r # <<>> /\ c \in Seq(Todos)
    BY <1>1, <1>2, <1>3
  <2>2. /\ r2 \in Seq(Todos)
        /\ Len(r2) = Len(c) + Len(r) - 1
        /\ \A k \in 1 .. Len(c) : r2[k] = c[k]
        /\ \A k \in 2 .. Len(r) : r2[Len(c) + k - 1] = r[k]
    BY <2>1, Replaced
  <2>3. QED
    BY <1>1, <1>2, <2>2
<1>6. l > 0 => c[l] = r[1]
  BY <1>3 DEF Links
<1> HIDE DEF l, n
<1>7. \A k \in 2 .. n : /\ l + k - 1 \in 1 .. l + n - 1
                        /\ frames'[l + k - 1] = frames[k] /\ r2[l + k - 1] = r[k]
  BY <1>4, <1>5
<1>8. \A k \in 1 .. l : frames'[k] = calls[k] /\ r2[k] = c[k]
  BY <1>4, <1>5
<1>9. QED
  BY <1>3, <1>4, <1>5, <1>6, <1>7, <1>8 DEF Shifted, l, n

\* What remains after each call in progress.
LEMMA ChainStep ==
  ASSUME LoweringInv, frames # <<>>, NEW r, NEW S, Code(fn, frames, r, S),
         NEW calls, NEW c, Links(calls, c, r[1]), frames' = calls \o Tail(frames),
         NEW r2, r2 = c \o Tail(r)
  PROVE  /\ \A k \in 1 .. Len(frames') - 1 : r2[k] = Items(frames'[k + 1]) \o r2[k + 1]
         /\ frames' # <<>> => r2[Len(frames')] = <<>>
<1> DEFINE l == Len(calls)
           n == Len(frames)
<1>1. /\ l \in Nat /\ n \in Nat \ {0}
      /\ frames' \in Seq(FrameRecord) /\ Len(frames') = l + n - 1
      /\ \A k \in 1 .. l : frames'[k] = calls[k] /\ r2[k] = c[k]
      /\ \A k \in 2 .. n : frames'[l + k - 1] = frames[k] /\ r2[l + k - 1] = r[k]
      /\ l > 0 => c[l] = r[1]
  <2>1. Shifted(calls, c, r, r2)
    BY StacksFacts
  <2>2. QED
    BY <2>1 DEF Shifted
<1>2. \A k \in 1 .. n - 1 : r[k] = Items(frames[k + 1]) \o r[k + 1]
  BY DEF Code
<1>3. \A k \in 1 .. l - 1 : c[k] = Items(calls[k + 1]) \o c[k + 1]
  BY DEF Links
<1>4. r[n] = <<>>
  BY DEF Code
<1> HIDE DEF l, n
<1>5. ASSUME NEW k \in 1 .. Len(frames') - 1
      PROVE  r2[k] = Items(frames'[k + 1]) \o r2[k + 1]
  <2>1. k \in 1 .. l + n - 2 /\ k \in Nat
    BY <1>1
  <2>2. CASE k < l
    <3>1. k \in 1 .. l /\ k + 1 \in 1 .. l /\ k \in 1 .. l - 1
      BY <1>1, <2>1, <2>2
    <3>2. frames'[k + 1] = calls[k + 1] /\ r2[k + 1] = c[k + 1] /\ r2[k] = c[k]
      BY <1>1, <3>1
    <3>3. QED
      BY <1>3, <3>1, <3>2
  <2>3. CASE k >= l
    <3> DEFINE j == k - l + 1
    <3>1. j \in 1 .. n - 1 /\ j + 1 \in 2 .. n /\ l + (j + 1) - 1 = k + 1 /\ l + j - 1 = k
      BY <1>1, <2>1, <2>3
    <3>2. r2[k] = r[j]
      <4>1. CASE j = 1
        <5>1. k = l /\ l > 0 /\ k \in 1 .. l
          BY <1>1, <2>1, <4>1
        <5>2. QED
          BY <1>1, <4>1, <5>1
      <4>2. CASE j # 1
        <5>1. j \in 2 .. n
          BY <1>1, <3>1, <4>2
        <5> HIDE DEF j
        <5>2. r2[l + j - 1] = r[j]
          BY <1>1, <5>1
        <5>3. QED
          BY <3>1, <5>2
      <4>3. QED
        BY <4>1, <4>2
    <3> HIDE DEF j
    <3>3. frames'[l + (j + 1) - 1] = frames[j + 1] /\ r2[l + (j + 1) - 1] = r[j + 1]
      BY <1>1, <3>1
    <3>4. frames'[k + 1] = frames[j + 1] /\ r2[k + 1] = r[j + 1]
      BY <3>1, <3>3
    <3>5. QED
      BY <1>2, <3>1, <3>2, <3>4
  <2>4. k < l \/ k >= l
    BY <1>1, <2>1
  <2>5. QED
    BY <2>2, <2>3, <2>4
<1>6. ASSUME frames' # <<>> PROVE r2[Len(frames')] = <<>>
  <2>1. CASE n = 1
    <3>1. l # 0
      BY <1>1, <1>6, <2>1, EmptySeq
    <3>2. l \in 1 .. l /\ l > 0 /\ Len(frames') = l
      BY <1>1, <2>1, <3>1
    <3>3. QED
      BY <1>1, <1>4, <2>1, <3>2
  <2>2. CASE n # 1
    <3>1. n \in 2 .. n
      BY <1>1, <2>2
    <3>2. r2[l + n - 1] = r[n]
      BY <1>1, <3>1
    <3>3. QED
      BY <1>1, <1>4, <3>2
  <2>3. QED
    BY <2>1, <2>2
<1>7. QED
  BY <1>5, <1>6

\* The innermost loop of what remains after a call is that of the frames below.
LEMMA AheadStep ==
  ASSUME LoweringInv, frames # <<>>, NEW r, NEW S, Code(fn, frames, r, S),
         NEW calls, NEW c, Links(calls, c, r[1]), frames' = calls \o Tail(frames),
         NEW r2, r2 = c \o Tail(r),
         NEW k \in 1 .. Len(frames'), NEW m \in 1 .. Len(frames'), k < m, frames'[m].at = "loop",
         \A j \in k + 1 .. m - 1 : frames'[j].at # "loop"
  PROVE  Ahead(r2[k], <<Item0("loop", frames'[m].node)>> \o r2[m])
<1> DEFINE l == Len(calls)
           n == Len(frames)
<1>1. /\ l \in Nat /\ n \in Nat \ {0}
      /\ frames' \in Seq(FrameRecord) /\ Len(frames') = l + n - 1
      /\ \A i \in 1 .. l : frames'[i] = calls[i] /\ r2[i] = c[i]
      /\ \A i \in 2 .. n : frames'[l + i - 1] = frames[i] /\ r2[l + i - 1] = r[i]
      /\ l > 0 => c[l] = r[1]
  <2>1. Shifted(calls, c, r, r2)
    BY StacksFacts
  <2>2. QED
    BY <2>1 DEF Shifted
<1>2. ASSUME NEW i \in 1 .. n, NEW q \in 1 .. n, i < q, frames[q].at = "loop",
             \A j \in i + 1 .. q - 1 : frames[j].at # "loop"
      PROVE  Ahead(r[i], <<Item0("loop", frames[q].node)>> \o r[q])
  BY <1>2 DEF Code
<1>3. \A i \in 1 .. l - 1 :
        /\ calls[i].at # "loop"
        /\ IF calls[l].at = "loop"
             THEN Ahead(c[i], <<Item0("loop", calls[l].node)>> \o r[1])
             ELSE \A L : Ahead(r[1], L) => Ahead(c[i], L)
  BY DEF Links
<1> HIDE DEF l, n
<1>4. k \in Nat /\ m \in Nat /\ 1 <= k /\ m <= l + n - 1 /\ k \in 1 .. l + n - 1
  BY <1>1
<1>5. CASE m <= l
  <2>1. k \in 1 .. l - 1 /\ k \in 1 .. l /\ m \in 1 .. l
    BY <1>1, <1>4, <1>5
  <2>2. m = l
    <3>1. calls[m].at = "loop"
      BY <1>1, <2>1
    <3>2. m \notin 1 .. l - 1
      BY <1>3, <3>1
    <3>3. QED
      BY <1>1, <2>1, <3>2
  <2>3. calls[l].at = "loop" /\ frames'[m] = calls[l] /\ r2[k] = c[k] /\ r2[m] = r[1]
    <3>1. l > 0
      BY <1>1, <2>1
    <3>2. QED
      BY <1>1, <2>1, <2>2, <3>1
  <2>4. QED
    BY <1>3, <2>1, <2>3
<1>6. CASE m > l
  <2> DEFINE q == m - l + 1
             P(i) == Ahead(r[i], <<Item0("loop", frames'[m].node)>> \o r2[m])
  <2>1. q \in 2 .. n /\ q \in 1 .. n /\ l + q - 1 = m
    BY <1>1, <1>4, <1>6
  <2>2. frames'[m] = frames[q] /\ r2[m] = r[q]
    <3> HIDE DEF q
    <3>1. frames'[l + q - 1] = frames[q] /\ r2[l + q - 1] = r[q]
      BY <1>1, <2>1
    <3>2. QED
      BY <2>1, <3>1
  <2>3. ASSUME NEW i \in 1 .. n, i < q, k <= l + i - 1 PROVE P(i)
    <3>1. ASSUME NEW j \in i + 1 .. q - 1 PROVE frames[j].at # "loop"
      <4>1. j \in 2 .. n /\ l + j - 1 \in k + 1 .. m - 1
        BY <1>1, <1>4, <2>1, <2>3
      <4>2. frames'[l + j - 1] = frames[j]
        BY <1>1, <4>1
      <4>3. QED
        BY <4>1, <4>2
    <3>2. frames[q].at = "loop"
      BY <2>2
    <3> HIDE DEF q
    <3>3. Ahead(r[i], <<Item0("loop", frames[q].node)>> \o r[q])
      BY <1>2, <2>1, <2>3, <3>1, <3>2
    <3>4. QED
      BY <2>2, <3>3
  <2>4. CASE k > l
    <3> DEFINE i == k - l + 1
    <3>1. i \in 2 .. n /\ i \in 1 .. n /\ i < q /\ k <= l + i - 1 /\ l + i - 1 = k
      BY <1>1, <1>4, <2>4
    <3>2. P(i)
      BY <2>3, <3>1
    <3>3. r2[k] = r[i]
      <4> HIDE DEF i
      <4>1. r2[l + i - 1] = r[i]
        BY <1>1, <3>1
      <4>2. QED
        BY <3>1, <4>1
    <3>4. QED
      BY <3>2, <3>3
  <2>5. CASE k <= l
    <3>1. 1 \in 1 .. n /\ 1 < q /\ k <= l + 1 - 1 /\ k \in 1 .. l /\ l > 0
      BY <1>1, <1>4, <1>6, <2>5
    <3>2. P(1)
      BY <2>3, <3>1
    <3>3. r2[k] = c[k] /\ c[l] = r[1]
      BY <1>1, <3>1
    <3>4. CASE k = l
      BY <3>2, <3>3, <3>4
    <3>5. CASE k # l
      <4>1. k \in 1 .. l - 1 /\ l \in k + 1 .. m - 1 /\ l \in 1 .. l
        BY <1>1, <1>4, <1>6, <3>1, <3>5
      <4>2. calls[l].at # "loop"
        BY <1>1, <4>1
      <4>3. Ahead(c[k], <<Item0("loop", frames'[m].node)>> \o r2[m])
        BY <1>3, <3>2, <4>1, <4>2
      <4>4. QED
        BY <3>3, <4>3
    <3>6. QED
      BY <3>4, <3>5
  <2>6. k > l \/ k <= l
    BY <1>1, <1>4
  <2>7. QED
    BY <2>4, <2>5, <2>6
<1>7. m <= l \/ m > l
  BY <1>1, <1>4
<1>8. QED
  BY <1>5, <1>6, <1>7

\* The promises of the frames below the innermost one are about blocks that the
\* step leaves alone.
LEMMA FitsStep ==
  ASSUME LoweringInv, LoweringInv', frames # <<>>, UNCHANGED program,
         NEW r, NEW S, Code(fn, frames, r, S),
         NEW calls, NEW c, Links(calls, c, r[1]), frames' = calls \o Tail(frames),
         NEW r2, r2 = c \o Tail(r), NEW S2, S \subseteq S2, Extends(fn, fn', Mine),
         \A b \in Opens(fn) \cap Mine : \A T : TopPromised(r, b, T) =>
            Fits(fn', frames', r2, S2, T, <<b, Len(fn.blocks[b]) + 1>>),
         NEW T, NEW p \in Place, <<T, p>> \in S
  PROVE  Fits(fn', frames', r2, S2, T, p)
<1>1. /\ GoodFn(fn) /\ GoodFn(fn') /\ Owned(Top) \subseteq Opens(fn) \ Current
      /\ Current \subseteq Opens(fn)
  BY TopFacts DEF LoweringInv, FrameInv
<1>2. Fits(fn, frames, r, S, T, p)
  BY DEF Code
<1>3. CASE \E U : Quiet(T, U) /\ <<U, p>> \in S
  BY <1>3 DEF Fits
<1>4. CASE Keeps(fn, S, T, p)
  <2>1. Keeps(fn', S2, T, p)
    BY <1>1, <1>4, KeepsMore
  <2>2. QED
    BY <2>1 DEF Fits
<1>5. CASE /\ p[1] \in Opens(fn)
           /\ p[2] = Len(fn.blocks[p[1]]) + 1
           /\ Promised(fn, frames, r, p[1], T)
  <2> DEFINE b == p[1]
  <2>1. b \in 1 .. Len(fn.blocks) /\ b \in Nat /\ b # NoBlock /\ b \in Opens(fn)
    BY <1>1, <1>5, OpenNumbers
  <2>2. p = <<b, Len(fn.blocks[b]) + 1>>
    BY <1>5 DEF Place
  <2>3. Shifted(calls, c, r, r2)
    BY StacksFacts
  <2> DEFINE l == Len(calls)
             n == Len(frames)
  <2>4. /\ l \in Nat /\ n \in Nat \ {0} /\ Top = frames[1] /\ Len(frames') = l + n - 1
        /\ \A k \in 2 .. n : /\ l + k - 1 \in 1 .. l + n - 1
                             /\ frames'[l + k - 1] = frames[k] /\ r2[l + k - 1] = r[k]
    BY <2>3 DEF Shifted
  <2> HIDE DEF b, l
  <2>5. CASE b \in Mine /\ TopPromised(r, b, T)
    BY <2>1, <2>2, <2>5
  <2>6. CASE b = fn.current /\ T = Now(frames, r)
    <3>1. TopPromised(r, b, T) /\ b \in Mine
      BY <2>1, <2>6 DEF TopPromised, Mine, Current
    <3>2. QED
      BY <2>5, <3>1
  <2>7. CASE \E k \in 1 .. n : <<b, T>> \in Owes(frames[k], r[k])
    <3>1. PICK k \in 1 .. n : <<b, T>> \in Owes(frames[k], r[k])
      BY <2>7
    <3>2. FrameOK(frames[k], Len(fn.blocks)) /\ Len(fn.blocks) \in Nat
      <4>1. k \in 1 .. Len(frames)
        OBVIOUS
      <4>2. QED
        BY <4>1, TopFacts DEF LoweringInv, FrameInv
    <3>3. b \in Owned(frames[k])
      BY <2>1, <3>1, <3>2, OwesOwned
    <3>4. CASE k = 1
      <4>1. TopPromised(r, b, T) /\ b \in Mine
        BY <2>4, <3>1, <3>3, <3>4 DEF TopPromised, Mine
      <4>2. QED
        BY <2>5, <4>1
    <3>5. CASE k # 1
      <4>1. k \in 2 .. n /\ 1 \in 1 .. n
        BY <2>4, <3>5
      <4>2. b \notin Owned(frames[1]) /\ b \notin Current
        BY <3>3, <3>5, <4>1 DEF LoweringInv, OwnInv
      <4>3. b \notin Mine
        BY <2>4, <4>2 DEF Mine
      <4>4. b \in 1 .. Len(fn'.blocks) /\ fn'.blocks[b] = fn.blocks[b]
        <5>1. Len(fn.blocks) \in Nat /\ Len(fn'.blocks) \in Nat
          BY <1>1, LenProperties DEF GoodFn, AnyFn
        <5>2. QED
          BY <2>1, <4>3, <5>1 DEF Extends
      <4>5. b \in Opens(fn')
        BY <2>1, <4>4 DEF Opens
      <4>6. \E j \in 1 .. Len(frames') : <<b, T>> \in Owes(frames'[j], r2[j])
        <5> DEFINE j == l + k - 1
        <5>1. j \in 1 .. Len(frames') /\ frames'[j] = frames[k] /\ r2[j] = r[k]
          BY <2>4, <4>1
        <5> HIDE DEF j
        <5>2. QED
          BY <3>1, <5>1
      <4>7. Promised(fn', frames', r2, b, T)
        BY <4>6 DEF Promised
      <4>8. p[1] = b /\ p[2] = Len(fn'.blocks[b]) + 1
        BY <2>2, <4>4
      <4>9. QED
        BY <4>5, <4>7, <4>8 DEF Fits
    <3>6. QED
      BY <3>4, <3>5
  <2>8. QED
    BY <1>5, <2>6, <2>7 DEF Promised, b
<1>6. QED
  BY <1>2, <1>3, <1>4, <1>5 DEF Fits

(* The innermost frame is replaced: Code holds again if what this frame had promised
   and the added meanings fit. *)
LEMMA CodeStep ==
  ASSUME LoweringInv, LoweringInv', frames # <<>>, UNCHANGED program,
         NEW r, NEW S, Code(fn, frames, r, S),
         NEW calls, NEW c, Links(calls, c, r[1]), frames' = calls \o Tail(frames),
         NEW r2, r2 = c \o Tail(r),
         NEW N, N \subseteq Meanings \X Place, NEW S2, S2 = S \cup N,
         Extends(fn, fn', Mine),
         \A b \in Opens(fn) \cap Mine : \A T : TopPromised(r, b, T) =>
            Fits(fn', frames', r2, S2, T, <<b, Len(fn.blocks[b]) + 1>>),
         \A x \in N : Fits(fn', frames', r2, S2, x[1], x[2]),
         \A k \in 1 .. Len(calls) : calls[k].at \in LoopFrames => Looping(calls[k], c[k]) \in S2,
         \A b \in Opens(fn') : b # fn'.current /\ (b \in Mine \/ b > Len(fn.blocks)) =>
            fn'.blocks[b] = <<>>
  PROVE  Code(fn', frames', r2, S2)
<1>1. Shifted(calls, c, r, r2)
  BY StacksFacts
<1>2. /\ r2 \in Seq(Todos) /\ Len(r2) = Len(frames')
  BY <1>1 DEF Shifted
<1>3. S2 \subseteq Meanings \X Place /\ <<<<Stmt(program.root)>>, <<1, 1>>>> \in S2
  BY DEF Code
<1>4. /\ \A k \in 1 .. Len(frames') - 1 : r2[k] = Items(frames'[k + 1]) \o r2[k + 1]
      /\ frames' # <<>> => r2[Len(frames')] = <<>>
  BY ChainStep
<1>5. ASSUME NEW x \in S2 PROVE Fits(fn', frames', r2, S2, x[1], x[2])
  <2>1. CASE x \in N
    BY <2>1
  <2>2. CASE x \in S
    <3>1. x = <<x[1], x[2]>> /\ x[2] \in Place
      BY <1>3
    <3> DEFINE T == x[1]
               p == x[2]
    <3>2. <<T, p>> \in S /\ p \in Place
      BY <2>2, <3>1
    <3> HIDE DEF T, p
    <3>3. S \subseteq S2
      OBVIOUS
    <3>4. Fits(fn', frames', r2, S2, T, p)
      BY <3>2, <3>3, FitsStep
    <3>5. QED
      BY <3>4 DEF T, p
  <2>3. QED
    BY <2>1, <2>2
<1>6. ASSUME NEW k \in 1 .. Len(frames'), frames'[k].at \in LoopFrames
      PROVE  Looping(frames'[k], r2[k]) \in S2
  <2> DEFINE l == Len(calls)
             n == Len(frames)
  <2>1. /\ l \in Nat /\ n \in Nat \ {0} /\ Len(frames') = l + n - 1
        /\ \A i \in 1 .. l : frames'[i] = calls[i] /\ r2[i] = c[i]
        /\ \A i \in 2 .. n : frames'[l + i - 1] = frames[i] /\ r2[l + i - 1] = r[i]
        /\ \A i \in 1 .. l + n - 1 : i \in 1 .. l \/ i - l + 1 \in 2 .. n
    BY <1>1 DEF Shifted
  <2>2. \A i \in 1 .. n : frames[i].at \in LoopFrames => Looping(frames[i], r[i]) \in S2
    BY DEF Code
  <2>3. \A i \in 1 .. l : calls[i].at \in LoopFrames => Looping(calls[i], c[i]) \in S2
    OBVIOUS
  <2> HIDE DEF l, n
  <2>4. CASE k \in 1 .. l
    BY <1>6, <2>1, <2>3, <2>4
  <2>5. CASE k - l + 1 \in 2 .. n
    <3> DEFINE i == k - l + 1
    <3>1. i \in 2 .. n /\ i \in 1 .. n /\ l + i - 1 = k
      BY <2>1, <2>5
    <3> HIDE DEF i
    <3>2. frames'[k] = frames[i] /\ r2[k] = r[i]
      <4>1. frames'[l + i - 1] = frames[i] /\ r2[l + i - 1] = r[i]
        BY <2>1, <3>1
      <4>2. QED
        BY <3>1, <4>1
    <3>3. QED
      BY <1>6, <2>2, <3>1, <3>2
  <2>6. QED
    BY <2>1, <2>4, <2>5
<1>7. ASSUME NEW k \in 1 .. Len(frames'), NEW m \in 1 .. Len(frames'), k < m,
             frames'[m].at = "loop", \A j \in k + 1 .. m - 1 : frames'[j].at # "loop"
      PROVE  Ahead(r2[k], <<Item0("loop", frames'[m].node)>> \o r2[m])
  BY <1>7, AheadStep
<1>8. ASSUME NEW b \in Opens(fn'), b # fn'.current PROVE fn'.blocks[b] = <<>>
  <2>1. CASE b \in Mine \/ b > Len(fn.blocks)
    BY <1>8, <2>1
  <2>2. CASE ~(b \in Mine \/ b > Len(fn.blocks))
    <3>1. GoodFn(fn) /\ GoodFn(fn')
      BY DEF LoweringInv, FrameInv
    <3>2. b \in Nat /\ b # NoBlock /\ b \in 1 .. Len(fn'.blocks)
      BY <3>1, OpenNumbers
    <3>3. b \in 1 .. Len(fn.blocks)
      <4>1. Len(fn.blocks) \in Nat /\ Len(fn'.blocks) \in Nat
        BY <3>1, LenProperties DEF GoodFn, AnyFn
      <4>2. QED
        BY <2>2, <3>2, <4>1
    <3>4. fn'.blocks[b] = fn.blocks[b]
      BY <2>2, <3>3 DEF Extends
    <3>5. b \in Opens(fn)
      BY <3>3, <3>4 DEF Opens
    <3>6. b # fn.current
      BY <2>2, <3>2 DEF Mine, Current
    <3>7. QED
      BY <3>4, <3>5, <3>6 DEF Code
  <2>3. QED
    BY <2>1, <2>2
<1>9. QED
  BY <1>2, <1>3, <1>4, <1>5, <1>6, <1>7, <1>8 DEF Code

-----------------------------------------------------------------------------
(***************************************************************************)
(* Where the meanings are kept after a step.                                *)
(***************************************************************************)

Latest(calls, c, R) == IF calls = <<>> THEN R ELSE Items(calls[1]) \o c[1]

(* What remains to be done at the current block, before and after the step. *)
LEMMA NowStep ==
  ASSUME LoweringInv, frames # <<>>, NEW r, NEW S, Code(fn, frames, r, S),
         NEW calls, NEW c, Links(calls, c, r[1]), frames' = calls \o Tail(frames),
         NEW r2, r2 = c \o Tail(r)
  PROVE  /\ Now(frames', r2) = Latest(calls, c, r[1])
         /\ Now(frames, r) = Items(Top) \o r[1]
         /\ r[1] \in Todos
<1> DEFINE l == Len(calls)
           n == Len(frames)
<1>1. Shifted(calls, c, r, r2)
  BY StacksFacts
<1>2. /\ l \in Nat /\ n \in Nat \ {0} /\ Top = frames[1]
      /\ frames' \in Seq(FrameRecord) /\ Len(frames') = l + n - 1
      /\ \A k \in 1 .. l : frames'[k] = calls[k] /\ r2[k] = c[k]
      /\ \A k \in 2 .. n : frames'[l + k - 1] = frames[k] /\ r2[l + k - 1] = r[k]
      /\ (l = 0 <=> calls = <<>>)
  BY <1>1 DEF Shifted
<1>3. /\ r \in Seq(Todos) /\ Len(r) = n /\ r[n] = <<>>
      /\ \A k \in 1 .. n - 1 : r[k] = Items(frames[k + 1]) \o r[k + 1]
  BY DEF Code
<1> HIDE DEF l, n
<1>4. ASSUME calls # <<>> PROVE Now(frames', r2) = Items(calls[1]) \o c[1]
  <2>1. 1 \in 1 .. l /\ frames' # <<>>
    BY <1>2, <1>4, EmptySeq
  <2>2. QED
    BY <1>2, <1>4, <2>1 DEF Now
<1>5. ASSUME calls = <<>> PROVE Now(frames', r2) = r[1]
  <2>1. CASE n = 1
    <3>1. frames' = <<>>
      BY <1>2, <1>5, <2>1, EmptySeq
    <3>2. QED
      BY <1>3, <1>5, <2>1, <3>1 DEF Now
  <2>2. CASE n # 1
    <3>1. 2 \in 2 .. n /\ l + 2 - 1 = 1 /\ 1 \in 1 .. n - 1 /\ 1 + 1 = 2
      BY <1>2, <1>5, <2>2
    <3>2. frames'[1] = frames[2] /\ r2[1] = r[2] /\ r[1] = Items(frames[2]) \o r[2]
      BY <1>2, <1>3, <3>1
    <3>3. Len(frames') # 0
      BY <1>2, <1>5, <2>2
    <3>4. frames' # <<>>
      BY <1>2, <3>3, EmptySeq
    <3>5. QED
      BY <1>5, <3>2, <3>4 DEF Now
  <2>3. QED
    BY <2>1, <2>2
<1>6. Now(frames, r) = Items(Top) \o r[1]
  BY <1>2 DEF Now
<1>7. r[1] \in Todos
  BY <1>2, <1>3
<1>8. QED
  BY <1>4, <1>5, <1>6, <1>7 DEF Latest

(* The frames that replace the innermost one fit their nodes. *)
LEMMA NextFrames ==
  ASSUME LoweringInv', UNCHANGED program
  PROVE  /\ \A k \in 1 .. Len(frames') : FrameOK(frames'[k], Len(fn'.blocks))
         /\ GoodFn(fn') /\ Len(fn'.blocks) \in Nat /\ frames' \in Seq(FrameRecord)
<1>1. \A f, n : FrameOK(f, n)' <=> FrameOK(f, n)
  BY DEF FrameOK, Kind
<1>2. (\A k \in 1 .. Len(frames) : FrameOK(frames[k], Len(fn.blocks)))'
  BY DEF LoweringInv, FrameInv
<1>3. GoodFn(fn') /\ frames' \in Seq(FrameRecord)
  BY DEF LoweringInv, FrameInv
<1>4. QED
  BY <1>1, <1>2, <1>3, LenProperties DEF GoodFn, AnyFn

(* What remains to be done after the step is something a source can do. *)
LEMMA NextNowTyped ==
  ASSUME LoweringInv, LoweringInv', frames # <<>>, UNCHANGED program,
         NEW r, NEW S, Code(fn, frames, r, S),
         NEW calls, NEW c, Links(calls, c, r[1]), frames' = calls \o Tail(frames),
         NEW r2, r2 = c \o Tail(r)
  PROVE  Now(frames', r2) \in Todos
<1>1. Now(frames', r2) = Latest(calls, c, r[1])
  BY NowStep
<1>2. r[1] \in Todos
  BY NowStep
<1>3. CASE calls = <<>>
  BY <1>1, <1>2, <1>3 DEF Latest
<1>4. CASE calls # <<>>
  <2>1. Shifted(calls, c, r, r2)
    BY StacksFacts
  <2>2. 1 \in 1 .. Len(frames') /\ frames'[1] = calls[1]
    <3>1. /\ Len(calls) \in Nat /\ Len(frames) \in Nat \ {0}
          /\ Len(frames') = Len(calls) + Len(frames) - 1
          /\ (Len(calls) = 0 <=> calls = <<>>)
          /\ \A k \in 1 .. Len(calls) : frames'[k] = calls[k]
      BY <2>1 DEF Shifted
    <3>2. 1 \in 1 .. Len(calls)
      BY <1>4, <3>1
    <3>3. QED
      BY <3>1, <3>2
  <2>3. FrameOK(calls[1], Len(fn'.blocks)) /\ Len(fn'.blocks) \in Nat /\ IsAst(program)
    BY <2>2, NextFrames, TopFacts
  <2>4. Items(calls[1]) \in Todos
    BY <2>3, ItemsTyped
  <2>5. c[1] \in Todos
    <3>1. c \in Seq(Todos) /\ 1 \in 1 .. Len(c)
      BY <1>4, EmptySeq DEF Links
    <3>2. QED
      BY <3>1
  <2>6. Items(calls[1]) \o c[1] \in Todos
    BY <2>4, <2>5, ConcatProperties DEF Todos
  <2>7. QED
    BY <1>1, <1>4, <2>6 DEF Latest
<1>5. QED
  BY <1>3, <1>4

(* The end of the current block stands for what remains to be done. *)
LEMMA FitsCurrent ==
  ASSUME NEW f, GoodFn(f), f.current # NoBlock, NEW fs, NEW r, NEW S, NEW T, T = Now(fs, r),
         NEW k, k = Len(f.blocks[f.current]) + 1
  PROVE  Fits(f, fs, r, S, T, <<f.current, k>>)
<1>1. f.current \in Opens(f)
  BY DEF GoodFn
<1>2. Promised(f, fs, r, f.current, T)
  BY DEF Promised
<1>3. QED
  BY <1>1, <1>2 DEF Fits

(* The end of a promised block stands for what was promised of it. *)
LEMMA FitsOwed ==
  ASSUME NEW f, NEW b \in Opens(f), NEW fs, NEW r, NEW S, NEW j \in 1 .. Len(fs),
         NEW T, <<b, T>> \in Owes(fs[j], r[j]), NEW k, k = Len(f.blocks[b]) + 1
  PROVE  Fits(f, fs, r, S, T, <<b, k>>)
<1>1. Promised(f, fs, r, b, T)
  BY DEF Promised
<1>2. QED
  BY <1>1 DEF Fits

(* A written instruction that does the rest keeps it. *)
LEMMA FitsKept ==
  ASSUME NEW f, NEW b \in 1 .. Len(f.blocks), NEW k \in 1 .. Len(f.blocks[b]), NEW fs, NEW r,
         NEW S, NEW T, NEW inst, f.blocks[b][k] = inst, Does(inst, S, T, <<b, k + 1>>)
  PROVE  Fits(f, fs, r, S, T, <<b, k>>)
<1>1. Keeps(f, S, T, <<b, k>>)
  BY DEF Keeps
<1>2. QED
  BY <1>1 DEF Fits

(* The meanings depend on the variables through the program alone.          *)
LEMMA MeaningsPrimed ==
  ASSUME UNCHANGED program
  PROVE  /\ \A x : Kind(x)' = Kind(x) /\ Kids(x)' = Kids(x)
         /\ program'.root = program.root
         /\ \A n : Body(n)' = Body(n) /\ Otherwise(n)' = Otherwise(n) /\ Operands(n)' = Operands(n)
         /\ \A n, i : Stmts(n, i)' = Stmts(n, i)
         /\ \A T, U : Quiet(T, U)' <=> Quiet(T, U)
         /\ \A i, V, T, x : Does(i, V, T, x)' <=> Does(i, V, T, x)
<1>1. /\ \A x : Kind(x)' = Kind(x) /\ Kids(x)' = Kids(x)
      /\ program'.root = program.root
  BY DEF Kind, Kids
<1>2. \A n : Body(n)' = Body(n) /\ Otherwise(n)' = Otherwise(n) /\ Operands(n)' = Operands(n)
  BY <1>1 DEF Body, Otherwise, Operands
<1>3. \A n, i : Stmts(n, i)' = Stmts(n, i)
  BY <1>1 DEF Stmts
<1>4. \A T, U : Quiet(T, U)' <=> Quiet(T, U)
  <2> SUFFICES ASSUME NEW l, NEW n, NEW R, NEW U PROVE Advances(l, n, R, U)' <=> Advances(l, n, R, U)
    BY DEF Quiet
  <2>1. /\ Kind(n)' = Kind(n) /\ Kids(n)' = Kids(n) /\ Operands(n)' = Operands(n)
        /\ Stmts(n, 1)' = Stmts(n, 1)
    BY <1>1, <1>2, <1>3
  <2>2. Advances(l, n, R, U) => Advances(l, n, R, U)'
    BY <2>1 DEF Advances
  <2>3. Advances(l, n, R, U)' => Advances(l, n, R, U)
    BY <2>1 DEF Advances
  <2>4. QED
    BY <2>2, <2>3
<1>5. \A i, V, T, x : Does(i, V, T, x)' <=> Does(i, V, T, x)
  <2> SUFFICES ASSUME NEW i, NEW V, NEW l, NEW n, NEW R, NEW x
               PROVE  Performs(i, V, l, n, R, x)' <=> Performs(i, V, l, n, R, x)
    BY <1>1 DEF Does
  <2>1. /\ Kind(n)' = Kind(n) /\ Kids(n)' = Kids(n)
        /\ Body(n)' = Body(n) /\ Otherwise(n)' = Otherwise(n)
    BY <1>1, <1>2
  <2>2. \A b, c : ShortCircuitBranch(n, b, c)' = ShortCircuitBranch(n, b, c)
    BY <2>1 DEF ShortCircuitBranch
  <2>3. Performs(i, V, l, n, R, x) => Performs(i, V, l, n, R, x)'
    BY <2>1, <2>2 DEF Performs
  <2>4. Performs(i, V, l, n, R, x)' => Performs(i, V, l, n, R, x)
    BY <2>1, <2>2 DEF Performs
  <2>5. QED
    BY <2>3, <2>4
<1>6. QED
  BY <1>1, <1>2, <1>3, <1>4, <1>5

(* Code in the next state is Code of the next state: the program is the same. *)
LEMMA CodePrimed ==
  ASSUME UNCHANGED program, NEW r, NEW S, Code(fn', frames', r, S)
  PROVE  CodeInv'
<1>1. /\ \A x : Kind(x)' = Kind(x) /\ Kids(x)' = Kids(x)
      /\ program'.root = program.root
  BY MeaningsPrimed
<1>2. \A n : Body(n)' = Body(n) /\ Otherwise(n)' = Otherwise(n) /\ Operands(n)' = Operands(n)
  BY MeaningsPrimed
<1>3. \A n, i : Stmts(n, i)' = Stmts(n, i)
  BY MeaningsPrimed
<1>4. \A T, U : Quiet(T, U)' <=> Quiet(T, U)
  BY MeaningsPrimed
<1>5. \A i, V, T, x : Does(i, V, T, x)' <=> Does(i, V, T, x)
  BY MeaningsPrimed
<1>6. \A f : Items(f)' = Items(f)
  BY <1>3 DEF Items
<1>7. \A f, R : Owes(f, R)' = Owes(f, R)
  BY <1>1, <1>2 DEF Owes
<1>8. \A V, T, p : Keeps(fn, V, T, p)' <=> Keeps(fn', V, T, p)
  BY <1>5 DEF Keeps
<1>9. Now(frames, r)' = Now(frames', r)
  BY <1>6 DEF Now
<1>10. \A b, T : Promised(fn, frames, r, b, T)' <=> Promised(fn', frames', r, b, T)
  BY <1>7, <1>9 DEF Promised
<1>11. \A V, T, p : Fits(fn, frames, r, V, T, p)' <=> Fits(fn', frames', r, V, T, p)
  BY <1>4, <1>8, <1>10 DEF Fits
<1>12. Code(fn, frames, r, S)'
  BY <1>1, <1>6, <1>11 DEF Code
<1>13. QED
  BY <1>12 DEF CodeInv

-----------------------------------------------------------------------------
(***************************************************************************)
(* The shapes of a step: what the calls that replace a frame leave to do.     *)
(***************************************************************************)

LEMMA OneItem ==
  ASSUME NEW R \in Todos, NEW c, c = <<R>>
  PROVE  c \in Seq(Todos) /\ Len(c) = 1 /\ c[1] = R
OBVIOUS

(* Calls that return, *)
LEMMA LinksNone ==
  ASSUME NEW R
  PROVE  Links(<<>>, <<>>, R)
<1>1. \A A : <<>> \in Seq(A)
  BY EmptySeq
<1>2. Len(<<>>) = 0
  BY EmptySeq
<1>3. 1 .. Len(<<>>) - 1 = {}
  BY <1>2
<1>4. QED
  BY <1>1, <1>3 DEF Links

(* one call, *)
LEMMA LinksOne ==
  ASSUME NEW a \in FrameRecord, NEW R \in Todos
  PROVE  Links(<<a>>, <<R>>, R)
<1> DEFINE u == <<a>>
           c == <<R>>
<1>1. u \in Seq(FrameRecord) /\ Len(u) = 1 /\ u[1] = a /\ u # <<>>
  OBVIOUS
<1>2. c \in Seq(Todos) /\ Len(c) = 1 /\ c[1] = R
  OBVIOUS
<1> HIDE DEF u, c
<1>3. 1 .. Len(u) - 1 = {}
  BY <1>1
<1>4. Links(u, c, R)
  BY <1>1, <1>2, <1>3 DEF Links
<1>5. QED
  BY <1>4 DEF u, c

(* and two calls in a row pass on what their caller does afterwards. *)
LEMMA LinksTwo ==
  ASSUME IsAst(program), NEW m \in Nat, NEW a \in FrameRecord, a.at # "loop",
         NEW b \in FrameRecord, FrameOK(b, m), NEW R \in Todos
  PROVE  Links(<<a, b>>, <<Items(b) \o R, R>>, R) /\ Items(b) \o R \in Todos
<1> DEFINE u == <<a, b>>
           Q == Items(b) \o R
           c == <<Q, R>>
<1>1. u \in Seq(FrameRecord) /\ Len(u) = 2 /\ u[1] = a /\ u[2] = b /\ u # <<>>
  OBVIOUS
<1>2. /\ Items(b) \in Todos
      /\ b.at # "loop" => \A j \in 1 .. Len(Items(b)) : Items(b)[j].at # "loop"
  BY ItemsTyped
<1>3. Q \in Todos
  BY <1>2, ConcatProperties DEF Todos
<1>4. IF b.at = "loop" THEN Ahead(Q, <<Item0("loop", b.node)>> \o R)
      ELSE \A L : Ahead(R, L) => Ahead(Q, L)
  <2>1. CASE b.at = "loop"
    <3>1. Items(b) = <<Item0("loop", b.node)>>
      BY <2>1 DEF Items, SourceLabels
    <3>2. b.node \in Node
      BY DEF FrameRecord
    <3>3. QED
      BY <2>1, <3>1, <3>2, AheadHere
  <2>2. CASE b.at # "loop"
    BY <1>2, <2>2, AheadPast
  <2>3. QED
    BY <2>1, <2>2
<1> HIDE DEF Q
<1>5. c \in Seq(Todos) /\ Len(c) = 2 /\ c[1] = Q /\ c[2] = R
  BY <1>3
<1> HIDE DEF u, c
<1>6. 1 .. Len(u) - 1 = {1}
  BY <1>1
<1>7. c[1] = Items(u[1 + 1]) \o c[1 + 1]
  BY <1>1, <1>5 DEF Q
<1>8. Links(u, c, R)
  BY <1>1, <1>4, <1>5, <1>6, <1>7 DEF Links
<1>9. QED
  BY <1>3, <1>8 DEF u, c, Q

\* All the frames of a list of operands are what the source still has to do.
\* Rest(s, k): what comes after the k-th.
After(s, k, R) == SubSeq(s, k + 1, Len(s)) \o R

Afters(s, R) == [k \in 1 .. Len(s) |-> After(s, k, R)]

(* What follows the k-th of a list of items. *)
LEMMA AfterFacts ==
  ASSUME NEW s \in Seq(SourceItem), NEW R \in Todos, NEW k \in 1 .. Len(s)
  PROVE  /\ After(s, k, R) \in Todos
         /\ k = Len(s) => After(s, k, R) = R
         /\ k < Len(s) => After(s, k, R) = <<s[k + 1]>> \o After(s, k + 1, R)
         /\ k = 1 => s \o R = <<s[1]>> \o After(s, 1, R)
         /\ \A j \in 1 .. Len(SubSeq(s, k + 1, Len(s))) :
              \E i \in 1 .. Len(s) : SubSeq(s, k + 1, Len(s))[j] = s[i]
<1> DEFINE l == Len(s)
           T(j) == SubSeq(s, j, l)
<1>1. l \in Nat /\ k \in Nat /\ k \in 1 .. l /\ \A i \in 1 .. l : s[i] \in SourceItem
  BY LenProperties
<1>2. ASSUME NEW j \in 1 .. l + 1
      PROVE  /\ T(j) \in Seq(SourceItem) /\ Len(T(j)) = l - j + 1
             /\ \A i \in 1 .. l - j + 1 : T(j)[i] = s[j + i - 1]
  <2>1. \A i \in j .. l : s[i] \in SourceItem
    BY <1>1
  <2>2. j \in Int /\ l \in Int /\ j <= l + 1
    BY <1>1
  <2>3. QED
    BY <1>1, <2>1, <2>2, SubSeqProperties
<1>3. ASSUME NEW j \in 1 .. l PROVE T(j) = <<s[j]>> \o T(j + 1)
  <2> DEFINE u == <<s[j]>>
             v == T(j + 1)
             w == T(j)
  <2>1. j + 1 \in 1 .. l + 1 /\ j \in 1 .. l + 1 /\ l - (j + 1) + 1 = l - j
    BY <1>1
  <2>2. /\ v \in Seq(SourceItem) /\ Len(v) = l - j
        /\ \A i \in 1 .. l - j : v[i] = s[j + 1 + i - 1]
    BY <1>2, <2>1
  <2>3. /\ w \in Seq(SourceItem) /\ Len(w) = l - j + 1
        /\ \A i \in 1 .. l - j + 1 : w[i] = s[j + i - 1]
    BY <1>2, <2>1
  <2>4. u \in Seq(SourceItem) /\ Len(u) = 1 /\ u[1] = s[j]
    BY <1>1
  <2> HIDE DEF u, v, w
  <2>5. /\ u \o v \in Seq(SourceItem) /\ Len(u \o v) = Len(u) + Len(v)
        /\ \A i \in 1 .. Len(u) + Len(v) : (u \o v)[i] = IF i <= Len(u) THEN u[i] ELSE v[i - Len(u)]
    BY <2>2, <2>4, ConcatProperties
  <2>6. ASSUME NEW i \in 1 .. l - j + 1 PROVE w[i] = (u \o v)[i]
    <3>1. i \in 1 .. 1 + (l - j) /\ i \in Nat /\ j \in Nat
      BY <1>1
    <3>2. CASE i = 1
      <4>1. (u \o v)[i] = s[j]
        BY <2>2, <2>4, <2>5, <3>1, <3>2
      <4>2. j + i - 1 = j
        BY <3>1, <3>2
      <4>3. QED
        BY <2>3, <4>1, <4>2
    <3>3. CASE i # 1
      <4>1. i - 1 \in 1 .. l - j /\ j + 1 + (i - 1) - 1 = j + i - 1 /\ ~(i <= 1)
        BY <1>1, <3>1, <3>3
      <4>2. (u \o v)[i] = v[i - 1]
        BY <2>2, <2>4, <2>5, <3>1, <4>1
      <4>3. v[i - 1] = s[j + i - 1]
        BY <2>2, <4>1
      <4>4. QED
        BY <2>3, <4>2, <4>3
    <3>4. QED
      BY <3>2, <3>3
  <2>7. Len(u \o v) = Len(w)
    BY <1>1, <2>2, <2>3, <2>4, <2>5
  <2>8. w = u \o v
    BY <2>3, <2>5, <2>6, <2>7, SeqEqual
  <2>9. QED
    BY <2>8 DEF u, v, w
<1>4. ASSUME NEW j \in 1 .. l PROVE T(j) \o R = <<s[j]>> \o (T(j + 1) \o R)
  <2>1. j + 1 \in 1 .. l + 1
    BY <1>1
  <2>2. T(j + 1) \in Seq(SourceItem) /\ <<s[j]>> \in Seq(SourceItem) /\ R \in Seq(SourceItem)
    BY <1>1, <1>2, <2>1 DEF Todos
  <2>3. T(j) = <<s[j]>> \o T(j + 1)
    BY <1>3
  <2> HIDE DEF T
  <2>4. (<<s[j]>> \o T(j + 1)) \o R = <<s[j]>> \o (T(j + 1) \o R)
    BY <2>2, ConcatAssociative, SMTT(30)
  <2>5. QED
    BY <2>3, <2>4
<1>5. k + 1 \in 1 .. l + 1
  BY <1>1
<1>6. After(s, k, R) \in Todos
  <2>1. T(k + 1) \in Seq(SourceItem) /\ R \in Seq(SourceItem)
    BY <1>2, <1>5 DEF Todos
  <2>2. QED
    BY <2>1, ConcatProperties DEF After, Todos
<1>7. ASSUME k = l PROVE After(s, k, R) = R
  <2>1. T(k + 1) \in Seq(SourceItem) /\ Len(T(k + 1)) = 0
    BY <1>1, <1>2, <1>5, <1>7
  <2>2. T(k + 1) = <<>>
    BY <2>1, EmptySeq
  <2>3. <<>> \o R = R
    BY ConcatNothing DEF Todos
  <2>4. QED
    BY <2>2, <2>3 DEF After
<1>8. ASSUME k < l PROVE After(s, k, R) = <<s[k + 1]>> \o After(s, k + 1, R)
  <2>1. k + 1 \in 1 .. l
    BY <1>1, <1>8
  <2>2. QED
    BY <1>4, <2>1 DEF After
<1>9. ASSUME k = 1 PROVE s \o R = <<s[1]>> \o After(s, 1, R)
  <2>1. 1 \in 1 .. l
    BY <1>1, <1>9
  <2>2. T(1) = s
    BY SubSeqFull
  <2>3. T(1) \o R = <<s[1]>> \o (T(1 + 1) \o R)
    BY <1>4, <2>1
  <2>4. QED
    BY <2>2, <2>3 DEF After
<1>10. \A j \in 1 .. Len(T(k + 1)) : \E i \in 1 .. l : T(k + 1)[j] = s[i]
  <2> SUFFICES ASSUME NEW j \in 1 .. Len(T(k + 1))
               PROVE  \E i \in 1 .. l : T(k + 1)[j] = s[i]
    OBVIOUS
  <2>1. j \in 1 .. l - (k + 1) + 1 /\ k + 1 + j - 1 \in 1 .. l
    BY <1>1, <1>2, <1>5
  <2>2. T(k + 1)[j] = s[k + 1 + j - 1]
    BY <1>2, <1>5, <2>1
  <2>3. QED
    BY <2>1, <2>2
<1>11. QED
  BY <1>6, <1>7, <1>8, <1>9, <1>10

(* A list of expressions in front of one call: the operands of a node. *)
LEMMA LinksItems ==
  ASSUME NEW s \in Seq(SourceItem), s # <<>>, s \in Seq(FrameRecord), NEW R \in Todos,
         \A k \in 1 .. Len(s) : s[k].at # "loop",
         NEW c, c = Afters(s, R)
  PROVE  /\ Links(s, c, R)
         /\ Items(s[1]) \o c[1] = s \o R
<1> DEFINE l == Len(s)
<1>1. l \in Nat \ {0} /\ \A k \in 1 .. l : s[k] \in SourceItem
  BY EmptySeq, LenProperties
<1>2. /\ c \in Seq(Todos) /\ Len(c) = l
      /\ \A k \in 1 .. l : c[k] = After(s, k, R)
  <2>1. \A k \in 1 .. l : After(s, k, R) \in Todos
    BY AfterFacts
  <2>2. QED
    BY <1>1, <2>1 DEF Afters
<1>3. \A k \in 1 .. l : Items(s[k]) = <<s[k]>>
  <2> SUFFICES ASSUME NEW k \in 1 .. l PROVE Items(s[k]) = <<s[k]>>
    OBVIOUS
  <2>1. s[k] \in SourceItem
    BY <1>1
  <2>2. s[k].at \in SourceLabels /\ Item0(s[k].at, s[k].node) = s[k]
    BY <2>1 DEF SourceItem, Item0, Frame
  <2>3. QED
    BY <2>2 DEF Items, SourceLabels
<1>4. ASSUME NEW k \in 1 .. l - 1
      PROVE  /\ c[k] = Items(s[k + 1]) \o c[k + 1]
             /\ s[k].at # "loop"
             /\ \A L : Ahead(R, L) => Ahead(c[k], L)
  <2>1. k \in 1 .. l /\ k + 1 \in 1 .. l /\ k < l
    BY <1>1
  <2>2. c[k] = <<s[k + 1]>> \o After(s, k + 1, R)
    BY <1>2, <2>1, AfterFacts, ZenonT(30)
  <2>3. c[k] = Items(s[k + 1]) \o c[k + 1]
    BY <1>2, <1>3, <2>1, <2>2
  <2>4. ASSUME NEW L, Ahead(R, L) PROVE Ahead(c[k], L)
    <3> DEFINE X == SubSeq(s, k + 1, l)
    <3>1. \A j \in 1 .. Len(X) : X[j].at # "loop"
      BY <2>1, AfterFacts
    <3>2. X \in Todos
      <4>1. \A i \in k + 1 .. l : s[i] \in SourceItem
        BY <1>1, <2>1
      <4>2. k + 1 \in Int /\ l \in Int /\ k + 1 <= l + 1
        BY <1>1, <2>1
      <4>3. QED
        BY <4>1, <4>2, SubSeqProperties DEF Todos
    <3>3. c[k] = X \o R
      BY <1>2, <2>1 DEF After
    <3> HIDE DEF X
    <3>4. QED
      BY <2>4, <3>1, <3>2, <3>3, AheadPast
  <2>5. QED
    BY <2>1, <2>3, <2>4
<1>5. c[l] = R /\ s[l].at # "loop"
  <2>1. l \in 1 .. l
    BY <1>1
  <2>2. QED
    BY <1>2, <2>1, AfterFacts
<1>6. Links(s, c, R)
  BY <1>2, <1>4, <1>5 DEF Links
<1>7. Items(s[1]) \o c[1] = s \o R
  <2>1. 1 \in 1 .. l
    BY <1>1
  <2>2. s \o R = <<s[1]>> \o After(s, 1, R)
    BY <2>1, AfterFacts
  <2>3. QED
    BY <1>2, <1>3, <2>1, <2>2
<1>8. QED
  BY <1>6, <1>7

-----------------------------------------------------------------------------
(***************************************************************************)
(* The steps that emit nothing: where control is, the source is either        *)
(* where it was or one step further, whatever the values are.                *)
(***************************************************************************)

(* An unchanged function extends itself. *)
LEMMA Unchanged ==
  ASSUME GoodFn(fn), NEW mine
  PROVE  Extends(fn, fn, mine)
<1>1. /\ Len(fn.blocks) \in Nat
      /\ \A b \in 1 .. Len(fn.blocks) : fn.blocks[b] \in Seq(AnyInstruction)
  BY LenProperties DEF GoodFn, AnyFn
<1>2. \A b \in 1 .. Len(fn.blocks) : Len(fn.blocks[b]) \in Nat
  BY <1>1, LenProperties
<1>3. QED
  BY <1>1, <1>2 DEF Extends

(* A step that writes nothing: what remained leads quietly to what remains now. *)
LEMMA QuietStep ==
  ASSUME LoweringInv, LoweringInv', frames # <<>>, UNCHANGED <<program, fn>>,
         NEW r, NEW S, Code(fn, frames, r, S),
         NEW calls, NEW c, Links(calls, c, r[1]), frames' = calls \o Tail(frames),
         Owes(Top, r[1]) = {},
         \A k \in 1 .. Len(calls) : calls[k].at \notin LoopFrames,
         NEW T, T = Items(Top) \o r[1],
         NEW U, U = Latest(calls, c, r[1]),
         fn.current # NoBlock => T = U \/ Quiet(T, U)
  PROVE  CodeInv'
<1> DEFINE r2 == c \o Tail(r)
           p == <<fn.current, Len(fn.blocks[fn.current]) + 1>>
           N == IF fn.current = NoBlock THEN {} ELSE {<<U, p>>}
           S2 == S \cup N
<1>1. /\ Now(frames', r2) = U /\ Now(frames, r) = T /\ r[1] \in Todos
      /\ Now(frames', r2) \in Todos
  <2>1. r2 = c \o Tail(r)
    OBVIOUS
  <2> HIDE DEF r2
  <2>2. /\ Now(frames', r2) = Latest(calls, c, r[1])
        /\ Now(frames, r) = Items(Top) \o r[1]
        /\ r[1] \in Todos
    BY <2>1, NowStep
  <2>3. Now(frames', r2) \in Todos
    BY <2>1, NextNowTyped
  <2>4. QED
    BY <2>2, <2>3
<1>2. GoodFn(fn) /\ GoodFn(fn') /\ fn' = fn
  BY DEF LoweringInv, FrameInv
<1>3. U \in Meanings
  BY <1>1, TodosAreMeanings
<1>4. ASSUME fn.current # NoBlock
      PROVE  p \in Place /\ Fits(fn', frames', r2, S2, U, p) /\ N = {<<U, p>>}
  <2>1. fn.current \in Nat /\ fn.blocks[fn.current] \in Seq(AnyInstruction)
    BY <1>2, <1>4 DEF GoodFn, AnyFn, Opens
  <2>2. Len(fn.blocks[fn.current]) \in Nat
    BY <2>1, LenProperties
  <2>3. p \in Place
    BY <2>1, <2>2 DEF Place
  <2>4. Fits(fn', frames', r2, S2, U, p)
    <3> HIDE DEF S2, r2
    <3>1. QED
      BY <1>1, <1>2, <1>4, FitsCurrent
  <2>5. QED
    BY <1>4, <2>3, <2>4
<1>5. N \subseteq Meanings \X Place
  <2>1. CASE fn.current = NoBlock
    BY <2>1
  <2>2. CASE fn.current # NoBlock
    <3> HIDE DEF p
    <3>1. p \in Place /\ N = {<<U, p>>}
      BY <1>4, <2>2
    <3>2. QED
      BY <1>3, <3>1
  <2>3. QED
    BY <2>1, <2>2
<1>6. ASSUME NEW b \in Opens(fn) \cap Mine, NEW V, TopPromised(r, b, V)
      PROVE  Fits(fn', frames', r2, S2, V, <<b, Len(fn.blocks[b]) + 1>>)
  <2>1. b = fn.current /\ V = T
    BY <1>1, <1>6 DEF TopPromised
  <2>2. b # NoBlock
    BY <1>2, OpenNumbers
  <2>3. fn.current # NoBlock /\ <<b, Len(fn.blocks[b]) + 1>> = p
    BY <2>1, <2>2
  <2>4. <<U, p>> \in S2
    BY <1>4, <2>3
  <2> HIDE DEF S2, r2, N, p
  <2>5. CASE T = U
    BY <1>4, <2>1, <2>3, <2>5
  <2>6. CASE Quiet(T, U)
    <3>1. Quiet(V, U) /\ <<U, p>> \in S2
      BY <2>1, <2>4, <2>6
    <3>2. Fits(fn', frames', r2, S2, V, p)
      BY <3>1 DEF Fits
    <3>3. QED
      BY <2>3, <3>2
  <2>7. QED
    BY <2>3, <2>5, <2>6
<1>7. \A x \in N : Fits(fn', frames', r2, S2, x[1], x[2])
  <2>1. CASE fn.current = NoBlock
    BY <2>1
  <2>2. CASE fn.current # NoBlock
    <3> HIDE DEF p, S2, r2
    <3>1. Fits(fn', frames', r2, S2, U, p) /\ N = {<<U, p>>}
      BY <1>4, <2>2
    <3> HIDE DEF N
    <3>2. QED
      BY <3>1
  <2>3. QED
    BY <2>1, <2>2
<1>8. \A b \in Opens(fn') : b # fn'.current /\ (b \in Mine \/ b > Len(fn.blocks)) =>
        fn'.blocks[b] = <<>>
  BY <1>2 DEF Code
<1>9. Extends(fn, fn', Mine)
  BY <1>2, Unchanged
<1>10. \A k \in 1 .. Len(calls) : calls[k].at \in LoopFrames => Looping(calls[k], c[k]) \in S2
  OBVIOUS
<1>11. Code(fn', frames', r2, S2)
  <2>1. S2 = S \cup N /\ r2 = c \o Tail(r)
    OBVIOUS
  <2> HIDE DEF S2, r2, N
  <2>2. QED
    BY <1>5, <1>6, <1>7, <1>8, <1>9, <1>10, <2>1, CodeStep
<1>12. QED
  BY <1>11, CodePrimed

(* What the caller of the innermost frame does afterwards. *)
LEMMA TopRest ==
  ASSUME LoweringInv, frames # <<>>, NEW r, NEW S, Code(fn, frames, r, S)
  PROVE  r[1] \in Todos
<1>1. frames \in Seq(FrameRecord) /\ r \in Seq(Todos) /\ Len(r) = Len(frames)
  BY TopFacts DEF Code
<1>2. 1 \in 1 .. Len(frames)
  BY <1>1, EmptySeq
<1>3. QED
  BY <1>1, <1>2

(* A meaning and its first item. *)
LEMMA HeadItem ==
  ASSUME NEW l \in ItemLabels, NEW n \in Node, NEW R \in Todos,
         NEW T, T = <<Item0(l, n)>> \o R
  PROVE  /\ T # <<>> /\ T \in Meanings
         /\ Head(T) = Item0(l, n) /\ Head(T).at = l /\ Head(T).node = n /\ Tail(T) = R
         /\ l \in SourceLabels => T \in Todos
<1>1. Item0(l, n) \in AnyItem /\ Item0(l, n).at = l /\ Item0(l, n).node = n
  BY SourceItems
<1>2. T # <<>> /\ T \in Meanings /\ Head(T) = Item0(l, n) /\ Tail(T) = R
  BY <1>1, TodosAreMeanings
<1>3. ASSUME l \in SourceLabels PROVE T \in Todos
  BY <1>3, SourceItems, Pushed DEF Todos
<1>4. QED
  BY <1>1, <1>2, <1>3

(* An item that advances quietly. *)
LEMMA QuietItem ==
  ASSUME NEW l \in SourceLabels, NEW n \in Node, NEW R \in Todos, NEW U, Advances(l, n, R, U)
  PROVE  Quiet(<<Item0(l, n)>> \o R, U)
<1> DEFINE T == <<Item0(l, n)>> \o R
<1>0. T = <<Item0(l, n)>> \o R /\ l \in ItemLabels
  BY DEF ItemLabels
<1> HIDE DEF T
<1>1. T # <<>> /\ Head(T).at = l /\ Head(T).node = n /\ Tail(T) = R
  <2>1. Item0(l, n) \in AnyItem /\ Item0(l, n).at = l /\ Item0(l, n).node = n
    BY <1>0, SourceItems
  <2>2. QED
    BY <1>0, <2>1, TodosAreMeanings
<1>2. Quiet(T, U)
  BY <1>1 DEF Quiet
<1>3. QED
  BY <1>2 DEF T

\* What the innermost frame stands for is done quietly.
ReturnsQuietly ==
  \A R \in Todos : /\ Owes(Top, R) = {}
                   /\ \/ fn.current = NoBlock
                      \/ Items(Top) \o R = R
                      \/ Quiet(Items(Top) \o R, R)

(* A frame that returns and writes nothing keeps Code. *)
LEMMA QuietNone ==
  ASSUME LoweringInv, LoweringInv', CodeInv, frames # <<>>, UNCHANGED <<program, fn>>,
         frames' = Tail(frames), ReturnsQuietly
  PROVE  CodeInv'
<1>1. PICK S, r : Code(fn, frames, r, S)
  BY DEF CodeInv
<1>2. r[1] \in Todos
  BY <1>1, TopRest
<1> DEFINE e == <<>>
<1>3. frames' = e \o Tail(frames)
  <2>1. Tail(frames) \in Seq(FrameRecord)
    BY TopFacts, HeadTailProperties
  <2>2. QED
    BY <2>1, ConcatNothing
<1>4. /\ Links(e, e, r[1]) /\ Latest(e, e, r[1]) = r[1]
      /\ \A k \in 1 .. Len(e) : e[k].at \notin LoopFrames
  BY LinksNone, EmptySeq DEF Latest
<1> DEFINE T == Items(Top) \o r[1]
           U == r[1]
<1> HIDE DEF e
<1>5. T = Items(Top) \o r[1] /\ U = Latest(e, e, r[1])
  BY <1>4
<1>6. fn.current # NoBlock => T = U \/ Quiet(T, U)
  BY <1>2 DEF ReturnsQuietly
<1>7. Owes(Top, r[1]) = {}
  BY <1>2 DEF ReturnsQuietly
<1> HIDE DEF T, U
<1>8. QED
  BY <1>1, <1>3, <1>4, <1>5, <1>6, <1>7, QuietStep

PushesQuietly(a, b) ==
  \A R \in Todos : /\ Owes(Top, R) = {}
                   /\ \/ Items(Top) \o R = Items(a) \o (Items(b) \o R)
                      \/ Quiet(Items(Top) \o R, Items(a) \o (Items(b) \o R))

(* So does one that makes two calls. *)
LEMMA QuietTwo ==
  ASSUME LoweringInv, LoweringInv', CodeInv, frames # <<>>, UNCHANGED <<program, fn>>,
         NEW a, NEW b, frames' = <<a, b>> \o Tail(frames),
         a.at \notin LoopFrames, b.at \notin LoopFrames, PushesQuietly(a, b)
  PROVE  CodeInv'
<1>1. PICK S, r : Code(fn, frames, r, S)
  BY DEF CodeInv
<1>2. r[1] \in Todos
  BY <1>1, TopRest
<1>3. a \in FrameRecord /\ b \in FrameRecord /\ FrameOK(b, Len(fn'.blocks))
  <2>1. Tail(frames) \in Seq(FrameRecord)
    BY TopFacts, HeadTailProperties
  <2>2. /\ Len(frames') >= 2 /\ frames'[1] = a /\ frames'[2] = b /\ Len(frames') \in Nat
    BY <2>1
  <2>3. 1 \in 1 .. Len(frames') /\ 2 \in 1 .. Len(frames')
    BY <2>2
  <2>4. FrameOK(a, Len(fn'.blocks)) /\ FrameOK(b, Len(fn'.blocks))
    BY <2>2, <2>3, NextFrames
  <2>5. QED
    BY <2>4 DEF FrameOK
<1> DEFINE u == <<a, b>>
           c == <<Items(b) \o r[1], r[1]>>
<1>4. Links(u, c, r[1])
  <2>1. IsAst(program) /\ Len(fn'.blocks) \in Nat
    BY TopFacts, NextFrames
  <2>2. a.at # "loop"
    BY DEF LoopFrames
  <2>3. QED
    BY <1>2, <1>3, <2>1, <2>2, LinksTwo
<1>5. Latest(u, c, r[1]) = Items(a) \o (Items(b) \o r[1])
  <2>1. u # <<>> /\ u[1] = a /\ c[1] = Items(b) \o r[1]
    OBVIOUS
  <2> HIDE DEF u, c
  <2>2. QED
    BY <2>1 DEF Latest
<1>6. \A k \in 1 .. Len(u) : u[k].at \notin LoopFrames
  OBVIOUS
<1>7. frames' = u \o Tail(frames)
  OBVIOUS
<1> DEFINE T == Items(Top) \o r[1]
           U == Items(a) \o (Items(b) \o r[1])
<1>8. T = Items(Top) \o r[1] /\ U = Latest(u, c, r[1])
  BY <1>5
<1>9. T = U \/ Quiet(T, U)
  BY <1>2 DEF PushesQuietly
<1>10. Owes(Top, r[1]) = {}
  BY <1>2 DEF PushesQuietly
<1> HIDE DEF u, c, T, U
<1>11. QED
  BY <1>1, <1>4, <1>6, <1>7, <1>8, <1>9, <1>10, QuietStep

LEMMA EnterScopeCode == Inv /\ Inv' /\ CodeInv /\ EnterScope => CodeInv'
<1> SUFFICES ASSUME Inv, Inv', CodeInv, EnterScope PROVE CodeInv'
  OBVIOUS
<1>0. LoweringInv /\ LoweringInv'
  BY DEF Inv
<1> DEFINE n == Top.node
           a == Frame("item", n, <<1>>)
<1>1. /\ frames # <<>> /\ Top.at = "stmt" /\ Kind(n) = "block"
      /\ frames' = <<a>> \o Tail(frames) /\ UNCHANGED <<program, fn>>
  BY DEF EnterScope, AtStmt, At, GoOn
<1>2. PICK S, r : Code(fn, frames, r, S)
  BY DEF CodeInv
<1>3. Top \in FrameRecord /\ n \in Node /\ IsAst(program)
  BY <1>0, <1>1, TopFacts DEF FrameRecord
<1>4. a \in FrameRecord /\ a.at = "item" /\ a.node = n /\ a.refs = <<1>> /\ a.refs[1] = 1
  BY <1>3 DEF Frame, FrameRecord, Labels
<1> HIDE DEF a
<1>5. r[1] \in Todos
  BY <1>0, <1>1, <1>2, TopRest
<1>6. Links(<<a>>, <<r[1]>>, r[1])
  BY <1>4, <1>5, LinksOne
<1>7. Latest(<<a>>, <<r[1]>>, r[1]) = Stmts(n, 1) \o r[1]
  BY <1>4 DEF Latest, Items, SourceLabels
<1>8. Items(Top) = <<Item0("stmt", n)>> /\ Owes(Top, r[1]) = {}
  BY <1>1 DEF Items, Owes, SourceLabels
<1>9. Quiet(Items(Top) \o r[1], Stmts(n, 1) \o r[1])
  <2>1. Advances("stmt", n, r[1], Stmts(n, 1) \o r[1])
    BY <1>1 DEF Advances
  <2>2. "stmt" \in SourceLabels
    BY DEF SourceLabels
  <2>3. QED
    BY <1>3, <1>5, <1>8, <2>1, <2>2, QuietItem
<1>10. \A k \in 1 .. Len(<<a>>) : <<a>>[k].at \notin LoopFrames
  BY <1>4 DEF LoopFrames
<1>11. QED
  BY <1>0, <1>1, <1>2, <1>6, <1>7, <1>8, <1>9, <1>10, QuietStep

(* The operands of a node, lowered one after the other, *)
LEMMA OperandLinks ==
  ASSUME IsAst(program), NEW n \in Node, Kind(n) \notin {"block", "if", "while"},
         NEW l \in {"finish", "apply"}, NEW s, s = Operands(n) \o <<Item0(l, n)>>,
         NEW R \in Todos, NEW c, c = Afters(s, R)
  PROVE  /\ Links(s, c, R) /\ Latest(s, c, R) = s \o R
         /\ \A k \in 1 .. Len(s) : s[k].at \notin LoopFrames
<1>1. /\ s \in Seq(SourceItem) /\ s # <<>>
      /\ \A k \in 1 .. Len(s) : s[k].at \in {"exp", "finish", "apply"} /\ s[k] \in FrameRecord
  <2> DEFINE u == Operands(n)
             b == Item0(l, n)
             v == <<b>>
  <2>1. u \in Seq(SourceItem) /\ \A k \in 1 .. Len(u) : u[k].at = "exp"
    BY OperandItems DEF Todos
  <2>2. b \in SourceItem /\ b.at = l
    <3>1. l \in SourceLabels
      BY DEF SourceLabels
    <3>2. QED
      BY <3>1, SourceItems
  <2>3. v \in Seq(SourceItem) /\ Len(v) = 1 /\ v[1] = b
    BY <2>2
  <2> HIDE DEF u, b, v
  <2>4. /\ u \o v \in Seq(SourceItem) /\ Len(u \o v) = Len(u) + Len(v) /\ Len(u) \in Nat
        /\ \A k \in 1 .. Len(u) + Len(v) : (u \o v)[k] = IF k <= Len(u) THEN u[k] ELSE v[k - Len(u)]
    BY <2>1, <2>3, ConcatProperties, LenProperties
  <2>5. s = u \o v
    BY DEF u, v, b
  <2>6. ASSUME NEW k \in 1 .. Len(s) PROVE s[k].at \in {"exp", "finish", "apply"}
    <3>1. k \in 1 .. Len(u) + 1 /\ k \in Nat
      BY <2>3, <2>4, <2>5
    <3>2. CASE k <= Len(u)
      <4>1. s[k] = u[k] /\ k \in 1 .. Len(u)
        BY <2>3, <2>4, <2>5, <3>1, <3>2
      <4>2. QED
        BY <2>1, <4>1
    <3>3. CASE ~(k <= Len(u))
      <4>1. s[k] = v[k - Len(u)] /\ k - Len(u) = 1
        BY <2>3, <2>4, <2>5, <3>1, <3>3
      <4>2. QED
        BY <2>2, <2>3, <4>1
    <3>4. QED
      BY <3>2, <3>3
  <2>7. Len(s) # 0 /\ s \in Seq(SourceItem)
    <3>1. Len(u \o v) = Len(u) + 1
      BY <2>3, <2>4
    <3>2. Len(s) = Len(u) + 1
      BY <2>5, <3>1
    <3>3. Len(u) \in Nat /\ u \o v \in Seq(SourceItem)
      BY <2>4
    <3>4. Len(s) # 0
      BY <3>2, <3>3
    <3>5. QED
      BY <2>5, <3>3, <3>4
  <2>8. s # <<>>
    BY <2>7, EmptySeq
  <2>9. ASSUME NEW k \in 1 .. Len(s) PROVE s[k] \in FrameRecord
    <3>1. s[k] \in SourceItem
      BY <2>7
    <3>2. s[k].at \in Labels
      BY <2>6 DEF Labels
    <3>3. <<>> \in Seq(Nat)
      BY EmptySeq
    <3>4. QED
      BY <3>1, <3>2, <3>3 DEF SourceItem, FrameRecord
  <2>10. QED
    BY <2>6, <2>7, <2>8, <2>9
<1>2. s \in Seq(FrameRecord)
  BY <1>1, Retyped
<1>3. \A k \in 1 .. Len(s) : s[k].at # "loop"
  BY <1>1
<1>4. Links(s, c, R) /\ Items(s[1]) \o c[1] = s \o R
  BY <1>1, <1>2, <1>3, LinksItems
<1>5. Latest(s, c, R) = s \o R
  BY <1>1, <1>4 DEF Latest
<1>6. QED
  BY <1>1, <1>4, <1>5 DEF LoopFrames

AdvancesBy(s) == \A R \in Todos : Advances(Top.at, Top.node, R, s \o R)

(* are quietly what the node has to do first. *)
LEMMA QuietOperands ==
  ASSUME LoweringInv, LoweringInv', CodeInv, frames # <<>>, UNCHANGED <<program, fn>>,
         NEW n, n = Top.node, Kind(n) \notin {"block", "if", "while"}, Top.at \in {"stmt", "exp"},
         NEW l \in {"finish", "apply"}, NEW s, s = Operands(n) \o <<Item0(l, n)>>,
         frames' = s \o Tail(frames),
         AdvancesBy(s)
  PROVE  CodeInv'
<1>1. PICK S, r : Code(fn, frames, r, S)
  BY DEF CodeInv
<1>2. r[1] \in Todos
  BY <1>1, TopRest
<1>3. n \in Node /\ IsAst(program)
  BY TopFacts DEF FrameRecord
<1> DEFINE c == Afters(s, r[1])
           R == r[1]
<1>4. c = Afters(s, R) /\ R \in Todos
  BY <1>2
<1> HIDE DEF c, R
<1>5. /\ Links(s, c, R) /\ Latest(s, c, R) = s \o R
      /\ \A k \in 1 .. Len(s) : s[k].at \notin LoopFrames
  BY <1>3, <1>4, OperandLinks
<1>6. Links(s, c, r[1]) /\ Latest(s, c, r[1]) = s \o r[1]
  BY <1>5 DEF R
<1>7. Items(Top) = <<Item0(Top.at, n)>> /\ Owes(Top, r[1]) = {} /\ Top.at \in SourceLabels
  BY DEF Items, Owes, SourceLabels
<1> DEFINE T == Items(Top) \o r[1]
           U == s \o r[1]
<1>8. T = Items(Top) \o r[1] /\ U = Latest(s, c, r[1])
  BY <1>6
<1>9. Quiet(T, U)
  <2>1. Advances(Top.at, n, r[1], U)
    BY <1>2 DEF AdvancesBy
  <2>2. QED
    BY <1>2, <1>3, <1>7, <2>1, QuietItem
<1> HIDE DEF T, U
<1>10. QED
  BY <1>1, <1>5, <1>6, <1>7, <1>8, <1>9, QuietStep

LEMMA LowerItemCode == Inv /\ Inv' /\ CodeInv /\ LowerItem => CodeInv'
<1> SUFFICES ASSUME Inv, Inv', CodeInv, LowerItem PROVE CodeInv'
  OBVIOUS
<1>0. LoweringInv /\ LoweringInv'
  BY DEF Inv
<1> DEFINE n == Top.node
           i == Top.refs[1]
           a == Stmt(Kids(n)[i])
           b == Frame("item", n, <<i + 1>>)
<1>1. /\ frames # <<>> /\ Top.at = "item" /\ i <= Len(Kids(n))
      /\ frames' = <<a, b>> \o Tail(frames) /\ UNCHANGED <<program, fn>>
  BY DEF LowerItem, At, GoOn
<1>2. Top \in FrameRecord /\ n \in Node /\ IsAst(program) /\ FrameOK(Top, Len(fn.blocks))
  BY <1>0, <1>1, TopFacts DEF FrameRecord
<1>3. Kind(n) = "block" /\ i \in Nat \ {0} /\ Kids(n)[i] \in Node
  <2>1. Kind(n) = "block" /\ i \in Nat \ {0}
    BY <1>1, <1>2 DEF FrameOK, FrameRecord
  <2>2. i \in 1 .. Len(Kids(n))
    BY <1>1, <1>2, <2>1, KidFacts
  <2>3. QED
    BY <1>2, <2>1, <2>2, KidFacts
<1>4. /\ a.at = "stmt" /\ b.at = "item"
      /\ Items(a) = <<a>> /\ Items(b) = Stmts(n, i + 1)
      /\ Items(Top) = Stmts(n, i)
  <2>1. a.at = "stmt" /\ a = Item0(a.at, a.node)
    BY DEF Stmt, Frame, Item0
  <2>2. b.at = "item" /\ b.node = n /\ b.refs[1] = i + 1
    BY DEF Frame
  <2>3. QED
    BY <1>1, <2>1, <2>2 DEF Items, SourceLabels
<1>5. ASSUME NEW R \in Todos
      PROVE  Owes(Top, R) = {} /\ Items(Top) \o R = Items(a) \o (Items(b) \o R)
  <2>1. Owes(Top, R) = {}
    BY <1>1 DEF Owes
  <2>2. Stmts(n, i) = <<a>> \o Stmts(n, i + 1) /\ Stmts(n, i + 1) \in Todos
    <3>1. i + 1 \in Nat \ {0}
      BY <1>3
    <3>2. Stmts(n, i + 1) \in Todos
      BY <1>2, <1>3, <3>1, StmtsFacts
    <3>3. QED
      BY <1>1, <1>2, <1>3, <3>2, StmtsFacts
  <2>3. <<a>> \in Seq(SourceItem)
    BY <1>3, SourceItems
  <2>4. (<<a>> \o Stmts(n, i + 1)) \o R = <<a>> \o (Stmts(n, i + 1) \o R)
    BY <2>2, <2>3, ConcatAssociative DEF Todos
  <2>5. QED
    BY <1>4, <2>1, <2>2, <2>4
<1>6. a.at \notin LoopFrames /\ b.at \notin LoopFrames
  BY <1>4 DEF LoopFrames
<1>7. PushesQuietly(a, b)
  BY <1>5 DEF PushesQuietly
<1> HIDE DEF a, b
<1>8. QED
  BY <1>0, <1>1, <1>6, <1>7, QuietTwo

LEMMA ExitScopeCode == Inv /\ Inv' /\ CodeInv /\ ExitScope => CodeInv'
<1> SUFFICES ASSUME Inv, Inv', CodeInv, ExitScope PROVE CodeInv'
  OBVIOUS
<1>0. LoweringInv /\ LoweringInv'
  BY DEF Inv
<1>1. /\ frames # <<>> /\ Top.at = "item" /\ frames' = Tail(frames) /\ UNCHANGED <<program, fn>>
      /\ Top.refs[1] > Len(Kids(Top.node)) \/ fn.current = NoBlock
  BY DEF ExitScope, At, Return
<1>2. Top \in FrameRecord /\ Top.node \in Node /\ IsAst(program) /\ FrameOK(Top, Len(fn.blocks))
  BY <1>0, <1>1, TopFacts DEF FrameRecord
<1>3. Kind(Top.node) = "block" /\ Top.refs[1] \in Nat \ {0}
  BY <1>1, <1>2 DEF FrameOK, FrameRecord
<1>4. fn.current = NoBlock \/ Items(Top) = <<>>
  <2>1. Items(Top) = Stmts(Top.node, Top.refs[1])
    BY <1>1 DEF Items, SourceLabels
  <2>2. QED
    BY <1>1, <1>2, <1>3, <2>1, StmtsFacts
<1>5. ASSUME NEW R \in Todos PROVE Owes(Top, R) = {} /\ <<>> \o R = R
  BY <1>1, ConcatNothing DEF Owes, Todos
<1>6. ReturnsQuietly
  BY <1>4, <1>5 DEF ReturnsQuietly
<1>7. QED
  BY <1>0, <1>1, <1>6, QuietNone

LEMMA LowerSimpleStmtCode == Inv /\ Inv' /\ CodeInv /\ LowerSimpleStmt => CodeInv'
<1> SUFFICES ASSUME Inv, Inv', CodeInv, LowerSimpleStmt PROVE CodeInv'
  OBVIOUS
<1>0. LoweringInv /\ LoweringInv'
  BY DEF Inv
<1> DEFINE n == Top.node
           s == Operands(n) \o <<Item0("finish", n)>>
<1>1. /\ frames # <<>> /\ Top.at = "stmt" /\ Kind(n) \in {"return", "assign", "exp"}
      /\ frames' = s \o Tail(frames) /\ UNCHANGED <<program, fn>>
  BY DEF LowerSimpleStmt, At, GoOn, Operands, Item0
<1>2. AdvancesBy(s)
  <2>1. \A R : Advances(Top.at, n, R, s \o R)
    BY <1>1 DEF Advances
  <2>2. QED
    BY <2>1 DEF AdvancesBy
<1>3. n = Top.node /\ s = Operands(n) \o <<Item0("finish", n)>> /\ "finish" \in {"finish", "apply"}
  OBVIOUS
<1> HIDE DEF s, n
<1>4. QED
  BY <1>0, <1>1, <1>2, <1>3, QuietOperands

LEMMA LowerOperandsCode == Inv /\ Inv' /\ CodeInv /\ LowerOperands => CodeInv'
<1> SUFFICES ASSUME Inv, Inv', CodeInv, LowerOperands PROVE CodeInv'
  OBVIOUS
<1>0. LoweringInv /\ LoweringInv'
  BY DEF Inv
<1> DEFINE n == Top.node
           s == Operands(n) \o <<Item0("apply", n)>>
<1>1. /\ frames # <<>> /\ Top.at = "exp" /\ Kind(n) \in {"call", "bin"}
      /\ frames' = s \o Tail(frames) /\ UNCHANGED <<program, fn>>
  BY DEF LowerOperands, At, GoOn, Operands, Item0
<1>2. AdvancesBy(s)
  <2>1. \A R : Advances(Top.at, n, R, s \o R)
    BY <1>1 DEF Advances
  <2>2. QED
    BY <2>1 DEF AdvancesBy
<1>3. n = Top.node /\ s = Operands(n) \o <<Item0("apply", n)>> /\ "apply" \in {"finish", "apply"}
  OBVIOUS
<1> HIDE DEF s, n
<1>4. QED
  BY <1>0, <1>1, <1>2, <1>3, QuietOperands

LEMMA FinishExpCode == Inv /\ Inv' /\ CodeInv /\ (FinishExp \/ LowerNumber) => CodeInv'
<1> SUFFICES ASSUME Inv, Inv', CodeInv, FinishExp \/ LowerNumber PROVE CodeInv'
  OBVIOUS
<1>0. LoweringInv /\ LoweringInv'
  BY DEF Inv
<1> DEFINE n == Top.node
<1>1. /\ frames # <<>> /\ frames' = Tail(frames) /\ UNCHANGED <<program, fn>>
      /\ (Top.at = "finish" /\ Kind(n) = "exp") \/ (Top.at = "exp" /\ Kind(n) = "num")
  BY DEF FinishExp, LowerNumber, AtExp, At, Return
<1>2. n \in Node
  BY <1>0, <1>1, TopFacts DEF FrameRecord
<1>3. /\ Items(Top) = <<Item0(Top.at, n)>> /\ Top.at \in SourceLabels
      /\ \A R : Owes(Top, R) = {} /\ Advances(Top.at, n, R, R)
  BY <1>1 DEF Items, Owes, SourceLabels, Advances
<1>4. ReturnsQuietly
  BY <1>2, <1>3, QuietItem DEF ReturnsQuietly
<1>5. QED
  BY <1>0, <1>1, <1>4, QuietNone

\* The condition of an if and the left side of an && are lowered first.
LEMMA StartConditionCode == Inv /\ Inv' /\ CodeInv /\ (StartIf \/ StartAnd) => CodeInv'
<1> SUFFICES ASSUME Inv, Inv', CodeInv, StartIf \/ StartAnd PROVE CodeInv'
  OBVIOUS
<1>0. LoweringInv /\ LoweringInv'
  BY DEF Inv
<1> DEFINE n == Top.node
           a == Exp(Kids(n)[1])
           l == IF Top.at = "stmt" THEN "branch" ELSE "create"
           m == IF Top.at = "stmt" THEN "test" ELSE "lhs"
           b == Frame(l, n, <<>>)
<1>1. /\ frames # <<>> /\ UNCHANGED <<program, fn>>
      /\ frames' = <<a, b>> \o Tail(frames)
      /\ (Top.at = "stmt" /\ Kind(n) = "if") \/ (Top.at = "exp" /\ Kind(n) = "and")
  BY DEF StartIf, StartAnd, AtExp, AtStmt, At, GoOn
<1>2. n \in Node /\ Kids(n)[1] \in Node
  BY <1>0, <1>1, TopFacts, BranchingKids DEF FrameRecord
<1>3. /\ a.at = "exp" /\ b.at \in {"branch", "create"}
      /\ Items(a) = <<a>> /\ Items(b) = <<Item0(m, n)>>
      /\ Items(Top) = <<Item0(Top.at, n)>> /\ Top.at \in SourceLabels
      /\ \A R : Owes(Top, R) = {}
  <2>1. a.at = "exp" /\ a = Item0(a.at, a.node)
    BY DEF Exp, Frame, Item0
  <2>2. b.at = l /\ b.node = n
    BY DEF Frame
  <2>3. QED
    BY <1>1, <2>1, <2>2 DEF Items, SourceLabels, Owes
<1>4. ASSUME NEW R \in Todos
      PROVE  Quiet(Items(Top) \o R, Items(a) \o (Items(b) \o R))
  <2>1. Advances(Top.at, n, R, <<a, Item0(m, n)>> \o R)
    BY <1>1 DEF Advances
  <2>2. Quiet(Items(Top) \o R, <<a, Item0(m, n)>> \o R)
    BY <1>2, <1>3, <2>1, QuietItem
  <2>3. a \in SourceItem /\ Item0(m, n) \in SourceItem
    <3>1. m \in SourceLabels
      BY DEF SourceLabels
    <3>2. QED
      BY <1>2, <3>1, SourceItems
  <2>4. <<a, Item0(m, n)>> \o R = <<a>> \o (<<Item0(m, n)>> \o R)
    BY <2>3, TwoItems
  <2>5. QED
    BY <1>3, <2>2, <2>4
<1>5. a.at \notin LoopFrames /\ b.at \notin LoopFrames
  BY <1>3 DEF LoopFrames
<1>6. PushesQuietly(a, b)
  BY <1>3, <1>4 DEF PushesQuietly
<1> HIDE DEF a, b
<1>7. QED
  BY <1>0, <1>1, <1>5, <1>6, QuietTwo

-----------------------------------------------------------------------------
(***************************************************************************)
(* What FuncContext writes, and the steps that write.                        *)
(***************************************************************************)

(* A new block is empty and changes no other. *)
LEMMA CreateWrites ==
  ASSUME NEW f \in AnyFn, NEW h, h = CreateBlock(f)
  PROVE  /\ h \in AnyFn /\ Len(f.blocks) \in Nat /\ Len(h.blocks) = Len(f.blocks) + 1
         /\ h.current = f.current
         /\ \A b \in 1 .. Len(f.blocks) : h.blocks[b] = f.blocks[b]
         /\ h.blocks[Len(f.blocks) + 1] = <<>>
<1>1. f.blocks \in Seq(Seq(AnyInstruction)) /\ f.current \in Nat
  BY DEF AnyFn
<1>2. <<>> \in Seq(AnyInstruction)
  BY EmptySeq
<1> DEFINE new == Append(f.blocks, <<>>)
<1>3. /\ new \in Seq(Seq(AnyInstruction)) /\ Len(new) = Len(f.blocks) + 1
      /\ \A b \in 1 .. Len(f.blocks) : new[b] = f.blocks[b]
      /\ new[Len(f.blocks) + 1] = <<>>
  BY <1>1, <1>2, AppendFacts
<1> HIDE DEF new
<1>4. h.blocks = new /\ h.current = f.current /\ h \in [blocks : {new}, current : Nat]
  BY <1>1 DEF CreateBlock, new, AnyFn
<1>5. h \in AnyFn
  BY <1>3, <1>4 DEF AnyFn
<1>6. Len(f.blocks) \in Nat
  BY <1>1, LenProperties
<1>7. QED
  BY <1>3, <1>4, <1>5, <1>6

(* Only the current block changes. *)
LEMMA SetCurrentWrites ==
  ASSUME NEW f \in AnyFn, NEW b \in Nat, NEW h, h = SetCurrent(f, b)
  PROVE  h \in AnyFn /\ h.blocks = f.blocks /\ h.current = b
BY DEF SetCurrent, AnyFn

(* One instruction is added to the current block. *)
LEMMA EmitWrites ==
  ASSUME NEW f \in AnyFn, f.current \in 1 .. Len(f.blocks), NEW inst \in AnyInstruction,
         NEW h, h = Emit(f, inst)
  PROVE  /\ h \in AnyFn /\ Len(h.blocks) = Len(f.blocks) /\ h.current = f.current
         /\ \A b \in 1 .. Len(f.blocks) : b # f.current => h.blocks[b] = f.blocks[b]
         /\ Len(f.blocks[f.current]) \in Nat
         /\ Len(h.blocks[f.current]) = Len(f.blocks[f.current]) + 1
         /\ \A k \in 1 .. Len(f.blocks[f.current]) :
              h.blocks[f.current][k] = f.blocks[f.current][k]
         /\ h.blocks[f.current][Len(f.blocks[f.current]) + 1] = inst
<1>1. f.blocks \in Seq(Seq(AnyInstruction)) /\ f.current \in Nat
  BY DEF AnyFn
<1> DEFINE c == f.current
           s == f.blocks[c]
           new == Append(s, inst)
           bs == [f.blocks EXCEPT ![c] = new]
<1>2. s \in Seq(AnyInstruction) /\ c \in 1 .. Len(f.blocks)
  BY <1>1
<1>3. /\ new \in Seq(AnyInstruction) /\ Len(new) = Len(s) + 1 /\ Len(s) \in Nat
      /\ \A k \in 1 .. Len(s) : new[k] = s[k]
      /\ new[Len(s) + 1] = inst
  <2> HIDE DEF s
  <2>1. QED
    BY <1>2, AppendFacts, LenProperties
<1> HIDE DEF new
<1>4. /\ bs \in Seq(Seq(AnyInstruction)) /\ Len(bs) = Len(f.blocks)
      /\ bs[c] = new
      /\ \A b \in 1 .. Len(f.blocks) : b # c => bs[b] = f.blocks[b]
  BY <1>1, <1>2, <1>3
<1>5. h = [f EXCEPT !.blocks = bs]
  BY DEF Emit, new
<1> HIDE DEF bs
<1>6. h.blocks = bs /\ h.current = c /\ h \in AnyFn
  BY <1>1, <1>4, <1>5 DEF AnyFn
<1>7. QED
  BY <1>3, <1>4, <1>6

(* One instruction is added, and no block is current. *)
LEMMA TerminateWrites ==
  ASSUME NEW f \in AnyFn, f.current \in 1 .. Len(f.blocks), NEW inst \in AnyInstruction,
         NEW h, h = Terminate(f, inst)
  PROVE  /\ h \in AnyFn /\ Len(h.blocks) = Len(f.blocks) /\ h.current = NoBlock
         /\ \A b \in 1 .. Len(f.blocks) : b # f.current => h.blocks[b] = f.blocks[b]
         /\ Len(f.blocks[f.current]) \in Nat
         /\ Len(h.blocks[f.current]) = Len(f.blocks[f.current]) + 1
         /\ \A k \in 1 .. Len(f.blocks[f.current]) :
              h.blocks[f.current][k] = f.blocks[f.current][k]
         /\ h.blocks[f.current][Len(f.blocks[f.current]) + 1] = inst
<1> DEFINE g == Emit(f, inst)
<1>1. g = Emit(f, inst) /\ h = SetCurrent(g, NoBlock) /\ NoBlock \in Nat
  BY DEF Terminate, NoBlock
<1> HIDE DEF g
<1>2. /\ g \in AnyFn /\ Len(g.blocks) = Len(f.blocks)
      /\ \A b \in 1 .. Len(f.blocks) : b # f.current => g.blocks[b] = f.blocks[b]
      /\ Len(f.blocks[f.current]) \in Nat
      /\ Len(g.blocks[f.current]) = Len(f.blocks[f.current]) + 1
      /\ \A k \in 1 .. Len(f.blocks[f.current]) :
           g.blocks[f.current][k] = f.blocks[f.current][k]
      /\ g.blocks[f.current][Len(f.blocks[f.current]) + 1] = inst
  BY <1>1, EmitWrites, SMTT(30)
<1>3. h \in AnyFn /\ h.blocks = g.blocks /\ h.current = NoBlock
  BY <1>1, <1>2 DEF SetCurrent, AnyFn
<1>4. QED
  BY <1>2, <1>3

(* The instructions of the lowering are instructions. *)
LEMMA Instructions ==
  ASSUME NEW n \in Node
  PROVE  /\ \A op \in Ops : Do(op, n) \in AnyInstruction
         /\ Ret(n) \in AnyInstruction /\ Ret(n).op \in Terminators
         /\ \A b \in Nat, c \in Nat : Br(n, b, c) \in AnyInstruction /\ Br(n, b, c).op \in Terminators
         /\ IsAst(program) =>
              \A b \in Nat : /\ Jump(b) \in AnyInstruction /\ Jump(b).op = "jump"
                             /\ Jump(b).to[1] = b /\ Jump(b).op \in Terminators
<1>1. <<>> \in Seq(Nat) /\ \A b \in Nat, c \in Nat : <<b, c>> \in Seq(Nat) /\ <<b>> \in Seq(Nat)
  BY EmptySeq
<1>2. IsAst(program) => program.root \in Node
  BY DEF IsAst
<1>3. QED
  BY <1>1, <1>2 DEF Do, Ret, Br, Jump, AnyInstruction, Ops, Terminators

\* As CodeStep, with the promises of the innermost frame one by one.
LEMMA FillStep ==
  ASSUME LoweringInv, LoweringInv', frames # <<>>, UNCHANGED program,
         NEW r, NEW S, Code(fn, frames, r, S),
         NEW calls, NEW c, Links(calls, c, r[1]), frames' = calls \o Tail(frames),
         NEW r2, r2 = c \o Tail(r),
         NEW N, N \subseteq Meanings \X Place, NEW S2, S2 = S \cup N,
         Extends(fn, fn', Mine),
         NEW T, T = Items(Top) \o r[1],
         fn.current # NoBlock =>
           Fits(fn', frames', r2, S2, T, <<fn.current, Len(fn.blocks[fn.current]) + 1>>),
         \A y \in Owes(Top, r[1]) : y[1] # NoBlock => Fits(fn', frames', r2, S2, y[2], <<y[1], 1>>),
         \A x \in N : Fits(fn', frames', r2, S2, x[1], x[2]),
         \A k \in 1 .. Len(calls) : calls[k].at \in LoopFrames => Looping(calls[k], c[k]) \in S2,
         \A b \in Opens(fn') : b # fn'.current /\ (b \in Mine \/ b > Len(fn.blocks)) =>
            fn'.blocks[b] = <<>>
  PROVE  CodeInv'
<1>1. Now(frames, r) = T
  BY NowStep
<1>2. FrameOK(Top, Len(fn.blocks)) /\ Len(fn.blocks) \in Nat /\ Owned(Top) \subseteq Opens(fn) \ Current
  BY TopFacts
<1>3. ASSUME NEW b \in Opens(fn) \cap Mine, NEW V, TopPromised(r, b, V)
      PROVE  Fits(fn', frames', r2, S2, V, <<b, Len(fn.blocks[b]) + 1>>)
  <2>1. b # NoBlock
    BY OpenNumbers DEF LoweringInv, FrameInv
  <2>2. CASE b = fn.current /\ V = Now(frames, r)
    BY <1>1, <2>1, <2>2
  <2>3. CASE <<b, V>> \in Owes(Top, r[1])
    <3>1. b \in Owned(Top)
      BY <1>2, <2>1, <2>3, OwesOwned
    <3>2. fn.blocks[b] = <<>>
      <4>1. b \in Opens(fn) /\ b # fn.current
        BY <1>2, <2>1, <3>1 DEF Current
      <4>2. QED
        BY <4>1 DEF Code
    <3>3. Len(fn.blocks[b]) + 1 = 1
      BY <3>2, EmptySeq
    <3>4. Fits(fn', frames', r2, S2, V, <<b, 1>>)
      BY <2>1, <2>3
    <3>5. QED
      BY <3>3, <3>4
  <2>4. QED
    BY <1>3, <2>2, <2>3 DEF TopPromised
<1>4. Code(fn', frames', r2, S2)
  BY <1>3, CodeStep
<1>5. QED
  BY <1>4, CodePrimed

\* Where control is, and its instruction once it is written.
LEMMA Here ==
  ASSUME LoweringInv, fn.current # NoBlock
  PROVE  /\ fn \in AnyFn /\ fn.current \in 1 .. Len(fn.blocks) /\ fn.current \in Nat
         /\ Len(fn.blocks) \in Nat /\ Len(fn.blocks[fn.current]) \in Nat
         /\ fn.current \in Mine
<1>1. GoodFn(fn)
  BY DEF LoweringInv, FrameInv
<1>2. /\ fn \in AnyFn /\ fn.current \in 1 .. Len(fn.blocks)
  BY <1>1 DEF GoodFn, Opens
<1>3. fn.current \in Nat /\ fn.blocks \in Seq(Seq(AnyInstruction))
  BY <1>2 DEF AnyFn
<1>4. Len(fn.blocks) \in Nat /\ Len(fn.blocks[fn.current]) \in Nat
  BY <1>2, <1>3, LenProperties
<1>5. QED
  BY <1>2, <1>3, <1>4 DEF Mine, Current

LEMMA PlaceOf ==
  ASSUME NEW b \in Nat, NEW k \in Nat
  PROVE  <<b, k>> \in Place
BY DEF Place

\* The step at hand: the calls that replace the innermost frame, and the rest.
Steps(r, S, calls, c, r2) ==
  /\ frames # <<>> /\ UNCHANGED program
  /\ Code(fn, frames, r, S)
  /\ Links(calls, c, r[1]) /\ frames' = calls \o Tail(frames)
  /\ r2 = c \o Tail(r)

\* What the innermost frame had to do and had promised is done or promised.
Fulfilled(r, r2, N, S2) ==
  /\ fn.current # NoBlock =>
       Fits(fn', frames', r2, S2, Items(Top) \o r[1],
            <<fn.current, Len(fn.blocks[fn.current]) + 1>>)
  /\ \A y \in Owes(Top, r[1]) :
       y[1] # NoBlock => Fits(fn', frames', r2, S2, y[2], <<y[1], 1>>)
  /\ \A x \in N : Fits(fn', frames', r2, S2, x[1], x[2])

CallsReady(calls, c, S2) ==
  \A k \in 1 .. Len(calls) :
    /\ calls[k].at \in LoopFrames => Looping(calls[k], c[k]) \in S2
    /\ \A b \in Owned(calls[k]) : fn'.blocks[b] = <<>>

(* Open blocks that the step leaves alone are owned by an outer frame. *)
LEMMA OpenOwned ==
  ASSUME LoweringInv, LoweringInv', NEW r, NEW S, NEW calls, NEW c, NEW r2,
         Steps(r, S, calls, c, r2),
         NEW b \in Opens(fn'), b # fn'.current, b \in Mine \/ b > Len(fn.blocks)
  PROVE  \E k \in 1 .. Len(calls) : b \in Owned(calls[k])
<1>1. Shifted(calls, c, r, r2)
  BY StacksFacts DEF Steps
<1>2. PICK k \in 1 .. Len(frames') : b \in Owned(frames'[k])
  <2>1. OwnInv'
    BY DEF LoweringInv
  <2>2. \A x \in Opens(fn') \ Current' : \E k \in 1 .. Len(frames') : x \in Owned(frames'[k])
    BY <2>1 DEF OwnInv, Opens, Owned
  <2>3. b \notin Current'
    BY DEF Current
  <2>4. QED
    BY <2>2, <2>3
<1> DEFINE l == Len(calls)
           n == Len(frames)
<1>3. /\ l \in Nat /\ n \in Nat \ {0} /\ Top = frames[1] /\ Len(frames') = l + n - 1
      /\ \A j \in 1 .. l : frames'[j] = calls[j]
      /\ \A j \in 2 .. n : frames'[l + j - 1] = frames[j]
      /\ k \in 1 .. l \/ k - l + 1 \in 2 .. n
  BY <1>1 DEF Shifted
<1> HIDE DEF l, n
<1>4. CASE k \in 1 .. l
  BY <1>2, <1>3, <1>4 DEF l
<1>5. CASE k - l + 1 \in 2 .. n
  <2> DEFINE j == k - l + 1
  <2>1. k \in Nat /\ l + j - 1 = k /\ j \in 2 .. n
    BY <1>3, <1>5
  <2> HIDE DEF j
  <2>2. frames'[k] = frames[j]
    BY <1>3, <2>1
  <2>3. j \in 1 .. Len(frames) /\ 1 \in 1 .. Len(frames) /\ j # 1
    BY <1>3, <2>1 DEF n
  <2>4. b \in Owned(frames[j])
    BY <1>2, <2>2
  <2>5. b \notin Owned(frames[1]) /\ b \in Opens(fn) \ Current
    BY <2>3, <2>4 DEF LoweringInv, OwnInv
  <2>6. b \notin Mine
    BY <1>3, <2>5 DEF Mine
  <2>7. Len(fn.blocks) \in Nat /\ b \in 1 .. Len(fn.blocks)
    BY <2>5, TopFacts DEF Opens, Steps
  <2>8. QED
    BY <2>6, <2>7
<1>6. QED
  BY <1>3, <1>4, <1>5

(* The step that fills blocks, from its parts. *)
LEMMA Filled ==
  ASSUME LoweringInv, LoweringInv', NEW r, NEW S, NEW calls, NEW c, NEW r2,
         Steps(r, S, calls, c, r2),
         NEW N, N \subseteq Meanings \X Place, NEW S2, S2 = S \cup N,
         Extends(fn, fn', Mine), Fulfilled(r, r2, N, S2), CallsReady(calls, c, S2)
  PROVE  CodeInv'
<1>1. /\ frames # <<>> /\ UNCHANGED program /\ Code(fn, frames, r, S)
      /\ Links(calls, c, r[1]) /\ frames' = calls \o Tail(frames)
      /\ r2 = c \o Tail(r)
  BY DEF Steps
<1>2. fn.current # NoBlock =>
        Fits(fn', frames', r2, S2, Items(Top) \o r[1], <<fn.current, Len(fn.blocks[fn.current]) + 1>>)
  BY DEF Fulfilled
<1>3. \A y \in Owes(Top, r[1]) : y[1] # NoBlock => Fits(fn', frames', r2, S2, y[2], <<y[1], 1>>)
  BY DEF Fulfilled
<1>4. \A x \in N : Fits(fn', frames', r2, S2, x[1], x[2])
  BY DEF Fulfilled
<1>5. \A k \in 1 .. Len(calls) : calls[k].at \in LoopFrames => Looping(calls[k], c[k]) \in S2
  BY DEF CallsReady
<1>6. \A b \in Opens(fn') : b # fn'.current /\ (b \in Mine \/ b > Len(fn.blocks)) =>
        fn'.blocks[b] = <<>>
  BY OpenOwned DEF CallsReady
<1>7. QED
  BY <1>1, <1>2, <1>3, <1>4, <1>5, <1>6, FillStep

(* Fits at the end of the current block after the step, *)
LEMMA NowFits ==
  ASSUME LoweringInv, LoweringInv', NEW r, NEW S, NEW calls, NEW c, NEW r2,
         Steps(r, S, calls, c, r2), fn'.current # NoBlock,
         NEW V, V = Latest(calls, c, r[1]), NEW S2,
         NEW b, b = fn'.current, NEW k, k = Len(fn'.blocks[b]) + 1
  PROVE  Fits(fn', frames', r2, S2, V, <<b, k>>)
<1>1. Now(frames', r2) = V
  BY NowStep DEF Steps
<1>2. GoodFn(fn')
  BY NextFrames DEF Steps
<1>3. QED
  BY <1>1, <1>2, FitsCurrent

(* at a block a new call promises, *)
LEMMA OwedFits ==
  ASSUME LoweringInv, LoweringInv', NEW r, NEW S, NEW calls, NEW c, NEW r2,
         Steps(r, S, calls, c, r2), NEW j \in 1 .. Len(calls),
         NEW b \in Owned(calls[j]), fn'.blocks[b] = <<>>, NEW V, <<b, V>> \in Owes(calls[j], c[j]),
         NEW S2
  PROVE  Fits(fn', frames', r2, S2, V, <<b, 1>>)
<1>1. Shifted(calls, c, r, r2)
  BY StacksFacts DEF Steps
<1>2. /\ Len(calls) \in Nat /\ Len(frames) \in Nat \ {0}
      /\ Len(frames') = Len(calls) + Len(frames) - 1
      /\ \A k \in 1 .. Len(calls) : frames'[k] = calls[k] /\ r2[k] = c[k]
  BY <1>1 DEF Shifted
<1>3. j \in 1 .. Len(frames') /\ frames'[j] = calls[j] /\ r2[j] = c[j]
  BY <1>2
<1>4. b \in Opens(fn')
  <2>1. OwnInv'
    BY DEF LoweringInv
  <2>2. \A k \in 1 .. Len(frames') : Owned(frames'[k]) \subseteq Opens(fn')
    BY <2>1 DEF OwnInv, Opens, Owned
  <2>3. QED
    BY <1>3, <2>2
<1>5. 1 = Len(fn'.blocks[b]) + 1
  BY EmptySeq
<1>6. <<b, V>> \in Owes(frames'[j], r2[j])
  BY <1>3
<1>7. QED
  BY <1>3, <1>4, <1>5, <1>6, FitsOwed

(* and where a quiet step leads to a meaning of the same place. *)
LEMMA QuietFits ==
  ASSUME NEW r2, NEW S2, NEW V, NEW U, Quiet(V, U), NEW p, <<U, p>> \in S2
  PROVE  Fits(fn', frames', r2, S2, V, p)
BY DEF Fits

LEMMA StepsNone ==
  ASSUME LoweringInv, frames # <<>>, UNCHANGED program, NEW r, NEW S, Code(fn, frames, r, S),
         frames' = Tail(frames), NEW r2, r2 = <<>> \o Tail(r)
  PROVE  /\ Steps(r, S, <<>>, <<>>, r2) /\ Latest(<<>>, <<>>, r[1]) = r[1] /\ r[1] \in Todos
         /\ \A S2 : CallsReady(<<>>, <<>>, S2)
<1>1. frames' = <<>> \o Tail(frames)
  <2>1. Tail(frames) \in Seq(FrameRecord)
    BY TopFacts, HeadTailProperties
  <2>2. QED
    BY <2>1, ConcatNothing
<1>2. 1 .. Len(<<>>) = {}
  BY EmptySeq
<1>3. QED
  BY <1>1, <1>2, LinksNone, TopRest DEF Steps, Latest, CallsReady

\* The frame that ends the calls has what it needs.
LastReady(b, R, S2) ==
  /\ b.at \in LoopFrames => Looping(b, R) \in S2
  /\ \A d \in Owned(b) : fn'.blocks[d] = <<>>

LEMMA StepsOne ==
  ASSUME LoweringInv, frames # <<>>, UNCHANGED program, NEW r, NEW S, Code(fn, frames, r, S),
         NEW a \in FrameRecord, frames' = <<a>> \o Tail(frames),
         NEW calls, calls = <<a>>, NEW c, c = <<r[1]>>, NEW r2, r2 = c \o Tail(r)
  PROVE  /\ Steps(r, S, calls, c, r2) /\ Latest(calls, c, r[1]) = Items(a) \o r[1]
         /\ r[1] \in Todos
<1>1. r[1] \in Todos
  BY TopRest
<1>2. Links(calls, c, r[1])
  BY <1>1, LinksOne
<1>3. Len(calls) = 1 /\ calls[1] = a /\ c[1] = r[1] /\ calls # <<>>
  OBVIOUS
<1>4. Steps(r, S, calls, c, r2)
  BY <1>2 DEF Steps
<1>5. Latest(calls, c, r[1]) = Items(a) \o r[1]
  BY <1>3 DEF Latest
<1>6. QED
  BY <1>1, <1>4, <1>5, Zenon

LEMMA ReadyOne ==
  ASSUME NEW a, NEW calls, calls = <<a>>, NEW R, NEW c, c = <<R>>, NEW S2, LastReady(a, R, S2)
  PROVE  CallsReady(calls, c, S2) /\ 1 \in 1 .. Len(calls) /\ calls[1] = a /\ c[1] = R
<1>1. Len(calls) = 1 /\ calls[1] = a /\ c[1] = R
  OBVIOUS
<1>2. \A k \in 1 .. 1 : k = 1
  OBVIOUS
<1>3. CallsReady(calls, c, S2)
  BY <1>1, <1>2 DEF CallsReady, LastReady
<1>4. QED
  BY <1>1, <1>3

Bare(a) == a.at \in {"stmt", "exp"}

LEMMA StepsTwo ==
  ASSUME LoweringInv, LoweringInv', frames # <<>>, UNCHANGED program,
         NEW r, NEW S, Code(fn, frames, r, S),
         NEW a, Bare(a), NEW b, frames' = <<a, b>> \o Tail(frames),
         NEW calls, calls = <<a, b>>, NEW c, c = <<Items(b) \o r[1], r[1]>>,
         NEW r2, r2 = c \o Tail(r)
  PROVE  /\ Steps(r, S, calls, c, r2) /\ Latest(calls, c, r[1]) = Items(a) \o (Items(b) \o r[1])
         /\ r[1] \in Todos
<1>1. r[1] \in Todos
  BY TopRest
<1>2. /\ IsAst(program) /\ a \in FrameRecord /\ b \in FrameRecord /\ a.at # "loop"
      /\ FrameOK(b, Len(fn'.blocks)) /\ Len(fn'.blocks) \in Nat
  <2>1. Tail(frames) \in Seq(FrameRecord)
    BY TopFacts, HeadTailProperties
  <2>2. /\ Len(frames') >= 2 /\ frames'[1] = a /\ frames'[2] = b /\ Len(frames') \in Nat
    BY <2>1
  <2>3. 1 \in 1 .. Len(frames') /\ 2 \in 1 .. Len(frames')
    BY <2>2
  <2>4. FrameOK(a, Len(fn'.blocks)) /\ FrameOK(b, Len(fn'.blocks)) /\ Len(fn'.blocks) \in Nat
    BY <2>2, <2>3, NextFrames
  <2>5. QED
    BY <2>4, TopFacts DEF FrameOK, Bare
<1>3. Links(calls, c, r[1])
  BY <1>1, <1>2, LinksTwo
<1>4. /\ Len(calls) = 2 /\ calls[1] = a /\ calls[2] = b /\ calls # <<>>
      /\ c[1] = Items(b) \o r[1] /\ c[2] = r[1]
  OBVIOUS
<1>5. Steps(r, S, calls, c, r2)
  BY <1>3 DEF Steps
<1>6. Latest(calls, c, r[1]) = Items(a) \o (Items(b) \o r[1])
  BY <1>4 DEF Latest
<1>7. QED
  BY <1>1, <1>5, <1>6, Zenon

LEMMA ReadyTwo ==
  ASSUME NEW a, Bare(a), NEW b, NEW calls, calls = <<a, b>>,
         NEW Q, NEW R, NEW c, c = <<Q, R>>, NEW S2, LastReady(b, R, S2)
  PROVE  CallsReady(calls, c, S2) /\ 2 \in 1 .. Len(calls) /\ calls[2] = b /\ c[2] = R
<1>1. Len(calls) = 2 /\ calls[1] = a /\ calls[2] = b /\ c[2] = R
  OBVIOUS
<1>2. Owned(a) = {} /\ a.at \notin LoopFrames
  BY DEF Owned, LoopFrames, Bare
<1>3. \A k \in 1 .. 2 : k = 1 \/ k = 2
  OBVIOUS
<1>4. CallsReady(calls, c, S2)
  BY <1>1, <1>2, <1>3 DEF CallsReady, LastReady
<1>5. QED
  BY <1>1, <1>4

(* What was written stays.                                                   *)
LEMMA ExtendsAll ==
  ASSUME NEW f \in AnyFn, NEW g \in AnyFn, NEW h \in AnyFn, NEW A, NEW B, NEW W,
         Extends(f, g, A), Extends(g, h, B),
         \A b \in 1 .. Len(f.blocks) : b \in A \cup B => b \in W
  PROVE  Extends(f, h, W)
<1>1. /\ Len(f.blocks) \in Nat /\ Len(g.blocks) \in Nat /\ Len(h.blocks) \in Nat
      /\ Len(f.blocks) <= Len(g.blocks) /\ Len(g.blocks) <= Len(h.blocks)
  BY DEF AnyFn, Extends
<1>2. ASSUME NEW b \in 1 .. Len(f.blocks)
      PROVE  /\ Len(f.blocks[b]) <= Len(h.blocks[b])
             /\ \A k \in 1 .. Len(f.blocks[b]) : h.blocks[b][k] = f.blocks[b][k]
             /\ b \notin W => h.blocks[b] = f.blocks[b]
  <2>1. b \in 1 .. Len(g.blocks) /\ b \in 1 .. Len(h.blocks)
    BY <1>1
  <2>2. /\ f.blocks[b] \in Seq(AnyInstruction) /\ g.blocks[b] \in Seq(AnyInstruction)
        /\ h.blocks[b] \in Seq(AnyInstruction)
    BY <2>1, SMTT(30) DEF AnyFn
  <2>3. Len(f.blocks[b]) \in Nat /\ Len(g.blocks[b]) \in Nat /\ Len(h.blocks[b]) \in Nat
    BY <2>2, LenProperties
  <2>4. /\ Len(f.blocks[b]) <= Len(g.blocks[b])
        /\ \A k \in 1 .. Len(f.blocks[b]) : g.blocks[b][k] = f.blocks[b][k]
        /\ b \notin A => g.blocks[b] = f.blocks[b]
    BY DEF Extends
  <2>5. /\ Len(g.blocks[b]) <= Len(h.blocks[b])
        /\ \A k \in 1 .. Len(g.blocks[b]) : h.blocks[b][k] = g.blocks[b][k]
        /\ b \notin B => h.blocks[b] = g.blocks[b]
    BY <2>1 DEF Extends
  <2>6. \A k \in 1 .. Len(f.blocks[b]) : k \in 1 .. Len(g.blocks[b])
    BY <2>3, <2>4
  <2>7. QED
    BY <2>3, <2>4, <2>5, <2>6, SMTT(30)
<1>3. QED
  BY <1>1, <1>2 DEF Extends

(* An instruction is still there in an extension. *)
LEMMA Carried ==
  ASSUME NEW g \in AnyFn, NEW h \in AnyFn, NEW W, Extends(g, h, W),
         NEW b \in 1 .. Len(g.blocks), NEW k \in 1 .. Len(g.blocks[b])
  PROVE  /\ b \in 1 .. Len(h.blocks) /\ k \in 1 .. Len(h.blocks[b])
         /\ h.blocks[b][k] = g.blocks[b][k]
<1>1. /\ Len(g.blocks) \in Nat /\ Len(h.blocks) \in Nat /\ Len(g.blocks) <= Len(h.blocks)
  BY DEF AnyFn, Extends
<1>2. b \in 1 .. Len(h.blocks)
  BY <1>1
<1>3. g.blocks[b] \in Seq(AnyInstruction) /\ h.blocks[b] \in Seq(AnyInstruction)
  BY <1>2 DEF AnyFn
<1>4. /\ Len(g.blocks[b]) \in Nat /\ Len(h.blocks[b]) \in Nat
      /\ Len(g.blocks[b]) <= Len(h.blocks[b]) /\ h.blocks[b][k] = g.blocks[b][k]
  BY <1>3, LenProperties DEF Extends
<1>5. QED
  BY <1>2, <1>4

(* CreateBlock, SetCurrent, Emit and Terminate extend the function. *)
LEMMA Created ==
  ASSUME NEW f \in AnyFn, NEW h, h = CreateBlock(f)
  PROVE  /\ h \in AnyFn /\ Len(f.blocks) \in Nat /\ Len(h.blocks) = Len(f.blocks) + 1
         /\ h.current = f.current /\ h.blocks[Len(f.blocks) + 1] = <<>>
         /\ Extends(f, h, {}) /\ \A b \in 1 .. Len(f.blocks) : h.blocks[b] = f.blocks[b]
<1>1. /\ h \in AnyFn /\ Len(f.blocks) \in Nat /\ Len(h.blocks) = Len(f.blocks) + 1
      /\ h.current = f.current
      /\ \A b \in 1 .. Len(f.blocks) : h.blocks[b] = f.blocks[b]
      /\ h.blocks[Len(f.blocks) + 1] = <<>>
  BY CreateWrites
<1>2. \A b \in 1 .. Len(f.blocks) : f.blocks[b] \in Seq(AnyInstruction)
  BY DEF AnyFn
<1>3. \A b \in 1 .. Len(f.blocks) : Len(f.blocks[b]) \in Nat
  BY <1>2, LenProperties
<1>4. QED
  BY <1>1, <1>3 DEF Extends

LEMMA Moved ==
  ASSUME NEW f \in AnyFn, NEW b \in Nat, NEW h, h = SetCurrent(f, b)
  PROVE  h \in AnyFn /\ h.blocks = f.blocks /\ h.current = b /\ Extends(f, h, {})
<1>1. h \in AnyFn /\ h.blocks = f.blocks /\ h.current = b
  BY SetCurrentWrites
<1>2. \A x \in 1 .. Len(f.blocks) : f.blocks[x] \in Seq(AnyInstruction)
  BY DEF AnyFn
<1>3. \A x \in 1 .. Len(f.blocks) : Len(f.blocks[x]) \in Nat
  BY <1>2, LenProperties
<1>4. Len(f.blocks) \in Nat
  BY LenProperties DEF AnyFn
<1>5. QED
  BY <1>1, <1>3, <1>4 DEF Extends

\* h is f with inst put at <<b, k>>, the end of block b.
Put(f, h, b, k, inst) ==
  /\ h \in AnyFn /\ Len(h.blocks) = Len(f.blocks) /\ Len(f.blocks) \in Nat
  /\ b \in 1 .. Len(h.blocks) /\ b \in Nat
  /\ Extends(f, h, {b}) /\ \A d \in 1 .. Len(f.blocks) : d # b => h.blocks[d] = f.blocks[d]
  /\ k \in Nat \ {0} /\ Len(h.blocks[b]) = k /\ k \in 1 .. Len(h.blocks[b])
  /\ h.blocks[b][k] = inst

LEMMA Written ==
  ASSUME NEW f \in AnyFn, NEW b, b = f.current, b \in 1 .. Len(f.blocks),
         NEW inst \in AnyInstruction, NEW h, NEW k, k = Len(f.blocks[b]) + 1,
         /\ h \in AnyFn /\ Len(h.blocks) = Len(f.blocks)
         /\ \A x \in 1 .. Len(f.blocks) : x # f.current => h.blocks[x] = f.blocks[x]
         /\ Len(f.blocks[f.current]) \in Nat
         /\ Len(h.blocks[f.current]) = Len(f.blocks[f.current]) + 1
         /\ \A i \in 1 .. Len(f.blocks[f.current]) :
              h.blocks[f.current][i] = f.blocks[f.current][i]
         /\ h.blocks[f.current][Len(f.blocks[f.current]) + 1] = inst
  PROVE  Put(f, h, b, k, inst)
<1>1. k \in Nat \ {0} /\ Len(h.blocks[b]) = k /\ h.blocks[b][k] = inst /\ Len(f.blocks) \in Nat
  BY LenProperties DEF AnyFn
<1>2. \A x \in 1 .. Len(f.blocks) : f.blocks[x] \in Seq(AnyInstruction)
  BY DEF AnyFn
<1>3. \A x \in 1 .. Len(f.blocks) : Len(f.blocks[x]) \in Nat
  BY <1>2, LenProperties
<1>4. ASSUME NEW x \in 1 .. Len(f.blocks)
      PROVE  /\ Len(f.blocks[x]) <= Len(h.blocks[x])
             /\ \A i \in 1 .. Len(f.blocks[x]) : h.blocks[x][i] = f.blocks[x][i]
             /\ x \notin {b} => h.blocks[x] = f.blocks[x]
  BY <1>1, <1>3, SMTT(30)
<1>5. Extends(f, h, {b})
  BY <1>1, <1>4 DEF Extends
<1>6. QED
  BY <1>1, <1>5 DEF Put

LEMMA Emitted ==
  ASSUME NEW f \in AnyFn, NEW b, b = f.current, b \in 1 .. Len(f.blocks),
         NEW inst \in AnyInstruction, NEW h, h = Emit(f, inst), NEW k, k = Len(f.blocks[b]) + 1
  PROVE  Put(f, h, b, k, inst) /\ h.current = b /\ h \in AnyFn
<1>1. /\ h \in AnyFn /\ Len(h.blocks) = Len(f.blocks) /\ h.current = f.current
      /\ \A x \in 1 .. Len(f.blocks) : x # f.current => h.blocks[x] = f.blocks[x]
      /\ Len(f.blocks[f.current]) \in Nat
      /\ Len(h.blocks[f.current]) = Len(f.blocks[f.current]) + 1
      /\ \A i \in 1 .. Len(f.blocks[f.current]) :
           h.blocks[f.current][i] = f.blocks[f.current][i]
      /\ h.blocks[f.current][Len(f.blocks[f.current]) + 1] = inst
  BY EmitWrites, SMTT(30)
<1>2. Put(f, h, b, k, inst)
  BY <1>1, Written
<1>3. QED
  BY <1>1, <1>2

LEMMA Terminated ==
  ASSUME NEW f \in AnyFn, NEW b, b = f.current, b \in 1 .. Len(f.blocks),
         NEW inst \in AnyInstruction, NEW h, h = Terminate(f, inst),
         NEW k, k = Len(f.blocks[b]) + 1
  PROVE  Put(f, h, b, k, inst) /\ h.current = NoBlock /\ h \in AnyFn
<1>1. /\ h \in AnyFn /\ Len(h.blocks) = Len(f.blocks) /\ h.current = NoBlock
      /\ \A x \in 1 .. Len(f.blocks) : x # f.current => h.blocks[x] = f.blocks[x]
      /\ Len(f.blocks[f.current]) \in Nat
      /\ Len(h.blocks[f.current]) = Len(f.blocks[f.current]) + 1
      /\ \A i \in 1 .. Len(f.blocks[f.current]) :
           h.blocks[f.current][i] = f.blocks[f.current][i]
      /\ h.blocks[f.current][Len(f.blocks[f.current]) + 1] = inst
  BY TerminateWrites, SMTT(30)
<1>2. Put(f, h, b, k, inst)
  BY <1>1, Written
<1>3. QED
  BY <1>1, <1>2

\* What an instruction at <<b, k>> of a finished piece does.
LEMMA PutFits ==
  ASSUME NEW f, NEW g, NEW b, NEW k, NEW inst, Put(f, g, b, k, inst),
         NEW W, Extends(g, fn', W), fn' \in AnyFn, NEW r2, NEW S2, NEW V, NEW next,
         next = <<b, k + 1>>, Does(inst, S2, V, next)
  PROVE  Fits(fn', frames', r2, S2, V, <<b, k>>)
<1>1. /\ g \in AnyFn /\ b \in 1 .. Len(g.blocks) /\ k \in 1 .. Len(g.blocks[b])
      /\ g.blocks[b][k] = inst
  BY DEF Put
<1>2. /\ b \in 1 .. Len(fn'.blocks) /\ k \in 1 .. Len(fn'.blocks[b])
      /\ fn'.blocks[b][k] = inst
  BY <1>1, Carried
<1>3. QED
  BY <1>2, FitsKept

LEMMA SameExtends ==
  ASSUME NEW f \in AnyFn, NEW W
  PROVE  Extends(f, f, W)
<1>1. \A x \in 1 .. Len(f.blocks) : f.blocks[x] \in Seq(AnyInstruction)
  BY DEF AnyFn
<1>2. \A x \in 1 .. Len(f.blocks) : Len(f.blocks[x]) \in Nat
  BY <1>1, LenProperties
<1>3. Len(f.blocks) \in Nat
  BY LenProperties DEF AnyFn
<1>4. QED
  BY <1>2, <1>3 DEF Extends

-----------------------------------------------------------------------------
(***************************************************************************)
(* The steps that write.                                                    *)
(***************************************************************************)

\* The instruction does the item, with what follows it in the same block.
DoneBy(inst, l, n) ==
  \A R, S, next : <<R, next>> \in S => Performs(inst, S, l, n, R, next)

(* An instruction that does the first item does the whole. *)
LEMMA DoesItem ==
  ASSUME NEW l \in ItemLabels, NEW n \in Node, NEW R \in Todos,
         NEW T, T = <<Item0(l, n)>> \o R,
         NEW inst, NEW S, NEW next, Performs(inst, S, l, n, R, next)
  PROVE  Does(inst, S, T, next)
<1>1. T # <<>> /\ Head(T).at = l /\ Head(T).node = n /\ Tail(T) = R
  BY HeadItem, SMTT(30)
<1>2. QED
  BY <1>1 DEF Does

(* A frame that emits one instruction and returns keeps Code. *)
LEMMA EmitCode ==
  ASSUME LoweringInv, LoweringInv', CodeInv, frames # <<>>, UNCHANGED program,
         fn.current # NoBlock, frames' = Tail(frames),
         NEW inst \in AnyInstruction, fn' = Emit(fn, inst),
         NEW l \in {"finish", "apply"}, Top.at = l, NEW n, n = Top.node, DoneBy(inst, l, n)
  PROVE  CodeInv'
<1>1. PICK S, r : Code(fn, frames, r, S)
  BY DEF CodeInv
<1> DEFINE R == r[1]
           b == fn.current
           k == Len(fn.blocks[b]) + 1
           next == <<b, k + 1>>
           N == {<<R, next>>}
           S2 == S \cup N
           r2 == <<>> \o Tail(r)
           T == Items(Top) \o R
<1>2. /\ Steps(r, S, <<>>, <<>>, r2) /\ Latest(<<>>, <<>>, R) = R /\ R \in Todos
      /\ CallsReady(<<>>, <<>>, S2)
  BY <1>1, StepsNone
<1>3. fn \in AnyFn /\ b \in 1 .. Len(fn.blocks) /\ b \in Nat /\ b \in Mine
  BY Here
<1>4. Put(fn, fn', b, k, inst) /\ fn'.current = b /\ fn' \in AnyFn
  BY <1>3, Emitted
<1>5. /\ k \in Nat \ {0} /\ Len(fn'.blocks[b]) = k /\ Extends(fn, fn', {b})
  BY <1>4 DEF Put
<1>6. Extends(fn, fn', Mine) /\ Extends(fn', fn', {})
  <2>1. Extends(fn', fn', {})
    BY <1>4, SameExtends
  <2>2. QED
    BY <1>3, <1>4, <1>5, <2>1, ExtendsAll
<1>7. Owes(Top, R) = {} /\ n \in Node /\ l \in SourceLabels /\ T = <<Item0(l, n)>> \o R
  <2>1. l \in SourceLabels /\ Top.node \in Node
    BY TopFacts DEF SourceLabels, FrameRecord
  <2>2. QED
    BY <2>1 DEF Owes, Items
<1>8. r2 = <<>> \o Tail(r) /\ S2 = S \cup N /\ <<R, next>> \in S2 /\ R = r[1]
  OBVIOUS
<1> HIDE DEF r2, S2, T, k, b, R
<1>9. Fits(fn', frames', r2, S2, R, next)
  <2>1. fn'.current # NoBlock /\ b = fn'.current
    BY <1>4 DEF b
  <2>2. k + 1 = Len(fn'.blocks[b]) + 1
    BY <1>5
  <2>3. QED
    BY <1>2, <1>8, <2>1, <2>2, NowFits
<1>10. N \subseteq Meanings \X Place
  <2>1. k + 1 \in Nat
    BY <1>5
  <2>2. next \in Place
    BY <1>3, <2>1, PlaceOf
  <2>3. R \in Meanings
    BY <1>2, TodosAreMeanings
  <2>4. QED
    BY <2>2, <2>3
<1>11. Fits(fn', frames', r2, S2, T, <<b, k>>)
  <2>1. Performs(inst, S2, l, n, R, next)
    BY <1>8 DEF DoneBy
  <2>2. R \in Todos /\ n \in Node /\ l \in ItemLabels /\ T = <<Item0(l, n)>> \o R
    BY <1>2, <1>7 DEF ItemLabels
  <2>3. Does(inst, S2, T, next)
    BY <2>1, <2>2, DoesItem
  <2>4. next = <<b, k + 1>>
    OBVIOUS
  <2> HIDE DEF next
  <2>5. QED
    BY <1>4, <1>6, <2>3, <2>4, PutFits
<1>12. Fulfilled(r, r2, N, S2)
  <2>1. \A x \in N : x[1] = R /\ x[2] = next
    OBVIOUS
  <2>2. \A x \in N : Fits(fn', frames', r2, S2, x[1], x[2])
    BY <1>9, <2>1
  <2>3. QED
    BY <1>7, <1>8, <1>11, <2>2 DEF Fulfilled, T, b, k
<1> HIDE DEF N
<1>13. QED
  BY <1>2, <1>6, <1>8, <1>10, <1>12, Filled

LEMMA FinishAssignCode == Inv /\ Inv' /\ CodeInv /\ FinishAssign => CodeInv'
<1> SUFFICES ASSUME Inv, Inv', CodeInv, FinishAssign PROVE CodeInv'
  OBVIOUS
<1> DEFINE n == Top.node
           inst == Do("assign", n)
<1>1. LoweringInv /\ LoweringInv'
  BY DEF Inv
<1>2. /\ frames # <<>> /\ Top.at = "finish" /\ Kind(n) = "assign" /\ fn.current # NoBlock
      /\ fn' = Emit(fn, inst) /\ frames' = Tail(frames) /\ UNCHANGED program
  BY DEF FinishAssign, At, Return
<1>3. n \in Node
  BY <1>1, <1>2, TopFacts DEF FrameRecord
<1>4. inst \in AnyInstruction
  BY <1>3, Instructions DEF Ops
<1>5. DoneBy(inst, "finish", n)
  BY <1>2 DEF DoneBy, Performs
<1> HIDE DEF inst
<1>6. QED
  BY <1>1, <1>2, <1>4, <1>5, EmitCode

LEMMA ApplyCode == Inv /\ Inv' /\ CodeInv /\ Apply => CodeInv'
<1> SUFFICES ASSUME Inv, Inv', CodeInv, Apply PROVE CodeInv'
  OBVIOUS
<1> DEFINE n == Top.node
           inst == Do(Kind(n), n)
<1>1. LoweringInv /\ LoweringInv'
  BY DEF Inv
<1>2. /\ frames # <<>> /\ Top.at = "apply" /\ fn.current # NoBlock
      /\ fn' = Emit(fn, inst) /\ frames' = Tail(frames) /\ UNCHANGED program
  BY DEF Apply, At, Return
<1>3. n \in Node /\ Kind(n) \in {"call", "bin"}
  BY <1>1, <1>2, TopFacts DEF FrameRecord, FrameOK
<1>4. inst \in AnyInstruction
  BY <1>3, Instructions DEF Ops
<1>5. DoneBy(inst, "apply", n)
  BY <1>3 DEF DoneBy, Performs
<1> HIDE DEF inst
<1>6. QED
  BY <1>1, <1>2, <1>4, <1>5, EmitCode

LEMMA FinishReturnCode == Inv /\ Inv' /\ CodeInv /\ FinishReturn => CodeInv'
<1> SUFFICES ASSUME Inv, Inv', CodeInv, FinishReturn PROVE CodeInv'
  OBVIOUS
<1> DEFINE n == Top.node
           inst == Ret(n)
<1>1. LoweringInv /\ LoweringInv'
  BY DEF Inv
<1>2. /\ frames # <<>> /\ Top.at = "finish" /\ Kind(n) = "return" /\ fn.current # NoBlock
      /\ fn' = Terminate(fn, inst) /\ frames' = Tail(frames) /\ UNCHANGED program
  BY DEF FinishReturn, At, Return
<1>3. n \in Node
  BY <1>1, <1>2, TopFacts DEF FrameRecord
<1>4. inst \in AnyInstruction
  BY <1>3, Instructions
<1>5. PICK S, r : Code(fn, frames, r, S)
  BY DEF CodeInv
<1> DEFINE R == r[1]
           b == fn.current
           k == Len(fn.blocks[b]) + 1
           next == <<b, k + 1>>
           S2 == S \cup {}
           r2 == <<>> \o Tail(r)
           T == Items(Top) \o R
<1>6. /\ Steps(r, S, <<>>, <<>>, r2) /\ R \in Todos /\ CallsReady(<<>>, <<>>, S2)
  BY <1>1, <1>2, <1>5, StepsNone
<1>7. fn \in AnyFn /\ b \in 1 .. Len(fn.blocks) /\ b \in Mine
  BY <1>1, <1>2, Here
<1>8. Put(fn, fn', b, k, inst) /\ fn' \in AnyFn
  BY <1>2, <1>4, <1>7, Terminated
<1>9. Extends(fn, fn', Mine) /\ Extends(fn', fn', {})
  <2>1. Extends(fn', fn', {}) /\ Extends(fn, fn', {b})
    BY <1>8, SameExtends DEF Put
  <2>2. QED
    BY <1>7, <1>8, <2>1, ExtendsAll
<1>10. Owes(Top, R) = {} /\ "finish" \in SourceLabels /\ T = <<Item0("finish", n)>> \o R
  BY <1>2 DEF Owes, Items, SourceLabels
<1>11. Does(inst, S2, T, next)
  <2> HIDE DEF T, R
  <2>1. Performs(inst, S2, "finish", n, R, next)
    BY <1>2 DEF Performs
  <2>2. R \in Todos /\ n \in Node /\ "finish" \in ItemLabels /\ T = <<Item0("finish", n)>> \o R
    BY <1>3, <1>6, <1>10 DEF ItemLabels
  <2>3. QED
    BY <2>1, <2>2, DoesItem
<1> HIDE DEF r2, S2, k, b
<1>12. Fits(fn', frames', r2, S2, T, <<b, k>>)
  <2>1. next = <<b, k + 1>>
    OBVIOUS
  <2> HIDE DEF next, T, inst
  <2>2. QED
    BY <1>8, <1>9, <1>11, <2>1, PutFits
<1>13. Fulfilled(r, r2, {}, S2)
  BY <1>10, <1>12 DEF Fulfilled, b, k
<1>14. S2 = S \cup {} /\ {} \subseteq Meanings \X Place
  BY DEF S2
<1>15. QED
  BY <1>1, <1>6, <1>9, <1>13, <1>14, Filled

(* Three new blocks, all empty. *)
LEMMA ThreeMade ==
  ASSUME NEW f \in AnyFn, NEW h, h = Three(f), NEW n, n = Len(f.blocks)
  PROVE  /\ h \in AnyFn /\ n \in Nat /\ Len(h.blocks) = n + 3 /\ h.current = f.current
         /\ Extends(f, h, {}) /\ \A b \in 1 .. n : h.blocks[b] = f.blocks[b]
         /\ \A b \in n + 1 .. n + 3 : h.blocks[b] = <<>>
<1> DEFINE f1 == CreateBlock(f)
           f2 == CreateBlock(f1)
<1>1. /\ f1 \in AnyFn /\ n \in Nat /\ Len(f1.blocks) = n + 1 /\ f1.current = f.current
      /\ Extends(f, f1, {}) /\ f1.blocks[n + 1] = <<>>
      /\ \A b \in 1 .. n : f1.blocks[b] = f.blocks[b]
  BY Created
<1>2. h = CreateBlock(f2)
  BY DEF Three
<1> HIDE DEF f1
<1>3. /\ f2 \in AnyFn /\ Len(f2.blocks) = n + 2 /\ f2.current = f.current
      /\ Extends(f1, f2, {}) /\ f2.blocks[n + 2] = <<>>
      /\ \A b \in 1 .. n + 1 : f2.blocks[b] = f1.blocks[b]
  <2>1. /\ f2 \in AnyFn /\ Len(f2.blocks) = Len(f1.blocks) + 1 /\ f2.current = f1.current
        /\ Extends(f1, f2, {}) /\ f2.blocks[Len(f1.blocks) + 1] = <<>>
        /\ \A b \in 1 .. Len(f1.blocks) : f2.blocks[b] = f1.blocks[b]
    BY <1>1, Created
  <2>2. Len(f1.blocks) + 1 = n + 2
    BY <1>1
  <2>3. QED
    BY <1>1, <2>1, <2>2
<1> HIDE DEF f2
<1>4. /\ h \in AnyFn /\ Len(h.blocks) = n + 3 /\ h.current = f.current
      /\ Extends(f2, h, {}) /\ h.blocks[n + 3] = <<>>
      /\ \A b \in 1 .. n + 2 : h.blocks[b] = f2.blocks[b]
  <2>1. /\ h \in AnyFn /\ Len(h.blocks) = Len(f2.blocks) + 1 /\ h.current = f2.current
        /\ Extends(f2, h, {}) /\ h.blocks[Len(f2.blocks) + 1] = <<>>
        /\ \A b \in 1 .. Len(f2.blocks) : h.blocks[b] = f2.blocks[b]
    BY <1>2, <1>3, Created
  <2>2. Len(f2.blocks) + 1 = n + 3
    BY <1>1, <1>3
  <2>3. QED
    BY <1>3, <2>1, <2>2
<1>5. Extends(f, f2, {})
  BY <1>1, <1>3, ExtendsAll
<1>6. Extends(f, h, {})
  BY <1>3, <1>4, <1>5, ExtendsAll
<1>7. \A b \in 1 .. n : h.blocks[b] = f.blocks[b]
  <2>1. \A b \in 1 .. n : b \in 1 .. n + 1 /\ b \in 1 .. n + 2
    BY <1>1
  <2>2. QED
    BY <1>1, <1>3, <1>4, <2>1
<1>8. \A b \in n + 1 .. n + 3 : h.blocks[b] = <<>>
  <2>1. /\ n + 1 \in 1 .. n + 1 /\ n + 1 \in 1 .. n + 2 /\ n + 2 \in 1 .. n + 2
        /\ \A b \in n + 1 .. n + 3 : b \in {n + 1, n + 2, n + 3}
    BY <1>1
  <2>2. h.blocks[n + 1] = <<>> /\ h.blocks[n + 2] = <<>> /\ h.blocks[n + 3] = <<>>
    BY <1>1, <1>3, <1>4, <2>1
  <2>3. QED
    BY <2>1, <2>2
<1>9. QED
  BY <1>1, <1>4, <1>6, <1>7, <1>8

(* One item in front of what a source has to do. *)
LEMMA ItemTodo ==
  ASSUME NEW l \in SourceLabels, NEW n \in Node, NEW R \in Todos
  PROVE  <<Item0(l, n)>> \o R \in Todos /\ <<Item0(l, n)>> \o R \in Meanings
<1>1. Item0(l, n) \in SourceItem
  BY SourceItems
<1>2. <<Item0(l, n)>> \o R \in Todos
  BY <1>1, Pushed DEF Todos
<1>3. QED
  BY <1>2, TodosAreMeanings

LEMMA StartOrCode == Inv /\ Inv' /\ CodeInv /\ StartOr => CodeInv'
<1> SUFFICES ASSUME Inv, Inv', CodeInv, StartOr PROVE CodeInv'
  OBVIOUS
<1> DEFINE n == Top.node
           m == Len(fn.blocks)
           a == Exp(Kids(n)[1])
           e == Frame("lhs", n, <<m + 1>>)
<1>1. LoweringInv /\ LoweringInv'
  BY DEF Inv
<1>2. /\ frames # <<>> /\ Top.at = "exp" /\ Kind(n) = "or" /\ fn' = Three(fn)
      /\ frames' = <<a, e>> \o Tail(frames) /\ UNCHANGED program
  BY DEF StartOr, AtExp, At, GoOn, Three, Newest
<1>3. n \in Node /\ fn.current # NoBlock /\ IsAst(program)
  BY <1>1, <1>2, TopFacts DEF FrameRecord, Filling, InExpression, ExpLabels
<1>4. PICK S, r : Code(fn, frames, r, S)
  BY DEF CodeInv
<1> DEFINE R == r[1]
           b == fn.current
           k == Len(fn.blocks[b]) + 1
           L == <<Item0("lhs", n)>> \o R
           U == <<a>> \o L
           N == {<<U, <<b, k>>>>}
           S2 == S \cup N
           calls == <<a, e>>
           c == <<Items(e) \o R, R>>
           r2 == c \o Tail(r)
<1>5. fn \in AnyFn /\ b \in 1 .. Len(fn.blocks) /\ b \in Nat /\ k \in Nat
  BY <1>1, <1>3, Here
<1>6. /\ fn' \in AnyFn /\ m \in Nat /\ Len(fn'.blocks) = m + 3 /\ fn'.current = b
      /\ Extends(fn, fn', {}) /\ \A x \in 1 .. m : fn'.blocks[x] = fn.blocks[x]
      /\ \A x \in m + 1 .. m + 3 : fn'.blocks[x] = <<>>
  BY <1>2, <1>5, ThreeMade, SMTT(30)
<1>7. Extends(fn, fn', Mine)
  <2>1. Extends(fn', fn', {})
    BY <1>6, SameExtends
  <2>2. QED
    BY <1>5, <1>6, <2>1, ExtendsAll
<1>8. a \in FrameRecord /\ a.at = "exp" /\ a = Item0("exp", Kids(n)[1]) /\ Kids(n)[1] \in Node
  <2>1. Kids(n)[1] \in Node
    BY <1>2, <1>3, BranchingKids
  <2>2. QED
    BY <2>1 DEF Exp, Item0, Frame, FrameRecord, Labels
<1>9. FrameOK(e, m + 3) /\ e.at = "lhs" /\ e.node = n /\ e.refs[1] = m + 1 /\ Owned(e) = m + 1 .. m + 3
  <2>1. m + 1 \in 2 .. m + 3 /\ m + 1 + 2 <= m + 3 /\ m + 1 + 2 = m + 3 /\ m + 3 \in Nat
    BY <1>5, <1>6
  <2>2. FrameOK(e, m + 3) /\ e.at = "lhs" /\ Owned(e) = m + 1 .. m + 1 + 2
    BY <1>2, <1>3, <2>1, LhsFrame
  <2>3. e.node = n /\ e.refs[1] = m + 1
    BY DEF Frame
  <2>4. QED
    BY <2>1, <2>2, <2>3
<1> HIDE DEF a, e
<1>10. Items(a) = <<a>> /\ Items(e) = <<Item0("lhs", n)>>
  BY <1>8, <1>9 DEF Items, SourceLabels, Item0, Frame
<1>11. r2 = c \o Tail(r) /\ calls = <<a, e>> /\ c = <<Items(e) \o r[1], r[1]>> /\ S2 = S \cup N
       /\ <<U, <<b, k>>>> \in S2
  OBVIOUS
<1> HIDE DEF r2, c, calls, S2
<1>12. /\ Steps(r, S, calls, c, r2) /\ Latest(calls, c, R) = U
       /\ R \in Todos
  <2>1. Bare(a) /\ frames # <<>> /\ frames' = <<a, e>> \o Tail(frames)
        /\ UNCHANGED program
    BY <1>2, <1>8 DEF Bare
  <2>0. r2 = c \o Tail(r) /\ calls = <<a, e>> /\ c = <<Items(e) \o r[1], r[1]>>
    BY <1>11
  <2>2. /\ Steps(r, S, calls, c, r2) /\ Latest(calls, c, R) = Items(a) \o (Items(e) \o R)
        /\ R \in Todos
    BY <1>1, <1>4, <2>0, <2>1, StepsTwo
  <2>3. QED
    BY <1>10, <2>2
<1>13. CallsReady(calls, c, S2)
  <2>1. LastReady(e, R, S2)
    BY <1>6, <1>9 DEF LastReady, LoopFrames
  <2>2. Bare(a)
    BY <1>8 DEF Bare
  <2>3. QED
    BY <1>11, <2>1, <2>2, ReadyTwo
<1>14. L \in Todos /\ U \in Todos /\ U \in Meanings
  <2>1. "lhs" \in SourceLabels /\ "exp" \in SourceLabels
    BY DEF SourceLabels
  <2>2. L \in Todos
    BY <1>3, <1>12, <2>1, ItemTodo
  <2> HIDE DEF L
  <2>3. QED
    BY <1>8, <2>1, <2>2, ItemTodo
<1>15. N \subseteq Meanings \X Place
  <2>1. <<b, k>> \in Place
    BY <1>5, PlaceOf
  <2> HIDE DEF U
  <2>2. QED
    BY <1>14, <2>1
<1>16. Quiet(Items(Top) \o R, U) /\ Owes(Top, R) = {}
  <2>1. Items(Top) = <<Item0("exp", n)>> /\ Owes(Top, R) = {}
    BY <1>2 DEF Items, Owes, SourceLabels
  <2>2. "exp" \in SourceLabels /\ "lhs" \in SourceLabels
    BY DEF SourceLabels
  <2>3. Advances("exp", n, R, <<a, Item0("lhs", n)>> \o R)
    BY <1>2 DEF Advances, a
  <2>4. <<a, Item0("lhs", n)>> \o R = U
    <3>1. a \in SourceItem /\ Item0("lhs", n) \in SourceItem
      BY <1>3, <1>8, <2>2, SourceItems
    <3>2. QED
      BY <1>12, <3>1, TwoItems
  <2> HIDE DEF U, R
  <2>5. Advances("exp", n, R, U)
    BY <2>3, <2>4
  <2>6. QED
    BY <1>3, <1>12, <2>1, <2>2, <2>5, QuietItem
<1> HIDE DEF U
<1>17. Fits(fn', frames', r2, S2, U, <<b, k>>)
  <2>1. fn'.current # NoBlock /\ b = fn'.current /\ k = Len(fn'.blocks[b]) + 1
    BY <1>3, <1>5, <1>6
  <2> HIDE DEF b, k
  <2>2. QED
    BY <1>1, <1>12, <2>1, NowFits
<1>18. Fulfilled(r, r2, N, S2)
  <2>1. Fits(fn', frames', r2, S2, Items(Top) \o R, <<b, k>>)
    BY <1>11, <1>16, QuietFits
  <2>2. \A x \in N : x[1] = U /\ x[2] = <<b, k>>
    OBVIOUS
  <2>3. \A x \in N : Fits(fn', frames', r2, S2, x[1], x[2])
    BY <1>17, <2>2
  <2>4. QED
    BY <1>16, <2>1, <2>3 DEF Fulfilled
<1> HIDE DEF N
<1>19. QED
  BY <1>1, <1>7, <1>11, <1>12, <1>13, <1>15, <1>18, Filled

LEMMA CreateAndBlocksCode == Inv /\ Inv' /\ CodeInv /\ CreateAndBlocks => CodeInv'
<1> SUFFICES ASSUME Inv, Inv', CodeInv, CreateAndBlocks PROVE CodeInv'
  OBVIOUS
<1> DEFINE n == Top.node
           m == Len(fn.blocks)
           e == Frame("lhs", n, <<m + 1>>)
<1>1. LoweringInv /\ LoweringInv'
  BY DEF Inv
<1>2. /\ frames # <<>> /\ Top.at = "create" /\ fn' = Three(fn)
      /\ frames' = <<e>> \o Tail(frames) /\ UNCHANGED program
  BY DEF CreateAndBlocks, At, GoOn, Three, Newest
<1>3. n \in Node /\ fn.current # NoBlock /\ IsAst(program) /\ Kind(n) = "and"
  BY <1>1, <1>2, TopFacts DEF FrameRecord, Filling, InExpression, ExpLabels, FrameOK
<1>4. PICK S, r : Code(fn, frames, r, S)
  BY DEF CodeInv
<1> DEFINE R == r[1]
           b == fn.current
           k == Len(fn.blocks[b]) + 1
           U == <<Item0("lhs", n)>> \o R
           S2 == S \cup {}
           calls == <<e>>
           c == <<R>>
           r2 == c \o Tail(r)
<1>5. fn \in AnyFn /\ b \in 1 .. Len(fn.blocks) /\ b \in Nat /\ k \in Nat
  BY <1>1, <1>3, Here
<1>6. /\ fn' \in AnyFn /\ m \in Nat /\ Len(fn'.blocks) = m + 3 /\ fn'.current = b
      /\ Extends(fn, fn', {}) /\ \A x \in 1 .. m : fn'.blocks[x] = fn.blocks[x]
      /\ \A x \in m + 1 .. m + 3 : fn'.blocks[x] = <<>>
  <2>1. fn \in AnyFn /\ fn' = Three(fn) /\ m = Len(fn.blocks) /\ b = fn.current
    BY <1>2, <1>5
  <2> HIDE DEF m, b
  <2>2. QED
    BY <2>1, ThreeMade
<1>7. Extends(fn, fn', Mine)
  <2>1. Extends(fn', fn', {})
    BY <1>6, SameExtends
  <2>2. QED
    BY <1>5, <1>6, <2>1, ExtendsAll
<1>8. e \in FrameRecord /\ e.at = "lhs" /\ e.node = n /\ Owned(e) = m + 1 .. m + 3
  <2>1. m + 1 \in 2 .. m + 3 /\ m + 1 + 2 <= m + 3 /\ m + 1 + 2 = m + 3 /\ m + 3 \in Nat
    BY <1>5, <1>6
  <2>2. e \in FrameRecord /\ e.at = "lhs" /\ Owned(e) = m + 1 .. m + 1 + 2
    BY <1>3, <2>1, LhsFrame
  <2>3. e.node = n
    BY DEF Frame
  <2>4. QED
    BY <2>1, <2>2, <2>3
<1> HIDE DEF e
<1>9. Items(e) = <<Item0("lhs", n)>> /\ Items(Top) = <<Item0("lhs", n)>> /\ Owes(Top, R) = {}
  BY <1>2, <1>8 DEF Items, Owes, SourceLabels
<1>10. r2 = c \o Tail(r) /\ calls = <<e>> /\ c = <<r[1]>> /\ S2 = S \cup {}
  OBVIOUS
<1> HIDE DEF r2, c, calls, S2
<1>11. Steps(r, S, calls, c, r2) /\ Latest(calls, c, R) = U
  <2>1. e \in FrameRecord /\ frames # <<>> /\ frames' = <<e>> \o Tail(frames) /\ UNCHANGED program
    BY <1>2, <1>8
  <2>2. Steps(r, S, calls, c, r2) /\ Latest(calls, c, R) = Items(e) \o R
    BY <1>1, <1>4, <1>10, <2>1, StepsOne
  <2>3. QED
    BY <1>9, <2>2
<1>12. CallsReady(calls, c, S2)
  <2>1. LastReady(e, R, S2)
    BY <1>6, <1>8 DEF LastReady, LoopFrames
  <2>2. QED
    BY <1>10, <2>1, ReadyOne
<1>13. Fits(fn', frames', r2, S2, U, <<b, k>>)
  <2>1. fn'.current # NoBlock /\ b = fn'.current /\ k = Len(fn'.blocks[b]) + 1
    BY <1>3, <1>5, <1>6
  <2> HIDE DEF b, k, U
  <2>2. QED
    BY <1>1, <1>11, <2>1, NowFits
<1>14. Fulfilled(r, r2, {}, S2)
  BY <1>9, <1>13 DEF Fulfilled
<1>15. {} \subseteq Meanings \X Place
  OBVIOUS
<1>16. QED
  BY <1>1, <1>7, <1>10, <1>11, <1>12, <1>14, <1>15, Filled

LEMMA EndLhsCode == Inv /\ Inv' /\ CodeInv /\ EndLhs => CodeInv'
<1> SUFFICES ASSUME Inv, Inv', CodeInv, EndLhs PROVE CodeInv'
  OBVIOUS
<1> DEFINE n == Top.node
           m == Len(fn.blocks)
           b == fn.current
           k == Len(fn.blocks[b]) + 1
           short == Top.refs[1]
           rhs == short + 1
           merge == short + 2
           branch == ShortCircuitBranch(n, short, rhs)
           set == Do("shortcut", n)
           jump == Jump(merge)
           f1 == Terminate(fn, branch)
           f2 == SetCurrent(f1, short)
           f3 == Emit(f2, set)
           f4 == Terminate(f3, jump)
           f5 == SetCurrent(f4, rhs)
           a == Exp(Kids(n)[2])
           e == Frame("rhs", n, <<merge>>)
<1>1. LoweringInv /\ LoweringInv'
  BY DEF Inv
<1>2. /\ frames # <<>> /\ Top.at = "lhs" /\ b # NoBlock /\ fn' = f5
      /\ frames' = <<a, e>> \o Tail(frames) /\ UNCHANGED program
  BY DEF EndLhs, At, GoOn
<1>3. n \in Node /\ IsAst(program) /\ Kind(n) \in {"or", "and"} /\ FrameOK(Top, m)
      /\ Owned(Top) \subseteq Opens(fn) \ Current
  BY <1>1, <1>2, TopFacts DEF FrameRecord, FrameOK
<1>4. PICK S, r : Code(fn, frames, r, S)
  BY DEF CodeInv
<1>5. fn \in AnyFn /\ b \in 1 .. m /\ b \in Nat /\ k \in Nat \ {0} /\ m \in Nat /\ b \in Mine
  BY <1>1, <1>2, Here
<1>6. /\ short \in 2 .. m /\ short + 2 <= m /\ short \in Nat
      /\ Owned(Top) = short .. short + 2
  BY <1>2, <1>3, <1>5 DEF FrameOK, Owned
<1>7. /\ rhs \in Nat /\ merge \in Nat /\ rhs \in 1 .. m /\ merge \in 1 .. m /\ short \in 1 .. m
      /\ short # rhs /\ short # merge /\ rhs # merge
      /\ short \in Owned(Top) /\ rhs \in Owned(Top) /\ merge \in Owned(Top)
  BY <1>5, <1>6
<1>8. /\ b \notin Owned(Top)
      /\ fn.blocks[short] = <<>> /\ fn.blocks[rhs] = <<>> /\ fn.blocks[merge] = <<>>
  BY <1>2, <1>3, <1>4, <1>7 DEF Current, Code
<1> HIDE DEF short, rhs, merge
<1>9. branch \in AnyInstruction /\ set \in AnyInstruction /\ jump \in AnyInstruction
      /\ jump.op = "jump" /\ jump.to[1] = merge
  <2>1. branch \in AnyInstruction
    BY <1>3, <1>6, <1>7, ShortCircuitFacts
  <2>2. QED
    BY <1>3, <1>7, <2>1, Instructions DEF Ops
<1>10. branch = ShortCircuitBranch(n, short, rhs) /\ set = Do("shortcut", n)
  OBVIOUS
<1> HIDE DEF branch, set, jump
<1>11. Put(fn, f1, b, k, branch) /\ f1 \in AnyFn
  BY <1>5, <1>9, Terminated
<1> HIDE DEF f1
<1>12. f2 \in AnyFn /\ f2.blocks = f1.blocks /\ f2.current = short /\ Extends(f1, f2, {})
  BY <1>6, <1>11, Moved
<1>13. Len(f2.blocks) = m /\ \A x \in 1 .. m : x # b => f2.blocks[x] = fn.blocks[x]
  BY <1>11, <1>12 DEF Put
<1> HIDE DEF f2
<1>14. Put(f2, f3, short, 1, set) /\ f3.current = short /\ f3 \in AnyFn
  <2>1. f2.blocks[short] = <<>>
    BY <1>7, <1>8, <1>13
  <2>2. 1 = Len(f2.blocks[short]) + 1
    BY <2>1, EmptySeq
  <2>3. short = f2.current /\ short \in 1 .. Len(f2.blocks)
    BY <1>7, <1>12, <1>13
  <2>4. QED
    BY <1>9, <1>12, <2>2, <2>3, Emitted
<1> HIDE DEF f3
<1>15. Put(f3, f4, short, 2, jump) /\ f4 \in AnyFn
  <2>1. Len(f3.blocks[short]) = 1 /\ short \in 1 .. Len(f3.blocks)
    BY <1>14 DEF Put
  <2>2. 2 = Len(f3.blocks[short]) + 1
    BY <2>1
  <2>3. QED
    BY <1>9, <1>14, <2>1, <2>2, Terminated
<1> HIDE DEF f4
<1>16. f5 \in AnyFn /\ f5.blocks = f4.blocks /\ f5.current = rhs /\ Extends(f4, f5, {})
  BY <1>7, <1>15, Moved
<1> HIDE DEF f5
<1>17. /\ Extends(f4, fn', {}) /\ Extends(f3, fn', {short}) /\ Extends(f2, fn', {short})
       /\ Extends(f1, fn', {short}) /\ Extends(fn, fn', Mine) /\ fn' \in AnyFn
  <2>1. Extends(f4, fn', {}) /\ fn' \in AnyFn
    BY <1>2, <1>16
  <2>2. Extends(f3, f4, {short}) /\ Extends(f2, f3, {short}) /\ Extends(fn, f1, {b})
    BY <1>11, <1>14, <1>15 DEF Put
  <2>3. Extends(f3, fn', {short})
    BY <1>14, <1>15, <2>1, <2>2, ExtendsAll
  <2>4. Extends(f2, fn', {short})
    BY <1>12, <1>14, <2>1, <2>2, <2>3, ExtendsAll
  <2>5. Extends(f1, fn', {short})
    BY <1>11, <1>12, <2>1, <2>4, ExtendsAll
  <2>6. \A x \in 1 .. Len(fn.blocks) : x \in {b} \cup {short} => x \in Mine
    BY <1>5, <1>7 DEF Mine
  <2>7. Extends(fn, fn', Mine)
    BY <1>5, <1>11, <2>1, <2>2, <2>5, <2>6, ExtendsAll
  <2>8. QED
    BY <2>1, <2>3, <2>4, <2>5, <2>7
<1>18. fn'.current = rhs /\ fn'.blocks[rhs] = <<>> /\ fn'.blocks[merge] = <<>>
  <2>1. \A x \in 1 .. m : x # short => fn'.blocks[x] = f2.blocks[x]
    BY <1>2, <1>13, <1>14, <1>15, <1>16 DEF Put
  <2>2. QED
    BY <1>2, <1>7, <1>8, <1>13, <1>16, <2>1
<1> DEFINE R == r[1]
           A == <<Item0("short", n)>> \o R
           B == <<a>> \o (<<Item0("rhs", n)>> \o R)
           D == Loading(n, R)
           N == {<<A, <<short, 1>>>>, <<D, <<short, 2>>>>, <<B, <<rhs, 1>>>>, <<D, <<merge, 1>>>>}
           S2 == S \cup N
           calls == <<a, e>>
           c == <<Items(e) \o R, R>>
           r2 == c \o Tail(r)
<1>19. a = Item0("exp", Kids(n)[2]) /\ Kids(n)[2] \in Node /\ Bare(a)
  <2>1. Kids(n)[2] \in Node
    BY <1>3, BranchingKids
  <2>2. QED
    BY <2>1 DEF Exp, Item0, Frame, Bare
<1>20. e.at = "rhs" /\ e.node = n /\ e.refs[1] = merge /\ Owned(e) = {merge}
  BY DEF Frame, Owned
<1> HIDE DEF e
<1>21. Items(a) = <<a>> /\ Items(e) = <<Item0("rhs", n)>> /\ Owes(e, R) = {<<merge, D>>}
  BY <1>19, <1>20 DEF Items, Owes, SourceLabels, Item0, Frame
<1> HIDE DEF a
<1>22. r2 = c \o Tail(r) /\ calls = <<a, e>> /\ c = <<Items(e) \o r[1], r[1]>>
  OBVIOUS
<1>23. /\ S2 = S \cup N /\ <<A, <<short, 1>>>> \in S2 /\ <<D, <<short, 2>>>> \in S2
       /\ <<B, <<rhs, 1>>>> \in S2 /\ <<D, <<merge, 1>>>> \in S2
  OBVIOUS
<1> HIDE DEF r2, c, calls, S2
<1>24. /\ Steps(r, S, calls, c, r2) /\ Latest(calls, c, R) = B
       /\ R \in Todos
  <2>1. frames # <<>> /\ frames' = <<a, e>> \o Tail(frames) /\ UNCHANGED program
    BY <1>2
  <2>2. /\ Steps(r, S, calls, c, r2) /\ Latest(calls, c, R) = Items(a) \o (Items(e) \o R)
        /\ R \in Todos
    BY <1>1, <1>4, <1>19, <1>22, <2>1, StepsTwo
  <2>3. QED
    BY <1>21, <2>2
<1>25. /\ CallsReady(calls, c, S2) /\ 2 \in 1 .. Len(calls) /\ calls[2] = e /\ c[2] = R
  <2>1. LastReady(e, R, S2)
    BY <1>18, <1>20 DEF LastReady, LoopFrames
  <2>2. QED
    BY <1>19, <1>22, <2>1, ReadyTwo
<1>26. A \in Meanings /\ B \in Meanings /\ D \in Meanings
  <2>1. /\ Item0("short", n) \in AnyItem /\ Item0("load", n) \in AnyItem
        /\ "rhs" \in SourceLabels /\ "exp" \in SourceLabels
    BY <1>3, SourceItems DEF ItemLabels, SourceLabels
  <2>2. A \in Meanings /\ D \in Meanings
    BY <1>24, <2>1, TodosAreMeanings DEF Loading
  <2>3. <<Item0("rhs", n)>> \o R \in Todos
    BY <1>3, <1>24, <2>1, ItemTodo
  <2>4. B \in Meanings
    BY <1>19, <2>1, <2>3, ItemTodo
  <2>5. QED
    BY <2>2, <2>4
<1>27. <<a, Item0("rhs", n)>> \o R = B
  <2>1. "rhs" \in SourceLabels /\ "exp" \in SourceLabels
    BY DEF SourceLabels
  <2>2. a \in SourceItem /\ Item0("rhs", n) \in SourceItem
    BY <1>3, <1>19, <2>1, SourceItems
  <2>3. QED
    BY <1>24, <2>2, TwoItems
<1> DEFINE T == Items(Top) \o R
<1>28. T = <<Item0("lhs", n)>> \o R
  BY <1>2 DEF Items, SourceLabels
<1>29. Owes(Top, R) = {<<short, A>>, <<rhs, B>>, <<merge, D>>}
  BY <1>2, <1>27 DEF Owes, a, short, rhs, merge
<1> HIDE DEF A, B, D, T
<1>30. N \subseteq Meanings \X Place
  <2>1. <<short, 1>> \in Place /\ <<short, 2>> \in Place /\ <<rhs, 1>> \in Place /\ <<merge, 1>> \in Place
    BY <1>6, <1>7, PlaceOf
  <2>2. QED
    BY <1>26, <2>1
<1>31. Fits(fn', frames', r2, S2, A, <<short, 1>>)
  <2>1. Performs(set, S2, "short", n, R, <<short, 2>>)
    BY <1>3, <1>10, <1>23 DEF Performs, D
  <2>2. "short" \in ItemLabels /\ A = <<Item0("short", n)>> \o R
    BY DEF ItemLabels, A
  <2>3. Does(set, S2, A, <<short, 2>>)
    BY <1>3, <1>24, <2>1, <2>2, DoesItem
  <2>4. <<short, 2>> = <<short, 1 + 1>>
    OBVIOUS
  <2>5. QED
    BY <1>14, <1>17, <2>3, <2>4, PutFits
<1>32. Fits(fn', frames', r2, S2, D, <<short, 2>>)
  <2>1. Does(jump, S2, D, <<short, 2 + 1>>)
    BY <1>9, <1>23 DEF Does
  <2>2. QED
    BY <1>15, <1>17, <2>1, PutFits
<1>33. Fits(fn', frames', r2, S2, B, <<rhs, 1>>)
  <2>1. fn'.current # NoBlock /\ rhs = fn'.current /\ 1 = Len(fn'.blocks[rhs]) + 1
    BY <1>7, <1>18, EmptySeq DEF NoBlock
  <2>2. QED
    BY <1>1, <1>24, <2>1, NowFits
<1>34. Fits(fn', frames', r2, S2, D, <<merge, 1>>)
  <2>1. merge \in Owned(calls[2]) /\ <<merge, D>> \in Owes(calls[2], c[2])
    BY <1>20, <1>21, <1>25
  <2>2. QED
    BY <1>1, <1>18, <1>24, <1>25, <2>1, OwedFits
<1>35. Fits(fn', frames', r2, S2, T, <<b, k>>)
  <2>1. Performs(branch, S2, "lhs", n, R, <<b, k + 1>>)
    <3>1. <<<<Item0("short", n)>> \o R, <<short, 1>>>> \in S2
      BY <1>23 DEF A
    <3>2. <<<<Exp(Kids(n)[2]), Item0("rhs", n)>> \o R, <<rhs, 1>>>> \in S2
      BY <1>23, <1>27 DEF a
    <3>3. QED
      BY <1>3, <1>10, <3>1, <3>2 DEF Performs
  <2>2. "lhs" \in ItemLabels
    BY DEF ItemLabels, SourceLabels
  <2>3. Does(branch, S2, T, <<b, k + 1>>)
    BY <1>3, <1>24, <1>28, <2>1, <2>2, DoesItem
  <2>4. QED
    BY <1>11, <1>17, <2>3, PutFits
<1>36. Fulfilled(r, r2, N, S2)
  <2>1. \A x \in N : \/ x[1] = A /\ x[2] = <<short, 1>>
                     \/ x[1] = D /\ x[2] = <<short, 2>>
                     \/ x[1] = B /\ x[2] = <<rhs, 1>>
                     \/ x[1] = D /\ x[2] = <<merge, 1>>
    OBVIOUS
  <2>2. \A x \in N : Fits(fn', frames', r2, S2, x[1], x[2])
    BY <1>31, <1>32, <1>33, <1>34, <2>1
  <2>3. \A y \in Owes(Top, r[1]) : Fits(fn', frames', r2, S2, y[2], <<y[1], 1>>)
    BY <1>29, <1>31, <1>33, <1>34
  <2>4. QED
    BY <1>35, <2>2, <2>3 DEF Fulfilled, T
<1> HIDE DEF N
<1>37. QED
  BY <1>1, <1>17, <1>23, <1>24, <1>25, <1>30, <1>36, Filled

LEMMA EndRhsCode == Inv /\ Inv' /\ CodeInv /\ EndRhs => CodeInv'
<1> SUFFICES ASSUME Inv, Inv', CodeInv, EndRhs PROVE CodeInv'
  OBVIOUS
<1> DEFINE n == Top.node
           m == Len(fn.blocks)
           b == fn.current
           k == Len(fn.blocks[b]) + 1
           merge == Top.refs[1]
           store == Do("store", n)
           jump == Jump(merge)
           load == Do("load", n)
           f1 == Emit(fn, store)
           f2 == Terminate(f1, jump)
           f3 == SetCurrent(f2, merge)
           f4 == Emit(f3, load)
<1>1. LoweringInv /\ LoweringInv'
  BY DEF Inv
<1>2. /\ frames # <<>> /\ Top.at = "rhs" /\ b # NoBlock /\ fn' = f4
      /\ frames' = Tail(frames) /\ UNCHANGED program
  BY DEF EndRhs, At, Return
<1>3. n \in Node /\ IsAst(program) /\ Kind(n) \in {"or", "and"} /\ FrameOK(Top, m)
      /\ Owned(Top) \subseteq Opens(fn) \ Current
  BY <1>1, <1>2, TopFacts DEF FrameRecord, FrameOK
<1>4. PICK S, r : Code(fn, frames, r, S)
  BY DEF CodeInv
<1>5. fn \in AnyFn /\ b \in 1 .. m /\ b \in Nat /\ k \in Nat \ {0} /\ m \in Nat /\ b \in Mine
  BY <1>1, <1>2, Here
<1>6. merge \in 2 .. m /\ merge \in 1 .. m /\ merge \in Nat /\ merge # NoBlock /\ Owned(Top) = {merge}
  BY <1>2, <1>3, <1>5 DEF FrameOK, Owned, NoBlock
<1>7. b # merge /\ fn.blocks[merge] = <<>> /\ merge \in Mine
  BY <1>2, <1>3, <1>4, <1>6 DEF Current, Code, Mine
<1> HIDE DEF merge
<1>8. /\ store \in AnyInstruction /\ load \in AnyInstruction /\ jump \in AnyInstruction
      /\ jump.op = "jump" /\ jump.to[1] = merge
  BY <1>3, <1>6, Instructions DEF Ops
<1>9. store = Do("store", n) /\ load = Do("load", n)
  OBVIOUS
<1> HIDE DEF store, load, jump
<1>10. Put(fn, f1, b, k, store) /\ f1.current = b /\ f1 \in AnyFn
  BY <1>5, <1>8, Emitted
<1> HIDE DEF f1
<1>11. Put(f1, f2, b, k + 1, jump) /\ f2 \in AnyFn
  <2>1. Len(f1.blocks[b]) = k /\ b \in 1 .. Len(f1.blocks)
    BY <1>10 DEF Put
  <2>2. k + 1 = Len(f1.blocks[b]) + 1
    BY <2>1
  <2>3. QED
    BY <1>8, <1>10, <2>1, <2>2, Terminated
<1> HIDE DEF f2
<1>12. f3 \in AnyFn /\ f3.blocks = f2.blocks /\ f3.current = merge /\ Extends(f2, f3, {})
  BY <1>6, <1>11, Moved
<1>13. Len(f3.blocks) = m /\ f3.blocks[merge] = <<>>
  BY <1>6, <1>7, <1>10, <1>11, <1>12 DEF Put
<1> HIDE DEF f3
<1>14. Put(f3, f4, merge, 1, load) /\ f4.current = merge /\ f4 \in AnyFn
  <2>1. 1 = Len(f3.blocks[merge]) + 1
    BY <1>13, EmptySeq
  <2>2. merge = f3.current /\ merge \in 1 .. Len(f3.blocks)
    BY <1>6, <1>12, <1>13
  <2>3. QED
    BY <1>8, <1>12, <2>1, <2>2, Emitted
<1> HIDE DEF f4
<1>15. /\ Extends(f4, fn', {}) /\ Extends(f2, fn', {merge}) /\ Extends(f1, fn', {b, merge})
       /\ Extends(fn, fn', Mine) /\ fn' \in AnyFn
  <2>1. Extends(f4, fn', {}) /\ fn' \in AnyFn
    BY <1>2, <1>14, SameExtends
  <2>2. Extends(f3, fn', {merge}) /\ Extends(f1, f2, {b}) /\ Extends(fn, f1, {b})
    BY <1>2, <1>10, <1>11, <1>14 DEF Put
  <2>3. Extends(f2, fn', {merge})
    BY <1>11, <1>12, <2>1, <2>2, ExtendsAll
  <2>4. \A x : x \in {b} \cup {merge} => x \in {b, merge}
    OBVIOUS
  <2>5. Extends(f1, fn', {b, merge})
    BY <1>10, <1>11, <2>1, <2>2, <2>3, <2>4, ExtendsAll
  <2>6. \A x : x \in {b} \cup {b, merge} => x \in Mine
    BY <1>5, <1>7
  <2>7. Extends(fn, fn', Mine)
    BY <1>5, <1>10, <2>1, <2>2, <2>5, <2>6, ExtendsAll
  <2>8. QED
    BY <2>1, <2>3, <2>5, <2>7
<1>16. fn'.current = merge /\ Len(fn'.blocks[merge]) = 1
  BY <1>2, <1>14 DEF Put
<1> DEFINE R == r[1]
           D == Loading(n, R)
           N == {<<D, <<b, k + 1>>>>, <<D, <<merge, 1>>>>, <<R, <<merge, 2>>>>}
           S2 == S \cup N
           r2 == <<>> \o Tail(r)
           T == Items(Top) \o R
<1>17. /\ Steps(r, S, <<>>, <<>>, r2) /\ Latest(<<>>, <<>>, R) = R /\ R \in Todos
       /\ CallsReady(<<>>, <<>>, S2)
  BY <1>1, <1>2, <1>4, StepsNone
<1>18. /\ S2 = S \cup N /\ <<D, <<b, k + 1>>>> \in S2 /\ <<D, <<merge, 1>>>> \in S2
       /\ <<R, <<merge, 2>>>> \in S2
  OBVIOUS
<1> HIDE DEF S2, r2
<1>19. R \in Meanings /\ D \in Meanings
  <2>1. Item0("load", n) \in AnyItem
    BY <1>3, SourceItems DEF ItemLabels
  <2>2. QED
    BY <1>17, <2>1, TodosAreMeanings DEF Loading
<1>20. T = <<Item0("rhs", n)>> \o R /\ Owes(Top, R) = {<<merge, D>>}
  BY <1>2 DEF Items, Owes, SourceLabels, merge
<1>21. D = <<Item0("load", n)>> \o R
  BY DEF Loading
<1> HIDE DEF D, T
<1>22. N \subseteq Meanings \X Place
  <2>1. <<b, k + 1>> \in Place /\ <<merge, 1>> \in Place /\ <<merge, 2>> \in Place
    BY <1>5, <1>6, PlaceOf
  <2> HIDE DEF R
  <2>2. QED
    BY <1>19, <2>1
<1>23. Fits(fn', frames', r2, S2, T, <<b, k>>)
  <2>1. Performs(store, S2, "rhs", n, R, <<b, k + 1>>)
    BY <1>3, <1>9, <1>18 DEF Performs, D
  <2>2. "rhs" \in ItemLabels
    BY DEF ItemLabels, SourceLabels
  <2> HIDE DEF R
  <2>3. Does(store, S2, T, <<b, k + 1>>)
    BY <1>3, <1>17, <1>20, <2>1, <2>2, DoesItem
  <2>4. QED
    BY <1>10, <1>15, <2>3, PutFits
<1>24. Fits(fn', frames', r2, S2, D, <<b, k + 1>>)
  <2>1. Does(jump, S2, D, <<b, k + 1 + 1>>)
    BY <1>8, <1>18 DEF Does
  <2>2. QED
    BY <1>11, <1>15, <2>1, PutFits
<1>25. Fits(fn', frames', r2, S2, D, <<merge, 1>>)
  <2>1. Performs(load, S2, "load", n, R, <<merge, 2>>)
    BY <1>3, <1>9, <1>18 DEF Performs
  <2>2. "load" \in ItemLabels
    BY DEF ItemLabels
  <2> HIDE DEF R
  <2>3. Does(load, S2, D, <<merge, 2>>)
    BY <1>3, <1>17, <1>21, <2>1, <2>2, DoesItem
  <2>4. <<merge, 2>> = <<merge, 1 + 1>>
    OBVIOUS
  <2>5. QED
    BY <1>14, <1>15, <2>3, <2>4, PutFits
<1>26. Fits(fn', frames', r2, S2, R, <<merge, 2>>)
  <2>1. fn'.current # NoBlock /\ merge = fn'.current /\ 2 = Len(fn'.blocks[merge]) + 1
    BY <1>6, <1>16
  <2> HIDE DEF R
  <2>2. R = Latest(<<>>, <<>>, r[1])
    BY <1>17 DEF R
  <2>3. QED
    BY <1>1, <1>17, <2>1, <2>2, NowFits
<1>27. Fulfilled(r, r2, N, S2)
  <2>1. \A x \in N : \/ x[1] = D /\ x[2] = <<b, k + 1>>
                     \/ x[1] = D /\ x[2] = <<merge, 1>>
                     \/ x[1] = R /\ x[2] = <<merge, 2>>
    OBVIOUS
  <2>2. \A x \in N : Fits(fn', frames', r2, S2, x[1], x[2])
    BY <1>24, <1>25, <1>26, <2>1
  <2>3. \A y \in Owes(Top, r[1]) : Fits(fn', frames', r2, S2, y[2], <<y[1], 1>>)
    BY <1>20, <1>25, SMTT(30)
  <2>4. QED
    BY <1>23, <2>2, <2>3 DEF Fulfilled, T
<1> HIDE DEF N
<1>28. QED
  BY <1>1, <1>15, <1>17, <1>18, <1>22, <1>27, Filled

(* Two lists of items. *)
LEMMA JoinTodos ==
  ASSUME NEW A \in Todos, NEW B \in Todos
  PROVE  A \o B \in Todos /\ A \o B \in Meanings /\ <<>> \o B = B
<1>1. A \o B \in Todos /\ <<>> \o B = B
  BY ConcatProperties, ConcatNothing DEF Todos
<1>2. QED
  BY <1>1, TodosAreMeanings

LEMMA BranchIfCode == Inv /\ Inv' /\ CodeInv /\ BranchIf => CodeInv'
<1> SUFFICES ASSUME Inv, Inv', CodeInv, BranchIf PROVE CodeInv'
  OBVIOUS
<1> DEFINE n == Top.node
           m == Len(fn.blocks)
           b == fn.current
           k == Len(fn.blocks[b]) + 1
           then == m + 1
           other == m + 2
           branch == Br(Kids(n)[1], then, other)
           f1 == CreateBlock(fn)
           f2 == CreateBlock(f1)
           f3 == Terminate(f2, branch)
           f4 == SetCurrent(f3, then)
           a == Stmt(Kids(n)[2])
           e == Frame("then", n, <<other>>)
<1>1. LoweringInv /\ LoweringInv'
  BY DEF Inv
<1>2. frames # <<>> /\ Top.at = "branch" /\ b # NoBlock /\ UNCHANGED program
  BY DEF BranchIf, At
<1>3. n \in Node /\ IsAst(program) /\ Kind(n) = "if"
  BY <1>1, <1>2, TopFacts DEF FrameRecord, FrameOK
<1>4. PICK S, r : Code(fn, frames, r, S)
  BY DEF CodeInv
<1>5. fn \in AnyFn /\ b \in 1 .. m /\ b \in Nat /\ k \in Nat \ {0} /\ m \in Nat /\ b \in Mine
  BY <1>1, <1>2, Here
<1>6. /\ f1 \in AnyFn /\ Len(f1.blocks) = m + 1 /\ f1.current = b /\ f1.blocks[m + 1] = <<>>
      /\ Extends(fn, f1, {}) /\ \A x \in 1 .. m : f1.blocks[x] = fn.blocks[x]
  BY <1>5, Created
<1>7. /\ f2 \in AnyFn /\ Len(f2.blocks) = m + 2 /\ f2.current = b /\ f2.blocks[m + 2] = <<>>
      /\ Extends(f1, f2, {}) /\ \A x \in 1 .. m + 1 : f2.blocks[x] = f1.blocks[x]
  <2> HIDE DEF f1
  <2>1. /\ f2 \in AnyFn /\ Len(f2.blocks) = Len(f1.blocks) + 1 /\ f2.current = f1.current
        /\ Extends(f1, f2, {}) /\ f2.blocks[Len(f1.blocks) + 1] = <<>>
        /\ \A x \in 1 .. Len(f1.blocks) : f2.blocks[x] = f1.blocks[x]
    BY <1>6, Created
  <2>2. Len(f1.blocks) + 1 = m + 2
    BY <1>5, <1>6
  <2>3. QED
    BY <1>6, <2>1, <2>2
<1>8. fn' = f4 /\ frames' = <<a, e>> \o Tail(frames)
  <2>1. Newest(f1) = then /\ Newest(f2) = other
    BY <1>6, <1>7 DEF Newest
  <2>2. QED
    BY <2>1 DEF BranchIf, GoOn
<1> HIDE DEF f1, f2
<1>9. /\ f2.blocks[then] = <<>> /\ f2.blocks[other] = <<>>
      /\ then \in 1 .. m + 2 /\ other \in 1 .. m + 2 /\ then \in Nat /\ other \in Nat
      /\ b # then /\ b # other /\ then # other /\ then # NoBlock
      /\ f2.blocks[b] = fn.blocks[b] /\ b \in 1 .. m + 2
  <2>1. then \in 1 .. m + 1 /\ b \in 1 .. m + 1 /\ then \in Nat
    BY <1>5
  <2>2. /\ f2.blocks[then] = <<>> /\ f2.blocks[other] = <<>> /\ f2.blocks[b] = fn.blocks[b]
    <3>1. f2.blocks[then] = f1.blocks[then] /\ f2.blocks[b] = f1.blocks[b]
      BY <1>7, <2>1
    <3>2. f1.blocks[b] = fn.blocks[b]
      BY <1>5, <1>6
    <3>3. QED
      BY <1>6, <1>7, <3>1, <3>2
  <2>3. /\ then \in 1 .. m + 2 /\ other \in 1 .. m + 2 /\ then \in Nat /\ other \in Nat
        /\ b # then /\ b # other /\ then # other /\ then # 0 /\ b \in 1 .. m + 2
    BY <1>5
  <2>4. QED
    BY <2>2, <2>3 DEF NoBlock
<1>10. branch \in AnyInstruction
  <2>1. Kids(n)[1] \in Node
    BY <1>3, BranchingKids
  <2>2. QED
    BY <1>9, <2>1, Instructions
<1>11. branch = Br(Kids(n)[1], then, other)
  OBVIOUS
<1> HIDE DEF branch, then, other
<1>12. Put(f2, f3, b, k, branch) /\ f3 \in AnyFn
  <2>1. k = Len(f2.blocks[b]) + 1 /\ b \in 1 .. Len(f2.blocks) /\ b = f2.current
    BY <1>7, <1>9
  <2>2. QED
    BY <1>7, <1>10, <2>1, Terminated
<1> HIDE DEF f3
<1>13. f4 \in AnyFn /\ f4.blocks = f3.blocks /\ f4.current = then /\ Extends(f3, f4, {})
  BY <1>9, <1>12, Moved
<1> HIDE DEF f4
<1>14. Extends(f3, fn', {}) /\ Extends(fn, fn', Mine) /\ fn' \in AnyFn
  <2>1. Extends(f3, fn', {}) /\ fn' \in AnyFn
    BY <1>8, <1>13
  <2>2. Extends(f2, f3, {b})
    BY <1>12 DEF Put
  <2>3. Extends(f2, fn', {b})
    BY <1>7, <1>12, <2>1, <2>2, ExtendsAll
  <2>4. Extends(f1, fn', {b})
    BY <1>6, <1>7, <2>1, <2>3, ExtendsAll
  <2>5. \A x : x \in {} \cup {b} => x \in Mine
    BY <1>5
  <2>6. Extends(fn, fn', Mine)
    BY <1>5, <1>6, <2>1, <2>4, <2>5, ExtendsAll
  <2>7. QED
    BY <2>1, <2>6
<1>15. fn'.current = then /\ fn'.blocks[then] = <<>> /\ fn'.blocks[other] = <<>>
  BY <1>7, <1>8, <1>9, <1>12, <1>13 DEF Put
<1> DEFINE R == r[1]
           A == <<a>> \o R
           B == Otherwise(n) \o R
           N == {<<A, <<then, 1>>>>, <<B, <<other, 1>>>>}
           S2 == S \cup N
           calls == <<a, e>>
           c == <<Items(e) \o R, R>>
           r2 == c \o Tail(r)
<1>16. a = Item0("stmt", Kids(n)[2]) /\ Kids(n)[2] \in Node /\ Bare(a)
  <2>1. Kids(n)[2] \in Node
    BY <1>3, BranchingKids
  <2>2. QED
    BY <2>1 DEF Stmt, Item0, Frame, Bare
<1>17. e.at = "then" /\ e.node = n /\ e.refs[1] = other /\ Owned(e) = {other}
  BY DEF Frame, Owned
<1> HIDE DEF e
<1>18. Items(a) = <<a>> /\ Items(e) = <<>> /\ Owes(e, R) = {<<other, B>>}
  BY <1>16, <1>17 DEF Items, Owes, SourceLabels, Item0, Frame
<1>19. Body(n) = <<a>> /\ Otherwise(n) \in Todos
  BY <1>3, ChoicesTyped
<1> HIDE DEF a
<1>20. r2 = c \o Tail(r) /\ calls = <<a, e>> /\ c = <<Items(e) \o r[1], r[1]>>
  OBVIOUS
<1>21. S2 = S \cup N /\ <<A, <<then, 1>>>> \in S2 /\ <<B, <<other, 1>>>> \in S2
  OBVIOUS
<1> HIDE DEF r2, c, calls, S2
<1>22. /\ Steps(r, S, calls, c, r2) /\ Latest(calls, c, R) = <<a>> \o (<<>> \o R)
       /\ R \in Todos
  <2>1. frames # <<>> /\ frames' = <<a, e>> \o Tail(frames) /\ UNCHANGED program
    BY <1>2, <1>8
  <2>2. /\ Steps(r, S, calls, c, r2) /\ Latest(calls, c, R) = Items(a) \o (Items(e) \o R)
        /\ R \in Todos
    BY <1>1, <1>4, <1>16, <1>20, <2>1, StepsTwo
  <2>3. QED
    BY <1>18, <2>2
<1>23. Latest(calls, c, R) = A /\ B \in Meanings /\ A \in Meanings
  <2>1. <<>> \o R = R /\ B \in Meanings
    BY <1>19, <1>22, JoinTodos
  <2>2. "stmt" \in SourceLabels
    BY DEF SourceLabels
  <2>3. A \in Meanings
    BY <1>16, <1>22, <2>2, ItemTodo
  <2>4. QED
    BY <1>22, <2>1, <2>3
<1>24. /\ CallsReady(calls, c, S2) /\ 2 \in 1 .. Len(calls) /\ calls[2] = e /\ c[2] = R
  <2>1. LastReady(e, R, S2)
    BY <1>15, <1>17 DEF LastReady, LoopFrames
  <2>2. QED
    BY <1>16, <1>20, <2>1, ReadyTwo
<1> DEFINE T == Items(Top) \o R
<1>25. T = <<Item0("test", n)>> \o R /\ Owes(Top, R) = {}
  BY <1>2 DEF Items, Owes, SourceLabels
<1> HIDE DEF A, B, T
<1>26. N \subseteq Meanings \X Place
  <2>1. <<then, 1>> \in Place /\ <<other, 1>> \in Place
    BY <1>9, PlaceOf
  <2>2. QED
    BY <1>23, <2>1
<1>27. Fits(fn', frames', r2, S2, A, <<then, 1>>)
  <2>1. fn'.current # NoBlock /\ then = fn'.current /\ 1 = Len(fn'.blocks[then]) + 1
    BY <1>9, <1>15, EmptySeq
  <2>2. QED
    BY <1>1, <1>22, <1>23, <2>1, NowFits
<1>28. Fits(fn', frames', r2, S2, B, <<other, 1>>)
  <2>1. other \in Owned(calls[2]) /\ <<other, B>> \in Owes(calls[2], c[2])
    BY <1>17, <1>18, <1>24 DEF B
  <2>2. QED
    BY <1>1, <1>15, <1>22, <1>24, <2>1, OwedFits
<1>29. Fits(fn', frames', r2, S2, T, <<b, k>>)
  <2>1. Performs(branch, S2, "test", n, R, <<b, k + 1>>)
    <3>1. <<Body(n) \o R, <<then, 1>>>> \in S2
      BY <1>19, <1>21 DEF A
    <3>2. <<Otherwise(n) \o R, <<other, 1>>>> \in S2
      BY <1>21 DEF B
    <3> HIDE DEF R
    <3>3. QED
      BY <1>3, <1>11, <3>1, <3>2 DEF Performs
  <2>2. "test" \in ItemLabels
    BY DEF ItemLabels, SourceLabels
  <2> HIDE DEF R
  <2>3. Does(branch, S2, T, <<b, k + 1>>)
    BY <1>3, <1>22, <1>25, <2>1, <2>2, DoesItem
  <2>4. QED
    BY <1>12, <1>14, <2>3, PutFits
<1>30. Fulfilled(r, r2, N, S2)
  <2>1. \A x \in N : \/ x[1] = A /\ x[2] = <<then, 1>>
                     \/ x[1] = B /\ x[2] = <<other, 1>>
    OBVIOUS
  <2>2. \A x \in N : Fits(fn', frames', r2, S2, x[1], x[2])
    BY <1>27, <1>28, <2>1
  <2>3. QED
    BY <1>25, <1>29, <2>2 DEF Fulfilled, T
<1> HIDE DEF N
<1>31. QED
  BY <1>1, <1>14, <1>21, <1>22, <1>24, <1>26, <1>30, Filled

JumpsTo(h, b, k, to) ==
  /\ h \in AnyFn /\ b \in 1 .. Len(h.blocks) /\ k \in 1 .. Len(h.blocks[b])
  /\ h.blocks[b][k] = Jump(to)

\* h is what FallThrough leaves of fn, to the block it joins at.
Fell(merge, h, to) ==
  /\ h \in AnyFn /\ Len(fn.blocks) <= Len(h.blocks) /\ Extends(fn, h, Mine)
  /\ \A x \in 1 .. Len(fn.blocks) : x # fn.current => h.blocks[x] = fn.blocks[x]
  /\ fn.current = NoBlock => to = merge
  /\ merge # NoBlock => to = merge
  /\ fn.current # NoBlock =>
       /\ JumpsTo(h, fn.current, Len(fn.blocks[fn.current]) + 1, to)
       /\ to # NoBlock
       /\ merge = NoBlock => to \in 1 .. Len(h.blocks) /\ h.blocks[to] = <<>>

(* FallThrough jumps to the merge block, making it if there is none. *)
LEMMA FallsThrough ==
  ASSUME LoweringInv, NEW merge \in Nat,
         NEW h, h = FallThrough(fn, merge).fn, NEW to, to = FallThrough(fn, merge).merge
  PROVE  Fell(merge, h, to)
<1> DEFINE m == Len(fn.blocks)
           b == fn.current
           k == Len(fn.blocks[b]) + 1
<1>1. fn \in AnyFn /\ m \in Nat
  <2>1. GoodFn(fn)
    BY DEF LoweringInv, FrameInv
  <2>2. QED
    BY <2>1, LenProperties DEF GoodFn, AnyFn
<1>2. CASE b = NoBlock
  <2>1. h = fn /\ to = merge
    BY <1>2 DEF FallThrough
  <2>2. QED
    BY <1>1, <1>2, <2>1, SameExtends DEF Fell
<1>3. CASE b # NoBlock
  <2>1. b \in 1 .. m /\ b \in Nat /\ b \in Mine /\ IsAst(program)
    BY <1>3, Here DEF LoweringInv, FrameInv
  <2> DEFINE g == IF merge = NoBlock THEN CreateBlock(fn) ELSE fn
             jump == Jump(to)
  <2>2. to = (IF merge = NoBlock THEN Newest(g) ELSE merge) /\ h = Terminate(g, jump)
    BY <1>3 DEF FallThrough
  <2>3. /\ g \in AnyFn /\ g.current = b /\ Extends(fn, g, {}) /\ m <= Len(g.blocks)
        /\ \A x \in 1 .. m : g.blocks[x] = fn.blocks[x]
        /\ merge = NoBlock => to = m + 1 /\ Len(g.blocks) = m + 1 /\ g.blocks[m + 1] = <<>>
    <3>1. CASE merge = NoBlock
      <4>1. g = CreateBlock(fn)
        BY <3>1
      <4> HIDE DEF g
      <4>2. /\ g \in AnyFn /\ Len(g.blocks) = m + 1 /\ g.current = fn.current
            /\ g.blocks[m + 1] = <<>> /\ Extends(fn, g, {})
            /\ \A x \in 1 .. m : g.blocks[x] = fn.blocks[x]
        BY <1>1, <4>1, Created
      <4>3. to = m + 1
        BY <2>2, <3>1, <4>2 DEF Newest
      <4>4. QED
        BY <1>1, <4>2, <4>3
    <3>2. CASE merge # NoBlock
      BY <1>1, <3>2, SameExtends
    <3>3. QED
      BY <3>1, <3>2
  <2>4. to \in Nat /\ to # NoBlock
    BY <1>1, <2>2, <2>3 DEF NoBlock
  <2>5. jump \in AnyInstruction /\ jump = Jump(to)
    <3>1. program.root \in Node
      BY <2>1 DEF IsAst
    <3>2. QED
      BY <2>1, <2>4, <3>1, Instructions
  <2> HIDE DEF g, jump
  <2>6. b \in 1 .. Len(g.blocks) /\ b = g.current /\ k = Len(g.blocks[b]) + 1
    <3>1. b \in 1 .. Len(g.blocks)
      <4>1. Len(g.blocks) \in Nat
        BY <2>3, LenProperties DEF AnyFn
      <4>2. QED
        BY <1>1, <2>1, <2>3, <4>1
    <3>2. g.blocks[b] = fn.blocks[b] /\ b = g.current
      BY <2>1, <2>3
    <3>3. QED
      BY <3>1, <3>2
  <2> HIDE DEF k, b
  <2>7. Put(g, h, b, k, jump) /\ h \in AnyFn
    BY <2>2, <2>3, <2>5, <2>6, Terminated
  <2>8. Extends(fn, h, Mine)
    <3>1. Extends(g, h, {b})
      BY <2>7 DEF Put
    <3>2. \A x : x \in {} \cup {b} => x \in Mine
      BY <2>1
    <3>3. QED
      BY <1>1, <2>3, <2>7, <3>1, <3>2, ExtendsAll
  <2>9. JumpsTo(h, b, k, to)
    BY <2>5, <2>7 DEF Put, JumpsTo
  <2>10. /\ m <= Len(h.blocks) /\ \A x \in 1 .. m : x # b => h.blocks[x] = fn.blocks[x]
    <3>1. \A x \in 1 .. m : x \in 1 .. Len(g.blocks)
      BY <1>1, <2>6, <2>3
    <3>2. QED
      BY <2>3, <2>7, <3>1 DEF Put
  <2>11. ASSUME merge = NoBlock PROVE to \in 1 .. Len(h.blocks) /\ h.blocks[to] = <<>>
    <3>1. to = m + 1 /\ Len(g.blocks) = m + 1 /\ g.blocks[m + 1] = <<>>
      BY <2>3, <2>11
    <3>2. to \in 1 .. Len(g.blocks) /\ to # b /\ Len(h.blocks) = Len(g.blocks)
      BY <1>1, <2>1, <2>7, <3>1 DEF Put
    <3>3. h.blocks[to] = g.blocks[to]
      BY <2>7, <3>2 DEF Put
    <3>4. QED
      BY <3>1, <3>2, <3>3
  <2>12. merge # NoBlock => to = merge
    BY <2>2
  <2>13. b = fn.current /\ k = Len(fn.blocks[fn.current]) + 1 /\ b # NoBlock
    BY <1>3 DEF b, k
  <2>14. QED
    BY <2>4, <2>7, <2>8, <2>9, <2>10, <2>11, <2>12, <2>13 DEF Fell, m
<1>4. QED
  BY <1>2, <1>3

(* A jump keeps what its target means. *)
LEMMA JumpFits ==
  ASSUME NEW h, NEW b, NEW k, NEW to, JumpsTo(h, b, k, to), NEW W, Extends(h, fn', W),
         fn' \in AnyFn, IsAst(program), NEW r2, NEW S2, NEW V, <<V, <<to, 1>>>> \in S2
  PROVE  Fits(fn', frames', r2, S2, V, <<b, k>>)
<1> DEFINE inst == Jump(to)
           next == <<b, k + 1>>
<1>1. inst.op = "jump" /\ inst.to[1] = to
  BY DEF Jump
<1>2. /\ h \in AnyFn /\ b \in 1 .. Len(h.blocks) /\ k \in 1 .. Len(h.blocks[b])
      /\ h.blocks[b][k] = inst
  BY DEF JumpsTo
<1> HIDE DEF inst
<1>3. /\ b \in 1 .. Len(fn'.blocks) /\ k \in 1 .. Len(fn'.blocks[b])
      /\ fn'.blocks[b][k] = inst
  BY <1>2, Carried
<1>4. Does(inst, S2, V, next)
  BY <1>1 DEF Does
<1>5. QED
  BY <1>3, <1>4, FitsKept

LEMMA EndThenWithoutElseCode == Inv /\ Inv' /\ CodeInv /\ EndThenWithoutElse => CodeInv'
<1> SUFFICES ASSUME Inv, Inv', CodeInv, EndThenWithoutElse PROVE CodeInv'
  OBVIOUS
<1> DEFINE n == Top.node
           m == Len(fn.blocks)
           b == fn.current
           k == Len(fn.blocks[b]) + 1
           other == Top.refs[1]
           out == FallThrough(fn, other)
           h == out.fn
           to == out.merge
<1>1. LoweringInv /\ LoweringInv'
  BY DEF Inv
<1>2. /\ frames # <<>> /\ Top.at = "then" /\ ~HasElse(n) /\ fn' = SetCurrent(h, other)
      /\ frames' = Tail(frames) /\ UNCHANGED program
  BY DEF EndThenWithoutElse, At, Return
<1>3. /\ n \in Node /\ IsAst(program) /\ Kind(n) = "if" /\ FrameOK(Top, m) /\ m \in Nat
      /\ Owned(Top) \subseteq Opens(fn) \ Current
  BY <1>1, <1>2, TopFacts DEF FrameRecord, FrameOK
<1>4. PICK S, r : Code(fn, frames, r, S)
  BY DEF CodeInv
<1>5. other \in 1 .. m /\ other \in Nat /\ other # NoBlock /\ Owned(Top) = {other}
  BY <1>2, <1>3 DEF FrameOK, Owned, NoBlock
<1>6. b # other /\ fn.blocks[other] = <<>>
  BY <1>2, <1>3, <1>4, <1>5 DEF Current, Code, NoBlock
<1> HIDE DEF other
<1>7. h = FallThrough(fn, other).fn /\ to = FallThrough(fn, other).merge
  OBVIOUS
<1> HIDE DEF h, to, out
<1>8. Fell(other, h, to)
  BY <1>1, <1>5, <1>7, FallsThrough
<1>9. /\ h \in AnyFn /\ Extends(fn, h, Mine) /\ h.blocks[other] = <<>> /\ to = other
      /\ b # NoBlock => JumpsTo(h, b, k, to)
  BY <1>5, <1>6, <1>8 DEF Fell
<1>10. fn' \in AnyFn /\ fn'.blocks = h.blocks /\ fn'.current = other /\ Extends(h, fn', {})
  BY <1>2, <1>5, <1>9, Moved, ZenonT(30)
<1>11. Extends(fn, fn', Mine)
  <2>1. fn \in AnyFn /\ \A x : x \in Mine \cup {} => x \in Mine
    BY <1>1 DEF LoweringInv, FrameInv, GoodFn
  <2>2. QED
    BY <1>9, <1>10, <2>1, ExtendsAll
<1> DEFINE R == r[1]
           N == {<<R, <<other, 1>>>>}
           S2 == S \cup N
           r2 == <<>> \o Tail(r)
<1>12. /\ Steps(r, S, <<>>, <<>>, r2) /\ Latest(<<>>, <<>>, R) = R /\ R \in Todos
       /\ CallsReady(<<>>, <<>>, S2)
  BY <1>1, <1>2, <1>4, StepsNone
<1>13. S2 = S \cup N /\ <<R, <<other, 1>>>> \in S2
  OBVIOUS
<1> HIDE DEF S2, r2
<1>14. Items(Top) \o R = R /\ Otherwise(n) \o R = R
  <2>1. Items(Top) = <<>> /\ Otherwise(n) = <<>>
    BY <1>2 DEF Items, Otherwise, SourceLabels, HasElse
  <2>2. <<>> \o R = R
    BY <1>12, JoinTodos
  <2>3. QED
    BY <2>1, <2>2
<1>15. Owes(Top, R) = {<<other, R>>}
  <2>1. Owes(Top, R) = {<<other, Otherwise(n) \o R>>}
    BY <1>2 DEF Owes, other
  <2>2. QED
    BY <1>14, <2>1
<1>16. N \subseteq Meanings \X Place
  <2>1. <<other, 1>> \in Place /\ R \in Meanings
    BY <1>5, <1>12, PlaceOf, TodosAreMeanings
  <2>2. QED
    BY <2>1
<1>17. Fits(fn', frames', r2, S2, R, <<other, 1>>)
  <2>1. fn'.current # NoBlock /\ other = fn'.current /\ 1 = Len(fn'.blocks[other]) + 1
    BY <1>5, <1>9, <1>10, EmptySeq
  <2> HIDE DEF R
  <2>2. R = Latest(<<>>, <<>>, r[1])
    BY <1>12 DEF R
  <2>3. QED
    BY <1>1, <1>12, <2>1, <2>2, NowFits
<1>18. ASSUME b # NoBlock PROVE Fits(fn', frames', r2, S2, Items(Top) \o R, <<b, k>>)
  <2>1. JumpsTo(h, b, k, to) /\ <<R, <<to, 1>>>> \in S2
    BY <1>9, <1>13, <1>18
  <2> HIDE DEF R, b, k
  <2>2. Fits(fn', frames', r2, S2, R, <<b, k>>)
    BY <1>3, <1>10, <2>1, JumpFits
  <2>3. QED
    BY <1>14, <2>2
<1>19. Fulfilled(r, r2, N, S2)
  <2>1. \A x \in N : x[1] = R /\ x[2] = <<other, 1>>
    OBVIOUS
  <2>2. \A x \in N : Fits(fn', frames', r2, S2, x[1], x[2])
    BY <1>17, <2>1
  <2>3. QED
    BY <1>15, <1>17, <1>18, <2>2 DEF Fulfilled
<1> HIDE DEF N
<1>20. QED
  BY <1>1, <1>11, <1>12, <1>13, <1>16, <1>19, Filled

LEMMA EndThenCode == Inv /\ Inv' /\ CodeInv /\ EndThen => CodeInv'
<1> SUFFICES ASSUME Inv, Inv', CodeInv, EndThen PROVE CodeInv'
  OBVIOUS
<1> DEFINE n == Top.node
           m == Len(fn.blocks)
           b == fn.current
           k == Len(fn.blocks[b]) + 1
           other == Top.refs[1]
           out == FallThrough(fn, NoBlock)
           h == out.fn
           to == out.merge
           a == Stmt(Kids(n)[3])
           e == Frame("else", n, <<to>>)
<1>1. LoweringInv /\ LoweringInv'
  BY DEF Inv
<1>2. /\ frames # <<>> /\ Top.at = "then" /\ HasElse(n) /\ fn' = SetCurrent(h, other)
      /\ frames' = <<a, e>> \o Tail(frames) /\ UNCHANGED program
  BY DEF EndThen, At, GoOn
<1>3. /\ n \in Node /\ IsAst(program) /\ Kind(n) = "if" /\ FrameOK(Top, m) /\ m \in Nat
      /\ Owned(Top) \subseteq Opens(fn) \ Current
  BY <1>1, <1>2, TopFacts DEF FrameRecord, FrameOK
<1>4. PICK S, r : Code(fn, frames, r, S)
  BY DEF CodeInv
<1>5. other \in 1 .. m /\ other \in Nat /\ other # NoBlock /\ Owned(Top) = {other}
  BY <1>2, <1>3 DEF FrameOK, Owned, NoBlock
<1>6. b # other /\ fn.blocks[other] = <<>>
  BY <1>2, <1>3, <1>4, <1>5 DEF Current, Code, NoBlock
<1> HIDE DEF other
<1>7. h = FallThrough(fn, NoBlock).fn /\ to = FallThrough(fn, NoBlock).merge
  OBVIOUS
<1> HIDE DEF h, to, out
<1>8. Fell(NoBlock, h, to)
  BY <1>1, <1>7, FallsThrough DEF NoBlock
<1>9. /\ h \in AnyFn /\ Extends(fn, h, Mine) /\ h.blocks[other] = <<>> /\ m <= Len(h.blocks)
      /\ b = NoBlock => to = NoBlock
      /\ b # NoBlock => to # NoBlock /\ JumpsTo(h, b, k, to)
      /\ to # NoBlock => to \in 1 .. Len(h.blocks) /\ h.blocks[to] = <<>>
  BY <1>5, <1>6, <1>8 DEF Fell
<1>10. fn' \in AnyFn /\ fn'.blocks = h.blocks /\ fn'.current = other /\ Extends(h, fn', {})
  BY <1>2, <1>5, <1>9, Moved
<1>11. Extends(fn, fn', Mine)
  <2>1. fn \in AnyFn /\ \A x : x \in Mine \cup {} => x \in Mine
    BY <1>1 DEF LoweringInv, FrameInv, GoodFn
  <2>2. QED
    BY <1>9, <1>10, <2>1, ExtendsAll
<1> DEFINE R == r[1]
           B == <<a>> \o R
           M == {x \in {<<R, <<to, 1>>>>} : to # NoBlock}
           N == {<<B, <<other, 1>>>>} \cup M
           S2 == S \cup N
           calls == <<a, e>>
           c == <<Items(e) \o R, R>>
           r2 == c \o Tail(r)
<1>12. a = Item0("stmt", Kids(n)[3]) /\ Kids(n)[3] \in Node /\ Bare(a)
  <2>1. Kids(n)[3] \in Node
    BY <1>2, <1>3, BranchingKids
  <2>2. QED
    BY <2>1 DEF Stmt, Item0, Frame, Bare
<1>13. e.at = "else" /\ e.node = n /\ e.refs[1] = to /\ Owned(e) = {to} \ {NoBlock}
  BY DEF Frame, Owned
<1> HIDE DEF e
<1>14. Items(a) = <<a>> /\ Items(e) = <<>> /\ Owes(e, R) = {<<to, R>>}
  BY <1>12, <1>13 DEF Items, Owes, SourceLabels, Item0, Frame
<1>15. Otherwise(n) = <<a>>
  BY <1>2 DEF Otherwise, HasElse
<1> HIDE DEF a
<1>16. r2 = c \o Tail(r) /\ calls = <<a, e>> /\ c = <<Items(e) \o r[1], r[1]>>
  OBVIOUS
<1>17. /\ S2 = S \cup N /\ <<B, <<other, 1>>>> \in S2
       /\ to # NoBlock => <<R, <<to, 1>>>> \in S2
  OBVIOUS
<1> HIDE DEF r2, c, calls, S2
<1>18. /\ Steps(r, S, calls, c, r2) /\ Latest(calls, c, R) = <<a>> \o (<<>> \o R)
       /\ R \in Todos
  <2>1. frames # <<>> /\ frames' = <<a, e>> \o Tail(frames) /\ UNCHANGED program
    BY <1>2
  <2>2. /\ Steps(r, S, calls, c, r2) /\ Latest(calls, c, R) = Items(a) \o (Items(e) \o R)
        /\ R \in Todos
    BY <1>1, <1>4, <1>12, <1>16, <2>1, StepsTwo
  <2>3. QED
    BY <1>14, <2>2
<1>19. Latest(calls, c, R) = B /\ R \in Meanings /\ B \in Meanings /\ <<>> \o R = R
  <2>1. <<>> \o R = R /\ R \in Meanings
    BY <1>18, JoinTodos, TodosAreMeanings
  <2>2. "stmt" \in SourceLabels
    BY DEF SourceLabels
  <2>3. B \in Meanings
    BY <1>12, <1>18, <2>2, ItemTodo
  <2>4. QED
    BY <1>18, <2>1, <2>3
<1>20. /\ CallsReady(calls, c, S2) /\ 2 \in 1 .. Len(calls) /\ calls[2] = e /\ c[2] = R
  <2>1. LastReady(e, R, S2)
    BY <1>9, <1>10, <1>13 DEF LastReady, LoopFrames
  <2>2. QED
    BY <1>12, <1>16, <2>1, ReadyTwo
<1>21. Items(Top) \o R = R /\ Owes(Top, R) = {<<other, B>>}
  <2>1. Items(Top) = <<>> /\ Owes(Top, R) = {<<other, Otherwise(n) \o R>>}
    BY <1>2 DEF Items, Owes, SourceLabels, other
  <2>2. QED
    BY <1>15, <1>19, <2>1
<1> HIDE DEF B
<1>22. N \subseteq Meanings \X Place
  <2>1. <<other, 1>> \in Place
    BY <1>5, PlaceOf
  <2>2. ASSUME to # NoBlock PROVE <<to, 1>> \in Place
    BY <1>9, <2>2, PlaceOf
  <2> HIDE DEF R
  <2>3. QED
    BY <1>19, <2>1, <2>2
<1>23. Fits(fn', frames', r2, S2, B, <<other, 1>>)
  <2>1. fn'.current # NoBlock /\ other = fn'.current /\ 1 = Len(fn'.blocks[other]) + 1
    BY <1>5, <1>9, <1>10, EmptySeq
  <2>2. QED
    BY <1>1, <1>18, <1>19, <2>1, NowFits
<1>24. ASSUME to # NoBlock PROVE Fits(fn', frames', r2, S2, R, <<to, 1>>)
  <2>1. to \in Owned(calls[2]) /\ <<to, R>> \in Owes(calls[2], c[2]) /\ fn'.blocks[to] = <<>>
    BY <1>9, <1>10, <1>13, <1>14, <1>20, <1>24
  <2> HIDE DEF R
  <2>2. QED
    BY <1>1, <1>18, <1>20, <2>1, OwedFits
<1>25. ASSUME b # NoBlock PROVE Fits(fn', frames', r2, S2, Items(Top) \o R, <<b, k>>)
  <2>1. JumpsTo(h, b, k, to) /\ <<R, <<to, 1>>>> \in S2
    BY <1>9, <1>17, <1>25
  <2> HIDE DEF R, b, k
  <2>2. Fits(fn', frames', r2, S2, R, <<b, k>>)
    BY <1>3, <1>10, <2>1, JumpFits
  <2>3. QED
    BY <1>21, <2>2
<1>26. Fulfilled(r, r2, N, S2)
  <2>1. \A x \in N : \/ x[1] = B /\ x[2] = <<other, 1>>
                     \/ to # NoBlock /\ x[1] = R /\ x[2] = <<to, 1>>
    OBVIOUS
  <2>2. \A x \in N : Fits(fn', frames', r2, S2, x[1], x[2])
    BY <1>23, <1>24, <2>1
  <2>3. QED
    BY <1>21, <1>23, <1>25, <2>2 DEF Fulfilled
<1> HIDE DEF N
<1>27. QED
  BY <1>1, <1>11, <1>17, <1>18, <1>20, <1>22, <1>26, Filled

LEMMA EndElseCode == Inv /\ Inv' /\ CodeInv /\ EndElse => CodeInv'
<1> SUFFICES ASSUME Inv, Inv', CodeInv, EndElse PROVE CodeInv'
  OBVIOUS
<1> DEFINE n == Top.node
           m == Len(fn.blocks)
           b == fn.current
           k == Len(fn.blocks[b]) + 1
           merge == Top.refs[1]
           out == FallThrough(fn, merge)
           h == out.fn
           to == out.merge
<1>1. LoweringInv /\ LoweringInv'
  BY DEF Inv
<1>2. /\ frames # <<>> /\ Top.at = "else" /\ fn' = SetCurrent(h, to)
      /\ frames' = Tail(frames) /\ UNCHANGED program
  BY DEF EndElse, At, Return
<1>3. /\ n \in Node /\ IsAst(program) /\ FrameOK(Top, m) /\ m \in Nat
      /\ Owned(Top) \subseteq Opens(fn) \ Current
  BY <1>1, <1>2, TopFacts DEF FrameRecord, FrameOK
<1>4. PICK S, r : Code(fn, frames, r, S)
  BY DEF CodeInv
<1>5. merge \in Nat /\ (merge # NoBlock => merge \in 1 .. m /\ merge \in Owned(Top))
  BY <1>2, <1>3 DEF FrameOK, Owned, NoBlock
<1>6. merge # NoBlock => b # merge /\ fn.blocks[merge] = <<>>
  BY <1>2, <1>3, <1>4, <1>5 DEF Current, Code, NoBlock
<1>7. h = FallThrough(fn, merge).fn /\ to = FallThrough(fn, merge).merge
  OBVIOUS
<1> HIDE DEF h, to, out, merge
<1>8. Fell(merge, h, to)
  BY <1>1, <1>5, <1>7, FallsThrough
<1>9. /\ h \in AnyFn /\ Extends(fn, h, Mine) /\ to \in Nat
      /\ b # NoBlock => to # NoBlock /\ JumpsTo(h, b, k, to)
      /\ merge # NoBlock => to = merge
      /\ to # NoBlock => h.blocks[to] = <<>>
  <2>1. CASE merge = NoBlock
    BY <1>5, <1>8, <2>1 DEF Fell, NoBlock
  <2>2. CASE merge # NoBlock
    BY <1>5, <1>6, <1>8, <2>2 DEF Fell
  <2>3. QED
    BY <2>1, <2>2
<1>10. fn' \in AnyFn /\ fn'.blocks = h.blocks /\ fn'.current = to /\ Extends(h, fn', {})
  BY <1>2, <1>9, Moved
<1>11. Extends(fn, fn', Mine)
  <2>1. fn \in AnyFn /\ \A x : x \in Mine \cup {} => x \in Mine
    BY <1>1 DEF LoweringInv, FrameInv, GoodFn
  <2>2. QED
    BY <1>9, <1>10, <2>1, ExtendsAll
<1> DEFINE R == r[1]
           N == {x \in {<<R, <<to, 1>>>>} : to # NoBlock}
           S2 == S \cup N
           r2 == <<>> \o Tail(r)
<1>12. /\ Steps(r, S, <<>>, <<>>, r2) /\ Latest(<<>>, <<>>, R) = R /\ R \in Todos
       /\ CallsReady(<<>>, <<>>, S2)
  BY <1>1, <1>2, <1>4, StepsNone
<1>13. S2 = S \cup N /\ (to # NoBlock => <<R, <<to, 1>>>> \in S2)
  OBVIOUS
<1> HIDE DEF S2, r2
<1>14. Items(Top) \o R = R /\ Owes(Top, R) = {<<merge, R>>}
  <2>1. Items(Top) = <<>> /\ Owes(Top, R) = {<<merge, R>>}
    BY <1>2 DEF Items, Owes, SourceLabels, merge
  <2>2. <<>> \o R = R
    BY <1>12, JoinTodos
  <2>3. QED
    BY <2>1, <2>2
<1>15. N \subseteq Meanings \X Place
  <2>1. <<to, 1>> \in Place /\ R \in Meanings
    BY <1>9, <1>12, PlaceOf, TodosAreMeanings
  <2>2. QED
    BY <2>1
<1>16. ASSUME to # NoBlock PROVE Fits(fn', frames', r2, S2, R, <<to, 1>>)
  <2>1. fn'.current # NoBlock /\ to = fn'.current /\ 1 = Len(fn'.blocks[to]) + 1
    BY <1>9, <1>10, <1>16, EmptySeq
  <2> HIDE DEF R
  <2>2. R = Latest(<<>>, <<>>, r[1])
    BY <1>12 DEF R
  <2>3. QED
    BY <1>1, <1>12, <2>1, <2>2, NowFits
<1>17. ASSUME b # NoBlock PROVE Fits(fn', frames', r2, S2, Items(Top) \o R, <<b, k>>)
  <2>1. JumpsTo(h, b, k, to) /\ <<R, <<to, 1>>>> \in S2
    BY <1>9, <1>13, <1>17
  <2> HIDE DEF R, b, k
  <2>2. Fits(fn', frames', r2, S2, R, <<b, k>>)
    BY <1>3, <1>10, <2>1, JumpFits
  <2>3. QED
    BY <1>14, <2>2
<1>18. Fulfilled(r, r2, N, S2)
  <2>1. \A x \in N : to # NoBlock /\ x[1] = R /\ x[2] = <<to, 1>>
    OBVIOUS
  <2>2. \A x \in N : Fits(fn', frames', r2, S2, x[1], x[2])
    BY <1>16, <2>1
  <2>3. \A y \in Owes(Top, R) : y[1] # NoBlock => Fits(fn', frames', r2, S2, y[2], <<y[1], 1>>)
    BY <1>9, <1>14, <1>16
  <2>4. QED
    BY <1>17, <2>2, <2>3 DEF Fulfilled
<1> HIDE DEF N
<1>19. QED
  BY <1>1, <1>11, <1>12, <1>13, <1>15, <1>18, Filled

LEMMA EndLoopCode == Inv /\ Inv' /\ CodeInv /\ EndLoop => CodeInv'
<1> SUFFICES ASSUME Inv, Inv', CodeInv, EndLoop PROVE CodeInv'
  OBVIOUS
<1> DEFINE n == Top.node
           m == Len(fn.blocks)
           b == fn.current
           k == Len(fn.blocks[b]) + 1
           entry == Top.refs[1]
           end == Top.refs[2]
           out == FallThrough(fn, entry)
           h == out.fn
           to == out.merge
<1>1. LoweringInv /\ LoweringInv'
  BY DEF Inv
<1>2. /\ frames # <<>> /\ Top.at = "loop" /\ fn' = SetCurrent(h, end)
      /\ frames' = Tail(frames) /\ UNCHANGED program
  BY DEF EndLoop, At, Return
<1>3. /\ n \in Node /\ IsAst(program) /\ FrameOK(Top, m) /\ m \in Nat
      /\ Owned(Top) \subseteq Opens(fn) \ Current /\ frames \in Seq(FrameRecord)
  BY <1>1, <1>2, TopFacts DEF FrameRecord, FrameOK
<1>4. PICK S, r : Code(fn, frames, r, S)
  BY DEF CodeInv
<1>5. /\ entry \in Nat /\ entry # NoBlock
      /\ end \in 1 .. m /\ end \in Nat /\ end # NoBlock /\ Owned(Top) = {end}
  BY <1>2, <1>3 DEF FrameOK, Owned, NoBlock
<1>6. b # end /\ fn.blocks[end] = <<>>
  BY <1>2, <1>3, <1>4, <1>5 DEF Current, Code, NoBlock
<1> HIDE DEF end, entry
<1>7. h = FallThrough(fn, entry).fn /\ to = FallThrough(fn, entry).merge
  OBVIOUS
<1> HIDE DEF h, to, out
<1>8. Fell(entry, h, to)
  BY <1>1, <1>5, <1>7, FallsThrough
<1>9. /\ h \in AnyFn /\ Extends(fn, h, Mine) /\ h.blocks[end] = <<>> /\ to = entry
      /\ b # NoBlock => JumpsTo(h, b, k, to)
  BY <1>5, <1>6, <1>8 DEF Fell
<1>10. fn' \in AnyFn /\ fn'.blocks = h.blocks /\ fn'.current = end /\ Extends(h, fn', {})
  <2>1. fn' = SetCurrent(h, end) /\ end \in Nat /\ h \in AnyFn
    BY <1>2, <1>5, <1>9
  <2>2. QED
    BY <2>1, Moved
<1>11. Extends(fn, fn', Mine)
  <2>1. fn \in AnyFn /\ \A x : x \in Mine \cup {} => x \in Mine
    BY <1>1 DEF LoweringInv, FrameInv, GoodFn
  <2>2. QED
    BY <1>9, <1>10, <2>1, ExtendsAll
<1> DEFINE R == r[1]
           T == Items(Top) \o R
           N == {<<R, <<end, 1>>>>}
           S2 == S \cup N
           r2 == <<>> \o Tail(r)
<1>12. /\ Steps(r, S, <<>>, <<>>, r2) /\ Latest(<<>>, <<>>, R) = R /\ R \in Todos
       /\ CallsReady(<<>>, <<>>, S2)
  BY <1>1, <1>2, <1>4, StepsNone
<1>13. Items(Top) = <<Item0("loop", n)>> /\ Owes(Top, R) = {<<end, R>>}
  BY <1>2 DEF Items, Owes, SourceLabels, end
<1>14. <<T, <<entry, 1>>>> \in S
  <2>1. 1 \in 1 .. Len(frames) /\ frames[1] = Top
    BY <1>2, <1>3, EmptySeq DEF Top
  <2>2. Looping(frames[1], r[1]) \in S
    BY <1>2, <1>4, <2>1 DEF Code, LoopFrames
  <2>3. QED
    BY <1>13, <2>1, <2>2 DEF Looping, entry
<1>15. S2 = S \cup N /\ <<R, <<end, 1>>>> \in S2 /\ <<T, <<entry, 1>>>> \in S2
  BY <1>14
<1> HIDE DEF S2, r2
<1>16. N \subseteq Meanings \X Place
  <2>1. <<end, 1>> \in Place /\ R \in Meanings
    BY <1>5, <1>12, PlaceOf, TodosAreMeanings
  <2>2. QED
    BY <2>1
<1>17. Fits(fn', frames', r2, S2, R, <<end, 1>>)
  <2>1. fn'.current # NoBlock /\ end = fn'.current /\ 1 = Len(fn'.blocks[end]) + 1
    BY <1>5, <1>9, <1>10, EmptySeq
  <2> HIDE DEF R
  <2>2. R = Latest(<<>>, <<>>, r[1])
    BY <1>12 DEF R
  <2>3. QED
    BY <1>1, <1>12, <2>1, <2>2, NowFits
<1>18. ASSUME b # NoBlock PROVE Fits(fn', frames', r2, S2, T, <<b, k>>)
  <2>1. JumpsTo(h, b, k, to) /\ <<T, <<to, 1>>>> \in S2
    BY <1>9, <1>15, <1>18
  <2> HIDE DEF T, b, k
  <2>2. QED
    BY <1>3, <1>10, <2>1, JumpFits
<1>19. Fulfilled(r, r2, N, S2)
  <2>1. \A x \in N : x[1] = R /\ x[2] = <<end, 1>>
    OBVIOUS
  <2>2. \A x \in N : Fits(fn', frames', r2, S2, x[1], x[2])
    BY <1>17, <2>1
  <2>3. QED
    BY <1>13, <1>17, <1>18, <2>2 DEF Fulfilled
<1> HIDE DEF N
<1>20. QED
  BY <1>1, <1>11, <1>12, <1>15, <1>16, <1>19, Filled

(* A set of numbers has a least one. *)
LEMMA LeastOf ==
  ASSUME NEW T, T \subseteq Nat, T # {}
  PROVE  \E x \in T : \A y \in T : x <= y
<1> DEFINE R == OpToRel(<, Nat)
<1>1. IsWellFoundedOn(R, Nat)
  BY NatLessThanWellFounded, Zenon
<1>2. \A x, y \in Nat : x < y => <<x, y>> \in R
  BY DEF OpToRel
<1> HIDE DEF R
<1>3. \E x \in T : \A y \in T : ~ (<<y, x>> \in R)
  BY <1>1, WFMin
<1>4. PICK x \in T : \A y \in T : ~ (<<y, x>> \in R)
  BY <1>3
<1>5. ASSUME NEW y \in T PROVE x <= y
  <2>1. x \in Nat /\ y \in Nat
    OBVIOUS
  <2>2. ~ (y < x)
    BY <1>2, <1>4, <2>1
  <2>3. QED
    BY <2>1, <2>2
<1>6. QED
  BY <1>5

\* A break or continue is in the body of its loop, not in the condition.
LEMMA InBody ==
  ASSUME LoweringInv, frames # <<>>, Top.at = "stmt",
         NEW m \in 1 .. Len(frames), frames[m].at = "test"
  PROVE  FALSE
<1> DEFINE D == {d \in Nat : m - d \in 1 .. m - 1 /\ frames[m - d].at \notin ExpLabels}
<1>1. /\ frames \in Seq(FrameRecord) /\ Len(frames) \in Nat /\ Top = frames[1] /\ m \in Nat
      /\ \A k \in 1 .. Len(frames) - 1 : Sits(frames[k].at, frames[k + 1].at)
  <2>1. frames \in Seq(FrameRecord) /\ \A k \in 1 .. Len(frames) - 1 : Sits(frames[k].at, frames[k + 1].at)
    BY DEF LoweringInv, FrameInv
  <2>2. QED
    BY <2>1, LenProperties DEF Top
<1>2. m - 1 \in D
  <2>1. m # 1
    BY <1>1
  <2>2. m - 1 \in Nat /\ m - (m - 1) = 1 /\ 1 \in 1 .. m - 1
    BY <1>1, <2>1
  <2>3. frames[1].at \notin ExpLabels
    BY <1>1 DEF ExpLabels
  <2>4. QED
    BY <2>2, <2>3
<1>3. D \subseteq Nat /\ D # {}
  BY <1>2
<1> HIDE DEF D
<1>4. PICK d \in D : \A e \in D : d <= e
  BY <1>3, LeastOf
<1> DEFINE j == m - d
<1>5. /\ d \in Nat /\ j \in 1 .. m - 1 /\ frames[j].at \notin ExpLabels /\ d >= 1
      /\ j \in 1 .. Len(frames) - 1 /\ j + 1 \in 1 .. m
  BY <1>1, <1>4 DEF D
<1>6. frames[j + 1].at \in InExpression
  <2>1. CASE j + 1 = m
    BY <2>1 DEF InExpression
  <2>2. CASE j + 1 # m
    <3>1. d - 1 \in Nat /\ m - (d - 1) = j + 1 /\ j + 1 \in 1 .. m - 1 /\ ~(d <= d - 1)
      BY <1>1, <1>5, <2>2
    <3>2. d - 1 \notin D
      BY <1>4, <3>1
    <3>3. frames[j + 1].at \in ExpLabels
      BY <3>1, <3>2 DEF D
    <3>4. QED
      BY <3>3 DEF InExpression
  <2>3. QED
    BY <2>1, <2>2
<1>7. frames[j + 1].at \in InStatement
  BY <1>1, <1>5 DEF Sits
<1>8. QED
  BY <1>6, <1>7 DEF InExpression, InStatement, ExpLabels

(* A statement that is lowered in a loop: loop_stack_ names its innermost loop frame. *)
LEMMA InLoop ==
  ASSUME LoweringInv, Nesting, loops # <<>>, frames # <<>>, Top.at = "stmt"
  PROVE  \E m \in 2 .. Len(frames) :
           /\ frames[m].at = "loop"
           /\ \A j \in 2 .. m - 1 : frames[j].at # "loop"
           /\ ControlTarget.break = frames[m].refs[2]
           /\ ControlTarget.continue = frames[m].refs[1]
<1>1. PICK s : /\ Marks(s, frames, LoopLabels) /\ Len(loops) = Len(s)
               /\ \A i \in 1 .. Len(s) : loops[i] = Targets(frames[s[i]])
  BY DEF Nesting, LoopInv
<1>2. loops \in Seq([break : Nat, continue : Nat])
  BY DEF Nesting, LoopInv
<1>3. 1 \in 1 .. Len(s) /\ ControlTarget = loops[1] /\ Len(s) \in Nat
  <2>1. Len(loops) \in Nat \ {0}
    BY <1>2, EmptySeq, LenProperties
  <2>2. QED
    BY <1>1, <1>2, <2>1 DEF ControlTarget
<1> DEFINE m == s[1]
<1>4. m \in 1 .. Len(frames) /\ frames[m].at \in LoopLabels /\ m \in Nat
  BY <1>1, <1>3 DEF Marks
<1>5. ControlTarget = Targets(frames[m])
  BY <1>1, <1>3
<1>6. \A j \in 1 .. Len(frames) : frames[j].at \in LoopLabels => m <= j
  <2> SUFFICES ASSUME NEW j \in 1 .. Len(frames), frames[j].at \in LoopLabels PROVE m <= j
    OBVIOUS
  <2>1. PICK i \in 1 .. Len(s) : s[i] = j
    BY <1>1 DEF Marks
  <2>2. i = 1 \/ 1 < i
    BY <1>3
  <2>3. QED
    BY <1>1, <1>3, <1>4, <2>1, <2>2 DEF Marks
<1> HIDE DEF m
<1>7. frames[m].at = "loop"
  BY <1>4, InBody DEF LoopLabels
<1>8. FrameOK(frames[m], Len(fn.blocks)) /\ Top = frames[1]
  <2>1. frames \in Seq(FrameRecord) /\ \A k \in 1 .. Len(frames) : FrameOK(frames[k], Len(fn.blocks))
    BY DEF LoweringInv, FrameInv
  <2>2. QED
    BY <1>4, <2>1 DEF Top
<1>9. Len(frames[m].refs) = 2
  BY <1>7, <1>8 DEF FrameOK
<1>10. m \in 2 .. Len(frames) /\ Len(frames) \in Nat
  <2>1. m # 1
    BY <1>7, <1>8
  <2>2. Len(frames) \in Nat
    BY LenProperties DEF LoweringInv, FrameInv
  <2>3. QED
    BY <1>4, <2>1, <2>2
<1>11. \A j \in 2 .. m - 1 : frames[j].at # "loop"
  <2>1. \A j \in 2 .. m - 1 : j \in 1 .. Len(frames) /\ ~(m <= j)
    BY <1>10
  <2>2. QED
    BY <1>6, <2>1 DEF LoopLabels
<1>12. ControlTarget.break = frames[m].refs[2] /\ ControlTarget.continue = frames[m].refs[1]
  BY <1>5, <1>9 DEF Targets
<1>13. QED
  BY <1>7, <1>10, <1>11, <1>12

LEMMA RejectLoopControlCode == Inv /\ Inv' /\ CodeInv /\ RejectLoopControl => CodeInv'
<1> SUFFICES ASSUME CodeInv, RejectLoopControl PROVE CodeInv'
  OBVIOUS
<1>1. UNCHANGED <<program, frames, fn>>
  BY DEF RejectLoopControl
<1>2. PICK S, r : Code(fn, frames, r, S)
  BY DEF CodeInv
<1>3. Code(fn', frames', r, S)
  BY <1>1, <1>2
<1>4. QED
  BY <1>1, <1>3, CodePrimed

LEMMA LoopControlCode == Inv /\ Inv' /\ CodeInv /\ LoopControl => CodeInv'
<1> SUFFICES ASSUME Inv, Inv', CodeInv, LoopControl PROVE CodeInv'
  OBVIOUS
<1> DEFINE n == Top.node
           b == fn.current
           k == Len(fn.blocks[b]) + 1
           to == ControlTarget[Kind(n)]
           jump == Jump(to)
<1>1. LoweringInv /\ LoweringInv' /\ Nesting
  BY DEF Inv
<1>2. /\ frames # <<>> /\ Top.at = "stmt" /\ b # NoBlock /\ loops # <<>>
      /\ Kind(n) \in {"break", "continue"} /\ fn' = Terminate(fn, jump)
      /\ frames' = Tail(frames) /\ UNCHANGED program
  BY DEF LoopControl, At, Return
<1>3. n \in Node /\ IsAst(program) /\ frames \in Seq(FrameRecord)
  BY <1>1, <1>2, TopFacts DEF FrameRecord
<1>4. PICK S, r : Code(fn, frames, r, S)
  BY DEF CodeInv
<1>5. fn \in AnyFn /\ b \in 1 .. Len(fn.blocks) /\ b \in Nat /\ k \in Nat \ {0} /\ b \in Mine
      /\ Len(fn.blocks) \in Nat
  BY <1>1, <1>2, Here
<1>6. PICK m \in 2 .. Len(frames) :
        /\ frames[m].at = "loop" /\ \A j \in 2 .. m - 1 : frames[j].at # "loop"
        /\ ControlTarget.break = frames[m].refs[2]
        /\ ControlTarget.continue = frames[m].refs[1]
  BY <1>1, <1>2, InLoop
<1>7. to \in Nat
  <2>1. ControlTarget.break \in Nat /\ ControlTarget.continue \in Nat
    BY <1>1, <1>2, <1>5, InnermostLoop
  <2>2. QED
    BY <1>2, <2>1
<1>8. jump \in AnyInstruction /\ jump = Jump(to)
  BY <1>3, <1>7, Instructions DEF IsAst
<1> HIDE DEF to, jump
<1>9. Put(fn, fn', b, k, jump) /\ fn' \in AnyFn
  BY <1>2, <1>5, <1>8, Terminated
<1>10. Extends(fn, fn', Mine) /\ JumpsTo(fn', b, k, to) /\ Extends(fn', fn', {})
  <2>1. Extends(fn, fn', {b}) /\ Extends(fn', fn', {})
    BY <1>9, SameExtends DEF Put
  <2>2. \A x : x \in {b} \cup {} => x \in Mine
    BY <1>5
  <2>3. Extends(fn, fn', Mine)
    BY <1>5, <1>9, <2>1, <2>2, ExtendsAll
  <2>4. JumpsTo(fn', b, k, to)
    BY <1>8, <1>9 DEF JumpsTo, Put
  <2>5. QED
    BY <2>1, <2>3, <2>4
<1> DEFINE R == r[1]
           Q == r[m]
           x == frames[m].node
           L == <<Item0("loop", x)>> \o Q
           T == <<Item0("stmt", n)>> \o R
<1>11. /\ 1 \in 1 .. Len(frames) /\ m \in 1 .. Len(frames) /\ 1 < m /\ Len(frames) \in Nat
       /\ m \in Nat /\ r \in Seq(Todos) /\ Len(r) = Len(frames)
  BY <1>2, <1>3, <1>4, LenProperties DEF Code
<1>12. Q \in Todos /\ R \in Todos /\ x \in Node
  <2>1. Q \in Todos /\ R \in Todos
    BY <1>11
  <2>2. frames[m] \in FrameRecord
    BY <1>3, <1>11
  <2>3. QED
    BY <2>1, <2>2 DEF FrameRecord
<1>13. Ahead(R, L) /\ <<L, <<frames[m].refs[1], 1>>>> \in S
  <2>1. \A j \in 1 + 1 .. m - 1 : frames[j].at # "loop"
    BY <1>6
  <2>2. Ahead(R, L)
    BY <1>4, <1>6, <1>11, <2>1 DEF Code
  <2>3. Looping(frames[m], r[m]) \in S
    BY <1>4, <1>6, <1>11 DEF Code, LoopFrames
  <2>4. QED
    BY <2>2, <2>3 DEF Looping
<1>14. L # <<>> /\ Tail(L) = Q
  <2>1. "loop" \in ItemLabels
    BY DEF ItemLabels, SourceLabels
  <2> HIDE DEF Q, x
  <2>2. L = <<Item0("loop", x)>> \o Q
    OBVIOUS
  <2> HIDE DEF L
  <2>3. QED
    BY <1>12, <2>1, <2>2, HeadItem, SMTT(30)
<1>15. T \in Meanings /\ Items(Top) \o R = T /\ Owes(Top, R) = {} /\ "stmt" \in SourceLabels
  <2>1. "stmt" \in SourceLabels
    BY DEF SourceLabels
  <2>2. Items(Top) = <<Item0("stmt", n)>> /\ Owes(Top, R) = {}
    BY <1>2, <2>1 DEF Items, Owes
  <2>3. T \in Meanings
    BY <1>3, <1>12, <2>1, ItemTodo
  <2>4. QED
    BY <2>1, <2>2, <2>3
<1>16. \A U : Advances("stmt", n, R, U) => Quiet(T, U)
  BY <1>3, <1>12, <1>15, QuietItem
<1> DEFINE r2 == <<>> \o Tail(r)
<1>17. /\ Steps(r, S, <<>>, <<>>, r2) /\ \A S2 : CallsReady(<<>>, <<>>, S2)
  BY <1>1, <1>2, <1>4, StepsNone
<1>18. ASSUME NEW N, NEW S2, S2 = S \cup N, <<T, <<to, 1>>>> \in N
       PROVE  Fits(fn', frames', r2, S2, Items(Top) \o R, <<b, k>>)
  <2>1. <<T, <<to, 1>>>> \in S2
    BY <1>18
  <2> HIDE DEF T, R, b, k
  <2>2. Fits(fn', frames', r2, S2, T, <<b, k>>)
    BY <1>3, <1>9, <1>10, <2>1, JumpFits
  <2>3. QED
    BY <1>15, <2>2
<1>19. CASE Kind(n) = "continue"
  <2> DEFINE N == {<<T, <<to, 1>>>>}
             S2 == S \cup N
  <2>1. to = frames[m].refs[1]
    BY <1>6, <1>19 DEF to
  <2>2. <<L, <<to, 1>>>> \in S2
    BY <1>13, <2>1
  <2>3. S2 = S \cup N /\ <<T, <<to, 1>>>> \in N
    OBVIOUS
  <2> HIDE DEF S2
  <2>4. Fits(fn', frames', r2, S2, T, <<to, 1>>)
    <3>1. Advances("stmt", n, R, L)
      BY <1>13, <1>19 DEF Advances
    <3>2. Quiet(T, L)
      BY <1>16, <3>1
    <3> HIDE DEF T, L
    <3>3. QED
      BY <2>2, <3>2, QuietFits
  <2>5. N \subseteq Meanings \X Place
    <3>1. <<to, 1>> \in Place
      BY <1>7, PlaceOf
    <3>2. T \in Meanings
      BY <1>15
    <3> HIDE DEF T
    <3>3. QED
      BY <3>1, <3>2
  <2> HIDE DEF T, b, k, r2
  <2>6. Fulfilled(r, r2, N, S2)
    <3>1. \A y \in N : y[1] = T /\ y[2] = <<to, 1>>
      OBVIOUS
    <3>2. \A y \in N : Fits(fn', frames', r2, S2, y[1], y[2])
      BY <2>4, <3>1
    <3>3. Fits(fn', frames', r2, S2, Items(Top) \o R, <<b, k>>)
      BY <1>18, <2>3
    <3>4. QED
      BY <1>15, <3>2, <3>3 DEF Fulfilled, b, k
  <2> HIDE DEF N
  <2>7. CallsReady(<<>>, <<>>, S2)
    BY <1>17
  <2>8. QED
    BY <1>1, <1>10, <1>17, <2>3, <2>5, <2>6, <2>7, Filled
<1>20. CASE Kind(n) = "break"
  <2> DEFINE N == {<<T, <<to, 1>>>>, <<Q, <<to, 1>>>>}
             S2 == S \cup N
  <2>1. to = frames[m].refs[2]
    BY <1>6, <1>20 DEF to
  <2>2. S2 = S \cup N /\ <<T, <<to, 1>>>> \in N /\ <<Q, <<to, 1>>>> \in S2
    OBVIOUS
  <2> HIDE DEF S2
  <2>3. Fits(fn', frames', r2, S2, T, <<to, 1>>)
    <3>1. Advances("stmt", n, R, Q)
      BY <1>13, <1>14, <1>20 DEF Advances
    <3>2. Quiet(T, Q)
      BY <1>16, <3>1
    <3> HIDE DEF T, Q
    <3>3. QED
      BY <2>2, <3>2, QuietFits
  <2>4. to \in Opens(fn') /\ fn'.blocks[to] = <<>> /\ <<to, Q>> \in Owes(frames[m], Q)
    <3>1. to \in Owned(frames[m]) /\ <<to, Q>> \in Owes(frames[m], Q)
      BY <1>6, <2>1 DEF Owned, Owes
    <3>2. to \in Opens(fn) \ Current /\ Owned(frames[m]) \cap Owned(frames[1]) = {}
      BY <1>1, <1>11, <3>1 DEF LoweringInv, OwnInv
    <3>3. to # b /\ fn.blocks[to] = <<>>
      BY <1>2, <1>4, <3>2 DEF Code, Current
    <3>4. fn'.blocks[to] = <<>>
      <4>1. to \in 1 .. Len(fn.blocks)
        BY <3>2 DEF Opens
      <4>2. QED
        BY <1>9, <3>3, <4>1 DEF Put
    <3>5. to \in 1 .. Len(fn'.blocks)
      <4>1. to \in 1 .. Len(fn.blocks)
        BY <3>2 DEF Opens
      <4>2. QED
        BY <1>9, <4>1 DEF Put
    <3>6. to \in Opens(fn')
      BY <3>4, <3>5, EmptySeq DEF Opens
    <3>7. QED
      BY <3>1, <3>4, <3>6
  <2>5. Fits(fn', frames', r2, S2, Q, <<to, 1>>)
    <3> DEFINE j == m - 1
    <3>1. Shifted(<<>>, <<>>, r, r2)
      BY <1>1, <1>17, StacksFacts DEF Steps
    <3>2. Len(<<>>) = 0
      BY EmptySeq
    <3>3. /\ Len(frames') = Len(frames) - 1 
          /\ \A i \in 2 .. Len(frames) : frames'[0 + i - 1] = frames[i] /\ r2[0 + i - 1] = r[i]
      BY <1>11, <3>1, <3>2 DEF Shifted
    <3>4. j \in 1 .. Len(frames') /\ 0 + m - 1 = j
      BY <1>11, <3>3
    <3>5. frames'[j] = frames[m] /\ r2[j] = Q
      BY <1>6, <3>3, <3>4
    <3>6. <<to, Q>> \in Owes(frames'[j], r2[j]) /\ 1 = Len(fn'.blocks[to]) + 1
      <4>1. Len(fn'.blocks[to]) = 0
        BY <2>4, EmptySeq
      <4> HIDE DEF j, Q, r2
      <4>2. <<to, Q>> \in Owes(frames'[j], r2[j])
        BY <2>4, <3>5
      <4>3. QED
        BY <4>1, <4>2
    <3> HIDE DEF j, Q, r2
    <3>7. QED
      BY <2>4, <3>4, <3>6, FitsOwed
  <2>6. N \subseteq Meanings \X Place
    <3>1. <<to, 1>> \in Place /\ Q \in Meanings
      BY <1>7, <1>12, PlaceOf, TodosAreMeanings
    <3>2. T \in Meanings
      BY <1>15
    <3> HIDE DEF T, Q
    <3>3. QED
      BY <3>1, <3>2
  <2> HIDE DEF T, b, k, r2, Q
  <2>7. Fulfilled(r, r2, N, S2)
    <3>1. \A y \in N : y[2] = <<to, 1>> /\ (y[1] = T \/ y[1] = Q)
      OBVIOUS
    <3>2. \A y \in N : Fits(fn', frames', r2, S2, y[1], y[2])
      BY <2>3, <2>5, <3>1
    <3>3. Fits(fn', frames', r2, S2, Items(Top) \o R, <<b, k>>)
      BY <1>18, <2>2
    <3>4. QED
      BY <1>15, <3>2, <3>3 DEF Fulfilled, b, k
  <2> HIDE DEF N
  <2>8. CallsReady(<<>>, <<>>, S2)
    BY <1>17
  <2>9. QED
    BY <1>1, <1>10, <1>17, <2>2, <2>6, <2>7, <2>8, Filled
<1>21. QED
  BY <1>2, <1>19, <1>20

LEMMA StartLoopCode == Inv /\ Inv' /\ CodeInv /\ StartLoop => CodeInv'
<1> SUFFICES ASSUME Inv, Inv', CodeInv, StartLoop PROVE CodeInv'
  OBVIOUS
<1> DEFINE n == Top.node
           m == Len(fn.blocks)
           b == fn.current
           k == Len(fn.blocks[b]) + 1
           entry == m + 1
           jump == Jump(entry)
           f1 == Three(fn)
           f2 == Terminate(f1, jump)
           a == Exp(Kids(n)[1])
           e == Frame("test", n, <<m + 1, m + 2, m + 3>>)
<1>1. LoweringInv /\ LoweringInv'
  BY DEF Inv
<1>2. /\ frames # <<>> /\ Top.at = "stmt" /\ Kind(n) = "while" /\ b # NoBlock
      /\ fn' = SetCurrent(f2, entry)
      /\ frames' = <<a, e>> \o Tail(frames) /\ UNCHANGED program
  BY DEF StartLoop, AtStmt, At, GoOn, Three, Newest
<1>3. n \in Node /\ IsAst(program)
  BY <1>1, <1>2, TopFacts DEF FrameRecord
<1>4. PICK S, r : Code(fn, frames, r, S)
  BY DEF CodeInv
<1>5. /\ fn \in AnyFn /\ b \in 1 .. m /\ b \in Nat /\ k \in Nat \ {0} /\ b \in Mine /\ m \in Nat
  <2>1. LoweringInv /\ fn.current # NoBlock
    BY <1>1, <1>2
  <2>2. QED
    BY ONLY <2>1, Here
<1>6. /\ f1 \in AnyFn /\ Len(f1.blocks) = m + 3 /\ f1.current = b
      /\ Extends(fn, f1, {}) /\ \A x \in 1 .. m : f1.blocks[x] = fn.blocks[x]
      /\ \A x \in m + 1 .. m + 3 : f1.blocks[x] = <<>>
  <2>1. fn \in AnyFn /\ f1 = Three(fn) /\ m = Len(fn.blocks) /\ b = fn.current
    BY <1>5
  <2> HIDE DEF m, b, f1
  <2>2. QED
    BY <2>1, ThreeMade
<1> HIDE DEF f1
<1>7. jump \in AnyInstruction /\ jump = Jump(entry) /\ entry \in Nat /\ entry # NoBlock
  <2>1. entry \in Nat /\ entry # NoBlock
    BY <1>5 DEF NoBlock
  <2> HIDE DEF entry
  <2>2. QED
    BY <1>3, <2>1, Instructions DEF IsAst
<1> HIDE DEF jump
<1>8. Put(f1, f2, b, k, jump) /\ f2 \in AnyFn
  <2>1. b \in 1 .. Len(f1.blocks) /\ f1.blocks[b] = fn.blocks[b]
    BY <1>5, <1>6
  <2>2. k = Len(f1.blocks[b]) + 1 /\ b = f1.current
    BY <1>6, <2>1
  <2> HIDE DEF k, b
  <2>3. QED
    BY <1>6, <1>7, <2>1, <2>2, Terminated
<1>9. fn' \in AnyFn /\ fn'.blocks = f2.blocks /\ fn'.current = entry /\ Extends(f2, fn', {})
  <2>1. fn' = SetCurrent(f2, entry) /\ entry \in Nat /\ f2 \in AnyFn
    BY <1>2, <1>7, <1>8
  <2> HIDE DEF f2, entry
  <2>2. QED
    BY <2>1, Moved
<1> HIDE DEF f2
<1>10. Extends(fn, fn', Mine) /\ JumpsTo(f2, b, k, entry)
  <2>1. Extends(f1, f2, {b})
    BY <1>8 DEF Put
  <2>2. Extends(f1, fn', {b})
    BY <1>6, <1>8, <1>9, <2>1, ExtendsAll
  <2>3. \A x : x \in {} \cup {b} => x \in Mine
    BY <1>5
  <2>4. Extends(fn, fn', Mine)
    BY <1>5, <1>6, <1>9, <2>2, <2>3, ExtendsAll
  <2>5. JumpsTo(f2, b, k, entry)
    BY <1>7, <1>8 DEF Put, JumpsTo
  <2>6. QED
    BY <2>4, <2>5
<1>11. \A x \in m + 1 .. m + 3 : fn'.blocks[x] = <<>>
  <2> SUFFICES ASSUME NEW x \in m + 1 .. m + 3 PROVE fn'.blocks[x] = <<>>
    OBVIOUS
  <2>1. x \in 1 .. Len(f1.blocks) /\ x # b
    BY <1>5, <1>6
  <2>2. QED
    BY <1>6, <1>8, <1>9, <2>1 DEF Put
<1>12. a = Item0("exp", Kids(n)[1]) /\ Kids(n)[1] \in Node /\ Bare(a)
  <2>1. Kids(n)[1] \in Node
    BY <1>2, <1>3, BranchingKids
  <2>2. QED
    BY <2>1 DEF Exp, Item0, Frame, Bare
<1>13. e.at = "test" /\ e.node = n /\ e.refs[1] = entry /\ Owned(e) \subseteq m + 1 .. m + 3
  <2>1. e.at = "test" /\ e.node = n /\ e.refs[1] = entry /\ Owned(e) = {m + 2, m + 3}
    BY DEF Frame, Owned
  <2>2. m + 2 \in m + 1 .. m + 3 /\ m + 3 \in m + 1 .. m + 3
    BY <1>5
  <2>3. QED
    BY <2>1, <2>2
<1> DEFINE R == r[1]
           T == <<Item0("stmt", n)>> \o R
           L == <<Item0("loop", n)>> \o R
           U == <<a>> \o (<<Item0("test", n)>> \o R)
           N == {<<T, <<entry, 1>>>>, <<L, <<entry, 1>>>>, <<U, <<entry, 1>>>>}
           S2 == S \cup N
           calls == <<a, e>>
           c == <<Items(e) \o R, R>>
           r2 == c \o Tail(r)
<1> HIDE DEF e
<1>14. Items(a) = <<a>> /\ Items(e) = <<Item0("test", n)>>
  BY <1>12, <1>13 DEF Items, SourceLabels, Item0, Frame
<1>15. a = Exp(Kids(n)[1])
  OBVIOUS
<1> HIDE DEF a
<1>16. r2 = c \o Tail(r) /\ calls = <<a, e>> /\ c = <<Items(e) \o r[1], r[1]>>
  OBVIOUS
<1>17. /\ S2 = S \cup N /\ <<T, <<entry, 1>>>> \in S2 /\ <<L, <<entry, 1>>>> \in S2
       /\ <<U, <<entry, 1>>>> \in S2
  OBVIOUS
<1> HIDE DEF r2, c, calls, S2
<1>18. Steps(r, S, calls, c, r2) /\ Latest(calls, c, R) = U /\ R \in Todos
  <2>1. frames # <<>> /\ frames' = <<a, e>> \o Tail(frames) /\ UNCHANGED program
    BY <1>2, <1>15
  <2>2. /\ Steps(r, S, calls, c, r2) /\ Latest(calls, c, R) = Items(a) \o (Items(e) \o R)
        /\ R \in Todos
    BY <1>1, <1>4, <1>12, <1>16, <2>1, StepsTwo
  <2>3. QED
    BY <1>14, <2>2
<1>19. CallsReady(calls, c, S2)
  <2>1. Looping(e, R) \in S2
    BY <1>13, <1>17 DEF Looping
  <2>2. \A d \in Owned(e) : fn'.blocks[d] = <<>>
    BY <1>11, <1>13
  <2>3. LastReady(e, R, S2)
    BY <2>1, <2>2 DEF LastReady
  <2>4. QED
    BY <1>12, <1>16, <2>3, ReadyTwo
<1>20. T \in Meanings /\ L \in Meanings /\ U \in Meanings /\ <<Item0("test", n)>> \o R \in Todos
  <2>1. "stmt" \in SourceLabels /\ "loop" \in SourceLabels /\ "test" \in SourceLabels
        /\ "exp" \in SourceLabels
    BY DEF SourceLabels
  <2>2. T \in Meanings /\ L \in Meanings /\ <<Item0("test", n)>> \o R \in Todos
    BY <1>3, <1>18, <2>1, ItemTodo
  <2>3. U \in Meanings
    BY <1>12, <2>1, <2>2, ItemTodo
  <2>4. QED
    BY <2>2, <2>3
<1>21. Items(Top) \o R = T /\ Owes(Top, R) = {}
  BY <1>2 DEF Items, Owes, SourceLabels
<1>22. Quiet(T, U) /\ Quiet(L, T)
  <2>1. "stmt" \in SourceLabels /\ "loop" \in SourceLabels /\ "test" \in SourceLabels
        /\ "exp" \in SourceLabels
    BY DEF SourceLabels
  <2>2. <<a, Item0("test", n)>> \o R = U
    <3>1. a \in SourceItem /\ Item0("test", n) \in SourceItem
      BY <1>3, <1>12, <2>1, SourceItems
    <3>2. QED
      BY <1>18, <3>1, TwoItems
  <2>3. Advances("stmt", n, R, U)
    BY <1>2, <1>15, <2>2 DEF Advances
  <2>4. Advances("loop", n, R, T)
    BY <1>2, <1>3, SourceItems DEF Advances
  <2> HIDE DEF R, U
  <2>5. Quiet(T, U)
    BY <1>3, <1>18, <2>1, <2>3, QuietItem
  <2>6. Quiet(L, T)
    BY <1>3, <1>18, <2>1, <2>4, QuietItem
  <2>7. QED
    BY <2>5, <2>6
<1> HIDE DEF T, L, U
<1>23. N \subseteq Meanings \X Place
  <2>1. <<entry, 1>> \in Place
    BY <1>7, PlaceOf
  <2>2. QED
    BY <1>20, <2>1
<1> HIDE DEF entry
<1>24. Fits(fn', frames', r2, S2, T, <<entry, 1>>)
  BY <1>17, <1>22, QuietFits
<1>25. Fits(fn', frames', r2, S2, L, <<entry, 1>>)
  BY <1>17, <1>22, QuietFits
<1>26. Fits(fn', frames', r2, S2, U, <<entry, 1>>)
  <2>1. entry \in m + 1 .. m + 3
    BY <1>5 DEF entry
  <2>2. fn'.current # NoBlock /\ entry = fn'.current /\ 1 = Len(fn'.blocks[entry]) + 1
    BY <1>7, <1>9, <1>11, <2>1, EmptySeq
  <2>3. QED
    BY <1>1, <1>18, <2>2, NowFits
<1>27. Fits(fn', frames', r2, S2, T, <<b, k>>)
  <2> HIDE DEF b, k
  <2>1. QED
    BY <1>3, <1>9, <1>10, <1>17, JumpFits
<1>28. Fulfilled(r, r2, N, S2)
  <2>1. \A x \in N : x[2] = <<entry, 1>> /\ (x[1] = T \/ x[1] = L \/ x[1] = U)
    OBVIOUS
  <2>2. \A x \in N : Fits(fn', frames', r2, S2, x[1], x[2])
    BY <1>24, <1>25, <1>26, <2>1
  <2>3. QED
    BY <1>21, <1>27, <2>2 DEF Fulfilled
<1> HIDE DEF N
<1>29. QED
  BY <1>1, <1>10, <1>17, <1>18, <1>19, <1>23, <1>28, Filled

LEMMA TestLoopCode == Inv /\ Inv' /\ CodeInv /\ TestLoop => CodeInv'
<1> SUFFICES ASSUME Inv, Inv', CodeInv, TestLoop PROVE CodeInv'
  OBVIOUS
<1> DEFINE n == Top.node
           m == Len(fn.blocks)
           b == fn.current
           k == Len(fn.blocks[b]) + 1
           entry == Top.refs[1]
           body == Top.refs[2]
           end == Top.refs[3]
           branch == Br(Kids(n)[1], body, end)
           f1 == Terminate(fn, branch)
           a == Stmt(Kids(n)[2])
           e == Frame("loop", n, <<entry, end>>)
<1>1. LoweringInv /\ LoweringInv'
  BY DEF Inv
<1>2. /\ frames # <<>> /\ Top.at = "test" /\ b # NoBlock /\ fn' = SetCurrent(f1, body)
      /\ frames' = <<a, e>> \o Tail(frames) /\ UNCHANGED program
  BY DEF TestLoop, At, GoOn
<1>3. /\ n \in Node /\ IsAst(program) /\ Kind(n) = "while" /\ FrameOK(Top, m)
      /\ Owned(Top) \subseteq Opens(fn) \ Current /\ frames \in Seq(FrameRecord)
  BY <1>1, <1>2, TopFacts DEF FrameRecord, FrameOK
<1>4. PICK S, r : Code(fn, frames, r, S)
  BY DEF CodeInv
<1>5. /\ fn \in AnyFn /\ b \in 1 .. m /\ b \in Nat /\ k \in Nat \ {0} /\ b \in Mine /\ m \in Nat
  BY <1>1, <1>2, Here
<1>6. /\ body \in Nat /\ end \in Nat /\ body # NoBlock /\ body \in 1 .. m /\ end \in 1 .. m
      /\ body # end /\ Owned(Top) = {body, end}
  BY <1>2, <1>3, <1>5 DEF FrameOK, Owned, NoBlock
<1>7. /\ b # body /\ b # end /\ fn.blocks[body] = <<>> /\ fn.blocks[end] = <<>>
  BY <1>2, <1>3, <1>4, <1>6 DEF Current, Code
<1>8. Owes(Top, r[1]) = {<<body, Body(n) \o r[1]>>, <<end, r[1]>>}
      /\ Items(Top) = <<Item0("test", n)>>
  BY <1>2 DEF Owes, Items, SourceLabels
<1>9. <<<<Item0("loop", n)>> \o r[1], <<entry, 1>>>> \in S
  <2>1. 1 \in 1 .. Len(frames) /\ frames[1] = Top
    BY <1>2, <1>3, EmptySeq DEF Top
  <2>2. Looping(frames[1], r[1]) \in S
    BY <1>2, <1>4, <2>1 DEF Code, LoopFrames
  <2>3. QED
    BY <2>1, <2>2 DEF Looping
<1>10. e.at = "loop" /\ e.node = n /\ e.refs[1] = entry /\ e.refs[2] = end /\ Owned(e) = {end}
  BY DEF Frame, Owned
<1> HIDE DEF entry, body, end, e
<1>11. branch \in AnyInstruction /\ branch = Br(Kids(n)[1], body, end)
  <2>1. Kids(n)[1] \in Node
    BY <1>3, BranchingKids
  <2>2. QED
    BY <1>6, <2>1, Instructions
<1> HIDE DEF branch
<1>12. Put(fn, f1, b, k, branch) /\ f1 \in AnyFn
  BY <1>5, <1>11, Terminated
<1> HIDE DEF f1
<1>13. fn' \in AnyFn /\ fn'.blocks = f1.blocks /\ fn'.current = body /\ Extends(f1, fn', {})
  <2>1. fn' = SetCurrent(f1, body) /\ body \in Nat /\ f1 \in AnyFn
    BY <1>2, <1>6, <1>12
  <2>2. QED
    BY <2>1, Moved
<1>14. Extends(fn, fn', Mine)
  <2>1. Extends(fn, f1, {b})
    BY <1>12 DEF Put
  <2>2. \A x : x \in {b} \cup {} => x \in Mine
    BY <1>5
  <2>3. QED
    BY <1>5, <1>12, <1>13, <2>1, <2>2, ExtendsAll
<1>15. fn'.blocks[body] = <<>> /\ fn'.blocks[end] = <<>>
  BY <1>6, <1>7, <1>12, <1>13 DEF Put
<1> DEFINE R == r[1]
           T == <<Item0("test", n)>> \o R
           L == <<Item0("loop", n)>> \o R
           U == <<a>> \o L
           N == {<<U, <<body, 1>>>>, <<R, <<end, 1>>>>}
           S2 == S \cup N
           calls == <<a, e>>
           c == <<Items(e) \o R, R>>
           r2 == c \o Tail(r)
<1>16. a = Item0("stmt", Kids(n)[2]) /\ Kids(n)[2] \in Node /\ Bare(a)
  <2>1. Kids(n)[2] \in Node
    BY <1>3, BranchingKids
  <2>2. QED
    BY <2>1 DEF Stmt, Item0, Frame, Bare
<1>17. Items(a) = <<a>> /\ Items(e) = <<Item0("loop", n)>> /\ Owes(e, R) = {<<end, R>>}
  BY <1>10, <1>16 DEF Items, Owes, SourceLabels, Item0, Frame
<1>18. a = Stmt(Kids(n)[2])
  OBVIOUS
<1> HIDE DEF a
<1>19. r2 = c \o Tail(r) /\ calls = <<a, e>> /\ c = <<Items(e) \o r[1], r[1]>>
  OBVIOUS
<1>20. /\ S2 = S \cup N /\ <<U, <<body, 1>>>> \in S2 /\ <<R, <<end, 1>>>> \in S2
       /\ <<L, <<entry, 1>>>> \in S2
  BY <1>9
<1> HIDE DEF r2, c, calls, S2
<1>21. Steps(r, S, calls, c, r2) /\ Latest(calls, c, R) = U /\ R \in Todos
  <2>1. frames # <<>> /\ frames' = <<a, e>> \o Tail(frames) /\ UNCHANGED program
    BY <1>2, <1>18
  <2>2. /\ Steps(r, S, calls, c, r2) /\ Latest(calls, c, R) = Items(a) \o (Items(e) \o R)
        /\ R \in Todos
    BY <1>1, <1>4, <1>16, <1>19, <2>1, StepsTwo
  <2>3. QED
    BY <1>17, <2>2
<1>22. /\ CallsReady(calls, c, S2) /\ 2 \in 1 .. Len(calls) /\ calls[2] = e /\ c[2] = R
  <2>1. Looping(e, R) \in S2
    BY <1>10, <1>20 DEF Looping
  <2>2. \A d \in Owned(e) : fn'.blocks[d] = <<>>
    BY <1>10, <1>15
  <2>3. LastReady(e, R, S2)
    BY <2>1, <2>2 DEF LastReady
  <2>4. QED
    BY <1>16, <1>19, <2>3, ReadyTwo
<1>23. /\ L \in Todos /\ U \in Meanings /\ R \in Meanings
       /\ Body(n) \o R = U /\ Otherwise(n) \o R = R
  <2>1. "stmt" \in SourceLabels /\ "loop" \in SourceLabels
    BY DEF SourceLabels
  <2>2. L \in Todos
    BY <1>3, <1>21, <2>1, ItemTodo
  <2>3. U \in Meanings /\ R \in Meanings
    <3> HIDE DEF L
    <3>1. QED
      BY <1>16, <1>21, <2>1, <2>2, ItemTodo, TodosAreMeanings
  <2>4. Otherwise(n) \o R = R
    <3>1. Otherwise(n) = <<>>
      BY <1>3, ChoicesTyped
    <3>2. <<>> \o R = R
      BY <1>21, JoinTodos
    <3>3. QED
      BY <3>1, <3>2
  <2>5. Body(n) \o R = U
    <3>1. Body(n) = <<a>> \o <<Item0("loop", n)>>
      BY <1>3, <1>18 DEF Body
    <3>2. a \in SourceItem /\ Item0("loop", n) \in SourceItem
      BY <1>3, <1>16, <2>1, SourceItems
    <3>3. <<a>> \in Seq(SourceItem) /\ <<Item0("loop", n)>> \in Seq(SourceItem) /\ R \in Seq(SourceItem)
      BY <1>21, <3>2 DEF Todos
    <3>4. QED
      BY <3>1, <3>3, ConcatAssociative
  <2>6. QED
    BY <2>2, <2>3, <2>4, <2>5
<1>24. Items(Top) \o R = T /\ Owes(Top, R) = {<<body, U>>, <<end, R>>}
  BY <1>8, <1>23
<1> HIDE DEF T, L, U
<1>25. N \subseteq Meanings \X Place
  <2>1. <<body, 1>> \in Place /\ <<end, 1>> \in Place
    BY <1>6, PlaceOf
  <2>2. U \in Meanings /\ R \in Meanings
    BY <1>23
  <2> HIDE DEF R
  <2>3. QED
    BY <2>1, <2>2
<1>26. Fits(fn', frames', r2, S2, U, <<body, 1>>)
  <2>1. fn'.current # NoBlock /\ body = fn'.current /\ 1 = Len(fn'.blocks[body]) + 1
    BY <1>6, <1>13, <1>15, EmptySeq
  <2>2. QED
    BY <1>1, <1>21, <2>1, NowFits
<1>27. Fits(fn', frames', r2, S2, R, <<end, 1>>)
  <2>1. end \in Owned(calls[2]) /\ <<end, R>> \in Owes(calls[2], c[2])
    BY <1>10, <1>17, <1>22
  <2> HIDE DEF R
  <2>2. QED
    BY <1>1, <1>15, <1>21, <1>22, <2>1, OwedFits
<1>28. Fits(fn', frames', r2, S2, T, <<b, k>>)
  <2>1. Performs(branch, S2, "test", n, R, <<b, k + 1>>)
    <3>1. <<Body(n) \o R, <<body, 1>>>> \in S2 /\ <<Otherwise(n) \o R, <<end, 1>>>> \in S2
      BY <1>20, <1>23
    <3> HIDE DEF R
    <3>2. QED
      BY <1>3, <1>11, <3>1 DEF Performs
  <2>2. "test" \in ItemLabels /\ T = <<Item0("test", n)>> \o R
    BY DEF ItemLabels, SourceLabels, T
  <2> HIDE DEF R
  <2>3. Does(branch, S2, T, <<b, k + 1>>)
    BY <1>3, <1>21, <2>1, <2>2, DoesItem
  <2>4. QED
    BY <1>12, <1>13, <2>3, PutFits
<1>29. Fulfilled(r, r2, N, S2)
  <2>1. \A x \in N : \/ x[1] = U /\ x[2] = <<body, 1>>
                     \/ x[1] = R /\ x[2] = <<end, 1>>
    OBVIOUS
  <2>2. \A x \in N : Fits(fn', frames', r2, S2, x[1], x[2])
    BY <1>26, <1>27, <2>1
  <2>3. \A y \in Owes(Top, R) : Fits(fn', frames', r2, S2, y[2], <<y[1], 1>>)
    <3>1. \A y \in Owes(Top, R) : \/ y[1] = body /\ y[2] = U
                                  \/ y[1] = end /\ y[2] = R
      BY <1>24
    <3>2. QED
      BY <1>26, <1>27, <3>1
  <2>4. QED
    BY <1>24, <1>28, <2>2, <2>3 DEF Fulfilled
<1> HIDE DEF N
<1>30. QED
  BY <1>1, <1>14, <1>20, <1>21, <1>22, <1>25, <1>29, Filled

(* When nothing is in progress, the end of the current block has nothing left to do. *)
LEMMA EndFunctionCode == Inv /\ Inv' /\ CodeInv /\ EndFunction => CodeInv'
<1> SUFFICES ASSUME Inv, Inv', CodeInv, EndFunction PROVE CodeInv'
  OBVIOUS
<1> DEFINE b == fn.current
           k == Len(fn.blocks[b]) + 1
           ret == Ret(program.root)
<1>1. LoweringInv /\ LoweringInv'
  BY DEF Inv
<1>2. /\ frames = <<>> /\ UNCHANGED <<program, frames>>
      /\ fn' = IF b # NoBlock THEN Terminate(fn, ret) ELSE fn
  BY DEF EndFunction
<1>3. PICK S, r : Code(fn, frames, r, S)
  BY DEF CodeInv
<1>4. r = <<>> /\ 1 .. Len(frames) = {} /\ 1 .. Len(frames) - 1 = {} /\ Len(frames) = 0
  <2>1. r \in Seq(Todos) /\ Len(r) = Len(frames) /\ Len(frames) = 0
    BY <1>2, <1>3 DEF Code
  <2>2. QED
    BY <1>2, <2>1, EmptySeq
<1>5. GoodFn(fn) /\ GoodFn(fn') /\ fn \in AnyFn /\ IsAst(program)
  <2>1. GoodFn(fn) /\ GoodFn(fn') /\ IsAst(program)
    BY <1>1 DEF LoweringInv, FrameInv
  <2>2. QED
    BY <2>1 DEF GoodFn
<1>6. Opens(fn) = Current /\ fn'.current = NoBlock /\ Opens(fn') = {}
  <2>1. Opens(fn) = Current
    BY <1>1, <1>2, EmptyFrames
  <2>2. fn'.current = NoBlock
    BY <1>1, EndFunctionStep
  <2>3. (\A d \in Opens(fn) \ Current : \E j \in 1 .. Len(frames) : d \in Owned(frames[j]))'
    BY <1>1 DEF LoweringInv, OwnInv
  <2>4. 1 .. Len(frames') = {}
    BY <1>2, <1>4
  <2>5. Current' = {} /\ Opens(fn') \ Current' = {}
    BY <2>2, <2>3, <2>4 DEF Current
  <2>6. QED
    BY <2>1, <2>2, <2>5
<1>7. ASSUME b # NoBlock PROVE Put(fn, fn', b, k, ret)
  <2>1. LoweringInv /\ fn.current # NoBlock
    BY <1>1, <1>7
  <2>2. fn \in AnyFn /\ b \in 1 .. Len(fn.blocks)
    BY ONLY <2>1, Here
  <2>3. ret \in AnyInstruction
    BY <1>5, Instructions DEF IsAst
  <2>4. fn' = Terminate(fn, ret)
    BY <1>2, <1>7
  <2> HIDE DEF b, k, ret
  <2>5. b = fn.current /\ k = Len(fn.blocks[b]) + 1
    BY DEF b, k
  <2>6. QED
    BY <2>2, <2>3, <2>4, <2>5, Terminated
<1>8. \E mine : Extends(fn, fn', mine)
  <2>1. CASE b # NoBlock
    BY <1>7, <2>1 DEF Put
  <2>2. CASE b = NoBlock
    BY <1>2, <1>5, <2>2, SameExtends
  <2>3. QED
    BY <2>1, <2>2
<1>9. ASSUME NEW x \in S PROVE Fits(fn', frames', r, S, x[1], x[2])
  <2>1. x[1] \in Meanings /\ x[2] \in Place
    BY <1>3 DEF Code
  <2>2. Fits(fn, frames, r, S, x[1], x[2])
    BY <1>3 DEF Code
  <2>3. CASE \E U : Quiet(x[1], U) /\ <<U, x[2]>> \in S
    BY <2>3 DEF Fits
  <2>4. CASE Keeps(fn, S, x[1], x[2])
    <3>1. Keeps(fn', S, x[1], x[2])
      BY <1>5, <1>8, <2>1, <2>4, KeepsMore
    <3>2. QED
      BY <3>1 DEF Fits
  <2>5. CASE /\ x[2][1] \in Opens(fn)
             /\ x[2][2] = Len(fn.blocks[x[2][1]]) + 1
             /\ Promised(fn, frames, r, x[2][1], x[1])
    <3>1. x[2][1] = b /\ b # NoBlock /\ x[1] = Now(frames, r) /\ x[2][2] = k
      BY <1>4, <1>6, <2>5 DEF Promised, Current
    <3>2. x[2] = <<b, k>> /\ x[1] = <<>>
      BY <1>2, <2>1, <3>1 DEF Now, Place
    <3>3. Put(fn, fn', b, k, ret)
      BY <1>7, <3>1
    <3>4. b \in 1 .. Len(fn'.blocks) /\ k \in 1 .. Len(fn'.blocks[b]) /\ fn'.blocks[b][k] = ret
      BY <3>3 DEF Put
    <3>5. Does(ret, S, x[1], <<b, k + 1>>)
      BY <3>2 DEF Does
    <3> HIDE DEF b, k, ret
    <3>6. QED
      BY <3>2, <3>4, <3>5, FitsKept
  <2>6. QED
    BY <2>2, <2>3, <2>4, <2>5 DEF Fits
<1>10. Code(fn', frames', r, S)
  <2>1. \A d \in Opens(fn') : d # fn'.current => fn'.blocks[d] = <<>>
    BY <1>6
  <2>2. /\ r \in Seq(Todos) /\ Len(r) = Len(frames') /\ S \subseteq Meanings \X Place
        /\ <<<<Stmt(program.root)>>, <<1, 1>>>> \in S
    BY <1>2, <1>3 DEF Code
  <2>3. 1 .. Len(frames') = {} /\ 1 .. Len(frames') - 1 = {} /\ frames' = <<>>
    BY <1>2, <1>4
  <2>4. QED
    BY <1>9, <2>1, <2>2, <2>3 DEF Code
<1>11. QED
  BY <1>2, <1>10, CodePrimed

(* At first the entry is promised the whole body. *)
LEMMA InitCode == Init => CodeInv
<1> SUFFICES ASSUME Init PROVE CodeInv
  OBVIOUS
<1> DEFINE root == program.root
           a == Stmt(root)
           T == <<a>>
           p == <<1, 1>>
           S == {<<T, p>>}
           r == << <<>> >>
<1>1. LoweringInv
  BY InitInv
<1>2. fn = [blocks |-> << <<>> >>, current |-> 1] /\ frames = <<a>> /\ program \in Programs
  BY DEF Init
<1>3. root \in Node /\ IsAst(program)
  BY <1>2, ProgramsAssumption DEF IsAst
<1>4. GoodFn(fn) /\ Len(fn.blocks) = 1 /\ Opens(fn) = {1} /\ fn.current = 1
      /\ Len(fn.blocks[1]) = 0
  <2>1. fn.blocks[1] = <<>>
    BY <1>2
  <2>2. Len(fn.blocks[1]) = 0
    BY <2>1
  <2>3. GoodFn(fn) /\ Len(fn.blocks) = 1 /\ Opens(fn) = {1} /\ fn.current = 1
    BY <1>2, StartFn
  <2>4. QED
    BY <2>2, <2>3
<1>5. /\ a = Item0("stmt", root) /\ a.at = "stmt" /\ "stmt" \in SourceLabels /\ a \in SourceItem
      /\ Items(a) = T
  <2>1. a = Item0("stmt", root) /\ a.at = "stmt" /\ a.node = root
    BY DEF Stmt, Item0, Frame
  <2>2. "stmt" \in SourceLabels
    BY DEF SourceLabels
  <2>3. a \in SourceItem
    BY <1>3, SourceItems
  <2>4. Items(a) = <<Item0(a.at, a.node)>>
    BY <2>1, <2>2 DEF Items
  <2>5. QED
    BY <2>1, <2>2, <2>3, <2>4
<1> HIDE DEF a
<1>6. T \in Todos /\ <<>> \in Todos
  BY <1>5, TodosAreMeanings DEF Todos
<1>7. r \in Seq(Todos) /\ Len(r) = 1 /\ r[1] = <<>> /\ Len(frames) = 1 /\ frames[1] = a
      /\ frames # <<>>
  <2>1. r \in Seq(Todos) /\ Len(r) = 1 /\ r[1] = <<>>
    BY <1>6, OneItem
  <2>2. frames \in Seq({a}) /\ Len(frames) = 1 /\ frames[1] = a
    BY <1>2
  <2>3. QED
    BY <2>1, <2>2
<1> HIDE DEF r
<1>8. T = Now(frames, r)
  <2>1. T \o <<>> = T
    BY <1>6, ConcatEmptySeq DEF Todos
  <2>2. QED
    BY <1>5, <1>7, <2>1 DEF Now
<1>9. Fits(fn, frames, r, S, T, p)
  <2>1. fn.current # NoBlock /\ 1 = Len(fn.blocks[fn.current]) + 1
    BY <1>4 DEF NoBlock
  <2> HIDE DEF T, S
  <2>2. Fits(fn, frames, r, S, T, <<fn.current, 1>>)
    BY <1>4, <1>8, <2>1, FitsCurrent
  <2>3. QED
    BY <1>4, <2>2
<1>10. S \subseteq Meanings \X Place
  <2>1. T \in Meanings /\ p \in Place
    BY <1>6, TodosAreMeanings, PlaceOf
  <2> HIDE DEF T, p
  <2>2. QED
    BY <2>1
<1>11. <<<<Stmt(root)>>, <<1, 1>>>> \in S /\ \A x \in S : x[1] = T /\ x[2] = p
  BY DEF a
<1> HIDE DEF S, T
<1>12. \A x \in S : Fits(fn, frames, r, S, x[1], x[2])
  BY <1>9, <1>11
<1>13. \A k \in 1 .. Len(frames) : k = 1 /\ frames[k].at = "stmt"
  BY <1>5, <1>7
<1>14. 1 .. Len(frames) - 1 = {} /\ r[Len(frames)] = <<>>
  BY <1>7
<1>15. \A x \in Opens(fn) : x = fn.current
  BY <1>4
<1>16. Code(fn, frames, r, S)
  BY <1>7, <1>10, <1>11, <1>12, <1>13, <1>14, <1>15 DEF Code, LoopFrames
<1>17. QED
  BY <1>16 DEF CodeInv

(* Every step of the lowering keeps CodeInv. *)
LEMMA NextCode == Inv /\ CodeInv /\ [Next]_vars => CodeInv'
<1> SUFFICES ASSUME Inv, CodeInv, [Next]_vars PROVE CodeInv'
  OBVIOUS
<1>1. Inv'
  BY NextInv
<1>2. CASE Next
  <2>1. CASE EnterScope \/ LowerItem \/ ExitScope \/ LowerSimpleStmt \/ LowerOperands
             \/ FinishExp \/ LowerNumber \/ StartIf \/ StartAnd
    BY <1>1, <2>1, EnterScopeCode, LowerItemCode, ExitScopeCode, LowerSimpleStmtCode,
       LowerOperandsCode, FinishExpCode, StartConditionCode
  <2>2. CASE FinishReturn \/ FinishAssign \/ Apply \/ StartOr \/ CreateAndBlocks \/ EndLhs \/ EndRhs
    BY <1>1, <2>2, FinishReturnCode, FinishAssignCode, ApplyCode, StartOrCode,
       CreateAndBlocksCode, EndLhsCode, EndRhsCode
  <2>3. CASE BranchIf \/ EndThenWithoutElse \/ EndThen \/ EndElse \/ EndFunction
    BY <1>1, <2>3, BranchIfCode, EndThenWithoutElseCode, EndThenCode, EndElseCode, EndFunctionCode
  <2>4. CASE StartLoop \/ TestLoop \/ EndLoop \/ LoopControl \/ RejectLoopControl
    BY <1>1, <2>4, StartLoopCode, TestLoopCode, EndLoopCode, LoopControlCode, RejectLoopControlCode
  <2>5. QED
    BY <1>2, <2>1, <2>2, <2>3, <2>4, Zenon DEF Next
<1>3. CASE UNCHANGED vars
  <2>1. PICK S, r : Code(fn, frames, r, S)
    BY DEF CodeInv
  <2>2. Code(fn', frames', r, S) /\ UNCHANGED program
    BY <1>3, <2>1 DEF vars
  <2>3. QED
    BY <2>2, CodePrimed
<1>4. QED
  BY <1>2, <1>3

-----------------------------------------------------------------------------
(***************************************************************************)
(* The finished function: every meaning is kept.                            *)
(***************************************************************************)

InstAt(q) == fn.blocks[q[1]][q[2]]
Following(q) == <<q[1], q[2] + 1>>

Kept(S, T, q) ==
  \/ \E U : Quiet(T, U) /\ <<U, q>> \in S
  \/ Does(InstAt(q), S, T, Following(q))

Realized(S) ==
  /\ IsAst(program)
  /\ S \subseteq Meanings \X Place
  /\ <<<<Stmt(program.root)>>, <<1, 1>>>> \in S
  /\ \A T, q : <<T, q>> \in S => Kept(S, T, q)

(* When the lowering is done, no promise is left open. *)
LEMMA DoneCode ==
  ASSUME Inv, CodeInv, status = "done"
  PROVE  \E S : Realized(S)
<1>1. frames = <<>> /\ fn.current = NoBlock /\ LoweringInv /\ IsAst(program)
  BY DEF Inv, DoneInv, LoweringInv, FrameInv
<1>2. Opens(fn) = {}
  <2>1. Opens(fn) = Current
    BY <1>1, EmptyFrames
  <2>2. QED
    BY <1>1, <2>1 DEF Current
<1>3. PICK S, r : Code(fn, frames, r, S)
  BY DEF CodeInv
<1>4. ASSUME NEW T, NEW q, <<T, q>> \in S PROVE Kept(S, T, q)
  <2> DEFINE x == <<T, q>>
  <2>1. x \in S /\ x[1] = T /\ x[2] = q
    BY <1>4
  <2> HIDE DEF x
  <2>2. Fits(fn, frames, r, S, x[1], x[2])
    BY <1>3, <2>1 DEF Code
  <2>3. Fits(fn, frames, r, S, T, q)
    BY <2>1, <2>2
  <2>4. CASE \E U : Quiet(T, U) /\ <<U, q>> \in S
    BY <2>4 DEF Kept
  <2>5. CASE Keeps(fn, S, T, q)
    BY <2>5 DEF Keeps, Kept, InstAt, Following
  <2>6. QED
    BY <1>2, <2>3, <2>4, <2>5 DEF Fits
<1>5. Realized(S)
  BY <1>1, <1>3, <1>4 DEF Realized, Code
<1>6. QED
  BY <1>5

(* The first item of what a source has to do. *)
LEMMA TodoHead ==
  ASSUME NEW T \in Todos, T # <<>>
  PROVE  /\ Head(T) \in SourceItem /\ Head(T).at \in SourceLabels /\ Head(T).node \in Node
         /\ Tail(T) \in Todos
         /\ Head(T) = Item0(Head(T).at, Head(T).node) /\ T = <<Head(T)>> \o Tail(T)
<1>1. T \in Seq(SourceItem)
  BY DEF Todos
<1>2. Head(T) \in SourceItem /\ Tail(T) \in Seq(SourceItem)
  BY <1>1, HeadTailProperties
<1>3. \A i \in SourceItem : i = Item0(i.at, i.node) /\ i.at \in SourceLabels /\ i.node \in Node
  BY DEF SourceItem, Item0, Frame
<1>4. T = <<Head(T)>> \o Tail(T)
  BY <1>1
<1>5. QED
  BY <1>2, <1>3, <1>4 DEF Todos

(* What a quiet step leaves is again something a source has to do.          *)
LEMMA QuietTyped ==
  ASSUME IsAst(program), NEW T \in Todos, NEW U, Quiet(T, U)
  PROVE  U \in Todos
<1> DEFINE l == Head(T).at
           n == Head(T).node
           R == Tail(T)
<1>1. T # <<>> /\ Advances(l, n, R, U)
  BY DEF Quiet
<1>2. n \in Node /\ R \in Todos
  BY <1>1, TodoHead
<1> HIDE DEF l, n, R
<1>3. \A k \in SourceLabels : \A x \in Node : <<Item0(k, x)>> \in Todos
  BY SourceItems DEF Todos
<1>4. \A A, B \in Todos : A \o B \in Todos
  BY JoinTodos
<1>5. CASE l = "stmt" /\ Kind(n) = "block" /\ U = Stmts(n, 1) \o R
  <2>1. 1 \in Nat \ {0}
    OBVIOUS
  <2>2. Stmts(n, 1) \in Todos
    BY <1>2, <1>5, <2>1, StmtsFacts
  <2>3. QED
    BY <1>2, <1>4, <1>5, <2>2
<1>6. CASE l = "stmt" /\ Kind(n) \in {"if", "while"} /\ U = <<Exp(Kids(n)[1]), Item0("test", n)>> \o R
  <2>1. Kids(n)[1] \in Node
    BY <1>2, <1>6, BranchingKids
  <2>2. Exp(Kids(n)[1]) \in SourceItem /\ Item0("test", n) \in SourceItem
    BY <1>2, <2>1, SourceItems DEF SourceLabels
  <2>3. <<Exp(Kids(n)[1]), Item0("test", n)>> \in Todos
    BY <2>2 DEF Todos
  <2>4. QED
    BY <1>2, <1>4, <1>6, <2>3
<1>7. CASE /\ l = "stmt" /\ Kind(n) \in {"return", "assign", "exp"}
           /\ U = (Operands(n) \o <<Item0("finish", n)>>) \o R
  <2>1. Operands(n) \in Todos
    BY <1>2, <1>7, OperandItems
  <2>2. <<Item0("finish", n)>> \in Todos
    BY <1>2, <1>3 DEF SourceLabels
  <2>3. Operands(n) \o <<Item0("finish", n)>> \in Todos
    BY <1>4, <2>1, <2>2
  <2>4. QED
    BY <1>2, <1>4, <1>7, <2>3
<1>8. CASE l = "stmt" /\ Kind(n) = "break" /\ \E L : Ahead(R, L) /\ U = Tail(L)
  <2>1. PICK L : Ahead(R, L) /\ U = Tail(L)
    BY <1>8
  <2>2. L \in Todos /\ L # <<>>
    BY <1>2, <2>1, AheadUnique
  <2>3. QED
    BY <2>1, <2>2, TodoHead
<1>9. CASE l = "stmt" /\ Kind(n) = "continue" /\ Ahead(R, U)
  BY <1>2, <1>9, AheadUnique
<1>10. CASE l = "loop" /\ Kind(n) = "while" /\ U = <<Stmt(n)>> \o R
  <2>1. <<Stmt(n)>> \in Todos
    BY <1>2, SourceItems DEF Todos
  <2>2. QED
    BY <1>2, <1>4, <1>10, <2>1
<1>11. CASE (l = "finish" /\ Kind(n) = "exp" /\ U = R) \/ (l = "exp" /\ Kind(n) = "num" /\ U = R)
  BY <1>2, <1>11
<1>12. CASE /\ l = "exp" /\ Kind(n) \in {"call", "bin"}
            /\ U = (Operands(n) \o <<Item0("apply", n)>>) \o R
  <2>1. Operands(n) \in Todos
    BY <1>2, <1>12, OperandItems
  <2>2. <<Item0("apply", n)>> \in Todos
    BY <1>2, <1>3 DEF SourceLabels
  <2>3. Operands(n) \o <<Item0("apply", n)>> \in Todos
    BY <1>4, <2>1, <2>2
  <2>4. QED
    BY <1>2, <1>4, <1>12, <2>3
<1>13. CASE l = "exp" /\ Kind(n) \in {"or", "and"} /\ U = <<Exp(Kids(n)[1]), Item0("lhs", n)>> \o R
  <2>1. Kids(n)[1] \in Node
    BY <1>2, <1>13, BranchingKids
  <2>2. Exp(Kids(n)[1]) \in SourceItem /\ Item0("lhs", n) \in SourceItem
    BY <1>2, <2>1, SourceItems DEF SourceLabels
  <2>3. <<Exp(Kids(n)[1]), Item0("lhs", n)>> \in Todos
    BY <2>2 DEF Todos
  <2>4. QED
    BY <1>2, <1>4, <1>13, <2>3
<1>14. QED
  BY <1>1, <1>5, <1>6, <1>7, <1>8, <1>9, <1>10, <1>11, <1>12, <1>13 DEF Advances

-----------------------------------------------------------------------------
(***************************************************************************)
(* A silent step of the source, as a relation of what remains and the values  *)
(* before and after it.                                                     *)
(***************************************************************************)

\* The left side decides.
Decided(n, v) == (v[Kids(n)[1]] # 0) <=> (Kind(n) = "or")

Computes(l, n, R, v, U, w) ==
  /\ l = "finish" => Kind(n) = "exp"
  /\ l = "apply" => Kind(n) = "bin" /\ U = R /\ w = [v EXCEPT ![n] = Applied(Kids(n), v)]
  /\ l = "test" => U = (IF v[Kids(n)[1]] # 0 THEN Body(n) ELSE Otherwise(n)) \o R /\ w = v
  /\ l = "lhs" /\ Decided(n, v) => U = R /\ w = [v EXCEPT ![n] = Bool(Kind(n) = "or")]
  /\ l = "lhs" /\ ~Decided(n, v) => U = <<Exp(Kids(n)[2]), Item0("rhs", n)>> \o R /\ w = v
  /\ l = "rhs" => U = R /\ w = [v EXCEPT ![n] = Bool(v[Kids(n)[2]] # 0)]

Silent(T, v, U, w) ==
  T \in Todos =>
    /\ T # <<>>
    /\ \A V : Quiet(T, V) => U = V /\ w = v
    /\ Computes(Head(T).at, Head(T).node, Tail(T), v, U, w)

(* The first loop of what remains, as the source finds it.                  *)
LEMMA LoopIndexFacts ==
  ASSUME todo \in Todos, todo # <<>>, Item.at = "stmt", NEW L, Ahead(Tail(todo), L)
  PROVE  /\ SubSeq(todo, LoopIndex, Len(todo)) = L
         /\ SubSeq(todo, LoopIndex + 1, Len(todo)) = Tail(L)
<1> DEFINE R == Tail(todo)
           m == Len(todo)
<1>1. /\ todo \in Seq(SourceItem) /\ m \in Nat \ {0} /\ R \in Seq(SourceItem) /\ Len(R) = m - 1
      /\ \A i \in 1 .. m - 1 : R[i] = todo[i + 1]
  BY DEF Todos
<1>2. PICK j \in 1 .. Len(R) : /\ R[j].at = "loop"
                               /\ \A i \in 1 .. j - 1 : R[i].at # "loop"
                               /\ L = SubSeq(R, j, Len(R))
  BY DEF Ahead
<1>3. j + 1 \in 1 .. m /\ todo[j + 1].at = "loop" /\ j \in Nat
  BY <1>1, <1>2
<1>4. \A i \in 1 .. j : todo[i].at # "loop"
  <2> SUFFICES ASSUME NEW i \in 1 .. j PROVE todo[i].at # "loop"
    OBVIOUS
  <2>1. CASE i = 1
    BY <2>1 DEF Item
  <2>2. CASE i # 1
    <3>1. i - 1 \in 1 .. j - 1 /\ i - 1 \in 1 .. m - 1 /\ (i - 1) + 1 = i
      BY <1>1, <1>2, <1>3, <2>2
    <3>2. R[i - 1].at # "loop" /\ R[i - 1] = todo[(i - 1) + 1]
      BY <1>1, <1>2, <3>1
    <3>3. QED
      BY <3>1, <3>2
  <2>3. QED
    BY <2>1, <2>2
<1>5. LoopIndex = j + 1
  <2> DEFINE P(k) == todo[k].at = "loop" /\ \A i \in 1 .. k - 1 : todo[i].at # "loop"
  <2>1. P(j + 1)
    BY <1>3, <1>4
  <2>2. ASSUME NEW k \in 1 .. m, P(k) PROVE k = j + 1
    <3>1. ~(k \in 1 .. j) /\ ~(j + 1 \in 1 .. k - 1)
      BY <1>3, <1>4, <2>2
    <3>2. QED
      BY <1>3, <3>1
  <2>3. LoopIndex = CHOOSE k \in 1 .. m : P(k)
    BY DEF LoopIndex
  <2>4. \E k \in 1 .. m : P(k)
    BY <1>3, <2>1
  <2> HIDE DEF P
  <2>5. LoopIndex \in 1 .. m /\ P(LoopIndex)
    BY <2>3, <2>4, Zenon
  <2>6. QED
    BY <2>2, <2>5
<1>6. SubSeq(todo, j + 1, m) = L
  <2> DEFINE A == SubSeq(todo, j + 1, m)
             B == SubSeq(R, j, m - 1)
  <2>1. A \in Seq(SourceItem) /\ Len(A) = m - j /\ \A i \in 1 .. m - j : A[i] = todo[j + 1 + i - 1]
    BY <1>1, <1>3
  <2>2. B \in Seq(SourceItem) /\ Len(B) = m - j /\ \A i \in 1 .. m - j : B[i] = R[j + i - 1]
    BY <1>1, <1>2, <1>3
  <2>3. \A i \in 1 .. m - j : R[j + i - 1] = todo[j + 1 + i - 1]
    <3> SUFFICES ASSUME NEW i \in 1 .. m - j PROVE R[j + i - 1] = todo[j + 1 + i - 1]
      OBVIOUS
    <3>1. j + i - 1 \in 1 .. m - 1 /\ (j + i - 1) + 1 = j + 1 + i - 1
      BY <1>1, <1>3
    <3>2. QED
      BY <1>1, <3>1
  <2> HIDE DEF A, B
  <2>4. \A i \in 1 .. Len(A) : A[i] = B[i]
    BY <2>1, <2>2, <2>3
  <2>5. A = B
    BY <2>1, <2>2, <2>4, SeqEqual
  <2>6. QED
    BY <1>1, <1>2, <2>5 DEF A, B
<1>7. SubSeq(todo, j + 2, m) = Tail(SubSeq(todo, j + 1, m))
  <2>1. m \in j + 1 .. Len(todo) /\ (j + 1) + 1 = j + 2
    BY <1>1, <1>3
  <2>2. Tail(SubSeq(todo, j + 1, m)) = SubSeq(todo, (j + 1) + 1, m)
    BY <1>1, <1>3, <2>1, HeadTailOfSubSeq
  <2>3. QED
    BY <2>1, <2>2
<1>8. LoopIndex + 1 = j + 2
  BY <1>3, <1>5
<1>9. QED
  BY <1>5, <1>6, <1>7, <1>8

(* The silent steps of the source are of this kind. *)
LEMMA SourceStepSilent ==
  ASSUME IsAst(program), SourceStep
  PROVE  Silent(todo, value, todo', value')
<1> SUFFICES ASSUME todo \in Todos
             PROVE  /\ todo # <<>>
                    /\ \A V : Quiet(todo, V) => todo' = V /\ value' = value
                    /\ Computes(Item.at, Item.node, Tail(todo), value, todo', value')
  BY DEF Silent, Item
<1> DEFINE l == Item.at
           n == Item.node
           R == Tail(todo)
           kids == Kids(n)
<1>1. SourceEvent.op = "none"
  BY DEF SourceStep
<1>2. todo # <<>>
  BY <1>1 DEF SourceEvent
<1>3. l \in SourceLabels /\ n \in Node /\ R \in Todos
  BY <1>2, TodoHead DEF Item
<1>4. /\ l = "apply" => Kind(n) # "call"
      /\ l = "finish" => Kind(n) \notin {"assign", "return"}
  BY <1>1, <1>2 DEF SourceEvent
<1>5. <<>> \o R = R
  BY <1>3, JoinTodos
<1>6. ASSUME l = "stmt", NEW V, Advances("stmt", n, R, V) PROVE todo' = V /\ value' = value
  <2>1. SourceStmt
    BY <1>6 DEF SourceStep, SourceTest, SourceLoop, SourceExp, SourceShortCircuit, Doing
  <2>2. UNCHANGED value
    BY <2>1 DEF SourceStmt
  <2>3. CASE Kind(n) = "block"
    <3>1. todo' = [k \in 1 .. Len(kids) |-> Stmt(kids[k])] \o R
      BY <2>1, <2>3 DEF SourceStmt, Then
    <3>2. V = Stmts(n, 1) \o R
      BY <1>6, <2>3 DEF Advances
    <3>3. 1 \in Nat \ {0}
      OBVIOUS
    <3>4. Stmts(n, 1) = [k \in 1 .. Len(kids) |-> Stmt(kids[k])]
      BY <1>3, <2>3, <3>3, StmtsFacts
    <3>5. QED
      BY <2>2, <3>1, <3>2, <3>4
  <2>4. CASE Kind(n) \in {"if", "while"}
    <3>1. todo' = <<Exp(kids[1]), Frame("test", n, <<>>)>> \o R
      BY <2>1, <2>4 DEF SourceStmt, Then
    <3>2. V = <<Exp(kids[1]), Item0("test", n)>> \o R
      BY <1>6, <2>4 DEF Advances
    <3>3. QED
      BY <2>2, <3>1, <3>2 DEF Item0
  <2>5. CASE Kind(n) \in {"return", "assign", "exp"}
    <3>1. todo' = ([k \in 1 .. Len(kids) |-> Exp(kids[k])] \o <<Frame("finish", n, <<>>)>>) \o R
      BY <2>1, <2>5 DEF SourceStmt, Then
    <3>2. V = (Operands(n) \o <<Item0("finish", n)>>) \o R
      BY <1>6, <2>5 DEF Advances
    <3>3. QED
      BY <2>2, <3>1, <3>2 DEF Item0, Operands
  <2>6. CASE Kind(n) = "break"
    <3>1. todo' = SubSeq(todo, LoopIndex + 1, Len(todo))
      BY <2>1, <2>6 DEF SourceStmt
    <3>2. PICK L : Ahead(R, L) /\ V = Tail(L)
      BY <1>6, <2>6 DEF Advances
    <3>3. todo' = Tail(L)
      BY <1>2, <1>6, <3>1, <3>2, LoopIndexFacts
    <3>4. QED
      BY <2>2, <3>2, <3>3
  <2>7. CASE Kind(n) = "continue"
    <3>1. todo' = SubSeq(todo, LoopIndex, Len(todo))
      BY <2>1, <2>7 DEF SourceStmt
    <3>2. Ahead(R, V)
      BY <1>6, <2>7 DEF Advances
    <3>3. QED
      BY <1>2, <1>6, <2>2, <3>1, <3>2, LoopIndexFacts
  <2>8. Kind(n) \in {"block", "if", "while", "return", "assign", "exp", "break", "continue"}
    BY <1>6 DEF Advances
  <2>9. QED
    BY <2>3, <2>4, <2>5, <2>6, <2>7, <2>8
<1>7. ASSUME l = "exp", NEW V, Advances("exp", n, R, V) PROVE todo' = V /\ value' = value
  <2>1. SourceExp \/ SourceShortCircuit
    BY <1>7 DEF SourceStep, SourceStmt, SourceTest, SourceLoop, Doing
  <2>2. CASE Kind(n) = "num"
    <3>1. todo' = <<>> \o R /\ value' = value
      BY <1>7, <2>1, <2>2 DEF SourceExp, SourceShortCircuit, Doing, Then
    <3>2. V = R
      BY <1>7, <2>2 DEF Advances
    <3>3. QED
      BY <1>5, <3>1, <3>2
  <2>3. CASE Kind(n) \in {"call", "bin"}
    <3>1. /\ todo' = ([k \in 1 .. Len(kids) |-> Exp(kids[k])] \o <<Frame("apply", n, <<>>)>>) \o R
          /\ value' = value
      BY <1>7, <2>1, <2>3 DEF SourceExp, SourceShortCircuit, Doing, Then
    <3>2. V = (Operands(n) \o <<Item0("apply", n)>>) \o R
      BY <1>7, <2>3 DEF Advances
    <3>3. QED
      BY <3>1, <3>2 DEF Item0, Operands
  <2>4. CASE Kind(n) \in {"or", "and"}
    <3>1. todo' = <<Exp(kids[1]), Frame("lhs", n, <<>>)>> \o R /\ value' = value
      BY <1>7, <2>1, <2>4 DEF SourceExp, SourceShortCircuit, Doing, Then
    <3>2. V = <<Exp(kids[1]), Item0("lhs", n)>> \o R
      BY <1>7, <2>4 DEF Advances
    <3>3. QED
      BY <3>1, <3>2 DEF Item0
  <2>5. Kind(n) \in {"num", "call", "bin", "or", "and"}
    BY <1>7 DEF Advances
  <2>6. QED
    BY <2>2, <2>3, <2>4, <2>5
<1>8. ASSUME l = "loop", NEW V, Advances("loop", n, R, V) PROVE todo' = V /\ value' = value
  <2>1. SourceLoop
    BY <1>8 DEF SourceStep, SourceStmt, SourceTest, SourceExp, SourceShortCircuit, Doing
  <2>2. todo' = <<Stmt(n)>> \o R /\ value' = value
    BY <2>1 DEF SourceLoop, Then
  <2>3. V = <<Stmt(n)>> \o R
    BY <1>8 DEF Advances
  <2>4. QED
    BY <2>2, <2>3
<1>9. ASSUME l = "finish" PROVE Kind(n) = "exp" /\ todo' = R /\ value' = value
  <2>1. SourceExp
    BY <1>9 DEF SourceStep, SourceStmt, SourceTest, SourceLoop, SourceShortCircuit, Doing
  <2>2. Kind(n) = "exp" /\ todo' = <<>> \o R /\ value' = value
    BY <1>9, <2>1 DEF SourceExp, Doing, Then
  <2>3. QED
    BY <1>5, <2>2
<1>10. ASSUME NEW V, Quiet(todo, V) PROVE todo' = V /\ value' = value
  <2>1. Advances(l, n, R, V)
    BY <1>10 DEF Quiet, Item
  <2>2. l \in {"stmt", "loop", "finish", "exp"}
    BY <2>1 DEF Advances
  <2>3. CASE l = "finish"
    <3>1. V = R
      BY <2>1, <2>3 DEF Advances
    <3>2. QED
      BY <1>9, <2>3, <3>1
  <2>4. QED
    BY <1>6, <1>7, <1>8, <2>1, <2>2, <2>3
<1>11. Computes(l, n, R, value, todo', value')
  <2>1. CASE l = "apply"
    <3>1. SourceExp
      BY <2>1 DEF SourceStep, SourceStmt, SourceTest, SourceLoop, SourceShortCircuit, Doing
    <3>2. Kind(n) = "bin" /\ value' = [value EXCEPT ![n] = Applied(kids, value)] /\ todo' = <<>> \o R
      BY <2>1, <3>1 DEF SourceExp, Doing, Then
    <3>3. QED
      BY <1>5, <2>1, <3>2 DEF Computes
  <2>2. CASE l = "test"
    <3>1. SourceTest
      BY <2>2 DEF SourceStep, SourceStmt, SourceExp, SourceLoop, SourceShortCircuit, Doing
    <3>2. /\ value' = value
          /\ value[kids[1]] # 0 => todo' = Body(n) \o R
          /\ ~(value[kids[1]] # 0) => todo' = Otherwise(n) \o R
      BY <3>1 DEF SourceTest, Then, Body, Otherwise, Item0
    <3>3. QED
      BY <2>2, <3>2 DEF Computes
  <2>3. CASE l = "lhs"
    <3>1. SourceShortCircuit
      BY <2>3 DEF SourceStep, SourceStmt, SourceExp, SourceLoop, SourceTest, Doing
    <3>2. LET lhs == value[kids[1]] # 0
          IN IF lhs = (Kind(n) = "or")
               THEN Then(<<>>) /\ value' = [value EXCEPT ![n] = Bool(lhs)]
               ELSE Then(<<Exp(kids[2]), Frame("rhs", n, <<>>)>>) /\ value' = value
      BY <2>3, <3>1 DEF SourceShortCircuit, Doing
    <3>3. CASE Decided(n, value)
      <4>1. (value[kids[1]] # 0) = (Kind(n) = "or")
        BY <3>3, Zenon DEF Decided
      <4>2. Then(<<>>) /\ value' = [value EXCEPT ![n] = Bool(value[kids[1]] # 0)]
        BY <3>2, <4>1, Zenon
      <4>3. Bool(value[kids[1]] # 0) = Bool(Kind(n) = "or")
        BY <4>1, Zenon
      <4>4. todo' = R /\ value' = [value EXCEPT ![n] = Bool(Kind(n) = "or")]
        BY <1>5, <4>2, <4>3 DEF Then
      <4>5. QED
        BY <2>3, <3>3, <4>4 DEF Computes
    <3>4. CASE ~Decided(n, value)
      <4>1. ~((value[kids[1]] # 0) = (Kind(n) = "or"))
        BY <3>4, Zenon DEF Decided
      <4>2. Then(<<Exp(kids[2]), Frame("rhs", n, <<>>)>>) /\ value' = value
        BY <3>2, <4>1, Zenon
      <4>3. todo' = <<Exp(kids[2]), Item0("rhs", n)>> \o R /\ value' = value
        BY <4>2 DEF Then, Item0
      <4>4. QED
        BY <2>3, <3>4, <4>3 DEF Computes
    <3>5. QED
      BY <3>3, <3>4
  <2>4. CASE l = "rhs"
    <3>1. SourceShortCircuit
      BY <2>4 DEF SourceStep, SourceStmt, SourceExp, SourceLoop, SourceTest, Doing
    <3>2. value' = [value EXCEPT ![n] = Bool(value[kids[2]] # 0)] /\ todo' = <<>> \o R
      BY <2>4, <3>1 DEF SourceShortCircuit, Doing, Then
    <3>3. QED
      BY <1>5, <2>4, <3>2 DEF Computes
  <2>5. CASE l \notin {"apply", "test", "lhs", "rhs"}
    BY <1>9, <2>5 DEF Computes
  <2>6. QED
    BY <2>1, <2>2, <2>3, <2>4, <2>5
<1>12. QED
  BY <1>2, <1>10, <1>11

-----------------------------------------------------------------------------
(***************************************************************************)
(* The simulation.  T is what the source has to do and v its values; control *)
(* of the blocks is at q, with the registers g and the slots s.              *)
(***************************************************************************)

Values == Outcome \cup {0, 1}

\* The source is at the choice of n, the blocks have begun to record it.
Halfway(S, l, n, R, v, q, s) ==
  /\ n \in Node /\ Kind(n) \in {"or", "and"} /\ R \in Todos
  /\ \/ l = "lhs" /\ Decided(n, v) /\ <<<<Item0("short", n)>> \o R, q>> \in S
     \/ /\ \/ l = "lhs" /\ Decided(n, v) /\ s[n] = Bool(Kind(n) = "or")
           \/ l = "rhs" /\ s[n] = Bool(v[Kids(n)[2]] # 0)
        /\ <<Loading(n, R), q>> \in S

Related(S, T, v, q, g, s) ==
  /\ T \in Todos /\ v = g /\ g \in [Node -> Values] /\ s \in [Node -> {0, 1}]
  /\ \/ <<T, q>> \in S
     \/ T # <<>> /\ Halfway(S, Head(T).at, Head(T).node, Tail(T), v, q, s)

(* What the instructions of the blocks do, one by one. *)
LEMMA TargetFacts ==
  ASSUME TargetInst
  PROVE  /\ Inst.op = "jump" => at' = <<Inst.to[1], 1>> /\ UNCHANGED <<reg, slot>>
         /\ Inst.op = "br" => /\ at' = <<Inst.to[IF reg[Inst.node] # 0 THEN 1 ELSE 2], 1>>
                              /\ UNCHANGED <<reg, slot>>
         /\ Inst.op = "bin" => /\ reg' = [reg EXCEPT ![Inst.node] = Applied(Kids(Inst.node), reg)]
                               /\ UNCHANGED slot /\ at' = Following(at)
         /\ Inst.op = "shortcut" =>
              /\ slot' = [slot EXCEPT ![Inst.node] = Bool(Kind(Inst.node) = "or")]
              /\ UNCHANGED reg /\ at' = Following(at)
         /\ Inst.op = "store" =>
              /\ slot' = [slot EXCEPT ![Inst.node] = Bool(reg[Kids(Inst.node)[2]] # 0)]
              /\ UNCHANGED reg /\ at' = Following(at)
         /\ Inst.op = "load" => /\ reg' = [reg EXCEPT ![Inst.node] = slot[Inst.node]]
                                /\ UNCHANGED slot /\ at' = Following(at)
<1>1. Inst.op = "jump" => at' = <<Inst.to[1], 1>> /\ UNCHANGED <<reg, slot>>
  BY DEF TargetInst
<1>2. Inst.op = "br" => /\ at' = <<Inst.to[IF reg[Inst.node] # 0 THEN 1 ELSE 2], 1>>
                        /\ UNCHANGED <<reg, slot>>
  BY DEF TargetInst
<1>3. Inst.op = "bin" => /\ reg' = [reg EXCEPT ![Inst.node] = Applied(Kids(Inst.node), reg)]
                         /\ UNCHANGED slot /\ at' = Following(at)
  BY DEF TargetInst, NextInst, Following
<1>4. Inst.op = "shortcut" =>
         /\ slot' = [slot EXCEPT ![Inst.node] = Bool(Kind(Inst.node) = "or")]
         /\ UNCHANGED reg /\ at' = Following(at)
  BY DEF TargetInst, NextInst, Following
<1>5. Inst.op = "store" =>
         /\ slot' = [slot EXCEPT ![Inst.node] = Bool(reg[Kids(Inst.node)[2]] # 0)]
         /\ UNCHANGED reg /\ at' = Following(at)
  BY DEF TargetInst, NextInst, Following
<1>6. Inst.op = "load" => /\ reg' = [reg EXCEPT ![Inst.node] = slot[Inst.node]]
                          /\ UNCHANGED slot /\ at' = Following(at)
  BY DEF TargetInst, NextInst, Following
<1>7. QED
  BY <1>1, <1>2, <1>3, <1>4, <1>5, <1>6

\* The next instruction is silent, and running it leaves the source at T or U.
Answered(S, T, v, U, w) ==
  /\ TargetEvent.op = "none"
  /\ TargetInst => \/ Related(S, T, v, at', reg', slot')
                   \/ Related(S, U, w, at', reg', slot')

\* A jump leads to a place with the same meaning.
LEMMA JumpAnswers ==
  ASSUME NEW S, NEW T, NEW v, NEW U, NEW w, Related(S, T, v, at, reg, slot), Inst.op = "jump",
         \/ <<T, <<Inst.to[1], 1>>>> \in S
         \/ T # <<>> /\ Halfway(S, Head(T).at, Head(T).node, Tail(T), v, <<Inst.to[1], 1>>, slot)
  PROVE  Answered(S, T, v, U, w)
<1>1. TargetEvent.op = "none"
  BY DEF TargetEvent
<1>2. ASSUME TargetInst PROVE Related(S, T, v, at', reg', slot')
  <2>1. at' = <<Inst.to[1], 1>> /\ reg' = reg /\ slot' = slot
    BY <1>2, TargetFacts
  <2>2. QED
    BY <2>1 DEF Related
<1>3. QED
  BY <1>1, <1>2 DEF Answered

LEMMA BoolTyped == \A p : Bool(p) \in {0, 1}
BY DEF Bool

LEMMA InstructionFields ==
  /\ \A op, n : Do(op, n).op = op /\ Do(op, n).node = n
  /\ \A n : Ret(n).op = "ret" /\ Ret(n).node = n
  /\ \A n, b, c : /\ Br(n, b, c).op = "br" /\ Br(n, b, c).node = n
                  /\ Br(n, b, c).to[1] = b /\ Br(n, b, c).to[2] = c
BY DEF Do, Ret, Br

(* The left side of || or && has decided: the right side is skipped.        *)
LEMMA ShortAnswers ==
  ASSUME NEW S, Realized(S), NEW n \in Node, Kind(n) \in {"or", "and"}, NEW R \in Todos,
         NEW T, T = <<Item0("lhs", n)>> \o R, NEW v, NEW U, NEW w,
         Related(S, T, v, at, reg, slot), Decided(n, v),
         <<<<Item0("short", n)>> \o R, at>> \in S
  PROVE  Answered(S, T, v, U, w)
<1> DEFINE M == <<Item0("short", n)>> \o R
<1>1. /\ M # <<>> /\ Head(M).at = "short" /\ Head(M).node = n /\ Tail(M) = R
      /\ T # <<>> /\ Head(T).at = "lhs" /\ Head(T).node = n /\ Tail(T) = R
  <2>1. "short" \in ItemLabels /\ "lhs" \in ItemLabels
    BY DEF ItemLabels, SourceLabels
  <2> HIDE DEF M
  <2>2. M = <<Item0("short", n)>> \o R
    BY DEF M
  <2>3. /\ M # <<>> /\ Head(M).at = "short" /\ Head(M).node = n /\ Tail(M) = R
    BY <2>1, <2>2, HeadItem, SMTT(30)
  <2>4. T # <<>> /\ Head(T).at = "lhs" /\ Head(T).node = n /\ Tail(T) = R
    <3>1. n \in Node /\ R \in Todos /\ T = <<Item0("lhs", n)>> \o R
      OBVIOUS
    <3>2. QED
      BY ONLY <2>1, <3>1, HeadItem, SMTT(30)
  <2>5. QED
    BY <2>3, <2>4
<1>2. <<M, at>> \in S
  OBVIOUS
<1> HIDE DEF M
<1>3. ~\E V : Quiet(M, V)
  BY <1>1 DEF Quiet, Advances
<1>4. Does(Inst, S, M, Following(at))
  <2>1. Kept(S, M, at)
    BY <1>2 DEF Realized
  <2>2. QED
    BY <1>3, <2>1 DEF Kept, InstAt, Inst
<1>5. CASE Inst.op = "jump" /\ <<M, <<Inst.to[1], 1>>>> \in S
  <2>1. Halfway(S, "lhs", n, R, v, <<Inst.to[1], 1>>, slot)
    BY <1>5 DEF Halfway, M
  <2>2. QED
    BY <1>1, <1>5, <2>1, JumpAnswers
<1>6. CASE Inst = Do("shortcut", n) /\ <<Loading(n, R), Following(at)>> \in S
  <2>1. Inst.op = "shortcut" /\ Inst.node = n
    BY <1>6, InstructionFields
  <2>2. TargetEvent.op = "none"
    BY <2>1 DEF TargetEvent
  <2>3. ASSUME TargetInst PROVE Related(S, T, v, at', reg', slot')
    <3>1. /\ slot' = [slot EXCEPT ![n] = Bool(Kind(n) = "or")] /\ reg' = reg
          /\ at' = Following(at)
      BY <2>1, <2>3, TargetFacts
    <3>2. Bool(Kind(n) = "or") \in {0, 1}
      BY BoolTyped
    <3>3. slot \in [Node -> {0, 1}]
      BY DEF Related
    <3>4. slot' \in [Node -> {0, 1}] /\ slot'[n] = Bool(Kind(n) = "or")
      BY <3>1, <3>2, <3>3, Zenon
    <3>5. Halfway(S, "lhs", n, R, v, at', slot')
      BY <1>6, <3>1, <3>4 DEF Halfway
    <3>6. QED
      BY <1>1, <3>1, <3>4, <3>5 DEF Related
  <2>4. QED
    BY <2>2, <2>3 DEF Answered
<1>7. QED
  BY <1>1, <1>4, <1>5, <1>6 DEF Does, Performs

(* What the slot holds is loaded, and that is the value of n.               *)
LEMMA LoadAnswers ==
  ASSUME NEW S, Realized(S), NEW n \in Node, Kind(n) \in {"or", "and"}, NEW R \in Todos,
         NEW l \in {"lhs", "rhs"}, NEW T, T = <<Item0(l, n)>> \o R, NEW v, NEW U, NEW w,
         Related(S, T, v, at, reg, slot), Halfway(S, l, n, R, v, at, slot), Silent(T, v, U, w),
         l = "lhs" => Decided(n, v) /\ slot[n] = Bool(Kind(n) = "or"),
         l = "rhs" => slot[n] = Bool(v[Kids(n)[2]] # 0),
         <<Loading(n, R), at>> \in S
  PROVE  Answered(S, T, v, U, w)
<1> DEFINE M == Loading(n, R)
<1>1. /\ M # <<>> /\ Head(M).at = "load" /\ Head(M).node = n /\ Tail(M) = R
      /\ T # <<>> /\ Head(T).at = l /\ Head(T).node = n /\ Tail(T) = R /\ T \in Todos
  <2>1. "load" \in ItemLabels /\ l \in ItemLabels
    BY DEF ItemLabels, SourceLabels
  <2> HIDE DEF M
  <2>2. M = <<Item0("load", n)>> \o R
    BY DEF M, Loading
  <2>3. M # <<>> /\ Head(M).at = "load" /\ Head(M).node = n /\ Tail(M) = R
    BY <2>1, <2>2, HeadItem, SMTT(30)
  <2>4. T # <<>> /\ Head(T).at = l /\ Head(T).node = n /\ Tail(T) = R
    BY <2>1, HeadItem, SMTT(30)
  <2>5. QED
    BY <2>3, <2>4 DEF Related
<1>2. <<M, at>> \in S
  OBVIOUS
<1> HIDE DEF M
<1>3. ~\E V : Quiet(M, V)
  BY <1>1 DEF Quiet, Advances
<1>4. Does(Inst, S, M, Following(at))
  <2>1. Kept(S, M, at)
    BY <1>2 DEF Realized
  <2>2. QED
    BY <1>3, <2>1 DEF Kept, InstAt, Inst
<1>5. CASE Inst.op = "jump" /\ <<M, <<Inst.to[1], 1>>>> \in S
  <2>1. Halfway(S, l, n, R, v, <<Inst.to[1], 1>>, slot)
    BY <1>5 DEF Halfway, M
  <2>2. QED
    BY <1>1, <1>5, <2>1, JumpAnswers
<1>6. CASE Inst = Do("load", n) /\ <<R, Following(at)>> \in S
  <2>1. Inst.op = "load" /\ Inst.node = n
    BY <1>6, InstructionFields
  <2>2. TargetEvent.op = "none"
    BY <2>1 DEF TargetEvent
  <2>3. U = R /\ w = [v EXCEPT ![n] = slot[n]]
    <3>1. Computes(l, n, R, v, U, w)
      BY <1>1 DEF Silent
    <3>2. QED
      BY <3>1 DEF Computes
  <2>4. ASSUME TargetInst PROVE Related(S, U, w, at', reg', slot')
    <3>1. reg' = [reg EXCEPT ![n] = slot[n]] /\ slot' = slot /\ at' = Following(at)
      BY <2>1, <2>4, TargetFacts
    <3>2. v = reg /\ reg \in [Node -> Values] /\ slot \in [Node -> {0, 1}]
      BY DEF Related
    <3>3. slot[n] \in Values
      BY <3>2 DEF Values
    <3>4. reg' \in [Node -> Values] /\ w = reg' /\ slot' \in [Node -> {0, 1}]
      BY <2>3, <3>1, <3>2, <3>3, Zenon
    <3>5. QED
      BY <1>6, <2>3, <3>1, <3>4 DEF Related
  <2>5. QED
    BY <2>2, <2>4 DEF Answered
<1>7. QED
  BY <1>1, <1>4, <1>5, <1>6 DEF Does, Performs

(* The instruction does what the source does next.                          *)
LEMMA PerformAnswers ==
  ASSUME NEW S, Realized(S), NEW n \in Node, NEW R \in Todos, NEW l \in SourceLabels,
         NEW T, T = <<Item0(l, n)>> \o R, NEW v, NEW U, NEW w,
         Related(S, T, v, at, reg, slot), Silent(T, v, U, w),
         Performs(Inst, S, l, n, R, Following(at))
  PROVE  Answered(S, T, v, U, w)
<1>1. /\ T # <<>> /\ Head(T).at = l /\ Head(T).node = n /\ Tail(T) = R /\ T \in Todos
  <2>1. l \in ItemLabels
    BY DEF ItemLabels
  <2>2. T # <<>> /\ Head(T).at = l /\ Head(T).node = n /\ Tail(T) = R
    BY <2>1, HeadItem, SMTT(30)
  <2>3. QED
    BY <2>2 DEF Related
<1>2. Computes(l, n, R, v, U, w)
  BY <1>1 DEF Silent
<1>3. /\ v = reg /\ reg \in [Node -> Values] /\ slot \in [Node -> {0, 1}]
      /\ IsAst(program)
  BY DEF Related, Realized
<1>4. CASE l = "finish" /\ Kind(n) \in {"return", "assign"}
  BY <1>2, <1>4 DEF Computes
<1>5. CASE l = "apply" /\ Kind(n) \in {"call", "bin"} /\ Inst = Do(Kind(n), n)
           /\ <<R, Following(at)>> \in S
  <2>1. Kind(n) = "bin" /\ U = R /\ w = [v EXCEPT ![n] = Applied(Kids(n), v)]
    BY <1>2, <1>5 DEF Computes
  <2>2. Inst.op = "bin" /\ Inst.node = n
    BY <1>5, <2>1, InstructionFields
  <2>3. TargetEvent.op = "none"
    BY <2>2 DEF TargetEvent
  <2>4. ASSUME TargetInst PROVE Related(S, U, w, at', reg', slot')
    <3>1. reg' = [reg EXCEPT ![n] = Applied(Kids(n), reg)] /\ slot' = slot /\ at' = Following(at)
      BY <2>2, <2>4, TargetFacts
    <3>2. Applied(Kids(n), reg) \in Values
      BY BoolTyped DEF Applied, Values
    <3>3. reg' \in [Node -> Values] /\ w = reg' /\ slot' \in [Node -> {0, 1}]
      BY <1>3, <2>1, <3>1, <3>2, Zenon
    <3>4. QED
      BY <1>5, <2>1, <3>1, <3>3 DEF Related
  <2>5. QED
    BY <2>3, <2>4 DEF Answered
<1>6. CASE /\ l = "test"
           /\ Kind(n) \in {"if", "while"}
           /\ \E b, c : /\ Inst = Br(Kids(n)[1], b, c)
                        /\ <<Body(n) \o R, <<b, 1>>>> \in S
                        /\ <<Otherwise(n) \o R, <<c, 1>>>> \in S
  <2>1. PICK b, c : /\ Inst = Br(Kids(n)[1], b, c)
                    /\ <<Body(n) \o R, <<b, 1>>>> \in S
                    /\ <<Otherwise(n) \o R, <<c, 1>>>> \in S
    BY <1>6
  <2>2. /\ Inst.op = "br" /\ Inst.node = Kids(n)[1] /\ Inst.to[1] = b /\ Inst.to[2] = c
    BY <2>1, InstructionFields
  <2>3. TargetEvent.op = "none"
    BY <2>2 DEF TargetEvent
  <2>4. /\ w = v
        /\ reg[Kids(n)[1]] # 0 => U = Body(n) \o R
        /\ reg[Kids(n)[1]] = 0 => U = Otherwise(n) \o R
    BY <1>2, <1>3, <1>6 DEF Computes
  <2>5. U \in Todos
    <3>1. Body(n) \o R \in Todos /\ Otherwise(n) \o R \in Todos
      BY <1>3, <1>6, ChoicesTyped, JoinTodos
    <3>2. QED
      BY <2>4, <3>1
  <2>6. ASSUME TargetInst PROVE Related(S, U, w, at', reg', slot')
    <3>1. /\ at' = <<Inst.to[IF reg[Kids(n)[1]] # 0 THEN 1 ELSE 2], 1>>
          /\ reg' = reg /\ slot' = slot
      BY <2>2, <2>6, TargetFacts
    <3>2. CASE reg[Kids(n)[1]] # 0
      <4>1. at' = <<b, 1>> /\ U = Body(n) \o R
        BY <2>2, <2>4, <3>1, <3>2
      <4>2. <<U, at'>> \in S
        BY <2>1, <4>1
      <4>3. QED
        BY <1>3, <2>4, <2>5, <3>1, <4>2 DEF Related
    <3>3. CASE reg[Kids(n)[1]] = 0
      <4>1. at' = <<c, 1>> /\ U = Otherwise(n) \o R
        BY <2>2, <2>4, <3>1, <3>3
      <4>2. <<U, at'>> \in S
        BY <2>1, <4>1
      <4>3. QED
        BY <1>3, <2>4, <2>5, <3>1, <4>2 DEF Related
    <3>4. QED
      BY <3>2, <3>3
  <2>7. QED
    BY <2>3, <2>6 DEF Answered
<1>7. CASE /\ l = "lhs" /\ Kind(n) \in {"or", "and"}
           /\ \E b, c : /\ Inst = ShortCircuitBranch(n, b, c)
                        /\ <<<<Item0("short", n)>> \o R, <<b, 1>>>> \in S
                        /\ <<<<Exp(Kids(n)[2]), Item0("rhs", n)>> \o R, <<c, 1>>>> \in S
  <2>1. PICK b, c : /\ Inst = ShortCircuitBranch(n, b, c)
                    /\ <<<<Item0("short", n)>> \o R, <<b, 1>>>> \in S
                    /\ <<<<Exp(Kids(n)[2]), Item0("rhs", n)>> \o R, <<c, 1>>>> \in S
    BY <1>7
  <2>2. /\ Inst.op = "br" /\ Inst.node = Kids(n)[1]
        /\ Kind(n) = "or" => Inst.to[1] = b /\ Inst.to[2] = c
        /\ Kind(n) # "or" => Inst.to[1] = c /\ Inst.to[2] = b
    BY <2>1, InstructionFields DEF ShortCircuitBranch
  <2>3. TargetEvent.op = "none"
    BY <2>2 DEF TargetEvent
  <2>4. ASSUME TargetInst
        PROVE  /\ reg' = reg /\ slot' = slot
               /\ Decided(n, v) => at' = <<b, 1>>
               /\ ~Decided(n, v) => at' = <<c, 1>>
    <3>1. /\ at' = <<Inst.to[IF reg[Kids(n)[1]] # 0 THEN 1 ELSE 2], 1>>
          /\ reg' = reg /\ slot' = slot
      BY <2>2, <2>4, TargetFacts
    <3>2. /\ reg[Kids(n)[1]] # 0 => at' = <<Inst.to[1], 1>>
          /\ reg[Kids(n)[1]] = 0 => at' = <<Inst.to[2], 1>>
      BY <3>1
    <3>3. Decided(n, v) <=> (reg[Kids(n)[1]] # 0 <=> Kind(n) = "or")
      BY <1>3 DEF Decided
    <3>4. QED
      BY <2>2, <3>1, <3>2, <3>3
  <2>5. CASE Decided(n, v)
    <3>1. ASSUME TargetInst PROVE Related(S, T, v, at', reg', slot')
      <4>1. Halfway(S, l, n, R, v, at', slot')
        BY <1>7, <2>1, <2>4, <2>5, <3>1 DEF Halfway
      <4>2. QED
        BY <1>1, <1>3, <2>4, <3>1, <4>1 DEF Related
    <3>2. QED
      BY <2>3, <3>1 DEF Answered
  <2>6. CASE ~Decided(n, v)
    <3>1. U = <<Exp(Kids(n)[2]), Item0("rhs", n)>> \o R /\ w = v
      BY <1>2, <1>7, <2>6 DEF Computes
    <3>2. U \in Todos
      <4>1. Kids(n)[2] \in Node
        BY <1>3, <1>7, BranchingKids
      <4>2. Exp(Kids(n)[2]) \in SourceItem /\ Item0("rhs", n) \in SourceItem
        BY <4>1, SourceItems DEF SourceLabels
      <4>3. <<Exp(Kids(n)[2]), Item0("rhs", n)>> \in Todos
        BY <4>2 DEF Todos
      <4>4. QED
        BY <3>1, <4>3, JoinTodos
    <3>3. ASSUME TargetInst PROVE Related(S, U, w, at', reg', slot')
      <4>1. <<U, at'>> \in S
        BY <2>1, <2>4, <2>6, <3>1, <3>3
      <4>2. QED
        BY <1>3, <2>4, <3>1, <3>3, <3>2, <4>1 DEF Related
    <3>4. QED
      BY <2>3, <3>3 DEF Answered
  <2>7. QED
    BY <2>5, <2>6
<1>8. CASE /\ l = "rhs" /\ Kind(n) \in {"or", "and"} /\ Inst = Do("store", n)
           /\ <<Loading(n, R), Following(at)>> \in S
  <2>1. Inst.op = "store" /\ Inst.node = n
    BY <1>8, InstructionFields
  <2>2. TargetEvent.op = "none"
    BY <2>1 DEF TargetEvent
  <2>3. ASSUME TargetInst PROVE Related(S, T, v, at', reg', slot')
    <3>1. /\ slot' = [slot EXCEPT ![n] = Bool(reg[Kids(n)[2]] # 0)] /\ reg' = reg
          /\ at' = Following(at)
      BY <2>1, <2>3, TargetFacts
    <3>2. Bool(reg[Kids(n)[2]] # 0) \in {0, 1}
      BY BoolTyped
    <3>3. slot' \in [Node -> {0, 1}] /\ slot'[n] = Bool(v[Kids(n)[2]] # 0)
      BY <1>3, <3>1, <3>2, Zenon
    <3>4. Halfway(S, l, n, R, v, at', slot')
      BY <1>8, <3>1, <3>3 DEF Halfway
    <3>5. QED
      BY <1>1, <1>3, <3>1, <3>3, <3>4 DEF Related
  <2>4. QED
    BY <2>2, <2>3 DEF Answered
<1>9. l \notin {"short", "load"}
  BY DEF SourceLabels
<1>10. QED
  BY <1>4, <1>5, <1>6, <1>7, <1>8, <1>9, Zenon DEF Performs

(* A silent step of the source: it stays related to where the blocks are, or *)
(* the next instruction of the blocks is silent too and restores the relation. *)
LEMMA Simulation ==
  ASSUME NEW S, Realized(S), NEW T, NEW v, NEW U, NEW w,
         Related(S, T, v, at, reg, slot), Silent(T, v, U, w)
  PROVE  Related(S, U, w, at, reg, slot) \/ Answered(S, T, v, U, w)
<1> DEFINE l == Head(T).at
           n == Head(T).node
           R == Tail(T)
<1>1. T \in Todos /\ T # <<>>
  BY DEF Related, Silent
<1>2. l \in SourceLabels /\ n \in Node /\ R \in Todos /\ T = <<Item0(l, n)>> \o R
  BY <1>1, TodoHead
<1>3. CASE <<T, at>> \in S
  <2>1. Kept(S, T, at)
    BY <1>3 DEF Realized
  <2>2. CASE \E V : Quiet(T, V) /\ <<V, at>> \in S
    <3>1. PICK V : Quiet(T, V) /\ <<V, at>> \in S
      BY <2>2
    <3>2. U = V /\ w = v
      BY <1>1, <3>1 DEF Silent
    <3>3. U \in Todos
      BY <1>1, <3>1, <3>2, QuietTyped DEF Realized
    <3>4. QED
      BY <3>1, <3>2, <3>3 DEF Related
  <2>3. CASE Does(Inst, S, T, Following(at))
    <3>1. CASE Inst.op = "jump" /\ <<T, <<Inst.to[1], 1>>>> \in S
      BY <3>1, JumpAnswers
    <3>2. CASE Performs(Inst, S, l, n, R, Following(at))
      <4> HIDE DEF l, n, R
      <4>1. QED
        BY <1>2, <3>2, PerformAnswers
    <3>3. QED
      BY <1>1, <2>3, <3>1, <3>2 DEF Does
  <2>4. QED
    BY <2>1, <2>2, <2>3 DEF Kept, Inst, InstAt
<1>4. CASE Halfway(S, l, n, R, v, at, slot)
  <2> HIDE DEF l, n, R
  <2>1. Kind(n) \in {"or", "and"}
    BY <1>4 DEF Halfway
  <2>2. CASE l = "lhs" /\ Decided(n, v) /\ <<<<Item0("short", n)>> \o R, at>> \in S
    BY <1>2, <2>1, <2>2, ShortAnswers
  <2>3. CASE /\ \/ l = "lhs" /\ Decided(n, v) /\ slot[n] = Bool(Kind(n) = "or")
                \/ l = "rhs" /\ slot[n] = Bool(v[Kids(n)[2]] # 0)
             /\ <<Loading(n, R), at>> \in S
    <3>1. l \in {"lhs", "rhs"}
      BY <2>3
    <3>2. l = "lhs" => Decided(n, v) /\ slot[n] = Bool(Kind(n) = "or")
      BY <2>3
    <3>3. l = "rhs" => slot[n] = Bool(v[Kids(n)[2]] # 0)
      BY <2>3
    <3>4. QED
      BY <1>2, <1>4, <2>1, <2>3, <3>1, <3>2, <3>3, LoadAnswers
  <2>4. QED
    BY <1>4, <2>2, <2>3 DEF Halfway
<1>5. QED
  BY <1>3, <1>4 DEF Related

\* The instruction is the event of the source, and both go on together.
SameEvent(S) ==
  /\ TargetEvent = SourceEvent
  /\ SourceEvent.op \in {"call", "assign"} =>
       /\ todo # <<>> /\ Inst.node = Item.node /\ SourceEvent.node = Item.node
       /\ <<Tail(todo), Following(at)>> \in S

(* Where the source is at an event, so are the blocks, after jumps.         *)
LEMMA EventMatches ==
  ASSUME NEW S, Realized(S), Related(S, todo, value, at, reg, slot), SourceEvent.op # "none"
  PROVE  \/ TargetEvent.op = "none" /\ (TargetInst => Related(S, todo, value, at', reg', slot'))
         \/ SameEvent(S)
<1> DEFINE l == Item.at
           n == Item.node
           R == Tail(todo)
<1>1. todo \in Todos
  BY DEF Related
<1>2. \/ todo = <<>> /\ SourceEvent = [op |-> "ret", node |-> program.root]
      \/ /\ todo # <<>> /\ l = "apply" /\ Kind(n) = "call"
         /\ SourceEvent = [op |-> "call", node |-> n]
      \/ /\ todo # <<>> /\ l = "finish" /\ Kind(n) = "assign"
         /\ SourceEvent = [op |-> "assign", node |-> n]
      \/ /\ todo # <<>> /\ l = "finish" /\ Kind(n) = "return"
         /\ SourceEvent = [op |-> "ret", node |-> n]
  BY DEF SourceEvent
<1>3. <<todo, at>> \in S
  <2>1. ~Halfway(S, l, n, R, value, at, slot) \/ todo = <<>>
    BY <1>2 DEF Halfway
  <2>2. QED
    BY <2>1 DEF Related, Item
<1>4. Does(Inst, S, todo, Following(at))
  <2>1. Kept(S, todo, at)
    BY <1>3 DEF Realized
  <2>2. ~\E V : Quiet(todo, V)
    BY <1>2 DEF Quiet, Advances, Item
  <2>3. QED
    BY <2>1, <2>2 DEF Kept, Inst, InstAt
<1>5. CASE Inst.op = "jump" /\ <<todo, <<Inst.to[1], 1>>>> \in S
  <2>1. Answered(S, todo, value, todo, value)
    BY <1>5, JumpAnswers
  <2>2. QED
    BY <2>1 DEF Answered
<1>6. CASE todo = <<>> /\ Inst = Ret(program.root)
  <2>1. Inst.op = "ret" /\ Inst.node = program.root
    BY <1>6, InstructionFields
  <2>2. TargetEvent = [op |-> "ret", node |-> program.root]
    BY <2>1 DEF TargetEvent
  <2>3. SourceEvent = [op |-> "ret", node |-> program.root]
    BY <1>2, <1>6
  <2>4. QED
    BY <2>2, <2>3 DEF SameEvent
<1>7. CASE todo # <<>> /\ Performs(Inst, S, l, n, R, Following(at))
  <2>1. CASE l = "apply" /\ Kind(n) = "call"
    <3>1. Inst = Do("call", n) /\ <<R, Following(at)>> \in S
      BY <1>7, <2>1 DEF Performs
    <3>2. Inst.op = "call" /\ Inst.node = n
      BY <3>1, InstructionFields
    <3>3. TargetEvent = [op |-> "call", node |-> n]
      BY <3>2 DEF TargetEvent
    <3>4. SourceEvent = [op |-> "call", node |-> n]
      BY <1>2, <1>7, <2>1
    <3>5. QED
      BY <1>7, <3>1, <3>2, <3>3, <3>4 DEF SameEvent
  <2>2. CASE l = "finish" /\ Kind(n) = "assign"
    <3>1. Inst = Do("assign", n) /\ <<R, Following(at)>> \in S
      BY <1>7, <2>2 DEF Performs
    <3>2. Inst.op = "assign" /\ Inst.node = n
      BY <3>1, InstructionFields
    <3>3. TargetEvent = [op |-> "assign", node |-> n]
      BY <3>2 DEF TargetEvent
    <3>4. SourceEvent = [op |-> "assign", node |-> n]
      BY <1>2, <1>7, <2>2
    <3>5. QED
      BY <1>7, <3>1, <3>2, <3>3, <3>4 DEF SameEvent
  <2>3. CASE l = "finish" /\ Kind(n) = "return"
    <3>1. Inst = Ret(n)
      BY <1>7, <2>3 DEF Performs
    <3>2. Inst.op = "ret" /\ Inst.node = n
      BY <3>1, InstructionFields
    <3>3. TargetEvent = [op |-> "ret", node |-> n]
      BY <3>2 DEF TargetEvent
    <3>4. SourceEvent = [op |-> "ret", node |-> n]
      BY <1>2, <1>7, <2>3
    <3>5. QED
      BY <3>3, <3>4 DEF SameEvent
  <2>4. QED
    BY <1>2, <1>7, <2>1, <2>2, <2>3
<1>8. QED
  BY <1>4, <1>5, <1>6, <1>7 DEF Does, Item

-----------------------------------------------------------------------------
(***************************************************************************)
(* The source may have run ahead of the blocks: its states since the last     *)
(* event are a trace of silent steps, of which the i-th is where the blocks   *)
(* are and the k-th is where the source is.                                  *)
(***************************************************************************)

Trace(trace, i, k) ==
  /\ i \in Nat /\ k \in Nat /\ i <= k
  /\ \A j \in Nat : i <= j /\ j < k =>
       Silent(trace[j][1], trace[j][2], trace[j + 1][1], trace[j + 1][2])

Follows(S, trace, i, k, T, v, q, g, s) ==
  /\ Trace(trace, i, k)
  /\ Related(S, trace[i][1], trace[i][2], q, g, s)
  /\ trace[k][1] = T /\ trace[k][2] = v

(* The last state of the trace that is where the blocks are.                *)
LEMMA LastRelated ==
  ASSUME NEW S, NEW trace, NEW i, NEW k, NEW T, NEW v, NEW q, NEW g, NEW s,
         Follows(S, trace, i, k, T, v, q, g, s)
  PROVE  \E j \in Nat :
           /\ Follows(S, trace, j, k, T, v, q, g, s)
           /\ j < k => ~Related(S, trace[j + 1][1], trace[j + 1][2], q, g, s)
<1>1. i \in Nat /\ k \in Nat /\ i <= k
  BY DEF Follows, Trace
<1> DEFINE Left == {m \in Nat : /\ m <= k - i
                                /\ Related(S, trace[k - m][1], trace[k - m][2], q, g, s)}
<1>2. k - i \in Left
  <2>1. k - i \in Nat /\ k - (k - i) = i
    BY <1>1
  <2>2. QED
    BY <2>1 DEF Follows
<1>3. PICK m \in Left : \A x \in Left : m <= x
  <2>1. Left \subseteq Nat /\ Left # {}
    BY <1>2
  <2> HIDE DEF Left
  <2>2. QED
    BY <2>1, LeastOf
<1> DEFINE j == k - m
<1>4. j \in Nat /\ i <= j /\ j <= k /\ m \in Nat
  BY <1>1, <1>3
<1>5. Related(S, trace[j][1], trace[j][2], q, g, s)
  BY <1>3
<1>6. ASSUME j < k PROVE ~Related(S, trace[j + 1][1], trace[j + 1][2], q, g, s)
  <2>1. m - 1 \in Nat /\ k - (m - 1) = j + 1 /\ m - 1 <= k - i /\ ~(m <= m - 1)
    BY <1>1, <1>4, <1>6
  <2>2. m - 1 \notin Left
    BY <1>3, <2>1
  <2>3. QED
    BY <2>1, <2>2
<1>7. Follows(S, trace, j, k, T, v, q, g, s)
  <2> HIDE DEF j
  <2>1. Trace(trace, j, k)
    BY <1>1, <1>4 DEF Follows, Trace
  <2>2. QED
    BY <1>5, <2>1 DEF Follows
<1> HIDE DEF j
<1>8. QED
  BY <1>4, <1>6, <1>7

(* The source may run further ahead.                                        *)
LEMMA TraceGrows ==
  ASSUME NEW S, NEW trace, NEW i, NEW k, NEW T, NEW v, NEW q, NEW g, NEW s,
         Follows(S, trace, i, k, T, v, q, g, s), NEW U, NEW w, Silent(T, v, U, w)
  PROVE  \E longer : Follows(S, longer, i, k + 1, U, w, q, g, s)
<1> DEFINE longer == [j \in Nat |-> IF j <= k THEN trace[j] ELSE <<U, w>>]
<1>1. i \in Nat /\ k \in Nat /\ i <= k /\ k + 1 \in Nat /\ i <= k + 1 /\ ~(k + 1 <= k)
  BY DEF Follows, Trace
<1>2. \A j \in Nat : j <= k => longer[j] = trace[j]
  OBVIOUS
<1>3. longer[k + 1] = <<U, w>>
  BY <1>1
<1> HIDE DEF longer
<1>4. ASSUME NEW j \in Nat, i <= j, j < k + 1
      PROVE  Silent(longer[j][1], longer[j][2], longer[j + 1][1], longer[j + 1][2])
  <2>1. CASE j = k
    <3>1. longer[j] = trace[k] /\ longer[j + 1] = <<U, w>>
      BY <1>1, <1>2, <1>3, <2>1
    <3>2. QED
      BY <3>1 DEF Follows
  <2>2. CASE j # k
    <3>1. j < k /\ j <= k /\ j + 1 <= k /\ j + 1 \in Nat
      BY <1>1, <1>4, <2>2
    <3>2. longer[j] = trace[j] /\ longer[j + 1] = trace[j + 1]
      BY <1>2, <3>1
    <3>3. QED
      BY <1>4, <3>1, <3>2 DEF Follows, Trace
  <2>3. QED
    BY <2>1, <2>2
<1>5. Trace(longer, i, k + 1)
  BY <1>1, <1>4 DEF Trace
<1>6. longer[i] = trace[i]
  BY <1>1, <1>2
<1>7. Follows(S, longer, i, k + 1, U, w, q, g, s)
  BY <1>3, <1>5, <1>6 DEF Follows
<1>8. QED
  BY <1>7

\* The two executions are at the same state.
LEMMA TraceStarts ==
  ASSUME NEW S, NEW T, NEW v, NEW q, NEW g, NEW s, Related(S, T, v, q, g, s)
  PROVE  \E trace : Follows(S, trace, 0, 0, T, v, q, g, s)
<1> DEFINE trace == [j \in {0} |-> <<T, v>>]
<1>1. trace[0][1] = T /\ trace[0][2] = v
  OBVIOUS
<1> HIDE DEF trace
<1>2. Trace(trace, 0, 0)
  BY DEF Trace
<1>3. Follows(S, trace, 0, 0, T, v, q, g, s)
  BY <1>1, <1>2 DEF Follows
<1>4. QED
  BY <1>3

-----------------------------------------------------------------------------
(***************************************************************************)
(* The inductive invariant of the joint execution.                          *)
(***************************************************************************)

ExecCode ==
  IF status = "done"
    THEN \E S, trace, i, k : /\ Realized(S)
                             /\ Follows(S, trace, i, k, todo, value, at, reg, slot)
    ELSE /\ todo = <<Stmt(program.root)>> /\ value = Zeros
         /\ at = <<1, 1>> /\ reg = Zeros /\ slot = Zeros

ExecInv == Inv /\ CodeInv /\ ExecCode

(* The meanings of a finished function stay its meanings. *)
LEMMA RealizedPrimed ==
  ASSUME UNCHANGED <<program, fn>>, NEW S, Realized(S)
  PROVE  Realized(S)'
<1>1. /\ \A T, U : Quiet(T, U)' <=> Quiet(T, U)
      /\ \A i, V, T, x : Does(i, V, T, x)' <=> Does(i, V, T, x)
  BY MeaningsPrimed
<1>2. \A q : InstAt(q)' = InstAt(q)
  BY DEF InstAt
<1>3. \A T, q : Kept(S, T, q)' <=> Kept(S, T, q)
  BY <1>1, <1>2 DEF Kept
<1>4. Stmt(program.root)' = Stmt(program.root)
  BY DEF Stmt, Frame
<1>5. IsAst(program)'
  BY DEF Realized
<1>6. QED
  BY <1>3, <1>4, <1>5 DEF Realized

(* Follows in the next state is Follows of the next state: the program is the same. *)
LEMMA FollowsPrimed ==
  ASSUME UNCHANGED program, NEW S, NEW trace, NEW i, NEW k,
         Follows(S, trace, i, k, todo', value', at', reg', slot')
  PROVE  Follows(S, trace, i, k, todo, value, at, reg, slot)'
<1>1. /\ \A x : Kind(x)' = Kind(x) /\ Kids(x)' = Kids(x)
      /\ \A n : Body(n)' = Body(n) /\ Otherwise(n)' = Otherwise(n)
      /\ \A T, U : Quiet(T, U)' <=> Quiet(T, U)
  BY MeaningsPrimed
<1>2. \A n, v : Decided(n, v)' <=> Decided(n, v)
  BY <1>1 DEF Decided
<1>3. \A l, n, R, v, U, w : Computes(l, n, R, v, U, w)' <=> Computes(l, n, R, v, U, w)
  <2> SUFFICES ASSUME NEW l, NEW n, NEW R, NEW v, NEW U, NEW w
               PROVE  Computes(l, n, R, v, U, w)' <=> Computes(l, n, R, v, U, w)
    OBVIOUS
  <2>1. /\ Kind(n)' = Kind(n) /\ Kids(n)' = Kids(n)
        /\ Body(n)' = Body(n) /\ Otherwise(n)' = Otherwise(n)
        /\ Decided(n, v)' <=> Decided(n, v)
    BY <1>1, <1>2
  <2>2. Computes(l, n, R, v, U, w) => Computes(l, n, R, v, U, w)'
    BY <2>1 DEF Computes
  <2>3. Computes(l, n, R, v, U, w)' => Computes(l, n, R, v, U, w)
    BY <2>1 DEF Computes
  <2>4. QED
    BY <2>2, <2>3
<1>4. \A T, v, U, w : Silent(T, v, U, w)' <=> Silent(T, v, U, w)
  BY <1>1, <1>3 DEF Silent
<1>5. Trace(trace, i, k)' <=> Trace(trace, i, k)
  BY <1>4 DEF Trace
<1>6. \A l, n, R, v, q, s : Halfway(S, l, n, R, v, q, s)' <=> Halfway(S, l, n, R, v, q, s)
  BY <1>1, <1>2 DEF Halfway
<1>7. \A T, v : Related(S, T, v, at, reg, slot)' <=> Related(S, T, v, at', reg', slot')
  BY <1>6 DEF Related
<1>8. QED
  BY <1>5, <1>7 DEF Follows

(* A joint step that lowers nothing keeps ExecCode if the source is still followed. *)
LEMMA DoneStays ==
  ASSUME status = "done", UNCHANGED vars, NEW S, Realized(S), NEW trace, NEW i, NEW k,
         Follows(S, trace, i, k, todo', value', at', reg', slot')
  PROVE  ExecCode'
<1>1. UNCHANGED <<program, fn>> /\ status' = "done"
  BY DEF vars
<1>2. Realized(S)' /\ Follows(S, trace, i, k, todo, value, at, reg, slot)'
  BY <1>1, RealizedPrimed, FollowsPrimed
<1>3. QED
  BY <1>1, <1>2 DEF ExecCode

(* Where both executions are at an event, the blocks are where the source is. *)
LEMMA TogetherAtEvents ==
  ASSUME ExecCode, AtEvents
  PROVE  \E S : Realized(S) /\ Related(S, todo, value, at, reg, slot) /\ SameEvent(S)
<1>1. status = "done" /\ SourceEvent.op # "none" /\ TargetEvent.op # "none"
  BY DEF AtEvents
<1>2. PICK S, trace, i, k : Realized(S) /\ Follows(S, trace, i, k, todo, value, at, reg, slot)
  BY <1>1 DEF ExecCode
<1>3. PICK j \in Nat : /\ Follows(S, trace, j, k, todo, value, at, reg, slot)
                       /\ j < k => ~Related(S, trace[j + 1][1], trace[j + 1][2], at, reg, slot)
  BY <1>2, LastRelated
<1>4. ~(j < k)
  <2> SUFFICES ASSUME j < k PROVE FALSE
    OBVIOUS
  <2>1. Related(S, trace[j][1], trace[j][2], at, reg, slot)
    BY <1>3 DEF Follows
  <2>2. Silent(trace[j][1], trace[j][2], trace[j + 1][1], trace[j + 1][2])
    BY <1>3 DEF Follows, Trace
  <2>3. Answered(S, trace[j][1], trace[j][2], trace[j + 1][1], trace[j + 1][2])
    BY <1>2, <1>3, <2>1, <2>2, Simulation
  <2>4. QED
    BY <1>1, <2>3 DEF Answered
<1>5. Related(S, todo, value, at, reg, slot)
  <2>1. j = k
    BY <1>3, <1>4 DEF Follows, Trace
  <2>2. QED
    BY <1>3, <2>1 DEF Follows
<1>6. SameEvent(S)
  BY <1>1, <1>2, <1>5, EventMatches
<1>7. QED
  BY <1>2, <1>5, <1>6

(* The two executions, both at an event, are at the same event with equal values. *)
LEMMA EventsAgree == ExecCode => SameEvents
<1> SUFFICES ASSUME ExecCode, AtEvents
             PROVE  /\ SourceEvent = TargetEvent
                    /\ SourceEvent.node # program.root =>
                         \A k \in 1 .. Len(Kids(SourceEvent.node)) :
                            value[Kids(SourceEvent.node)[k]] = reg[Kids(SourceEvent.node)[k]]
  BY DEF SameEvents
<1>1. PICK S : Related(S, todo, value, at, reg, slot) /\ SameEvent(S)
  BY TogetherAtEvents
<1>2. SourceEvent = TargetEvent /\ value = reg
  BY <1>1 DEF Related, SameEvent
<1>3. QED
  BY <1>2

(* The steps of the joint execution keep ExecCode: the source runs ahead, *)
LEMMA SourceStepKeeps ==
  ASSUME ExecCode, SourceStep
  PROVE  ExecCode'
<1>1. status = "done" /\ UNCHANGED <<vars, target>>
  BY DEF SourceStep
<1>2. PICK S, trace, i, k : Realized(S) /\ Follows(S, trace, i, k, todo, value, at, reg, slot)
  BY <1>1 DEF ExecCode
<1>3. Silent(todo, value, todo', value')
  BY <1>2, SourceStepSilent DEF Realized
<1>4. PICK longer : Follows(S, longer, i, k + 1, todo', value', at, reg, slot)
  BY <1>2, <1>3, TraceGrows
<1>5. Follows(S, longer, i, k + 1, todo', value', at', reg', slot')
  BY <1>1, <1>4 DEF target
<1>6. QED
  BY <1>1, <1>2, <1>5, DoneStays

(* the blocks catch up, *)
LEMMA TargetStepKeeps ==
  ASSUME ExecCode, TargetStep
  PROVE  ExecCode'
<1>1. /\ status = "done" /\ UNCHANGED <<vars, source>> /\ TargetInst
      /\ SourceEvent.op # "none" /\ TargetEvent.op = "none" /\ todo' = todo /\ value' = value
  BY DEF TargetStep, source
<1>2. PICK S, trace, i, k : Realized(S) /\ Follows(S, trace, i, k, todo, value, at, reg, slot)
  BY <1>1 DEF ExecCode
<1>3. PICK j \in Nat : /\ Follows(S, trace, j, k, todo, value, at, reg, slot)
                       /\ j < k => ~Related(S, trace[j + 1][1], trace[j + 1][2], at, reg, slot)
  BY <1>2, LastRelated
<1>4. /\ Trace(trace, j, k) /\ Related(S, trace[j][1], trace[j][2], at, reg, slot)
      /\ trace[k][1] = todo /\ trace[k][2] = value /\ j \in Nat /\ k \in Nat /\ j <= k
  BY <1>3 DEF Follows, Trace
<1>5. CASE j < k
  <2>1. Silent(trace[j][1], trace[j][2], trace[j + 1][1], trace[j + 1][2])
    BY <1>4, <1>5 DEF Trace
  <2>2. Answered(S, trace[j][1], trace[j][2], trace[j + 1][1], trace[j + 1][2])
    BY <1>2, <1>3, <1>4, <1>5, <2>1, Simulation
  <2>3. \/ Related(S, trace[j][1], trace[j][2], at', reg', slot')
        \/ Related(S, trace[j + 1][1], trace[j + 1][2], at', reg', slot')
    BY <1>1, <2>2 DEF Answered
  <2>4. CASE Related(S, trace[j][1], trace[j][2], at', reg', slot')
    <3>1. Follows(S, trace, j, k, todo', value', at', reg', slot')
      BY <1>1, <1>4, <2>4 DEF Follows
    <3>2. QED
      BY <1>1, <1>2, <3>1, DoneStays
  <2>5. CASE Related(S, trace[j + 1][1], trace[j + 1][2], at', reg', slot')
    <3>1. Trace(trace, j + 1, k)
      BY <1>4, <1>5 DEF Trace
    <3>2. Follows(S, trace, j + 1, k, todo', value', at', reg', slot')
      BY <1>1, <1>4, <2>5, <3>1 DEF Follows
    <3>3. QED
      BY <1>1, <1>2, <3>2, DoneStays
  <2>6. QED
    BY <2>3, <2>4, <2>5
<1>6. CASE ~(j < k)
  <2>1. j = k /\ Related(S, todo, value, at, reg, slot)
    BY <1>4, <1>6
  <2>2. ~SameEvent(S)
    BY <1>1 DEF SameEvent
  <2>3. Related(S, todo, value, at', reg', slot')
    BY <1>1, <1>2, <2>1, <2>2, EventMatches
  <2>4. Follows(S, trace, k, k, todo', value', at', reg', slot')
    BY <1>1, <1>4, <2>1, <2>3 DEF Follows
  <2>5. QED
    BY <1>1, <1>2, <2>4, DoneStays
<1>7. QED
  BY <1>5, <1>6

(* both call, with the same outcome, *)
LEMMA JointCallKeeps ==
  ASSUME ExecCode, JointCall
  PROVE  ExecCode'
<1>1. AtEvents /\ status = "done" /\ SourceEvent.op = "call" /\ UNCHANGED <<vars, slot>>
  BY DEF JointCall, AtEvents
<1>2. PICK x \in Outcome : /\ value' = [value EXCEPT ![Item.node] = x]
                           /\ reg' = [reg EXCEPT ![Inst.node] = x]
  BY DEF JointCall
<1>3. todo' = <<>> \o Tail(todo) /\ at' = Following(at)
  BY DEF JointCall, Then, NextInst, Following
<1>4. PICK S : Realized(S) /\ Related(S, todo, value, at, reg, slot) /\ SameEvent(S)
  BY <1>1, TogetherAtEvents
<1>5. todo # <<>> /\ Inst.node = Item.node /\ <<Tail(todo), Following(at)>> \in S
  BY <1>1, <1>4 DEF SameEvent
<1>6. /\ todo \in Todos /\ value = reg /\ reg \in [Node -> Values] /\ slot \in [Node -> {0, 1}]
  BY <1>4 DEF Related
<1>7. Tail(todo) \in Todos /\ todo' = Tail(todo)
  BY <1>3, <1>5, <1>6, TodoHead, JoinTodos
<1>8. reg' \in [Node -> Values] /\ value' = reg'
  <2>1. x \in Values
    BY DEF Values
  <2>2. QED
    BY <1>2, <1>5, <1>6, <2>1
<1>9. Related(S, todo', value', at', reg', slot')
  BY <1>1, <1>3, <1>5, <1>6, <1>7, <1>8 DEF Related
<1>10. PICK trace : Follows(S, trace, 0, 0, todo', value', at', reg', slot')
  BY <1>9, TraceStarts
<1>11. QED
  BY <1>1, <1>4, <1>10, DoneStays

(* and both assign. *)
LEMMA JointAssignKeeps ==
  ASSUME ExecCode, JointAssign
  PROVE  ExecCode'
<1>1. AtEvents /\ status = "done" /\ SourceEvent.op = "assign" /\ UNCHANGED <<vars, value, reg, slot>>
  BY DEF JointAssign, AtEvents
<1>2. todo' = <<>> \o Tail(todo) /\ at' = Following(at)
  BY DEF JointAssign, Then, NextInst, Following
<1>3. PICK S : Realized(S) /\ Related(S, todo, value, at, reg, slot) /\ SameEvent(S)
  BY <1>1, TogetherAtEvents
<1>4. todo # <<>> /\ <<Tail(todo), Following(at)>> \in S
  BY <1>1, <1>3 DEF SameEvent
<1>5. /\ todo \in Todos /\ value = reg /\ reg \in [Node -> Values] /\ slot \in [Node -> {0, 1}]
  BY <1>3 DEF Related
<1>6. Tail(todo) \in Todos /\ todo' = Tail(todo)
  BY <1>2, <1>4, <1>5, TodoHead, JoinTodos
<1>7. Related(S, todo', value', at', reg', slot')
  BY <1>1, <1>2, <1>4, <1>5, <1>6 DEF Related
<1>8. PICK trace : Follows(S, trace, 0, 0, todo', value', at', reg', slot')
  BY <1>7, TraceStarts
<1>9. QED
  BY <1>1, <1>3, <1>8, DoneStays

(* The entry of a finished function means its whole body.                   *)
LEMMA ExecutionStarts ==
  ASSUME NEW S, Realized(S)
  PROVE  \E trace : Follows(S, trace, 0, 0, <<Stmt(program.root)>>, Zeros, <<1, 1>>, Zeros, Zeros)
<1>1. Zeros \in [Node -> Values] /\ Zeros \in [Node -> {0, 1}]
  BY DEF Zeros, Values
<1>2. program.root \in Node /\ <<<<Stmt(program.root)>>, <<1, 1>>>> \in S
  BY DEF Realized, IsAst
<1>3. <<Stmt(program.root)>> \in Todos
  BY <1>2, SourceItems DEF Todos
<1>4. Related(S, <<Stmt(program.root)>>, Zeros, <<1, 1>>, Zeros, Zeros)
  BY <1>1, <1>2, <1>3 DEF Related
<1>5. QED
  BY <1>4, TraceStarts

(* The lowering is over when it is done. *)
LEMMA NextLowers == Next => status = "lowering" /\ UNCHANGED program
<1> SUFFICES ASSUME Next PROVE status = "lowering" /\ UNCHANGED program
  OBVIOUS
<1>1. CASE \/ EnterScope \/ LowerItem \/ ExitScope \/ LowerSimpleStmt \/ FinishReturn
           \/ FinishAssign \/ FinishExp
  BY <1>1 DEF EnterScope, LowerItem, ExitScope, LowerSimpleStmt, FinishReturn, FinishAssign,
     FinishExp, At, AtStmt
<1>2. CASE \/ StartIf \/ BranchIf \/ EndThenWithoutElse \/ EndThen \/ EndElse
  BY <1>2 DEF StartIf, BranchIf, EndThenWithoutElse, EndThen, EndElse, At, AtStmt
<1>3. CASE \/ StartLoop \/ TestLoop \/ EndLoop \/ LoopControl \/ RejectLoopControl
  BY <1>3 DEF StartLoop, TestLoop, EndLoop, LoopControl, RejectLoopControl, At, AtStmt
<1>4. CASE \/ LowerNumber \/ LowerOperands \/ Apply \/ StartOr \/ StartAnd
           \/ CreateAndBlocks \/ EndLhs \/ EndRhs \/ EndFunction
  BY <1>4 DEF LowerNumber, LowerOperands, Apply, StartOr, StartAnd, CreateAndBlocks, EndLhs,
     EndRhs, EndFunction, At, AtExp
<1>5. QED
  BY <1>1, <1>2, <1>3, <1>4, Zenon DEF Next

\* The joint execution can start.
Started ==
  \E S, trace : /\ Realized(S)
                /\ Follows(S, trace, 0, 0, <<Stmt(program.root)>>, Zeros, <<1, 1>>, Zeros, Zeros)

(* A finished lowering leaves the two executions at the beginning of the body. *)
LEMMA DoneStarts == Inv /\ CodeInv /\ status = "done" => Started
<1> SUFFICES ASSUME Inv, CodeInv, status = "done" PROVE Started
  OBVIOUS
<1>1. PICK S : Realized(S)
  BY DoneCode
<1>2. PICK trace :
        Follows(S, trace, 0, 0, <<Stmt(program.root)>>, Zeros, <<1, 1>>, Zeros, Zeros)
  BY <1>1, ExecutionStarts
<1>3. QED
  BY <1>1, <1>2 DEF Started

(* Until then nothing is executed. *)
LEMMA LoweringKeeps ==
  ASSUME Inv', CodeInv', ExecCode, status # "done", UNCHANGED <<program, source, target>>
  PROVE  ExecCode'
<1>1. /\ todo = <<Stmt(program.root)>> /\ value = Zeros
      /\ at = <<1, 1>> /\ reg = Zeros /\ slot = Zeros
  BY DEF ExecCode
<1>2. /\ todo' = todo /\ value' = value /\ at' = at /\ reg' = reg /\ slot' = slot
  BY DEF source, target
<1>3. Zeros' = Zeros /\ Stmt(program.root)' = Stmt(program.root)
  BY DEF Zeros, Kind, Stmt, Frame
<1>4. CASE status' # "done"
  BY <1>1, <1>2, <1>3, <1>4 DEF ExecCode
<1>5. CASE status' = "done"
  <2>1. Started'
    <3>1. (Inv /\ CodeInv /\ status = "done")'
      BY <1>5
    <3>2. QED
      BY <3>1, DoneStarts, PTL
  <2>2. QED
    BY <1>1, <1>2, <1>3, <1>5, <2>1 DEF Started, ExecCode
<1>6. QED
  BY <1>4, <1>5

LEMMA ExecInitInv == ExecInit => ExecInv
<1> SUFFICES ASSUME ExecInit PROVE ExecInv
  OBVIOUS
<1>1. Init /\ status # "done"
  BY DEF ExecInit, Init
<1>2. Inv /\ CodeInv
  BY <1>1, InitInv, InitCode DEF Inv
<1>3. ExecCode
  BY <1>1 DEF ExecInit, ExecCode
<1>4. QED
  BY <1>2, <1>3 DEF ExecInv

LEMMA ExecNextInv == ExecInv /\ [ExecNext]_execVars => ExecInv'
<1> SUFFICES ASSUME ExecInv, [ExecNext]_execVars PROVE ExecInv'
  OBVIOUS
<1>1. Inv /\ CodeInv /\ ExecCode
  BY DEF ExecInv
<1>2. [Next]_vars
  BY DEF ExecNext, execVars, SourceStep, TargetStep, JointCall, JointAssign, Returned
<1>3. Inv' /\ CodeInv'
  BY <1>1, <1>2, NextInv, NextCode
<1>4. CASE Next /\ UNCHANGED <<source, target>>
  <2>1. status # "done" /\ UNCHANGED <<program, source, target>>
    BY <1>4, NextLowers
  <2>2. ExecCode'
    BY <1>1, <1>3, <2>1, LoweringKeeps
  <2>3. QED
    BY <1>3, <2>2 DEF ExecInv
<1>5. CASE SourceStep \/ TargetStep \/ JointCall \/ JointAssign
  <2>1. ExecCode'
    BY <1>1, <1>5, SourceStepKeeps, TargetStepKeeps, JointCallKeeps, JointAssignKeeps
  <2>2. QED
    BY <1>3, <2>1 DEF ExecInv
<1>6. CASE UNCHANGED execVars
  <2>1. /\ UNCHANGED vars /\ UNCHANGED <<program, source, target>>
        /\ todo' = todo /\ value' = value /\ at' = at /\ reg' = reg /\ slot' = slot
    BY <1>6 DEF execVars, vars, source, target
  <2>2. CASE status = "done"
    <3>1. PICK S, trace, i, k : Realized(S) /\ Follows(S, trace, i, k, todo, value, at, reg, slot)
      BY <1>1, <2>2 DEF ExecCode
    <3>2. Follows(S, trace, i, k, todo', value', at', reg', slot')
      BY <2>1, <3>1
    <3>3. ExecCode'
      BY <2>1, <2>2, <3>1, <3>2, DoneStays
    <3>4. QED
      BY <1>3, <3>3 DEF ExecInv
  <2>3. CASE status # "done"
    <3>1. ExecCode'
      BY <1>1, <1>3, <2>1, <2>3, LoweringKeeps
    <3>2. QED
      BY <1>3, <3>1 DEF ExecInv
  <2>4. QED
    BY <2>2, <2>3
<1>7. QED
  BY <1>4, <1>5, <1>6 DEF ExecNext, Returned

(* For every AST, every nesting of its statements and every outcome of its    *)
(* calls, the basic blocks RewindIRBuilder makes call, assign and return at    *)
(* the same places, in the same order and with the same operand values as the *)
(* body of the function does by the rules of the language.                    *)
THEOREM LoweringKeepsMeaning == ExecSpec => []SameEvents
<1>1. ExecInit => ExecInv
  BY ExecInitInv
<1>2. ExecInv /\ [ExecNext]_execVars => ExecInv'
  BY ExecNextInv
<1>3. ExecInv => SameEvents
  BY EventsAgree DEF ExecInv
<1>4. QED
  BY <1>1, <1>2, <1>3, PTL DEF ExecSpec

=============================================================================
