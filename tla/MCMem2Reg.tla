----------------------------- MODULE MCMem2Reg -----------------------------
(***************************************************************************)
(* Two families of functions.  Small: every graph of an entry and two other *)
(* blocks, all reachable, with one variable whose accesses in each block are *)
(* chosen from the shapes that matter.  Shapes: the control flow the builder *)
(* makes of if, while, break and nested loops, with two variables, among     *)
(* them a swap in a loop, a variable declared in a loop body, one whose      *)
(* address is used, one that is never read and one read before it is set.   *)
(***************************************************************************)
EXTENDS Mem2Reg

MCBlock == 1 .. 5
MCVar == {"x", "y"}
MCConstant == 0 .. 5

I(op, v, val) == [op |-> op, var |-> v, val |-> val]
Alloc(v) == I("alloc", v, NoOperand)
Load(v) == I("load", v, NoOperand)
Store(v, val) == I("store", v, val)
Addr(v) == I("addr", v, NoOperand)
Other(val) == I("other", "none", val)
Const(c) == <<"const", c>>
Res(b, k) == Result(<<b, k>>)

Fn(succ, body) ==
  [succ |-> [b \in MCBlock |-> IF b \in DOMAIN succ THEN succ[b] ELSE <<>>],
   body |-> [b \in MCBlock |-> IF b \in DOMAIN body THEN body[b] ELSE <<>>]]

AllReachable(succ) == DOMAIN succ \subseteq Reachable(Fn(succ, <<>>).succ)

-----------------------------------------------------------------------------

Successors == {<<>>, <<2>>, <<3>>, <<2, 3>>}

SmallGraphs ==
  {g \in {<<s1, s2, s3>> : s1 \in {<<2>>, <<2, 3>>}, s2 \in Successors, s3 \in Successors} :
     AllReachable(g)}

\* Accesses of x in block b.  The operand of "other" is what the load read.
Accessing(b) ==
  {<<>>, <<Store("x", Const(b))>>, <<Load("x"), Other(Res(b, 1))>>,
   <<Load("x"), Store("x", Const(b)), Other(Res(b, 1))>>,
   <<Store("x", Const(b)), Load("x"), Other(Res(b, 2))>>}

EntryBody == {<<Alloc("x")>>, <<Alloc("x"), Store("x", Const(1))>>}

Small == {Fn(g, <<b1, b2, b3>>) : g \in SmallGraphs, b1 \in EntryBody,
                                  b2 \in Accessing(2), b3 \in Accessing(3)}

-----------------------------------------------------------------------------

BothSet == <<Alloc("x"), Alloc("y"), Store("x", Const(0)), Store("y", Const(1))>>
ReadBoth(b) == <<Load("x"), Load("y"), Other(Res(b, 1)), Other(Res(b, 2))>>

\* while (c) { t = x; x = y; y = t; } with t kept in a load
Swap ==
  Fn(<< <<2>>, <<3, 4>>, <<2>> >>,
     << BothSet, <<>>,
        <<Load("x"), Load("y"), Store("x", Res(3, 2)), Store("y", Res(3, 1))>>,
        ReadBoth(4) >>)

\* y is declared in the loop body and takes x, which then takes a new result
DeclaredInLoop ==
  Fn(<< <<2>>, <<3, 4>>, <<2>> >>,
     << <<Alloc("x"), Store("x", Const(0))>>, <<Load("x"), Other(Res(2, 1))>>,
        <<Alloc("y"), Load("x"), Store("y", Res(3, 2)), Load("y"), Other(Res(3, 4)),
          Store("x", Res(3, 5))>>,
        <<Load("x"), Other(Res(4, 1))>> >>)

\* if (c) { if (c) x = y; } in which only one path stores
NestedIf ==
  Fn(<< <<2, 5>>, <<3, 4>>, <<4>>, <<5>> >>,
     << BothSet, <<>>, <<Load("y"), Store("x", Res(3, 1))>>, <<Load("x"), Store("y", Res(4, 1))>>,
        ReadBoth(5) >>)

\* a loop with a break: the exit joins the header and the break
Break ==
  Fn(<< <<2>>, <<3, 5>>, <<4, 5>>, <<2>> >>,
     << BothSet, <<Load("x"), Store("y", Res(2, 1))>>, <<Store("x", Const(3))>>,
        <<Load("y"), Store("x", Res(4, 1))>>, ReadBoth(5) >>)

\* nested loops, x carried by both, y only set before the inner one
NestedLoops ==
  Fn(<< <<2>>, <<3, 5>>, <<4, 2>>, <<3>> >>,
     << <<Alloc("x"), Store("x", Const(0)), Alloc("y")>>, <<Load("x"), Store("y", Res(2, 1))>>,
        <<Load("x"), Other(Res(3, 1))>>, <<Load("y"), Store("x", Res(4, 1))>>,
        <<Load("x"), Other(Res(5, 1))>> >>)

\* the address of y is used; x is stored from what is read of y
Escaping ==
  Fn(<< <<2, 3>>, <<3>> >>,
     << BothSet, <<Addr("y"), Load("y"), Store("x", Res(2, 2))>>, ReadBoth(3) >>)

\* y is only stored
NeverRead ==
  Fn(<< <<2, 3>>, <<3>> >>,
     << BothSet, <<Store("y", Const(2)), Load("x"), Store("y", Res(2, 2))>>,
        <<Load("x"), Other(Res(3, 1))>> >>)

\* an if with both targets the same block
SameTargets ==
  Fn(<< <<2, 3>>, <<4, 4>>, <<4>> >>,
     << BothSet, <<Load("y"), Store("x", Res(2, 1))>>, <<Store("y", Const(3))>>, ReadBoth(4) >>)

\* y takes what x holds before anything is stored in x
CopiesUndefined ==
  Fn(<< <<2>>, <<2, 3>> >>,
     << <<Alloc("x"), Alloc("y"), Load("x"), Store("y", Res(1, 3)), Store("x", Const(2))>>,
        <<Load("y"), Other(Res(2, 1)), Load("x"), Store("y", Res(2, 3))>>,
        ReadBoth(3) >>)

Shapes == {Swap, DeclaredInLoop, NestedIf, Break, NestedLoops, Escaping, NeverRead, SameTargets,
           CopiesUndefined}

MCFunctions == Small \cup Shapes

-----------------------------------------------------------------------------

(***************************************************************************)
(* An if whose then-block stores x, with a block nobody jumps to that jumps  *)
(* to the merge block: the shape of the hand-made functions of               *)
(* scripts/run_cfg_analysis_smoke.sh and run_dominance_analysis_smoke.sh.    *)
(* The builder makes no such function (EveryBlockReachable of FuncLowering). *)
(***************************************************************************)
WithUnreachablePredecessor ==
  Fn(<< <<2, 3>>, <<4>>, <<4>>, <<>>, <<4>> >>,
     << BothSet, <<Store("x", Const(2))>>, <<>>, ReadBoth(4), <<>> >>)

DeadFunctions == {WithUnreachablePredecessor}
=============================================================================
