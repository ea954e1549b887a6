-------------------------- MODULE MCEdgeArguments --------------------------
(***************************************************************************)
(* A block 1 with two parameters and a block 2 with one.  InOrder: every     *)
(* jump and branch to them whose copies read no parameter already assigned.  *)
(* SwapInLoop: the back edge Mem2Reg makes of                               *)
(*     while (c) { t = x; x = y; y = t; }                                   *)
(***************************************************************************)
EXTENDS EdgeArguments

MCBlock == {1, 2}
MCParams == << <<"x", "y">>, <<"r">> >>
MCIRValue == {"x", "y", "r"}
MCContent == 0 .. 2

MCArgument == {<<"const", 1>>} \cup ({"value"} \X MCIRValue)

EdgesTo(b) == {[target |-> b, args |-> a] : a \in [1 .. Len(MCParams[b]) -> MCArgument]}

InOrderEdges == {e \in EdgesTo(1) \cup EdgesTo(2) : ReadsBeforeAssigned(e)}

InOrder ==
  {[cond |-> <<"const", 0>>, edges |-> <<e>>] : e \in InOrderEdges}
  \cup {[cond |-> <<"value", "x">>, edges |-> <<i, e>>] :
           i \in InOrderEdges \cap EdgesTo(1), e \in InOrderEdges \cap EdgesTo(2)}
  \cup {[cond |-> <<"value", "r">>, edges |-> <<i, e>>] :
           i \in InOrderEdges \cap EdgesTo(2), e \in InOrderEdges \cap EdgesTo(1)}

SwapInLoop ==
  {[cond |-> <<"const", 0>>,
    edges |-> << [target |-> 1, args |-> << <<"value", "y">>, <<"value", "x">> >>] >>]}
=============================================================================
