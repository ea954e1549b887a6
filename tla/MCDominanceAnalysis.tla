------------------------ MODULE MCDominanceAnalysis ------------------------
(***************************************************************************)
(* Three families of graphs.  Small: three blocks, any order and repetition *)
(* of targets, and an unreachable fourth block that is a predecessor of the *)
(* third.  Medium: four blocks, two targets in increasing order, the entry  *)
(* (up to the names of the others) going to 2 or to 2 and 3.  Large: five   *)
(* blocks with cross edges from a deeper to a shallower block, irreducible  *)
(* loops and a loop back to the entry; the smallest graphs in which a       *)
(* second sweep changes a dominator set are among these.                    *)
(***************************************************************************)
EXTENDS DominanceAnalysis

MCBlock == 1 .. 5

Pad(g) == [b \in MCBlock |-> IF b \in DOMAIN g THEN g[b] ELSE <<>>]

AnyTargets == {<<>>} \cup {<<t>> : t \in 1 .. 3} \cup (1 .. 3) \X (1 .. 3)

Small ==
  {Pad(<< b1, b2, b3, <<3>> >>) :
     b1 \in {<<2>>, <<2, 2>>, <<1, 2>>, <<2, 3>>, <<3, 2>>},
     b2 \in AnyTargets, b3 \in AnyTargets}

Increasing ==
  {<<>>} \cup {<<t>> : t \in 1 .. 4} \cup {e \in (1 .. 4) \X (1 .. 4) : e[1] < e[2]}

Medium ==
  {Pad([b \in 1 .. 4 |-> IF b = 1 THEN first ELSE g[b]]) :
     first \in {<<2>>, <<2, 3>>}, g \in [2 .. 4 -> Increasing]}

Large ==
  {<< <<2, 3>>, b2, b3, b4, b5 >> :
     b2 \in {<<4>>, <<5>>, <<3, 4>>, <<4, 5>>},
     b3 \in {<<4>>, <<5>>, <<2, 5>>},
     b4 \in {<<>>, <<5>>, <<2>>, <<2, 5>>},
     b5 \in {<<>>, <<4>>, <<3>>, <<1, 4>>}}

MCCfgs == Small \cup Medium \cup Large
=============================================================================
