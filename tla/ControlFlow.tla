---------------------------- MODULE ControlFlow ----------------------------
(***************************************************************************)
(* The control-flow graph of one IR function, and what the words            *)
(* "reachable", "dominates" and "dominance frontier" mean for it.  Nothing  *)
(* here is an algorithm: DominanceAnalysis computes these notions the way   *)
(* src/ir/cfg_analysis.cpp and src/ir/dominance_analysis.cpp do and is      *)
(* compared with them, and Mem2Reg uses them as the result of the analysis. *)
(*                                                                         *)
(* A graph is a function from blocks to the sequence of targets of the      *)
(* block's terminator: <<>> for ret, <<t>> for jump, <<t, e>> for branch.   *)
(***************************************************************************)
EXTENDS Naturals, Sequences, SequencesExt

CONSTANTS Block,   \* the basic blocks of a function
          Entry,   \* the first block of basic_blocks_
          NoBlock  \* nullptr

ASSUME BlockAssumption == Entry \in Block /\ NoBlock \notin Block

Targets(succ, b) == ToSet(succ[b])

Predecessors(succ, b) == {p \in Block : b \in Targets(succ, p)}

(***************************************************************************)
(* Reachable: in every set of blocks that holds the entry and is closed     *)
(* under the edges.                                                         *)
(***************************************************************************)
ClosedUnderEdges(succ, R) == \A x \in R : Targets(succ, x) \subseteq R

Reachable(succ) ==
  {b \in Block : \A R \in SUBSET Block :
                    Entry \in R /\ ClosedUnderEdges(succ, R) => b \in R}

(***************************************************************************)
(* d dominates b: every path from the entry to b goes through d.  Said      *)
(* without paths: some region R without d and without b holds every block   *)
(* a path can visit before it first meets d.                                *)
(***************************************************************************)
SeparatesFromEntry(succ, R, d) ==
  /\ d \notin R
  /\ Entry # d => Entry \in R
  /\ \A x \in R : Targets(succ, x) \subseteq R \cup {d}

Dominates(succ, d, b) ==
  \/ d = b
  \/ \E R \in SUBSET Block : SeparatesFromEntry(succ, R, d) /\ b \notin R

StrictlyDominates(succ, d, b) == d # b /\ Dominates(succ, d, b)

Dominators(succ, b) == {d \in Block : Dominates(succ, d, b)}

(***************************************************************************)
(* The immediate dominator: the strict dominator that every other strict    *)
(* dominator dominates.  The entry and unreachable blocks have none.        *)
(***************************************************************************)
IsImmediateDominator(succ, d, b) ==
  /\ d \in Reachable(succ)
  /\ StrictlyDominates(succ, d, b)
  /\ \A other \in Reachable(succ) :
        StrictlyDominates(succ, other, b) => Dominates(succ, other, d)

(***************************************************************************)
(* The blocks where the control of n ends: n dominates a predecessor but    *)
(* not, strictly, the block.  The entry belongs to no frontier: the code    *)
(* computes none for a block without an immediate dominator.                *)
(***************************************************************************)
Frontier(succ, n) ==
  {b \in Reachable(succ) \ {Entry} :
     /\ \E p \in Predecessors(succ, b) \cap Reachable(succ) : Dominates(succ, n, p)
     /\ ~StrictlyDominates(succ, n, b)}
=============================================================================
