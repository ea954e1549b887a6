------------------------- MODULE DominanceAnalysis -------------------------
(***************************************************************************)
(* CFGAnalysis and DominanceAnalysis (src/ir/cfg_analysis.cpp,              *)
(* src/ir/dominance_analysis.cpp): breadth-first reachability, the          *)
(* iterative dominator sets with in-place updates, immediate dominators,    *)
(* the dominator tree and the dominance frontiers, one loop iteration a     *)
(* step.                                                                    *)
(***************************************************************************)
EXTENDS ControlFlow

CONSTANT Cfgs  \* the graphs the analyses are run on

ASSUME CfgsAssumption == \A g \in Cfgs : g \in [Block -> Seq(Block)]

VARIABLES
  succ,      \* the graph under analysis; never changes
  pc,        \* which member function is running
  order,     \* reachable_blocks_, in breadth-first order
  i, j,      \* indices of the running loops: a position of order, a successor
  dom,       \* dominator_sets_
  changed,   \* the flag of compute_dominator_sets
  idom,      \* immediate_dominators_
  children,  \* dominator_tree_children_
  walked,    \* predecessors of order[i] the frontier loop has started from
  runner,    \* the runner of compute_dominance_frontier
  df         \* dominance_frontiers_

vars == <<succ, pc, order, i, j, dom, changed, idom, children, walked, runner, df>>

Reached == ToSet(order)

-----------------------------------------------------------------------------
(* CFGAnalysis::build and compute_reachable_blocks *)

Init ==
  /\ succ \in Cfgs
  /\ pc = "reach"
  /\ order = <<Entry>>
  /\ i = 1
  /\ j = 1
  /\ dom = [b \in Block |-> {}]
  /\ changed = FALSE
  /\ idom = [b \in Block |-> NoBlock]
  /\ children = [b \in Block |-> {}]
  /\ walked = {}
  /\ runner = NoBlock
  /\ df = [b \in Block |-> {}]

\* A wrong variant: reachable_set_ is not consulted.
VisitSuccessorAgain ==
  /\ pc = "reach"
  /\ i <= Len(order)
  /\ j <= Len(succ[order[i]])
  /\ order' = Append(order, succ[order[i]][j])
  /\ j' = j + 1
  /\ UNCHANGED <<succ, pc, i, dom, changed, idom, children, walked, runner, df>>

VisitSuccessor ==
  /\ pc = "reach"
  /\ i <= Len(order)
  /\ j <= Len(succ[order[i]])
  /\ LET s == succ[order[i]][j]
     IN order' = IF s \in Reached THEN order ELSE Append(order, s)
  /\ j' = j + 1
  /\ UNCHANGED <<succ, pc, i, dom, changed, idom, children, walked, runner, df>>

\* A wrong variant: the successor index of the next block starts one early.
NextReachableFromZero ==
  /\ pc = "reach"
  /\ i <= Len(order)
  /\ j > Len(succ[order[i]])
  /\ i' = i + 1
  /\ j' = 0
  /\ UNCHANGED <<succ, pc, order, dom, changed, idom, children, walked, runner, df>>

NextReachable ==
  /\ pc = "reach"
  /\ i <= Len(order)
  /\ j > Len(succ[order[i]])
  /\ i' = i + 1
  /\ j' = 1
  /\ UNCHANGED <<succ, pc, order, dom, changed, idom, children, walked, runner, df>>

-----------------------------------------------------------------------------
(* DominanceAnalysis: initialize_dominator_sets, compute_dominator_sets *)

\* A wrong variant: the sets start empty instead of full.
InitializeDominatorSetsEmpty ==
  /\ pc = "reach"
  /\ i > Len(order)
  /\ dom' = [b \in Block |-> IF b = Entry THEN {Entry} ELSE {}]
  /\ pc' = "dominators"
  /\ i' = 1
  /\ changed' = FALSE
  /\ UNCHANGED <<succ, order, j, idom, children, walked, runner, df>>

InitializeDominatorSets ==
  /\ pc = "reach"
  /\ i > Len(order)
  /\ dom' = [b \in Block |-> IF b = Entry THEN {Entry}
                             ELSE IF b \in Reached THEN Reached ELSE {}]
  /\ pc' = "dominators"
  /\ i' = 1
  /\ changed' = FALSE
  /\ UNCHANGED <<succ, order, j, idom, children, walked, runner, df>>

\* A wrong variant: the reachability test on the predecessors is dropped.
ReachablePredecessorsUnfiltered(b) == Predecessors(succ, b)

ReachablePredecessors(b) == Predecessors(succ, b) \cap Reached

\* The body of the loop over the predecessors: the intersection of their sets
\* (nothing when none is reachable) and the block itself.
Meet(b) ==
  {b} \cup {d \in Reached : /\ ReachablePredecessors(b) # {}
                            /\ \A p \in ReachablePredecessors(b) : d \in dom[p]}

VisitBlock ==
  /\ pc = "dominators"
  /\ i <= Len(order)
  /\ LET b == order[i]
     IN IF b = Entry
          THEN UNCHANGED <<dom, changed>>
          ELSE /\ dom' = [dom EXCEPT ![b] = Meet(b)]
               /\ changed' = (changed \/ Meet(b) # dom[b])
  /\ i' = i + 1
  /\ UNCHANGED <<succ, pc, order, j, idom, children, walked, runner, df>>

\* A wrong variant: the flag is not cleared for the next sweep.
NextSweepStillChanged ==
  /\ pc = "dominators"
  /\ i > Len(order)
  /\ changed
  /\ i' = 1
  /\ UNCHANGED <<succ, pc, order, j, dom, changed, idom, children, walked, runner, df>>

NextSweep ==
  /\ pc = "dominators"
  /\ i > Len(order)
  /\ changed
  /\ i' = 1
  /\ changed' = FALSE
  /\ UNCHANGED <<succ, pc, order, j, dom, idom, children, walked, runner, df>>

\* A wrong variant: the loop ends after its first sweep.
EndSweepsTooEarly ==
  /\ pc = "dominators"
  /\ i > Len(order)
  /\ pc' = "idom"
  /\ i' = 1
  /\ UNCHANGED <<succ, order, j, dom, changed, idom, children, walked, runner, df>>

EndSweeps ==
  /\ pc = "dominators"
  /\ i > Len(order)
  /\ ~changed
  /\ pc' = "idom"
  /\ i' = 1
  /\ UNCHANGED <<succ, order, j, dom, changed, idom, children, walked, runner, df>>

-----------------------------------------------------------------------------
(* compute_immediate_dominators, compute_dominator_tree_children *)

StrictDominatorsFound(b) == {c \in Reached \ {b} : c \in dom[b]}

\* A wrong variant: any strict dominator is taken for the closest.
ClosestAny(b) == StrictDominatorsFound(b)

Closest(b) ==
  {c \in StrictDominatorsFound(b) :
     \A other \in StrictDominatorsFound(b) \ {c} : other \in dom[c]}

ComputeImmediateDominator ==
  /\ pc = "idom"
  /\ i <= Len(order)
  /\ LET b == order[i]
     IN IF b = Entry \/ Closest(b) = {}
          THEN UNCHANGED idom
          ELSE \E k \in 1 .. Len(order) :
                 /\ order[k] \in Closest(b)
                 /\ \A m \in 1 .. k - 1 : order[m] \notin Closest(b)
                 /\ idom' = [idom EXCEPT ![b] = order[k]]
  /\ i' = i + 1
  /\ UNCHANGED <<succ, pc, order, j, dom, changed, children, walked, runner, df>>

ComputeChildren ==
  /\ pc = "idom"
  /\ i > Len(order)
  /\ children' = [b \in Block |-> {c \in Reached : idom[c] = b}]
  /\ pc' = "frontier"
  /\ i' = 1
  /\ UNCHANGED <<succ, order, j, dom, changed, idom, walked, runner, df>>

-----------------------------------------------------------------------------
(* compute_dominance_frontier *)

\* The predecessors are kept as a set: the frontiers are sets too, so the order
\* in which the walks start does not show in the result.
StartWalk ==
  /\ pc = "frontier"
  /\ i <= Len(order)
  /\ idom[order[i]] # NoBlock
  /\ runner = NoBlock
  /\ \E p \in ReachablePredecessors(order[i]) \ walked :
       /\ runner' = p
       /\ walked' = walked \cup {p}
  /\ UNCHANGED <<succ, pc, order, i, j, dom, changed, idom, children, df>>

\* A wrong variant: the walk goes one block too far.
WalkUpPastStop ==
  /\ pc = "frontier"
  /\ runner # NoBlock
  /\ df' = [df EXCEPT ![runner] = @ \cup {order[i]}]
  /\ runner' = IF runner = idom[order[i]] THEN NoBlock ELSE idom[runner]
  /\ UNCHANGED <<succ, pc, order, i, j, dom, changed, idom, children, walked>>

WalkUp ==
  /\ pc = "frontier"
  /\ runner # NoBlock
  /\ IF runner = idom[order[i]]
       THEN runner' = NoBlock /\ UNCHANGED df
       ELSE /\ df' = [df EXCEPT ![runner] = @ \cup {order[i]}]
            /\ runner' = idom[runner]
  /\ UNCHANGED <<succ, pc, order, i, j, dom, changed, idom, children, walked>>

NextFrontierBlock ==
  /\ pc = "frontier"
  /\ i <= Len(order)
  /\ runner = NoBlock
  /\ \/ idom[order[i]] = NoBlock
     \/ ReachablePredecessors(order[i]) \subseteq walked
  /\ i' = i + 1
  /\ walked' = {}
  /\ UNCHANGED <<succ, pc, order, j, dom, changed, idom, children, runner, df>>

EndFrontier ==
  /\ pc = "frontier"
  /\ i > Len(order)
  /\ pc' = "done"
  /\ UNCHANGED <<succ, order, i, j, dom, changed, idom, children, walked, runner, df>>

Finished == pc = "done" /\ UNCHANGED vars

Next ==
  \/ VisitSuccessor \/ NextReachable
  \/ InitializeDominatorSets \/ VisitBlock \/ NextSweep \/ EndSweeps
  \/ ComputeImmediateDominator \/ ComputeChildren
  \/ StartWalk \/ WalkUp \/ NextFrontierBlock \/ EndFrontier
  \/ Finished

Spec == Init /\ [][Next]_vars

\* The constructor runs its loops to their end: nothing else runs meanwhile.
FairSpec == Spec /\ WF_vars(Next)

-----------------------------------------------------------------------------
(* Properties *)

Phase == {"reach", "dominators", "idom", "frontier", "done"}

TypeOK ==
  /\ succ \in [Block -> Seq(Block)]
  /\ pc \in Phase
  /\ order \in Seq(Block)
  /\ i \in Nat \ {0}
  /\ j \in Nat \ {0}
  /\ dom \in [Block -> SUBSET Block]
  /\ changed \in BOOLEAN
  /\ idom \in [Block -> Block \cup {NoBlock}]
  /\ children \in [Block -> SUBSET Block]
  /\ walked \in SUBSET Block
  /\ runner \in Block \cup {NoBlock}
  /\ runner # NoBlock => pc = "frontier" /\ i <= Len(order)
  /\ df \in [Block -> SUBSET Block]

(* reachable_blocks() lists exactly the blocks a path from the entry can    *)
(* visit, each once, whatever edges the unreachable blocks have.            *)
ReachableExact ==
  pc \in {"dominators", "done"} =>
    /\ Reached = Reachable(succ)
    /\ \A k, m \in 1 .. Len(order) : order[k] = order[m] => k = m

(* In the middle of the in-place sweeps a block's set may hold too much,    *)
(* never too little: no true dominator is ever removed, although the sets   *)
(* of predecessors a sweep reads are partly of this sweep, partly of the    *)
(* one before.                                                              *)
NoDominatorLost ==
  pc = "dominators" =>
    \A b \in Reachable(succ) : Dominators(succ, b) \subseteq dom[b]

(* When the sweeps have ended the sets are exact: dominates() answers by    *)
(* the definition, for reducible and irreducible graphs alike.              *)
DominatorsExact ==
  pc \in {"idom", "done"} =>
    \A b \in Reachable(succ) : dom[b] = Dominators(succ, b)

(* Every reachable block but the entry has an immediate dominator, the      *)
(* closest one, and is a child of it alone: the tree mem2reg renames along  *)
(* visits every reachable block.                                            *)
DominatorTreeExact ==
  pc = "done" =>
    \A b \in Block :
      /\ b \in Reachable(succ) \ {Entry} => IsImmediateDominator(succ, idom[b], b)
      /\ b \notin Reachable(succ) \ {Entry} => idom[b] = NoBlock
      /\ {p \in Block : b \in children[p]} = {idom[b]} \ {NoBlock}

(* The runner loops build the frontiers of the definition: they stop at the *)
(* immediate dominator of the join and skip no block below it.              *)
FrontierExact ==
  pc = "done" => \A n \in Reachable(succ) : df[n] = Frontier(succ, n)

(* A block's dominator set only ever shrinks once it is initialised: that   *)
(* is why the sweeps cannot go on for ever.                                 *)
DominatorsShrink ==
  [][pc = "dominators" => \A b \in Block : dom'[b] \subseteq dom[b]]_vars

(* The constructor returns: the sweeps reach a fixed point and every walk   *)
(* up the dominator tree ends.                                              *)
Terminates == <>(pc = "done")
=============================================================================
