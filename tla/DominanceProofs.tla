-------------------------- MODULE DominanceProofs --------------------------
(***************************************************************************)
(* Proofs about DominanceAnalysis, for every set of blocks and every graph: *)
(* the types, reachability, the correctness of the in-place dominator        *)
(* sweeps, the dominator tree and the frontiers.  The argument needs no      *)
(* induction over paths: "dominates" is stated with separating regions, and  *)
(* the blocks whose computed set lacks d are such a region once the sets    *)
(* are a fixed point.                                                       *)
(***************************************************************************)
EXTENDS DominanceAnalysis, ControlFlowProofs, TLAPS

(***************************************************************************)
(* Type correctness.                                                       *)
(***************************************************************************)

(* Every reachable state of the analyses is well typed: no index leaves its  *)
(* range and no block pointer is anything but a block or null.               *)
THEOREM TypeCorrect == Spec => []TypeOK
<1>1. Init => TypeOK
  <2> SUFFICES ASSUME Init PROVE TypeOK
    OBVIOUS
  <2>1. changed \in BOOLEAN
    BY Zenon DEF Init
  <2>2. /\ succ \in Cfgs /\ pc = "reach" /\ order = <<Entry>> /\ i = 1 /\ j = 1
        /\ dom = [b \in Block |-> {}] /\ idom = [b \in Block |-> NoBlock]
        /\ children = [b \in Block |-> {}] /\ walked = {} /\ runner = NoBlock
        /\ df = [b \in Block |-> {}]
    BY DEF Init
  <2>3. QED
    BY <2>1, <2>2, BlockAssumption, CfgsAssumption
       DEF BlockAssumption, CfgsAssumption, TypeOK, Phase
<1>2. TypeOK /\ [Next]_vars => TypeOK'
  <2> SUFFICES ASSUME TypeOK, [Next]_vars PROVE TypeOK'
    OBVIOUS
  <2> USE BlockAssumption DEF BlockAssumption, TypeOK, Phase
  <2>1. CASE VisitSuccessor
    <3>1. order[i] \in Block
      BY <2>1 DEF VisitSuccessor
    <3>2. succ[order[i]] \in Seq(Block)
      BY <3>1
    <3>3. succ[order[i]][j] \in Block
      BY <2>1, <3>2 DEF VisitSuccessor
    <3>4. order' \in Seq(Block)
      BY <2>1, <3>3 DEF VisitSuccessor
    <3>5. /\ pc = "reach" /\ j' = j + 1
          /\ UNCHANGED <<succ, pc, i, dom, changed, idom, children, walked, runner, df>>
      BY <2>1 DEF VisitSuccessor
    <3>6. QED
      BY <3>4, <3>5
  <2>2. CASE NextReachable
    BY <2>2 DEF NextReachable
  <2>3. CASE InitializeDominatorSets
    <3>1. changed' \in BOOLEAN
      BY <2>3, Zenon DEF InitializeDominatorSets
    <3>2. /\ pc = "reach" /\ pc' = "dominators" /\ i' = 1
          /\ dom' = [b \in Block |-> IF b = Entry THEN {Entry}
                                     ELSE IF b \in Reached THEN Reached ELSE {}]
          /\ UNCHANGED <<succ, order, j, idom, children, walked, runner, df>>
      BY <2>3 DEF InitializeDominatorSets
    <3>3. QED
      BY <3>1, <3>2 DEF Reached, ToSet
  <2>4. CASE VisitBlock
    <3>1. changed' \in BOOLEAN
      BY <2>4, Zenon DEF VisitBlock
    <3>2. dom' \in [Block -> SUBSET Block]
      <4>1. order[i] \in Block /\ Meet(order[i]) \subseteq Block
        BY <2>4 DEF VisitBlock, Meet, Reached, ToSet
      <4>2. CASE UNCHANGED dom
        BY <4>2
      <4>3. CASE dom' = [dom EXCEPT ![order[i]] = Meet(order[i])]
        BY <4>1, <4>3
      <4>4. QED
        BY <2>4, <4>2, <4>3 DEF VisitBlock
    <3>3. /\ pc = "dominators" /\ i' = i + 1
          /\ UNCHANGED <<succ, pc, order, j, idom, children, walked, runner, df>>
      BY <2>4 DEF VisitBlock
    <3>4. QED
      BY <3>1, <3>2, <3>3
  <2>5. CASE NextSweep
    <3>1. changed' \in BOOLEAN
      BY <2>5, Zenon DEF NextSweep
    <3>2. /\ pc = "dominators" /\ i' = 1
          /\ UNCHANGED <<succ, pc, order, j, dom, idom, children, walked, runner, df>>
      BY <2>5 DEF NextSweep
    <3>3. QED
      BY <3>1, <3>2
  <2>6. CASE EndSweeps
    BY <2>6 DEF EndSweeps
  <2>7. CASE ComputeImmediateDominator
    <3>1. order[i] \in Block /\ \A k \in 1 .. Len(order) : order[k] \in Block
      BY <2>7 DEF ComputeImmediateDominator
    <3>2. idom' \in [Block -> Block \cup {NoBlock}]
      <4>1. CASE UNCHANGED idom
        BY <4>1
      <4>2. CASE \E k \in 1 .. Len(order) : idom' = [idom EXCEPT ![order[i]] = order[k]]
        BY <4>2, <3>1
      <4>3. QED
        BY <2>7, <4>1, <4>2 DEF ComputeImmediateDominator
    <3>3. QED
      BY <2>7, <3>2 DEF ComputeImmediateDominator
  <2>8. CASE ComputeChildren
    BY <2>8 DEF ComputeChildren, Reached, ToSet
  <2>9. CASE StartWalk
    BY <2>9 DEF StartWalk, ReachablePredecessors, Predecessors
  <2>10. CASE WalkUp
    <3>1. order[i] \in Block /\ runner \in Block
      BY <2>10 DEF WalkUp
    <3>2. df' \in [Block -> SUBSET Block]
      <4>1. CASE UNCHANGED df
        BY <4>1
      <4>2. CASE df' = [df EXCEPT ![runner] = @ \cup {order[i]}]
        BY <4>2, <3>1
      <4>3. QED
        BY <2>10, <4>1, <4>2 DEF WalkUp
    <3>3. QED
      BY <2>10, <3>1, <3>2 DEF WalkUp
  <2>11. CASE NextFrontierBlock
    BY <2>11 DEF NextFrontierBlock
  <2>12. CASE EndFrontier
    BY <2>12 DEF EndFrontier
  <2>13. CASE UNCHANGED vars
    BY <2>13 DEF vars
  <2>14. QED
    BY <2>1, <2>2, <2>3, <2>4, <2>5, <2>6, <2>7, <2>8, <2>9, <2>10, <2>11,
       <2>12, <2>13 DEF Next, Finished
<1>3. QED
  BY <1>1, <1>2, PTL DEF Spec

-----------------------------------------------------------------------------
(***************************************************************************)
(* Reachability.  The processed prefix of the queue has its targets in the  *)
(* queue; everything in the queue is reachable.                             *)
(***************************************************************************)

OrderInv ==
  /\ Entry \in Reached
  /\ Reached \subseteq Reachable(succ)
  /\ \A k, m \in 1 .. Len(order) : order[k] = order[m] => k = m
  /\ pc = "reach" =>
       /\ i <= Len(order) + 1
       /\ \A k \in 1 .. Len(order) : k < i => Targets(succ, order[k]) \subseteq Reached
       /\ \A m \in 1 .. j - 1 : i <= Len(order) /\ m <= Len(succ[order[i]])
                                => succ[order[i]][m] \in Reached
  /\ pc # "reach" => ClosedUnderEdges(succ, Reached)

LEMMA OrderInvInit == Init => OrderInv
<1> SUFFICES ASSUME Init PROVE OrderInv
  OBVIOUS
<1>1. succ \in [Block -> Seq(Block)] /\ order = <<Entry>> /\ pc = "reach" /\ i = 1 /\ j = 1
  BY CfgsAssumption DEF Init, CfgsAssumption
<1>2. Reached = {Entry}
  BY <1>1 DEF Reached, ToSet
<1>3. QED
  BY <1>1, <1>2, EntryReachable DEF OrderInv

(* Appending a block adds it, and only it, to the elements.                 *)
LEMMA ToSetAppend ==
  ASSUME NEW o \in Seq(Block), NEW s \in Block
  PROVE  /\ ToSet(Append(o, s)) = ToSet(o) \cup {s}
         /\ Len(Append(o, s)) = Len(o) + 1
         /\ \A k \in 1 .. Len(o) : Append(o, s)[k] = o[k]
         /\ Append(o, s)[Len(o) + 1] = s
<1>1. /\ Len(Append(o, s)) = Len(o) + 1
      /\ \A k \in 1 .. Len(o) : Append(o, s)[k] = o[k]
      /\ Append(o, s)[Len(o) + 1] = s
  OBVIOUS
<1>2. ASSUME NEW x \in ToSet(Append(o, s)) PROVE x \in ToSet(o) \cup {s}
  <2>1. PICK k \in 1 .. Len(o) + 1 : x = Append(o, s)[k]
    BY <1>1, <1>2 DEF ToSet
  <2>2. CASE k = Len(o) + 1
    BY <1>1, <2>1, <2>2
  <2>3. CASE k \in 1 .. Len(o)
    BY <1>1, <2>1, <2>3 DEF ToSet
  <2>4. QED
    BY <2>1, <2>2, <2>3
<1>3. ASSUME NEW x \in ToSet(o) PROVE x \in ToSet(Append(o, s))
  <2>1. PICK k \in 1 .. Len(o) : x = o[k]
    BY <1>3 DEF ToSet
  <2>2. k \in 1 .. Len(Append(o, s)) /\ x = Append(o, s)[k]
    BY <1>1, <2>1
  <2>3. QED
    BY <2>2 DEF ToSet
<1>4. s \in ToSet(Append(o, s))
  <2>1. Len(o) + 1 \in 1 .. Len(Append(o, s))
    BY <1>1
  <2>2. QED
    BY <1>1, <2>1 DEF ToSet
<1>5. QED
  BY <1>1, <1>2, <1>3, <1>4

LEMMA OrderInvStep == TypeOK /\ OrderInv /\ [Next]_vars => OrderInv'
<1> SUFFICES ASSUME TypeOK, OrderInv, [Next]_vars PROVE OrderInv'
  OBVIOUS
<1>1. CASE VisitSuccessor
  <2> DEFINE s == succ[order[i]][j]
  <2>1. /\ order \in Seq(Block) /\ succ \in [Block -> Seq(Block)]
        /\ i \in Nat \ {0} /\ j \in Nat \ {0} /\ i <= Len(order)
        /\ pc = "reach" /\ UNCHANGED <<succ, pc, i>> /\ j' = j + 1
    BY <1>1 DEF VisitSuccessor, TypeOK
  <2>2. order[i] \in Reachable(succ) /\ order[i] \in Block
    BY <2>1 DEF OrderInv, Reached, ToSet
  <2>3. j <= Len(succ[order[i]]) /\ succ[order[i]] \in Seq(Block)
    BY <1>1, <2>1, <2>2 DEF VisitSuccessor
  <2>4. s \in Targets(succ, order[i])
    BY <2>1, <2>3 DEF Targets, ToSet
  <2>5. s \in Reachable(succ) /\ s \in Block
    BY <2>1, <2>2, <2>4, ReachableStep, TargetsAreBlocks
  <2>6. s = succ'[order[i]][j] /\ succ' = succ /\ i' = i /\ pc' = "reach"
    BY <2>1
  <2>7. \A m \in 1 .. j - 1 : m <= Len(succ[order[i]]) => succ[order[i]][m] \in Reached
    BY <2>1 DEF OrderInv
  <2>8. CASE s \in Reached
    <3>1. order' = order
      BY <1>1, <2>8 DEF VisitSuccessor
    <3>2. Reached' = Reached
      BY <3>1 DEF Reached
    <3>3. \A m \in 1 .. j' - 1 : m <= Len(succ[order[i]]) => succ[order[i]][m] \in Reached
      BY <2>1, <2>7, <2>8
    <3>4. QED
      BY <2>1, <2>6, <3>1, <3>2, <3>3 DEF OrderInv
  <2>9. CASE s \notin Reached
    <3>1. order' = Append(order, s)
      BY <1>1, <2>9 DEF VisitSuccessor
    <3>2. /\ Len(order') = Len(order) + 1 /\ Len(order) \in Nat
          /\ \A k \in 1 .. Len(order) : order'[k] = order[k]
          /\ order'[Len(order) + 1] = s
      BY <2>1, <2>5, <3>1, ToSetAppend
    <3>3. Reached' = Reached \cup {s}
      BY <2>1, <2>5, <3>1, ToSetAppend DEF Reached
    <3>4. \A k \in 1 .. Len(order) : order[k] \in Reached
      BY DEF Reached, ToSet
    <3>5. \A k, m \in 1 .. Len(order') : order'[k] = order'[m] => k = m
      <4> SUFFICES ASSUME NEW k \in 1 .. Len(order'), NEW m \in 1 .. Len(order'),
                          order'[k] = order'[m]
                   PROVE  k = m
        OBVIOUS
      <4>1. CASE k \in 1 .. Len(order) /\ m \in 1 .. Len(order)
        BY <3>2, <4>1 DEF OrderInv
      <4>2. CASE k = Len(order) + 1 /\ m \in 1 .. Len(order)
        BY <2>9, <3>2, <3>4, <4>2
      <4>3. CASE k \in 1 .. Len(order) /\ m = Len(order) + 1
        BY <2>9, <3>2, <3>4, <4>3
      <4>4. QED
        BY <3>2, <4>1, <4>2, <4>3
    <3>6. \A k \in 1 .. Len(order') : k < i => Targets(succ, order'[k]) \subseteq Reached'
      <4> SUFFICES ASSUME NEW k \in 1 .. Len(order'), k < i
                   PROVE  Targets(succ, order'[k]) \subseteq Reached'
        OBVIOUS
      <4>1. k \in 1 .. Len(order) /\ order'[k] = order[k]
        BY <2>1, <3>2
      <4>2. QED
        BY <2>1, <3>3, <4>1 DEF OrderInv
    <3>7. order'[i] = order[i]
      BY <2>1, <3>2
    <3>8. \A m \in 1 .. j' - 1 : m <= Len(succ[order'[i]]) => succ[order'[i]][m] \in Reached'
      <4> SUFFICES ASSUME NEW m \in 1 .. j' - 1, m <= Len(succ[order'[i]])
                   PROVE  succ[order'[i]][m] \in Reached'
        OBVIOUS
      <4>1. m \in 1 .. j - 1 \/ m = j
        BY <2>1
      <4>2. CASE m \in 1 .. j - 1
        BY <2>7, <3>3, <3>7, <4>2
      <4>3. CASE m = j
        BY <3>3, <3>7, <4>3
      <4>4. QED
        BY <4>1, <4>2, <4>3
    <3>9. Entry \in Reached' /\ Reached' \subseteq Reachable(succ) /\ i <= Len(order') + 1
      BY <2>1, <2>5, <3>2, <3>3 DEF OrderInv
    <3>10. QED
      <4>1. succ' = succ /\ pc' = "reach" /\ i' = i /\ i \in Nat \ {0}
        BY <2>1
      <4>2. QED
        BY <2>6, <3>5, <3>6, <3>8, <3>9, <4>1 DEF OrderInv
  <2>10. QED
    BY <2>8, <2>9
<1>2. CASE NextReachable
  <2>1. /\ order \in Seq(Block) /\ succ \in [Block -> Seq(Block)]
        /\ i \in Nat \ {0} /\ j \in Nat \ {0} /\ i <= Len(order)
        /\ pc = "reach" /\ UNCHANGED <<succ, pc, order>> /\ i' = i + 1 /\ j' = 1
        /\ j > Len(succ[order[i]])
    BY <1>2 DEF NextReachable, TypeOK
  <2>2. order[i] \in Block /\ succ[order[i]] \in Seq(Block)
    BY <2>1
  <2>3. Targets(succ, order[i]) \subseteq Reached
    BY <2>1, <2>2 DEF OrderInv, Targets, ToSet
  <2>4. Reached' = Reached
    BY <2>1 DEF Reached
  <2>5. QED
    BY <2>1, <2>3, <2>4 DEF OrderInv
<1>3. CASE InitializeDominatorSets
  <2>1. /\ order \in Seq(Block) /\ i \in Nat \ {0} /\ i > Len(order)
        /\ pc = "reach" /\ pc' = "dominators" /\ UNCHANGED <<succ, order>>
    BY <1>3 DEF InitializeDominatorSets, TypeOK
  <2>2. ClosedUnderEdges(succ, Reached)
    <3> SUFFICES ASSUME NEW x \in Reached PROVE Targets(succ, x) \subseteq Reached
      BY DEF ClosedUnderEdges
    <3>1. PICK k \in 1 .. Len(order) : x = order[k]
      BY DEF Reached, ToSet
    <3>2. k < i
      BY <2>1
    <3>3. QED
      BY <2>1, <3>1, <3>2 DEF OrderInv
  <2>3. QED
    BY <2>1, <2>2 DEF OrderInv, Reached
<1>4. CASE pc # "reach" /\ UNCHANGED <<succ, order>> /\ pc' # "reach"
  BY <1>4 DEF OrderInv, Reached
<1>5. CASE UNCHANGED vars
  BY <1>5 DEF OrderInv, vars, Reached
<1>6. QED
  <2>1. VisitBlock \/ NextSweep \/ EndSweeps \/ ComputeImmediateDominator
        \/ ComputeChildren \/ StartWalk \/ WalkUp \/ NextFrontierBlock \/ EndFrontier
        => pc # "reach" /\ UNCHANGED <<succ, order>> /\ pc' # "reach"
    BY DEF VisitBlock, NextSweep, EndSweeps, ComputeImmediateDominator,
           ComputeChildren, StartWalk, WalkUp, NextFrontierBlock, EndFrontier
  <2>2. QED
    BY <1>1, <1>2, <1>3, <1>4, <1>5, <2>1 DEF Next, Finished

LEMMA OrderInvCorrect == Spec => []OrderInv
<1>1. TypeOK /\ OrderInv /\ [Next]_vars => OrderInv'
  BY OrderInvStep
<1>2. QED
  BY <1>1, OrderInvInit, TypeCorrect, PTL DEF Spec

(* When the queue is exhausted the list of reachable blocks is the set of    *)
(* the blocks a path can visit, without repetition.                          *)
THEOREM ReachableCorrect == Spec => []ReachableExact
<1>1. TypeOK /\ OrderInv => ReachableExact
  <2> SUFFICES ASSUME TypeOK, OrderInv, pc \in {"dominators", "done"}
               PROVE  Reachable(succ) \subseteq Reached
    BY DEF ReachableExact, OrderInv
  <2>1. Reached \in SUBSET Block
    BY DEF TypeOK, Reached, ToSet
  <2>2. QED
    BY <2>1, ReachableLeast DEF OrderInv, TypeOK
<1>2. QED
  BY <1>1, TypeCorrect, OrderInvCorrect, PTL

-----------------------------------------------------------------------------
(***************************************************************************)
(* The dominator sets.  DomInv is the inductive invariant: between the true *)
(* dominators and the set held there is the meet of the predecessors' sets, *)
(* so replacing the set by the meet only shrinks it and loses nothing.      *)
(***************************************************************************)

DomInv ==
  pc # "reach" =>
    /\ dom[Entry] = {Entry}
    /\ \A b \in Reached : /\ b \in dom[b]
                           /\ dom[b] \subseteq Reached
                           /\ Dominators(succ, b) \subseteq dom[b]
    /\ \A b \in Reached \ {Entry} : Meet(b) \subseteq dom[b]

(* A block visited in a sweep that has changed nothing is at its meet; when *)
(* the sweeps have ended every block is.                                    *)
CleanInv ==
  /\ pc = "dominators" /\ ~changed =>
       \A k \in 1 .. Len(order) :
          k < i /\ order[k] # Entry => dom[order[k]] = Meet(order[k])
  /\ pc \in {"idom", "frontier", "done"} =>
       \A b \in Reached \ {Entry} : dom[b] = Meet(b)

LEMMA ReachedIsReachable ==
  ASSUME TypeOK, OrderInv, ClosedUnderEdges(succ, Reached)
  PROVE  Reached = Reachable(succ) /\ Reached \in SUBSET Block
<1>1. Reached \in SUBSET Block
  BY DEF TypeOK, Reached, ToSet
<1>2. QED
  BY <1>1, ReachableLeast DEF OrderInv, TypeOK

LEMMA MeetKeepsDominators ==
  ASSUME TypeOK, OrderInv, DomInv, pc # "reach", NEW b \in Reached, b # Entry
  PROVE  Dominators(succ, b) \subseteq Meet(b)
<1>1. Reached = Reachable(succ) /\ Reached \in SUBSET Block /\ succ \in [Block -> Seq(Block)]
  BY ReachedIsReachable DEF TypeOK, OrderInv
<1> SUFFICES ASSUME NEW d \in Block, Dominates(succ, d, b), d # b PROVE d \in Meet(b)
  BY DEF Dominators, Meet
<1>2. d \in Reached
  BY <1>1, DominatorReachable
<1>3. ReachablePredecessors(b) # {}
  BY <1>1, ReachablePredecessorExists DEF ReachablePredecessors, Predecessors
<1>4. ASSUME NEW p \in ReachablePredecessors(b) PROVE d \in dom[p]
  <2>1. p \in Reached /\ p \in Block /\ b \in Targets(succ, p)
    BY <1>1, <1>4 DEF ReachablePredecessors, Predecessors
  <2>2. Dominates(succ, d, p)
    BY <1>1, <2>1, DominatesPredecessor
  <2>3. QED
    BY <2>1, <2>2 DEF DomInv, Dominators
<1>5. QED
  BY <1>2, <1>3, <1>4 DEF Meet

LEMMA DomInvInitialized ==
  ASSUME TypeOK, OrderInv, InitializeDominatorSets
  PROVE  DomInv' /\ CleanInv'
<1>1. /\ order \in Seq(Block) /\ i' = 1 /\ pc' = "dominators"
      /\ succ \in [Block -> Seq(Block)] /\ UNCHANGED <<succ, order>>
  BY DEF TypeOK, InitializeDominatorSets
<1>2. OrderInv'
  <2>1. [Next]_vars
    BY DEF Next
  <2>2. QED
    BY <2>1, OrderInvStep
<1>3. Reached' = Reached /\ Reached \in SUBSET Block /\ Reached = Reachable(succ)
  <2>1. Reached' = Reached
    BY <1>1 DEF Reached
  <2>2. ClosedUnderEdges(succ, Reached)
    BY <1>1, <1>2, <2>1 DEF OrderInv
  <2>3. QED
    BY <2>1, <2>2, ReachedIsReachable
<1>4. Entry \in Reached
  BY DEF OrderInv
<1>5. dom'[Entry] = {Entry} /\ \A b \in Reached \ {Entry} : dom'[b] = Reached
  BY <1>3, <1>4 DEF InitializeDominatorSets
<1>6. \A b \in Reached : b \in dom'[b] /\ dom'[b] \subseteq Reached
  BY <1>4, <1>5
<1>7. ASSUME NEW b \in Reached PROVE Dominators(succ, b) \subseteq dom'[b]
  <2>1. Dominators(succ, b) \subseteq Reached
    BY <1>1, <1>3, DominatorReachable DEF Dominators
  <2>2. Dominators(succ, Entry) \subseteq {Entry}
    BY BlockAssumption DEF BlockAssumption, Dominators, Dominates, SeparatesFromEntry
  <2>3. QED
    BY <1>5, <2>1, <2>2
<1>8. ASSUME NEW b \in Reached \ {Entry} PROVE Meet(b)' \subseteq dom'[b]
  BY <1>3, <1>5 DEF Meet
<1>9. DomInv'
  BY <1>1, <1>3, <1>5, <1>6, <1>7, <1>8 DEF DomInv
<1>10. CleanInv'
  BY <1>1 DEF CleanInv
<1>11. QED
  BY <1>9, <1>10

LEMMA DomInvVisited ==
  ASSUME TypeOK, OrderInv, DomInv, CleanInv, VisitBlock
  PROVE  DomInv' /\ CleanInv'
<1> DEFINE v == order[i]
<1>1. /\ order \in Seq(Block) /\ i \in Nat \ {0} /\ i <= Len(order) /\ i' = i + 1
      /\ pc = "dominators" /\ pc' = "dominators"
      /\ dom \in [Block -> SUBSET Block] /\ UNCHANGED <<succ, order>>
  BY DEF TypeOK, VisitBlock
<1>2. v \in Reached /\ v \in Block
  BY <1>1 DEF Reached, ToSet
<1>3. Reached' = Reached /\ Reached \in SUBSET Block
  BY <1>1 DEF Reached, ToSet
<1>4. /\ dom[Entry] = {Entry}
      /\ \A b \in Reached : /\ b \in dom[b] /\ dom[b] \subseteq Reached
                             /\ Dominators(succ, b) \subseteq dom[b]
      /\ \A b \in Reached \ {Entry} : Meet(b) \subseteq dom[b]
  BY <1>1 DEF DomInv
<1>5. CASE UNCHANGED dom
  <2>1. \A b : Meet(b)' = Meet(b)
    BY <1>1, <1>3, <1>5 DEF Meet, ReachablePredecessors, Predecessors
  <2>2. DomInv'
    BY <1>1, <1>3, <1>4, <1>5, <2>1 DEF DomInv
  <2>3. (~changed') => ~changed /\ (v = Entry \/ dom[v] = Meet(v))
    <3>1. CASE v = Entry
      BY <3>1, Zenon DEF VisitBlock
    <3>2. CASE v # Entry
      <4>1. changed' <=> (changed \/ Meet(v) # dom[v])
        BY <3>2, Zenon DEF VisitBlock
      <4>2. QED
        BY <4>1, Zenon
    <3>3. QED
      BY <3>1, <3>2
  <2>4. ASSUME ~changed', NEW k \in 1 .. Len(order), k < i + 1, order[k] # Entry
        PROVE  dom[order[k]] = Meet(order[k])
    <3>1. CASE k = i
      BY <2>3, <2>4, <3>1
    <3>2. CASE k < i
      BY <1>1, <2>3, <2>4, <3>2 DEF CleanInv
    <3>3. QED
      BY <1>1, <2>4, <3>1, <3>2
  <2>5. CleanInv'
    BY <1>1, <1>5, <2>1, <2>4 DEF CleanInv
  <2>6. QED
    BY <2>2, <2>5
<1>6. CASE ~ UNCHANGED dom
  <2>1. v # Entry /\ dom' = [dom EXCEPT ![v] = Meet(v)]
    BY <1>6, Zenon DEF VisitBlock
  <2>2. Meet(v) # dom[v]
    BY <1>1, <1>2, <1>6, <2>1
  <2>3. changed'
    <3>1. changed' <=> (changed \/ Meet(v) # dom[v])
      BY <2>1, Zenon DEF VisitBlock
    <3>2. QED
      BY <2>2, <3>1, Zenon
  <2>4. dom'[v] = Meet(v) /\ \A x \in Block \ {v} : dom'[x] = dom[x]
    BY <1>1, <1>2, <2>1
  <2>5. Meet(v) \subseteq dom[v] /\ v \in Meet(v) /\ Meet(v) \subseteq Reached
    BY <1>2, <1>4, <2>1 DEF Meet
  <2>6. \A x \in Block : dom'[x] \subseteq dom[x]
    BY <2>4, <2>5
  <2>7. ASSUME NEW b \in Reached PROVE Meet(b)' \subseteq Meet(b)
    <3>1. ReachablePredecessors(b)' = ReachablePredecessors(b)
      BY <1>1, <1>3 DEF ReachablePredecessors, Predecessors
    <3>2. ReachablePredecessors(b) \subseteq Block
      BY DEF ReachablePredecessors, Predecessors
    <3>3. QED
      BY <1>3, <2>6, <3>1, <3>2 DEF Meet
  <2>8. dom'[Entry] = {Entry}
    BY <1>4, <2>1, <2>4, BlockAssumption DEF BlockAssumption
  <2>9. Dominators(succ, v) \subseteq Meet(v)
    BY <1>1, <1>2, <2>1, MeetKeepsDominators
  <2>10. \A b \in Reached : /\ b \in dom'[b] /\ dom'[b] \subseteq Reached
                            /\ Dominators(succ, b) \subseteq dom'[b]
    BY <1>3, <1>4, <2>4, <2>5, <2>9
  <2>11. \A b \in Reached \ {Entry} : Meet(b)' \subseteq dom'[b]
    BY <1>3, <1>4, <2>4, <2>7
  <2>12. DomInv'
    BY <1>1, <1>3, <2>8, <2>10, <2>11 DEF DomInv
  <2>13. CleanInv'
    BY <1>1, <2>3 DEF CleanInv
  <2>14. QED
    BY <2>12, <2>13
<1>7. QED
  BY <1>5, <1>6

LEMMA DomInvStep ==
  TypeOK /\ OrderInv /\ DomInv /\ CleanInv /\ [Next]_vars => DomInv' /\ CleanInv'
<1> SUFFICES ASSUME TypeOK, OrderInv, DomInv, CleanInv, [Next]_vars
             PROVE  DomInv' /\ CleanInv'
  OBVIOUS
<1>1. CASE pc' = "reach"
  BY <1>1 DEF DomInv, CleanInv
<1>2. CASE InitializeDominatorSets
  BY <1>2, DomInvInitialized
<1>3. CASE VisitBlock
  BY <1>3, DomInvVisited
<1>4. ASSUME UNCHANGED <<succ, order, dom>>, pc # "reach", pc' # "reach"
      PROVE  DomInv' /\ (\A b : Meet(b)' = Meet(b)) /\ Reached' = Reached
  <2>1. Reached' = Reached
    BY <1>4 DEF Reached
  <2>2. \A b : Meet(b)' = Meet(b)
    BY <1>4, <2>1 DEF Meet, ReachablePredecessors, Predecessors
  <2>3. QED
    BY <1>4, <2>1, <2>2 DEF DomInv
<1>5. CASE NextSweep
  <2>1. UNCHANGED <<succ, order, dom>> /\ pc = "dominators" /\ pc' = "dominators" /\ i' = 1
    BY <1>5 DEF NextSweep
  <2>2. \A k \in 1 .. Len(order') : ~(k < i')
    BY <2>1 DEF TypeOK
  <2>3. QED
    BY <1>4, <2>1, <2>2 DEF CleanInv
<1>6. CASE EndSweeps
  <2>1. /\ UNCHANGED <<succ, order, dom>> /\ pc = "dominators" /\ pc' = "idom"
        /\ i > Len(order) /\ order \in Seq(Block) /\ i \in Nat
    BY <1>6 DEF EndSweeps, TypeOK
  <2>2. ~changed
    BY <1>6, Zenon DEF EndSweeps
  <2>3. ASSUME NEW b \in Reached \ {Entry} PROVE dom[b] = Meet(b)
    <3>1. PICK k \in 1 .. Len(order) : b = order[k]
      BY DEF Reached, ToSet
    <3>2. k < i
      BY <2>1
    <3>3. QED
      BY <2>1, <2>2, <3>1, <3>2 DEF CleanInv
  <2>4. QED
    BY <1>4, <2>1, <2>3 DEF CleanInv
<1>7. CASE /\ UNCHANGED <<succ, order, dom>>
           /\ pc \in {"idom", "frontier", "done"} /\ pc' \in {"idom", "frontier", "done"}
  BY <1>4, <1>7 DEF CleanInv
<1>8. CASE UNCHANGED vars
  <2>1. UNCHANGED <<succ, order, dom, pc, i>> /\ (changed' <=> changed)
    BY <1>8, Zenon DEF vars
  <2>2. CASE pc = "reach"
    BY <1>1, <2>1, <2>2
  <2>3. CASE pc # "reach"
    BY <1>4, <2>1, <2>3 DEF CleanInv
  <2>4. QED
    BY <2>2, <2>3
<1>9. QED
  <2>1. VisitSuccessor \/ NextReachable => pc' = "reach"
    BY DEF VisitSuccessor, NextReachable
  <2>2. ComputeImmediateDominator \/ ComputeChildren \/ StartWalk \/ WalkUp
        \/ NextFrontierBlock \/ EndFrontier
        => /\ UNCHANGED <<succ, order, dom>>
           /\ pc \in {"idom", "frontier", "done"} /\ pc' \in {"idom", "frontier", "done"}
    BY DEF ComputeImmediateDominator, ComputeChildren, StartWalk, WalkUp,
           NextFrontierBlock, EndFrontier
  <2>3. QED
    BY <1>1, <1>2, <1>3, <1>5, <1>6, <1>7, <1>8, <2>1, <2>2 DEF Next, Finished

LEMMA DomInvCorrect == Spec => [](DomInv /\ CleanInv)
<1>1. Init => DomInv /\ CleanInv
  BY DEF Init, DomInv, CleanInv
<1>2. TypeOK /\ OrderInv /\ (DomInv /\ CleanInv) /\ [Next]_vars => (DomInv /\ CleanInv)'
  BY DomInvStep
<1>3. QED
  BY <1>1, <1>2, TypeCorrect, OrderInvCorrect, PTL DEF Spec

(* In the middle of the sweeps no true dominator of a reachable block is     *)
(* missing from its set: compute_dominator_sets may read sets of this sweep  *)
(* and of the one before without harm.                                       *)
THEOREM NoDominatorLostCorrect == Spec => []NoDominatorLost
<1>1. TypeOK /\ OrderInv /\ DomInv => NoDominatorLost
  <2> SUFFICES ASSUME TypeOK, OrderInv, DomInv, pc = "dominators"
               PROVE  \A b \in Reachable(succ) : Dominators(succ, b) \subseteq dom[b]
    BY DEF NoDominatorLost
  <2>1. Reached = Reachable(succ)
    BY ReachedIsReachable DEF OrderInv
  <2>2. QED
    BY <2>1 DEF DomInv
<1>2. QED
  BY <1>1, TypeCorrect, OrderInvCorrect, DomInvCorrect, PTL

(* At the fixed point nothing but dominators is left: the blocks whose set   *)
(* lacks d separate d from the entry.                                        *)
LEMMA FixedPointSound ==
  ASSUME TypeOK, OrderInv, DomInv, CleanInv, pc \in {"idom", "frontier", "done"},
         NEW b \in Reached, NEW d \in dom[b]
  PROVE  Dominates(succ, d, b)
<1> DEFINE R == {x \in Reached : d \notin dom[x]}
<1>1. /\ dom[Entry] = {Entry}
      /\ \A x \in Reached : x \in dom[x] /\ dom[x] \subseteq Reached
      /\ \A x \in Reached \ {Entry} : dom[x] = Meet(x)
  BY DEF DomInv, CleanInv
<1>2. Entry \in Reached /\ ClosedUnderEdges(succ, Reached) /\ Reached \in SUBSET Block
  BY ReachedIsReachable DEF OrderInv
<1>3. d \in Reached
  BY <1>1
<1>4. d \notin R
  BY <1>1, <1>3
<1>5. Entry # d => Entry \in R
  BY <1>1, <1>2
<1>6. ASSUME NEW x \in R, NEW y \in Targets(succ, x) PROVE y \in R \cup {d}
  <2>1. y \in Reached /\ x \in Reached
    BY <1>2 DEF ClosedUnderEdges
  <2>2. SUFFICES ASSUME y # d, d \in dom[y] PROVE FALSE
    BY <2>1
  <2>3. y # Entry
    BY <1>1, <2>2
  <2>4. d \in Meet(y)
    BY <1>1, <2>1, <2>2, <2>3
  <2>5. x \in ReachablePredecessors(y)
    BY <1>2, <2>1 DEF ReachablePredecessors, Predecessors
  <2>6. d \in dom[x]
    BY <2>2, <2>4, <2>5 DEF Meet
  <2>7. QED
    BY <2>6
<1>7. SeparatesFromEntry(succ, R, d)
  BY <1>4, <1>5, <1>6 DEF SeparatesFromEntry
<1>8. R \in SUBSET Block /\ b \notin R
  BY <1>2
<1>9. QED
  BY <1>7, <1>8 DEF Dominates

(* When the sweeps have ended dominates() answers by the definition.         *)
THEOREM DominatorsCorrect == Spec => []DominatorsExact
<1>1. TypeOK /\ OrderInv /\ DomInv /\ CleanInv => DominatorsExact
  <2> SUFFICES ASSUME TypeOK, OrderInv, DomInv, CleanInv, pc \in {"idom", "done"},
                      NEW b \in Reachable(succ)
               PROVE  dom[b] = Dominators(succ, b)
    BY DEF DominatorsExact
  <2>1. Reached = Reachable(succ) /\ Reached \in SUBSET Block
    BY ReachedIsReachable DEF OrderInv
  <2>2. dom[b] \subseteq Reached /\ Dominators(succ, b) \subseteq dom[b]
    BY <2>1 DEF DomInv
  <2>3. \A d \in dom[b] : Dominates(succ, d, b)
    BY <2>1, FixedPointSound
  <2>4. QED
    BY <2>1, <2>2, <2>3 DEF Dominators
<1>2. QED
  BY <1>1, TypeCorrect, OrderInvCorrect, DomInvCorrect, PTL

(* No step of the sweeps adds a block to a dominator set, whichever of the   *)
(* sets it reads are already updated: the sweeps cannot oscillate.           *)
THEOREM ShrinkCorrect == Spec => DominatorsShrink
<1>1. TypeOK /\ DomInv /\ [Next]_vars
      => [pc = "dominators" => \A b \in Block : dom'[b] \subseteq dom[b]]_vars
  <2> SUFFICES ASSUME TypeOK, DomInv, [Next]_vars, pc = "dominators", NEW b \in Block
               PROVE  dom'[b] \subseteq dom[b]
    OBVIOUS
  <2>1. CASE UNCHANGED dom
    BY <2>1
  <2>2. CASE VisitBlock
    <3>1. order[i] \in Reached /\ dom \in [Block -> SUBSET Block]
      BY <2>2 DEF VisitBlock, TypeOK, Reached, ToSet
    <3>2. CASE order[i] # Entry
      <4>1. Meet(order[i]) \subseteq dom[order[i]]
        BY <3>1, <3>2 DEF DomInv
      <4>2. dom' = [dom EXCEPT ![order[i]] = Meet(order[i])]
        BY <2>2, <3>2, Zenon DEF VisitBlock
      <4>3. QED
        BY <3>1, <4>1, <4>2
    <3>3. CASE order[i] = Entry
      BY <2>2, <3>3 DEF VisitBlock
    <3>4. QED
      BY <3>2, <3>3
  <2>3. QED
    <3>1. NextSweep \/ EndSweeps \/ UNCHANGED vars => UNCHANGED dom
      BY DEF NextSweep, EndSweeps, vars
    <3>2. QED
      BY <2>1, <2>2, <3>1 DEF Next, VisitSuccessor, NextReachable,
         InitializeDominatorSets, ComputeImmediateDominator, ComputeChildren,
         StartWalk, WalkUp, NextFrontierBlock, EndFrontier, Finished
<1>2. QED
  BY <1>1, TypeCorrect, DomInvCorrect, PTL DEF Spec, DominatorsShrink

-----------------------------------------------------------------------------
(***************************************************************************)
(* The second half of the analysis: the immediate dominators, the dominator  *)
(* tree and the dominance frontiers.  The dominator sets are exact from here  *)
(* on; that a reachable block has a closest strict dominator at all, and     *)
(* that a walk up the tree meets every dominator, are facts about graphs     *)
(* (ControlFlowProofs).                                                     *)
(***************************************************************************)

(***************************************************************************)
(* What the sweeps leave to the loops that follow.                          *)
(***************************************************************************)

ExactInv ==
  pc \in {"idom", "frontier", "done"} =>
    /\ Reached = Reachable(succ)
    /\ \A b \in Reached : dom[b] = Dominators(succ, b)

LEMMA ExactInvCorrect == Spec => []ExactInv
<1>1. TypeOK /\ OrderInv /\ DomInv /\ CleanInv => ExactInv
  <2> SUFFICES ASSUME TypeOK, OrderInv, DomInv, CleanInv, pc \in {"idom", "frontier", "done"}
               PROVE  /\ Reached = Reachable(succ)
                      /\ \A b \in Reached : dom[b] = Dominators(succ, b)
    BY DEF ExactInv
  <2>1. Reached = Reachable(succ) /\ Reached \in SUBSET Block
    BY ReachedIsReachable DEF OrderInv
  <2>2. ASSUME NEW b \in Reached PROVE dom[b] = Dominators(succ, b)
    <3>1. dom[b] \subseteq Reached /\ Dominators(succ, b) \subseteq dom[b]
      BY DEF DomInv
    <3>2. \A d \in dom[b] : Dominates(succ, d, b)
      BY FixedPointSound
    <3>3. QED
      BY <2>1, <3>1, <3>2 DEF Dominators
  <2>3. QED
    BY <2>1, <2>2
<1>2. QED
  BY <1>1, TypeCorrect, OrderInvCorrect, DomInvCorrect, PTL

-----------------------------------------------------------------------------
(***************************************************************************)
(* The dominator tree.  A block the loop has passed has its immediate        *)
(* dominator; no other block has any.                                       *)
(***************************************************************************)

IdomInv ==
  /\ \A b \in Block \ (Reached \ {Entry}) : idom[b] = NoBlock
  /\ pc \in {"reach", "dominators"} => \A b \in Block : idom[b] = NoBlock
  /\ pc = "idom" =>
       \A k \in 1 .. Len(order) :
          k < i /\ order[k] # Entry => IsImmediateDominator(succ, idom[order[k]], order[k])
  /\ pc \in {"frontier", "done"} =>
       /\ \A b \in Reached \ {Entry} : IsImmediateDominator(succ, idom[b], b)
       /\ \A p \in Block : children[p] = {c \in Reached : idom[c] = p}

(* The candidate the code looks for is the immediate dominator.             *)
LEMMA ClosestIsImmediateDominator ==
  ASSUME TypeOK, ExactInv, pc = "idom", NEW b \in Reached, NEW c
  PROVE  c \in Closest(b) <=> IsImmediateDominator(succ, c, b)
<1>1. /\ Reached = Reachable(succ) /\ Reached \subseteq Block
      /\ \A x \in Reached : dom[x] = Dominators(succ, x)
  BY DEF ExactInv, Reachable
<1>2. \A x : x \in StrictDominatorsFound(b)
              <=> x \in Reached /\ StrictlyDominates(succ, x, b)
  BY <1>1 DEF StrictDominatorsFound, StrictlyDominates, Dominators
<1>3. ASSUME c \in Closest(b) PROVE IsImmediateDominator(succ, c, b)
  <2>1. c \in Reached /\ StrictlyDominates(succ, c, b)
    BY <1>2, <1>3 DEF Closest
  <2>2. ASSUME NEW other \in Reached, StrictlyDominates(succ, other, b)
        PROVE  Dominates(succ, other, c)
    <3>1. CASE other = c
      BY <3>1 DEF Dominates
    <3>2. CASE other # c
      <4>1. other \in dom[c]
        BY <1>2, <1>3, <2>2, <3>2 DEF Closest
      <4>2. QED
        BY <1>1, <2>1, <4>1 DEF Dominators
    <3>3. QED
      BY <3>1, <3>2
  <2>3. QED
    BY <1>1, <2>1, <2>2 DEF IsImmediateDominator
<1>4. ASSUME IsImmediateDominator(succ, c, b) PROVE c \in Closest(b)
  <2>1. c \in Reached /\ c \in StrictDominatorsFound(b)
    BY <1>1, <1>2, <1>4 DEF IsImmediateDominator
  <2>2. ASSUME NEW other \in StrictDominatorsFound(b) PROVE other \in dom[c]
    <3>1. other \in Reached /\ StrictlyDominates(succ, other, b)
      BY <1>2, <2>2
    <3>2. Dominates(succ, other, c)
      BY <1>1, <1>4, <3>1 DEF IsImmediateDominator
    <3>3. QED
      BY <1>1, <2>1, <3>1, <3>2 DEF Dominators
  <2>3. QED
    BY <2>1, <2>2 DEF Closest
<1>5. QED
  BY <1>3, <1>4

LEMMA IdomInvComputed ==
  ASSUME TypeOK, OrderInv, ExactInv, IdomInv, ComputeImmediateDominator
  PROVE  IdomInv'
<1> DEFINE b == order[i]
<1>1. /\ order \in Seq(Block) /\ i \in Nat \ {0} /\ i <= Len(order) /\ i' = i + 1
      /\ succ \in [Block -> Seq(Block)] /\ idom \in [Block -> Block \cup {NoBlock}]
      /\ pc = "idom" /\ pc' = "idom" /\ UNCHANGED <<succ, order>>
  BY DEF TypeOK, ComputeImmediateDominator
<1>2. b \in Reached /\ Reached \subseteq Block /\ Reached = Reachable(succ)
  BY <1>1 DEF Reached, ToSet, ExactInv
<1>3. Reached' = Reached
  BY <1>1 DEF Reached
<1>4. b = Entry => UNCHANGED idom
  BY DEF ComputeImmediateDominator
<1>5. b # Entry => \E d : /\ IsImmediateDominator(succ, d, b)
                          /\ idom' = [idom EXCEPT ![b] = d]
  <2> SUFFICES ASSUME b # Entry
               PROVE  \E d : /\ IsImmediateDominator(succ, d, b)
                             /\ idom' = [idom EXCEPT ![b] = d]
    OBVIOUS
  <2>1. PICK d : IsImmediateDominator(succ, d, b)
    BY <1>1, <1>2, ImmediateDominatorExists
  <2>2. Closest(b) # {}
    BY <1>1, <1>2, <2>1, ClosestIsImmediateDominator
  <2>3. PICK k \in 1 .. Len(order) :
           order[k] \in Closest(b) /\ idom' = [idom EXCEPT ![b] = order[k]]
    BY <2>2 DEF ComputeImmediateDominator
  <2>4. IsImmediateDominator(succ, order[k], b)
    BY <1>1, <1>2, <2>3, ClosestIsImmediateDominator
  <2>5. QED
    BY <2>3, <2>4
<1>6. \A x \in Block : x # b \/ b = Entry => idom'[x] = idom[x]
  BY <1>1, <1>2, <1>4, <1>5
<1>7. b # Entry => IsImmediateDominator(succ, idom'[b], b)
  BY <1>1, <1>2, <1>5
<1>8. ASSUME NEW k \in 1 .. Len(order), k < i + 1, order[k] # Entry
      PROVE  IsImmediateDominator(succ, idom'[order[k]], order[k])
  <2>1. CASE order[k] = b
    BY <1>7, <1>8, <2>1
  <2>2. CASE order[k] # b
    <3>1. k < i /\ order[k] \in Block
      BY <1>1, <1>8, <2>2
    <3>2. QED
      BY <1>1, <1>6, <1>8, <2>2, <3>1 DEF IdomInv
  <2>3. QED
    BY <2>1, <2>2
<1>9. \A x \in Block \ (Reached \ {Entry}) : idom'[x] = NoBlock
  BY <1>2, <1>6 DEF IdomInv
<1>10. QED
  BY <1>1, <1>3, <1>8, <1>9 DEF IdomInv

LEMMA IdomInvStep ==
  TypeOK /\ OrderInv /\ ExactInv /\ IdomInv /\ [Next]_vars => IdomInv'
<1> SUFFICES ASSUME TypeOK, OrderInv, ExactInv, IdomInv, [Next]_vars PROVE IdomInv'
  OBVIOUS
<1>1. CASE UNCHANGED idom /\ pc \in {"reach", "dominators"} /\ pc' \in {"reach", "dominators"}
  BY <1>1 DEF IdomInv
<1>2. CASE EndSweeps
  <2>1. /\ UNCHANGED <<succ, order, idom>> /\ pc = "dominators" /\ pc' = "idom" /\ i' = 1
    BY <1>2 DEF EndSweeps
  <2>2. Reached' = Reached
    BY <2>1 DEF Reached
  <2>3. QED
    BY <2>1, <2>2 DEF IdomInv, TypeOK
<1>3. CASE ComputeImmediateDominator
  BY <1>3, IdomInvComputed
<1>4. CASE ComputeChildren
  <2>1. /\ UNCHANGED <<succ, order, idom>> /\ pc = "idom" /\ pc' = "frontier"
        /\ order \in Seq(Block) /\ i \in Nat /\ i > Len(order)
        /\ children' = [b \in Block |-> {c \in Reached : idom[c] = b}]
    BY <1>4 DEF ComputeChildren, TypeOK
  <2>2. Reached' = Reached
    BY <2>1 DEF Reached
  <2>3. ASSUME NEW b \in Reached \ {Entry} PROVE IsImmediateDominator(succ, idom[b], b)
    <3>1. PICK k \in 1 .. Len(order) : b = order[k]
      BY DEF Reached, ToSet
    <3>2. k < i
      BY <2>1
    <3>3. QED
      BY <2>1, <3>1, <3>2 DEF IdomInv
  <2>4. QED
    BY <2>1, <2>2, <2>3 DEF IdomInv
<1>5. CASE /\ UNCHANGED <<succ, order, idom, children>>
           /\ pc \in {"frontier", "done"} /\ pc' \in {"frontier", "done"}
  <2>1. Reached' = Reached
    BY <1>5 DEF Reached
  <2>2. QED
    BY <1>5, <2>1 DEF IdomInv
<1>6. CASE UNCHANGED vars
  <2>1. UNCHANGED <<succ, pc, order, i, idom, children>>
    BY <1>6 DEF vars
  <2>2. Reached' = Reached
    BY <2>1 DEF Reached
  <2>3. QED
    BY <2>1, <2>2 DEF IdomInv
<1>7. QED
  <2>1. VisitSuccessor \/ NextReachable \/ InitializeDominatorSets \/ VisitBlock \/ NextSweep
        => UNCHANGED idom /\ pc \in {"reach", "dominators"} /\ pc' \in {"reach", "dominators"}
    BY DEF VisitSuccessor, NextReachable, InitializeDominatorSets, VisitBlock, NextSweep
  <2>2. StartWalk \/ WalkUp \/ NextFrontierBlock \/ EndFrontier
        => /\ UNCHANGED <<succ, order, idom, children>>
           /\ pc \in {"frontier", "done"} /\ pc' \in {"frontier", "done"}
    BY DEF StartWalk, WalkUp, NextFrontierBlock, EndFrontier
  <2>3. QED
    BY <1>1, <1>2, <1>3, <1>4, <1>5, <1>6, <2>1, <2>2 DEF Next, Finished

LEMMA IdomInvCorrect == Spec => []IdomInv
<1>1. Init => IdomInv
  BY DEF Init, IdomInv
<1>2. TypeOK /\ OrderInv /\ ExactInv /\ IdomInv /\ [Next]_vars => IdomInv'
  BY IdomInvStep
<1>3. QED
  BY <1>1, <1>2, TypeCorrect, OrderInvCorrect, ExactInvCorrect, PTL DEF Spec

(* When the analyses are done every reachable block but the entry has its    *)
(* immediate dominator and is a child of it and of no other block: the tree  *)
(* the renaming of mem2reg recurses over spans the reachable blocks.         *)
THEOREM DominatorTreeCorrect == Spec => []DominatorTreeExact
<1>1. TypeOK /\ ExactInv /\ IdomInv => DominatorTreeExact
  <2> SUFFICES ASSUME TypeOK, ExactInv, IdomInv, pc = "done", NEW b \in Block
               PROVE  /\ b \in Reachable(succ) \ {Entry}
                           => IsImmediateDominator(succ, idom[b], b)
                      /\ b \notin Reachable(succ) \ {Entry} => idom[b] = NoBlock
                      /\ {p \in Block : b \in children[p]} = {idom[b]} \ {NoBlock}
    BY DEF DominatorTreeExact
  <2>1. Reached = Reachable(succ) /\ idom[b] \in Block \cup {NoBlock}
    BY DEF ExactInv, TypeOK
  <2>2. \A p \in Block : b \in children[p] <=> b \in Reached /\ idom[b] = p
    BY DEF IdomInv
  <2>3. b \notin Reached => idom[b] = NoBlock
    BY DEF IdomInv
  <2>4. {p \in Block : b \in children[p]} = {idom[b]} \ {NoBlock}
    BY <2>1, <2>2, <2>3, BlockAssumption DEF BlockAssumption
  <2>5. QED
    BY <2>1, <2>4 DEF IdomInv
<1>2. QED
  BY <1>1, TypeCorrect, ExactInvCorrect, IdomInvCorrect, PTL

-----------------------------------------------------------------------------
(***************************************************************************)
(* The dominance frontiers.  When the walks from the predecessors Q of b     *)
(* have ended, b is in the frontiers of the blocks that dominate one of them *)
(* and do not strictly dominate b; a walk that is under way has been to the  *)
(* dominators of its start that do not dominate the runner.                  *)
(***************************************************************************)

Joined(n, b, Q) == (\E q \in Q : Dominates(succ, n, q)) /\ ~StrictlyDominates(succ, n, b)

Walking(b, p) ==
  /\ Dominates(succ, runner, p)
  /\ Dominates(succ, idom[b], runner)
  /\ \A n \in Reached :
       b \in df[n] <=> \/ Joined(n, b, walked \ {p})
                       \/ Dominates(succ, n, p) /\ ~Dominates(succ, n, runner)

\* The iteration for the i-th block.
JoinInv ==
  LET b == order[i]
  IN /\ walked \subseteq ReachablePredecessors(b)
     /\ b = Entry => walked = {}
     /\ runner = NoBlock => \A n \in Reached : b \in df[n] <=> Joined(n, b, walked)
     /\ runner # NoBlock => \E p \in walked : Walking(b, p)

FrontierInv ==
  /\ pc \in {"reach", "dominators", "idom"} =>
       df = [b \in Block |-> {}] /\ walked = {} /\ runner = NoBlock
  /\ pc \in {"frontier", "done"} =>
       \A n \in Reached :
         /\ df[n] \subseteq Reached
         /\ \A k \in 1 .. Len(order) :
              /\ k < i => (order[k] \in df[n] <=> order[k] \in Frontier(succ, n))
              /\ k > i => order[k] \notin df[n]
  /\ pc = "frontier" /\ i <= Len(order) => JoinInv
  /\ pc = "done" => i > Len(order)

\* What the loop over the joins may rely on.
TreeFacts ==
  /\ TypeOK
  /\ Reached = Reachable(succ)
  /\ \A k, m \in 1 .. Len(order) : order[k] = order[m] => k = m
  /\ \A b \in Reached \ {Entry} : IsImmediateDominator(succ, idom[b], b)
  /\ idom[Entry] = NoBlock

LEMMA TreeFactsHold ==
  ASSUME TypeOK, OrderInv, ExactInv, IdomInv, pc \in {"frontier", "done"}
  PROVE  TreeFacts
BY BlockAssumption DEF BlockAssumption, TreeFacts, ExactInv, OrderInv, IdomInv

LEMMA FrontierInvEntered ==
  ASSUME TypeOK, FrontierInv, ComputeChildren
  PROVE  FrontierInv'
<1>1. /\ UNCHANGED <<succ, order, idom, walked, runner, df>> /\ pc = "idom"
      /\ pc' = "frontier" /\ i' = 1
  BY DEF ComputeChildren
<1>2. df = [b \in Block |-> {}] /\ walked = {} /\ runner = NoBlock
  BY <1>1 DEF FrontierInv
<1>3. Reached' = Reached /\ Reached \subseteq Block
  BY <1>1 DEF Reached, TypeOK, ToSet
<1>4. JoinInv'
  BY <1>1, <1>2, <1>3 DEF JoinInv, Joined
<1>5. QED
  BY <1>1, <1>2, <1>3, <1>4 DEF FrontierInv, TypeOK

LEMMA FrontierInvStarted ==
  ASSUME TreeFacts, FrontierInv, StartWalk
  PROVE  FrontierInv'
<1> DEFINE b == order[i]
<1>1. /\ pc = "frontier" /\ i <= Len(order) /\ i \in Nat \ {0} /\ order \in Seq(Block)
      /\ runner = NoBlock /\ idom[b] # NoBlock
      /\ succ \in [Block -> Seq(Block)]
      /\ UNCHANGED <<succ, pc, order, i, idom, df>>
  BY DEF StartWalk, TreeFacts, TypeOK
<1>2. PICK p \in ReachablePredecessors(b) \ walked : runner' = p /\ walked' = walked \cup {p}
  BY DEF StartWalk
<1>3. b \in Reached /\ b \in Block /\ Reached = Reachable(succ) /\ b # Entry
  BY <1>1 DEF Reached, ToSet, TreeFacts
<1>4. p \in Block /\ p \in Reached /\ b \in Targets(succ, p)
  BY DEF ReachablePredecessors, Predecessors
<1>5. IsImmediateDominator(succ, idom[b], b) /\ idom[b] \in Block
  BY <1>3 DEF TreeFacts, IsImmediateDominator, Reachable
<1>6. Dominates(succ, idom[b], p)
  BY <1>1, <1>3, <1>4, <1>5, DominatesPredecessor DEF IsImmediateDominator, StrictlyDominates
<1>7. Dominates(succ, p, p)
  BY DEF Dominates
<1>8. walked' \ {p} = walked
  BY <1>2
<1>9. Reached' = Reached
  BY <1>1 DEF Reached
<1>10. \A n \in Reached : b \in df[n] <=> Joined(n, b, walked)
  BY <1>1 DEF FrontierInv, JoinInv
<1>11. Walking(b, p)'
  BY <1>1, <1>2, <1>6, <1>7, <1>8, <1>9, <1>10 DEF Walking, Joined
<1>12. (ReachablePredecessors(b))' = ReachablePredecessors(b)
  BY <1>1, <1>9 DEF ReachablePredecessors, Predecessors
<1>13. walked \subseteq ReachablePredecessors(b)
  BY <1>1 DEF FrontierInv, JoinInv
<1>14. runner' # NoBlock
  BY <1>2, <1>4, BlockAssumption DEF BlockAssumption
<1>15. JoinInv'
  BY <1>1, <1>2, <1>3, <1>11, <1>12, <1>13, <1>14 DEF JoinInv
<1>16. QED
  BY <1>1, <1>9, <1>15 DEF FrontierInv

LEMMA FrontierInvWalked ==
  ASSUME TreeFacts, FrontierInv, WalkUp
  PROVE  FrontierInv'
<1> DEFINE b == order[i]
<1>1. /\ pc = "frontier" /\ i <= Len(order) /\ i \in Nat \ {0} /\ order \in Seq(Block)
      /\ runner # NoBlock /\ runner \in Block
      /\ succ \in [Block -> Seq(Block)] /\ df \in [Block -> SUBSET Block]
      /\ UNCHANGED <<succ, pc, order, i, idom, walked>>
  BY DEF WalkUp, TreeFacts, TypeOK
<1>2. JoinInv /\ Reached' = Reached /\ Reached = Reachable(succ) /\ Reached \subseteq Block
  BY <1>1 DEF FrontierInv, Reached, TreeFacts, Reachable
<1>3. PICK p \in walked : Walking(b, p)
  BY <1>1, <1>2 DEF JoinInv
<1>4. b \in Reached /\ b \in Block /\ b # Entry
  BY <1>1, <1>2, <1>3 DEF Reached, ToSet, JoinInv
<1>5. p \in Reached /\ p \in Block
  BY <1>2 DEF JoinInv, ReachablePredecessors, Predecessors
<1>6. IsImmediateDominator(succ, idom[b], b) /\ idom[b] \in Block
  BY <1>4 DEF TreeFacts, IsImmediateDominator, Reachable
<1>7. runner \in Reached
  BY <1>1, <1>2, <1>3, <1>5, DominatorReachable DEF Walking
<1>8. \A n \in Reached : StrictlyDominates(succ, n, b) <=> Dominates(succ, n, idom[b])
  BY <1>1, <1>2, <1>4, <1>6, StrictDominators
<1>9. /\ (ReachablePredecessors(b))' = ReachablePredecessors(b)
      /\ walked \subseteq ReachablePredecessors(b) /\ (b = Entry => walked = {})
  BY <1>1, <1>2 DEF ReachablePredecessors, Predecessors, JoinInv
<1>10. CASE runner = idom[b]
  <2>1. runner' = NoBlock /\ df' = df
    BY <1>10 DEF WalkUp
  <2>2. ASSUME NEW n \in Reached PROVE b \in df[n] <=> Joined(n, b, walked)
    <3>1. b \in df[n] <=> \/ Joined(n, b, walked \ {p})
                          \/ Dominates(succ, n, p) /\ ~Dominates(succ, n, runner)
      BY <1>3 DEF Walking
    <3>2. Joined(n, b, walked) <=> \/ Joined(n, b, walked \ {p})
                                   \/ Dominates(succ, n, p) /\ ~StrictlyDominates(succ, n, b)
      BY DEF Joined
    <3>3. QED
      BY <1>8, <1>10, <3>1, <3>2
  <2>3. JoinInv'
    BY <1>1, <1>2, <1>9, <2>1, <2>2 DEF JoinInv, Joined
  <2>4. QED
    BY <1>1, <1>2, <2>1, <2>3 DEF FrontierInv
<1>11. CASE runner # idom[b]
  <2>1. runner' = idom[runner] /\ df' = [df EXCEPT ![runner] = @ \cup {b}]
    BY <1>11 DEF WalkUp
  <2>2. runner # Entry
    BY <1>1, <1>3, <1>6, <1>11, OnlyEntryDominatesEntry DEF Walking
  <2>3. IsImmediateDominator(succ, idom[runner], runner) /\ idom[runner] \in Reached
    BY <1>2, <1>7, <2>2 DEF TreeFacts, IsImmediateDominator
  <2>4. \A n \in Block : StrictlyDominates(succ, n, runner) <=> Dominates(succ, n, idom[runner])
    BY <1>1, <1>2, <1>7, <2>3, StrictDominators
  <2>5. Dominates(succ, idom[runner], p)
    <3>1. Dominates(succ, idom[runner], runner) /\ Dominates(succ, runner, p)
      BY <1>3, <2>3 DEF IsImmediateDominator, StrictlyDominates, Walking
    <3>2. QED
      BY <1>1, <1>2, <1>5, <2>3, <3>1, DominatesTransitive
  <2>6. Dominates(succ, idom[b], idom[runner])
    BY <1>3, <1>6, <1>11, <2>4 DEF Walking, StrictlyDominates
  <2>7. ~StrictlyDominates(succ, runner, b)
    <3>1. SUFFICES ASSUME Dominates(succ, runner, idom[b]) PROVE FALSE
      BY <1>7, <1>8
    <3>2. Dominates(succ, idom[b], runner)
      BY <1>3 DEF Walking
    <3>3. QED
      BY <1>1, <1>2, <1>6, <1>7, <1>11, <3>1, <3>2, DominatesAntisymmetric
  <2>8. ASSUME NEW n \in Reached
        PROVE  b \in df'[n] <=> \/ Joined(n, b, walked \ {p})
                                \/ Dominates(succ, n, p) /\ ~Dominates(succ, n, idom[runner])
    <3>1. b \in df'[n] <=> b \in df[n] \/ n = runner
      BY <1>1, <1>2, <2>1
    <3>2. b \in df[n] <=> \/ Joined(n, b, walked \ {p})
                          \/ Dominates(succ, n, p) /\ ~Dominates(succ, n, runner)
      BY <1>3 DEF Walking
    <3>3. Dominates(succ, n, idom[runner]) <=> n # runner /\ Dominates(succ, n, runner)
      BY <1>2, <2>4 DEF StrictlyDominates
    <3>4. n = runner => Dominates(succ, n, p)
      BY <1>3 DEF Walking
    <3>5. QED
      BY <3>1, <3>2, <3>3, <3>4
  <2>9. Walking(b, p)'
    BY <1>1, <1>2, <2>1, <2>5, <2>6, <2>8 DEF Walking, Joined
  <2>10. runner' # NoBlock
    BY <1>2, <2>1, <2>3, BlockAssumption DEF BlockAssumption
  <2>11. JoinInv'
    BY <1>1, <1>9, <2>9, <2>10 DEF JoinInv
  <2>12. ASSUME NEW n \in Reached
         PROVE  /\ df'[n] \subseteq Reached
                /\ \A k \in 1 .. Len(order) :
                     k # i => (order[k] \in df'[n] <=> order[k] \in df[n])
    <3>1. df'[n] = IF n = runner THEN df[n] \cup {b} ELSE df[n]
      BY <1>1, <1>2, <2>1
    <3>2. df[n] \subseteq Reached
      BY <1>1 DEF FrontierInv
    <3>3. \A k \in 1 .. Len(order) : k # i => order[k] # b
      BY <1>1 DEF TreeFacts
    <3>4. QED
      BY <1>4, <3>1, <3>2, <3>3
  <2>13. QED
    BY <1>1, <1>2, <2>11, <2>12 DEF FrontierInv
<1>12. QED
  BY <1>10, <1>11

LEMMA FrontierInvNext ==
  ASSUME TreeFacts, FrontierInv, NextFrontierBlock
  PROVE  FrontierInv'
<1> DEFINE b == order[i]
<1>1. /\ pc = "frontier" /\ i <= Len(order) /\ i \in Nat \ {0} /\ order \in Seq(Block)
      /\ runner = NoBlock /\ i' = i + 1 /\ walked' = {}
      /\ succ \in [Block -> Seq(Block)]
      /\ UNCHANGED <<succ, pc, order, idom, df, runner>>
  BY DEF NextFrontierBlock, TreeFacts, TypeOK
<1>2. JoinInv /\ Reached' = Reached /\ Reached = Reachable(succ)
  BY <1>1 DEF FrontierInv, Reached, TreeFacts
<1>3. b \in Reached
  BY <1>1 DEF Reached, ToSet
<1>4. b # Entry => walked = ReachablePredecessors(b)
  <2>1. b # Entry => idom[b] # NoBlock
    BY <1>2, <1>3, BlockAssumption DEF BlockAssumption, TreeFacts, IsImmediateDominator, Reachable
  <2>2. QED
    BY <1>2, <2>1 DEF NextFrontierBlock, JoinInv
<1>5. ASSUME NEW n \in Reached PROVE b \in df[n] <=> b \in Frontier(succ, n)
  <2>1. b \in df[n] <=> Joined(n, b, walked)
    BY <1>1, <1>2 DEF JoinInv
  <2>2. CASE b = Entry
    BY <1>2, <2>1, <2>2 DEF JoinInv, Joined, Frontier
  <2>3. CASE b # Entry
    BY <1>2, <1>3, <1>4, <2>1, <2>3 DEF Joined, Frontier, ReachablePredecessors
  <2>4. QED
    BY <2>2, <2>3
<1>6. ASSUME NEW n \in Reached, NEW k \in 1 .. Len(order)
      PROVE  /\ k < i + 1 => (order[k] \in df[n] <=> order[k] \in Frontier(succ, n))
             /\ k >= i + 1 => order[k] \notin df[n]
  <2>1. /\ k < i => (order[k] \in df[n] <=> order[k] \in Frontier(succ, n))
        /\ k > i => order[k] \notin df[n]
    BY <1>1 DEF FrontierInv
  <2>2. k = i => (order[k] \in df[n] <=> order[k] \in Frontier(succ, n))
    BY <1>5
  <2>3. QED
    BY <1>1, <2>1, <2>2
<1>7. i + 1 <= Len(order) => JoinInv'
  BY <1>1, <1>2, <1>6 DEF JoinInv, Joined
<1>8. \A n \in Reached : df[n] \subseteq Reached
  BY <1>1 DEF FrontierInv
<1>9. QED
  BY <1>1, <1>2, <1>6, <1>7, <1>8 DEF FrontierInv

LEMMA FrontierInvStep ==
  TypeOK /\ OrderInv /\ ExactInv /\ IdomInv /\ FrontierInv /\ [Next]_vars => FrontierInv'
<1> SUFFICES ASSUME TypeOK, OrderInv, ExactInv, IdomInv, FrontierInv, [Next]_vars
             PROVE  FrontierInv'
  OBVIOUS
<1>1. CASE /\ UNCHANGED <<df, walked, runner>>
           /\ pc \in {"reach", "dominators", "idom"} /\ pc' \in {"reach", "dominators", "idom"}
  BY <1>1 DEF FrontierInv
<1>2. CASE ComputeChildren
  BY <1>2, FrontierInvEntered
<1>3. CASE StartWalk \/ WalkUp \/ NextFrontierBlock
  <2>1. pc = "frontier"
    BY <1>3 DEF StartWalk, WalkUp, NextFrontierBlock
  <2>2. TreeFacts
    BY <2>1, TreeFactsHold
  <2>3. QED
    BY <1>3, <2>2, FrontierInvStarted, FrontierInvWalked, FrontierInvNext
<1>4. CASE EndFrontier
  <2>1. /\ UNCHANGED <<succ, order, i, df>> /\ i > Len(order)
        /\ pc = "frontier" /\ pc' = "done"
    BY <1>4 DEF EndFrontier
  <2>2. Reached' = Reached
    BY <2>1 DEF Reached
  <2>3. QED
    BY <2>1, <2>2 DEF FrontierInv
<1>5. CASE UNCHANGED vars
  <2>1. UNCHANGED <<succ, pc, order, i, idom, df, walked, runner>>
    BY <1>5 DEF vars
  <2>2. Reached' = Reached
    BY <2>1 DEF Reached
  <2>3. JoinInv' <=> JoinInv
    BY <2>1, <2>2 DEF JoinInv, Walking, Joined, ReachablePredecessors, Predecessors
  <2>4. QED
    BY <2>1, <2>2, <2>3 DEF FrontierInv
<1>6. QED
  <2>1. VisitSuccessor \/ NextReachable \/ InitializeDominatorSets \/ VisitBlock \/ NextSweep
        \/ EndSweeps \/ ComputeImmediateDominator
        => /\ UNCHANGED <<df, walked, runner>>
           /\ pc \in {"reach", "dominators", "idom"} /\ pc' \in {"reach", "dominators", "idom"}
    BY DEF VisitSuccessor, NextReachable, InitializeDominatorSets, VisitBlock, NextSweep,
           EndSweeps, ComputeImmediateDominator
  <2>2. QED
    BY <1>1, <1>2, <1>3, <1>4, <1>5, <2>1 DEF Next, Finished

LEMMA FrontierInvCorrect == Spec => []FrontierInv
<1>1. Init => FrontierInv
  BY DEF Init, FrontierInv
<1>2. TypeOK /\ OrderInv /\ ExactInv /\ IdomInv /\ FrontierInv /\ [Next]_vars => FrontierInv'
  BY FrontierInvStep
<1>3. QED
  BY <1>1, <1>2, TypeCorrect, OrderInvCorrect, ExactInvCorrect, IdomInvCorrect, PTL DEF Spec

(* The runner loops build exactly the frontiers of the definition for every  *)
(* reachable block: a walk stops at the immediate dominator of the join and  *)
(* skips no block below it, whatever order the predecessors come in.         *)
THEOREM FrontierCorrect == Spec => []FrontierExact
<1>1. TypeOK /\ ExactInv /\ FrontierInv => FrontierExact
  <2> SUFFICES ASSUME TypeOK, ExactInv, FrontierInv, pc = "done", NEW n \in Reachable(succ)
               PROVE  df[n] = Frontier(succ, n)
    BY DEF FrontierExact
  <2>1. Reached = Reachable(succ) /\ order \in Seq(Block) /\ i \in Nat /\ i > Len(order)
    BY DEF ExactInv, TypeOK, FrontierInv
  <2>2. ASSUME NEW b \in Reached PROVE b \in df[n] <=> b \in Frontier(succ, n)
    <3>1. PICK k \in 1 .. Len(order) : b = order[k]
      BY DEF Reached, ToSet
    <3>2. k < i
      BY <2>1
    <3>3. QED
      BY <2>1, <3>1, <3>2 DEF FrontierInv
  <2>3. df[n] \subseteq Reached /\ Frontier(succ, n) \subseteq Reached
    BY <2>1 DEF FrontierInv, Frontier
  <2>4. QED
    BY <2>2, <2>3
<1>2. QED
  BY <1>1, TypeCorrect, ExactInvCorrect, FrontierInvCorrect, PTL
=============================================================================
