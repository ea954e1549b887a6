------------------------- MODULE ControlFlowProofs -------------------------
(***************************************************************************)
(* Facts about control-flow graphs, for every set of blocks and every graph: *)
(* reachability, and dominance as a tree order.  Nothing is induced over     *)
(* paths or over numbers: the reachable blocks are the least set that holds  *)
(* the entry and is closed under the edges, so a property of the entry that  *)
(* every edge out of a reachable block preserves holds of all of them.       *)
(***************************************************************************)
EXTENDS ControlFlow, TLAPS

(***************************************************************************)
(* Reachability.                                                           *)
(***************************************************************************)

LEMMA TargetsAreBlocks ==
  ASSUME NEW g \in [Block -> Seq(Block)], NEW x \in Block
  PROVE  Targets(g, x) \subseteq Block
BY DEF Targets, ToSet

LEMMA EntryReachable ==
  ASSUME NEW g \in [Block -> Seq(Block)]
  PROVE  Entry \in Reachable(g)
BY BlockAssumption DEF BlockAssumption, Reachable

LEMMA ReachableStep ==
  ASSUME NEW g \in [Block -> Seq(Block)], NEW x \in Reachable(g), NEW y \in Targets(g, x)
  PROVE  y \in Reachable(g)
<1>1. x \in Block /\ y \in Block
  BY TargetsAreBlocks DEF Reachable
<1>2. ASSUME NEW R \in SUBSET Block, Entry \in R, ClosedUnderEdges(g, R)
      PROVE  y \in R
  <2>1. x \in R
    BY <1>2 DEF Reachable
  <2>2. QED
    BY <2>1, <1>2 DEF ClosedUnderEdges
<1>3. QED
  BY <1>1, <1>2 DEF Reachable

LEMMA ReachableLeast ==
  ASSUME NEW g \in [Block -> Seq(Block)], NEW R \in SUBSET Block,
         Entry \in R, ClosedUnderEdges(g, R)
  PROVE  Reachable(g) \subseteq R
BY DEF Reachable

(* A reachable block other than the entry has a reachable predecessor.      *)
LEMMA ReachablePredecessorExists ==
  ASSUME NEW g \in [Block -> Seq(Block)], NEW b \in Reachable(g), b # Entry
  PROVE  \E p \in Reachable(g) : b \in Targets(g, p)
<1> SUFFICES ASSUME \A p \in Reachable(g) : b \notin Targets(g, p) PROVE FALSE
  OBVIOUS
<1> DEFINE R == Reachable(g) \ {b}
<1>1. R \in SUBSET Block
  BY DEF Reachable
<1>2. Entry \in R
  BY EntryReachable
<1>3. ClosedUnderEdges(g, R)
  BY ReachableStep DEF ClosedUnderEdges
<1>4. Reachable(g) \subseteq R
  BY <1>1, <1>2, <1>3, ReachableLeast
<1>5. QED
  BY <1>4

(* What dominates a reachable block is reachable.                           *)
LEMMA DominatorReachable ==
  ASSUME NEW g \in [Block -> Seq(Block)], NEW b \in Reachable(g), NEW d \in Block,
         Dominates(g, d, b)
  PROVE  d \in Reachable(g)
<1> SUFFICES ASSUME d \notin Reachable(g) PROVE FALSE
  OBVIOUS
<1>1. d # b /\ d # Entry
  BY EntryReachable
<1>2. PICK R \in SUBSET Block : SeparatesFromEntry(g, R, d) /\ b \notin R
  BY <1>1 DEF Dominates
<1> DEFINE S == R \cap Reachable(g)
<1>3. S \in SUBSET Block /\ Entry \in S
  BY <1>1, <1>2, EntryReachable DEF SeparatesFromEntry
<1>4. ClosedUnderEdges(g, S)
  BY <1>2, ReachableStep DEF SeparatesFromEntry, ClosedUnderEdges
<1>5. Reachable(g) \subseteq S
  BY <1>3, <1>4, ReachableLeast
<1>6. QED
  BY <1>2, <1>5

(* A strict dominator of a block dominates each of its predecessors.        *)
LEMMA DominatesPredecessor ==
  ASSUME NEW g \in [Block -> Seq(Block)], NEW b \in Block, NEW d \in Block,
         NEW p \in Block, b \in Targets(g, p), d # b, Dominates(g, d, b)
  PROVE  Dominates(g, d, p)
<1>1. PICK R \in SUBSET Block : SeparatesFromEntry(g, R, d) /\ b \notin R
  BY DEF Dominates
<1>2. p \notin R
  BY <1>1 DEF SeparatesFromEntry
<1>3. QED
  BY <1>1, <1>2 DEF Dominates

-----------------------------------------------------------------------------
(***************************************************************************)
(* Dominance is an order on the reachable blocks with the entry as its least *)
(* element.                                                                *)
(***************************************************************************)

LEMMA EntryDominates ==
  ASSUME NEW g \in [Block -> Seq(Block)], NEW b \in Block
  PROVE  Dominates(g, Entry, b)
<1>1. SeparatesFromEntry(g, {}, Entry)
  BY DEF SeparatesFromEntry
<1>2. QED
  BY <1>1 DEF Dominates

LEMMA OnlyEntryDominatesEntry ==
  ASSUME NEW g \in [Block -> Seq(Block)], NEW d \in Block, Dominates(g, d, Entry)
  PROVE  d = Entry
BY DEF Dominates, SeparatesFromEntry

(* Of two separating regions the common part separates.                     *)
LEMMA DominatesTransitive ==
  ASSUME NEW g \in [Block -> Seq(Block)], NEW a \in Block, NEW b \in Block,
         NEW c \in Block, Dominates(g, a, b), Dominates(g, b, c)
  PROVE  Dominates(g, a, c)
<1>1. CASE a = b \/ b = c
  BY <1>1
<1>2. CASE a = Entry
  BY <1>2, EntryDominates
<1>3. CASE a # Entry /\ a # b /\ b # c
  <2>1. b # Entry
    BY <1>3, OnlyEntryDominatesEntry
  <2>2. PICK R \in SUBSET Block : SeparatesFromEntry(g, R, a) /\ b \notin R
    BY <1>3 DEF Dominates
  <2>3. PICK S \in SUBSET Block : SeparatesFromEntry(g, S, b) /\ c \notin S
    BY <1>3 DEF Dominates
  <2>4. SeparatesFromEntry(g, R \cap S, a)
    BY <1>3, <2>1, <2>2, <2>3 DEF SeparatesFromEntry
  <2>5. R \cap S \in SUBSET Block /\ c \notin R \cap S
    BY <2>3
  <2>6. QED
    BY <2>4, <2>5 DEF Dominates
<1>4. QED
  BY <1>1, <1>2, <1>3

(* Two regions that separate a from b and b from a leave no path to either. *)
LEMMA DominatesAntisymmetric ==
  ASSUME NEW g \in [Block -> Seq(Block)], NEW a \in Block, NEW b \in Reachable(g),
         Dominates(g, a, b), Dominates(g, b, a)
  PROVE  a = b
<1> SUFFICES ASSUME a # b PROVE FALSE
  OBVIOUS
<1>1. b \in Block
  BY DEF Reachable
<1>2. a # Entry /\ b # Entry
  BY <1>1, OnlyEntryDominatesEntry
<1>3. PICK R \in SUBSET Block : SeparatesFromEntry(g, R, a) /\ b \notin R
  BY DEF Dominates
<1>4. PICK S \in SUBSET Block : SeparatesFromEntry(g, S, b) /\ a \notin S
  BY DEF Dominates
<1>5. Entry \in R \cap S /\ R \cap S \in SUBSET Block
  BY <1>2, <1>3, <1>4 DEF SeparatesFromEntry
<1>6. ClosedUnderEdges(g, R \cap S)
  BY <1>3, <1>4 DEF SeparatesFromEntry, ClosedUnderEdges
<1>7. Reachable(g) \subseteq R \cap S
  BY <1>5, <1>6, ReachableLeast
<1>8. QED
  BY <1>3, <1>7

-----------------------------------------------------------------------------
(***************************************************************************)
(* The dominators of a reachable block form a chain: every set of them has a *)
(* lowest and a topmost block.                                             *)
(***************************************************************************)

IsLowest(g, m, S) == m \in S /\ \A s \in S : Dominates(g, s, m)
IsTopmost(g, m, S) == m \in S /\ \A s \in S : Dominates(g, m, s)

(* Along an edge the dominators grow by the target at most.                 *)
LEMMA DominatorsAlongEdge ==
  ASSUME NEW g \in [Block -> Seq(Block)], NEW x \in Block, NEW y \in Targets(g, x)
  PROVE  Dominators(g, y) \subseteq Dominators(g, x) \cup {y}
BY TargetsAreBlocks, DominatesPredecessor DEF Dominators

LEMMA LowestDominator ==
  ASSUME NEW g \in [Block -> Seq(Block)], NEW b \in Reachable(g),
         NEW S \in SUBSET Dominators(g, b), S # {}
  PROVE  \E m \in S : IsLowest(g, m, S)
<1> DEFINE P == {x \in Block : \A T \in SUBSET Dominators(g, x) :
                                T # {} => \E m \in T : IsLowest(g, m, T)}
<1>1. Entry \in P
  <2>1. \A d \in Dominators(g, Entry) : d = Entry
    BY OnlyEntryDominatesEntry DEF Dominators
  <2>2. Dominates(g, Entry, Entry) /\ Entry \in Block
    BY BlockAssumption DEF BlockAssumption, Dominates
  <2>3. QED
    BY <2>1, <2>2 DEF IsLowest
<1>2. ASSUME NEW x \in P, NEW y \in Targets(g, x) PROVE y \in P
  <2>1. x \in Block /\ y \in Block
    BY TargetsAreBlocks
  <2> SUFFICES ASSUME NEW T \in SUBSET Dominators(g, y), T # {}
               PROVE  \E m \in T : IsLowest(g, m, T)
    BY <2>1
  <2>2. CASE y \in T
    BY <2>2 DEF IsLowest, Dominators
  <2>3. CASE y \notin T
    <3>1. T \in SUBSET Dominators(g, x)
      BY <2>1, <2>3, DominatorsAlongEdge
    <3>2. QED
      BY <3>1
  <2>4. QED
    BY <2>2, <2>3
<1>3. Reachable(g) \subseteq P
  <2>1. ClosedUnderEdges(g, P) /\ P \in SUBSET Block
    BY <1>2 DEF ClosedUnderEdges
  <2>2. QED
    BY <1>1, <2>1, ReachableLeast
<1>4. QED
  BY <1>3

LEMMA TopmostDominator ==
  ASSUME NEW g \in [Block -> Seq(Block)], NEW b \in Reachable(g),
         NEW S \in SUBSET Dominators(g, b), S # {}
  PROVE  \E m \in S : IsTopmost(g, m, S)
<1> DEFINE P == {x \in Block : \A T \in SUBSET Dominators(g, x) :
                                T # {} => \E m \in T : IsTopmost(g, m, T)}
<1>1. Entry \in P
  <2>1. \A d \in Dominators(g, Entry) : d = Entry
    BY OnlyEntryDominatesEntry DEF Dominators
  <2>2. Dominates(g, Entry, Entry) /\ Entry \in Block
    BY BlockAssumption DEF BlockAssumption, Dominates
  <2>3. QED
    BY <2>1, <2>2 DEF IsTopmost
<1>2. ASSUME NEW x \in P, NEW y \in Targets(g, x) PROVE y \in P
  <2>1. x \in Block /\ y \in Block
    BY TargetsAreBlocks
  <2> SUFFICES ASSUME NEW T \in SUBSET Dominators(g, y), T # {}
               PROVE  \E m \in T : IsTopmost(g, m, T)
    BY <2>1
  <2>2. CASE T = {y}
    BY <2>2 DEF IsTopmost, Dominators, Dominates
  <2>3. CASE T # {y}
    <3>1. T \ {y} \in SUBSET Dominators(g, x) /\ T \ {y} # {}
      BY <2>1, <2>3, DominatorsAlongEdge
    <3>2. PICK m \in T \ {y} : IsTopmost(g, m, T \ {y})
      BY <3>1
    <3>3. Dominates(g, m, y)
      BY DEF Dominators
    <3>4. IsTopmost(g, m, T)
      BY <3>2, <3>3 DEF IsTopmost
    <3>5. QED
      BY <3>2, <3>4
  <2>4. QED
    BY <2>2, <2>3
<1>3. Reachable(g) \subseteq P
  <2>1. ClosedUnderEdges(g, P) /\ P \in SUBSET Block
    BY <1>2 DEF ClosedUnderEdges
  <2>2. QED
    BY <1>1, <2>1, ReachableLeast
<1>4. QED
  BY <1>3

LEMMA DominatorsComparable ==
  ASSUME NEW g \in [Block -> Seq(Block)], NEW b \in Reachable(g), NEW a \in Block,
         NEW c \in Block, Dominates(g, a, b), Dominates(g, c, b)
  PROVE  Dominates(g, a, c) \/ Dominates(g, c, a)
<1>1. {a, c} \in SUBSET Dominators(g, b) /\ {a, c} # {}
  BY DEF Dominators
<1>2. PICK m \in {a, c} : IsLowest(g, m, {a, c})
  BY <1>1, LowestDominator
<1>3. QED
  BY <1>2 DEF IsLowest

-----------------------------------------------------------------------------
(***************************************************************************)
(* Immediate dominators.                                                   *)
(***************************************************************************)

LEMMA ImmediateDominatorExists ==
  ASSUME NEW g \in [Block -> Seq(Block)], NEW b \in Reachable(g), b # Entry
  PROVE  \E d \in Reachable(g) : IsImmediateDominator(g, d, b)
<1> DEFINE S == Dominators(g, b) \ {b}
<1>1. b \in Block /\ Entry \in Block
  BY BlockAssumption DEF BlockAssumption, Reachable
<1>2. Entry \in S
  BY <1>1, EntryDominates DEF Dominators
<1>3. PICK d \in S : IsLowest(g, d, S)
  BY <1>2, LowestDominator
<1>4. d \in Block /\ Dominates(g, d, b) /\ d # b
  BY DEF Dominators
<1>5. d \in Reachable(g)
  BY <1>4, DominatorReachable
<1>6. ASSUME NEW other \in Reachable(g), StrictlyDominates(g, other, b)
      PROVE  Dominates(g, other, d)
  <2>1. other \in S
    BY <1>6 DEF StrictlyDominates, Dominators, Reachable
  <2>2. QED
    BY <1>3, <2>1 DEF IsLowest
<1>7. QED
  BY <1>4, <1>5, <1>6 DEF IsImmediateDominator, StrictlyDominates

LEMMA ImmediateDominatorUnique ==
  ASSUME NEW g \in [Block -> Seq(Block)], NEW b \in Reachable(g), NEW c, NEW d,
         IsImmediateDominator(g, c, b), IsImmediateDominator(g, d, b)
  PROVE  c = d
<1>1. c \in Reachable(g) /\ d \in Reachable(g) /\ c \in Block
  BY DEF IsImmediateDominator, Reachable
<1>2. Dominates(g, c, d) /\ Dominates(g, d, c)
  BY <1>1 DEF IsImmediateDominator
<1>3. QED
  BY <1>1, <1>2, DominatesAntisymmetric

(* What dominates the immediate dominator is what strictly dominates the     *)
(* block: a walk up the tree misses no dominator.                            *)
LEMMA StrictDominators ==
  ASSUME NEW g \in [Block -> Seq(Block)], NEW b \in Reachable(g), NEW d,
         IsImmediateDominator(g, d, b), NEW n \in Block
  PROVE  StrictlyDominates(g, n, b) <=> Dominates(g, n, d)
<1>1. d \in Reachable(g) /\ d \in Block /\ b \in Block /\ Dominates(g, d, b) /\ d # b
  BY DEF IsImmediateDominator, StrictlyDominates, Reachable
<1>2. ASSUME StrictlyDominates(g, n, b) PROVE Dominates(g, n, d)
  <2>1. n \in Reachable(g)
    BY <1>2, DominatorReachable DEF StrictlyDominates
  <2>2. QED
    BY <1>2, <2>1 DEF IsImmediateDominator
<1>3. ASSUME Dominates(g, n, d) PROVE StrictlyDominates(g, n, b)
  <2>1. Dominates(g, n, b)
    BY <1>1, <1>3, DominatesTransitive
  <2>2. n # b
    BY <1>1, <1>3, DominatesAntisymmetric
  <2>3. QED
    BY <2>1, <2>2 DEF StrictlyDominates
<1>4. QED
  BY <1>2, <1>3

LEMMA ImmediateDominatorOfEntry ==
  ASSUME NEW g \in [Block -> Seq(Block)], NEW d, IsImmediateDominator(g, d, Entry)
  PROVE  FALSE
<1>1. d \in Block /\ Dominates(g, d, Entry) /\ d # Entry
  BY DEF IsImmediateDominator, StrictlyDominates, Reachable
<1>2. QED
  BY <1>1, OnlyEntryDominatesEntry
=============================================================================
