--------------------------- MODULE Mem2RegProofs ---------------------------
(***************************************************************************)
(* Proofs about Mem2Reg, for every set of functions the builder can make:   *)
(* the block parameters are the iterated dominance frontier of the stores,  *)
(* the function is in SSA form at every moment of the renaming, and only    *)
(* the accesses of the promoted variables are gone at its end.              *)
(*                                                                         *)
(* The invariant follows the depth-first walk over the dominator tree.  A    *)
(* block is Pending until the walk reaches it: some call that has not        *)
(* started, or the running block, is above it in the tree.  Pending blocks   *)
(* are as the builder made them, renamed blocks have lost every access of a  *)
(* promoted variable and have all their edge arguments, and the running      *)
(* block is in between.  The current values are final: the passes' later     *)
(* replacements cannot touch them, since no erased load is among them.       *)
(***************************************************************************)
EXTENDS Mem2RegExec, ControlFlowProofs, FiniteSetTheorems, TLAPS

Started == pc \in {"call", "rename", "done"}

Distinct(s) == \A i, j \in 1 .. Len(s) : s[i] = s[j] => i = j

CodeInv ==
  /\ code \in Functions
  /\ dominance = Analysis(code.succ)

(***************************************************************************)
(* Until the first call of rename_block the function is as it was.          *)
(***************************************************************************)
BeforeInv ==
  ~Started =>
    /\ insts = [b \in Block |-> InstsOf(code, b)]
    /\ operand = [n \in Insts(code) |-> code.body[n[1]][n[2]].val]
    /\ args = [b \in Block |-> [e \in 1 .. Len(code.succ[b]) |-> <<>>]]
    /\ values = [v \in Var |-> Null]
    /\ calls = <<>>

(***************************************************************************)
(* The examination: what is still to be examined has no parameters yet.     *)
(***************************************************************************)
Eligible == Candidates \ InvalidAllocs

InfosInv ==
  /\ pc = "collect" => infos = <<>> /\ promotable = <<>>
  /\ pc \in {"collect", "examine"} => worklist = {}
  /\ pc = "place" => infos # <<>>
  /\ pc \in {"call", "rename", "done"} => infos = <<>>
  /\ Distinct(infos)
  /\ ToSet(infos) \subseteq Eligible
  /\ pc \in {"examine", "place"} => ToSet(infos) \cap ToSet(promotable) = {}
  /\ pc = "create" => ToSet(infos) \subseteq ToSet(promotable)
  /\ Distinct(promotable)
  /\ ToSet(promotable) \subseteq Eligible
  /\ \A v \in Var :
       pc = "collect" \/ (pc = "examine" /\ v \in ToSet(infos))
         \/ (pc = "place" /\ v \in ToSet(Tail(infos))) => phi[v] = {}

PlacedInv == \A v \in ToSet(promotable) : CanPromoteWithoutUndef(v)

PlacingInv ==
  pc = "place" =>
    LET v == Head(infos)
    IN /\ worklist \subseteq DefBlocks(v) \cup phi[v]
       /\ Accesses("load", v) # {} =>
            \A b \in (DefBlocks(v) \cup phi[v]) \ worklist : dominance.frontier[b] \subseteq phi[v]
       /\ \A P \in SUBSET Block : ClosedUnderFrontiers(v, P) => phi[v] \subseteq P

ParamsInv ==
  /\ pc \in {"collect", "examine", "place"} => \A b \in Block : params[b] = <<>>
  /\ pc \notin {"collect", "examine", "place"} =>
       \A b \in Block :
         ToSet(params[b]) = {v \in ToSet(promotable) \ ToSet(infos) : b \in phi[v]}

(***************************************************************************)
(* The walk over the dominator tree.                                        *)
(***************************************************************************)
Pending(b) ==
  \/ \E i \in 1 .. Len(calls) : Dominates(code.succ, calls[i].block, b)
  \/ pc = "rename" /\ StrictlyDominates(code.succ, block, b)

Running(b) == pc = "rename" /\ b = block

Untouched(b) == b \notin Reachable(code.succ) \/ Pending(b)

Renamed(b) == b \in Reachable(code.succ) /\ ~Pending(b) /\ ~Running(b)

CallsInv ==
  /\ pc = "done" => calls = <<>>
  /\ \A i \in 1 .. Len(calls) : calls[i].block \in Reachable(code.succ)
  /\ \A i, j \in 1 .. Len(calls) :
       Dominates(code.succ, calls[i].block, calls[j].block) => i = j
  /\ pc = "rename" =>
       /\ block \in Reachable(code.succ)
       /\ \A i \in 1 .. Len(calls) :
            /\ ~Dominates(code.succ, calls[i].block, block)
            /\ ~Dominates(code.succ, block, calls[i].block)

KeptInsts(b) == {n \in InstsOf(code, b) : ~AccessesPromoted(n)}

RestInv ==
  pc = "rename" =>
    /\ rest \subseteq InstsOf(code, block)
    /\ \A n \in rest : \A m \in InstsOf(code, block) : n[2] <= m[2] => m \in rest

InstsInv ==
  Started =>
    \A b \in Block :
      /\ Untouched(b) => insts[b] = InstsOf(code, b)
      /\ Renamed(b) => insts[b] = KeptInsts(b)
      /\ Running(b) => insts[b] = KeptInsts(b) \cup rest

(***************************************************************************)
(* The values.  Final values are never replaced: they are constants, block  *)
(* parameters and results of instructions that stay, defined above block b  *)
(* or among the instructions earlier of b.                                  *)
(***************************************************************************)
Final(x, b, earlier) ==
  \/ x = NoOperand
  \/ x \in {<<"const", c>> : c \in Constant}
  \/ \E d \in Block : Dominates(code.succ, d, b) /\ \E v \in ToSet(params[d]) : x = Param(d, v)
  \/ \E n \in Insts(code) :
       /\ x = Result(n)
       /\ Op(n) \in {"load", "addr", "other"} /\ ~AccessesPromoted(n)
       /\ StrictlyDominates(code.succ, n[1], b) \/ n \in earlier

ValuesInv ==
  /\ pc = "rename" =>
       \A v \in Var :
         values[v] # Null => Final(values[v], block, InstsOf(code, block) \ rest)
  /\ \A i \in 1 .. Len(calls) : \A v \in Var :
       calls[i].values[v] # Null => Final(calls[i].values[v], calls[i].block, {})

\* v has been given a value further up the tree than b.
SetAbove(v, b) ==
  \/ \E a \in phi[v] : StrictlyDominates(code.succ, a, b)
  \/ \E n \in Accesses("store", v) : StrictlyDominates(code.succ, n[1], b)

SetInv ==
  /\ pc = "rename" =>
       \A v \in ToSet(promotable) :
         \/ values[v] # Null
         \/ /\ ~SetAbove(v, block)
            /\ block \notin phi[v]
            /\ \A n \in Accesses("store", v) : n[1] = block => n \in rest
  /\ \A i \in 1 .. Len(calls) : \A v \in ToSet(promotable) :
       SetAbove(v, calls[i].block) => calls[i].values[v] # Null

ArgsInv ==
  Started =>
    \A b \in Block :
      /\ Untouched(b) \/ Running(b) => \A e \in 1 .. Len(args[b]) : args[b][e] = <<>>
      /\ Renamed(b) =>
           \A e \in 1 .. Len(args[b]) :
             /\ Len(args[b][e]) = Len(params[code.succ[b][e]])
             /\ \A m \in 1 .. Len(args[b][e]) : Final(args[b][e][m], b, InstsOf(code, b))

OperandsInv ==
  Started =>
    \A b \in Reachable(code.succ) : \A n \in insts[b] :
      /\ DefinedAt(operand[n], b, n[2])
      /\ \A m \in Insts(code) : operand[n] = Result(m) => Op(m) \in {"load", "addr", "other"}

Inv ==
  /\ TypeOK /\ CodeInv /\ BeforeInv
  /\ InfosInv /\ PlacedInv /\ PlacingInv /\ ParamsInv
  /\ CallsInv /\ RestInv /\ InstsInv
  /\ ValuesInv /\ SetInv /\ ArgsInv /\ OperandsInv

-----------------------------------------------------------------------------
(* What the definitions say of the parts of a function.                     *)

LEMMA GoodCode ==
  ASSUME CodeInv
  PROVE  /\ code.succ \in [Block -> Seq(Block)]
         /\ \A b \in Block : Len(code.body[b]) \in Nat
         /\ IsFunction(code)
         /\ Null \notin Values(code)
         /\ IsFiniteSet(Block)
BY Mem2RegAssumption DEF Mem2RegAssumption, CodeInv, IsFunction

LEMMA InstIn ==
  ASSUME NEW f, NEW b \in Block, NEW n \in InstsOf(f, b)
  PROVE  n \in Insts(f) /\ n[1] = b /\ n[2] \in 1 .. Len(f.body[b])
BY DEF InstsOf, Insts

LEMMA InstAt ==
  ASSUME NEW f, NEW n \in Insts(f)
  PROVE  n[1] \in Block /\ n \in InstsOf(f, n[1])
<1>1. PICK b \in Block : n \in InstsOf(f, b)
  BY DEF Insts
<1>2. n[1] = b
  BY <1>1, InstIn
<1>3. QED
  BY <1>1, <1>2

LEMMA InstPosition ==
  ASSUME CodeInv, NEW n \in Insts(code)
  PROVE  /\ n[1] \in Block /\ n[2] \in 1 .. Len(code.body[n[1]])
         /\ n = <<n[1], n[2]>> /\ n[2] \in Nat
<1>1. n[1] \in Block /\ n \in InstsOf(code, n[1])
  BY InstAt
<1>2. Len(code.body[n[1]]) \in Nat
  BY <1>1, GoodCode
<1>3. QED
  BY <1>1, <1>2 DEF InstsOf

LEMMA SameInst ==
  ASSUME CodeInv, NEW n \in Insts(code), NEW m \in Insts(code), n[1] = m[1], n[2] = m[2]
  PROVE  n = m
BY InstPosition

(* The kinds of values do not overlap.                                      *)
LEMMA ValueKinds ==
  /\ \A n, m : Result(n) = Result(m) => n = m
  /\ \A n : Result(n) # NoOperand
  /\ \A n, c : Result(n) # <<"const", c>>
  /\ \A n, d, v : Result(n) # Param(d, v)
BY DEF Result, NoOperand, Param

LEMMA ValueIn ==
  /\ NoOperand \in Values(code)
  /\ \A c \in Constant : <<"const", c>> \in Values(code)
  /\ \A n \in Insts(code) : Result(n) \in Values(code)
  /\ \A b \in Block, v \in Var : Param(b, v) \in Values(code)
BY DEF Values

(* The analysis is what ControlFlow defines.                                *)
LEMMA AnalysisIs ==
  ASSUME CodeInv
  PROVE  /\ dominance.reachable = Reachable(code.succ)
         /\ \A b \in Block : dominance.dominators[b] = Dominators(code.succ, b)
         /\ \A b \in Block : dominance.frontier[b] = Frontier(code.succ, b)
         /\ \A b \in Block :
              dominance.children[b]
                = {c \in Reachable(code.succ) \ {Entry} : IsImmediateDominator(code.succ, b, c)}
BY DEF CodeInv, Analysis

(* An alloc, a load or a store has an alloca of its own.                    *)
LEMMA AccessedVar ==
  ASSUME CodeInv, NEW n \in Insts(code)
  PROVE  /\ Op(n) \in {"alloc", "load", "store", "addr", "other"}
         /\ Op(n) # "other" <=> VarOf(n) \in Var
         /\ \A m \in Insts(code) :
              Op(n) = "alloc" /\ Op(m) = "alloc" /\ VarOf(n) = VarOf(m) => m = n
BY GoodCode DEF IsFunction, Op, VarOf

(* The order of the instructions of an operand's definition and its use.    *)
LEMMA OperandBefore ==
  ASSUME CodeInv, NEW n \in Insts(code)
  PROVE  \/ code.body[n[1]][n[2]].val \in {NoOperand} \cup {<<"const", c>> : c \in Constant}
         \/ \E m \in Insts(code) :
              /\ code.body[n[1]][n[2]].val = Result(m)
              /\ Op(m) \in {"load", "addr", "other"}
              /\ n[1] \in Reachable(code.succ) => Precedes(code, m, n)
BY GoodCode DEF IsFunction, Op

-----------------------------------------------------------------------------
(* The dominator tree.                                                      *)

LEMMA StrictTransitive ==
  ASSUME NEW g \in [Block -> Seq(Block)], NEW a \in Block, NEW b \in Block,
         NEW c \in Reachable(g), Dominates(g, a, b), StrictlyDominates(g, b, c)
  PROVE  StrictlyDominates(g, a, c)
<1>1. c \in Block /\ Dominates(g, b, c) /\ b # c
  BY DEF Reachable, StrictlyDominates
<1>2. Dominates(g, a, c)
  BY <1>1, DominatesTransitive
<1>3. a # c
  <2> SUFFICES ASSUME a = c PROVE FALSE
    OBVIOUS
  <2>1. Dominates(g, c, b)
    OBVIOUS
  <2>2. b = c
    BY <1>1, <2>1, DominatesAntisymmetric
  <2>3. QED
    BY <1>1, <2>2
<1>4. QED
  BY <1>2, <1>3 DEF StrictlyDominates

LEMMA ReachableAbove ==
  ASSUME NEW g \in [Block -> Seq(Block)], NEW a \in Block, NEW b \in Reachable(g),
         Dominates(g, a, b)
  PROVE  a \in Reachable(g)
BY DominatorReachable

Children(g, b) == {c \in Reachable(g) \ {Entry} : IsImmediateDominator(g, b, c)}

(* Every block below b is below a child of b, and no child of b is above     *)
(* another: the recursion of rename_block visits each block once.           *)
LEMMA BelowAChild ==
  ASSUME NEW g \in [Block -> Seq(Block)], NEW b \in Block, NEW x \in Reachable(g),
         StrictlyDominates(g, b, x)
  PROVE  \E c \in Children(g, b) : Dominates(g, c, x)
<1> DEFINE S == {d \in Dominators(g, x) : StrictlyDominates(g, b, d)}
<1>1. x \in Block /\ x \in S
  BY DEF Reachable, Dominators, Dominates
<1>2. S \in SUBSET Dominators(g, x) /\ S # {}
  BY <1>1
<1>3. PICK c \in S : IsTopmost(g, c, S)
  BY <1>2, TopmostDominator
<1>4. c \in Block /\ Dominates(g, c, x) /\ StrictlyDominates(g, b, c)
  BY <1>3 DEF Dominators
<1>5. c \in Reachable(g)
  BY <1>4, ReachableAbove
<1>6. c # Entry
  BY <1>4, OnlyEntryDominatesEntry DEF StrictlyDominates
<1>7. PICK d \in Reachable(g) : IsImmediateDominator(g, d, c)
  BY <1>5, <1>6, ImmediateDominatorExists
<1>8. d \in Block /\ StrictlyDominates(g, d, c) /\ Dominates(g, b, d)
  <2>1. d \in Block /\ StrictlyDominates(g, d, c)
    BY <1>7 DEF Reachable, IsImmediateDominator
  <2>2. Dominates(g, b, d)
    BY <1>4, <1>5, <1>7, StrictDominators
  <2>3. QED
    BY <2>1, <2>2
<1>9. b = d
  <2> SUFFICES ASSUME b # d PROVE FALSE
    OBVIOUS
  <2>1. StrictlyDominates(g, b, d)
    BY <1>8 DEF StrictlyDominates
  <2>2. Dominates(g, d, x)
    BY <1>1, <1>4, <1>8, DominatesTransitive DEF StrictlyDominates
  <2>3. d \in S
    BY <1>8, <2>1, <2>2 DEF Dominators
  <2>4. Dominates(g, c, d)
    BY <1>3, <2>3 DEF IsTopmost
  <2>5. StrictlyDominates(g, c, c)
    BY <1>4, <1>5, <1>8, <2>4, StrictTransitive
  <2>6. QED
    BY <2>5 DEF StrictlyDominates
<1>10. QED
  BY <1>4, <1>5, <1>6, <1>7, <1>9 DEF Children

LEMMA ChildFacts ==
  ASSUME NEW g \in [Block -> Seq(Block)], NEW b \in Block, NEW c \in Children(g, b)
  PROVE  /\ c \in Reachable(g) /\ c \in Block
         /\ StrictlyDominates(g, b, c)
         /\ \A a \in Block : StrictlyDominates(g, a, c) <=> Dominates(g, a, b)
<1>1. c \in Reachable(g) /\ c \in Block /\ IsImmediateDominator(g, b, c)
  BY DEF Children, Reachable
<1>2. StrictlyDominates(g, b, c)
  BY <1>1 DEF IsImmediateDominator
<1>3. ASSUME NEW a \in Block PROVE StrictlyDominates(g, a, c) <=> Dominates(g, a, b)
  BY <1>1, StrictDominators
<1>4. QED
  BY <1>1, <1>2, <1>3

LEMMA ChildrenApart ==
  ASSUME NEW g \in [Block -> Seq(Block)], NEW b \in Block, NEW c \in Children(g, b),
         NEW d \in Children(g, b), Dominates(g, c, d)
  PROVE  c = d
<1> SUFFICES ASSUME c # d PROVE FALSE
  OBVIOUS
<1>1. c \in Reachable(g) /\ c \in Block /\ StrictlyDominates(g, b, c)
  BY ChildFacts
<1>2. StrictlyDominates(g, c, d)
  BY DEF StrictlyDominates
<1>3. Dominates(g, c, b)
  BY <1>1, <1>2, ChildFacts
<1>4. StrictlyDominates(g, c, c)
  BY <1>1, <1>3, StrictTransitive
<1>5. QED
  BY <1>4 DEF StrictlyDominates

(* A sequence of the elements of a finite set lists them all, each once.    *)
LEMMA SeqOfSet ==
  ASSUME NEW S, IsFiniteSet(S), NEW s \in SetToSeqs(S)
  PROVE  /\ s \in Seq(S)
         /\ Len(s) = Cardinality(S) /\ Len(s) \in Nat
         /\ ToSet(s) = S
         /\ Distinct(s)
<1> DEFINE n == Cardinality(S)
<1>1. n \in Nat
  BY FS_CardinalityType
<1>2. s \in [1 .. n -> S] /\ \A i, j \in 1 .. n : i # j => s[i] # s[j]
  BY DEF SetToSeqs
<1>3. s \in Seq(S) /\ Len(s) = n
  BY <1>1, <1>2
<1>4. Cardinality(1 .. n) = n
  BY <1>1, FS_Interval
<1>5. s \in Injection(1 .. n, S)
  BY <1>2 DEF Injection, IsInjective
<1>6. s \in Surjection(1 .. n, S)
  BY <1>4, <1>5, FS_Injection
<1>7. ToSet(s) = S
  BY <1>3, <1>6 DEF ToSet, Surjection
<1>8. Distinct(s)
  BY <1>2, <1>3 DEF Distinct
<1>9. QED
  BY <1>1, <1>3, <1>7, <1>8

-----------------------------------------------------------------------------
(* The initial states.                                                      *)

LEMMA EmptySeqs ==
  /\ \A S : <<>> \in Seq(S)
  /\ Len(<<>>) = 0 /\ ToSet(<<>>) = {} /\ Distinct(<<>>)
BY DEF ToSet, Distinct

LEMMA InitTypes ==
  ASSUME Init
  PROVE  TypeOK /\ CodeInv
<1>1. CodeInv
  BY DEF Init, CodeInv
<1>2. code.succ \in [Block -> Seq(Block)]
  BY <1>1, GoodCode
<1>3. insts \in [Block -> SUBSET Insts(code)]
  BY InstIn DEF Init
<1>4. operand \in [Insts(code) -> Values(code)]
  <2>1. ASSUME NEW n \in Insts(code) PROVE code.body[n[1]][n[2]].val \in Values(code)
    BY <1>1, OperandBefore, ValueIn
  <2>2. QED
    BY <2>1 DEF Init
<1>5. /\ args \in [Block -> Seq(Seq(Values(code)))]
      /\ \A b \in Block : Len(args[b]) = Len(code.succ[b])
  <2>1. ASSUME NEW b \in Block
        PROVE  /\ [e \in 1 .. Len(code.succ[b]) |-> <<>>] \in Seq(Seq(Values(code)))
               /\ Len([e \in 1 .. Len(code.succ[b]) |-> <<>>]) = Len(code.succ[b])
    <3>1. Len(code.succ[b]) \in Nat
      BY <1>2
    <3>2. [e \in 1 .. Len(code.succ[b]) |-> <<>>] \in [1 .. Len(code.succ[b]) -> Seq(Values(code))]
      BY EmptySeqs
    <3>3. QED
      BY <3>1, <3>2
  <2>2. QED
    BY <2>1 DEF Init
<1>6. /\ params \in [Block -> Seq(Var)] /\ infos \in Seq(Var) /\ promotable \in Seq(Var)
      /\ calls \in Seq([block : Block, values : [Var -> ValueOrNull]])
  BY EmptySeqs DEF Init
<1>7. /\ phi \in [Var -> SUBSET Block] /\ values \in [Var -> ValueOrNull]
      /\ worklist \in SUBSET Block /\ rest \in SUBSET Insts(code)
      /\ block \in Block \cup {NoBlock}
  BY DEF Init, ValueOrNull
<1>8. code \in Functions /\ pc = "collect"
  BY DEF Init
<1>9. QED
  BY <1>1, <1>3, <1>4, <1>5, <1>6, <1>7, <1>8 DEF TypeOK

LEMMA InitInv ==
  ASSUME Init
  PROVE  Inv
<1>1. TypeOK /\ CodeInv
  BY InitTypes
<1>2. pc = "collect" /\ ~Started
  BY DEF Init, Started
<1>3. BeforeInv
  BY DEF Init, BeforeInv
<1>4. InfosInv
  BY <1>2, EmptySeqs DEF Init, InfosInv
<1>5. PlacedInv /\ PlacingInv
  BY <1>2, EmptySeqs DEF Init, PlacedInv, PlacingInv
<1>6. ParamsInv
  BY <1>2 DEF Init, ParamsInv
<1>7. calls = <<>> /\ Len(calls) = 0
  BY DEF Init
<1>8. CallsInv /\ RestInv /\ InstsInv /\ ValuesInv /\ SetInv
  BY <1>2, <1>7 DEF CallsInv, RestInv, InstsInv, ValuesInv, SetInv
<1>9. ArgsInv /\ OperandsInv
  BY <1>2 DEF ArgsInv, OperandsInv
<1>10. QED
  BY <1>1, <1>3, <1>4, <1>5, <1>6, <1>8, <1>9 DEF Inv

-----------------------------------------------------------------------------
(* What a step before the renaming, and a step of it, leaves alone.          *)

WalkInv == CallsInv /\ RestInv /\ InstsInv /\ ValuesInv /\ SetInv /\ ArgsInv /\ OperandsInv
PlaceInv == InfosInv /\ PlacedInv /\ PlacingInv /\ ParamsInv

LEMMA StepBefore ==
  ASSUME Inv, ~Started, ~Started',
         UNCHANGED <<code, dominance, insts, operand, args, renaming>>
  PROVE  CodeInv' /\ BeforeInv' /\ WalkInv'
<1> USE DEF Inv
<1>1. CodeInv'
  BY DEF CodeInv
<1>2. BeforeInv'
  BY DEF BeforeInv, renaming
<1>3. calls' = <<>> /\ Len(calls') = 0
  BY DEF BeforeInv, renaming
<1>4. pc' # "rename" /\ pc' # "done"
  BY DEF Started
<1>5. CallsInv' /\ RestInv' /\ InstsInv' /\ ValuesInv' /\ SetInv'
  BY <1>3, <1>4 DEF CallsInv, RestInv, InstsInv, ValuesInv, SetInv
<1>6. ArgsInv' /\ OperandsInv'
  BY DEF ArgsInv, OperandsInv
<1>7. QED
  BY <1>1, <1>2, <1>5, <1>6 DEF WalkInv

LEMMA FrameHasValue ==
  ASSUME UNCHANGED <<code, dominance, phi>>
  PROVE  \A v : CanPromoteWithoutUndef(v)' <=> CanPromoteWithoutUndef(v)
BY DEF CanPromoteWithoutUndef, HasValue, Accesses, Op, VarOf

LEMMA StepAfter ==
  ASSUME Inv, Started, Started', UNCHANGED <<code, dominance, params, examination>>
  PROVE  CodeInv' /\ BeforeInv' /\ PlaceInv'
<1> USE DEF Inv, examination
<1>1. CodeInv'
  BY DEF CodeInv
<1>2. BeforeInv'
  BY DEF BeforeInv
<1>3. pc \in {"call", "rename", "done"} /\ pc' \in {"call", "rename", "done"}
  BY DEF Started
<1>4. InfosInv'
  <2>1. Eligible' = Eligible
    BY DEF Eligible, Candidates, InvalidAllocs, Accesses, Op, VarOf
  <2>2. QED
    BY <1>3, <2>1 DEF InfosInv
<1>5. PlacedInv' /\ PlacingInv'
  BY <1>3, FrameHasValue DEF PlacedInv, PlacingInv
<1>6. ParamsInv'
  BY <1>3 DEF ParamsInv
<1>7. QED
  BY <1>1, <1>2, <1>4, <1>5, <1>6 DEF PlaceInv

-----------------------------------------------------------------------------
(* The examination.                                                         *)

LEMMA EligibleFinite == IsFiniteSet(Eligible)
<1>1. Eligible \subseteq Var
  BY DEF Eligible, Candidates
<1>2. QED
  BY <1>1, Mem2RegAssumption, FS_Subset DEF Mem2RegAssumption

LEMMA EligibleFrame ==
  ASSUME UNCHANGED <<code, dominance>>
  PROVE  /\ Eligible' = Eligible
         /\ \A v : DefBlocks(v)' = DefBlocks(v)
         /\ \A op, v : Accesses(op, v)' = Accesses(op, v)
         /\ \A v, P : ClosedUnderFrontiers(v, P)' <=> ClosedUnderFrontiers(v, P)
BY DEF Eligible, Candidates, InvalidAllocs, Accesses, Op, VarOf, DefBlocks, ClosedUnderFrontiers

LEMMA HeadTail ==
  ASSUME NEW S, NEW s \in Seq(S), s # <<>>
  PROVE  /\ Head(s) \in S /\ Tail(s) \in Seq(S)
         /\ ToSet(s) = {Head(s)} \cup ToSet(Tail(s))
         /\ Distinct(s) => Distinct(Tail(s)) /\ Head(s) \notin ToSet(Tail(s))
<1>1. Len(s) \in Nat /\ Len(s) # 0 /\ Len(Tail(s)) = Len(s) - 1
  OBVIOUS
<1>2. Head(s) = s[1] /\ \A k \in 1 .. Len(Tail(s)) : Tail(s)[k] = s[k + 1]
  OBVIOUS
<1>3. ToSet(s) = {Head(s)} \cup ToSet(Tail(s))
  <2>1. ASSUME NEW x \in ToSet(s) PROVE x \in {Head(s)} \cup ToSet(Tail(s))
    <3>1. PICK k \in 1 .. Len(s) : x = s[k]
      BY DEF ToSet
    <3>2. CASE k = 1
      BY <1>2, <3>1, <3>2
    <3>3. CASE k # 1
      <4>1. k - 1 \in 1 .. Len(Tail(s)) /\ k = (k - 1) + 1
        BY <1>1, <3>3
      <4>2. Tail(s)[k - 1] = x
        BY <1>2, <3>1, <4>1
      <4>3. DOMAIN Tail(s) = 1 .. Len(Tail(s))
        OBVIOUS
      <4>4. Tail(s)[k - 1] \in ToSet(Tail(s))
        BY <4>1, <4>3 DEF ToSet
      <4>5. QED
        BY <4>2, <4>4
    <3>4. QED
      BY <3>2, <3>3
  <2>2. ASSUME NEW x \in ToSet(Tail(s)) PROVE x \in ToSet(s)
    <3>1. PICK k \in 1 .. Len(Tail(s)) : x = Tail(s)[k]
      BY DEF ToSet
    <3>2. k + 1 \in 1 .. Len(s) /\ x = s[k + 1]
      BY <1>1, <1>2, <3>1
    <3>3. QED
      BY <3>2 DEF ToSet
  <2>3. Head(s) \in ToSet(s)
    BY <1>1, <1>2 DEF ToSet
  <2>4. QED
    BY <2>1, <2>2, <2>3
<1>4. ASSUME Distinct(s) PROVE Distinct(Tail(s)) /\ Head(s) \notin ToSet(Tail(s))
  <2>1. ASSUME NEW i \in 1 .. Len(Tail(s)), NEW j \in 1 .. Len(Tail(s)), Tail(s)[i] = Tail(s)[j]
        PROVE  i = j
    <3>1. i + 1 \in 1 .. Len(s) /\ j + 1 \in 1 .. Len(s) /\ s[i + 1] = s[j + 1]
      BY <1>1, <1>2, <2>1
    <3>2. i + 1 = j + 1
      BY <1>4, <3>1 DEF Distinct
    <3>3. QED
      BY <3>2
  <2>2. Head(s) \notin ToSet(Tail(s))
    <3> SUFFICES ASSUME NEW k \in 1 .. Len(Tail(s)), Head(s) = Tail(s)[k] PROVE FALSE
      BY DEF ToSet
    <3>1. 1 \in 1 .. Len(s) /\ k + 1 \in 1 .. Len(s) /\ s[1] = s[k + 1]
      BY <1>1, <1>2
    <3>2. 1 = k + 1
      BY <1>4, <3>1 DEF Distinct
    <3>3. QED
      BY <3>2
  <2>3. QED
    BY <2>1, <2>2 DEF Distinct
<1>5. Head(s) \in S /\ Tail(s) \in Seq(S)
  OBVIOUS
<1>6. QED
  BY <1>3, <1>4, <1>5

LEMMA AppendNew ==
  ASSUME NEW S, NEW s \in Seq(S), NEW x \in S
  PROVE  /\ Append(s, x) \in Seq(S)
         /\ ToSet(Append(s, x)) = ToSet(s) \cup {x}
         /\ Distinct(s) /\ x \notin ToSet(s) => Distinct(Append(s, x))
<1>1. Len(s) \in Nat /\ Len(Append(s, x)) = Len(s) + 1
  OBVIOUS
<1>2. /\ \A k \in 1 .. Len(s) : Append(s, x)[k] = s[k]
      /\ Append(s, x)[Len(s) + 1] = x
  OBVIOUS
<1>3. ToSet(Append(s, x)) = ToSet(s) \cup {x}
  <2>1. ASSUME NEW y \in ToSet(Append(s, x)) PROVE y \in ToSet(s) \cup {x}
    <3>1. PICK k \in 1 .. Len(Append(s, x)) : y = Append(s, x)[k]
      BY DEF ToSet
    <3>2. k = Len(s) + 1 \/ k \in 1 .. Len(s)
      BY <1>1
    <3>3. QED
      BY <1>2, <3>1, <3>2 DEF ToSet
  <2>2. ASSUME NEW y \in ToSet(s) PROVE y \in ToSet(Append(s, x))
    <3>1. PICK k \in 1 .. Len(s) : y = s[k]
      BY DEF ToSet
    <3>2. k \in 1 .. Len(Append(s, x)) /\ y = Append(s, x)[k]
      BY <1>1, <1>2, <3>1
    <3>3. QED
      BY <3>2 DEF ToSet
  <2>3. x \in ToSet(Append(s, x))
    <3>1. Len(s) + 1 \in 1 .. Len(Append(s, x))
      BY <1>1
    <3>2. QED
      BY <1>2, <3>1 DEF ToSet
  <2>4. QED
    BY <2>1, <2>2, <2>3
<1>4. ASSUME Distinct(s), x \notin ToSet(s), NEW i \in 1 .. Len(Append(s, x)),
             NEW j \in 1 .. Len(Append(s, x)), Append(s, x)[i] = Append(s, x)[j]
      PROVE  i = j
  <2>1. (i = Len(s) + 1 \/ i \in 1 .. Len(s)) /\ (j = Len(s) + 1 \/ j \in 1 .. Len(s))
    BY <1>1
  <2>2. \A k \in 1 .. Len(s) : s[k] # x
    BY <1>4 DEF ToSet
  <2>3. QED
    BY <1>2, <1>4, <2>1, <2>2 DEF Distinct
<1>5. Append(s, x) \in Seq(S)
  OBVIOUS
<1>6. QED
  BY <1>3, <1>4, <1>5 DEF Distinct

LEMMA CollectKeepsInv ==
  ASSUME Inv, Collect
  PROVE  Inv'
<1> USE DEF Inv
<1>1. /\ pc = "collect" /\ pc' = "examine" /\ infos' \in SetToSeqs(Eligible)
      /\ UNCHANGED <<code, dominance, insts, operand, params, args, worklist, phi, promotable,
                     renaming>>
  BY DEF Collect, Eligible, function
<1>2. ~Started /\ ~Started'
  BY <1>1 DEF Started
<1>3. CodeInv' /\ BeforeInv' /\ WalkInv'
  BY <1>1, <1>2, StepBefore
<1>4. infos' \in Seq(Eligible) /\ ToSet(infos') = Eligible /\ Distinct(infos')
  BY <1>1, EligibleFinite, SeqOfSet
<1>5. TypeOK'
  <2>1. Eligible \subseteq Var
    BY DEF Eligible, Candidates
  <2>2. infos' \in Seq(Var)
    BY <1>4, <2>1
  <2>3. QED
    BY <1>1, <2>2 DEF TypeOK, ValueOrNull, renaming
<1>6. InfosInv'
  <2>1. Eligible' = Eligible
    BY <1>1, EligibleFrame
  <2>2. promotable = <<>> /\ worklist = {} /\ ToSet(promotable) = {} /\ Distinct(promotable)
    BY <1>1, EmptySeqs DEF InfosInv
  <2>3. QED
    BY <1>1, <1>4, <2>1, <2>2 DEF InfosInv
<1>7. PlacedInv' /\ PlacingInv'
  BY <1>1, FrameHasValue DEF PlacedInv, PlacingInv
<1>8. ParamsInv'
  BY <1>1 DEF ParamsInv
<1>9. QED
  BY <1>3, <1>5, <1>6, <1>7, <1>8 DEF WalkInv, Inv

LEMMA FrontierBlocks ==
  ASSUME CodeInv, NEW b \in Block
  PROVE  dominance.frontier[b] \subseteq Block
BY AnalysisIs DEF Frontier, Reachable

LEMMA StartPlacingKeepsInv ==
  ASSUME Inv, StartPlacing
  PROVE  Inv'
<1> USE DEF Inv
<1> DEFINE v == Head(infos)
<1>1. /\ pc = "examine" /\ pc' = "place" /\ infos # <<>>
      /\ worklist' = IF Accesses("load", v) = {} THEN {} ELSE DefBlocks(v)
      /\ UNCHANGED <<code, dominance, insts, operand, params, args, infos, phi, promotable,
                     renaming>>
  BY DEF StartPlacing, function
<1>2. ~Started /\ ~Started'
  BY <1>1 DEF Started
<1>3. CodeInv' /\ BeforeInv' /\ WalkInv'
  BY <1>1, <1>2, StepBefore
<1>4. v \in Var /\ v \in ToSet(infos) /\ ToSet(Tail(infos)) \subseteq ToSet(infos)
  BY <1>1, HeadTail DEF TypeOK
<1>5. DefBlocks(v) \subseteq Block
  BY InstAt DEF DefBlocks, Accesses
<1>6. TypeOK'
  BY <1>1, <1>5 DEF TypeOK, ValueOrNull, renaming
<1>7. phi[v] = {}
  BY <1>1, <1>4 DEF InfosInv
<1>8. InfosInv'
  <2>1. Eligible' = Eligible
    BY <1>1, EligibleFrame
  <2>2. QED
    BY <1>1, <1>4, <2>1 DEF InfosInv
<1>9. PlacedInv'
  BY <1>1, FrameHasValue DEF PlacedInv
<1>10. PlacingInv'
  <2>1. v' = v /\ phi' = phi
    BY <1>1
  <2>2. worklist' \subseteq DefBlocks(v) \cup phi[v]
    BY <1>1
  <2>3. Accesses("load", v) # {} => (DefBlocks(v) \cup phi[v]) \ worklist' = {}
    BY <1>1, <1>7
  <2>4. \A P : phi[v] \subseteq P
    BY <1>7
  <2>5. /\ DefBlocks(v)' = DefBlocks(v) /\ Accesses("load", v)' = Accesses("load", v)
        /\ \A P : ClosedUnderFrontiers(v, P)' <=> ClosedUnderFrontiers(v, P)
    BY <1>1, <2>1, EligibleFrame
  <2> HIDE DEF v
  <2>6. /\ worklist' \subseteq DefBlocks(v)' \cup phi'[v']
        /\ Accesses("load", v)' # {} =>
             \A b \in (DefBlocks(v)' \cup phi'[v']) \ worklist' :
               dominance'.frontier[b] \subseteq phi'[v']
        /\ \A P \in SUBSET Block : ClosedUnderFrontiers(v, P)' => phi'[v'] \subseteq P
    BY <2>1, <2>2, <2>3, <2>4, <2>5
  <2>7. QED
    BY <2>6 DEF PlacingInv, v
<1>11. ParamsInv'
  BY <1>1 DEF ParamsInv
<1>12. QED
  BY <1>3, <1>6, <1>8, <1>9, <1>10, <1>11 DEF WalkInv, Inv

(* One turn of the worklist: what it adds is in every closed set.           *)
LEMMA PlaceBlockArgumentsKeepsInv ==
  ASSUME Inv, PlaceBlockArguments
  PROVE  Inv'
<1> USE DEF Inv
<1> DEFINE v == Head(infos)
<1>1. PICK b \in worklist :
        /\ phi' = [phi EXCEPT ![v] = @ \cup (dominance.frontier[b] \ phi[v])]
        /\ worklist' = (worklist \ {b}) \cup ((dominance.frontier[b] \ phi[v]) \ DefBlocks(v))
  BY DEF PlaceBlockArguments
<1>2. /\ pc = "place" /\ pc' = "place"
      /\ UNCHANGED <<code, dominance, insts, operand, params, args, infos, promotable, renaming>>
  BY DEF PlaceBlockArguments, function
<1>3. ~Started /\ ~Started'
  BY <1>2 DEF Started
<1>4. CodeInv' /\ BeforeInv' /\ WalkInv'
  BY <1>2, <1>3, StepBefore
<1>5. infos # <<>> /\ infos \in Seq(Var)
  BY <1>2 DEF InfosInv, TypeOK
<1>6. /\ v \in Var /\ v \in ToSet(infos) /\ v \notin ToSet(Tail(infos))
      /\ v \notin ToSet(promotable)
  BY <1>2, <1>5, HeadTail DEF InfosInv
<1>7. b \in Block /\ dominance.frontier[b] \subseteq Block
  BY <1>1, FrontierBlocks DEF TypeOK
<1>8. phi' \in [Var -> SUBSET Block] /\ worklist' \in SUBSET Block
  BY <1>1, <1>6, <1>7 DEF TypeOK
<1>9. TypeOK'
  BY <1>2, <1>8 DEF TypeOK, ValueOrNull, renaming
<1>10. /\ phi'[v] = phi[v] \cup dominance.frontier[b]
       /\ \A u \in Var : u # v => phi'[u] = phi[u]
  BY <1>1, <1>6 DEF TypeOK
<1>11. InfosInv'
  <2>1. Eligible' = Eligible
    BY <1>2, EligibleFrame
  <2>2. QED
    BY <1>2, <1>6, <1>10, <2>1 DEF InfosInv
<1>12. PlacedInv'
  <2>1. ASSUME NEW u \in ToSet(promotable) PROVE CanPromoteWithoutUndef(u)'
    <3>1. u \in Var /\ u # v
      BY <1>6, <2>1 DEF InfosInv, Eligible, Candidates
    <3>2. phi'[u] = phi[u]
      BY <1>10, <3>1
    <3>3. CanPromoteWithoutUndef(u)
      BY <2>1 DEF PlacedInv
    <3>4. /\ \A x, k : HasValue(u, x, k)' <=> HasValue(u, x, k)
          /\ Accesses("load", u)' = Accesses("load", u)
      BY <1>2, <3>2 DEF HasValue, Accesses, Op, VarOf
    <3>5. QED
      BY <1>2, <3>2, <3>3, <3>4 DEF CanPromoteWithoutUndef
  <2>2. QED
    BY <1>2, <2>1 DEF PlacedInv
<1>13. PlacingInv'
  <2>1. /\ worklist \subseteq DefBlocks(v) \cup phi[v]
        /\ Accesses("load", v) # {} =>
             \A x \in (DefBlocks(v) \cup phi[v]) \ worklist : dominance.frontier[x] \subseteq phi[v]
        /\ \A P \in SUBSET Block : ClosedUnderFrontiers(v, P) => phi[v] \subseteq P
    BY <1>2 DEF PlacingInv
  <2>2. worklist' \subseteq DefBlocks(v) \cup phi'[v]
    BY <1>1, <1>10, <2>1
  <2>3. ASSUME Accesses("load", v) # {}, NEW x \in (DefBlocks(v) \cup phi'[v]) \ worklist'
        PROVE  dominance.frontier[x] \subseteq phi'[v]
    BY <1>1, <1>10, <2>1, <2>3
  <2>4. ASSUME NEW P \in SUBSET Block, ClosedUnderFrontiers(v, P)
        PROVE  phi'[v] \subseteq P
    BY <1>1, <1>10, <2>1, <2>4 DEF ClosedUnderFrontiers
  <2>5. v' = v
    BY <1>2
  <2>6. /\ DefBlocks(v)' = DefBlocks(v) /\ Accesses("load", v)' = Accesses("load", v)
        /\ \A P : ClosedUnderFrontiers(v, P)' <=> ClosedUnderFrontiers(v, P)
    BY <1>2, <2>5, EligibleFrame
  <2> HIDE DEF v
  <2>7. /\ worklist' \subseteq DefBlocks(v)' \cup phi'[v']
        /\ Accesses("load", v)' # {} =>
             \A x \in (DefBlocks(v)' \cup phi'[v']) \ worklist' :
               dominance'.frontier[x] \subseteq phi'[v']
        /\ \A P \in SUBSET Block : ClosedUnderFrontiers(v, P)' => phi'[v'] \subseteq P
    BY <1>2, <2>2, <2>3, <2>4, <2>5, <2>6
  <2>8. QED
    BY <2>7 DEF PlacingInv, v
<1>14. ParamsInv'
  BY <1>2 DEF ParamsInv
<1>15. QED
  BY <1>4, <1>9, <1>11, <1>12, <1>13, <1>14 DEF WalkInv, Inv

LEMMA EndPlacingKeepsInv ==
  ASSUME Inv, EndPlacing
  PROVE  Inv'
<1> USE DEF Inv
<1> DEFINE v == Head(infos)
<1>1. /\ pc = "place" /\ pc' = "examine" /\ worklist = {} /\ infos' = Tail(infos)
      /\ promotable' = IF CanPromoteWithoutUndef(v) THEN Append(promotable, v) ELSE promotable
      /\ UNCHANGED <<code, dominance, insts, operand, params, args, worklist, phi, renaming>>
  BY DEF EndPlacing, function
<1>2. ~Started /\ ~Started'
  BY <1>1 DEF Started
<1>3. CodeInv' /\ BeforeInv' /\ WalkInv'
  BY <1>1, <1>2, StepBefore
<1>4. infos # <<>> /\ infos \in Seq(Var) /\ promotable \in Seq(Var) /\ Distinct(infos)
  BY <1>1 DEF InfosInv, TypeOK
<1>5. /\ v \in Var /\ infos' \in Seq(Var) /\ ToSet(infos) = {v} \cup ToSet(infos')
      /\ Distinct(infos') /\ v \notin ToSet(infos')
  BY <1>1, <1>4, HeadTail
<1>6. v \notin ToSet(promotable)
  BY <1>1, <1>5 DEF InfosInv
<1>7. /\ promotable' \in Seq(Var) /\ Distinct(promotable')
      /\ ToSet(promotable') \subseteq ToSet(promotable) \cup {v}
      /\ v \in ToSet(promotable') => CanPromoteWithoutUndef(v)
  <2>1. CASE CanPromoteWithoutUndef(v)
    BY <1>1, <1>4, <1>5, <1>6, <2>1, AppendNew DEF InfosInv
  <2>2. CASE ~CanPromoteWithoutUndef(v)
    BY <1>1, <1>4, <1>6, <2>2 DEF InfosInv
  <2>3. QED
    BY <2>1, <2>2
<1>8. TypeOK'
  BY <1>1, <1>5, <1>7 DEF TypeOK, ValueOrNull, renaming
<1>9. InfosInv'
  <2>1. Eligible' = Eligible
    BY <1>1, EligibleFrame
  <2>2. ToSet(infos) \subseteq Eligible /\ ToSet(promotable) \subseteq Eligible
        /\ ToSet(infos) \cap ToSet(promotable) = {}
    BY <1>1 DEF InfosInv
  <2>3. ToSet(infos') \cap ToSet(promotable') = {}
    BY <1>5, <1>7, <2>2
  <2>4. \A u \in Var : u \in ToSet(infos') => phi'[u] = {}
    BY <1>1 DEF InfosInv
  <2>5. QED
    BY <1>1, <1>5, <1>7, <2>1, <2>2, <2>3, <2>4 DEF InfosInv
<1>10. PlacedInv'
  BY <1>1, <1>7, FrameHasValue DEF PlacedInv
<1>11. PlacingInv' /\ ParamsInv'
  BY <1>1 DEF PlacingInv, ParamsInv
<1>12. QED
  BY <1>3, <1>8, <1>9, <1>10, <1>11 DEF WalkInv, Inv

LEMMA StartCreatingKeepsInv ==
  ASSUME Inv, StartCreating
  PROVE  Inv'
<1> USE DEF Inv
<1>1. /\ pc = "examine" /\ pc' = "create" /\ infos = <<>> /\ infos' = promotable
      /\ UNCHANGED <<code, dominance, insts, operand, params, args, worklist, phi, promotable,
                     renaming>>
  BY DEF StartCreating, function
<1>2. ~Started /\ ~Started'
  BY <1>1 DEF Started
<1>3. CodeInv' /\ BeforeInv' /\ WalkInv'
  BY <1>1, <1>2, StepBefore
<1>4. TypeOK'
  BY <1>1 DEF TypeOK, ValueOrNull, renaming
<1>5. InfosInv'
  <2>1. Eligible' = Eligible
    BY <1>1, EligibleFrame
  <2>2. QED
    BY <1>1, <2>1 DEF InfosInv
<1>6. PlacedInv' /\ PlacingInv'
  BY <1>1, FrameHasValue DEF PlacedInv, PlacingInv
<1>7. ParamsInv'
  <2>1. \A b \in Block : params'[b] = <<>> /\ ToSet(params'[b]) = {}
    BY <1>1, EmptySeqs DEF ParamsInv
  <2>2. ToSet(promotable') \ ToSet(infos') = {}
    BY <1>1
  <2>3. QED
    BY <1>1, <2>1, <2>2 DEF ParamsInv
<1>8. QED
  BY <1>3, <1>4, <1>5, <1>6, <1>7 DEF WalkInv, Inv

LEMMA CreateBlockParamsKeepsInv ==
  ASSUME Inv, CreateBlockParams
  PROVE  Inv'
<1> USE DEF Inv
<1> DEFINE v == Head(infos)
<1>1. /\ pc = "create" /\ pc' = "create" /\ infos # <<>> /\ infos' = Tail(infos)
      /\ params' = [b \in Block |-> IF b \in phi[v] THEN Append(params[b], v) ELSE params[b]]
      /\ UNCHANGED <<code, dominance, insts, operand, args, worklist, phi, promotable, renaming>>
  BY DEF CreateBlockParams
<1>2. ~Started /\ ~Started'
  BY <1>1 DEF Started
<1>3. CodeInv' /\ BeforeInv' /\ WalkInv'
  BY <1>1, <1>2, StepBefore
<1>4. infos \in Seq(Var) /\ Distinct(infos)
  BY DEF InfosInv, TypeOK
<1>5. /\ v \in Var /\ infos' \in Seq(Var) /\ ToSet(infos) = {v} \cup ToSet(infos')
      /\ Distinct(infos') /\ v \notin ToSet(infos')
  BY <1>1, <1>4, HeadTail
<1>6. v \in ToSet(promotable)
  BY <1>1, <1>5 DEF InfosInv
<1>7. ASSUME NEW b \in Block
      PROVE  /\ params'[b] \in Seq(Var)
             /\ ToSet(params'[b]) = {u \in ToSet(promotable) \ ToSet(infos') : b \in phi[u]}
  <2>1. params[b] \in Seq(Var)
    BY DEF TypeOK
  <2>2. ToSet(params[b]) = {u \in ToSet(promotable) \ ToSet(infos) : b \in phi[u]}
    BY <1>1 DEF ParamsInv
  <2>3. CASE b \in phi[v]
    <3>1. params'[b] = Append(params[b], v)
      BY <1>1, <2>3
    <3>2. params'[b] \in Seq(Var) /\ ToSet(params'[b]) = ToSet(params[b]) \cup {v}
      BY <1>5, <2>1, <3>1, AppendNew
    <3>3. QED
      BY <1>5, <1>6, <2>2, <2>3, <3>2
  <2>4. CASE b \notin phi[v]
    <3>1. params'[b] = params[b]
      BY <1>1, <2>4
    <3>2. QED
      BY <1>5, <2>1, <2>2, <2>4, <3>1
  <2>5. QED
    BY <2>3, <2>4
<1>8. params' \in [Block -> Seq(Var)]
  BY <1>1, <1>7
<1>9. TypeOK'
  BY <1>1, <1>5, <1>8 DEF TypeOK, ValueOrNull, renaming
<1>10. InfosInv'
  <2>1. Eligible' = Eligible
    BY <1>1, EligibleFrame
  <2>2. QED
    BY <1>1, <1>5, <2>1 DEF InfosInv
<1>11. PlacedInv' /\ PlacingInv'
  BY <1>1, FrameHasValue DEF PlacedInv, PlacingInv
<1>12. ParamsInv'
  BY <1>1, <1>7 DEF ParamsInv
<1>13. QED
  BY <1>3, <1>9, <1>10, <1>11, <1>12 DEF WalkInv, Inv

-----------------------------------------------------------------------------
(* The end of the examination.                                              *)

LEMMA FrameAccesses ==
  ASSUME UNCHANGED <<code, promotable>>
  PROVE  /\ \A n : AccessesPromoted(n)' <=> AccessesPromoted(n)
         /\ \A b : KeptInsts(b)' = KeptInsts(b)
         /\ \A b : InstsOf(code, b)' = InstsOf(code, b)
         /\ \A n : Op(n)' = Op(n)
BY DEF AccessesPromoted, Promoted, Op, VarOf, KeptInsts

LEMMA InitialOperands ==
  ASSUME TypeOK, CodeInv, BeforeInv, ~Started
  PROVE  \A b \in Reachable(code.succ) : \A n \in insts[b] :
           /\ DefinedAt(operand[n], b, n[2])
           /\ \A m \in Insts(code) : operand[n] = Result(m) => Op(m) \in {"load", "addr", "other"}
<1> SUFFICES ASSUME NEW b \in Reachable(code.succ), NEW n \in insts[b]
             PROVE  /\ DefinedAt(operand[n], b, n[2])
                    /\ \A m \in Insts(code) :
                         operand[n] = Result(m) => Op(m) \in {"load", "addr", "other"}
  OBVIOUS
<1>1. b \in Block
  BY DEF Reachable
<1>2. insts[b] = InstsOf(code, b) /\ n \in Insts(code) /\ n[1] = b
  BY <1>1, InstIn DEF BeforeInv
<1>3. operand[n] = code.body[n[1]][n[2]].val
  BY <1>2 DEF BeforeInv
<1>4. CASE operand[n] \in {NoOperand} \cup {<<"const", c>> : c \in Constant}
  BY <1>4, ValueKinds DEF DefinedAt
<1>5. CASE \E m \in Insts(code) :
             /\ operand[n] = Result(m)
             /\ Op(m) \in {"load", "addr", "other"}
             /\ n[1] \in Reachable(code.succ) => Precedes(code, m, n)
  <2>1. PICK m \in Insts(code) : /\ operand[n] = Result(m)
                                 /\ Op(m) \in {"load", "addr", "other"}
                                 /\ Precedes(code, m, n)
    BY <1>2, <1>5
  <2>2. m[1] \in Block /\ m \in InstsOf(code, m[1])
    BY InstAt
  <2>3. m \in insts[m[1]]
    BY <2>2 DEF BeforeInv
  <2>4. Dominates(code.succ, m[1], b) /\ (m[1] # b \/ m[2] < n[2])
    BY <1>2, <2>1 DEF Precedes, StrictlyDominates, Dominates
  <2>5. m[1] \in dominance.dominators[b]
    BY <1>1, <2>2, <2>4, AnalysisIs DEF Dominators
  <2>6. DefinedAt(operand[n], b, n[2])
    BY <2>1, <2>3, <2>4, <2>5 DEF DefinedAt
  <2>7. QED
    BY <2>1, <2>6, ValueKinds
<1>6. QED
  BY <1>2, <1>3, <1>4, <1>5, OperandBefore

LEMMA FrameDefinedAt ==
  ASSUME UNCHANGED <<dominance, params, insts>>
  PROVE  \A x, b, k : DefinedAt(x, b, k)' <=> DefinedAt(x, b, k)
BY DEF DefinedAt

LEMMA NothingToPromoteKeepsInv ==
  ASSUME Inv, NothingToPromote
  PROVE  Inv'
<1> USE DEF Inv
<1>1. /\ pc = "examine" /\ pc' = "done" /\ infos = <<>> /\ promotable = <<>>
      /\ UNCHANGED <<code, dominance, insts, operand, params, args, infos, worklist, phi,
                     promotable, calls, block, rest, values>>
  BY DEF NothingToPromote, function, examination, renaming
<1>2. ~Started /\ Started'
  BY <1>1 DEF Started
<1>3. TypeOK'
  BY <1>1 DEF TypeOK, ValueOrNull
<1>4. CodeInv' /\ BeforeInv'
  BY <1>1, <1>2 DEF CodeInv, BeforeInv
<1>5. InfosInv'
  <2>1. Eligible' = Eligible
    BY <1>1, EligibleFrame
  <2>2. QED
    BY <1>1, <2>1 DEF InfosInv
<1>6. PlacedInv' /\ PlacingInv'
  BY <1>1, FrameHasValue DEF PlacedInv, PlacingInv
<1>7. ParamsInv'
  <2>1. \A b \in Block : params'[b] = <<>> /\ ToSet(params'[b]) = {}
    BY <1>1, EmptySeqs DEF ParamsInv
  <2>2. ToSet(promotable') \ ToSet(infos') = {}
    BY <1>1, EmptySeqs
  <2>3. QED
    BY <1>1, <2>1, <2>2 DEF ParamsInv
<1>8. calls' = <<>> /\ Len(calls') = 0
  BY <1>1, <1>2 DEF BeforeInv
<1>9. CallsInv' /\ RestInv' /\ ValuesInv' /\ SetInv'
  BY <1>1, <1>8 DEF CallsInv, RestInv, ValuesInv, SetInv
<1>10. ASSUME NEW b \in Block
       PROVE  /\ insts'[b] = InstsOf(code, b) /\ KeptInsts(b)' = InstsOf(code, b)
              /\ ~Running(b)'
  <2>1. insts'[b] = InstsOf(code, b)
    BY <1>1, <1>2 DEF BeforeInv
  <2>2. \A n : ~AccessesPromoted(n)
    BY <1>1, EmptySeqs DEF AccessesPromoted, Promoted
  <2>3. KeptInsts(b)' = KeptInsts(b) /\ KeptInsts(b) = InstsOf(code, b)
    BY <1>1, <2>2, FrameAccesses DEF KeptInsts
  <2>4. QED
    BY <1>1, <2>1, <2>3 DEF Running
<1>11. InstsInv'
  BY <1>1, <1>10 DEF InstsInv
<1>12. ArgsInv'
  <2>1. ASSUME NEW b \in Block, NEW e \in 1 .. Len(args[b])
        PROVE  args[b][e] = <<>> /\ Len(params[code.succ[b][e]]) = 0
    <3>1. code.succ \in [Block -> Seq(Block)] /\ Len(args[b]) = Len(code.succ[b])
      BY GoodCode DEF TypeOK
    <3>2. code.succ[b] \in Seq(Block) /\ e \in 1 .. Len(code.succ[b])
      BY <2>1, <3>1
    <3>3. code.succ[b][e] \in Block
      BY <3>2
    <3>4. args[b][e] = <<>>
      BY <1>2, <3>2 DEF BeforeInv
    <3>5. QED
      BY <1>1, <3>3, <3>4 DEF ParamsInv
  <2>2. QED
    BY <1>1, <2>1 DEF ArgsInv
<1>13. OperandsInv'
  <2>1. \A n : Op(n)' = Op(n)
    BY <1>1, FrameAccesses
  <2>2. \A x, b, k : DefinedAt(x, b, k)' <=> DefinedAt(x, b, k)
    BY <1>1, FrameDefinedAt
  <2>3. QED
    BY <1>1, <1>2, <2>1, <2>2, InitialOperands DEF OperandsInv
<1>14. QED
  BY <1>3, <1>4, <1>5, <1>6, <1>7, <1>9, <1>11, <1>12, <1>13

LEMMA StartRenamingKeepsInv ==
  ASSUME Inv, StartRenaming
  PROVE  Inv'
<1> USE DEF Inv
<1>1. /\ pc = "create" /\ pc' = "call" /\ infos = <<>>
      /\ calls' = << [block |-> Entry, values |-> values] >>
      /\ UNCHANGED <<code, dominance, insts, operand, params, args, infos, worklist, phi,
                     promotable, block, rest, values>>
  BY DEF StartRenaming, function, examination
<1>2. ~Started /\ Started'
  BY <1>1 DEF Started
<1>3. code.succ \in [Block -> Seq(Block)] /\ Entry \in Reachable(code.succ) /\ Entry \in Block
  BY GoodCode, EntryReachable, BlockAssumption DEF BlockAssumption
<1>4. TypeOK'
  <2>1. [block |-> Entry, values |-> values] \in [block : Block, values : [Var -> ValueOrNull]]
    BY <1>3 DEF TypeOK
  <2>2. calls' \in Seq([block : Block, values : [Var -> ValueOrNull]])
    BY <1>1, <2>1
  <2>3. QED
    BY <1>1, <2>2 DEF TypeOK, ValueOrNull
<1>5. CodeInv' /\ BeforeInv'
  BY <1>1, <1>2 DEF CodeInv, BeforeInv
<1>6. InfosInv'
  <2>1. Eligible' = Eligible
    BY <1>1, EligibleFrame
  <2>2. QED
    BY <1>1, <2>1 DEF InfosInv
<1>7. PlacedInv' /\ PlacingInv' /\ ParamsInv'
  BY <1>1, FrameHasValue DEF PlacedInv, PlacingInv, ParamsInv
<1>8. /\ Len(calls') = 1 /\ calls'[1].block = Entry
      /\ \A v \in Var : calls'[1].values[v] = Null
  BY <1>1, <1>2 DEF BeforeInv
<1>9. \A i \in 1 .. Len(calls') : i = 1
  BY <1>8
<1>10. CallsInv' /\ RestInv'
  BY <1>1, <1>3, <1>8, <1>9 DEF CallsInv, RestInv
<1>11. ASSUME NEW b \in Block
       PROVE  Untouched(b)' /\ ~Renamed(b)' /\ ~Running(b)'
  <2>1. Pending(b)'
    <3>1. Dominates(code.succ, Entry, b)
      BY <1>3, EntryDominates
    <3>2. 1 \in 1 .. Len(calls')
      BY <1>8
    <3>3. QED
      BY <1>1, <1>8, <3>1, <3>2 DEF Pending
  <2>2. QED
    BY <1>1, <2>1 DEF Untouched, Renamed, Running
<1>12. InstsInv' /\ ArgsInv'
  <2>1. \A b \in Block : insts[b] = InstsOf(code, b)
    BY <1>2 DEF BeforeInv
  <2>2. \A b \in Block : \A e \in 1 .. Len(args[b]) : args[b][e] = <<>>
    <3>1. \A b \in Block : Len(args[b]) = Len(code.succ[b])
      BY DEF TypeOK
    <3>2. QED
      BY <1>2, <3>1 DEF BeforeInv
  <2>3. QED
    BY <1>1, <1>11, <2>1, <2>2 DEF InstsInv, ArgsInv
<1>13. ValuesInv'
  BY <1>1, <1>8, <1>9 DEF ValuesInv
<1>14. SetInv'
  <2>1. \A v \in ToSet(promotable) : ~SetAbove(v, Entry)'
    <3>1. \A a \in Block : ~StrictlyDominates(code.succ, a, Entry)
      BY <1>3, OnlyEntryDominatesEntry DEF StrictlyDominates
    <3>2. \A v \in Var : phi'[v] \subseteq Block
      BY <1>1 DEF TypeOK
    <3>3. \A v : \A n \in Accesses("store", v)' : n[1] \in Block
      BY <1>1, InstAt DEF Accesses
    <3>4. ToSet(promotable) \subseteq Var
      BY DEF InfosInv, Eligible, Candidates
    <3>5. QED
      BY <1>1, <3>1, <3>2, <3>3, <3>4 DEF SetAbove
  <2>2. QED
    BY <1>1, <1>8, <1>9, <2>1 DEF SetInv
<1>15. OperandsInv'
  <2>1. \A n : Op(n)' = Op(n)
    BY <1>1, FrameAccesses
  <2>2. \A x, b, k : DefinedAt(x, b, k)' <=> DefinedAt(x, b, k)
    BY <1>1, FrameDefinedAt
  <2>3. QED
    BY <1>1, <1>2, <2>1, <2>2, InitialOperands DEF OperandsInv
<1>16. QED
  BY <1>4, <1>5, <1>6, <1>7, <1>10, <1>12, <1>13, <1>14, <1>15

-----------------------------------------------------------------------------
(* The blocks of the walk.                                                  *)

LEMMA RunningBlock ==
  ASSUME CodeInv, CallsInv, pc = "rename"
  PROVE  /\ block \in Block /\ block \in Reachable(code.succ)
         /\ Running(block) /\ ~Pending(block) /\ ~Untouched(block) /\ ~Renamed(block)
<1>1. block \in Reachable(code.succ) /\ block \in Block
  BY DEF CallsInv, Reachable
<1>2. ~Pending(block)
  BY DEF CallsInv, Pending, StrictlyDominates
<1>3. QED
  BY <1>1, <1>2 DEF Running, Untouched, Renamed

LEMMA BlockKinds ==
  ASSUME CodeInv, CallsInv, NEW b \in Block
  PROVE  /\ Untouched(b) \/ Renamed(b) \/ Running(b)
         /\ Running(b) => ~Untouched(b) /\ ~Renamed(b)
         /\ Untouched(b) => ~Renamed(b)
<1>1. Running(b) => ~Untouched(b) /\ ~Renamed(b)
  BY RunningBlock DEF Running
<1>2. QED
  BY <1>1 DEF Untouched, Renamed

(* What is above the running block has been renamed.                        *)
LEMMA AboveRenamed ==
  ASSUME CodeInv, CallsInv, pc = "rename", NEW d \in Block,
         StrictlyDominates(code.succ, d, block)
  PROVE  Renamed(d)
<1> DEFINE g == code.succ
<1>1. g \in [Block -> Seq(Block)] /\ block \in Block /\ block \in Reachable(g)
  BY GoodCode, RunningBlock
<1>2. Dominates(g, d, block) /\ d # block
  BY DEF StrictlyDominates
<1>3. d \in Reachable(g)
  BY <1>1, <1>2, ReachableAbove
<1>4. ASSUME NEW i \in 1 .. Len(calls), Dominates(g, calls[i].block, d) PROVE FALSE
  <2>1. calls[i].block \in Block
    BY <1>4 DEF CallsInv, Reachable
  <2>2. Dominates(g, calls[i].block, block)
    BY <1>1, <1>2, <1>4, <2>1, DominatesTransitive
  <2>3. QED
    BY <1>4, <2>2 DEF CallsInv
<1>5. ~StrictlyDominates(g, block, d)
  BY <1>1, <1>2, <1>3, DominatesAntisymmetric DEF StrictlyDominates
<1>6. QED
  BY <1>2, <1>3, <1>4, <1>5 DEF Renamed, Pending, Running

LEMMA FrameBlocks ==
  ASSUME UNCHANGED <<code, pc, calls, block>>
  PROVE  \A b : /\ Untouched(b)' <=> Untouched(b)
                /\ Renamed(b)' <=> Renamed(b)
                /\ Running(b)' <=> Running(b)
BY DEF Untouched, Renamed, Running, Pending

LEMMA FrameFinal ==
  ASSUME UNCHANGED <<code, params, promotable>>
  PROVE  \A x, b, S : Final(x, b, S)' <=> Final(x, b, S)
BY FrameAccesses DEF Final

LEMMA FinalMore ==
  ASSUME NEW x, NEW b, NEW S, NEW T, Final(x, b, S), S \subseteq T
  PROVE  Final(x, b, T)
BY DEF Final

(* A final value is not the result of an instruction that is erased.         *)
LEMMA FinalStays ==
  ASSUME NEW x, NEW b, NEW S, Final(x, b, S), NEW n, AccessesPromoted(n)
  PROVE  x # Result(n)
BY ValueKinds DEF Final

LEMMA FrameSet ==
  ASSUME UNCHANGED <<code, phi>>
  PROVE  /\ \A v, b : SetAbove(v, b)' <=> SetAbove(v, b)
         /\ \A op, v : Accesses(op, v)' = Accesses(op, v)
BY DEF SetAbove, Accesses, Op, VarOf

LEMMA PromotedAreVars == ASSUME InfosInv PROVE ToSet(promotable) \subseteq Var
BY DEF InfosInv, Eligible, Candidates

-----------------------------------------------------------------------------
(* A step over the next instruction n of the running block: it is erased if  *)
(* it accesses a promoted variable.                                         *)

StepOver(n) ==
  /\ n \in rest /\ IsNext(n)
  /\ rest' = rest \ {n}
  /\ insts' = [insts EXCEPT ![block] = IF AccessesPromoted(n) THEN @ \ {n} ELSE @]
  /\ UNCHANGED <<code, dominance, pc, params, infos, worklist, phi, promotable, calls, block>>

LEMMA NextInst ==
  ASSUME Inv, NEW n, n \in rest, IsNext(n)
  PROVE  /\ n \in InstsOf(code, block) /\ n \in Insts(code) /\ n[1] = block
         /\ n \in insts[block]
         /\ \A m \in InstsOf(code, block) : m \notin rest <=> m[2] < n[2]
<1> USE DEF Inv
<1>1. pc = "rename"
  BY DEF IsNext
<1>2. block \in Block /\ Running(block)
  BY <1>1, RunningBlock
<1>3. n \in InstsOf(code, block)
  BY <1>1 DEF RestInv
<1>4. n \in Insts(code) /\ n[1] = block
  BY <1>2, <1>3, InstIn
<1>5. n \in insts[block]
  BY <1>1, <1>2 DEF InstsInv, Started
<1>6. ASSUME NEW m \in InstsOf(code, block) PROVE m \notin rest <=> m[2] < n[2]
  <2>1. m \in Insts(code)
    BY <1>2, InstIn
  <2>2. m[2] \in Nat /\ n[2] \in Nat
    BY <1>4, <2>1, InstPosition
  <2>3. m \in rest => n[2] <= m[2]
    BY DEF IsNext
  <2>4. n[2] <= m[2] => m \in rest
    BY <1>1 DEF RestInv
  <2>5. QED
    BY <2>2, <2>3, <2>4
<1>7. QED
  BY <1>3, <1>4, <1>5, <1>6

LEMMA StepOverInsts ==
  ASSUME Inv, NEW n, StepOver(n)
  PROVE  /\ CodeInv' /\ BeforeInv' /\ PlaceInv'
         /\ CallsInv' /\ RestInv' /\ InstsInv'
         /\ insts' \in [Block -> SUBSET Insts(code)]
         /\ rest' \in SUBSET Insts(code)
         /\ InstsOf(code, block) \ rest' = (InstsOf(code, block) \ rest) \cup {n}
<1> USE DEF Inv
<1>1. /\ n \in rest /\ IsNext(n) /\ rest' = rest \ {n}
      /\ insts' = [insts EXCEPT ![block] = IF AccessesPromoted(n) THEN @ \ {n} ELSE @]
      /\ UNCHANGED <<code, dominance, pc, params, infos, worklist, phi, promotable, calls, block>>
  BY DEF StepOver
<1>2. pc = "rename" /\ Started /\ Started'
  BY <1>1 DEF IsNext, Started
<1>3. CodeInv' /\ BeforeInv' /\ PlaceInv'
  BY <1>1, <1>2, StepAfter DEF examination
<1>4. block \in Block /\ Running(block) /\ ~Untouched(block) /\ ~Renamed(block)
  BY <1>2, RunningBlock
<1>5. /\ n \in InstsOf(code, block) /\ n[1] = block
      /\ \A m \in InstsOf(code, block) : m \notin rest <=> m[2] < n[2]
  BY <1>1, NextInst
<1>6. CallsInv'
  BY <1>1 DEF CallsInv
<1>7. RestInv'
  <2>1. rest' \subseteq InstsOf(code, block)
    BY <1>1, <1>2 DEF RestInv
  <2>2. ASSUME NEW x \in rest', NEW m \in InstsOf(code, block), x[2] <= m[2]
        PROVE  m \in rest'
    <3>1. x \in rest /\ x # n /\ m \in rest
      BY <1>1, <1>2, <2>2 DEF RestInv
    <3>2. x \in InstsOf(code, block)
      BY <1>1, <2>1
    <3>3. x \in Insts(code) /\ n \in Insts(code) /\ x[1] = n[1]
      BY <1>4, <1>5, <3>2, InstIn
    <3>4. x[2] \in Nat /\ n[2] \in Nat
      BY <3>3, InstPosition
    <3>5. n[2] <= x[2] /\ x[2] # n[2]
      BY <1>1, <3>1, <3>3, SameInst DEF IsNext
    <3>6. m # n
      BY <2>2, <3>4, <3>5
    <3>7. QED
      BY <1>1, <3>1, <3>6
  <2>3. QED
    BY <1>1, <2>1, <2>2, FrameAccesses DEF RestInv
<1>8. insts' \in [Block -> SUBSET Insts(code)] /\ rest' \in SUBSET Insts(code)
  BY <1>1, <1>4 DEF TypeOK
<1>9. \A b \in Block : b # block => insts'[b] = insts[b]
  BY <1>1, <1>4 DEF TypeOK
<1>10. insts'[block] = KeptInsts(block) \cup rest'
  <2>1. insts[block] = KeptInsts(block) \cup rest
    BY <1>2, <1>4 DEF InstsInv
  <2>2. insts'[block] = IF AccessesPromoted(n) THEN insts[block] \ {n} ELSE insts[block]
    BY <1>1, <1>4 DEF TypeOK
  <2>3. n \in KeptInsts(block) <=> ~AccessesPromoted(n)
    BY <1>5 DEF KeptInsts
  <2>4. QED
    BY <1>1, <2>1, <2>2, <2>3
<1>11. InstsInv'
  <2>1. ASSUME NEW b \in Block
        PROVE  /\ Untouched(b) => insts'[b] = InstsOf(code, b)
               /\ Renamed(b) => insts'[b] = KeptInsts(b)
               /\ Running(b) => insts'[b] = KeptInsts(b) \cup rest'
    <3>1. CASE b = block
      BY <1>4, <1>10, <3>1
    <3>2. CASE b # block
      BY <1>2, <1>9, <3>2 DEF InstsInv, Running
    <3>3. QED
      BY <3>1, <3>2
  <2>2. \A b : /\ Untouched(b)' <=> Untouched(b)
               /\ Renamed(b)' <=> Renamed(b)
               /\ Running(b)' <=> Running(b)
    BY <1>1, FrameBlocks
  <2>3. \A b : KeptInsts(b)' = KeptInsts(b) /\ InstsOf(code, b)' = InstsOf(code, b)
    BY <1>1, FrameAccesses
  <2>4. QED
    BY <2>1, <2>2, <2>3 DEF InstsInv
<1>12. InstsOf(code, block) \ rest' = (InstsOf(code, block) \ rest) \cup {n}
  BY <1>1, <1>5
<1>13. QED
  BY <1>3, <1>6, <1>7, <1>8, <1>11, <1>12

LEMMA InstsBounds ==
  ASSUME Inv, Started, NEW b \in Block
  PROVE  KeptInsts(b) \subseteq insts[b] /\ insts[b] \subseteq InstsOf(code, b)
<1> USE DEF Inv
<1>1. KeptInsts(b) \subseteq InstsOf(code, b)
  BY DEF KeptInsts
<1>2. Untouched(b) \/ Renamed(b) \/ Running(b)
  BY BlockKinds
<1>3. Running(b) => rest \subseteq InstsOf(code, b)
  BY DEF Running, RestInv
<1>4. QED
  BY <1>1, <1>2, <1>3 DEF InstsInv

(* The operand of the next instruction is final: whatever it was loaded from *)
(* has been replaced.                                                       *)
LEMMA NextOperandFinal ==
  ASSUME Inv, NEW n, n \in rest, IsNext(n)
  PROVE  /\ operand[n] \in Values(code) /\ operand[n] # Null
         /\ Final(operand[n], block, InstsOf(code, block) \ rest)
<1> USE DEF Inv
<1>1. pc = "rename" /\ Started
  BY DEF IsNext, Started
<1>2. block \in Block /\ block \in Reachable(code.succ) /\ Running(block)
  BY <1>1, RunningBlock
<1>3. /\ n \in InstsOf(code, block) /\ n \in Insts(code) /\ n \in insts[block]
      /\ \A m \in InstsOf(code, block) : m \notin rest <=> m[2] < n[2]
  BY NextInst
<1>4. DefinedAt(operand[n], block, n[2])
  BY <1>1, <1>2, <1>3 DEF OperandsInv
<1>5. operand[n] \in Values(code) /\ operand[n] # Null
  BY <1>3, GoodCode DEF TypeOK
<1>6. \A d \in dominance.dominators[block] : d \in Block /\ Dominates(code.succ, d, block)
  BY <1>2, AnalysisIs DEF Dominators
<1>7. ASSUME NEW d \in dominance.dominators[block], NEW m \in insts[d],
             operand[n] = Result(m), d # block \/ m[2] < n[2]
      PROVE  Final(operand[n], block, InstsOf(code, block) \ rest)
  <2>1. m \in InstsOf(code, d) /\ m \in Insts(code) /\ m[1] = d
    BY <1>1, <1>6, <1>7, InstsBounds, InstIn
  <2>2. Op(m) \in {"load", "addr", "other"}
    BY <1>1, <1>2, <1>3, <1>7, <2>1 DEF OperandsInv
  <2>3. CASE d # block
    <3>1. StrictlyDominates(code.succ, d, block)
      BY <1>6, <1>7, <2>3 DEF StrictlyDominates
    <3>2. insts[d] = KeptInsts(d)
      BY <1>1, <1>6, <3>1, AboveRenamed DEF InstsInv
    <3>3. ~AccessesPromoted(m)
      BY <1>7, <3>2 DEF KeptInsts
    <3>4. QED
      BY <1>7, <2>1, <2>2, <3>1, <3>3 DEF Final
  <2>4. CASE d = block
    <3>1. m \notin rest
      BY <1>3, <1>7, <2>1, <2>4
    <3>2. m \in KeptInsts(block)
      BY <1>1, <1>2, <1>7, <2>4, <3>1 DEF InstsInv
    <3>3. QED
      BY <1>7, <2>1, <2>2, <2>4, <3>1, <3>2 DEF Final, KeptInsts
  <2>5. QED
    BY <2>3, <2>4
<1>8. QED
  BY <1>4, <1>5, <1>6, <1>7 DEF DefinedAt, Final

LEMMA DefinedSurvives ==
  ASSUME Inv, NEW n, StepOver(n), NEW b \in Block, NEW x, NEW k, DefinedAt(x, b, k),
         AccessesPromoted(n) => x # Result(n)
  PROVE  DefinedAt(x, b, k)'
<1> USE DEF Inv
<1>1. block \in Block
  BY RunningBlock DEF StepOver, IsNext
<1>2. \A d \in dominance.dominators[b] : d \in Block
  BY AnalysisIs DEF Dominators
<1>3. ASSUME NEW d \in dominance.dominators[b], NEW m \in insts[d], x = Result(m)
      PROVE  m \in insts'[d]
  BY <1>1, <1>2, <1>3 DEF StepOver, TypeOK
<1>4. UNCHANGED <<dominance, params>>
  BY DEF StepOver
<1>5. QED
  BY <1>3, <1>4 DEF DefinedAt

(* A final value is defined at every use further down.                      *)
LEMMA FinalIsDefined ==
  ASSUME Inv, NEW n, StepOver(n), AccessesPromoted(n), NEW x,
         Final(x, block, InstsOf(code, block) \ rest),
         NEW b \in Reachable(code.succ), NEW k, Dominates(code.succ, block, b),
         block = b => n[2] < k /\ k \in Nat
  PROVE  DefinedAt(x, b, k)'
<1> USE DEF Inv
<1> DEFINE g == code.succ
<1>1. pc = "rename" /\ Started
  BY DEF StepOver, IsNext, Started
<1>2. b \in Block /\ block \in Block /\ g \in [Block -> Seq(Block)]
  BY <1>1, RunningBlock, GoodCode DEF Reachable
<1>3. /\ \A m \in InstsOf(code, block) : m \notin rest <=> m[2] < n[2]
      /\ n \in Insts(code)
  BY NextInst DEF StepOver
<1>4. \A d \in Block : Dominates(g, d, block) => d \in dominance'.dominators[b]
  <2>1. ASSUME NEW d \in Block, Dominates(g, d, block) PROVE Dominates(g, d, b)
    BY <1>2, <2>1, DominatesTransitive
  <2>2. dominance' = dominance
    BY DEF StepOver
  <2>3. QED
    BY <1>2, <2>1, <2>2, AnalysisIs DEF Dominators
<1>5. params' = params
  BY DEF StepOver
<1>6. CASE \E m \in Insts(code) : /\ x = Result(m)
                                  /\ ~AccessesPromoted(m)
                                  /\ \/ StrictlyDominates(g, m[1], block)
                                     \/ m \in InstsOf(code, block) \ rest
  <2>1. PICK m \in Insts(code) : /\ x = Result(m)
                                 /\ ~AccessesPromoted(m)
                                 /\ \/ StrictlyDominates(g, m[1], block)
                                    \/ m \in InstsOf(code, block) \ rest
    BY <1>6
  <2>2. m[1] \in Block /\ m \in InstsOf(code, m[1])
    BY InstAt
  <2>3. m \in insts[m[1]]
    BY <1>1, <2>1, <2>2, InstsBounds DEF KeptInsts
  <2>4. m # n
    BY <2>1
  <2>5. m \in insts'[m[1]]
    BY <1>2, <2>2, <2>3, <2>4 DEF StepOver, TypeOK
  <2>6. CASE StrictlyDominates(g, m[1], block)
    <3>1. m[1] # b
      <4> SUFFICES ASSUME m[1] = b PROVE FALSE
        OBVIOUS
      <4>1. block \in Reachable(g)
        BY <1>1, RunningBlock
      <4>2. StrictlyDominates(g, block, block)
        BY <1>2, <2>6, <4>1, StrictTransitive
      <4>3. QED
        BY <4>2 DEF StrictlyDominates
    <3>2. m[1] \in dominance'.dominators[b]
      BY <1>4, <2>2, <2>6 DEF StrictlyDominates
    <3>3. QED
      BY <2>1, <2>5, <3>1, <3>2 DEF DefinedAt
  <2>7. CASE m \in InstsOf(code, block) \ rest
    <3>1. m[1] = block /\ m[2] < n[2]
      BY <1>2, <1>3, <2>7, InstIn
    <3>2. block \in dominance'.dominators[b]
      BY <1>2, <1>4 DEF Dominates
    <3>3. block = b => m[2] < k
      <4>1. m[2] \in Nat /\ n[2] \in Nat
        BY <1>3, InstPosition
      <4>2. QED
        BY <3>1, <4>1
    <3>4. QED
      BY <2>1, <2>5, <3>1, <3>2, <3>3 DEF DefinedAt
  <2>8. QED
    BY <2>1, <2>6, <2>7
<1>7. CASE \E d \in Block : Dominates(g, d, block) /\ \E v \in ToSet(params[d]) : x = Param(d, v)
  BY <1>4, <1>5, <1>7 DEF DefinedAt
<1>8. CASE x \in {NoOperand} \cup {<<"const", c>> : c \in Constant}
  BY <1>8 DEF DefinedAt
<1>9. QED
  BY <1>6, <1>7, <1>8 DEF Final

LEMMA StepOverArgs ==
  ASSUME Inv, NEW n, StepOver(n), args' = args
  PROVE  ArgsInv'
<1> USE DEF Inv
<1>1. UNCHANGED <<code, pc, calls, block, params, promotable>>
  BY DEF StepOver
<1>2. Started /\ Started'
  BY <1>1 DEF StepOver, IsNext, Started
<1>3. \A b : /\ Untouched(b)' <=> Untouched(b)
             /\ Renamed(b)' <=> Renamed(b)
             /\ Running(b)' <=> Running(b)
  BY <1>1, FrameBlocks
<1>4. \A x, b, S : Final(x, b, S)' <=> Final(x, b, S)
  BY <1>1, FrameFinal
<1>5. QED
  BY <1>1, <1>2, <1>3, <1>4 DEF ArgsInv

LEMMA StepOverValues ==
  ASSUME Inv, NEW n, StepOver(n),
         \A v \in Var : values'[v] # Null =>
           Final(values'[v], block, InstsOf(code, block) \ rest)
  PROVE  ValuesInv'
<1> USE DEF Inv
<1>1. UNCHANGED <<code, pc, calls, block, params, promotable>>
  BY DEF StepOver
<1>2. \A x, b, S : Final(x, b, S)' <=> Final(x, b, S)
  BY <1>1, FrameFinal
<1>3. InstsOf(code, block) \ rest \subseteq InstsOf(code, block) \ rest'
  BY DEF StepOver
<1>4. \A v \in Var : values'[v] # Null =>
        Final(values'[v], block, InstsOf(code, block) \ rest')
  BY <1>3, FinalMore
<1>5. InstsOf(code, block)' = InstsOf(code, block)
  BY <1>1
<1>6. QED
  BY <1>1, <1>2, <1>4, <1>5 DEF ValuesInv

LEMMA StepOverSet ==
  ASSUME Inv, NEW n, StepOver(n),
         \A v \in Var : values[v] # Null => values'[v] # Null,
         \A v \in ToSet(promotable) : n \in Accesses("store", v) => values'[v] # Null
  PROVE  SetInv'
<1> USE DEF Inv
<1>1. UNCHANGED <<code, pc, calls, block, phi, promotable>> /\ rest' = rest \ {n}
  BY DEF StepOver
<1>2. pc = "rename"
  BY DEF StepOver, IsNext
<1>3. /\ \A v, b : SetAbove(v, b)' <=> SetAbove(v, b)
      /\ \A op, v : Accesses(op, v)' = Accesses(op, v)
  BY <1>1, FrameSet
<1>4. ToSet(promotable) \subseteq Var
  BY PromotedAreVars
<1>5. ASSUME NEW v \in ToSet(promotable), values'[v] = Null
      PROVE  /\ ~SetAbove(v, block)
             /\ block \notin phi[v]
             /\ \A m \in Accesses("store", v) : m[1] = block => m \in rest'
  <2>1. values[v] = Null
    BY <1>4, <1>5
  <2>2. /\ ~SetAbove(v, block)
        /\ block \notin phi[v]
        /\ \A m \in Accesses("store", v) : m[1] = block => m \in rest
    BY <1>2, <1>5, <2>1 DEF SetInv
  <2>3. QED
    BY <1>1, <1>5, <2>2
<1>6. QED
  BY <1>1, <1>3, <1>5 DEF SetInv

LEMMA StepOverOperands ==
  ASSUME Inv, NEW n, StepOver(n), operand' = operand,
         AccessesPromoted(n) => Op(n) \notin {"load", "addr", "other"}
  PROVE  OperandsInv'
<1> USE DEF Inv
<1>1. UNCHANGED <<code, dominance, pc>>
  BY DEF StepOver
<1>2. Started /\ n \in Insts(code)
  BY NextInst DEF StepOver, IsNext, Started
<1>3. \A m : Op(m)' = Op(m)
  BY <1>1 DEF Op
<1>4. ASSUME NEW b \in Reachable(code.succ), NEW m \in insts'[b]
      PROVE  /\ DefinedAt(operand[m], b, m[2])'
             /\ \A x \in Insts(code) :
                  operand[m] = Result(x) => Op(x) \in {"load", "addr", "other"}
  <2>1. b \in Block
    BY DEF Reachable
  <2>2. m \in insts[b]
    <3>1. block \in Block
      BY RunningBlock DEF StepOver, IsNext
    <3>2. QED
      BY <1>4, <2>1, <3>1 DEF StepOver, TypeOK
  <2>3. /\ DefinedAt(operand[m], b, m[2])
        /\ \A x \in Insts(code) : operand[m] = Result(x) => Op(x) \in {"load", "addr", "other"}
    BY <1>2, <2>2 DEF OperandsInv
  <2>4. AccessesPromoted(n) => operand[m] # Result(n)
    BY <1>2, <2>3
  <2>5. \A y, k : DefinedAt(y, b, k) /\ (AccessesPromoted(n) => y # Result(n))
                    => DefinedAt(y, b, k)'
    BY <2>1, DefinedSurvives
  <2>6. DefinedAt(operand[m], b, m[2])'
    BY <2>3, <2>4, <2>5
  <2>7. QED
    BY <2>3, <2>6
<1>5. QED
  BY <1>1, <1>3, <1>4 DEF OperandsInv

-----------------------------------------------------------------------------
(* The steps of the loop of rename_block.                                   *)

LEMMA RenameAllocKeepsInv ==
  ASSUME Inv, RenameAlloc
  PROVE  Inv'
<1> USE DEF Inv
<1>1. PICK n \in rest : /\ IsNext(n) /\ AccessesPromoted(n) /\ Op(n) = "alloc"
                        /\ EraseInstruction(n)
  BY DEF RenameAlloc
<1>2. UNCHANGED <<operand, args, values>> /\ StepOver(n)
  BY <1>1 DEF RenameAlloc, EraseInstruction, StepOver, examination
<1>3. pc = "rename"
  BY <1>1 DEF IsNext
<1>4. /\ CodeInv' /\ BeforeInv' /\ PlaceInv' /\ CallsInv' /\ RestInv' /\ InstsInv'
      /\ insts' \in [Block -> SUBSET Insts(code)] /\ rest' \in SUBSET Insts(code)
  BY <1>2, StepOverInsts
<1>5. TypeOK'
  BY <1>2, <1>4 DEF TypeOK, ValueOrNull, StepOver
<1>6. ValuesInv'
  BY <1>2, <1>3, StepOverValues DEF ValuesInv
<1>7. SetInv'
  <2>1. \A v : n \notin Accesses("store", v)
    BY <1>1 DEF Accesses
  <2>2. QED
    BY <1>2, <2>1, StepOverSet
<1>8. ArgsInv' /\ OperandsInv'
  BY <1>1, <1>2, StepOverArgs, StepOverOperands
<1>9. QED
  BY <1>4, <1>5, <1>6, <1>7, <1>8 DEF PlaceInv

LEMMA KeepInstructionKeepsInv ==
  ASSUME Inv, KeepInstruction
  PROVE  Inv'
<1> USE DEF Inv
<1>1. PICK n \in rest : IsNext(n) /\ ~AccessesPromoted(n) /\ rest' = rest \ {n}
  BY DEF KeepInstruction
<1>2. pc = "rename" /\ block \in Block
  BY <1>1, RunningBlock DEF IsNext
<1>3. UNCHANGED <<operand, args, values>> /\ StepOver(n)
  <2>1. insts' = insts /\ insts \in [Block -> SUBSET Insts(code)]
    BY DEF KeepInstruction, function, TypeOK
  <2>2. insts' = [insts EXCEPT ![block] = IF AccessesPromoted(n) THEN @ \ {n} ELSE @]
    BY <1>1, <1>2, <2>1
  <2>3. QED
    BY <1>1, <2>2 DEF KeepInstruction, StepOver, examination, function
<1>4. /\ CodeInv' /\ BeforeInv' /\ PlaceInv' /\ CallsInv' /\ RestInv' /\ InstsInv'
      /\ insts' \in [Block -> SUBSET Insts(code)] /\ rest' \in SUBSET Insts(code)
  BY <1>3, StepOverInsts
<1>5. TypeOK'
  BY <1>3, <1>4 DEF TypeOK, ValueOrNull, StepOver
<1>6. ValuesInv'
  BY <1>2, <1>3, StepOverValues DEF ValuesInv
<1>7. SetInv'
  <2>1. \A v \in ToSet(promotable) : n \notin Accesses("store", v)
    BY <1>1 DEF Accesses, AccessesPromoted, Promoted
  <2>2. QED
    BY <1>3, <2>1, StepOverSet
<1>8. ArgsInv' /\ OperandsInv'
  BY <1>1, <1>3, StepOverArgs, StepOverOperands
<1>9. QED
  BY <1>4, <1>5, <1>6, <1>7, <1>8 DEF PlaceInv

LEMMA RenameStoreKeepsInv ==
  ASSUME Inv, RenameStore
  PROVE  Inv'
<1> USE DEF Inv
<1>1. PICK n \in rest : /\ IsNext(n) /\ AccessesPromoted(n) /\ Op(n) = "store"
                        /\ values' = [values EXCEPT ![VarOf(n)] = operand[n]]
                        /\ EraseInstruction(n)
  BY DEF RenameStore
<1>2. UNCHANGED <<operand, args>> /\ StepOver(n)
  BY <1>1 DEF RenameStore, EraseInstruction, StepOver, examination
<1>3. pc = "rename"
  BY <1>1 DEF IsNext
<1>4. /\ CodeInv' /\ BeforeInv' /\ PlaceInv' /\ CallsInv' /\ RestInv' /\ InstsInv'
      /\ insts' \in [Block -> SUBSET Insts(code)] /\ rest' \in SUBSET Insts(code)
  BY <1>2, StepOverInsts
<1>5. VarOf(n) \in Var
  BY <1>1, PromotedAreVars DEF AccessesPromoted, Promoted
<1>6. /\ operand[n] \in Values(code) /\ operand[n] # Null
      /\ Final(operand[n], block, InstsOf(code, block) \ rest)
  BY <1>1, NextOperandFinal
<1>7. /\ values'[VarOf(n)] = operand[n]
      /\ \A v \in Var : v # VarOf(n) => values'[v] = values[v]
      /\ values' \in [Var -> ValueOrNull]
  BY <1>1, <1>5, <1>6 DEF TypeOK, ValueOrNull
<1>8. TypeOK'
  BY <1>2, <1>4, <1>7 DEF TypeOK, ValueOrNull, StepOver
<1>9. ValuesInv'
  <2>1. ASSUME NEW v \in Var, values'[v] # Null
        PROVE  Final(values'[v], block, InstsOf(code, block) \ rest)
    <3>1. CASE v = VarOf(n)
      BY <1>6, <1>7, <3>1
    <3>2. CASE v # VarOf(n)
      BY <1>3, <1>7, <2>1, <3>2 DEF ValuesInv
    <3>3. QED
      BY <3>1, <3>2
  <2>2. QED
    BY <1>2, <2>1, StepOverValues
<1>10. SetInv'
  <2>1. \A v \in ToSet(promotable) : n \in Accesses("store", v) => values'[v] # Null
    BY <1>6, <1>7 DEF Accesses
  <2>2. \A v \in Var : values[v] # Null => values'[v] # Null
    BY <1>6, <1>7
  <2>3. QED
    BY <1>2, <2>1, <2>2, StepOverSet
<1>11. ArgsInv' /\ OperandsInv'
  BY <1>1, <1>2, StepOverArgs, StepOverOperands
<1>12. QED
  BY <1>4, <1>8, <1>9, <1>10, <1>11 DEF PlaceInv

(* can_promote_without_undef did its work: a load that is reached has a      *)
(* value.                                                                   *)
LEMMA ValueOfLoad ==
  ASSUME Inv, NEW n, n \in rest, IsNext(n), AccessesPromoted(n), Op(n) = "load"
  PROVE  /\ VarOf(n) \in Var /\ values[VarOf(n)] \in Values(code)
         /\ Final(values[VarOf(n)], block, InstsOf(code, block) \ rest)
<1> USE DEF Inv
<1> DEFINE v == VarOf(n)
<1>1. pc = "rename"
  BY DEF IsNext
<1>2. block \in Block
  BY <1>1, RunningBlock
<1>3. /\ n \in Insts(code) /\ n[1] = block
      /\ \A m \in InstsOf(code, block) : m \notin rest <=> m[2] < n[2]
  BY NextInst
<1>4. v \in ToSet(promotable) /\ v \in Var
  BY PromotedAreVars DEF AccessesPromoted, Promoted
<1>5. HasValue(v, block, n[2])
  BY <1>3, <1>4 DEF PlacedInv, CanPromoteWithoutUndef, Accesses
<1>6. \A d \in Block : d \in dominance.dominators[block] <=> Dominates(code.succ, d, block)
  BY <1>2, AnalysisIs DEF Dominators
<1>7. phi[v] \subseteq Block
  BY <1>4 DEF TypeOK
<1>8. \/ SetAbove(v, block)
      \/ block \in phi[v]
      \/ \E m \in Accesses("store", v) : m[1] = block /\ m \notin rest
  <2>1. CASE \E a \in dominance.dominators[block] : a \in phi[v]
    BY <1>6, <1>7, <2>1 DEF SetAbove, StrictlyDominates
  <2>2. CASE \E m \in Accesses("store", v) : m[1] # block /\ m[1] \in dominance.dominators[block]
    <3>1. \A m \in Accesses("store", v) : m[1] \in Block
      BY InstAt DEF Accesses
    <3>2. QED
      BY <1>6, <2>2, <3>1 DEF SetAbove, StrictlyDominates
  <2>3. CASE \E m \in Accesses("store", v) : m[1] = block /\ m[2] < n[2]
    <3>1. \A m \in Accesses("store", v) : m[1] = block => m \in InstsOf(code, block)
      BY InstAt DEF Accesses
    <3>2. QED
      BY <1>3, <2>3, <3>1
  <2>4. QED
    BY <1>5, <2>1, <2>2, <2>3 DEF HasValue
<1>9. values[v] # Null
  BY <1>1, <1>4, <1>8 DEF SetInv
<1>10. values[v] \in Values(code)
  BY <1>4, <1>9 DEF TypeOK, ValueOrNull
<1>11. QED
  BY <1>1, <1>4, <1>9, <1>10 DEF ValuesInv

LEMMA ArgsAreFinal ==
  ASSUME Inv, Started, NEW b \in Block, NEW e \in 1 .. Len(args[b]), NEW m \in 1 .. Len(args[b][e])
  PROVE  b \in Reachable(code.succ) /\ Final(args[b][e][m], b, InstsOf(code, b))
<1> USE DEF Inv
<1>1. CASE Untouched(b) \/ Running(b)
  <2>1. args[b][e] = <<>>
    BY <1>1 DEF ArgsInv
  <2>2. QED
    BY <2>1
<1>2. CASE Renamed(b)
  BY <1>2 DEF ArgsInv, Renamed
<1>3. QED
  BY <1>1, <1>2, BlockKinds

(* The arguments passed so far are final: no replacement touches them.       *)
LEMMA LoadKeepsArgs ==
  ASSUME Inv, Started, NEW n, AccessesPromoted(n), NEW w, ReplaceAllUses(Result(n), w)
  PROVE  args' = args
<1> USE DEF Inv
<1> DEFINE Repl(x) == IF x = Result(n) THEN w ELSE x
<1>1. args \in [Block -> Seq(Seq(Values(code)))]
  BY DEF TypeOK
<1> DEFINE Row(b, e) == [m \in DOMAIN args[b][e] |-> Repl(args[b][e][m])]
<1>2. ASSUME NEW b \in Block, NEW e \in DOMAIN args[b]
      PROVE  Row(b, e) = args[b][e]
  <2>1. args[b] \in Seq(Seq(Values(code))) /\ e \in 1 .. Len(args[b])
    BY <1>1
  <2>2. args[b][e] \in Seq(Values(code))
    BY <2>1
  <2>3. ASSUME NEW m \in DOMAIN args[b][e] PROVE args[b][e][m] # Result(n)
    <3>1. m \in 1 .. Len(args[b][e])
      BY <2>2
    <3>2. Final(args[b][e][m], b, InstsOf(code, b))
      BY <2>1, <3>1, ArgsAreFinal
    <3>3. QED
      BY <3>2, FinalStays
  <2>4. \A m \in DOMAIN args[b][e] : Repl(args[b][e][m]) = args[b][e][m]
    BY <2>3
  <2> HIDE DEF Repl
  <2>5. QED
    BY <2>2, <2>4
<1>3. args' = [b \in Block |-> [e \in DOMAIN args[b] |-> Row(b, e)]]
  BY DEF ReplaceAllUses
<1> HIDE DEF Row
<1>4. ASSUME NEW b \in Block PROVE [e \in DOMAIN args[b] |-> Row(b, e)] = args[b]
  <2>1. args[b] \in Seq(Seq(Values(code)))
    BY <1>1
  <2>2. QED
    BY <1>2, <2>1
<1>5. QED
  BY <1>1, <1>3, <1>4

LEMMA RenameLoadKeepsInv ==
  ASSUME Inv, RenameLoad
  PROVE  Inv'
<1> USE DEF Inv
<1>1. PICK n \in rest : /\ IsNext(n) /\ AccessesPromoted(n) /\ Op(n) = "load"
                        /\ ReplaceAllUses(Result(n), values[VarOf(n)])
                        /\ EraseInstruction(n)
  BY DEF RenameLoad
<1> DEFINE w == values[VarOf(n)]
           Repl(x) == IF x = Result(n) THEN w ELSE x
<1>2. /\ operand' = [x \in Insts(code) |-> Repl(operand[x])]
      /\ args' = [b \in Block |-> [e \in DOMAIN args[b] |->
                    [m \in DOMAIN args[b][e] |-> Repl(args[b][e][m])]]]
  BY <1>1 DEF ReplaceAllUses
<1>3. UNCHANGED values /\ StepOver(n)
  BY <1>1 DEF RenameLoad, EraseInstruction, StepOver, examination
<1>4. pc = "rename" /\ Started
  BY <1>1 DEF IsNext, Started
<1>5. /\ CodeInv' /\ BeforeInv' /\ PlaceInv' /\ CallsInv' /\ RestInv' /\ InstsInv'
      /\ insts' \in [Block -> SUBSET Insts(code)] /\ rest' \in SUBSET Insts(code)
  BY <1>3, StepOverInsts
<1>6. w \in Values(code) /\ Final(w, block, InstsOf(code, block) \ rest)
  BY <1>1, ValueOfLoad
<1>7. args' = args
  BY <1>1, <1>4, LoadKeepsArgs
<1>8. operand' \in [Insts(code) -> Values(code)]
  <2>1. \A x \in Insts(code) : Repl(operand[x]) \in Values(code)
    BY <1>6 DEF TypeOK
  <2>2. QED
    BY <1>2, <2>1
<1>9. TypeOK'
  BY <1>3, <1>5, <1>7, <1>8 DEF TypeOK, ValueOrNull, StepOver
<1>10. ValuesInv'
  BY <1>3, <1>4, StepOverValues DEF ValuesInv
<1>11. SetInv'
  <2>1. \A v : n \notin Accesses("store", v)
    BY <1>1 DEF Accesses
  <2>2. QED
    BY <1>3, <2>1, StepOverSet
<1>12. ArgsInv'
  BY <1>3, <1>7, StepOverArgs
<1>13. OperandsInv'
  <2>1. UNCHANGED <<code, dominance, pc>>
    BY <1>3 DEF StepOver
  <2>2. \A m : Op(m)' = Op(m)
    BY <2>1 DEF Op
  <2>3. n \in Insts(code) /\ n[1] = block /\ block \in Block /\ block \in Reachable(code.succ)
    BY <1>1, <1>4, NextInst, RunningBlock
  <2>4. ASSUME NEW b \in Reachable(code.succ), NEW m \in insts'[b]
        PROVE  /\ DefinedAt(operand[m], b, m[2])'
               /\ \A x \in Insts(code) :
                    operand'[m] = Result(x) => Op(x) \in {"load", "addr", "other"}
    <3>1. b \in Block
      BY DEF Reachable
    <3>2. m \in insts[b]
      BY <1>3, <2>3, <2>4, <3>1 DEF StepOver, TypeOK
    <3>3. m \in Insts(code) /\ m[1] = b /\ m[2] \in Nat
      BY <1>4, <3>1, <3>2, InstsBounds, InstIn, InstPosition
    <3>4. /\ DefinedAt(operand[m], b, m[2])
          /\ \A x \in Insts(code) : operand[m] = Result(x) => Op(x) \in {"load", "addr", "other"}
      BY <1>4, <3>2 DEF OperandsInv
    <3>5. CASE operand[m] # Result(n)
      <4>1. operand'[m] = operand[m]
        BY <1>2, <3>3, <3>5
      <4>2. \A y, k : DefinedAt(y, b, k) /\ y # Result(n) => DefinedAt(y, b, k)'
        BY <1>3, <3>1, DefinedSurvives
      <4>3. DefinedAt(operand[m], b, m[2])'
        BY <3>4, <3>5, <4>1, <4>2
      <4>4. QED
        BY <3>4, <4>1, <4>3
    <3>6. CASE operand[m] = Result(n)
      <4>1. operand'[m] = w
        BY <1>2, <3>3, <3>6
      <4>2. Dominates(code.succ, block, b) /\ (block = b => n[2] < m[2])
        <5>1. PICK d \in dominance.dominators[b] :
                \E x \in insts[d] : Result(n) = Result(x) /\ (d # b \/ x[2] < m[2])
          BY <3>4, <3>6, ValueKinds DEF DefinedAt
        <5>2. n \in insts[d] /\ (d # b \/ n[2] < m[2])
          BY <5>1, ValueKinds
        <5>3. d \in Block /\ Dominates(code.succ, d, b)
          BY <3>1, AnalysisIs DEF Dominators
        <5>4. d = n[1]
          BY <1>4, <5>2, <5>3, InstsBounds, InstIn
        <5>5. QED
          BY <2>3, <5>2, <5>3, <5>4
      <4>3. \A y, k : /\ Final(y, block, InstsOf(code, block) \ rest)
                      /\ block = b => n[2] < k /\ k \in Nat
                      => DefinedAt(y, b, k)'
        BY <1>1, <1>3, <4>2, FinalIsDefined
      <4>4. DefinedAt(operand[m], b, m[2])'
        BY <1>6, <3>3, <4>1, <4>2, <4>3
      <4>5. ASSUME NEW x \in Insts(code), w = Result(x)
            PROVE  Op(x) \in {"load", "addr", "other"}
        BY <1>6, <4>5, ValueKinds DEF Final
      <4>6. QED
        BY <4>1, <4>4, <4>5
    <3>7. QED
      BY <3>5, <3>6
  <2>5. QED
    BY <2>1, <2>2, <2>4 DEF OperandsInv
<1>14. QED
  BY <1>5, <1>9, <1>10, <1>11, <1>12, <1>13 DEF PlaceInv

-----------------------------------------------------------------------------
(* rename_block takes up the next block: the innermost call starts.          *)

LEMMA ElementOf ==
  ASSUME NEW S, NEW s \in Seq(S), NEW i \in 1 .. Len(s)
  PROVE  s[i] \in S
OBVIOUS

LEMMA EnterBlockFacts ==
  ASSUME Inv, EnterBlock
  PROVE  /\ pc = "call" /\ pc' = "rename" /\ Started /\ Started'
         /\ 1 \in 1 .. Len(calls) /\ block' = calls[1].block
         /\ \A i \in 1 .. Len(calls') :
              i + 1 \in 1 .. Len(calls) /\ calls'[i] = calls[i + 1] /\ i + 1 # 1
         /\ \A i \in 1 .. Len(calls) : i = 1 \/ (i - 1 \in 1 .. Len(calls') /\ calls'[i - 1] = calls[i])
         /\ block' \in Block /\ block' \in Reachable(code.succ)
         /\ calls' \in Seq([block : Block, values : [Var -> ValueOrNull]])
         /\ rest' = insts[block'] /\ insts[block'] = InstsOf(code, block')
         /\ calls[1].values \in [Var -> ValueOrNull]
         /\ values' = [v \in Var |-> IF v \in ToSet(params[block']) THEN Param(block', v)
                                     ELSE calls[1].values[v]]
         /\ UNCHANGED <<code, dominance, insts, operand, params, args, infos, worklist, phi,
                        promotable>>
<1> USE DEF Inv
<1>1. /\ pc = "call" /\ pc' = "rename" /\ calls # <<>>
      /\ block' = Head(calls).block /\ calls' = Tail(calls) /\ rest' = insts[block']
      /\ values' = [v \in Var |-> IF v \in ToSet(params[block']) THEN Param(block', v)
                                  ELSE Head(calls).values[v]]
  BY DEF EnterBlock
<1>2. UNCHANGED <<code, dominance, insts, operand, params, args, infos, worklist, phi, promotable>>
  BY DEF EnterBlock, function, examination
<1>3. calls \in Seq([block : Block, values : [Var -> ValueOrNull]])
  BY DEF TypeOK
<1>4. /\ Len(calls) \in Nat /\ Len(calls) # 0 /\ Len(calls') = Len(calls) - 1
      /\ Head(calls) = calls[1]
      /\ \A i \in 1 .. Len(calls') : calls'[i] = calls[i + 1]
      /\ calls' \in Seq([block : Block, values : [Var -> ValueOrNull]])
  BY <1>1, <1>3
<1>5. 1 \in 1 .. Len(calls)
  BY <1>4
<1>6. calls[1] \in [block : Block, values : [Var -> ValueOrNull]]
  BY <1>3, <1>5, ElementOf
<1>7. block' \in Block /\ block' \in Reachable(code.succ)
  BY <1>1, <1>4, <1>5, <1>6 DEF CallsInv
<1>8. insts[block'] = InstsOf(code, block')
  <2>1. Pending(block')
    BY <1>1, <1>4, <1>5 DEF Pending, Dominates
  <2>2. QED
    BY <1>1, <1>7, <2>1 DEF InstsInv, Untouched, Started
<1>9. ASSUME NEW i \in 1 .. Len(calls')
      PROVE  i + 1 \in 1 .. Len(calls) /\ i + 1 # 1
  BY <1>4
<1>10. ASSUME NEW i \in 1 .. Len(calls), i # 1
       PROVE  i - 1 \in 1 .. Len(calls') /\ calls'[i - 1] = calls[i]
  <2>1. i - 1 \in 1 .. Len(calls') /\ (i - 1) + 1 = i
    BY <1>4, <1>10
  <2>2. QED
    BY <1>4, <2>1
<1>11. Started /\ Started'
  BY <1>1 DEF Started
<1>12. calls[1].values \in [Var -> ValueOrNull]
  BY <1>6
<1>13. \A i \in 1 .. Len(calls') :
         i + 1 \in 1 .. Len(calls) /\ calls'[i] = calls[i + 1] /\ i + 1 # 1
  BY <1>4, <1>9
<1>14. \A i \in 1 .. Len(calls) :
         i = 1 \/ (i - 1 \in 1 .. Len(calls') /\ calls'[i - 1] = calls[i])
  BY <1>10
<1>15. values' = [v \in Var |-> IF v \in ToSet(params[block']) THEN Param(block', v)
                                ELSE calls[1].values[v]]
  BY <1>1, <1>4
<1>16. /\ block' = calls[1].block /\ rest' = insts[block']
       /\ calls' \in Seq([block : Block, values : [Var -> ValueOrNull]])
  BY <1>1, <1>4
<1>17. QED
  BY <1>1, <1>2, <1>5, <1>7, <1>8, <1>11, <1>12, <1>13, <1>14, <1>15, <1>16

LEMMA EnterBlockBlocks ==
  ASSUME Inv, EnterBlock, NEW b \in Block
  PROVE  /\ b = block' => Running(b)' /\ ~Untouched(b)' /\ ~Renamed(b)' /\ Untouched(b)
         /\ b # block' => /\ ~Running(b)'
                          /\ Untouched(b)' <=> Untouched(b)
                          /\ Renamed(b)' <=> Renamed(b)
<1> USE DEF Inv
<1> DEFINE Dom(x, y) == Dominates(code.succ, x, y)
<1>1. /\ pc = "call" /\ pc' = "rename" /\ code' = code
      /\ 1 \in 1 .. Len(calls) /\ block' = calls[1].block /\ block' \in Reachable(code.succ)
      /\ \A i \in 1 .. Len(calls') :
           i + 1 \in 1 .. Len(calls) /\ calls'[i] = calls[i + 1] /\ i + 1 # 1
      /\ \A i \in 1 .. Len(calls) : i = 1 \/ (i - 1 \in 1 .. Len(calls') /\ calls'[i - 1] = calls[i])
  BY EnterBlockFacts
<1>2. Pending(b) <=> \E i \in 1 .. Len(calls) : Dom(calls[i].block, b)
  BY <1>1 DEF Pending
<1>3. Pending(b)' <=> \/ \E i \in 1 .. Len(calls') : Dom(calls'[i].block, b)
                      \/ StrictlyDominates(code.succ, block', b)
  BY <1>1 DEF Pending
<1>4. Dom(block', b) <=> b = block' \/ StrictlyDominates(code.succ, block', b)
  BY DEF StrictlyDominates, Dominates
<1>5. ~StrictlyDominates(code.succ, block', block')
  BY DEF StrictlyDominates
<1> HIDE DEF Dom
<1>6. Pending(b) <=> Pending(b)' \/ b = block'
  <2>1. ASSUME Pending(b) PROVE Pending(b)' \/ b = block'
    BY <1>1, <1>2, <1>3, <1>4, <2>1
  <2>2. ASSUME Pending(b)' \/ b = block' PROVE Pending(b)
    BY <1>1, <1>2, <1>3, <1>4, <2>2
  <2>3. QED
    BY <2>1, <2>2
<1>7. b = block' => ~Pending(b)'
  <2> SUFFICES ASSUME b = block', NEW i \in 1 .. Len(calls'), Dom(calls'[i].block, b) PROVE FALSE
    BY <1>3, <1>5
  <2>1. i + 1 = 1
    BY <1>1 DEF CallsInv, Dom
  <2>2. QED
    BY <1>1, <2>1
<1>8. Running(b)' <=> b = block'
  BY <1>1 DEF Running
<1>9. ~Running(b)
  BY <1>1 DEF Running
<1>10. /\ Untouched(b)' <=> b \notin Reachable(code.succ) \/ Pending(b)'
       /\ Renamed(b)' <=> b \in Reachable(code.succ) /\ ~Pending(b)' /\ ~Running(b)'
  BY <1>1 DEF Untouched, Renamed
<1>11. QED
  BY <1>1, <1>6, <1>7, <1>8, <1>9, <1>10 DEF Untouched, Renamed

LEMMA EnterBlockKeepsInv ==
  ASSUME Inv, EnterBlock
  PROVE  Inv'
<1> USE DEF Inv
<1>1. /\ pc = "call" /\ pc' = "rename" /\ Started /\ Started'
      /\ 1 \in 1 .. Len(calls) /\ block' = calls[1].block
      /\ \A i \in 1 .. Len(calls') :
           i + 1 \in 1 .. Len(calls) /\ calls'[i] = calls[i + 1] /\ i + 1 # 1
      /\ block' \in Block /\ block' \in Reachable(code.succ)
      /\ calls' \in Seq([block : Block, values : [Var -> ValueOrNull]])
      /\ rest' = insts[block'] /\ insts[block'] = InstsOf(code, block')
      /\ calls[1].values \in [Var -> ValueOrNull]
  BY EnterBlockFacts
<1>2. values' = [v \in Var |-> IF v \in ToSet(params[block']) THEN Param(block', v)
                               ELSE calls[1].values[v]]
  BY EnterBlockFacts
<1>3. UNCHANGED <<code, dominance, insts, operand, params, args, infos, worklist, phi, promotable>>
  BY EnterBlockFacts
<1>4. CodeInv' /\ BeforeInv' /\ PlaceInv'
  BY <1>1, <1>3, StepAfter DEF examination
<1>5. TypeOK'
  <2>1. values' \in [Var -> ValueOrNull]
    BY <1>1, <1>2, ValueIn DEF ValueOrNull
  <2>2. QED
    BY <1>1, <1>3, <2>1 DEF TypeOK, ValueOrNull
<1>6. CallsInv'
  <2>1. \A i \in 1 .. Len(calls') : calls'[i].block \in Reachable(code.succ)
    BY <1>1 DEF CallsInv
  <2>2. ASSUME NEW i \in 1 .. Len(calls'), NEW j \in 1 .. Len(calls'),
               Dominates(code.succ, calls'[i].block, calls'[j].block)
        PROVE  i = j
    <3>1. i + 1 = j + 1
      BY <1>1, <2>2 DEF CallsInv
    <3>2. QED
      BY <3>1
  <2>3. ASSUME NEW i \in 1 .. Len(calls')
        PROVE  /\ ~Dominates(code.succ, calls'[i].block, block')
               /\ ~Dominates(code.succ, block', calls'[i].block)
    BY <1>1 DEF CallsInv
  <2>4. QED
    BY <1>1, <1>3, <2>1, <2>2, <2>3 DEF CallsInv
<1>7. RestInv'
  BY <1>1, <1>3 DEF RestInv
<1>8. \A b \in Block : KeptInsts(b)' = KeptInsts(b) /\ KeptInsts(b) \subseteq InstsOf(code, b)
  BY <1>3, FrameAccesses DEF KeptInsts
<1>9. InstsInv'
  <2>1. ASSUME NEW b \in Block
        PROVE  /\ Untouched(b)' => insts[b] = InstsOf(code, b)
               /\ Renamed(b)' => insts[b] = KeptInsts(b)
               /\ Running(b)' => insts[b] = KeptInsts(b) \cup rest'
    <3>1. CASE b = block'
      BY <1>1, <1>8, <3>1, EnterBlockBlocks
    <3>2. CASE b # block'
      BY <1>1, <3>2, EnterBlockBlocks DEF InstsInv
    <3>3. QED
      BY <3>1, <3>2
  <2>2. QED
    BY <1>3, <1>8, <2>1 DEF InstsInv
<1>10. \A x, b, S : Final(x, b, S)' <=> Final(x, b, S)
  BY <1>3, FrameFinal
<1>11. ArgsInv'
  <2>1. ASSUME NEW b \in Block
        PROVE  /\ Untouched(b)' \/ Running(b)' => Untouched(b)
               /\ Renamed(b)' => Renamed(b)
    BY EnterBlockBlocks DEF Running
  <2>2. \A b \in Block :
          /\ Untouched(b)' \/ Running(b)' => \A e \in 1 .. Len(args[b]) : args[b][e] = <<>>
          /\ Renamed(b)' => \A e \in 1 .. Len(args[b]) :
               /\ Len(args[b][e]) = Len(params[code.succ[b][e]])
               /\ \A m \in 1 .. Len(args[b][e]) : Final(args[b][e][m], b, InstsOf(code, b))
    BY <1>1, <2>1 DEF ArgsInv
  <2>3. QED
    BY <1>3, <1>10, <2>2 DEF ArgsInv
<1>12. ValuesInv'
  <2>1. ASSUME NEW v \in Var, values'[v] # Null
        PROVE  Final(values'[v], block', InstsOf(code, block') \ rest')
    <3>1. CASE v \in ToSet(params[block'])
      <4>1. values'[v] = Param(block', v)
        BY <1>2, <3>1
      <4>2. QED
        BY <1>1, <3>1, <4>1 DEF Final, Dominates
    <3>2. CASE v \notin ToSet(params[block'])
      <4>1. values'[v] = calls[1].values[v]
        BY <1>2, <3>2
      <4>2. Final(values'[v], block', {})
        BY <1>1, <2>1, <4>1 DEF ValuesInv
      <4>3. QED
        BY <4>2, FinalMore
    <3>3. QED
      BY <3>1, <3>2
  <2>2. ASSUME NEW i \in 1 .. Len(calls'), NEW v \in Var, calls'[i].values[v] # Null
        PROVE  Final(calls'[i].values[v], calls'[i].block, {})
    BY <1>1, <2>2 DEF ValuesInv
  <2>3. QED
    BY <1>3, <1>10, <2>1, <2>2 DEF ValuesInv
<1>13. SetInv'
  <2>1. /\ \A v, b : SetAbove(v, b)' <=> SetAbove(v, b)
        /\ \A op, v : Accesses(op, v)' = Accesses(op, v)
    BY <1>3, FrameSet
  <2>2. ASSUME NEW v \in ToSet(promotable), values'[v] = Null
        PROVE  /\ ~SetAbove(v, block')
               /\ block' \notin phi[v]
               /\ \A m \in Accesses("store", v) : m[1] = block' => m \in rest'
    <3>1. v \in Var
      BY PromotedAreVars
    <3>2. Param(block', v) # Null
      BY <1>1, <3>1, ValueIn, GoodCode
    <3>3. v \notin ToSet(params[block']) /\ calls[1].values[v] = Null
      BY <1>2, <2>2, <3>1, <3>2
    <3>4. ~SetAbove(v, block')
      BY <1>1, <3>3 DEF SetInv
    <3>5. block' \notin phi[v]
      <4>1. ToSet(infos) = {}
        BY <1>1, EmptySeqs DEF InfosInv
      <4>2. QED
        BY <1>1, <3>3, <4>1 DEF ParamsInv
    <3>6. \A m \in Accesses("store", v) : m[1] = block' => m \in rest'
      BY <1>1, InstAt DEF Accesses
    <3>7. QED
      BY <3>4, <3>5, <3>6
  <2>3. ASSUME NEW i \in 1 .. Len(calls'), NEW v \in ToSet(promotable),
               SetAbove(v, calls'[i].block)
        PROVE  calls'[i].values[v] # Null
    BY <1>1, <2>3 DEF SetInv
  <2>4. QED
    BY <1>3, <2>1, <2>2, <2>3 DEF SetInv
<1>14. OperandsInv'
  <2>1. \A n : Op(n)' = Op(n)
    BY <1>3, FrameAccesses
  <2>2. \A x, b, k : DefinedAt(x, b, k)' <=> DefinedAt(x, b, k)
    BY <1>3, FrameDefinedAt
  <2>3. QED
    BY <1>1, <1>3, <2>1, <2>2 DEF OperandsInv
<1>15. QED
  BY <1>4, <1>5, <1>6, <1>7, <1>9, <1>11, <1>12, <1>13, <1>14 DEF PlaceInv

-----------------------------------------------------------------------------
(* append_mem2reg_edge_args: at the end of a block every parameter of a      *)
(* target has a current value, so none is left out.                         *)

LEMMA ValuesAtEnd ==
  ASSUME Inv, pc = "rename", rest = {}, NEW t \in Targets(code.succ, block),
         NEW v \in ToSet(params[t])
  PROVE  /\ v \in Var /\ values[v] # Null /\ values[v] \in Values(code)
         /\ Final(values[v], block, InstsOf(code, block))
<1> USE DEF Inv
<1>1. block \in Block /\ block \in Reachable(code.succ) /\ code.succ \in [Block -> Seq(Block)]
  BY RunningBlock, GoodCode
<1>2. t \in Block
  BY <1>1, TargetsAreBlocks
<1>3. v \in ToSet(promotable) /\ t \in phi[v]
  BY <1>2 DEF ParamsInv
<1>4. v \in Var /\ phi[v] \subseteq Block
  BY <1>3, PromotedAreVars DEF TypeOK
<1>5. Targets(code.succ, block) \cap phi[v] # {} /\ block \in dominance.reachable
  BY <1>1, <1>3, AnalysisIs
<1>6. HasValue(v, block, Len(code.body[block]) + 1)
  BY <1>3, <1>5 DEF PlacedInv, CanPromoteWithoutUndef
<1>7. \A d \in Block : d \in dominance.dominators[block] <=> Dominates(code.succ, d, block)
  BY <1>1, AnalysisIs DEF Dominators
<1>8. \A m \in Accesses("store", v) : m[1] \in Block
  BY InstAt DEF Accesses
<1>9. SetAbove(v, block) \/ block \in phi[v] \/ \E m \in Accesses("store", v) : m[1] = block
  BY <1>4, <1>6, <1>7, <1>8 DEF HasValue, SetAbove, StrictlyDominates
<1>10. values[v] # Null
  BY <1>3, <1>9 DEF SetInv
<1>11. values[v] \in Values(code)
  BY <1>4, <1>10 DEF TypeOK, ValueOrNull
<1>12. Final(values[v], block, InstsOf(code, block) \ rest)
  BY <1>4, <1>10 DEF ValuesInv
<1>13. InstsOf(code, block) \ rest = InstsOf(code, block)
  OBVIOUS
<1>14. QED
  BY <1>4, <1>10, <1>11, <1>12, <1>13

LEMMA NthOfInterval ==
  ASSUME NEW N \in Nat
  PROVE  /\ Cardinality(1 .. N) = N
         /\ \A m \in 1 .. N : Nth(1 .. N, m) = m
<1>1. \A k \in Nat : Cardinality(1 .. k) = k
  BY FS_Interval
<1>2. ASSUME NEW m \in 1 .. N PROVE Nth(1 .. N, m) = m
  <2>1. ASSUME NEW i \in 1 .. N PROVE Cardinality({j \in 1 .. N : j <= i}) = i
    <3>1. {j \in 1 .. N : j <= i} = 1 .. i /\ i \in Nat
      OBVIOUS
    <3>2. QED
      BY <1>1, <3>1
  <2>2. \A i \in 1 .. N : Cardinality({j \in 1 .. N : j <= i}) = m <=> i = m
    BY <2>1
  <2>3. QED
    BY <2>2 DEF Nth
<1>3. QED
  BY <1>1, <1>2

LEMMA EdgeArgsComplete ==
  ASSUME Inv, pc = "rename", rest = {}, NEW t \in Targets(code.succ, block)
  PROVE  /\ EdgeArgs(t) \in Seq(Values(code))
         /\ Len(EdgeArgs(t)) = Len(params[t])
         /\ \A m \in 1 .. Len(EdgeArgs(t)) : Final(EdgeArgs(t)[m], block, InstsOf(code, block))
         /\ \A m \in 1 .. Len(params[t]) : EdgeArgs(t)[m] = values[params[t][m]]
<1> USE DEF Inv
<1> DEFINE N == Len(params[t])
           present == {i \in 1 .. Len(params[t]) : values[params[t][i]] # Null}
<1>1. t \in Block
  BY RunningBlock, GoodCode, TargetsAreBlocks
<1>2. params[t] \in Seq(Var) /\ N \in Nat
  BY <1>1 DEF TypeOK
<1>3. ASSUME NEW i \in 1 .. N
      PROVE  /\ values[params[t][i]] # Null /\ values[params[t][i]] \in Values(code)
             /\ Final(values[params[t][i]], block, InstsOf(code, block))
  <2>1. params[t][i] \in ToSet(params[t])
    BY <1>2 DEF ToSet
  <2>2. QED
    BY <2>1, ValuesAtEnd
<1>4. present = 1 .. N
  BY <1>3
<1>5. Cardinality(present) = N /\ \A m \in 1 .. N : Nth(present, m) = m
  BY <1>2, <1>4, NthOfInterval
<1>6. EdgeArgs(t) = [m \in 1 .. Cardinality(present) |-> values[params[t][Nth(present, m)]]]
  BY DEF EdgeArgs
<1> HIDE DEF present, N
<1>7. EdgeArgs(t) = [m \in 1 .. N |-> values[params[t][m]]]
  BY <1>5, <1>6
<1>8. EdgeArgs(t) \in [1 .. N -> Values(code)]
  BY <1>3, <1>5, <1>7
<1>9. EdgeArgs(t) \in Seq(Values(code)) /\ Len(EdgeArgs(t)) = N
  BY <1>2, <1>8
<1>10. ASSUME NEW m \in 1 .. N
       PROVE  /\ EdgeArgs(t)[m] = values[params[t][m]]
              /\ Final(EdgeArgs(t)[m], block, InstsOf(code, block))
  <2>1. EdgeArgs(t)[m] = values[params[t][m]]
    BY <1>7
  <2>2. QED
    BY <1>3, <2>1
<1>11. QED
  BY <1>9, <1>10 DEF N

LEMMA EndBlockArgs ==
  ASSUME Inv, EndBlock
  PROVE  /\ args' \in [Block -> Seq(Seq(Values(code)))]
         /\ \A b \in Block : Len(args'[b]) = Len(code.succ[b])
         /\ \A b \in Block : b # block => args'[b] = args[b]
         /\ \A e \in 1 .. Len(args'[block]) :
              /\ Len(args'[block][e]) = Len(params[code.succ[block][e]])
              /\ \A m \in 1 .. Len(args'[block][e]) :
                   /\ Final(args'[block][e][m], block, InstsOf(code, block))
                   /\ args'[block][e][m] = values[params[code.succ[block][e]][m]]
<1> USE DEF Inv
<1> DEFINE Row == [e \in DOMAIN args[block] |-> args[block][e] \o EdgeArgs(code.succ[block][e])]
<1>1. pc = "rename" /\ rest = {} /\ args' = [args EXCEPT ![block] = Row]
  BY DEF EndBlock, AppendSuccessorArgs
<1>2. /\ block \in Block /\ code.succ[block] \in Seq(Block) /\ Running(block)
      /\ args[block] \in Seq(Seq(Values(code))) /\ Len(args[block]) = Len(code.succ[block])
  BY <1>1, RunningBlock, GoodCode DEF TypeOK
<1>3. DOMAIN args[block] = 1 .. Len(code.succ[block]) /\ Len(code.succ[block]) \in Nat
  BY <1>2
<1>4. ASSUME NEW e \in 1 .. Len(code.succ[block])
      PROVE  /\ Row[e] = EdgeArgs(code.succ[block][e])
             /\ code.succ[block][e] \in Targets(code.succ, block)
  <2>1. code.succ[block][e] \in Targets(code.succ, block)
    BY <1>2 DEF Targets, ToSet
  <2>2. args[block][e] = <<>>
    BY <1>1, <1>2 DEF ArgsInv, Started
  <2>3. EdgeArgs(code.succ[block][e]) \in Seq(Values(code))
    BY <1>1, <2>1, EdgeArgsComplete
  <2>4. <<>> \o EdgeArgs(code.succ[block][e]) = EdgeArgs(code.succ[block][e])
    BY <2>3
  <2>5. Row[e] = args[block][e] \o EdgeArgs(code.succ[block][e])
    BY <1>3
  <2>6. QED
    BY <2>1, <2>2, <2>4, <2>5
<1>5. Row \in Seq(Seq(Values(code))) /\ Len(Row) = Len(code.succ[block])
  <2>1. \A e \in 1 .. Len(code.succ[block]) : Row[e] \in Seq(Values(code))
    BY <1>1, <1>4, EdgeArgsComplete
  <2>2. Row = [e \in 1 .. Len(code.succ[block]) |-> Row[e]]
    BY <1>3
  <2> HIDE DEF Row
  <2>3. Row \in [1 .. Len(code.succ[block]) -> Seq(Values(code))]
    BY <2>1, <2>2
  <2>4. QED
    BY <1>3, <2>3
<1>6. ASSUME NEW e \in 1 .. Len(code.succ[block])
      PROVE  /\ Len(Row[e]) = Len(params[code.succ[block][e]])
             /\ \A m \in 1 .. Len(Row[e]) :
                  /\ Final(Row[e][m], block, InstsOf(code, block))
                  /\ Row[e][m] = values[params[code.succ[block][e]][m]]
  <2> DEFINE t == code.succ[block][e]
  <2>1. Row[e] = EdgeArgs(t) /\ t \in Targets(code.succ, block)
    BY <1>4
  <2> HIDE DEF Row, t
  <2>2. /\ Len(EdgeArgs(t)) = Len(params[t])
        /\ \A m \in 1 .. Len(EdgeArgs(t)) :
             /\ Final(EdgeArgs(t)[m], block, InstsOf(code, block))
             /\ EdgeArgs(t)[m] = values[params[t][m]]
    BY <1>1, <2>1, EdgeArgsComplete
  <2>3. QED
    BY <2>1, <2>2 DEF t
<1> HIDE DEF Row
<1>7. args \in [Block -> Seq(Seq(Values(code)))]
  BY DEF TypeOK
<1>8. args'[block] = Row /\ \A b \in Block : b # block => args'[b] = args[b]
  BY <1>1, <1>2, <1>7
<1>9. args' \in [Block -> Seq(Seq(Values(code)))]
  BY <1>1, <1>5, <1>7
<1>10. \A b \in Block : Len(args'[b]) = Len(code.succ[b])
  BY <1>5, <1>8 DEF TypeOK
<1>11. QED
  BY <1>5, <1>6, <1>8, <1>9, <1>10

-----------------------------------------------------------------------------
(* The end of a block: its children are called.                             *)

LEMMA Concatenation ==
  ASSUME NEW S, NEW s \in Seq(S), NEW t \in Seq(S)
  PROVE  /\ s \o t \in Seq(S) /\ Len(s \o t) = Len(s) + Len(t)
         /\ Len(s) \in Nat /\ Len(t) \in Nat
         /\ \A i \in 1 .. Len(s) : (s \o t)[i] = s[i]
         /\ \A i \in 1 .. Len(t) : (s \o t)[i + Len(s)] = t[i]
<1>1. s \o t \in Seq(S) /\ Len(s \o t) = Len(s) + Len(t) /\ Len(s) \in Nat /\ Len(t) \in Nat
  OBVIOUS
<1>2. \A i \in 1 .. Len(s) : (s \o t)[i] = s[i]
  OBVIOUS
<1>3. ASSUME NEW i \in 1 .. Len(t) PROVE (s \o t)[i + Len(s)] = t[i]
  <2>1. i + Len(s) \in 1 .. Len(s) + Len(t) /\ ~(i + Len(s) <= Len(s)) /\ (i + Len(s)) - Len(s) = i
    BY <1>1
  <2>2. QED
    BY <1>1, <2>1
<1>4. QED
  BY <1>1, <1>2, <1>3

\* A call on a child of the running block, or one that was waiting before.
NewCall(i, n) ==
  /\ i \in 1 .. n
  /\ calls'[i].block \in Children(code.succ, block)
  /\ calls'[i].values = values
OldCall(i, n) == i - n \in 1 .. Len(calls) /\ calls'[i] = calls[i - n]

LEMMA EndBlockCalls ==
  ASSUME Inv, EndBlock
  PROVE  /\ calls' \in Seq([block : Block, values : [Var -> ValueOrNull]])
         /\ \E n \in Nat :
              /\ \A i \in 1 .. Len(calls') : NewCall(i, n) \/ OldCall(i, n)
              /\ \A i, j \in 1 .. n : calls'[i].block = calls'[j].block => i = j
              /\ \A c \in Children(code.succ, block) :
                   \E i \in 1 .. Len(calls') : calls'[i].block = c
              /\ \A j \in 1 .. Len(calls) :
                   \E i \in 1 .. Len(calls') : calls'[i] = calls[j]
<1> USE DEF Inv
<1> DEFINE g == code.succ
           Call == [block : Block, values : [Var -> ValueOrNull]]
<1>1. pc = "rename" /\ block \in Block /\ g \in [Block -> Seq(Block)]
  BY RunningBlock, GoodCode DEF EndBlock
<1>2. dominance.children[block] = Children(g, block)
  BY <1>1, AnalysisIs DEF Children
<1>3. Children(g, block) \subseteq Block
  BY DEF Children, Reachable
<1>4. IsFiniteSet(Children(g, block))
  BY <1>3, GoodCode, FS_Subset
<1>5. PICK order \in SetToSeqs(Children(g, block)) :
        calls' = [m \in DOMAIN order |-> [block |-> order[m], values |-> values]] \o calls
  BY <1>2 DEF EndBlock
<1>6. /\ order \in Seq(Children(g, block)) /\ Len(order) \in Nat
      /\ ToSet(order) = Children(g, block) /\ Distinct(order)
  BY <1>4, SeqOfSet
<1> DEFINE n == Len(order)
           new == [m \in DOMAIN order |-> [block |-> order[m], values |-> values]]
<1>7. new \in Seq(Call) /\ Len(new) = n
      /\ \A i \in 1 .. n : new[i].block = order[i] /\ new[i].values = values
  <2>1. DOMAIN order = 1 .. n
    BY <1>6
  <2>2. \A i \in 1 .. n : order[i] \in Block
    BY <1>3, <1>6
  <2>3. values \in [Var -> ValueOrNull]
    BY DEF TypeOK
  <2>4. \A i \in 1 .. n : [block |-> order[i], values |-> values] \in Call
    BY <2>2, <2>3
  <2>5. new = [m \in 1 .. n |-> [block |-> order[m], values |-> values]]
    BY <2>1
  <2>6. new \in [1 .. n -> Call]
    BY <2>4, <2>5
  <2>7. new \in Seq(Call) /\ Len(new) = n
    BY <1>6, <2>6
  <2>8. QED
    BY <2>5, <2>7
<1>8. calls \in Seq(Call) /\ calls' = new \o calls
  BY <1>5 DEF TypeOK
<1> HIDE DEF new, Call
<1>9. /\ calls' \in Seq(Call) /\ Len(calls') = n + Len(calls)
      /\ n \in Nat /\ Len(calls) \in Nat
      /\ \A i \in 1 .. n : calls'[i] = new[i]
      /\ \A j \in 1 .. Len(calls) : calls'[j + n] = calls[j]
  <2>1. new \in Seq(Call) /\ calls \in Seq(Call)
    BY <1>7, <1>8
  <2>2. /\ new \o calls \in Seq(Call) /\ Len(new \o calls) = Len(new) + Len(calls)
        /\ Len(new) \in Nat /\ Len(calls) \in Nat
        /\ \A i \in 1 .. Len(new) : (new \o calls)[i] = new[i]
        /\ \A i \in 1 .. Len(calls) : (new \o calls)[i + Len(new)] = calls[i]
    BY <2>1, Concatenation
  <2>3. Len(new) = n
    BY <1>7
  <2> HIDE DEF n
  <2>4. QED
    BY <1>8, <2>2, <2>3
<1>10. \A i \in 1 .. n : /\ calls'[i].block = order[i] /\ calls'[i].values = values
                         /\ order[i] \in Children(g, block)
  BY <1>6, <1>7, <1>9
<1> HIDE DEF n
<1>11. ASSUME NEW i \in 1 .. Len(calls') PROVE NewCall(i, n) \/ OldCall(i, n)
  <2>1. CASE i \in 1 .. n
    BY <1>10, <2>1 DEF NewCall
  <2>2. CASE i \notin 1 .. n
    <3>1. i - n \in 1 .. Len(calls) /\ (i - n) + n = i
      BY <1>9, <2>2
    <3>2. calls'[(i - n) + n] = calls[i - n]
      BY <1>9, <3>1
    <3>3. QED
      BY <3>1, <3>2 DEF OldCall
  <2>3. QED
    BY <2>1, <2>2
<1>12. \A i, j \in 1 .. n : calls'[i].block = calls'[j].block => i = j
  BY <1>6, <1>10 DEF Distinct, n
<1>13. ASSUME NEW c \in Children(g, block)
       PROVE  \E i \in 1 .. Len(calls') : calls'[i].block = c
  <2>1. PICK i \in 1 .. n : order[i] = c
    <3>1. DOMAIN order = 1 .. n
      BY <1>6 DEF n
    <3>2. QED
      BY <1>6, <3>1 DEF ToSet
  <2>2. i \in 1 .. Len(calls')
    BY <1>9
  <2>3. QED
    BY <1>10, <2>1, <2>2
<1>14. ASSUME NEW j \in 1 .. Len(calls)
       PROVE  \E i \in 1 .. Len(calls') : calls'[i] = calls[j]
  <2>1. j + n \in 1 .. Len(calls')
    BY <1>9
  <2>2. QED
    BY <1>9, <2>1
<1>15. QED
  BY <1>9, <1>11, <1>12, <1>13, <1>14 DEF Call

LEMMA EndBlockBlocks ==
  ASSUME Inv, EndBlock, NEW b \in Block
  PROVE  /\ ~Running(b)'
         /\ b = block => Renamed(b)' /\ ~Untouched(b)'
         /\ b # block => /\ Untouched(b)' <=> Untouched(b)
                         /\ Renamed(b)' <=> Renamed(b)
<1> USE DEF Inv
<1> DEFINE g == code.succ
<1>1. /\ pc = "rename" /\ pc' = "call" /\ block \in Block /\ block \in Reachable(g)
      /\ g \in [Block -> Seq(Block)] /\ code' = code
  BY RunningBlock, GoodCode DEF EndBlock
<1>2. PICK n \in Nat :
        /\ \A i \in 1 .. Len(calls') : NewCall(i, n) \/ OldCall(i, n)
        /\ \A c \in Children(g, block) : \E i \in 1 .. Len(calls') : calls'[i].block = c
        /\ \A j \in 1 .. Len(calls) : \E i \in 1 .. Len(calls') : calls'[i] = calls[j]
  BY EndBlockCalls
<1>3. ~Running(b)'
  BY <1>1 DEF Running
<1>4. Pending(b)' <=> \E i \in 1 .. Len(calls') : Dominates(g, calls'[i].block, b)
  BY <1>1 DEF Pending
<1>5. Pending(b) <=> \/ \E i \in 1 .. Len(calls) : Dominates(g, calls[i].block, b)
                     \/ StrictlyDominates(g, block, b)
  BY <1>1 DEF Pending
<1>6. ASSUME b \in Reachable(g), Pending(b) PROVE Pending(b)'
  <2>1. CASE \E i \in 1 .. Len(calls) : Dominates(g, calls[i].block, b)
    BY <1>2, <1>4, <2>1
  <2>2. CASE StrictlyDominates(g, block, b)
    <3>1. PICK c \in Children(g, block) : Dominates(g, c, b)
      BY <1>1, <1>6, <2>2, BelowAChild
    <3>2. QED
      BY <1>2, <1>4, <3>1
  <2>3. QED
    BY <1>5, <1>6, <2>1, <2>2
<1>7. ASSUME b \in Reachable(g), Pending(b)' PROVE Pending(b)
  <2>1. PICK i \in 1 .. Len(calls') : Dominates(g, calls'[i].block, b)
    BY <1>4, <1>7
  <2>2. CASE NewCall(i, n)
    <3> DEFINE c == calls'[i].block
    <3>1. c \in Children(g, block)
      BY <2>2 DEF NewCall
    <3> HIDE DEF c
    <3>2. c \in Block /\ StrictlyDominates(g, block, c)
      BY <1>1, <3>1, ChildFacts
    <3>3. Dominates(g, c, b)
      BY <2>1 DEF c
    <3>4. Dominates(g, block, b)
      BY <1>1, <3>2, <3>3, DominatesTransitive DEF StrictlyDominates
    <3>5. block # b
      <4> SUFFICES ASSUME block = b PROVE FALSE
        OBVIOUS
      <4>1. StrictlyDominates(g, c, c)
        BY <1>1, <3>1, <3>2, <3>3, StrictTransitive, ChildFacts
      <4>2. QED
        BY <4>1 DEF StrictlyDominates
    <3>6. QED
      BY <1>5, <3>4, <3>5 DEF StrictlyDominates
  <2>3. CASE OldCall(i, n)
    BY <1>5, <2>1, <2>3 DEF OldCall
  <2>4. QED
    BY <1>2, <2>2, <2>3
<1>8. b \in Reachable(g) => (Pending(b)' <=> Pending(b))
  BY <1>6, <1>7
<1>9. /\ Untouched(b)' <=> b \notin Reachable(g) \/ Pending(b)'
      /\ Renamed(b)' <=> b \in Reachable(g) /\ ~Pending(b)' /\ ~Running(b)'
  BY <1>1 DEF Untouched, Renamed
<1>10. CASE b = block
  <2>1. ~Pending(b)
    BY <1>1, <1>10, RunningBlock
  <2>2. QED
    BY <1>1, <1>3, <1>8, <1>9, <1>10, <2>1
<1>11. CASE b # block
  <2>1. ~Running(b)
    BY <1>11 DEF Running
  <2>2. QED
    BY <1>3, <1>8, <1>9, <1>11, <2>1 DEF Untouched, Renamed
<1>12. QED
  BY <1>3, <1>10, <1>11

LEMMA EndBlockApart ==
  ASSUME Inv, EndBlock
  PROVE  CallsInv'
<1> USE DEF Inv
<1> DEFINE g == code.succ
<1>1. /\ pc = "rename" /\ pc' = "call" /\ block \in Block /\ block \in Reachable(g)
      /\ g \in [Block -> Seq(Block)] /\ code' = code
  BY RunningBlock, GoodCode DEF EndBlock
<1>2. PICK n \in Nat :
        /\ \A i \in 1 .. Len(calls') : NewCall(i, n) \/ OldCall(i, n)
        /\ \A i, j \in 1 .. n : calls'[i].block = calls'[j].block => i = j
  BY EndBlockCalls
<1>3. ASSUME NEW i \in 1 .. Len(calls') PROVE calls'[i].block \in Reachable(g)
  BY <1>1, <1>2, ChildFacts DEF NewCall, OldCall, CallsInv
<1>4. ASSUME NEW i \in 1 .. Len(calls), NEW c \in Children(g, block)
      PROVE  /\ ~Dominates(g, calls[i].block, c)
             /\ ~Dominates(g, c, calls[i].block)
  <2> DEFINE d == calls[i].block
  <2>1. /\ d \in Block /\ d \in Reachable(g)
        /\ ~Dominates(g, d, block) /\ ~Dominates(g, block, d)
    BY <1>1 DEF CallsInv, Reachable
  <2> HIDE DEF d
  <2>2. /\ c \in Block /\ StrictlyDominates(g, block, c)
        /\ StrictlyDominates(g, d, c) <=> Dominates(g, d, block)
    BY <1>1, <2>1, ChildFacts
  <2>3. ~Dominates(g, d, c)
    BY <2>1, <2>2 DEF StrictlyDominates
  <2>4. ~Dominates(g, c, d)
    BY <1>1, <2>1, <2>2, DominatesTransitive DEF StrictlyDominates
  <2>5. QED
    BY <2>3, <2>4 DEF d
<1>5. ASSUME NEW i \in 1 .. Len(calls'), NEW j \in 1 .. Len(calls'),
             Dominates(g, calls'[i].block, calls'[j].block)
      PROVE  i = j
  <2>1. CASE NewCall(i, n) /\ NewCall(j, n)
    <3>1. calls'[i].block = calls'[j].block
      BY <1>1, <1>5, <2>1, ChildrenApart DEF NewCall
    <3>2. QED
      BY <1>2, <2>1, <3>1 DEF NewCall
  <2>2. CASE NewCall(i, n) /\ OldCall(j, n)
    BY <1>4, <1>5, <2>2 DEF NewCall, OldCall
  <2>3. CASE OldCall(i, n) /\ NewCall(j, n)
    BY <1>4, <1>5, <2>3 DEF NewCall, OldCall
  <2>4. CASE OldCall(i, n) /\ OldCall(j, n)
    <3>1. i - n = j - n
      BY <1>5, <2>4 DEF OldCall, CallsInv
    <3>2. QED
      BY <3>1
  <2>5. QED
    BY <1>2, <2>1, <2>2, <2>3, <2>4
<1>6. QED
  BY <1>1, <1>3, <1>5 DEF CallsInv

LEMMA FinalBelow ==
  ASSUME CodeInv, NEW b \in Block, NEW c \in Children(code.succ, b), NEW x,
         Final(x, b, InstsOf(code, b))
  PROVE  Final(x, c, {})
<1> DEFINE g == code.succ
<1>1. g \in [Block -> Seq(Block)]
  BY GoodCode
<1>2. /\ c \in Block /\ c \in Reachable(g) /\ StrictlyDominates(g, b, c)
      /\ \A a \in Block : StrictlyDominates(g, a, c) <=> Dominates(g, a, b)
  BY <1>1, ChildFacts
<1>3. \A d \in Block : Dominates(g, d, b) => Dominates(g, d, c)
  BY <1>2 DEF StrictlyDominates
<1>4. ASSUME NEW n \in Insts(code), StrictlyDominates(g, n[1], b) \/ n \in InstsOf(code, b)
      PROVE  StrictlyDominates(g, n[1], c)
  <2>1. n[1] \in Block
    BY InstAt
  <2>2. CASE StrictlyDominates(g, n[1], b)
    BY <1>2, <2>1, <2>2 DEF StrictlyDominates
  <2>3. CASE n \in InstsOf(code, b)
    <3>1. n[1] = b
      BY <2>3, InstIn
    <3>2. QED
      BY <1>2, <3>1
  <2>4. QED
    BY <1>4, <2>2, <2>3
<1>5. CASE \E n \in Insts(code) :
             /\ x = Result(n)
             /\ Op(n) \in {"load", "addr", "other"} /\ ~AccessesPromoted(n)
             /\ StrictlyDominates(g, n[1], b) \/ n \in InstsOf(code, b)
  BY <1>4, <1>5 DEF Final
<1>6. CASE \E d \in Block : Dominates(g, d, b) /\ \E v \in ToSet(params[d]) : x = Param(d, v)
  BY <1>3, <1>6 DEF Final
<1>7. QED
  BY <1>5, <1>6 DEF Final

LEMMA EndBlockKeepsInv ==
  ASSUME Inv, EndBlock
  PROVE  Inv'
<1> USE DEF Inv
<1> DEFINE g == code.succ
<1>1. /\ pc = "rename" /\ pc' = "call" /\ rest = {}
      /\ UNCHANGED <<code, dominance, insts, operand, params, infos, worklist, phi, promotable,
                     block, rest, values>>
  BY DEF EndBlock, examination
<1>2. Started /\ Started' /\ block \in Block /\ Running(block) /\ g \in [Block -> Seq(Block)]
  BY <1>1, RunningBlock, GoodCode DEF Started
<1>3. CodeInv' /\ BeforeInv' /\ PlaceInv'
  BY <1>1, <1>2, StepAfter DEF examination
<1>4. /\ calls' \in Seq([block : Block, values : [Var -> ValueOrNull]])
      /\ args' \in [Block -> Seq(Seq(Values(code)))]
      /\ \A b \in Block : Len(args'[b]) = Len(code.succ[b])
  BY EndBlockCalls, EndBlockArgs
<1>5. TypeOK'
  BY <1>1, <1>4 DEF TypeOK, ValueOrNull
<1>6. CallsInv' /\ RestInv'
  BY <1>1, EndBlockApart DEF RestInv
<1>7. InstsInv'
  <2>1. ASSUME NEW b \in Block
        PROVE  /\ Untouched(b)' => insts[b] = InstsOf(code, b)
               /\ Renamed(b)' => insts[b] = KeptInsts(b)
               /\ ~Running(b)'
    <3>1. CASE b = block
      <4>1. insts[b] = KeptInsts(b)
        BY <1>1, <1>2, <3>1 DEF InstsInv
      <4>2. QED
        BY <3>1, <4>1, EndBlockBlocks
    <3>2. CASE b # block
      BY <1>2, <3>2, EndBlockBlocks DEF InstsInv
    <3>3. QED
      BY <3>1, <3>2
  <2>2. \A b : KeptInsts(b)' = KeptInsts(b)
    BY <1>1, FrameAccesses
  <2>3. QED
    BY <1>1, <2>1, <2>2 DEF InstsInv
<1>8. \A x, b, S : Final(x, b, S)' <=> Final(x, b, S)
  BY <1>1, FrameFinal
<1>9. ArgsInv'
  <2>1. ASSUME NEW b \in Block
        PROVE  /\ Untouched(b)' \/ Running(b)' => \A e \in 1 .. Len(args'[b]) : args'[b][e] = <<>>
               /\ Renamed(b)' => \A e \in 1 .. Len(args'[b]) :
                    /\ Len(args'[b][e]) = Len(params[code.succ[b][e]])
                    /\ \A m \in 1 .. Len(args'[b][e]) : Final(args'[b][e][m], b, InstsOf(code, b))
    <3>1. CASE b = block
      BY <3>1, EndBlockBlocks, EndBlockArgs
    <3>2. CASE b # block
      <4>1. args'[b] = args[b]
        BY <3>2, EndBlockArgs
      <4>2. QED
        BY <1>2, <3>2, <4>1, EndBlockBlocks DEF ArgsInv
    <3>3. QED
      BY <3>1, <3>2
  <2>2. ASSUME NEW b \in Block, Renamed(b)', NEW e \in 1 .. Len(args'[b]),
               NEW m \in 1 .. Len(args'[b][e])
        PROVE  Final(args[b][e][m], b, InstsOf(code, b))'
    <3>1. Final(args'[b][e][m], b, InstsOf(code, b))
      BY <2>1, <2>2
    <3>2. InstsOf(code, b)' = InstsOf(code, b)
      BY <1>1
    <3>3. QED
      BY <1>8, <3>1, <3>2
  <2>3. QED
    BY <1>1, <2>1, <2>2 DEF ArgsInv
<1>10. PICK n \in Nat : \A i \in 1 .. Len(calls') : NewCall(i, n) \/ OldCall(i, n)
  BY EndBlockCalls
<1>11. ValuesInv'
  <2>1. ASSUME NEW i \in 1 .. Len(calls'), NEW v \in Var, calls'[i].values[v] # Null
        PROVE  Final(calls'[i].values[v], calls'[i].block, {})
    <3>1. CASE NewCall(i, n)
      <4>1. calls'[i].values[v] = values[v] /\ calls'[i].block \in Children(g, block)
        BY <3>1 DEF NewCall
      <4>2. Final(values[v], block, InstsOf(code, block) \ rest)
        BY <1>1, <2>1, <4>1 DEF ValuesInv
      <4>3. InstsOf(code, block) \ rest = InstsOf(code, block)
        BY <1>1
      <4>4. Final(values[v], block, InstsOf(code, block))
        BY <4>2, <4>3
      <4>5. \A c \in Children(g, block) : Final(values[v], c, {})
        BY <1>2, <4>4, FinalBelow
      <4>6. QED
        BY <4>1, <4>5
    <3>2. CASE OldCall(i, n)
      BY <2>1, <3>2 DEF OldCall, ValuesInv
    <3>3. QED
      BY <1>10, <3>1, <3>2
  <2>2. QED
    BY <1>1, <1>8, <2>1 DEF ValuesInv
<1>12. SetInv'
  <2>1. \A v, b : SetAbove(v, b)' <=> SetAbove(v, b)
    BY <1>1, FrameSet
  <2>2. ASSUME NEW v \in ToSet(promotable), NEW c \in Children(g, block), SetAbove(v, c)
        PROVE  values[v] # Null
    <3>1. \A a \in Block : StrictlyDominates(g, a, c) <=> Dominates(g, a, block)
      BY <1>2, ChildFacts
    <3>2. v \in Var /\ phi[v] \subseteq Block
      BY PromotedAreVars DEF TypeOK
    <3>3. \A m \in Accesses("store", v) : m[1] \in Block
      BY InstAt DEF Accesses
    <3>4. SetAbove(v, block) \/ block \in phi[v] \/ \E m \in Accesses("store", v) : m[1] = block
      BY <2>2, <3>1, <3>2, <3>3 DEF SetAbove, StrictlyDominates
    <3>5. QED
      BY <1>1, <3>4 DEF SetInv
  <2>3. ASSUME NEW i \in 1 .. Len(calls'), NEW v \in ToSet(promotable),
               SetAbove(v, calls'[i].block)
        PROVE  calls'[i].values[v] # Null
    <3>1. CASE NewCall(i, n)
      BY <2>2, <2>3, <3>1 DEF NewCall
    <3>2. CASE OldCall(i, n)
      BY <2>3, <3>2 DEF OldCall, SetInv
    <3>3. QED
      BY <1>10, <3>1, <3>2
  <2>4. QED
    BY <1>1, <2>1, <2>3 DEF SetInv
<1>13. OperandsInv'
  <2>1. \A m : Op(m)' = Op(m)
    BY <1>1, FrameAccesses
  <2>2. \A x, b, k : DefinedAt(x, b, k)' <=> DefinedAt(x, b, k)
    BY <1>1, FrameDefinedAt
  <2>3. QED
    BY <1>1, <1>2, <2>1, <2>2 DEF OperandsInv
<1>14. QED
  BY <1>3, <1>5, <1>6, <1>7, <1>9, <1>11, <1>12, <1>13 DEF PlaceInv

LEMMA EndRenamingKeepsInv ==
  ASSUME Inv, EndRenaming
  PROVE  Inv'
<1> USE DEF Inv
<1>1. /\ pc = "call" /\ pc' = "done" /\ calls = <<>>
      /\ UNCHANGED <<code, dominance, insts, operand, params, args, infos, worklist, phi, promotable,
                     calls, block, rest, values>>
  BY DEF EndRenaming, function, examination, renaming
<1>2. Started /\ Started'
  BY <1>1 DEF Started
<1>3. CodeInv' /\ BeforeInv' /\ PlaceInv'
  BY <1>1, <1>2, StepAfter DEF examination
<1>4. TypeOK'
  BY <1>1 DEF TypeOK, ValueOrNull
<1>5. CallsInv' /\ RestInv'
  BY <1>1 DEF CallsInv, RestInv
<1>6. \A b : /\ Untouched(b)' <=> Untouched(b)
             /\ Renamed(b)' <=> Renamed(b)
             /\ Running(b)' <=> Running(b)
  BY <1>1 DEF Untouched, Renamed, Running, Pending
<1>7. \A x, b, S : Final(x, b, S)' <=> Final(x, b, S)
  BY <1>1, FrameFinal
<1>8. InstsInv' /\ ArgsInv'
  <2>1. \A b : KeptInsts(b)' = KeptInsts(b)
    BY <1>1, FrameAccesses
  <2>2. InstsInv'
    BY <1>1, <1>2, <1>6, <2>1 DEF InstsInv
  <2>3. ArgsInv'
    BY <1>1, <1>2, <1>6, <1>7 DEF ArgsInv
  <2>4. QED
    BY <2>2, <2>3
<1>9. Len(calls') = 0
  BY <1>1
<1>10. ValuesInv' /\ SetInv'
  BY <1>1, <1>9 DEF ValuesInv, SetInv
<1>11. OperandsInv'
  <2>1. \A m : Op(m)' = Op(m)
    BY <1>1, FrameAccesses
  <2>2. \A x, b, k : DefinedAt(x, b, k)' <=> DefinedAt(x, b, k)
    BY <1>1, FrameDefinedAt
  <2>3. QED
    BY <1>1, <1>2, <2>1, <2>2 DEF OperandsInv
<1>12. QED
  BY <1>3, <1>4, <1>5, <1>8, <1>10, <1>11 DEF PlaceInv

LEMMA StutterKeepsInv ==
  ASSUME Inv, UNCHANGED vars
  PROVE  Inv'
<1> USE DEF Inv
<1>1. UNCHANGED <<code, dominance, pc, insts, operand, params, args, infos, worklist, phi,
                  promotable, calls, block, rest, values>>
  BY DEF vars, function, examination, renaming
<1>2. TypeOK' /\ CodeInv' /\ BeforeInv'
  BY <1>1 DEF TypeOK, ValueOrNull, CodeInv, BeforeInv, Started
<1>3. Eligible' = Eligible
  BY <1>1, EligibleFrame
<1>4. InfosInv' /\ PlacedInv' /\ ParamsInv'
  BY <1>1, <1>3, FrameHasValue DEF InfosInv, PlacedInv, ParamsInv
<1>5. PlacingInv'
  BY <1>1, EligibleFrame DEF PlacingInv
<1>6. \A b : /\ Untouched(b)' <=> Untouched(b)
             /\ Renamed(b)' <=> Renamed(b)
             /\ Running(b)' <=> Running(b)
  BY <1>1, FrameBlocks
<1>7. \A x, b, S : Final(x, b, S)' <=> Final(x, b, S)
  BY <1>1, FrameFinal
<1>8. /\ \A b : KeptInsts(b)' = KeptInsts(b)
      /\ \A m : Op(m)' = Op(m)
  BY <1>1, FrameAccesses
<1>9. CallsInv' /\ RestInv'
  BY <1>1 DEF CallsInv, RestInv
<1>10. Started' <=> Started
  BY <1>1 DEF Started
<1>11. InstsInv'
  BY <1>1, <1>6, <1>8, <1>10 DEF InstsInv
<1>12. ArgsInv'
  BY <1>1, <1>6, <1>7, <1>10 DEF ArgsInv
<1>13. ValuesInv'
  BY <1>1, <1>7 DEF ValuesInv
<1>14. SetInv'
  BY <1>1, FrameSet DEF SetInv
<1>15. OperandsInv'
  BY <1>1, <1>8, <1>10, FrameDefinedAt DEF OperandsInv
<1>16. QED
  BY <1>2, <1>4, <1>5, <1>9, <1>11, <1>12, <1>13, <1>14, <1>15

-----------------------------------------------------------------------------
(* The theorems.                                                            *)

(* The invariant of the whole pass: the examination, the walk over the       *)
(* dominator tree, and what the walk has made of each block.                *)
THEOREM RenamingInvariant == Spec => []Inv
<1>1. Init => Inv
  BY InitInv
<1>2. Inv /\ [Next]_vars => Inv'
  <2> SUFFICES ASSUME Inv, [Next]_vars PROVE Inv'
    OBVIOUS
  <2>1. CASE Collect
    BY <2>1, CollectKeepsInv
  <2>2. CASE StartPlacing
    BY <2>2, StartPlacingKeepsInv
  <2>3. CASE PlaceBlockArguments
    BY <2>3, PlaceBlockArgumentsKeepsInv
  <2>4. CASE EndPlacing
    BY <2>4, EndPlacingKeepsInv
  <2>5. CASE NothingToPromote
    BY <2>5, NothingToPromoteKeepsInv
  <2>6. CASE StartCreating
    BY <2>6, StartCreatingKeepsInv
  <2>7. CASE CreateBlockParams
    BY <2>7, CreateBlockParamsKeepsInv
  <2>8. CASE StartRenaming
    BY <2>8, StartRenamingKeepsInv
  <2>9. CASE EnterBlock
    BY <2>9, EnterBlockKeepsInv
  <2>10. CASE RenameAlloc
    BY <2>10, RenameAllocKeepsInv
  <2>11. CASE RenameLoad
    BY <2>11, RenameLoadKeepsInv
  <2>12. CASE RenameStore
    BY <2>12, RenameStoreKeepsInv
  <2>13. CASE KeepInstruction
    BY <2>13, KeepInstructionKeepsInv
  <2>14. CASE EndBlock
    BY <2>14, EndBlockKeepsInv
  <2>15. CASE EndRenaming
    BY <2>15, EndRenamingKeepsInv
  <2>16. CASE Finished \/ UNCHANGED vars
    BY <2>16, StutterKeepsInv DEF Finished
  <2>17. QED
    BY <2>1, <2>2, <2>3, <2>4, <2>5, <2>6, <2>7, <2>8, <2>9, <2>10, <2>11, <2>12, <2>13,
       <2>14, <2>15, <2>16 DEF Next
<1>3. QED
  BY <1>1, <1>2, PTL DEF Spec

(* The parts of the pass keep their types: no null value ever becomes an     *)
(* operand or an edge argument.                                             *)
THEOREM RenamingTypes == Spec => []TypeOK
<1>1. Inv => TypeOK
  BY DEF Inv
<1>2. QED
  BY <1>1, RenamingInvariant, PTL

(* place_block_arguments computes the iterated dominance frontier of the     *)
(* stores, whatever order the worklist is emptied in.                       *)
THEOREM IteratedFrontier == Spec => []PhiIsIteratedFrontier
<1>1. Inv => PhiIsIteratedFrontier
  <2> SUFFICES ASSUME Inv, pc = "place", worklist = {}, Accesses("load", Head(infos)) # {}
               PROVE  /\ ClosedUnderFrontiers(Head(infos), phi[Head(infos)])
                      /\ \A P \in SUBSET Block :
                           ClosedUnderFrontiers(Head(infos), P) => phi[Head(infos)] \subseteq P
    BY DEF PhiIsIteratedFrontier
  <2>1. QED
    BY DEF Inv, PlacingInv, ClosedUnderFrontiers
<1>2. QED
  BY <1>1, RenamingInvariant, PTL

LEMMA FinalDefinedAtEnd ==
  ASSUME Inv, Started, NEW b \in Reachable(code.succ), NEW x, Final(x, b, InstsOf(code, b))
  PROVE  DefinedAt(x, b, Len(code.body[b]) + 1)
<1> USE DEF Inv
<1>1. b \in Block /\ Len(code.body[b]) \in Nat
  BY GoodCode DEF Reachable
<1>2. \A d \in Block : Dominates(code.succ, d, b) => d \in dominance.dominators[b]
  BY <1>1, AnalysisIs DEF Dominators
<1>3. ASSUME NEW n \in Insts(code), x = Result(n), ~AccessesPromoted(n),
             StrictlyDominates(code.succ, n[1], b) \/ n \in InstsOf(code, b)
      PROVE  DefinedAt(x, b, Len(code.body[b]) + 1)
  <2>1. n[1] \in Block /\ n \in InstsOf(code, n[1])
    BY InstAt
  <2>2. n \in insts[n[1]]
    BY <1>3, <2>1, InstsBounds DEF KeptInsts
  <2>3. CASE StrictlyDominates(code.succ, n[1], b)
    BY <1>2, <1>3, <2>1, <2>2, <2>3 DEF DefinedAt, StrictlyDominates
  <2>4. CASE n \in InstsOf(code, b)
    <3>1. n[1] = b /\ n[2] \in 1 .. Len(code.body[b])
      BY <1>1, <2>4, InstIn
    <3>2. n[2] < Len(code.body[b]) + 1
      BY <1>1, <3>1
    <3>3. b \in dominance.dominators[b]
      BY <1>1, <1>2 DEF Dominates
    <3>4. QED
      BY <1>3, <2>2, <3>1, <3>2, <3>3 DEF DefinedAt
  <2>5. QED
    BY <1>3, <2>3, <2>4
<1>4. CASE \E d \in Block : Dominates(code.succ, d, b) /\ \E v \in ToSet(params[d]) : x = Param(d, v)
  BY <1>2, <1>4 DEF DefinedAt
<1>5. CASE x \in {NoOperand} \cup {<<"const", c>> : c \in Constant}
  BY <1>5 DEF DefinedAt
<1>6. QED
  BY <1>3, <1>4, <1>5 DEF Final

(* The function is in SSA form at every moment of the pass: no load is        *)
(* erased before its last use is rewritten, however the blocks are nested.   *)
THEOREM StaysInSSAForm == Spec => []SSAForm
<1>1. Inv => SSAForm
  <2> SUFFICES ASSUME Inv PROVE SSAForm
    OBVIOUS
  <2> USE DEF Inv
  <2>1. dominance.reachable = Reachable(code.succ)
    BY AnalysisIs
  <2>2. ASSUME NEW b \in Reachable(code.succ), NEW n \in insts[b]
        PROVE  DefinedAt(operand[n], b, n[2])
    BY InitialOperands DEF OperandsInv
  <2>3. ASSUME NEW b \in Reachable(code.succ), NEW e \in 1 .. Len(args[b]),
               NEW m \in 1 .. Len(args[b][e])
        PROVE  DefinedAt(args[b][e][m], b, Len(code.body[b]) + 1)
    <3>1. b \in Block
      BY DEF Reachable
    <3>2. CASE Started
      BY <3>1, <3>2, ArgsAreFinal, FinalDefinedAtEnd
    <3>3. CASE ~Started
      <4>1. Len(args[b]) = Len(code.succ[b])
        BY <3>1 DEF TypeOK
      <4>2. args[b][e] = <<>>
        BY <3>1, <3>3, <4>1 DEF BeforeInv
      <4>3. QED
        BY <4>2
    <3>4. QED
      BY <3>2, <3>3
  <2>4. QED
    BY <2>1, <2>2, <2>3 DEF SSAForm
<1>2. QED
  BY <1>1, RenamingInvariant, PTL

(* What accesses a promoted variable is an alloc, a load or a store of a     *)
(* reachable block.                                                         *)
LEMMA PromotedAccess ==
  ASSUME CodeInv, InfosInv, NEW n \in Insts(code), VarOf(n) \in ToSet(promotable)
  PROVE  AccessesPromoted(n) /\ n[1] \in Reachable(code.succ)
<1> DEFINE v == VarOf(n)
<1>1. v \in Var /\ v \in Candidates /\ v \notin InvalidAllocs
  BY DEF InfosInv, Eligible, Candidates
<1>2. dominance.reachable = Reachable(code.succ)
  BY AnalysisIs
<1>3. Op(n) \in {"alloc", "load", "store"}
  BY <1>1, AccessedVar DEF InvalidAllocs, Accesses
<1>4. n[1] \in Reachable(code.succ)
  <2>1. CASE Op(n) = "alloc"
    <3>1. PICK m \in Accesses("alloc", v) : m[1] \in dominance.reachable
      BY <1>1 DEF Candidates
    <3>2. m \in Insts(code) /\ Op(m) = "alloc" /\ VarOf(m) = v
      BY <3>1 DEF Accesses
    <3>3. m = n
      BY <2>1, <3>2, AccessedVar
    <3>4. QED
      BY <1>2, <3>1, <3>3
  <2>2. CASE Op(n) \in {"load", "store"}
    BY <1>1, <1>2, <2>2 DEF InvalidAllocs, Accesses
  <2>3. QED
    BY <1>3, <2>1, <2>2
<1>5. QED
  BY <1>3, <1>4 DEF AccessesPromoted, Promoted

(* At the end the accesses of the promoted variables are gone and every      *)
(* other instruction is there.                                              *)
THEOREM PromotedVanish == Spec => []OnlyPromotedVanish
<1>1. Inv => OnlyPromotedVanish
  <2> SUFFICES ASSUME Inv, pc = "done", NEW b \in Block
               PROVE  insts[b] = {n \in InstsOf(code, b) : VarOf(n) \notin ToSet(promotable)}
    BY DEF OnlyPromotedVanish
  <2> USE DEF Inv
  <2>1. Started /\ ~Running(b) /\ ~Pending(b)
    <3>1. calls = <<>> /\ Len(calls) = 0
      BY DEF CallsInv
    <3>2. QED
      BY <3>1 DEF Started, Running, Pending
  <2>2. \A n \in InstsOf(code, b) :
          /\ n \in Insts(code) /\ n[1] = b
          /\ VarOf(n) \in ToSet(promotable) <=> AccessesPromoted(n)
    BY InstIn, PromotedAccess DEF AccessesPromoted, Promoted
  <2>3. CASE b \in Reachable(code.succ)
    <3>1. insts[b] = KeptInsts(b)
      BY <2>1, <2>3 DEF InstsInv, Renamed
    <3>2. QED
      BY <2>2, <3>1 DEF KeptInsts
  <2>4. CASE b \notin Reachable(code.succ)
    <3>1. insts[b] = InstsOf(code, b)
      BY <2>1, <2>4 DEF InstsInv, Untouched
    <3>2. \A n \in InstsOf(code, b) : VarOf(n) \notin ToSet(promotable)
      BY <2>2, <2>4, PromotedAccess
    <3>3. QED
      BY <3>1, <3>2
  <2>5. QED
    BY <2>3, <2>4
<1>2. QED
  BY <1>1, RenamingInvariant, PTL

(* Every edge carries one argument for each parameter of its target, in the  *)
(* functions in which no unreachable block has a target: those the builder   *)
(* makes, by FinishedReachable of FuncLoweringProofs.                        *)
THEOREM CompleteEdges ==
  ASSUME \A f \in Functions : \A b \in Block \ Reachable(f.succ) : f.succ[b] = <<>>
  PROVE  Spec => []EdgeArgsMatchParams
<1>1. Inv => EdgeArgsMatchParams
  <2> SUFFICES ASSUME Inv, pc = "done", NEW b \in Block, NEW e \in 1 .. Len(code.succ[b])
               PROVE  Len(args[b][e]) = Len(params[code.succ[b][e]])
    BY DEF EdgeArgsMatchParams
  <2> USE DEF Inv
  <2>1. Started /\ ~Running(b) /\ ~Pending(b)
    <3>1. calls = <<>> /\ Len(calls) = 0
      BY DEF CallsInv
    <3>2. QED
      BY <3>1 DEF Started, Running, Pending
  <2>2. b \in Reachable(code.succ)
    <3> SUFFICES ASSUME b \notin Reachable(code.succ) PROVE FALSE
      OBVIOUS
    <3>1. code.succ[b] = <<>>
      BY DEF CodeInv
    <3>2. QED
      BY <3>1
  <2>3. e \in 1 .. Len(args[b])
    BY DEF TypeOK
  <2>4. QED
    BY <2>1, <2>2, <2>3 DEF ArgsInv, Renamed
<1>2. QED
  BY <1>1, RenamingInvariant, PTL

-----------------------------------------------------------------------------
(***************************************************************************)
(* The promoted function does what the original does: SameObservations,     *)
(* SameMemory and NoUndefinedRead of Mem2RegExec, for every function of the  *)
(* shape IsFunction, on every path and for every outcome of its calls.      *)
(*                                                                         *)
(* The link between the two executions is a static fact the renaming leaves  *)
(* behind.  A variable is set at its definition points: the blocks with a    *)
(* parameter for it and its stores.  At a point q the value of v is that of  *)
(* the Latest definition point before q in the order of dominance.  The pass *)
(* replaces each load by the value of the latest definition before it and    *)
(* passes along an edge the value of the latest definition before its end    *)
(* (Meaning).  The execution keeps the memory of the original function equal  *)
(* to that value (ExecInv): stores move the latest definition along, and     *)
(* where paths meet, either the block has a parameter or, since the blocks    *)
(* with one are closed under dominance frontiers, both paths have the same   *)
(* latest definition.                                                       *)
(***************************************************************************)

(* Definition points: <<b, 0>> is the start of b, <<b, k>> instruction k.     *)

DefPoints(v) == {<<b, 0>> : b \in phi[v]} \cup Accesses("store", v)

Before(p, q) == Precedes(code, p, q)

Latest(v, p, q) ==
  /\ p \in DefPoints(v) /\ Before(p, q)
  /\ \A other \in DefPoints(v) : Before(other, q) => other = p \/ Before(other, p)

ValueOf(v, p) == IF p[2] = 0 THEN Param(p[1], v) ELSE operand[p]

CurrentAt(v, x, q) ==
  \/ \E p \in DefPoints(v) : Latest(v, p, q) /\ x = ValueOf(v, p)
  \/ x = Null /\ \A p \in DefPoints(v) : ~Before(p, q)

End(b) == <<b, Len(code.body[b]) + 1>>

(***************************************************************************)
(* What the renaming has done so far.                                       *)
(***************************************************************************)
Visited(n) == Renamed(n[1]) \/ (Running(n[1]) /\ n \notin rest)

PromotedLoads == {n \in Insts(code) : Op(n) = "load" /\ Promoted(VarOf(n))}

Source(n) == code.body[n[1]][n[2]].val

PhiInv ==
  /\ \A v \in Var : Entry \notin phi[v]
  /\ \A v \in ToSet(promotable) : Accesses("load", v) # {} => ClosedUnderFrontiers(v, phi[v])

Reached(k) ==
  /\ k \in 1 .. Len(code.body[block]) + 1
  /\ rest = {n \in InstsOf(code, block) : k <= n[2]}

CurrentInv ==
  /\ pc = "rename" =>
       \E k \in Nat :
         Reached(k) /\ \A v \in ToSet(promotable) : CurrentAt(v, values[v], <<block, k>>)
  /\ \A i \in 1 .. Len(calls) : \A v \in ToSet(promotable) :
       CurrentAt(v, calls[i].values[v], <<calls[i].block, 0>>)

StoresInv ==
  Started =>
    \A n \in Insts(code) :
      Op(n) = "store" /\ Promoted(VarOf(n)) /\ Visited(n) =>
        Final(operand[n], n[1], {m \in InstsOf(code, n[1]) : m[2] < n[2]})

UsesInv ==
  Started =>
    /\ \A n \in PromotedLoads :
         Visited(n) =>
           \E p \in DefPoints(VarOf(n)) :
             /\ Latest(VarOf(n), p, n)
             /\ \A m \in Insts(code) : Source(m) = Result(n) => operand[m] = ValueOf(VarOf(n), p)
    /\ \A m \in Insts(code) :
         (\A n \in PromotedLoads : Visited(n) => Source(m) # Result(n)) => operand[m] = Source(m)

PassedInv ==
  Started =>
    \A b \in Block :
      Renamed(b) =>
        \A e \in 1 .. Len(args[b]) : \A m \in 1 .. Len(args[b][e]) :
          CurrentAt(params[code.succ[b][e]][m], args[b][e][m], End(b))

Meaning == PhiInv /\ CurrentInv /\ StoresInv /\ UsesInv /\ PassedInv

(***************************************************************************)
(* The two executions.                                                      *)
(***************************************************************************)
IsMachine(s) ==
  s = [mem |-> [v \in Var |-> s.mem[v]], result |-> [n \in Insts(code) |-> s.result[n]]]

NotStartedInv ==
  /\ pc # "done" => at = NoBlock /\ next = 0
  /\ next = 0 => at = NoBlock /\ before = after /\ before = Blank

MachineInv ==
  /\ IsMachine(before) /\ IsMachine(after)
  /\ paramValue = [b \in Block |-> [v \in Var |-> paramValue[b][v]]]
  /\ next \in Nat
  /\ at # NoBlock => at \in Reachable(code.succ) /\ next \in 1 .. Len(code.body[at]) + 1

SameResults ==
  pc = "done" =>
    \A n \in Insts(code) : ~AccessesPromoted(n) => before.result[n] = after.result[n]

StaysInMemory ==
  pc = "done" => \A v \in Var : ~Promoted(v) => before.mem[v] = after.mem[v]

MemoryIsLatest ==
  at # NoBlock =>
    \A v \in ToSet(promotable) : Accesses("load", v) # {} =>
      \A p \in DefPoints(v) :
        Latest(v, p, Current) => v \in written /\ before.mem[v] = Eval(ValueOf(v, p), after)

LoadedIsLatest ==
  at # NoBlock =>
    \A n \in PromotedLoads : Before(n, Current) =>
      \A p \in DefPoints(VarOf(n)) :
        Latest(VarOf(n), p, n) => before.result[n] = Eval(ValueOf(VarOf(n), p), after)

ExecInv ==
  /\ NotStartedInv /\ MachineInv /\ SameResults /\ StaysInMemory
  /\ MemoryIsLatest /\ LoadedIsLatest
  /\ SameObservations
-----------------------------------------------------------------------------
(* The order of the points of a function.                                   *)

Point == Block \X Nat

LEMMA PointParts ==
  ASSUME NEW p \in Point
  PROVE  p[1] \in Block /\ p[2] \in Nat /\ p = <<p[1], p[2]>>
BY DEF Point

LEMMA InstPoint ==
  ASSUME CodeInv, NEW n \in Insts(code)
  PROVE  n \in Point /\ n[2] # 0 /\ n[2] <= Len(code.body[n[1]])
<1>1. n[1] \in Block /\ n[2] \in 1 .. Len(code.body[n[1]]) /\ n = <<n[1], n[2]>>
  BY InstPosition
<1>2. Len(code.body[n[1]]) \in Nat
  BY <1>1, GoodCode
<1>3. QED
  BY <1>1, <1>2 DEF Point

LEMMA BeforeTransitive ==
  ASSUME CodeInv, NEW p \in Point, NEW q \in Point, NEW r \in Point,
         r[1] \in Reachable(code.succ), Before(p, q), Before(q, r)
  PROVE  Before(p, r)
<1> DEFINE g == code.succ
<1>1. p[1] \in Block /\ q[1] \in Block /\ r[1] \in Block /\ g \in [Block -> Seq(Block)]
  BY PointParts, GoodCode
<1>2. p[2] \in Nat /\ q[2] \in Nat /\ r[2] \in Nat
  BY PointParts
<1>3. CASE p[1] = q[1] /\ q[1] = r[1]
  BY <1>2, <1>3 DEF Before, Precedes, StrictlyDominates
<1>4. CASE p[1] # q[1] /\ q[1] = r[1]
  BY <1>4 DEF Before, Precedes, StrictlyDominates
<1>5. CASE q[1] # r[1]
  <2>1. StrictlyDominates(g, q[1], r[1])
    BY <1>5 DEF Before, Precedes
  <2>2. Dominates(g, p[1], q[1])
    BY DEF Before, Precedes, StrictlyDominates, Dominates
  <2>3. StrictlyDominates(g, p[1], r[1])
    BY <1>1, <2>1, <2>2, StrictTransitive
  <2>4. QED
    BY <2>3 DEF Before, Precedes
<1>6. QED
  BY <1>3, <1>4, <1>5

LEMMA BeforeAsymmetric ==
  ASSUME CodeInv, NEW p \in Point, NEW q \in Point, q[1] \in Reachable(code.succ),
         Before(p, q), Before(q, p)
  PROVE  FALSE
<1>1. p[1] \in Block /\ code.succ \in [Block -> Seq(Block)]
  BY PointParts, GoodCode
<1>2. p[2] \in Nat /\ q[2] \in Nat
  BY PointParts
<1>3. CASE p[1] = q[1]
  BY <1>2, <1>3 DEF Before, Precedes, StrictlyDominates
<1>4. CASE p[1] # q[1]
  <2>1. Dominates(code.succ, p[1], q[1]) /\ Dominates(code.succ, q[1], p[1])
    BY <1>4 DEF Before, Precedes, StrictlyDominates
  <2>2. QED
    BY <1>1, <1>4, <2>1, DominatesAntisymmetric
<1>5. QED
  BY <1>3, <1>4

LEMMA BeforeReachable ==
  ASSUME CodeInv, NEW p \in Point, NEW q \in Point, q[1] \in Reachable(code.succ), Before(p, q)
  PROVE  p[1] \in Reachable(code.succ)
<1>1. p[1] \in Block /\ code.succ \in [Block -> Seq(Block)]
  BY PointParts, GoodCode
<1>2. p[1] = q[1] \/ Dominates(code.succ, p[1], q[1])
  BY DEF Before, Precedes, StrictlyDominates
<1>3. QED
  BY <1>1, <1>2, ReachableAbove

\* The point after p in its block.
After(p) == <<p[1], p[2] + 1>>

LEMMA BeforeAfter ==
  ASSUME NEW p \in Point, NEW q \in Point
  PROVE  /\ After(q) \in Point /\ After(q)[1] = q[1]
         /\ Before(p, After(q)) <=> Before(p, q) \/ p = q
<1>1. /\ p[1] \in Block /\ p[2] \in Nat /\ p = <<p[1], p[2]>>
      /\ q[1] \in Block /\ q[2] \in Nat /\ q = <<q[1], q[2]>>
  BY PointParts
<1>2. After(q)[1] = q[1] /\ After(q)[2] = q[2] + 1
  BY DEF After
<1>3. After(q) \in Point
  BY <1>1 DEF After, Point
<1>4. p[2] < q[2] + 1 <=> p[2] < q[2] \/ p[2] = q[2]
  BY <1>1
<1>5. p = q <=> p[1] = q[1] /\ p[2] = q[2]
  BY <1>1
<1>6. Before(p, After(q)) <=> Before(p, q) \/ p = q
  BY <1>2, <1>4, <1>5 DEF Before, Precedes, StrictlyDominates
<1>7. QED
  BY <1>2, <1>3, <1>6

(* Nothing is between a point and the one after it.                         *)
LEMMA NothingBetween ==
  ASSUME CodeInv, NEW p \in Point, NEW q \in Point, q[1] \in Reachable(code.succ),
         Before(q, p), Before(p, After(q))
  PROVE  FALSE
<1>1. Before(p, q) \/ p = q
  BY BeforeAfter
<1>2. ~Before(q, q)
  BY BeforeAsymmetric
<1>3. QED
  BY <1>1, <1>2, BeforeAsymmetric

(* The end of a block and the start of a block below it or after it.         *)
LEMMA EndPoint ==
  ASSUME CodeInv, NEW b \in Block
  PROVE  /\ End(b) \in Point /\ End(b)[1] = b
         /\ \A p \in Point : p[2] <= Len(code.body[p[1]]) =>
              (Before(p, End(b)) <=> Dominates(code.succ, p[1], b))
<1>1. Len(code.body[b]) \in Nat
  BY GoodCode
<1>2. End(b) \in Point /\ End(b)[1] = b /\ End(b)[2] = Len(code.body[b]) + 1
  BY <1>1 DEF End, Point
<1>3. ASSUME NEW p \in Point, p[2] <= Len(code.body[p[1]])
      PROVE  Before(p, End(b)) <=> Dominates(code.succ, p[1], b)
  <2>1. p[2] \in Nat
    BY PointParts
  <2>2. p[1] = b => p[2] < Len(code.body[b]) + 1
    BY <1>1, <1>3, <2>1
  <2>3. QED
    BY <1>2, <2>2 DEF Before, Precedes, StrictlyDominates, Dominates
<1>4. QED
  BY <1>2, <1>3

LEMMA StartPoint ==
  ASSUME NEW b \in Block
  PROVE  /\ <<b, 0>> \in Point
         /\ \A p \in Point : Before(p, <<b, 0>>) <=> StrictlyDominates(code.succ, p[1], b)
<1>1. ASSUME NEW p \in Point
      PROVE  Before(p, <<b, 0>>) <=> StrictlyDominates(code.succ, p[1], b)
  <2>1. p[2] \in Nat
    BY PointParts
  <2>2. ~(p[2] < 0)
    BY <2>1
  <2>3. QED
    BY <2>2 DEF Before, Precedes
<1>2. QED
  BY <1>1 DEF Point

-----------------------------------------------------------------------------
(* Definition points.                                                       *)

LEMMA DefPoint ==
  ASSUME Inv, NEW v \in Var, NEW p \in DefPoints(v)
  PROVE  /\ p \in Point /\ p[2] <= Len(code.body[p[1]])
         /\ p[2] = 0 => p[1] \in phi[v] /\ p = <<p[1], 0>>
         /\ p[2] # 0 => p \in Accesses("store", v) /\ p \in Insts(code)
<1> USE DEF Inv
<1>1. CASE p \in Accesses("store", v)
  <2>1. p \in Insts(code)
    BY <1>1 DEF Accesses
  <2>2. QED
    BY <1>1, <2>1, InstPoint
<1>2. CASE p \in {<<b, 0>> : b \in phi[v]}
  <2>1. PICK b \in phi[v] : p = <<b, 0>>
    BY <1>2
  <2>2. b \in Block
    BY DEF TypeOK
  <2>3. Len(code.body[b]) \in Nat
    BY <2>2, GoodCode
  <2>4. p \in Point /\ p[1] = b /\ p[2] = 0
    BY <2>1, <2>2 DEF Point
  <2>5. QED
    BY <2>1, <2>3, <2>4
<1>3. QED
  BY <1>1, <1>2 DEF DefPoints

LEMMA LatestUnique ==
  ASSUME Inv, NEW v \in Var, NEW p, NEW q, NEW r \in Point, r[1] \in Reachable(code.succ),
         Latest(v, p, r), Latest(v, q, r)
  PROVE  p = q
<1> USE DEF Inv
<1>1. p \in DefPoints(v) /\ q \in DefPoints(v) /\ Before(p, r) /\ Before(q, r)
  BY DEF Latest
<1>2. p \in Point /\ q \in Point
  BY <1>1, DefPoint
<1>3. q[1] \in Reachable(code.succ)
  BY <1>1, <1>2, BeforeReachable
<1>4. p = q \/ (Before(p, q) /\ Before(q, p))
  BY <1>1 DEF Latest
<1>5. QED
  BY <1>2, <1>3, <1>4, BeforeAsymmetric

(* Points with the same definitions before them have the same value.         *)
LEMMA SameLatest ==
  ASSUME NEW v, NEW q, NEW r, \A p \in DefPoints(v) : Before(p, q) <=> Before(p, r)
  PROVE  /\ \A p : Latest(v, p, q) <=> Latest(v, p, r)
         /\ \A x : CurrentAt(v, x, q) <=> CurrentAt(v, x, r)
<1>1. \A p : Latest(v, p, q) <=> Latest(v, p, r)
  BY DEF Latest
<1>2. QED
  BY <1>1 DEF CurrentAt

(* After a point that defines nothing v has the value it had before it.      *)
LEMMA LatestSkips ==
  ASSUME Inv, NEW v \in Var, NEW q \in Point, q \notin DefPoints(v)
  PROVE  /\ \A p : Latest(v, p, After(q)) <=> Latest(v, p, q)
         /\ \A x : CurrentAt(v, x, After(q)) <=> CurrentAt(v, x, q)
<1>1. \A p \in DefPoints(v) : Before(p, After(q)) <=> Before(p, q)
  BY DefPoint, BeforeAfter
<1>2. QED
  BY <1>1, SameLatest

(* After a definition point v has the value defined there.                   *)
LEMMA LatestAtDefinition ==
  ASSUME Inv, NEW v \in Var, NEW q \in DefPoints(v), q[1] \in Reachable(code.succ)
  PROVE  /\ Latest(v, q, After(q))
         /\ \A p : Latest(v, p, After(q)) => p = q
<1> USE DEF Inv
<1>1. q \in Point
  BY DefPoint
<1>2. After(q) \in Point /\ After(q)[1] = q[1]
  BY <1>1, BeforeAfter
<1>3. Latest(v, q, After(q))
  BY <1>1, DefPoint, BeforeAfter DEF Latest
<1>4. QED
  BY <1>2, <1>3, LatestUnique

(* The start of a child in the dominator tree and the end of its parent have *)
(* the same definitions before them.                                        *)
LEMMA LatestOfChild ==
  ASSUME Inv, NEW v \in Var, NEW b \in Block, NEW c \in Children(code.succ, b)
  PROVE  \A x : CurrentAt(v, x, <<c, 0>>) <=> CurrentAt(v, x, End(b))
<1> USE DEF Inv
<1>1. c \in Block /\ code.succ \in [Block -> Seq(Block)]
  BY GoodCode DEF Children, Reachable
<1>2. \A p \in DefPoints(v) : Before(p, <<c, 0>>) <=> Before(p, End(b))
  <2>1. TAKE p \in DefPoints(v)
  <2>2. p \in Point /\ p[1] \in Block /\ p[2] <= Len(code.body[p[1]])
    BY DefPoint, PointParts
  <2>3. Before(p, <<c, 0>>) <=> StrictlyDominates(code.succ, p[1], c)
    BY <1>1, <2>2, StartPoint
  <2>4. Before(p, End(b)) <=> Dominates(code.succ, p[1], b)
    BY <2>2, EndPoint
  <2>5. StrictlyDominates(code.succ, p[1], c) <=> Dominates(code.succ, p[1], b)
    BY <1>1, <2>2, ChildFacts
  <2>6. QED
    BY <2>3, <2>4, <2>5
<1>3. QED
  BY <1>2, SameLatest

-----------------------------------------------------------------------------
(* The renaming. First what does not change.                                *)

LEMMA FrameLatest ==
  ASSUME UNCHANGED <<code, phi>>
  PROVE  /\ \A v : DefPoints(v)' = DefPoints(v)
         /\ \A v, p, q : Latest(v, p, q)' <=> Latest(v, p, q)
         /\ \A b : End(b)' = End(b)
<1>1. \A v : DefPoints(v)' = DefPoints(v)
  BY DEF DefPoints, Accesses, Op, VarOf
<1>2. \A p, q : Before(p, q)' <=> Before(p, q)
  BY DEF Before
<1>3. \A v, p, q : Latest(v, p, q)' <=> Latest(v, p, q)
  BY <1>1, <1>2 DEF Latest
<1>4. QED
  BY <1>1, <1>3 DEF End

LEMMA FrameCurrent ==
  ASSUME UNCHANGED <<code, phi, operand>>
  PROVE  /\ \A v, p : ValueOf(v, p)' = ValueOf(v, p)
         /\ \A v, x, q : CurrentAt(v, x, q)' <=> CurrentAt(v, x, q)
<1>1. \A v, p : ValueOf(v, p)' = ValueOf(v, p)
  BY DEF ValueOf
<1>2. /\ \A v : DefPoints(v)' = DefPoints(v)
      /\ \A v, p, q : Latest(v, p, q)' <=> Latest(v, p, q)
  BY FrameLatest
<1>3. \A p, q : Before(p, q)' <=> Before(p, q)
  BY DEF Before
<1>4. QED
  BY <1>1, <1>2, <1>3 DEF CurrentAt

LEMMA FrameUses ==
  ASSUME UNCHANGED <<code, promotable>>
  PROVE  /\ PromotedLoads' = PromotedLoads
         /\ \A n : Op(n)' = Op(n) /\ VarOf(n)' = VarOf(n) /\ Source(n)' = Source(n)
         /\ \A n : Promoted(VarOf(n))' <=> Promoted(VarOf(n))
BY DEF PromotedLoads, Op, VarOf, Source, Promoted

LEMMA PromotedLoad ==
  ASSUME Inv, NEW n \in PromotedLoads
  PROVE  /\ n \in Insts(code) /\ n \in Point /\ n[1] \in Block
         /\ n[1] \in Reachable(code.succ)
         /\ VarOf(n) \in Var /\ VarOf(n) \in ToSet(promotable)
         /\ n \in Accesses("load", VarOf(n)) /\ AccessesPromoted(n)
<1> USE DEF Inv
<1>1. n \in Insts(code) /\ Op(n) = "load" /\ VarOf(n) \in ToSet(promotable)
  BY DEF PromotedLoads, Promoted
<1>2. n \in Point /\ n[1] \in Block
  BY <1>1, InstPoint, PointParts
<1>3. VarOf(n) \in Var
  BY <1>1, PromotedAreVars
<1>4. n \in Accesses("load", VarOf(n)) /\ AccessesPromoted(n)
  BY <1>1 DEF Accesses, AccessesPromoted, Promoted
<1>5. VarOf(n) \notin InvalidAllocs
  BY <1>1 DEF InfosInv, Eligible
<1>6. n[1] \in dominance.reachable
  BY <1>3, <1>4, <1>5 DEF InvalidAllocs
<1>7. QED
  BY <1>1, <1>2, <1>3, <1>4, <1>6, AnalysisIs

(* The blocks with a parameter for a promoted variable are closed under      *)
(* frontiers from the moment it is promotable.                              *)
LEMMA PhiStays ==
  ASSUME Inv, PhiInv, [Next]_vars
  PROVE  PhiInv'
<1> USE DEF Inv
<1> DEFINE Closed(v, P) == Accesses("load", v) # {} => ClosedUnderFrontiers(v, P)
<1>1. CASE UNCHANGED <<code, dominance, phi, promotable>>
  BY <1>1, EligibleFrame DEF PhiInv
<1>2. CASE PlaceBlockArguments
  <2> DEFINE v == Head(infos)
  <2>1. PICK b \in worklist :
          phi' = [phi EXCEPT ![v] = @ \cup (dominance.frontier[b] \ phi[v])]
    BY <1>2 DEF PlaceBlockArguments
  <2>2. /\ pc = "place" /\ infos # <<>>
        /\ UNCHANGED <<code, dominance, promotable>>
    BY <1>2 DEF PlaceBlockArguments, InfosInv
  <2>3. v \in Var /\ v \in ToSet(infos)
    BY <2>2, HeadTail DEF TypeOK
  <2>4. v \notin ToSet(promotable)
    BY <2>2, <2>3 DEF InfosInv
  <2>5. b \in Block
    BY DEF TypeOK
  <2>6. Entry \notin dominance.frontier[b]
    BY <2>5, AnalysisIs DEF Frontier
  <2> HIDE DEF v
  <2>7. /\ phi'[v] = phi[v] \cup (dominance.frontier[b] \ phi[v])
        /\ \A u \in Var : u # v => phi'[u] = phi[u]
    BY <2>1, <2>3 DEF TypeOK
  <2>8. \A u \in Var : Entry \notin phi'[u]
    BY <2>6, <2>7 DEF PhiInv
  <2>9. \A u \in ToSet(promotable) : phi'[u] = phi[u]
    BY <2>4, <2>7, PromotedAreVars
  <2>10. QED
    BY <2>2, <2>8, <2>9, EligibleFrame DEF PhiInv
<1>3. CASE EndPlacing
  <2> DEFINE v == Head(infos)
  <2>1. /\ pc = "place" /\ infos # <<>> /\ worklist = {}
        /\ UNCHANGED <<code, dominance, phi>>
        /\ promotable' = Append(promotable, v) \/ promotable' = promotable
    BY <1>3 DEF EndPlacing, InfosInv
  <2>2. v \in Var
    BY <2>1, HeadTail DEF TypeOK
  <2>3. ToSet(promotable') \subseteq ToSet(promotable) \cup {v}
    <3>1. promotable \in Seq(Var)
      BY DEF TypeOK
    <3> HIDE DEF v
    <3>2. ToSet(Append(promotable, v)) = ToSet(promotable) \cup {v}
      BY <2>2, <3>1, AppendNew
    <3>3. QED
      BY <2>1, <3>2
  <2>4. Accesses("load", v) # {} => ClosedUnderFrontiers(v, phi[v])
    BY <2>1 DEF PlacingInv, ClosedUnderFrontiers
  <2>5. \A u \in ToSet(promotable') : Accesses("load", u) # {} => ClosedUnderFrontiers(u, phi[u])
    BY <2>3, <2>4 DEF PhiInv
  <2>6. QED
    BY <2>1, <2>5, EligibleFrame DEF PhiInv
<1>4. QED
  <2>1. CASE Collect \/ StartPlacing \/ NothingToPromote \/ StartCreating \/ CreateBlockParams
               \/ StartRenaming
    BY <1>1, <2>1 DEF Collect, StartPlacing, NothingToPromote, StartCreating, CreateBlockParams,
       StartRenaming, examination
  <2>2. CASE EnterBlock \/ RenameAlloc \/ RenameLoad \/ RenameStore \/ KeepInstruction
               \/ EndBlock \/ EndRenaming
    BY <1>1, <2>2 DEF EnterBlock, RenameAlloc, RenameLoad, RenameStore, KeepInstruction,
       EndBlock, EndRenaming, examination
  <2>3. CASE Finished \/ UNCHANGED vars
    BY <1>1, <2>3 DEF Finished, vars, examination
  <2>4. QED
    BY <1>2, <1>3, <2>1, <2>2, <2>3 DEF Next

WalkMeaning == CurrentInv /\ StoresInv /\ UsesInv /\ PassedInv

(* Nothing is renamed before the first call.                                *)
LEMMA MeaningBefore ==
  ASSUME Inv, ~Started, ~Started', UNCHANGED renaming
  PROVE  WalkMeaning'
<1> USE DEF Inv
<1>1. calls' = <<>> /\ Len(calls') = 0
  BY DEF BeforeInv, renaming
<1>2. pc' # "rename"
  BY DEF Started
<1>3. CurrentInv'
  BY <1>1, <1>2 DEF CurrentInv
<1>4. QED
  BY <1>3 DEF WalkMeaning, StoresInv, UsesInv, PassedInv

(* At the first call no value is set and no instruction is visited.          *)
LEMMA StartRenamingKeepsMeaning ==
  ASSUME Inv, Inv', StartRenaming
  PROVE  WalkMeaning'
<1> USE DEF Inv
<1>1. /\ pc = "create" /\ pc' = "call"
      /\ calls' = << [block |-> Entry, values |-> values] >>
      /\ UNCHANGED <<code, operand, args, phi, promotable, values>>
  BY DEF StartRenaming, function, examination
<1>2. ~Started /\ Started'
  BY <1>1 DEF Started
<1>3. Entry \in Block /\ code.succ \in [Block -> Seq(Block)]
  BY GoodCode, BlockAssumption DEF BlockAssumption
<1>4. /\ Len(calls') = 1 /\ calls'[1].block = Entry
      /\ \A v \in Var : calls'[1].values[v] = Null
  BY <1>1, <1>2 DEF BeforeInv
<1>5. CurrentInv'
  <2>1. ASSUME NEW v \in Var PROVE CurrentAt(v, Null, <<Entry, 0>>)
    <3>1. ASSUME NEW p \in DefPoints(v) PROVE ~Before(p, <<Entry, 0>>)
      <4>1. p \in Point /\ p[1] \in Block
        BY <3>1, DefPoint, PointParts
      <4>2. ~StrictlyDominates(code.succ, p[1], Entry)
        BY <1>3, <4>1, OnlyEntryDominatesEntry DEF StrictlyDominates
      <4>3. QED
        BY <1>3, <4>1, <4>2, StartPoint
    <3>2. QED
      BY <3>1 DEF CurrentAt
  <2>2. ToSet(promotable) \subseteq Var
    BY PromotedAreVars
  <2>3. \A i \in 1 .. Len(calls') : i = 1
    BY <1>4
  <2>4. \A v, x, q : CurrentAt(v, x, q)' <=> CurrentAt(v, x, q)
    BY <1>1, FrameCurrent
  <2>5. ASSUME NEW i \in 1 .. Len(calls'), NEW v \in ToSet(promotable)
        PROVE  CurrentAt(v, calls[i].values[v], <<calls[i].block, 0>>)'
    <3>1. i = 1 /\ calls'[i].values[v] = Null /\ calls'[i].block = Entry
      BY <1>4, <2>2, <2>3
    <3>2. CurrentAt(v, calls'[i].values[v], <<calls'[i].block, 0>>)
      BY <2>1, <2>2, <3>1
    <3>3. QED
      BY <2>4, <3>2
  <2>6. QED
    BY <1>1, <2>5 DEF CurrentInv
<1>6. ASSUME NEW b \in Block PROVE ~Renamed(b)' /\ ~Running(b)'
  <2>1. Dominates(code.succ, Entry, b) /\ 1 \in 1 .. Len(calls')
    BY <1>3, <1>4, EntryDominates
  <2>2. Pending(b)'
    BY <1>1, <1>4, <2>1 DEF Pending
  <2>3. QED
    BY <1>1, <2>2 DEF Renamed, Running
<1>7. \A n \in Insts(code) : ~Visited(n)'
  BY <1>6, InstAt DEF Visited
<1>8. Insts(code)' = Insts(code)
  BY <1>1
<1>9. StoresInv' /\ PassedInv'
  BY <1>6, <1>7, <1>8 DEF StoresInv, PassedInv
<1>10. UsesInv'
  <2>1. \A m \in Insts(code) : operand'[m] = Source(m)
    BY <1>1, <1>2 DEF BeforeInv, Source
  <2>2. \A n \in PromotedLoads' : ~Visited(n)'
    BY <1>7, <1>8 DEF PromotedLoads
  <2>3. \A n : Source(n)' = Source(n)
    BY <1>1, FrameUses
  <2>4. QED
    BY <1>8, <2>1, <2>2, <2>3 DEF UsesInv
<1>11. QED
  BY <1>5, <1>9, <1>10 DEF WalkMeaning

(* Without anything to promote the pass is done.                            *)
LEMMA NothingToPromoteKeepsMeaning ==
  ASSUME Inv, NothingToPromote
  PROVE  WalkMeaning'
<1> USE DEF Inv
<1>1. /\ pc = "examine" /\ pc' = "done" /\ promotable = <<>>
      /\ UNCHANGED <<code, operand, args, promotable, calls>>
  BY DEF NothingToPromote, function, examination, renaming
<1>2. ~Started
  BY <1>1 DEF Started
<1>3. ToSet(promotable') = {}
  BY <1>1, EmptySeqs
<1>4. CurrentInv'
  BY <1>1, <1>3 DEF CurrentInv
<1>5. StoresInv'
  BY <1>3 DEF StoresInv, Promoted
<1>6. PromotedLoads' = {}
  BY <1>3 DEF PromotedLoads, Promoted
<1>7. UsesInv'
  <2>1. \A m \in Insts(code) : operand'[m] = Source(m)
    BY <1>1, <1>2 DEF BeforeInv, Source
  <2>2. \A n : Source(n)' = Source(n)
    BY <1>1, FrameUses
  <2>3. Insts(code)' = Insts(code)
    BY <1>1
  <2>4. QED
    BY <1>6, <2>1, <2>2, <2>3 DEF UsesInv
<1>8. PassedInv'
  <2>1. \A b \in Block : \A e \in 1 .. Len(args[b]) : args[b][e] = <<>>
    <3>1. \A b \in Block : Len(args[b]) = Len(code.succ[b])
      BY DEF TypeOK
    <3>2. QED
      BY <1>2, <3>1 DEF BeforeInv
  <2>2. ASSUME NEW b \in Block, NEW e \in 1 .. Len(args[b]) PROVE Len(args[b][e]) = 0
    BY <2>1
  <2>3. QED
    BY <1>1, <2>2 DEF PassedInv
<1>9. QED
  BY <1>4, <1>5, <1>7, <1>8 DEF WalkMeaning

-----------------------------------------------------------------------------
(* A step over the next instruction n of the running block.                 *)

LEMMA StepOverReached ==
  ASSUME Inv, NEW n, StepOver(n), NEW k \in Nat, Reached(k)
  PROVE  /\ n = <<block, k>> /\ n \in Point /\ n[1] \in Reachable(code.succ)
         /\ After(n) = <<block, k + 1>>
         /\ Reached(k + 1)' /\ k + 1 \in Nat
<1> USE DEF Inv
<1>1. n \in rest /\ IsNext(n) /\ rest' = rest \ {n} /\ UNCHANGED <<code, block>>
  BY DEF StepOver
<1>2. pc = "rename" /\ block \in Block /\ block \in Reachable(code.succ)
  BY <1>1, RunningBlock DEF IsNext
<1>3. n \in InstsOf(code, block) /\ n \in Insts(code) /\ n[1] = block
  BY <1>1, NextInst
<1>4. n \in Point /\ n[2] \in Nat /\ n[2] \in 1 .. Len(code.body[block]) /\ n = <<block, n[2]>>
  BY <1>3, InstPosition, InstPoint
<1>5. Len(code.body[block]) \in Nat
  BY <1>2, GoodCode
<1>6. /\ k \in 1 .. Len(code.body[block]) + 1
      /\ rest = {m \in InstsOf(code, block) : k <= m[2]}
  BY DEF Reached
<1>7. k <= n[2]
  BY <1>1, <1>6
<1>8. k \in 1 .. Len(code.body[block])
  BY <1>4, <1>5, <1>6, <1>7
<1>9. <<block, k>> \in rest
  BY <1>6, <1>8 DEF InstsOf
<1>10. n[2] <= k
  <2>1. \A m \in rest : n[2] <= m[2]
    BY <1>1 DEF IsNext
  <2>2. n[2] <= <<block, k>>[2]
    BY <1>9, <2>1
  <2>3. QED
    BY <2>2
<1>11. n[2] = k
  BY <1>4, <1>7, <1>10
<1>12. rest' = {m \in InstsOf(code, block) : k + 1 <= m[2]}
  <2>1. ASSUME NEW m \in InstsOf(code, block)
        PROVE  k <= m[2] /\ m # n <=> k + 1 <= m[2]
    <3>1. m[2] \in Nat /\ m = <<block, m[2]>>
      BY <1>5 DEF InstsOf
    <3>2. m # n <=> m[2] # k
      BY <1>4, <1>11, <3>1
    <3>3. QED
      BY <3>1, <3>2
  <2>2. QED
    BY <1>1, <1>6, <2>1
<1>13. k + 1 \in 1 .. Len(code.body[block]) + 1
  BY <1>5, <1>8
<1>14. Reached(k + 1)'
  BY <1>1, <1>12, <1>13 DEF Reached
<1>15. After(n) = <<block, k + 1>>
  BY <1>3, <1>11 DEF After
<1>16. QED
  BY <1>2, <1>3, <1>4, <1>11, <1>14, <1>15

LEMMA StepOverVisited ==
  ASSUME Inv, NEW n, StepOver(n)
  PROVE  /\ \A x \in Insts(code) : Visited(x)' <=> Visited(x) \/ x = n
         /\ ~Visited(n)
<1> USE DEF Inv
<1>1. /\ n \in rest /\ IsNext(n) /\ rest' = rest \ {n}
      /\ UNCHANGED <<code, pc, calls, block>>
  BY DEF StepOver
<1>2. pc = "rename" /\ n[1] = block /\ Running(block) /\ ~Renamed(block)
  BY <1>1, NextInst, RunningBlock DEF IsNext
<1>3. \A b : (Renamed(b)' <=> Renamed(b)) /\ (Running(b)' <=> Running(b))
  BY <1>1, FrameBlocks
<1>4. QED
  BY <1>1, <1>2, <1>3 DEF Visited

(* The current values after the step, if it replaces nothing.               *)
LEMMA StepOverCurrent ==
  ASSUME Inv, CurrentInv, NEW n, StepOver(n), operand' = operand,
         \A v \in ToSet(promotable) :
           \/ values'[v] = values[v] /\ n \notin DefPoints(v)
           \/ n \in DefPoints(v) /\ values'[v] = ValueOf(v, n)
  PROVE  CurrentInv'
<1> USE DEF Inv
<1>1. UNCHANGED <<code, pc, promotable, phi, block, calls>> /\ pc = "rename"
  BY DEF StepOver, IsNext
<1>2. PICK k \in Nat :
        Reached(k) /\ \A v \in ToSet(promotable) : CurrentAt(v, values[v], <<block, k>>)
  BY <1>1 DEF CurrentInv
<1>3. /\ n = <<block, k>> /\ n \in Point /\ n[1] \in Reachable(code.succ)
      /\ After(n) = <<block, k + 1>> /\ Reached(k + 1)' /\ k + 1 \in Nat
  BY <1>2, StepOverReached
<1>4. \A v, x, q : CurrentAt(v, x, q)' <=> CurrentAt(v, x, q)
  BY <1>1, FrameCurrent
<1>5. ASSUME NEW v \in ToSet(promotable) PROVE CurrentAt(v, values'[v], After(n))
  <2>1. v \in Var
    BY PromotedAreVars
  <2>2. CASE values'[v] = values[v] /\ n \notin DefPoints(v)
    <3>1. CurrentAt(v, values[v], n)
      BY <1>2, <1>3
    <3>2. CurrentAt(v, values[v], After(n))
      BY <1>3, <2>1, <2>2, <3>1, LatestSkips
    <3>3. QED
      BY <2>2, <3>2
  <2>3. CASE n \in DefPoints(v) /\ values'[v] = ValueOf(v, n)
    <3>1. Latest(v, n, After(n))
      BY <1>3, <2>1, <2>3, LatestAtDefinition
    <3>2. QED
      BY <2>3, <3>1 DEF CurrentAt
  <2>4. QED
    BY <2>2, <2>3
<1>6. \A v \in ToSet(promotable) : CurrentAt(v, values[v], <<block, k + 1>>)'
  BY <1>1, <1>3, <1>4, <1>5
<1>7. \E j \in Nat : /\ Reached(j)'
                      /\ \A v \in ToSet(promotable) : CurrentAt(v, values[v], <<block, j>>)'
  BY <1>3, <1>6
<1>8. \A i \in 1 .. Len(calls') : \A v \in ToSet(promotable') :
        CurrentAt(v, calls[i].values[v], <<calls[i].block, 0>>)'
  BY <1>1, <1>4 DEF CurrentInv
<1>9. QED
  BY <1>1, <1>7, <1>8 DEF CurrentInv

LEMMA StepOverStores ==
  ASSUME Inv, StoresInv, NEW n, StepOver(n),
         \A x \in Insts(code) :
           Visited(x) /\ Op(x) = "store" /\ Promoted(VarOf(x)) => operand'[x] = operand[x],
         Op(n) = "store" /\ Promoted(VarOf(n)) =>
           /\ operand'[n] = operand[n]
           /\ Final(operand[n], block, InstsOf(code, block) \ rest)
  PROVE  StoresInv'
<1> USE DEF Inv
<1>1. /\ UNCHANGED <<code, params, promotable>> /\ Started
      /\ n \in rest /\ IsNext(n)
  BY DEF StepOver, IsNext, Started
<1>2. \A x, b, S : Final(x, b, S)' <=> Final(x, b, S)
  BY <1>1, FrameFinal
<1>3. \A x : /\ Op(x)' = Op(x) /\ (Promoted(VarOf(x))' <=> Promoted(VarOf(x)))
  BY <1>1, FrameUses
<1>4. ASSUME NEW x \in Insts(code), Op(x) = "store", Promoted(VarOf(x)), Visited(x)'
      PROVE  Final(operand'[x], x[1], {m \in InstsOf(code, x[1]) : m[2] < x[2]})
  <2>1. CASE Visited(x)
    BY <1>1, <1>4, <2>1 DEF StoresInv
  <2>2. CASE x = n
    <3>1. /\ n[1] = block
          /\ \A m \in InstsOf(code, block) : m \notin rest <=> m[2] < n[2]
      BY <1>1, NextInst
    <3>2. InstsOf(code, block) \ rest = {m \in InstsOf(code, n[1]) : m[2] < n[2]}
      BY <3>1
    <3>3. QED
      BY <1>4, <2>2, <3>1, <3>2
  <2>3. QED
    BY <1>4, <2>1, <2>2, StepOverVisited
<1>5. ASSUME NEW x \in Insts(code), Op(x) = "store", Promoted(VarOf(x)), Visited(x)'
      PROVE  Final(operand[x], x[1], {m \in InstsOf(code, x[1]) : m[2] < x[2]})'
  <2>1. Final(operand'[x], x[1], {m \in InstsOf(code, x[1]) : m[2] < x[2]})
    BY <1>4, <1>5
  <2>2. QED
    BY <1>1, <1>2, <2>1
<1>6. QED
  BY <1>1, <1>3, <1>5 DEF StoresInv

(* No argument is passed and nothing is replaced.                           *)
LEMMA StepOverRest ==
  ASSUME Inv, UsesInv, PassedInv, NEW n, StepOver(n), UNCHANGED <<operand, args>>,
         n \notin PromotedLoads
  PROVE  UsesInv' /\ PassedInv'
<1> USE DEF Inv
<1>1. UNCHANGED <<code, pc, params, promotable, phi, calls, block>> /\ Started /\ Started'
  BY DEF StepOver, IsNext, Started
<1>2. /\ \A v : DefPoints(v)' = DefPoints(v)
      /\ \A v, p, q : Latest(v, p, q)' <=> Latest(v, p, q)
      /\ \A b : End(b)' = End(b)
      /\ \A v, p : ValueOf(v, p)' = ValueOf(v, p)
      /\ \A v, x, q : CurrentAt(v, x, q)' <=> CurrentAt(v, x, q)
  BY <1>1, FrameLatest, FrameCurrent
<1>3. /\ PromotedLoads' = PromotedLoads
      /\ \A x : VarOf(x)' = VarOf(x) /\ Source(x)' = Source(x)
  BY <1>1, FrameUses
<1>4. \A x \in PromotedLoads : Visited(x)' <=> Visited(x)
  BY StepOverVisited DEF PromotedLoads
<1>5. UsesInv'
  BY <1>1, <1>2, <1>3, <1>4 DEF UsesInv
<1>6. \A b : Renamed(b)' <=> Renamed(b)
  BY <1>1, FrameBlocks
<1>7. PassedInv'
  BY <1>1, <1>2, <1>6 DEF PassedInv
<1>8. QED
  BY <1>5, <1>7

LEMMA RenameAllocKeepsMeaning ==
  ASSUME Inv, WalkMeaning, RenameAlloc
  PROVE  WalkMeaning'
<1> USE DEF Inv, WalkMeaning
<1>1. PICK n \in rest : /\ IsNext(n) /\ Op(n) = "alloc" /\ EraseInstruction(n)
                        /\ AccessesPromoted(n)
  BY DEF RenameAlloc
<1>2. UNCHANGED <<operand, args, values>> /\ StepOver(n)
  BY <1>1 DEF RenameAlloc, EraseInstruction, StepOver, examination
<1>3. n \in Insts(code) /\ n[2] # 0
  BY <1>1, NextInst, InstPoint
<1>4. \A v \in Var : n \notin DefPoints(v)
  BY <1>1, <1>3, DefPoint DEF Accesses
<1>5. n \notin PromotedLoads
  BY <1>1 DEF PromotedLoads
<1>6. CurrentInv'
  BY <1>2, <1>4, StepOverCurrent, PromotedAreVars
<1>7. StoresInv'
  BY <1>1, <1>2, StepOverStores
<1>8. QED
  BY <1>2, <1>5, <1>6, <1>7, StepOverRest

LEMMA KeepInstructionKeepsMeaning ==
  ASSUME Inv, WalkMeaning, KeepInstruction
  PROVE  WalkMeaning'
<1> USE DEF Inv, WalkMeaning
<1>1. PICK n \in rest : IsNext(n) /\ ~AccessesPromoted(n) /\ rest' = rest \ {n}
  BY DEF KeepInstruction
<1>2. UNCHANGED <<operand, args, values>> /\ StepOver(n)
  <2>1. insts' = insts /\ insts \in [Block -> SUBSET Insts(code)] /\ block \in Block
    BY <1>1, RunningBlock DEF KeepInstruction, function, TypeOK, IsNext
  <2>2. insts' = [insts EXCEPT ![block] = IF AccessesPromoted(n) THEN @ \ {n} ELSE @]
    BY <1>1, <2>1
  <2>3. QED
    BY <1>1, <2>2 DEF KeepInstruction, StepOver, examination, function
<1>3. n \in Insts(code) /\ n[2] # 0
  BY <1>1, NextInst, InstPoint
<1>4. ~(Op(n) \in {"load", "store"} /\ Promoted(VarOf(n)))
  BY <1>1 DEF AccessesPromoted
<1>5. \A v \in ToSet(promotable) : n \notin DefPoints(v)
  BY <1>3, <1>4, DefPoint, PromotedAreVars DEF Accesses, Promoted
<1>6. n \notin PromotedLoads
  BY <1>4 DEF PromotedLoads
<1>7. CurrentInv'
  BY <1>2, <1>5, StepOverCurrent
<1>8. StoresInv'
  BY <1>2, <1>4, StepOverStores
<1>9. QED
  BY <1>2, <1>6, <1>7, <1>8, StepOverRest

LEMMA RenameStoreKeepsMeaning ==
  ASSUME Inv, WalkMeaning, RenameStore
  PROVE  WalkMeaning'
<1> USE DEF Inv, WalkMeaning
<1>1. PICK n \in rest : /\ IsNext(n) /\ AccessesPromoted(n) /\ Op(n) = "store"
                        /\ values' = [values EXCEPT ![VarOf(n)] = operand[n]]
                        /\ EraseInstruction(n)
  BY DEF RenameStore
<1>2. UNCHANGED <<operand, args>> /\ StepOver(n)
  BY <1>1 DEF RenameStore, EraseInstruction, StepOver, examination
<1>3. n \in Insts(code) /\ n[2] # 0
  BY <1>1, NextInst, InstPoint
<1>4. VarOf(n) \in Var
  BY <1>1, PromotedAreVars DEF AccessesPromoted, Promoted
<1>5. /\ values'[VarOf(n)] = operand[n]
      /\ \A v \in Var : v # VarOf(n) => values'[v] = values[v]
  BY <1>1, <1>4 DEF TypeOK
<1>6. \A v \in Var : n \in DefPoints(v) <=> v = VarOf(n)
  <2>1. n \in DefPoints(VarOf(n))
    BY <1>1, <1>3 DEF DefPoints, Accesses
  <2>2. QED
    BY <1>3, <2>1, DefPoint DEF Accesses
<1>7. ValueOf(VarOf(n), n) = operand[n]
  BY <1>3 DEF ValueOf
<1>8. ASSUME NEW v \in ToSet(promotable)
      PROVE  \/ values'[v] = values[v] /\ n \notin DefPoints(v)
             \/ n \in DefPoints(v) /\ values'[v] = ValueOf(v, n)
  <2>1. v \in Var
    BY PromotedAreVars
  <2>2. CASE v = VarOf(n)
    BY <1>5, <1>6, <1>7, <2>1, <2>2
  <2>3. CASE v # VarOf(n)
    BY <1>5, <1>6, <2>1, <2>3
  <2>4. QED
    BY <2>2, <2>3
<1>9. CurrentInv'
  BY <1>2, <1>8, StepOverCurrent
<1>10. Final(operand[n], block, InstsOf(code, block) \ rest)
  BY <1>1, NextOperandFinal
<1>11. StoresInv'
  BY <1>2, <1>10, StepOverStores
<1>12. n \notin PromotedLoads
  BY <1>1 DEF PromotedLoads
<1>13. QED
  BY <1>2, <1>9, <1>11, <1>12, StepOverRest

-----------------------------------------------------------------------------
(* A load is replaced by the value of the latest definition before it. The   *)
(* replacement goes through operands and values alike, so what was equal      *)
(* stays equal.                                                             *)

LEMMA LoadReplaces ==
  ASSUME Inv, Started, NEW n \in Insts(code), AccessesPromoted(n), NEW w,
         ReplaceAllUses(Result(n), w), UNCHANGED <<code, phi>>
  PROVE  /\ \A m \in Insts(code) :
              operand'[m] = IF operand[m] = Result(n) THEN w ELSE operand[m]
         /\ \A v \in Var : \A p \in DefPoints(v) :
              ValueOf(v, p)' = IF ValueOf(v, p) = Result(n) THEN w ELSE ValueOf(v, p)
         /\ \A v \in Var : \A x, q : CurrentAt(v, x, q) /\ x # Result(n) => CurrentAt(v, x, q)'
<1> USE DEF Inv
<1>1. \A m \in Insts(code) : operand'[m] = IF operand[m] = Result(n) THEN w ELSE operand[m]
  BY DEF ReplaceAllUses
<1>2. ASSUME NEW v \in Var, NEW p \in DefPoints(v)
      PROVE  ValueOf(v, p)' = IF ValueOf(v, p) = Result(n) THEN w ELSE ValueOf(v, p)
  <2>1. CASE p[2] = 0
    BY <2>1, ValueKinds DEF ValueOf
  <2>2. CASE p[2] # 0
    <3>1. p \in Insts(code)
      BY <2>2, DefPoint
    <3>2. ValueOf(v, p) = operand[p] /\ ValueOf(v, p)' = operand'[p]
      BY <2>2 DEF ValueOf
    <3>3. QED
      BY <1>1, <3>1, <3>2
  <2>3. QED
    BY <2>1, <2>2
<1>3. /\ \A v : DefPoints(v)' = DefPoints(v)
      /\ \A v, p, q : Latest(v, p, q)' <=> Latest(v, p, q)
  BY FrameLatest
<1>4. \A p, q : Before(p, q)' <=> Before(p, q)
  BY DEF Before
<1>5. ASSUME NEW v \in Var, NEW x, NEW q, CurrentAt(v, x, q), x # Result(n)
      PROVE  CurrentAt(v, x, q)'
  <2>1. CASE \E p \in DefPoints(v) : Latest(v, p, q) /\ x = ValueOf(v, p)
    <3>1. PICK p \in DefPoints(v) : Latest(v, p, q) /\ x = ValueOf(v, p)
      BY <2>1
    <3>2. x = ValueOf(v, p)'
      BY <1>2, <1>5, <3>1
    <3>3. p \in DefPoints(v)' /\ Latest(v, p, q)'
      BY <1>3, <3>1
    <3>4. QED
      BY <3>2, <3>3 DEF CurrentAt
  <2>2. CASE x = Null /\ \A p \in DefPoints(v) : ~Before(p, q)
    BY <1>3, <1>4, <2>2 DEF CurrentAt
  <2>3. QED
    BY <1>5, <2>1, <2>2 DEF CurrentAt
<1>6. QED
  BY <1>1, <1>2, <1>5

LEMMA RenameLoadKeepsMeaning ==
  ASSUME Inv, WalkMeaning, RenameLoad
  PROVE  WalkMeaning'
<1> USE DEF Inv, WalkMeaning
<1>1. PICK n \in rest : /\ IsNext(n) /\ AccessesPromoted(n) /\ Op(n) = "load"
                        /\ ReplaceAllUses(Result(n), values[VarOf(n)])
                        /\ EraseInstruction(n)
  BY DEF RenameLoad
<1> DEFINE v == VarOf(n)
           w == values[v]
<1>2. UNCHANGED values /\ StepOver(n)
  BY <1>1 DEF RenameLoad, EraseInstruction, StepOver, examination
<1>3. /\ pc = "rename" /\ Started /\ Started'
      /\ UNCHANGED <<code, pc, params, phi, promotable, calls, block>>
  BY <1>1, <1>2 DEF IsNext, Started, StepOver
<1>4. /\ n \in Insts(code) /\ n \in PromotedLoads /\ v \in Var /\ v \in ToSet(promotable)
  BY <1>1, NextInst, PromotedAreVars DEF PromotedLoads, AccessesPromoted, Promoted
<1>5. w \in Values(code) /\ w # Null /\ w # Result(n)
  <2>1. w \in Values(code) /\ Final(w, block, InstsOf(code, block) \ rest)
    BY <1>1, ValueOfLoad
  <2>2. QED
    BY <1>1, <2>1, FinalStays, GoodCode
<1>6. args' = args
  BY <1>1, <1>3, LoadKeepsArgs
<1>7. /\ \A m \in Insts(code) :
           operand'[m] = IF operand[m] = Result(n) THEN w ELSE operand[m]
      /\ \A u \in Var : \A p \in DefPoints(u) :
           ValueOf(u, p)' = IF ValueOf(u, p) = Result(n) THEN w ELSE ValueOf(u, p)
      /\ \A u \in Var : \A x, q : CurrentAt(u, x, q) /\ x # Result(n) => CurrentAt(u, x, q)'
  BY <1>1, <1>3, <1>4, LoadReplaces
<1>8. PICK k \in Nat :
        Reached(k) /\ \A u \in ToSet(promotable) : CurrentAt(u, values[u], <<block, k>>)
  BY <1>3 DEF CurrentInv
<1>9. /\ n = <<block, k>> /\ n \in Point /\ n[1] \in Reachable(code.succ)
      /\ After(n) = <<block, k + 1>> /\ Reached(k + 1)' /\ k + 1 \in Nat
  BY <1>2, <1>8, StepOverReached
<1>10. n[2] # 0 /\ \A u \in Var : n \notin DefPoints(u)
  <2>1. n[2] # 0
    BY <1>4, InstPoint
  <2>2. QED
    BY <1>1, <2>1, DefPoint DEF Accesses
<1>11. ASSUME NEW u \in Var, NEW b, NEW S, NEW x, x = Null \/ Final(x, b, S)
       PROVE  x # Result(n)
  <2>1. Result(n) # Null
    BY <1>4, ValueIn, GoodCode
  <2>2. QED
    BY <1>1, <1>11, <2>1, FinalStays
<1> HIDE DEF v, w
<1>12. CurrentInv'
  <2>1. ASSUME NEW u \in ToSet(promotable) PROVE CurrentAt(u, values[u], <<block, k + 1>>)'
    <3>1. u \in Var
      BY PromotedAreVars
    <3>2. CurrentAt(u, values[u], After(n))
      BY <1>8, <1>9, <1>10, <3>1, LatestSkips
    <3>3. values[u] # Result(n)
      BY <1>3, <1>11, <3>1 DEF ValuesInv
    <3>4. CurrentAt(u, values[u], After(n))'
      <4>1. \A x, q : CurrentAt(u, x, q) /\ x # Result(n) => CurrentAt(u, x, q)'
        BY <1>7, <3>1
      <4>2. \A x, q : x = values[u] /\ q = After(n) => CurrentAt(u, x, q)'
        BY <3>2, <3>3, <4>1
      <4>3. values' = values /\ After(n)' = After(n)
        BY <1>2 DEF After
      <4>4. QED
        BY <4>2, <4>3
    <3>5. QED
      BY <1>3, <1>9, <3>4
  <2>2. ASSUME NEW i \in 1 .. Len(calls), NEW u \in ToSet(promotable)
        PROVE  CurrentAt(u, calls[i].values[u], <<calls[i].block, 0>>)'
    <3>1. u \in Var
      BY PromotedAreVars
    <3>2. CurrentAt(u, calls[i].values[u], <<calls[i].block, 0>>)
      BY DEF CurrentInv
    <3>3. calls[i].values[u] # Result(n)
      BY <1>11, <3>1 DEF ValuesInv
    <3>4. \A x, q : x = calls[i].values[u] /\ q = <<calls[i].block, 0>> => CurrentAt(u, x, q)'
      BY <1>7, <3>1, <3>2, <3>3
    <3>5. QED
      BY <1>3, <3>4
  <2>3. \E j \in Nat : /\ Reached(j)'
                        /\ \A u \in ToSet(promotable) : CurrentAt(u, values[u], <<block, j>>)'
    BY <1>9, <2>1
  <2>4. QED
    BY <1>3, <2>2, <2>3 DEF CurrentInv
<1>13. StoresInv'
  <2>1. ASSUME NEW x \in Insts(code), Visited(x), Op(x) = "store", Promoted(VarOf(x))
        PROVE  operand'[x] = operand[x]
    <3>1. Final(operand[x], x[1], {m \in InstsOf(code, x[1]) : m[2] < x[2]})
      BY <1>3, <2>1 DEF StoresInv
    <3>2. operand[x] # Result(n)
      BY <1>1, <3>1, FinalStays
    <3>3. QED
      BY <1>7, <3>2
  <2>2. QED
    BY <1>1, <1>2, <2>1, StepOverStores
<1>14. UsesInv'
  <2>1. /\ \A u : DefPoints(u)' = DefPoints(u)
        /\ \A u, p, q : Latest(u, p, q)' <=> Latest(u, p, q)
        /\ PromotedLoads' = PromotedLoads /\ Insts(code)' = Insts(code)
        /\ \A x : VarOf(x)' = VarOf(x) /\ Source(x)' = Source(x)
    BY <1>3, FrameLatest, FrameUses
  <2>2. /\ \A x \in Insts(code) : Visited(x)' <=> Visited(x) \/ x = n
        /\ ~Visited(n)
    BY <1>2, StepOverVisited
  <2>3. ASSUME NEW l \in PromotedLoads, Visited(l)'
        PROVE  \E p \in DefPoints(VarOf(l)) :
                 /\ Latest(VarOf(l), p, l)
                 /\ \A m \in Insts(code) :
                      Source(m) = Result(l) => operand'[m] = ValueOf(VarOf(l), p)'
    <3>1. l \in Insts(code) /\ VarOf(l) \in Var
      BY PromotedLoad
    <3>2. CASE l = n
      <4>1. PICK p \in DefPoints(v) : Latest(v, p, n) /\ w = ValueOf(v, p)
        <5>1. CurrentAt(v, w, n)
          BY <1>4, <1>8, <1>9 DEF w
        <5>2. QED
          BY <1>5, <5>1 DEF CurrentAt
      <4>2. ValueOf(v, p)' = w
        <5>1. v' = v
          BY <1>3 DEF v, VarOf
        <5>2. QED
          BY <1>4, <1>5, <1>7, <4>1, <5>1
      <4>3. ASSUME NEW m \in Insts(code), Source(m) = Result(n) PROVE operand'[m] = w
        <5>1. \A x \in PromotedLoads : Visited(x) => Source(m) # Result(x)
          BY <2>2, <4>3, ValueKinds
        <5>2. operand[m] = Result(n)
          BY <1>3, <4>3, <5>1 DEF UsesInv
        <5>3. QED
          BY <1>7, <5>2
      <4>4. QED
        BY <3>2, <4>1, <4>2, <4>3 DEF v
    <3>3. CASE l # n
      <4>1. Visited(l)
        BY <2>2, <2>3, <3>1, <3>3
      <4>2. PICK p \in DefPoints(VarOf(l)) :
              /\ Latest(VarOf(l), p, l)
              /\ \A m \in Insts(code) : Source(m) = Result(l) => operand[m] = ValueOf(VarOf(l), p)
        BY <1>3, <4>1 DEF UsesInv
      <4>3. ASSUME NEW m \in Insts(code), Source(m) = Result(l)
            PROVE  operand'[m] = ValueOf(VarOf(l), p)'
        <5>1. operand[m] = ValueOf(VarOf(l), p)
          BY <4>2, <4>3
        <5>2. VarOf(l)' = VarOf(l)
          BY <2>1
        <5>3. QED
          BY <1>7, <3>1, <5>1, <5>2
      <4>4. QED
        BY <4>2, <4>3
    <3>4. QED
      BY <3>2, <3>3
  <2>4. ASSUME NEW m \in Insts(code),
               \A l \in PromotedLoads : Visited(l)' => Source(m) # Result(l)
        PROVE  operand'[m] = Source(m)
    <3>1. \A l \in PromotedLoads : Visited(l) => Source(m) # Result(l)
      BY <2>2, <2>4 DEF PromotedLoads
    <3>2. operand[m] = Source(m)
      BY <1>3, <3>1 DEF UsesInv
    <3>3. Source(m) # Result(n)
      BY <1>4, <2>2, <2>4
    <3>4. QED
      BY <1>7, <3>2, <3>3
  <2>5. /\ \A l \in PromotedLoads' :
             Visited(l)' =>
               \E p \in DefPoints(VarOf(l))' :
                 /\ Latest(VarOf(l), p, l)'
                 /\ \A m \in Insts(code)' :
                      Source(m)' = Result(l) => operand'[m] = ValueOf(VarOf(l), p)'
        /\ \A m \in Insts(code)' :
             (\A l \in PromotedLoads' : Visited(l)' => Source(m)' # Result(l)) =>
               operand'[m] = Source(m)'
    <3>1. \A l \in PromotedLoads :
            /\ DefPoints(VarOf(l))' = DefPoints(VarOf(l))
            /\ \A p : Latest(VarOf(l), p, l)' <=> Latest(VarOf(l), p, l)
      <4>1. \A l : VarOf(l)' = VarOf(l)
        BY <2>1
      <4>2. UNCHANGED <<code, phi>>
        BY <1>3
      <4>3. QED
        BY <4>1, <4>2 DEF DefPoints, Latest, Before, Accesses, Op, VarOf
    <3>2. QED
      BY <2>1, <2>3, <2>4, <3>1
  <2>6. QED
    BY <1>3, <2>5 DEF UsesInv
<1>15. PassedInv'
  <2>1. \A b : (Renamed(b)' <=> Renamed(b)) /\ End(b)' = End(b)
    BY <1>3, FrameBlocks, FrameLatest
  <2>2. ASSUME NEW b \in Block, Renamed(b), NEW e \in 1 .. Len(args[b]),
               NEW m \in 1 .. Len(args[b][e])
        PROVE  CurrentAt(params[code.succ[b][e]][m], args[b][e][m], End(b))'
    <3> DEFINE t == code.succ[b][e]
               u == params[t][m]
    <3>1. CurrentAt(u, args[b][e][m], End(b))
      BY <1>3, <2>2 DEF PassedInv
    <3>2. Final(args[b][e][m], b, InstsOf(code, b)) /\ Len(args[b][e]) = Len(params[t])
      BY <1>3, <2>2 DEF ArgsInv
    <3>3. args[b][e][m] # Result(n)
      BY <1>1, <3>2, FinalStays
    <3>4. u \in Var
      <4>1. t \in Block
        <5>1. code.succ[b] \in Seq(Block) /\ Len(args[b]) = Len(code.succ[b])
          BY GoodCode DEF TypeOK
        <5>2. QED
          BY <5>1, ElementOf
      <4>2. params[t] \in Seq(Var) /\ m \in 1 .. Len(params[t])
        BY <3>2, <4>1 DEF TypeOK
      <4>3. QED
        BY <4>2, ElementOf
    <3> HIDE DEF t, u
    <3>5. u' = u
      BY <1>3 DEF u, t
    <3>6. \A x, q : x = args[b][e][m] /\ q = End(b) => CurrentAt(u, x, q)'
      BY <1>7, <3>1, <3>3, <3>4, <3>5
    <3>7. CurrentAt(u, args[b][e][m], End(b))'
      BY <1>6, <2>1, <3>6
    <3>8. QED
      BY <3>7 DEF t, u
  <2>3. QED
    BY <1>3, <1>6, <2>1, <2>2 DEF PassedInv
<1>16. QED
  BY <1>12, <1>13, <1>14, <1>15

-----------------------------------------------------------------------------
(* From block to block.  No instruction is visited and nothing is replaced.  *)

LEMMA SameVisitedKeepsMeaning ==
  ASSUME Inv, StoresInv, UsesInv, Started, Started',
         UNCHANGED <<code, phi, promotable, operand, params>>,
         \A x \in Insts(code) : Visited(x)' <=> Visited(x)
  PROVE  StoresInv' /\ UsesInv'
<1>1. /\ \A v : DefPoints(v)' = DefPoints(v)
      /\ \A v, p, q : Latest(v, p, q)' <=> Latest(v, p, q)
      /\ \A v, p : ValueOf(v, p)' = ValueOf(v, p)
  BY FrameLatest, FrameCurrent
<1>2. /\ PromotedLoads' = PromotedLoads
      /\ \A x : Op(x)' = Op(x) /\ VarOf(x)' = VarOf(x) /\ Source(x)' = Source(x)
      /\ \A x : Promoted(VarOf(x))' <=> Promoted(VarOf(x))
  BY FrameUses
<1>3. \A x, b, S : Final(x, b, S)' <=> Final(x, b, S)
  BY FrameFinal
<1>4. StoresInv'
  <2>1. ASSUME NEW x \in Insts(code), Op(x) = "store", Promoted(VarOf(x)), Visited(x)
        PROVE  Final(operand[x], x[1], {m \in InstsOf(code, x[1]) : m[2] < x[2]})'
    <3>1. Final(operand[x], x[1], {m \in InstsOf(code, x[1]) : m[2] < x[2]})
      BY <2>1 DEF StoresInv
    <3>2. QED
      BY <1>3, <3>1
  <2>2. QED
    BY <1>2, <2>1 DEF StoresInv
<1>5. \A x \in PromotedLoads : Visited(x)' <=> Visited(x)
  BY DEF PromotedLoads
<1>6. UsesInv'
  BY <1>1, <1>2, <1>5 DEF UsesInv
<1>7. QED
  BY <1>4, <1>6

LEMMA EnterBlockKeepsMeaning ==
  ASSUME Inv, WalkMeaning, EnterBlock
  PROVE  WalkMeaning'
<1> USE DEF Inv, WalkMeaning
<1>1. /\ pc = "call" /\ pc' = "rename" /\ Started /\ Started'
      /\ 1 \in 1 .. Len(calls) /\ block' = calls[1].block
      /\ \A i \in 1 .. Len(calls') :
           i + 1 \in 1 .. Len(calls) /\ calls'[i] = calls[i + 1] /\ i + 1 # 1
      /\ block' \in Block /\ block' \in Reachable(code.succ)
      /\ rest' = insts[block'] /\ insts[block'] = InstsOf(code, block')
      /\ values' = [v \in Var |-> IF v \in ToSet(params[block']) THEN Param(block', v)
                                  ELSE calls[1].values[v]]
      /\ UNCHANGED <<code, operand, params, args, infos, phi, promotable>>
  BY EnterBlockFacts
<1>2. \A v, x, q : CurrentAt(v, x, q)' <=> CurrentAt(v, x, q)
  BY <1>1, FrameCurrent
<1>3. \A b \in Block :
        /\ b = block' => Running(b)' /\ ~Renamed(b)' /\ Untouched(b)
        /\ b # block' => ~Running(b)' /\ (Renamed(b)' <=> Renamed(b))
  BY EnterBlockBlocks
<1>4. \A b \in Block : ~Running(b) /\ (Renamed(b)' <=> Renamed(b))
  BY <1>1, <1>3, BlockKinds DEF Running
<1>5. ASSUME NEW x \in Insts(code) PROVE Visited(x)' <=> Visited(x)
  <2>1. x[1] \in Block /\ x \in InstsOf(code, x[1])
    BY InstAt
  <2>2. Running(x[1])' => x \in rest'
    BY <1>1, <1>3, <2>1
  <2>3. QED
    BY <1>4, <2>1, <2>2 DEF Visited
<1>6. StoresInv' /\ UsesInv'
  BY <1>1, <1>5, SameVisitedKeepsMeaning
<1>7. PassedInv'
  <2>1. \A b : End(b)' = End(b)
    BY <1>1, FrameLatest
  <2>2. QED
    BY <1>1, <1>2, <1>4, <2>1 DEF PassedInv
<1>8. Reached(1)'
  <2>1. Len(code.body[block']) \in Nat
    BY <1>1, GoodCode
  <2>2. \A n \in InstsOf(code, block') : 1 <= n[2]
    BY <2>1 DEF InstsOf
  <2>3. rest' = {n \in InstsOf(code, block') : 1 <= n[2]} /\ code' = code
    BY <1>1, <2>2
  <2>4. 1 \in 1 .. Len(code.body[block']) + 1
    BY <2>1
  <2>5. QED
    BY <2>3, <2>4 DEF Reached
<1> DEFINE start == <<block', 0>>
<1>9. /\ start \in Point /\ start[1] = block' /\ start[2] = 0
      /\ After(start) = <<block', 1>>
  BY <1>1 DEF Point, After
<1>10. ASSUME NEW v \in ToSet(promotable) PROVE CurrentAt(v, values'[v], <<block', 1>>)
  <2>1. v \in Var
    BY PromotedAreVars
  <2>2. v \in ToSet(params[block']) <=> block' \in phi[v]
    <3>1. pc \notin {"collect", "examine", "place"} /\ infos = <<>>
      BY <1>1 DEF InfosInv
    <3>2. ToSet(params[block']) = {u \in ToSet(promotable) \ ToSet(infos) : block' \in phi[u]}
      BY <1>1, <3>1 DEF ParamsInv
    <3>3. ToSet(infos) = {}
      BY <3>1, EmptySeqs
    <3>4. QED
      BY <3>2, <3>3
  <2>3. start \in DefPoints(v) <=> block' \in phi[v]
    <3>1. block' \in phi[v] => start \in DefPoints(v)
      BY DEF DefPoints
    <3>2. start \in DefPoints(v) => block' \in phi[v]
      BY <1>9, <2>1, DefPoint
    <3>3. QED
      BY <3>1, <3>2
  <2> HIDE DEF start
  <2>4. CASE block' \in phi[v]
    <3>1. values'[v] = ValueOf(v, start)
      BY <1>1, <1>9, <2>1, <2>2, <2>4 DEF ValueOf
    <3>2. Latest(v, start, After(start))
      BY <1>1, <1>9, <2>1, <2>3, <2>4, LatestAtDefinition
    <3>3. CurrentAt(v, values'[v], After(start))
      BY <2>3, <2>4, <3>1, <3>2 DEF CurrentAt
    <3>4. QED
      BY <1>9, <3>3
  <2>5. CASE block' \notin phi[v]
    <3>1. values'[v] = calls[1].values[v]
      BY <1>1, <2>1, <2>2, <2>5
    <3>2. CurrentAt(v, calls[1].values[v], start)
      BY <1>1 DEF CurrentInv, start
    <3>3. CurrentAt(v, calls[1].values[v], After(start))
      BY <1>9, <2>1, <2>3, <2>5, <3>2, LatestSkips
    <3>4. QED
      BY <1>9, <3>1, <3>3
  <2>6. QED
    BY <2>4, <2>5
<1>11. CurrentInv'
  <2>1. \A v \in ToSet(promotable) : CurrentAt(v, values[v], <<block, 1>>)'
    BY <1>2, <1>10
  <2>2. \E k \in Nat : /\ Reached(k)'
                        /\ \A v \in ToSet(promotable) : CurrentAt(v, values[v], <<block, k>>)'
    BY <1>8, <2>1
  <2>3. \A i \in 1 .. Len(calls') : \A v \in ToSet(promotable) :
          CurrentAt(v, calls'[i].values[v], <<calls'[i].block, 0>>)
    BY <1>1 DEF CurrentInv
  <2>4. \A i \in 1 .. Len(calls') : \A v \in ToSet(promotable) :
          CurrentAt(v, calls[i].values[v], <<calls[i].block, 0>>)'
    BY <1>2, <2>3
  <2>5. QED
    BY <1>1, <2>2, <2>4 DEF CurrentInv
<1>12. QED
  BY <1>6, <1>7, <1>11

LEMMA EndBlockKeepsMeaning ==
  ASSUME Inv, WalkMeaning, EndBlock
  PROVE  WalkMeaning'
<1> USE DEF Inv, WalkMeaning
<1> DEFINE g == code.succ
<1>1. /\ pc = "rename" /\ pc' = "call" /\ rest = {}
      /\ UNCHANGED <<code, operand, params, infos, phi, promotable, block, rest, values>>
  BY DEF EndBlock, examination
<1>2. /\ Started /\ Started' /\ block \in Block /\ Running(block)
      /\ g \in [Block -> Seq(Block)]
  BY <1>1, RunningBlock, GoodCode DEF Started
<1>3. /\ \A v, x, q : CurrentAt(v, x, q)' <=> CurrentAt(v, x, q)
      /\ \A b : End(b)' = End(b)
  BY <1>1, FrameLatest, FrameCurrent
<1>4. \A b \in Block :
        /\ ~Running(b)'
        /\ b = block => Renamed(b)'
        /\ b # block => (Renamed(b)' <=> Renamed(b)) /\ ~Running(b)
  BY EndBlockBlocks DEF Running
<1>5. ASSUME NEW x \in Insts(code) PROVE Visited(x)' <=> Visited(x)
  <2>1. x[1] \in Block
    BY InstAt
  <2>2. CASE x[1] = block
    BY <1>1, <1>2, <1>4, <2>1, <2>2 DEF Visited
  <2>3. CASE x[1] # block
    BY <1>4, <2>1, <2>3 DEF Visited
  <2>4. QED
    BY <2>2, <2>3
<1>6. StoresInv' /\ UsesInv'
  BY <1>1, <1>2, <1>5, SameVisitedKeepsMeaning
<1>7. ASSUME NEW v \in ToSet(promotable) PROVE CurrentAt(v, values[v], End(block))
  <2>1. PICK k \in Nat :
          Reached(k) /\ \A u \in ToSet(promotable) : CurrentAt(u, values[u], <<block, k>>)
    BY <1>1 DEF CurrentInv
  <2>2. k = Len(code.body[block]) + 1
    <3>1. /\ k \in 1 .. Len(code.body[block]) + 1
          /\ rest = {m \in InstsOf(code, block) : k <= m[2]}
      BY <2>1 DEF Reached
    <3>2. Len(code.body[block]) \in Nat
      BY <1>2, GoodCode
    <3>3. ASSUME k \in 1 .. Len(code.body[block]) PROVE FALSE
      <4>1. <<block, k>> \in InstsOf(code, block)
        BY <3>3 DEF InstsOf
      <4>2. k <= <<block, k>>[2]
        BY <2>1
      <4>3. <<block, k>> \in rest
        BY <3>1, <4>1, <4>2
      <4>4. QED
        BY <1>1, <4>3
    <3>4. QED
      BY <3>1, <3>2, <3>3
  <2>3. QED
    BY <2>1, <2>2 DEF End
<1>8. CurrentInv'
  <2>1. PICK n \in Nat : \A i \in 1 .. Len(calls') : NewCall(i, n) \/ OldCall(i, n)
    BY EndBlockCalls
  <2>2. ASSUME NEW i \in 1 .. Len(calls'), NEW v \in ToSet(promotable)
        PROVE  CurrentAt(v, calls'[i].values[v], <<calls'[i].block, 0>>)
    <3>1. CASE NewCall(i, n)
      <4>1. calls'[i].values = values /\ calls'[i].block \in Children(g, block)
        BY <3>1 DEF NewCall
      <4>2. CurrentAt(v, values[v], <<calls'[i].block, 0>>)
        BY <1>2, <1>7, <4>1, LatestOfChild, PromotedAreVars
      <4>3. QED
        BY <4>1, <4>2
    <3>2. CASE OldCall(i, n)
      BY <3>2 DEF OldCall, CurrentInv
    <3>3. QED
      BY <2>1, <3>1, <3>2
  <2>3. \A i \in 1 .. Len(calls') : \A v \in ToSet(promotable) :
          CurrentAt(v, calls[i].values[v], <<calls[i].block, 0>>)'
    BY <1>3, <2>2
  <2>4. QED
    BY <1>1, <2>3 DEF CurrentInv
<1>9. PassedInv'
  <2>1. ASSUME NEW b \in Block, Renamed(b)', NEW e \in 1 .. Len(args'[b]),
               NEW m \in 1 .. Len(args'[b][e])
        PROVE  CurrentAt(params[code.succ[b][e]][m], args'[b][e][m], End(b))
    <3>1. CASE b # block
      <4>1. args'[b] = args[b] /\ Renamed(b)
        BY <1>4, <2>1, <3>1, EndBlockArgs
      <4>2. QED
        BY <1>2, <2>1, <4>1 DEF PassedInv
    <3>2. CASE b = block
      <4> DEFINE t == code.succ[block][e]
      <4>1. /\ Len(args'[block][e]) = Len(params[t])
            /\ args'[block][e][m] = values[params[t][m]]
        BY <2>1, <3>2, EndBlockArgs
      <4>2. t \in Block
        <5>1. code.succ[block] \in Seq(Block) /\ Len(args'[block]) = Len(code.succ[block])
          BY <1>2, EndBlockArgs
        <5>2. QED
          BY <2>1, <3>2, <5>1, ElementOf
      <4> HIDE DEF t
      <4>3. params[t][m] \in ToSet(params[t])
        <5>1. params[t] \in Seq(Var) /\ m \in 1 .. Len(params[t])
          BY <2>1, <3>2, <4>1, <4>2 DEF TypeOK
        <5>2. QED
          BY <5>1 DEF ToSet
      <4>4. params[t][m] \in ToSet(promotable)
        BY <1>1, <4>2, <4>3 DEF ParamsInv
      <4>5. CurrentAt(params[t][m], values[params[t][m]], End(block))
        BY <1>7, <4>4
      <4>6. QED
        BY <3>2, <4>1, <4>5 DEF t
    <3>3. QED
      BY <3>1, <3>2
  <2>2. ASSUME NEW b \in Block, Renamed(b)', NEW e \in 1 .. Len(args'[b]),
               NEW m \in 1 .. Len(args'[b][e])
        PROVE  CurrentAt(params[code.succ[b][e]][m], args[b][e][m], End(b))'
    BY <1>1, <1>3, <2>1, <2>2
  <2>3. QED
    BY <2>2 DEF PassedInv
<1>10. QED
  BY <1>6, <1>8, <1>9

LEMMA EndRenamingKeepsMeaning ==
  ASSUME Inv, WalkMeaning, EndRenaming \/ UNCHANGED vars
  PROVE  WalkMeaning'
<1> USE DEF Inv, WalkMeaning
<1>1. /\ pc' = pc \/ (pc = "call" /\ pc' = "done" /\ calls = <<>>)
      /\ UNCHANGED <<code, operand, params, args, phi, promotable, calls, block, rest, values>>
  BY DEF EndRenaming, vars, function, examination, renaming
<1>2. Started' <=> Started
  BY <1>1 DEF Started
<1>3. \A b : (Renamed(b)' <=> Renamed(b)) /\ (Running(b)' <=> Running(b))
  BY <1>1 DEF Renamed, Running, Pending
<1>4. \A x : Visited(x)' <=> Visited(x)
  BY <1>1, <1>3 DEF Visited
<1>5. StoresInv' /\ UsesInv'
  <2>1. CASE Started
    BY <1>1, <1>2, <1>4, <2>1, SameVisitedKeepsMeaning
  <2>2. CASE ~Started
    BY <1>2, <2>2 DEF StoresInv, UsesInv
  <2>3. QED
    BY <2>1, <2>2
<1>6. /\ \A v, x, q : CurrentAt(v, x, q)' <=> CurrentAt(v, x, q)
      /\ \A b : End(b)' = End(b)
  BY <1>1, FrameLatest, FrameCurrent
<1>7. PassedInv'
  BY <1>1, <1>2, <1>3, <1>6 DEF PassedInv
<1>8. CurrentInv'
  <2>1. \A i \in 1 .. Len(calls') : \A v \in ToSet(promotable') :
          CurrentAt(v, calls[i].values[v], <<calls[i].block, 0>>)'
    BY <1>1, <1>6 DEF CurrentInv
  <2>2. ASSUME pc' = "rename"
        PROVE  \E k \in Nat : /\ Reached(k)'
                              /\ \A v \in ToSet(promotable') :
                                   CurrentAt(v, values[v], <<block, k>>)'
    <3>1. PICK k \in Nat :
            Reached(k) /\ \A v \in ToSet(promotable) : CurrentAt(v, values[v], <<block, k>>)
      BY <1>1, <2>2 DEF CurrentInv
    <3>2. Reached(k)'
      BY <1>1, <3>1 DEF Reached
    <3>3. \A v \in ToSet(promotable') : CurrentAt(v, values[v], <<block, k>>)'
      BY <1>1, <1>6, <3>1
    <3>4. QED
      BY <3>2, <3>3
  <2>3. QED
    BY <2>1, <2>2 DEF CurrentInv
<1>9. QED
  BY <1>5, <1>7, <1>8

(* What the renaming leaves: at every moment of the pass, each load that is   *)
(* gone has been replaced by the value of the latest definition before it,   *)
(* and each argument passed is that of the latest before the end of its block. *)
THEOREM LatestDefinitions == Spec => [](Inv /\ Meaning)
<1>1. Init => Meaning
  <2> SUFFICES ASSUME Init PROVE Meaning
    OBVIOUS
  <2>1. /\ pc = "collect" /\ calls = <<>> /\ promotable = <<>>
        /\ phi = [v \in Var |-> {}]
    BY DEF Init
  <2>2. ToSet(promotable) = {} /\ Len(calls) = 0
    BY <2>1, EmptySeqs
  <2>3. PhiInv /\ CurrentInv
    BY <2>1, <2>2 DEF PhiInv, CurrentInv
  <2>4. StoresInv /\ UsesInv /\ PassedInv
    BY <2>1 DEF StoresInv, UsesInv, PassedInv, Started
  <2>5. QED
    BY <2>3, <2>4 DEF Meaning
<1>2. Inv /\ Inv' /\ Meaning /\ [Next]_vars => Meaning'
  <2> SUFFICES ASSUME Inv, Inv', Meaning, [Next]_vars PROVE Meaning'
    OBVIOUS
  <2>1. PhiInv' /\ WalkMeaning
    BY PhiStays DEF Meaning, WalkMeaning
  <2>2. CASE Collect \/ StartPlacing \/ PlaceBlockArguments \/ EndPlacing \/ StartCreating
               \/ CreateBlockParams
    <3>1. ~Started /\ ~Started' /\ UNCHANGED renaming
      BY <2>2 DEF Collect, StartPlacing, PlaceBlockArguments, EndPlacing, StartCreating,
         CreateBlockParams, Started
    <3>2. QED
      BY <2>1, <3>1, MeaningBefore DEF Meaning, WalkMeaning
  <2>3. CASE StartRenaming \/ NothingToPromote
    BY <2>1, <2>3, StartRenamingKeepsMeaning, NothingToPromoteKeepsMeaning DEF Meaning, WalkMeaning
  <2>4. CASE EnterBlock \/ EndBlock
    BY <2>1, <2>4, EnterBlockKeepsMeaning, EndBlockKeepsMeaning DEF Meaning, WalkMeaning
  <2>5. CASE RenameAlloc \/ KeepInstruction
    BY <2>1, <2>5, RenameAllocKeepsMeaning, KeepInstructionKeepsMeaning DEF Meaning, WalkMeaning
  <2>6. CASE RenameLoad \/ RenameStore
    BY <2>1, <2>6, RenameLoadKeepsMeaning, RenameStoreKeepsMeaning DEF Meaning, WalkMeaning
  <2>7. CASE EndRenaming \/ Finished \/ UNCHANGED vars
    BY <2>1, <2>7, EndRenamingKeepsMeaning DEF Meaning, WalkMeaning, Finished
  <2>8. QED
    BY <2>2, <2>3, <2>4, <2>5, <2>6, <2>7 DEF Next
<1>3. QED
  BY <1>1, <1>2, RenamingInvariant, PTL DEF Spec

-----------------------------------------------------------------------------
(* When the pass has returned.                                              *)

LEMMA DoneBlocks ==
  ASSUME Inv, pc = "done", NEW b \in Reachable(code.succ)
  PROVE  /\ b \in Block /\ Renamed(b)
         /\ \A n \in InstsOf(code, b) : n \in insts[b] <=> ~AccessesPromoted(n)
         /\ \A n \in Insts(code) : n[1] = b => Visited(n)
<1> USE DEF Inv
<1>1. b \in Block
  BY DEF Reachable
<1>2. Len(calls) = 0
  BY EmptySeqs DEF CallsInv
<1>3. Renamed(b)
  BY <1>2 DEF Renamed, Pending, Running
<1>4. insts[b] = KeptInsts(b)
  BY <1>1, <1>3 DEF InstsInv, Started
<1>5. QED
  BY <1>1, <1>3, <1>4 DEF KeptInsts, Visited

LEMMA EvalIs ==
  /\ \A s : Eval(NoOperand, s) = Undefined
  /\ \A s, c : Eval(<<"const", c>>, s) = c
  /\ \A s, n : Eval(Result(n), s) = s.result[n]
  /\ \A s, b, v : Eval(Param(b, v), s) = paramValue[b][v]
BY DEF Eval, NoOperand, Result, Param

LEMMA EvalNext ==
  /\ Eval(NoOperand, after)' = Undefined
  /\ \A c : Eval(<<"const", c>>, after)' = c
  /\ \A n : Eval(Result(n), after)' = after'.result[n]
  /\ \A b, v : Eval(Param(b, v), after)' = paramValue'[b][v]
BY DEF Eval, NoOperand, Result, Param

\* The value x is a constant or defined before the point p or by a parameter there.
DefinedBefore(x, p) ==
  \/ x = NoOperand
  \/ \E c \in Constant : x = <<"const", c>>
  \/ \E d \in Block : \E u : x = Param(d, u) /\ (p = <<d, 0>> \/ Before(<<d, 0>>, p))
  \/ \E n \in Insts(code) : x = Result(n) /\ Before(n, p)

(* The value a definition gives is defined there or before.                 *)
LEMMA ValueSite ==
  ASSUME Inv, Meaning, pc = "done", NEW v \in ToSet(promotable), NEW p \in DefPoints(v),
         p[1] \in Reachable(code.succ)
  PROVE  DefinedBefore(ValueOf(v, p), p)
<1> USE DEF Inv
<1>1. v \in Var
  BY PromotedAreVars
<1>2. /\ p \in Point /\ p[1] \in Block /\ p[2] \in Nat /\ p = <<p[1], p[2]>>
  BY <1>1, DefPoint, PointParts
<1>3. CASE p[2] = 0
  BY <1>2, <1>3 DEF ValueOf, DefinedBefore
<1>4. CASE p[2] # 0
  <2>1. p \in Insts(code) /\ Op(p) = "store" /\ VarOf(p) = v
    BY <1>1, <1>4, DefPoint DEF Accesses
  <2>2. Visited(p) /\ Started /\ Promoted(VarOf(p))
    BY <2>1, DoneBlocks DEF Started, Promoted
  <2>3. Final(operand[p], p[1], {m \in InstsOf(code, p[1]) : m[2] < p[2]})
    BY <2>1, <2>2 DEF Meaning, StoresInv
  <2>4. ValueOf(v, p) = operand[p]
    BY <1>4 DEF ValueOf
  <2>5. ASSUME NEW d \in Block, Dominates(code.succ, d, p[1])
        PROVE  Before(<<d, 0>>, p)
    <3>1. 0 < p[2]
      BY <1>2, <1>4
    <3>2. QED
      BY <2>5, <3>1 DEF Before, Precedes, StrictlyDominates
  <2>6. ASSUME NEW n \in Insts(code),
               StrictlyDominates(code.succ, n[1], p[1])
                 \/ n \in {m \in InstsOf(code, p[1]) : m[2] < p[2]}
        PROVE  Before(n, p)
    <3>1. CASE n \in {m \in InstsOf(code, p[1]) : m[2] < p[2]}
      <4>1. n[1] = p[1]
        BY <1>2, <3>1, InstIn
      <4>2. QED
        BY <3>1, <4>1 DEF Before, Precedes
    <3>2. QED
      BY <2>6, <3>1 DEF Before, Precedes
  <2>7. QED
    BY <2>3, <2>4, <2>5, <2>6 DEF Final, DefinedBefore
<1>5. QED
  BY <1>2, <1>3, <1>4

(* The instruction c changes no value that was defined before it.            *)
LEMMA EvalAfterInst ==
  ASSUME Inv, Meaning, pc = "done", UNCHANGED <<code, operand, paramValue>>, NEW c,
         \A n \in Insts(code) : n # c => after'.result[n] = after.result[n],
         NEW v \in ToSet(promotable), NEW p \in DefPoints(v), p[1] \in Reachable(code.succ),
         ~Before(c, p)
  PROVE  Eval(ValueOf(v, p), after)' = Eval(ValueOf(v, p), after)
<1>1. PICK x : x = ValueOf(v, p) /\ DefinedBefore(x, p)
  BY ValueSite
<1>2. ValueOf(v, p)' = x
  BY <1>1 DEF ValueOf
<1>3. Eval(x, after)' = Eval(x, after)
  <2>1. CASE x = NoOperand
    BY <2>1, EvalIs, EvalNext
  <2>2. CASE \E k \in Constant : x = <<"const", k>>
    BY <2>2, EvalIs, EvalNext
  <2>3. CASE \E d \in Block : \E u : x = Param(d, u)
    BY <2>3, EvalIs, EvalNext
  <2>4. CASE \E n \in Insts(code) : x = Result(n) /\ Before(n, p)
    BY <2>4, EvalIs, EvalNext
  <2>5. QED
    BY <1>1, <2>1, <2>2, <2>3, <2>4 DEF DefinedBefore
<1>4. QED
  BY <1>1, <1>2, <1>3 DEF Eval

(* An edge to t changes no value that was defined before t.                  *)
LEMMA EvalAfterEdge ==
  ASSUME Inv, Meaning, pc = "done", UNCHANGED <<code, operand, after>>, NEW t \in Block,
         \A d \in Block : d # t => paramValue'[d] = paramValue[d],
         NEW v \in ToSet(promotable), NEW p \in DefPoints(v), p[1] \in Reachable(code.succ),
         p # <<t, 0>>, ~Before(<<t, 0>>, p)
  PROVE  Eval(ValueOf(v, p), after)' = Eval(ValueOf(v, p), after)
<1>1. PICK x : x = ValueOf(v, p) /\ DefinedBefore(x, p)
  BY ValueSite
<1>2. ValueOf(v, p)' = x
  BY <1>1 DEF ValueOf
<1>3. Eval(x, after)' = Eval(x, after)
  <2>1. CASE x = NoOperand
    BY <2>1, EvalIs, EvalNext
  <2>2. CASE \E k \in Constant : x = <<"const", k>>
    BY <2>2, EvalIs, EvalNext
  <2>3. CASE \E d \in Block : \E u : x = Param(d, u) /\ (p = <<d, 0>> \/ Before(<<d, 0>>, p))
    <3>1. PICK d \in Block : \E u : x = Param(d, u) /\ (p = <<d, 0>> \/ Before(<<d, 0>>, p))
      BY <2>3
    <3>2. d # t
      BY <3>1
    <3>3. QED
      BY <3>1, <3>2, EvalIs, EvalNext
  <2>4. CASE \E n \in Insts(code) : x = Result(n)
    BY <2>4, EvalIs, EvalNext
  <2>5. QED
    BY <1>1, <2>1, <2>2, <2>3, <2>4 DEF DefinedBefore
<1>4. QED
  BY <1>1, <1>2, <1>3 DEF Eval

-----------------------------------------------------------------------------
(* The execution. What holds when an instruction is executed.               *)

Executes(c) ==
  /\ pc = "done" /\ c = Current
  /\ c \in Insts(code) /\ c \in Point /\ c[1] = at /\ c[2] # 0
  /\ at # NoBlock /\ at \in Reachable(code.succ)

LEMMA ExecutesCurrent ==
  ASSUME Inv, ExecInv, Executing, NEW c, c = Current
  PROVE  Executes(c)
<1> USE DEF Inv
<1>1. /\ pc = "done" /\ at # NoBlock /\ at \in Reachable(code.succ)
      /\ next \in 1 .. Len(code.body[at]) + 1 /\ next <= Len(code.body[at])
  BY DEF ExecInv, NotStartedInv, MachineInv, Executing
<1>2. at \in Block
  BY <1>1 DEF Reachable
<1>3. Len(code.body[at]) \in Nat
  BY <1>2, GoodCode
<1>4. next \in 1 .. Len(code.body[at])
  BY <1>1, <1>3
<1>5. c \in InstsOf(code, at)
  BY <1>4 DEF InstsOf, Current
<1>6. c \in Insts(code) /\ c[1] = at
  BY <1>2, <1>5, InstIn
<1>7. QED
  BY <1>1, <1>6, InstPoint DEF Executes

(* Both functions compute the same operand.                                 *)
LEMMA OperandMatches ==
  ASSUME Inv, Meaning, ExecInv, NEW c, Executes(c)
  PROVE  Eval(Source(c), before) = Eval(operand[c], after)
<1> USE DEF Inv
<1>1. Started /\ c \in Insts(code) /\ c[1] \in Reachable(code.succ)
  BY DEF Executes, Started
<1>2. (\A n \in PromotedLoads : Visited(n) => Source(c) # Result(n)) => operand[c] = Source(c)
  BY <1>1 DEF Meaning, UsesInv
<1>3. CASE Source(c) \in {NoOperand} \cup {<<"const", x>> : x \in Constant}
  <2>1. operand[c] = Source(c)
    BY <1>2, <1>3, ValueKinds
  <2>2. QED
    BY <1>3, <2>1, EvalIs
<1>4. CASE \E m \in Insts(code) : /\ Source(c) = Result(m)
                                  /\ Op(m) \in {"load", "addr", "other"}
                                  /\ Before(m, c)
  <2>1. PICK m \in Insts(code) : /\ Source(c) = Result(m)
                                 /\ Op(m) \in {"load", "addr", "other"}
                                 /\ Before(m, c)
    BY <1>4
  <2>2. Eval(Source(c), before) = before.result[m]
    BY <2>1, EvalIs
  <2>3. CASE m \in PromotedLoads
    <3>1. m[1] \in Reachable(code.succ) /\ VarOf(m) \in Var
      BY <2>3, PromotedLoad
    <3>2. Visited(m)
      BY <2>1, <3>1, DoneBlocks DEF Executes
    <3>3. PICK p \in DefPoints(VarOf(m)) :
            Latest(VarOf(m), p, m) /\ operand[c] = ValueOf(VarOf(m), p)
      BY <1>1, <2>1, <2>3, <3>2 DEF Meaning, UsesInv
    <3>4. before.result[m] = Eval(ValueOf(VarOf(m), p), after)
      BY <2>1, <2>3, <3>3 DEF ExecInv, LoadedIsLatest, Executes
    <3>5. QED
      BY <2>2, <3>3, <3>4
  <2>4. CASE m \notin PromotedLoads
    <3>1. operand[c] = Result(m)
      BY <1>2, <2>1, <2>4, ValueKinds
    <3>2. ~AccessesPromoted(m)
      BY <2>1, <2>4 DEF AccessesPromoted, PromotedLoads
    <3>3. before.result[m] = after.result[m]
      BY <3>2 DEF ExecInv, SameResults, Executes
    <3>4. QED
      BY <2>2, <3>1, <3>3, EvalIs
  <2>5. QED
    BY <2>3, <2>4
<1>5. QED
  BY <1>1, <1>3, <1>4, OperandBefore DEF Source, Before

LEMMA FrameDone ==
  ASSUME UNCHANGED vars
  PROVE  /\ pc' = pc /\ code' = code /\ promotable' = promotable /\ phi' = phi
         /\ operand' = operand /\ Insts(code)' = Insts(code)
         /\ PromotedLoads' = PromotedLoads
         /\ \A n : VarOf(n)' = VarOf(n)
         /\ \A n : AccessesPromoted(n)' <=> AccessesPromoted(n)
         /\ \A v : Promoted(v)' <=> Promoted(v)
         /\ \A op, v : Accesses(op, v)' = Accesses(op, v)
         /\ \A v : DefPoints(v)' = DefPoints(v)
         /\ \A v, p, q : Latest(v, p, q)' <=> Latest(v, p, q)
         /\ \A p, q : Before(p, q)' <=> Before(p, q)
         /\ \A v, p : ValueOf(v, p)' = ValueOf(v, p)
<1>1. UNCHANGED <<pc, code, dominance, promotable, phi, operand>>
  BY DEF vars, function, examination
<1>2. \A v : Promoted(v)' <=> Promoted(v)
  BY <1>1 DEF Promoted
<1>3. \A op, v : Accesses(op, v)' = Accesses(op, v)
  BY <1>1 DEF Accesses, Op, VarOf
<1>4. \A p, q : Before(p, q)' <=> Before(p, q)
  BY <1>1 DEF Before
<1>5. QED
  BY <1>1, <1>2, <1>3, <1>4, FrameLatest, FrameCurrent, FrameUses, FrameAccesses

\* The executions go on to the next instruction, and the results of others stay.
StepsOver(c) ==
  /\ at' = at /\ next' = next + 1 /\ UNCHANGED <<vars, paramValue>>
  /\ \A n \in Insts(code) : n # c => /\ before'.result[n] = before.result[n]
                                     /\ after'.result[n] = after.result[n]

LEMMA StepKeepsMemory ==
  ASSUME Inv, Meaning, ExecInv, NEW c, Executes(c), StepsOver(c), written \subseteq written',
         \A v \in ToSet(promotable) :
           \/ c \notin DefPoints(v) /\ before'.mem[v] = before.mem[v]
           \/ /\ c \in DefPoints(v) /\ v \in written'
              /\ before'.mem[v] = Eval(ValueOf(v, c), after)
  PROVE  MemoryIsLatest'
<1> USE DEF Inv
<1> SUFFICES ASSUME NEW v \in ToSet(promotable'), Accesses("load", v)' # {},
                    NEW p \in DefPoints(v)', Latest(v, p, Current)'
             PROVE  v \in written' /\ before'.mem[v] = Eval(ValueOf(v, p), after)'
  BY DEF MemoryIsLatest
<1>1. /\ v \in ToSet(promotable) /\ v \in Var /\ Accesses("load", v) # {} /\ p \in DefPoints(v)
      /\ Latest(v, p, After(c))
  <2>1. Current' = After(c)
    BY DEF Executes, StepsOver, After, Current
  <2>2. UNCHANGED vars
    BY DEF StepsOver
  <2>3. \A q, r : Latest(v, q, r)' <=> Latest(v, q, r)
    BY <2>2, FrameDone
  <2>4. Latest(v, p, Current)' <=> Latest(v, p, Current')
    BY <2>2, FrameDone DEF Latest
  <2>5. QED
    BY <2>1, <2>2, <2>4, FrameDone, PromotedAreVars
<1>2. p \in Point /\ c \in Point /\ c[1] \in Reachable(code.succ) /\ pc = "done"
  BY <1>1, DefPoint DEF Executes
<1>3. UNCHANGED <<code, operand, paramValue>>
  BY FrameDone DEF StepsOver
<1>4. CASE c \notin DefPoints(v) /\ before'.mem[v] = before.mem[v]
  <2>1. Latest(v, p, c) /\ Before(p, c)
    BY <1>1, <1>2, <1>4, LatestSkips DEF Latest
  <2>2. v \in written /\ before.mem[v] = Eval(ValueOf(v, p), after)
    BY <1>1, <2>1 DEF ExecInv, MemoryIsLatest, Executes
  <2>3. p[1] \in Reachable(code.succ) /\ ~Before(c, p)
    BY <1>2, <2>1, BeforeReachable, BeforeAsymmetric
  <2>4. Eval(ValueOf(v, p), after)' = Eval(ValueOf(v, p), after)
    BY <1>1, <1>2, <1>3, <2>3, EvalAfterInst DEF StepsOver
  <2>5. QED
    BY <1>4, <2>2, <2>4
<1>5. CASE c \in DefPoints(v) /\ v \in written' /\ before'.mem[v] = Eval(ValueOf(v, c), after)
  <2>1. p = c
    BY <1>1, <1>2, <1>5, LatestAtDefinition
  <2>2. ~Before(c, c)
    BY <1>2, BeforeAsymmetric
  <2>3. Eval(ValueOf(v, p), after)' = Eval(ValueOf(v, p), after)
    BY <1>1, <1>2, <1>3, <2>1, <2>2, EvalAfterInst DEF StepsOver
  <2>4. QED
    BY <1>5, <2>1, <2>3
<1>6. QED
  BY <1>1, <1>4, <1>5

LEMMA StepKeepsLoaded ==
  ASSUME Inv, Meaning, ExecInv, NEW c, Executes(c), StepsOver(c),
         c \in PromotedLoads => before'.result[c] = before.mem[VarOf(c)]
  PROVE  LoadedIsLatest'
<1> USE DEF Inv
<1> SUFFICES ASSUME NEW n \in PromotedLoads', Before(n, Current)',
                    NEW p \in DefPoints(VarOf(n))', Latest(VarOf(n), p, n)'
             PROVE  before'.result[n] = Eval(ValueOf(VarOf(n), p), after)'
  BY DEF LoadedIsLatest
<1>1. PICK v : v = VarOf(n)
  OBVIOUS
<1>2. /\ n \in PromotedLoads /\ Before(n, After(c)) /\ VarOf(n)' = v
      /\ p \in DefPoints(v) /\ Latest(v, p, n)
  <2>1. Current' = After(c)
    BY DEF Executes, StepsOver, After, Current
  <2>2. UNCHANGED vars
    BY DEF StepsOver
  <2>3. VarOf(n)' = v
    BY <1>1, <2>2, FrameDone
  <2>4. Before(n, Current)' <=> Before(n, Current')
    BY <2>2, FrameDone DEF Before
  <2>5. DefPoints(VarOf(n))' = DefPoints(v) /\ (Latest(VarOf(n), p, n)' <=> Latest(v, p, n))
    BY <2>2, <2>3, FrameDone DEF DefPoints, Latest
  <2>6. QED
    BY <2>1, <2>2, <2>3, <2>4, <2>5, FrameDone
<1>3. /\ n \in Insts(code) /\ n \in Point /\ v \in Var /\ v \in ToSet(promotable)
      /\ n[1] \in Reachable(code.succ) /\ Accesses("load", v) # {}
  BY <1>1, <1>2, PromotedLoad
<1>4. p \in Point /\ c \in Point /\ c[1] \in Reachable(code.succ) /\ pc = "done" /\ Before(p, n)
  BY <1>2, <1>3, DefPoint DEF Executes, Latest
<1>5. p[1] \in Reachable(code.succ)
  BY <1>3, <1>4, BeforeReachable
<1>6. before'.result[n] = Eval(ValueOf(v, p), after)
  <2>1. CASE n = c
    BY <1>1, <1>2, <1>3, <2>1 DEF ExecInv, MemoryIsLatest, Executes
  <2>2. CASE n # c
    <3>1. Before(n, c)
      BY <1>2, <1>3, <1>4, <2>2, BeforeAfter
    <3>2. QED
      BY <1>1, <1>2, <1>3, <2>2, <3>1 DEF ExecInv, LoadedIsLatest, Executes, StepsOver
  <2>3. QED
    BY <2>1, <2>2
<1>7. ~Before(c, p)
  <2>1. n = c \/ Before(n, c)
    BY <1>2, <1>3, <1>4, BeforeAfter
  <2>2. Before(p, c)
    BY <1>3, <1>4, <2>1, BeforeTransitive
  <2>3. QED
    BY <1>4, <1>5, <2>2, BeforeAsymmetric
<1>8. Eval(ValueOf(v, p), after)' = Eval(ValueOf(v, p), after)
  BY <1>2, <1>3, <1>4, <1>5, <1>7, EvalAfterInst, FrameDone DEF StepsOver
<1>9. Eval(ValueOf(VarOf(n), p), after)' = Eval(ValueOf(v, p), after)'
  BY <1>2
<1>10. QED
  BY <1>6, <1>8, <1>9

WithMem(s, u, x) == [s EXCEPT !.mem[u] = x]
WithResult(s, c, x) == [s EXCEPT !.result[c] = x]

(* Setting a variable or a result changes nothing else.                     *)
LEMMA SetMem ==
  ASSUME NEW s, IsMachine(s), NEW u, NEW x, NEW t, t = WithMem(s, u, x)
  PROVE  /\ IsMachine(t)
         /\ \A n \in Insts(code) : t.result[n] = s.result[n]
         /\ \A v \in Var : t.mem[v] = IF v = u THEN x ELSE s.mem[v]
<1>1. /\ t.result = s.result /\ t.mem = [s.mem EXCEPT ![u] = x]
      /\ t = [mem |-> t.mem, result |-> t.result]
  BY DEF IsMachine, WithMem
<1>2. /\ s.mem = [v \in Var |-> s.mem[v]]
      /\ s.result = [n \in Insts(code) |-> s.result[n]]
  BY DEF IsMachine
<1>3. t.mem = [v \in Var |-> t.mem[v]] /\ \A v \in Var : t.mem[v] = IF v = u THEN x ELSE s.mem[v]
  BY <1>1, <1>2
<1>4. QED
  BY <1>1, <1>2, <1>3 DEF IsMachine

LEMMA SetResult ==
  ASSUME NEW s, IsMachine(s), NEW c, NEW x, NEW t, t = WithResult(s, c, x)
  PROVE  /\ IsMachine(t)
         /\ \A n \in Insts(code) : t.result[n] = IF n = c THEN x ELSE s.result[n]
         /\ \A v \in Var : t.mem[v] = s.mem[v]
<1>1. /\ t.mem = s.mem /\ t.result = [s.result EXCEPT ![c] = x]
      /\ t = [mem |-> t.mem, result |-> t.result]
  BY DEF IsMachine, WithResult
<1>2. /\ s.mem = [v \in Var |-> s.mem[v]]
      /\ s.result = [n \in Insts(code) |-> s.result[n]]
  BY DEF IsMachine
<1>3. /\ t.result = [n \in Insts(code) |-> t.result[n]]
      /\ \A n \in Insts(code) : t.result[n] = IF n = c THEN x ELSE s.result[n]
  BY <1>1, <1>2
<1>4. QED
  BY <1>1, <1>2, <1>3 DEF IsMachine

(* What a step has left to do to keep the invariant of the execution.        *)
LEMMA StepKeepsExec ==
  ASSUME Inv, Meaning, ExecInv, NEW c, Executes(c), StepsOver(c), Executing,
         IsMachine(before'), IsMachine(after'),
         \A n \in Insts(code) : ~AccessesPromoted(n) => before'.result[n] = after'.result[n],
         \A v \in Var : ~Promoted(v) => before'.mem[v] = after'.mem[v],
         written \subseteq written',
         \A v \in ToSet(promotable) :
           \/ c \notin DefPoints(v) /\ before'.mem[v] = before.mem[v]
           \/ /\ c \in DefPoints(v) /\ v \in written'
              /\ before'.mem[v] = Eval(ValueOf(v, c), after),
         c \in PromotedLoads => before'.result[c] = before.mem[VarOf(c)],
         SameObservations'
  PROVE  ExecInv'
<1>1. MemoryIsLatest' /\ LoadedIsLatest'
  BY StepKeepsMemory, StepKeepsLoaded
<1>2. UNCHANGED vars /\ at' = at /\ next' = next + 1 /\ paramValue' = paramValue
  BY DEF StepsOver
<1>3. next \in 1 .. Len(code.body[at]) + 1 /\ next \in Nat /\ next <= Len(code.body[at])
  BY DEF ExecInv, MachineInv, Executes, Executing
<1>4. Len(code.body[at]) \in Nat
  BY GoodCode DEF Inv, Executes, Reachable
<1>5. NotStartedInv'
  BY <1>2, <1>3, FrameDone DEF NotStartedInv, Executes
<1>6. MachineInv'
  <2>1. IsMachine(before)' /\ IsMachine(after)'
    BY <1>2, FrameDone DEF IsMachine
  <2>2. next' \in Nat /\ next' \in 1 .. Len(code.body[at]) + 1
    BY <1>2, <1>3, <1>4
  <2>3. QED
    BY <1>2, <2>1, <2>2, FrameDone DEF ExecInv, MachineInv
<1>7. SameResults' /\ StaysInMemory'
  BY <1>2, FrameDone DEF SameResults, StaysInMemory
<1>8. QED
  BY <1>1, <1>5, <1>6, <1>7 DEF ExecInv

-----------------------------------------------------------------------------
(* The instructions one by one.                                             *)

LEMMA StepFacts ==
  ASSUME Inv, ExecInv, NEW op, Step(op), NEW c, c = Current
  PROVE  /\ Executes(c) /\ Executing /\ Op(c) = op
         /\ at' = at /\ next' = next + 1 /\ UNCHANGED <<vars, paramValue>>
         /\ Kept <=> ~AccessesPromoted(c)
         /\ Source(c) = code.body[at][next].val
         /\ IsMachine(before) /\ IsMachine(after)
         /\ \A n \in Insts(code) : ~AccessesPromoted(n) => before.result[n] = after.result[n]
         /\ \A v \in Var : ~Promoted(v) => before.mem[v] = after.mem[v]
<1> USE DEF Inv
<1>1. /\ Executing /\ Op(c) = op
      /\ at' = at /\ next' = next + 1 /\ UNCHANGED <<vars, paramValue>>
  BY DEF Step
<1>2. Executes(c)
  BY <1>1, ExecutesCurrent
<1>3. c \in InstsOf(code, at)
  BY <1>2, InstAt DEF Executes
<1>4. Kept <=> ~AccessesPromoted(c)
  BY <1>2, <1>3, DoneBlocks DEF Executes, Kept
<1>5. Source(c) = code.body[at][next].val
  BY DEF Source, Current
<1>6. QED
  BY <1>1, <1>2, <1>4, <1>5 DEF ExecInv, MachineInv, SameResults, StaysInMemory, Executes

LEMMA NotADefinition ==
  ASSUME Inv, NEW c, Executes(c), NEW v \in ToSet(promotable), Op(c) # "store" \/ VarOf(c) # v
  PROVE  c \notin DefPoints(v)
<1> USE DEF Inv
<1>1. SUFFICES ASSUME c \in DefPoints(v) PROVE FALSE
  OBVIOUS
<1>2. v \in Var
  BY PromotedAreVars
<1>3. c \in Accesses("store", v)
  BY <1>1, <1>2, DefPoint DEF Executes
<1>4. QED
  BY <1>3 DEF Accesses

LEMMA ExecAllocKeepsInv ==
  ASSUME Inv, Meaning, ExecInv, ExecAlloc
  PROVE  ExecInv'
<1>1. PICK c : c = Current
  OBVIOUS
<1>2. Step("alloc") /\ UNCHANGED <<before, after, written, seen>>
  BY DEF ExecAlloc
<1>3. Executes(c) /\ Executing /\ Op(c) = "alloc" /\ IsMachine(before) /\ IsMachine(after)
  BY <1>1, <1>2, StepFacts
<1>4. StepsOver(c)
  BY <1>2 DEF StepsOver, Step
<1>5. \A v \in ToSet(promotable) : c \notin DefPoints(v) /\ before'.mem[v] = before.mem[v]
  BY <1>2, <1>3, NotADefinition
<1>6. c \notin PromotedLoads
  BY <1>3 DEF PromotedLoads
<1>7. IsMachine(before') /\ IsMachine(after')
  BY <1>2, <1>3
<1>8. SameObservations'
  BY <1>2 DEF ExecInv, SameObservations
<1>9. QED
  BY <1>1, <1>2, <1>3, <1>4, <1>5, <1>6, <1>7, <1>8, StepFacts, StepKeepsExec

LEMMA ExecLoadKeepsInv ==
  ASSUME Inv, Meaning, ExecInv, ExecLoad
  PROVE  ExecInv'
<1>1. PICK c : c = Current
  OBVIOUS
<1> DEFINE v == VarOf(c)
<1>2. /\ Step("load") /\ UNCHANGED <<written, seen>>
      /\ before' = WithResult(before, c, before.mem[v])
      /\ Kept => after' = WithResult(after, c, after.mem[v])
      /\ ~Kept => after' = after
  BY <1>1 DEF ExecLoad, Loaded, WithResult
<1>3. /\ Executes(c) /\ Executing /\ Op(c) = "load" /\ IsMachine(before) /\ IsMachine(after)
      /\ Kept <=> ~AccessesPromoted(c)
      /\ \A n \in Insts(code) : ~AccessesPromoted(n) => before.result[n] = after.result[n]
      /\ \A u \in Var : ~Promoted(u) => before.mem[u] = after.mem[u]
  BY <1>1, <1>2, StepFacts
<1>4. c \in Insts(code) /\ v \in Var
  BY <1>3, AccessedVar DEF Inv, Executes
<1>5. AccessesPromoted(c) <=> Promoted(v)
  BY <1>3 DEF AccessesPromoted
<1> HIDE DEF v
<1>6. /\ IsMachine(before')
      /\ \A n \in Insts(code) :
           before'.result[n] = IF n = c THEN before.mem[v] ELSE before.result[n]
      /\ \A u \in Var : before'.mem[u] = before.mem[u]
  BY <1>2, <1>3, SetResult
<1>7. /\ IsMachine(after')
      /\ \A n \in Insts(code) :
           after'.result[n] = IF n = c /\ Kept THEN after.mem[v] ELSE after.result[n]
      /\ \A u \in Var : after'.mem[u] = after.mem[u]
  <2>1. CASE Kept
    BY <1>2, <1>3, <2>1, SetResult
  <2>2. CASE ~Kept
    BY <1>2, <1>3, <2>2
  <2>3. QED
    BY <2>1, <2>2
<1>8. StepsOver(c)
  BY <1>2, <1>6, <1>7 DEF StepsOver, Step
<1>9. \A n \in Insts(code) : ~AccessesPromoted(n) => before'.result[n] = after'.result[n]
  BY <1>3, <1>4, <1>5, <1>6, <1>7
<1>10. \A u \in Var : ~Promoted(u) => before'.mem[u] = after'.mem[u]
  BY <1>3, <1>6, <1>7
<1>11. \A u \in ToSet(promotable) : c \notin DefPoints(u) /\ before'.mem[u] = before.mem[u]
  BY <1>3, <1>6, NotADefinition, PromotedAreVars DEF Inv
<1>12. before'.result[c] = before.mem[VarOf(c)]
  BY <1>4, <1>6 DEF v
<1>13. SameObservations'
  BY <1>2 DEF ExecInv, SameObservations
<1>14. QED
  BY <1>2, <1>3, <1>6, <1>7, <1>8, <1>9, <1>10, <1>11, <1>12, <1>13, StepKeepsExec

LEMMA ExecOtherKeepsInv ==
  ASSUME Inv, Meaning, ExecInv, ExecOther
  PROVE  ExecInv'
<1>1. PICK c : c = Current
  OBVIOUS
<1>2. PICK x : /\ before' = WithResult(before, c, x)
               /\ after' = WithResult(after, c, x)
  BY <1>1 DEF ExecOther, WithResult
<1>3. /\ Step("other") /\ UNCHANGED written
      /\ seen' = <<Eval(code.body[at][next].val, before), Eval(operand[c], after)>>
  BY <1>1 DEF ExecOther
<1>4. /\ Executes(c) /\ Executing /\ Op(c) = "other" /\ IsMachine(before) /\ IsMachine(after)
      /\ Source(c) = code.body[at][next].val
      /\ \A n \in Insts(code) : ~AccessesPromoted(n) => before.result[n] = after.result[n]
      /\ \A u \in Var : ~Promoted(u) => before.mem[u] = after.mem[u]
  BY <1>1, <1>3, StepFacts
<1>5. /\ IsMachine(before')
      /\ \A n \in Insts(code) : before'.result[n] = IF n = c THEN x ELSE before.result[n]
      /\ \A u \in Var : before'.mem[u] = before.mem[u]
  BY <1>2, <1>4, SetResult
<1>6. /\ IsMachine(after')
      /\ \A n \in Insts(code) : after'.result[n] = IF n = c THEN x ELSE after.result[n]
      /\ \A u \in Var : after'.mem[u] = after.mem[u]
  BY <1>2, <1>4, SetResult
<1>7. StepsOver(c)
  BY <1>3, <1>5, <1>6 DEF StepsOver, Step
<1>8. \A u \in ToSet(promotable) : c \notin DefPoints(u) /\ before'.mem[u] = before.mem[u]
  BY <1>4, <1>5, NotADefinition, PromotedAreVars DEF Inv
<1>9. c \notin PromotedLoads
  BY <1>4 DEF PromotedLoads
<1>10. SameObservations'
  BY <1>3, <1>4, OperandMatches DEF SameObservations
<1>11. QED
  BY <1>3, <1>4, <1>5, <1>6, <1>7, <1>8, <1>9, <1>10, StepKeepsExec

LEMMA ExecStoreKeepsInv ==
  ASSUME Inv, Meaning, ExecInv, ExecStore
  PROVE  ExecInv'
<1>1. PICK c : c = Current
  OBVIOUS
<1> DEFINE v == VarOf(c)
           x == Eval(Source(c), before)
<1>2. Step("store") /\ written' = written \cup {v} /\ UNCHANGED seen
  BY <1>1 DEF ExecStore
<1>3. /\ Executes(c) /\ Executing /\ Op(c) = "store" /\ IsMachine(before) /\ IsMachine(after)
      /\ Kept <=> ~AccessesPromoted(c)
      /\ Source(c) = code.body[at][next].val
      /\ \A n \in Insts(code) : ~AccessesPromoted(n) => before.result[n] = after.result[n]
      /\ \A u \in Var : ~Promoted(u) => before.mem[u] = after.mem[u]
  BY <1>1, <1>2, StepFacts
<1>4. x = Eval(operand[c], after)
  BY <1>3, OperandMatches
<1>5. /\ before' = WithMem(before, v, x)
      /\ Kept => after' = WithMem(after, v, x)
      /\ ~Kept => after' = after
  BY <1>1, <1>3, <1>4 DEF ExecStore, WithMem
<1>6. c \in Insts(code) /\ v \in Var
  BY <1>3, AccessedVar DEF Inv, Executes
<1>7. AccessesPromoted(c) <=> Promoted(v)
  BY <1>3 DEF AccessesPromoted
<1>8. c \in DefPoints(v) /\ ValueOf(v, c) = operand[c]
  BY <1>3, <1>6 DEF DefPoints, Accesses, ValueOf, Executes
<1>9. \A u \in ToSet(promotable) : u # v => c \notin DefPoints(u)
  BY <1>3, NotADefinition
<1> HIDE DEF v, x
<1>10. /\ IsMachine(before')
       /\ \A n \in Insts(code) : before'.result[n] = before.result[n]
       /\ \A u \in Var : before'.mem[u] = IF u = v THEN x ELSE before.mem[u]
  BY <1>3, <1>5, SetMem
<1>11. /\ IsMachine(after')
       /\ \A n \in Insts(code) : after'.result[n] = after.result[n]
       /\ \A u \in Var : after'.mem[u] = IF u = v /\ Kept THEN x ELSE after.mem[u]
  <2>1. CASE Kept
    BY <1>3, <1>5, <2>1, SetMem
  <2>2. CASE ~Kept
    BY <1>3, <1>5, <2>2
  <2>3. QED
    BY <2>1, <2>2
<1>12. StepsOver(c)
  BY <1>2, <1>10, <1>11 DEF StepsOver, Step
<1>13. \A n \in Insts(code) : ~AccessesPromoted(n) => before'.result[n] = after'.result[n]
  BY <1>3, <1>10, <1>11
<1>14. \A u \in Var : ~Promoted(u) => before'.mem[u] = after'.mem[u]
  BY <1>3, <1>7, <1>10, <1>11
<1>15. \A u \in ToSet(promotable) :
         \/ c \notin DefPoints(u) /\ before'.mem[u] = before.mem[u]
         \/ /\ c \in DefPoints(u) /\ u \in written'
            /\ before'.mem[u] = Eval(ValueOf(u, c), after)
  <2>1. TAKE u \in ToSet(promotable)
  <2>2. u \in Var
    BY PromotedAreVars DEF Inv
  <2>3. CASE u = v
    BY <1>2, <1>4, <1>8, <1>10, <2>2, <2>3
  <2>4. CASE u # v
    BY <1>9, <1>10, <2>2, <2>4
  <2>5. QED
    BY <2>3, <2>4
<1>16. c \notin PromotedLoads
  BY <1>3 DEF PromotedLoads
<1>17. written \subseteq written' /\ SameObservations'
  BY <1>2 DEF ExecInv, SameObservations
<1>18. QED
  BY <1>3, <1>10, <1>11, <1>12, <1>13, <1>14, <1>15, <1>16, <1>17, StepKeepsExec

LEMMA ExecAddrKeepsInv ==
  ASSUME Inv, Meaning, ExecInv, ExecAddr
  PROVE  ExecInv'
<1>1. PICK c : c = Current
  OBVIOUS
<1> DEFINE v == VarOf(c)
<1>2. PICK x : before' = WithMem(before, v, x) /\ after' = WithMem(after, v, x)
  BY <1>1 DEF ExecAddr, WithMem
<1>3. /\ Step("addr") /\ written' = written \cup {v}
      /\ seen' = <<before.mem[v], after.mem[v]>>
  BY <1>1 DEF ExecAddr
<1>4. /\ Executes(c) /\ Executing /\ Op(c) = "addr" /\ IsMachine(before) /\ IsMachine(after)
      /\ \A n \in Insts(code) : ~AccessesPromoted(n) => before.result[n] = after.result[n]
      /\ \A u \in Var : ~Promoted(u) => before.mem[u] = after.mem[u]
  BY <1>1, <1>3, StepFacts
<1>5. c \in Insts(code) /\ v \in Var
  BY <1>4, AccessedVar DEF Inv, Executes
<1>6. ~Promoted(v)
  <2>1. c \in Accesses("addr", v)
    BY <1>4, <1>5 DEF Accesses
  <2>2. v \notin Eligible
    BY <1>5, <2>1 DEF Eligible, InvalidAllocs
  <2>3. QED
    BY <2>2 DEF Promoted, Inv, InfosInv
<1> HIDE DEF v
<1>7. /\ IsMachine(before')
      /\ \A n \in Insts(code) : before'.result[n] = before.result[n]
      /\ \A u \in Var : before'.mem[u] = IF u = v THEN x ELSE before.mem[u]
  BY <1>2, <1>4, SetMem
<1>8. /\ IsMachine(after')
      /\ \A n \in Insts(code) : after'.result[n] = after.result[n]
      /\ \A u \in Var : after'.mem[u] = IF u = v THEN x ELSE after.mem[u]
  BY <1>2, <1>4, SetMem
<1>9. StepsOver(c)
  BY <1>3, <1>7, <1>8 DEF StepsOver, Step
<1>10. \A u \in ToSet(promotable) : c \notin DefPoints(u) /\ before'.mem[u] = before.mem[u]
  BY <1>4, <1>6, <1>7, NotADefinition, PromotedAreVars DEF Inv, Promoted
<1>11. c \notin PromotedLoads
  BY <1>4 DEF PromotedLoads
<1>12. written \subseteq written' /\ SameObservations'
  BY <1>3, <1>4, <1>5, <1>6 DEF SameObservations
<1>13. QED
  BY <1>4, <1>7, <1>8, <1>9, <1>10, <1>11, <1>12, StepKeepsExec

-----------------------------------------------------------------------------
(* The start, the return, and the steps of the pass itself.                 *)

(* Nothing is executed before the entry block.                              *)
LEMMA NothingBeforeEntry ==
  ASSUME Inv, NEW p \in Point, Before(p, <<Entry, 1>>)
  PROVE  p = <<Entry, 0>>
<1> USE DEF Inv
<1>1. <<Entry, 0>> \in Point /\ After(<<Entry, 0>>) = <<Entry, 1>>
  BY BlockAssumption DEF BlockAssumption, Point, After
<1>2. p = <<Entry, 0>> \/ Before(p, <<Entry, 0>>)
  BY <1>1, BeforeAfter
<1>3. SUFFICES ASSUME Before(p, <<Entry, 0>>) PROVE FALSE
  BY <1>2
<1>4. StrictlyDominates(code.succ, p[1], Entry)
  BY <1>3, StartPoint, BlockAssumption DEF BlockAssumption
<1>5. QED
  BY <1>4, OnlyEntryDominatesEntry, PointParts, GoodCode DEF StrictlyDominates

LEMMA StartKeepsInv ==
  ASSUME Inv, Meaning, ExecInv, Start
  PROVE  ExecInv'
<1> USE DEF Inv
<1>1. /\ pc = "done" /\ next = 0 /\ at' = Entry /\ next' = 1
      /\ UNCHANGED <<vars, before, after, paramValue, written, seen>>
  BY DEF Start
<1>2. /\ UNCHANGED vars /\ Entry \in Block /\ Entry \in Reachable(code.succ)
      /\ Len(code.body[Entry]) \in Nat /\ Entry # NoBlock
  BY <1>1, EntryReachable, GoodCode, BlockAssumption DEF BlockAssumption
<1>3. Current' = <<Entry, 1>>
  BY <1>1 DEF Current
<1>4. MemoryIsLatest'
  <2> SUFFICES ASSUME NEW v \in ToSet(promotable'), NEW p \in DefPoints(v)',
                      Latest(v, p, Current)'
               PROVE  FALSE
    BY DEF MemoryIsLatest
  <2>1. v \in ToSet(promotable) /\ v \in Var /\ p \in DefPoints(v)
    BY <1>2, FrameDone, PromotedAreVars
  <2>2. Before(p, <<Entry, 1>>)
    BY <1>2, <1>3, FrameDone DEF Latest, Before
  <2>3. p = <<Entry, 0>>
    BY <2>1, <2>2, DefPoint, NothingBeforeEntry
  <2>4. QED
    BY <2>1, <2>3, DefPoint DEF Meaning, PhiInv
<1>5. LoadedIsLatest'
  <2> SUFFICES ASSUME NEW n \in PromotedLoads', Before(n, Current)'
               PROVE  FALSE
    BY DEF LoadedIsLatest
  <2>1. n \in PromotedLoads
    BY <1>2, FrameDone
  <2>2. n \in Point /\ n[2] # 0
    BY <2>1, PromotedLoad, InstPoint
  <2>3. Before(n, <<Entry, 1>>)
    BY <1>2, <1>3, FrameDone DEF Before
  <2>4. QED
    BY <2>2, <2>3, NothingBeforeEntry
<1>6. NotStartedInv'
  BY <1>1, <1>2, FrameDone DEF NotStartedInv
<1>7. MachineInv'
  <2>1. IsMachine(before)' /\ IsMachine(after)'
    BY <1>1, FrameDone DEF IsMachine, ExecInv, MachineInv
  <2>2. QED
    BY <1>1, <1>2, <2>1, FrameDone DEF ExecInv, MachineInv
<1>8. SameResults' /\ StaysInMemory' /\ SameObservations'
  BY <1>1, FrameDone DEF ExecInv, SameResults, StaysInMemory, SameObservations
<1>9. QED
  BY <1>4, <1>5, <1>6, <1>7, <1>8 DEF ExecInv

LEMMA ReturnKeepsInv ==
  ASSUME Inv, ExecInv, ExecReturn
  PROVE  ExecInv'
<1>1. /\ at # NoBlock /\ at' = NoBlock
      /\ UNCHANGED <<vars, next, before, after, paramValue, written, seen>>
  BY DEF ExecReturn
<1>2. MemoryIsLatest' /\ LoadedIsLatest'
  BY <1>1 DEF MemoryIsLatest, LoadedIsLatest
<1>3. NotStartedInv'
  BY <1>1, FrameDone DEF ExecInv, NotStartedInv
<1>4. MachineInv'
  <2>1. IsMachine(before)' /\ IsMachine(after)'
    BY <1>1, FrameDone DEF IsMachine, ExecInv, MachineInv
  <2>2. QED
    BY <1>1, <2>1, FrameDone DEF ExecInv, MachineInv
<1>5. SameResults' /\ StaysInMemory' /\ SameObservations'
  BY <1>1, FrameDone DEF ExecInv, SameResults, StaysInMemory, SameObservations
<1>6. QED
  BY <1>2, <1>3, <1>4, <1>5 DEF ExecInv

LEMMA StutterKeepsExec ==
  ASSUME Inv, ExecInv, UNCHANGED execVars
  PROVE  ExecInv'
<1>1. UNCHANGED vars /\ UNCHANGED <<at, next, before, after, paramValue, written, seen>>
  BY DEF execVars, execution
<1>2. Current' = Current
  BY <1>1 DEF Current
<1>3. NotStartedInv' /\ SameResults' /\ StaysInMemory' /\ SameObservations'
  <2>1. Blank' = Blank
    BY <1>1, FrameDone DEF Blank
  <2>2. QED
    BY <1>1, <2>1, FrameDone
       DEF ExecInv, NotStartedInv, SameResults, StaysInMemory, SameObservations
<1>4. MachineInv'
  <2>1. IsMachine(before)' /\ IsMachine(after)'
    BY <1>1, FrameDone DEF IsMachine, ExecInv, MachineInv
  <2>2. QED
    BY <1>1, <2>1, FrameDone DEF ExecInv, MachineInv
<1>5. \A x : Eval(x, after)' = Eval(x, after)
  BY <1>1 DEF Eval
<1>6. MemoryIsLatest'
  <2> SUFFICES ASSUME at' # NoBlock,
                      NEW v \in ToSet(promotable'), Accesses("load", v)' # {},
                      NEW p \in DefPoints(v)', Latest(v, p, Current)'
               PROVE  v \in written' /\ before'.mem[v] = Eval(ValueOf(v, p), after)'
    BY DEF MemoryIsLatest
  <2>1. /\ v \in ToSet(promotable) /\ Accesses("load", v) # {} /\ p \in DefPoints(v)
        /\ Latest(v, p, Current) /\ at # NoBlock
    BY <1>1, <1>2, FrameDone DEF Latest, Before
  <2>2. PICK x : x = ValueOf(v, p)
    OBVIOUS
  <2>3. Eval(ValueOf(v, p), after)' = Eval(x, after)'
    BY <1>1, <2>2, FrameDone DEF Eval
  <2>4. QED
    BY <1>1, <1>5, <2>1, <2>2, <2>3 DEF ExecInv, MemoryIsLatest
<1>7. LoadedIsLatest'
  <2> SUFFICES ASSUME at' # NoBlock, NEW n \in PromotedLoads', Before(n, Current)',
                      NEW p \in DefPoints(VarOf(n))', Latest(VarOf(n), p, n)'
               PROVE  before'.result[n] = Eval(ValueOf(VarOf(n), p), after)'
    BY DEF LoadedIsLatest
  <2>1. PICK v : v = VarOf(n)
    OBVIOUS
  <2>2. VarOf(n)' = v
    BY <1>1, <2>1, FrameDone
  <2>3. DefPoints(VarOf(n))' = DefPoints(v) /\ (Latest(VarOf(n), p, n)' <=> Latest(v, p, n))
    BY <1>1, <2>2, FrameDone DEF DefPoints, Latest
  <2>4. n \in PromotedLoads /\ Before(n, Current) /\ at # NoBlock
    BY <1>1, <1>2, FrameDone DEF Before
  <2>5. PICK x : x = ValueOf(v, p)
    OBVIOUS
  <2>6. Eval(ValueOf(VarOf(n), p), after)' = Eval(x, after)'
    <3>1. ValueOf(VarOf(n), p)' = x
      BY <1>1, <2>2, <2>5, FrameDone DEF ValueOf
    <3>2. QED
      BY <3>1 DEF Eval
  <2>7. QED
    BY <1>1, <1>5, <2>1, <2>3, <2>4, <2>5, <2>6 DEF ExecInv, LoadedIsLatest
<1>8. QED
  BY <1>3, <1>4, <1>6, <1>7 DEF ExecInv

LEMMA CodeStays ==
  ASSUME [Next]_vars
  PROVE  code' = code
BY DEF Next, vars, Collect, StartPlacing, PlaceBlockArguments, EndPlacing, NothingToPromote,
   StartCreating, CreateBlockParams, StartRenaming, EnterBlock, RenameAlloc, RenameLoad,
   RenameStore, KeepInstruction, EndBlock, EndRenaming, Finished

LEMMA PassKeepsExec ==
  ASSUME ExecInv, pc # "done", Next, UNCHANGED execution
  PROVE  ExecInv'
<1>1. /\ at = NoBlock /\ next = 0 /\ before = after
      /\ UNCHANGED <<at, next, before, after, paramValue, written, seen>>
  BY DEF ExecInv, NotStartedInv, execution
<1>2. code' = code
  BY CodeStays
<1>3. NotStartedInv'
  <2>1. Blank' = Blank
    BY <1>2 DEF Blank, Insts, InstsOf
  <2>2. QED
    BY <1>1, <2>1 DEF ExecInv, NotStartedInv
<1>4. MachineInv'
  <2>1. Insts(code)' = Insts(code)
    BY <1>2 DEF Insts, InstsOf
  <2>2. IsMachine(before)' /\ IsMachine(after)'
    BY <1>1, <2>1 DEF IsMachine, ExecInv, MachineInv
  <2>3. QED
    BY <1>1, <1>2, <2>2 DEF ExecInv, MachineInv
<1>5. MemoryIsLatest' /\ LoadedIsLatest'
  BY <1>1 DEF MemoryIsLatest, LoadedIsLatest
<1>6. SameResults' /\ StaysInMemory' /\ SameObservations'
  BY <1>1 DEF ExecInv, SameResults, StaysInMemory, SameObservations
<1>7. QED
  BY <1>3, <1>4, <1>5, <1>6 DEF ExecInv

-----------------------------------------------------------------------------
(* The edges.                                                               *)

(* Where a block has no parameter for v all paths to it have the same latest *)
(* definition: the one at the end of any predecessor.                       *)
LEMMA LatestAlongEdge ==
  ASSUME Inv, PhiInv, NEW v \in ToSet(promotable), Accesses("load", v) # {},
         NEW b \in Reachable(code.succ), NEW t \in Targets(code.succ, b), t # Entry,
         t \notin phi[v], NEW p, Latest(v, p, <<t, 0>>)
  PROVE  Latest(v, p, End(b))
<1> USE DEF Inv
<1>1. /\ v \in Var /\ b \in Block /\ code.succ \in [Block -> Seq(Block)]
      /\ t \in Block /\ t \in Reachable(code.succ)
  BY PromotedAreVars, GoodCode, ReachableStep DEF Reachable
<1>2. ASSUME NEW o \in DefPoints(v)
      PROVE  /\ o \in Point /\ o[1] \in Block
             /\ Before(o, <<t, 0>>) <=> StrictlyDominates(code.succ, o[1], t)
             /\ Before(o, End(b)) <=> Dominates(code.succ, o[1], b)
  BY <1>1, DefPoint, PointParts, StartPoint, EndPoint
<1>3. p \in DefPoints(v) /\ Before(p, <<t, 0>>)
  BY DEF Latest
<1>4. Before(p, End(b))
  BY <1>1, <1>2, <1>3, DominatesPredecessor DEF StrictlyDominates
<1>5. ASSUME NEW o \in DefPoints(v), Before(o, End(b))
      PROVE  o = p \/ Before(o, p)
  <2>1. CASE StrictlyDominates(code.succ, o[1], t)
    BY <1>2, <1>5, <2>1 DEF Latest
  <2>2. CASE ~StrictlyDominates(code.succ, o[1], t)
    <3>1. Dominates(code.succ, o[1], b) /\ o[1] \in Block
      BY <1>2, <1>5
    <3>2. b \in Predecessors(code.succ, t) \cap Reachable(code.succ)
      BY <1>1 DEF Predecessors
    <3>3. t \in dominance.frontier[o[1]]
      BY <1>1, <2>2, <3>1, <3>2, AnalysisIs DEF Frontier
    <3>4. o[1] \in DefBlocks(v) \cup phi[v]
      <4>1. CASE o[2] = 0
        BY <1>1, <4>1, DefPoint
      <4>2. CASE o[2] # 0
        BY <1>1, <4>2, DefPoint DEF DefBlocks
      <4>3. QED
        BY <4>1, <4>2
    <3>5. t \in phi[v]
      BY <3>3, <3>4 DEF PhiInv, ClosedUnderFrontiers
    <3>6. QED
      BY <3>5
  <2>3. QED
    BY <2>1, <2>2
<1>6. QED
  BY <1>3, <1>4, <1>5 DEF Latest

EdgeTo(t) ==
  /\ pc = "done" /\ at # NoBlock /\ at \in Reachable(code.succ) /\ Current = End(at)
  /\ t \in Targets(code.succ, at) /\ t \in Reachable(code.succ) /\ t # NoBlock
  /\ at' = t /\ next' = 1
  /\ UNCHANGED <<vars, before, after, written, seen>>
  /\ paramValue' = [b \in Block |-> [v \in Var |-> paramValue'[b][v]]]
  /\ \A b \in Block : b # t => paramValue'[b] = paramValue[b]
  /\ \E e \in 1 .. Len(code.succ[at]) :
       /\ code.succ[at][e] = t
       /\ \A v \in ToSet(params[t]) :
            \E m \in 1 .. Len(params[t]) :
              params[t][m] = v /\ paramValue'[t][v] = Eval(args[at][e][m], after)

LEMMA EdgeFacts ==
  ASSUME Inv, ExecInv, ExecEdge
  PROVE  \E t \in Block : EdgeTo(t)
<1> USE DEF Inv
<1>1. PICK e \in 1 .. Len(code.succ[at]) :
        /\ at' = code.succ[at][e]
        /\ paramValue' =
             [paramValue EXCEPT ![code.succ[at][e]] =
                [v \in Var |->
                   IF \E m \in 1 .. Len(params[code.succ[at][e]]) : params[code.succ[at][e]][m] = v
                     THEN LET m == CHOOSE m \in 1 .. Len(params[code.succ[at][e]]) :
                                     params[code.succ[at][e]][m] = v
                          IN Eval(args[at][e][m], after)
                     ELSE Undefined]]
  BY DEF ExecEdge
<1>2. PICK t : t = code.succ[at][e]
  OBVIOUS
<1>3. /\ at # NoBlock /\ next = Len(code.body[at]) + 1 /\ next' = 1
      /\ UNCHANGED <<vars, before, after, written, seen>>
  BY DEF ExecEdge
<1>4. pc = "done" /\ at \in Reachable(code.succ) /\ at \in Block
  BY <1>3 DEF ExecInv, NotStartedInv, MachineInv, Reachable
<1>5. Current = End(at)
  BY <1>3 DEF Current, End
<1>6. t \in Targets(code.succ, at)
  BY <1>2 DEF Targets, ToSet
<1>7. t \in Block /\ t \in Reachable(code.succ) /\ t # NoBlock
  BY <1>4, <1>6, GoodCode, ReachableStep, BlockAssumption DEF Reachable, BlockAssumption
<1> DEFINE Value(v) == IF \E m \in 1 .. Len(params[t]) : params[t][m] = v
                         THEN Eval(args[at][e][CHOOSE m \in 1 .. Len(params[t]) :
                                                 params[t][m] = v], after)
                         ELSE Undefined
<1>8. paramValue' = [paramValue EXCEPT ![t] = [v \in Var |-> Value(v)]]
  BY <1>1, <1>2
<1>9. ASSUME NEW v \in ToSet(params[t])
       PROVE  \E m \in 1 .. Len(params[t]) :
                params[t][m] = v /\ Value(v) = Eval(args[at][e][m], after)
  <2>1. \E m \in 1 .. Len(params[t]) : params[t][m] = v
    BY DEF ToSet
  <2>2. PICK m : m = CHOOSE k \in 1 .. Len(params[t]) : params[t][k] = v
    OBVIOUS
  <2>3. m \in 1 .. Len(params[t]) /\ params[t][m] = v
    BY <2>1, <2>2
  <2>4. Value(v) = Eval(args[at][e][m], after)
    BY <2>1, <2>2
  <2>5. QED
    BY <2>3, <2>4
<1> HIDE DEF Value
<1>10. paramValue = [b \in Block |-> [v \in Var |-> paramValue[b][v]]]
  BY DEF ExecInv, MachineInv
<1>11. /\ paramValue' = [b \in Block |-> [v \in Var |-> paramValue'[b][v]]]
       /\ \A b \in Block : b # t => paramValue'[b] = paramValue[b]
       /\ \A v \in Var : paramValue'[t][v] = Value(v)
  BY <1>7, <1>8, <1>10
<1>12. ToSet(params[t]) \subseteq Var
  BY <1>7 DEF TypeOK, ToSet
<1>13. ASSUME NEW v \in ToSet(params[t])
       PROVE  \E m \in 1 .. Len(params[t]) :
                params[t][m] = v /\ paramValue'[t][v] = Eval(args[at][e][m], after)
  BY <1>9, <1>11, <1>12
<1>14. EdgeTo(t)
  BY <1>1, <1>2, <1>3, <1>4, <1>5, <1>6, <1>7, <1>11, <1>13 DEF EdgeTo
<1>15. QED
  BY <1>7, <1>14

LEMMA EdgeKeepsMemory ==
  ASSUME Inv, Meaning, ExecInv, NEW t \in Block, EdgeTo(t)
  PROVE  MemoryIsLatest'
<1> USE DEF Inv
<1> SUFFICES ASSUME NEW v \in ToSet(promotable'), Accesses("load", v)' # {},
                    NEW p \in DefPoints(v)', Latest(v, p, Current)'
             PROVE  v \in written' /\ before'.mem[v] = Eval(ValueOf(v, p), after)'
  BY DEF MemoryIsLatest
<1>1. /\ pc = "done" /\ at \in Reachable(code.succ) /\ at \in Block /\ at # NoBlock
      /\ Current = End(at) /\ t \in Reachable(code.succ)
      /\ t \in Targets(code.succ, at) /\ written' = written /\ before' = before
      /\ UNCHANGED vars /\ UNCHANGED <<code, operand, after>>
      /\ \A b \in Block : b # t => paramValue'[b] = paramValue[b]
  BY FrameDone DEF EdgeTo, Reachable
<1>2. v \in ToSet(promotable) /\ v \in Var /\ Accesses("load", v) # {} /\ p \in DefPoints(v)
  BY <1>1, FrameDone, PromotedAreVars
<1>3. <<t, 0>> \in Point /\ After(<<t, 0>>) = <<t, 1>> /\ <<t, 0>>[1] = t
  BY DEF Point, After
<1>4. Latest(v, p, After(<<t, 0>>))
  <2>1. Current' = <<t, 1>>
    BY DEF Current, EdgeTo
  <2>2. Latest(v, p, Current)' <=> Latest(v, p, Current')
    BY <1>1, FrameDone DEF Latest
  <2>3. QED
    BY <1>3, <2>1, <2>2
<1>5. CASE t \in phi[v]
  <2>1. <<t, 0>> \in DefPoints(v)
    BY <1>5 DEF DefPoints
  <2>2. p = <<t, 0>>
    BY <1>1, <1>2, <1>3, <1>4, <2>1, LatestAtDefinition
  <2>3. ValueOf(v, p) = Param(t, v)
    BY <2>2 DEF ValueOf
  <2>4. Eval(ValueOf(v, p), after)' = paramValue'[t][v]
    <3>1. ValueOf(v, p)' = Param(t, v)
      BY <1>1, <2>3, FrameDone
    <3>2. Eval(ValueOf(v, p), after)' = Eval(Param(t, v), after)'
      BY <3>1 DEF Eval
    <3>3. QED
      BY <3>2, EvalNext
  <2>5. ToSet(infos) = {}
    BY <1>1, EmptySeqs DEF InfosInv
  <2>6. v \in ToSet(params[t])
    BY <1>1, <1>2, <1>5, <2>5 DEF ParamsInv
  <2>7. PICK e \in 1 .. Len(code.succ[at]) :
          /\ code.succ[at][e] = t
          /\ \E m \in 1 .. Len(params[t]) :
               params[t][m] = v /\ paramValue'[t][v] = Eval(args[at][e][m], after)
    BY <2>6 DEF EdgeTo
  <2>8. PICK m \in 1 .. Len(params[t]) :
          params[t][m] = v /\ paramValue'[t][v] = Eval(args[at][e][m], after)
    BY <2>7
  <2>9. /\ Renamed(at) /\ Started
        /\ e \in 1 .. Len(args[at]) /\ m \in 1 .. Len(args[at][e])
    BY <1>1, <2>7, <2>8, DoneBlocks DEF TypeOK, ArgsInv, Started
  <2>10. CurrentAt(v, args[at][e][m], Current)
    BY <1>1, <2>7, <2>8, <2>9 DEF Meaning, PassedInv
  <2>11. args[at][e][m] # Null
    <3>1. args[at] \in Seq(Seq(Values(code)))
      BY <1>1 DEF TypeOK
    <3>2. args[at][e] \in Seq(Values(code))
      BY <2>9, <3>1, ElementOf
    <3>3. args[at][e][m] \in Values(code)
      BY <2>9, <3>2, ElementOf
    <3>4. QED
      BY <3>3, GoodCode
  <2>12. PICK o \in DefPoints(v) : Latest(v, o, Current) /\ args[at][e][m] = ValueOf(v, o)
    BY <2>10, <2>11 DEF CurrentAt
  <2>13. v \in written /\ before.mem[v] = Eval(ValueOf(v, o), after)
    BY <1>1, <1>2, <2>12 DEF ExecInv, MemoryIsLatest
  <2>14. QED
    BY <1>1, <2>4, <2>8, <2>12, <2>13
<1>6. CASE t \notin phi[v]
  <2>1. <<t, 0>> \notin DefPoints(v)
    BY <1>2, <1>6, <1>3, DefPoint
  <2>2. Latest(v, p, <<t, 0>>)
    BY <1>2, <1>3, <1>4, <2>1, LatestSkips
  <2>3. Latest(v, p, Current)
    <3>1. t # Entry
      <4>1. SUFFICES ASSUME t = Entry PROVE FALSE
        OBVIOUS
      <4>2. p = <<t, 0>>
        BY <1>2, <1>3, <1>4, <4>1, DefPoint, NothingBeforeEntry DEF Latest
      <4>3. QED
        BY <1>2, <2>1, <4>2
    <3>2. QED
      BY <1>1, <1>2, <1>6, <2>2, <3>1, LatestAlongEdge DEF Meaning
  <2>4. v \in written /\ before.mem[v] = Eval(ValueOf(v, p), after)
    BY <1>1, <1>2, <2>3 DEF ExecInv, MemoryIsLatest
  <2>5. p \in Point /\ Before(p, <<t, 0>>)
    BY <1>2, <2>2, DefPoint DEF Latest
  <2>6. p[1] \in Reachable(code.succ) /\ ~Before(<<t, 0>>, p) /\ p # <<t, 0>>
    BY <1>1, <1>2, <1>3, <2>1, <2>5, BeforeReachable, BeforeAsymmetric
  <2>7. Eval(ValueOf(v, p), after)' = Eval(ValueOf(v, p), after)
    BY <1>1, <1>2, <2>6, EvalAfterEdge
  <2>8. QED
    BY <1>1, <2>4, <2>7
<1>7. QED
  BY <1>5, <1>6

LEMMA EdgeKeepsLoaded ==
  ASSUME Inv, Meaning, ExecInv, NEW t \in Block, EdgeTo(t)
  PROVE  LoadedIsLatest'
<1> USE DEF Inv
<1> SUFFICES ASSUME NEW n \in PromotedLoads', Before(n, Current)',
                    NEW p \in DefPoints(VarOf(n))', Latest(VarOf(n), p, n)'
             PROVE  before'.result[n] = Eval(ValueOf(VarOf(n), p), after)'
  BY DEF LoadedIsLatest
<1>1. /\ pc = "done" /\ at \in Reachable(code.succ) /\ at \in Block /\ at # NoBlock
      /\ Current = End(at) /\ t \in Reachable(code.succ)
      /\ t \in Targets(code.succ, at) /\ before' = before
      /\ UNCHANGED vars /\ UNCHANGED <<code, operand, after>>
      /\ \A b \in Block : b # t => paramValue'[b] = paramValue[b]
  BY FrameDone DEF EdgeTo, Reachable
<1>2. PICK v : v = VarOf(n)
  OBVIOUS
<1>3. <<t, 0>> \in Point /\ After(<<t, 0>>) = <<t, 1>> /\ <<t, 0>>[1] = t /\ <<t, 0>>[2] = 0
  BY DEF Point, After
<1>4. /\ n \in PromotedLoads /\ Before(n, After(<<t, 0>>)) /\ VarOf(n)' = v
      /\ p \in DefPoints(v) /\ Latest(v, p, n)
  <2>1. Current' = <<t, 1>>
    BY DEF Current, EdgeTo
  <2>2. VarOf(n)' = v
    BY <1>1, <1>2, FrameDone
  <2>3. Before(n, Current)' <=> Before(n, Current')
    BY <1>1, FrameDone DEF Before
  <2>4. DefPoints(VarOf(n))' = DefPoints(v) /\ (Latest(VarOf(n), p, n)' <=> Latest(v, p, n))
    BY <1>1, <2>2, FrameDone DEF DefPoints, Latest
  <2>5. QED
    BY <1>1, <1>3, <2>1, <2>2, <2>3, <2>4, FrameDone
<1>5. /\ n \in Insts(code) /\ n \in Point /\ n[2] # 0 /\ n[2] <= Len(code.body[n[1]])
      /\ v \in Var /\ v \in ToSet(promotable) /\ n[1] \in Reachable(code.succ)
  BY <1>2, <1>4, PromotedLoad, InstPoint
<1>6. p \in Point /\ Before(p, n)
  BY <1>4, <1>5, DefPoint DEF Latest
<1>7. Before(n, <<t, 0>>)
  BY <1>3, <1>4, <1>5, BeforeAfter
<1>8. Before(n, Current)
  <2>1. StrictlyDominates(code.succ, n[1], t) /\ n[1] \in Block
    BY <1>5, <1>7, StartPoint, PointParts
  <2>2. Dominates(code.succ, n[1], at)
    BY <1>1, <2>1, GoodCode, DominatesPredecessor DEF StrictlyDominates
  <2>3. QED
    BY <1>1, <1>5, <2>2, EndPoint
<1>9. before.result[n] = Eval(ValueOf(v, p), after)
  BY <1>1, <1>2, <1>4, <1>8 DEF ExecInv, LoadedIsLatest
<1>10. Before(p, <<t, 0>>)
  BY <1>1, <1>3, <1>5, <1>6, <1>7, BeforeTransitive
<1>11. p[1] \in Reachable(code.succ) /\ ~Before(<<t, 0>>, p) /\ p # <<t, 0>>
  BY <1>1, <1>3, <1>6, <1>10, BeforeReachable, BeforeAsymmetric
<1>12. Eval(ValueOf(v, p), after)' = Eval(ValueOf(v, p), after)
  BY <1>1, <1>4, <1>5, <1>11, EvalAfterEdge
<1>13. Eval(ValueOf(VarOf(n), p), after)' = Eval(ValueOf(v, p), after)'
  BY <1>4
<1>14. QED
  BY <1>1, <1>9, <1>12, <1>13

LEMMA EdgeKeepsInv ==
  ASSUME Inv, Meaning, ExecInv, ExecEdge
  PROVE  ExecInv'
<1>1. PICK t \in Block : EdgeTo(t)
  BY EdgeFacts
<1>2. /\ pc = "done" /\ t \in Reachable(code.succ) /\ t # NoBlock /\ at' = t /\ next' = 1
      /\ UNCHANGED vars /\ UNCHANGED <<before, after, seen>>
      /\ paramValue' = [b \in Block |-> [v \in Var |-> paramValue'[b][v]]]
  BY <1>1 DEF EdgeTo
<1>3. MemoryIsLatest' /\ LoadedIsLatest'
  BY <1>1, EdgeKeepsMemory, EdgeKeepsLoaded
<1>4. NotStartedInv'
  BY <1>2, FrameDone DEF NotStartedInv
<1>5. MachineInv'
  <2>1. IsMachine(before)' /\ IsMachine(after)'
    BY <1>2, FrameDone DEF IsMachine, ExecInv, MachineInv
  <2>2. 1 \in 1 .. Len(code.body[t]) + 1
    BY GoodCode DEF Inv
  <2>3. QED
    BY <1>2, <2>1, <2>2, FrameDone DEF MachineInv
<1>6. SameResults' /\ StaysInMemory' /\ SameObservations'
  BY <1>2, FrameDone DEF ExecInv, SameResults, StaysInMemory, SameObservations
<1>7. QED
  BY <1>3, <1>4, <1>5, <1>6 DEF ExecInv

-----------------------------------------------------------------------------
(* The theorems.                                                            *)

LEMMA ExecInitInv ==
  ASSUME ExecInit
  PROVE  Init /\ ExecInv
<1>1. /\ Init /\ pc = "collect" /\ at = NoBlock /\ next = 0 /\ before = Blank /\ after = Blank
      /\ paramValue = [b \in Block |-> [v \in Var |-> Undefined]]
      /\ seen = <<Undefined, Undefined>>
  BY DEF ExecInit, Init
<1>2. IsMachine(Blank)
  BY DEF Blank, IsMachine
<1>3. NotStartedInv /\ MachineInv
  BY <1>1, <1>2 DEF NotStartedInv, MachineInv
<1>4. SameResults /\ StaysInMemory /\ MemoryIsLatest /\ LoadedIsLatest /\ SameObservations
  BY <1>1 DEF SameResults, StaysInMemory, MemoryIsLatest, LoadedIsLatest, SameObservations
<1>5. QED
  BY <1>1, <1>3, <1>4 DEF ExecInv

LEMMA ExecStepIsPassStep ==
  ASSUME [ExecNext]_execVars
  PROVE  [Next]_vars
BY DEF ExecNext, execVars, Start, ExecAlloc, ExecLoad, ExecStore, ExecAddr, ExecOther, Step,
   ExecEdge, ExecReturn, Returned

LEMMA ExecStepKeepsInv ==
  ASSUME Inv, Meaning, ExecInv, [ExecNext]_execVars
  PROVE  ExecInv'
<1>1. CASE pc # "done" /\ Next /\ UNCHANGED execution
  BY <1>1, PassKeepsExec
<1>2. CASE Start \/ ExecReturn
  BY <1>2, StartKeepsInv, ReturnKeepsInv
<1>3. CASE ExecAlloc \/ ExecLoad \/ ExecStore
  BY <1>3, ExecAllocKeepsInv, ExecLoadKeepsInv, ExecStoreKeepsInv
<1>4. CASE ExecAddr \/ ExecOther
  BY <1>4, ExecAddrKeepsInv, ExecOtherKeepsInv
<1>5. CASE ExecEdge
  BY <1>5, EdgeKeepsInv
<1>6. CASE Returned \/ UNCHANGED execVars
  BY <1>6, StutterKeepsExec DEF Returned
<1>7. QED
  BY <1>1, <1>2, <1>3, <1>4, <1>5, <1>6 DEF ExecNext

(* On every path the memory of the original function is what the promoted   *)
(* function computes as the value of the latest definition.                 *)
THEOREM ExecutionsAgree == ExecSpec => [](Inv /\ Meaning /\ ExecInv)
<1>1. ExecSpec => Spec
  BY ExecInitInv, ExecStepIsPassStep, PTL DEF ExecSpec, Spec
<1>2. ExecInit => ExecInv
  BY ExecInitInv
<1>3. (Inv /\ Meaning) /\ ExecInv /\ [ExecNext]_execVars => ExecInv'
  BY ExecStepKeepsInv
<1>4. QED
  BY <1>1, <1>2, <1>3, LatestDefinitions, PTL DEF ExecSpec

(* Whatever path is taken and whatever its calls return, the function after  *)
(* mem2reg hands the same values to calls, arithmetic, branches and returns  *)
(* as the one before.                                                       *)
THEOREM PromotionKeepsMeaning == ExecSpec => []SameObservations
<1>1. ExecInv => SameObservations
  BY DEF ExecInv
<1>2. QED
  BY <1>1, ExecutionsAgree, PTL

(* The variables mem2reg leaves in memory hold the same at every moment.     *)
THEOREM PromotionKeepsMemory == ExecSpec => []SameMemory
<1>1. ExecInv => SameMemory
  <2> SUFFICES ASSUME ExecInv, NEW v \in Var, v \notin ToSet(promotable)
               PROVE  before.mem[v] = after.mem[v]
    BY DEF SameMemory
  <2>1. CASE pc = "done"
    BY <2>1 DEF ExecInv, StaysInMemory, Promoted
  <2>2. CASE pc # "done"
    BY <2>2 DEF ExecInv, NotStartedInv
  <2>3. QED
    BY <2>1, <2>2
<1>2. QED
  BY <1>1, ExecutionsAgree, PTL

(* No variable is promoted that some execution reads before anything is      *)
(* stored in it: mem2reg makes up no value.                                 *)
THEOREM NoValueMadeUp == ExecSpec => []NoUndefinedRead
<1>1. Inv /\ Meaning /\ ExecInv => NoUndefinedRead
  <2> SUFFICES ASSUME Inv, Meaning, ExecInv, Executing, Op(Current) = "load",
                      VarOf(Current) \notin written, VarOf(Current) \in ToSet(promotable)
               PROVE  FALSE
    BY DEF NoUndefinedRead
  <2>1. PICK c : c = Current
    OBVIOUS
  <2>2. Executes(c)
    BY <2>1, ExecutesCurrent
  <2>3. c \in PromotedLoads
    BY <2>1, <2>2 DEF PromotedLoads, Promoted, Executes
  <2>4. Started /\ Visited(c)
    BY <2>2, DoneBlocks DEF Executes, Started
  <2>5. PICK p \in DefPoints(VarOf(c)) : Latest(VarOf(c), p, c)
    BY <2>3, <2>4 DEF Meaning, UsesInv
  <2>6. Accesses("load", VarOf(c)) # {}
    BY <2>3, PromotedLoad
  <2>7. QED
    BY <2>1, <2>2, <2>5, <2>6 DEF ExecInv, MemoryIsLatest, Executes
<1>2. QED
  BY <1>1, ExecutionsAgree, PTL
=============================================================================
