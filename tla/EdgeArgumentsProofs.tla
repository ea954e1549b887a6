------------------------ MODULE EdgeArgumentsProofs ------------------------
(***************************************************************************)
(* The sequential copies of an edge are its parallel copy as long as no      *)
(* argument reads a parameter an earlier copy has assigned.                  *)
(***************************************************************************)
EXTENDS EdgeArguments, TLAPS

InOrder == \A t \in Terminators : \A e \in DOMAIN t.edges : ReadsBeforeAssigned(t.edges[e])

\* Where the code of the terminator is.
NotCopying == edge = NoEdge /\ slot = before /\ next = 1 /\ Len(term.edges) = 2

Copying ==
  /\ edge = ChosenEdge(term, before)
  /\ next <= Len(edge.args) + 1

Located ==
  /\ pc = "condition" => NotCopying
  /\ pc = "bnez" => NotCopying /\ t0 = Meaning(term.cond, before)
  /\ pc \in {"load", "spill", "done"} => Copying
  /\ pc = "spill" => next <= Len(edge.args) /\ t0 = Meaning(edge.args[next], before)
  /\ pc = "done" => next = Len(edge.args) + 1 /\ at = edge.target
  /\ pc # "done" => at = NoBlock

IInv == TypeOK /\ Located /\ CopiedSoFar

-----------------------------------------------------------------------------

LEMMA ChosenIsEdge ==
  ASSUME NEW t \in Terminators, NEW s
  PROVE  /\ ChosenEdge(t, s) \in Edge
         /\ \E e \in DOMAIN t.edges : ChosenEdge(t, s) = t.edges[e]
  <1>1. /\ t.edges \in Seq(Edge)
        /\ Len(t.edges) \in {1, 2}
    BY BlockArgumentsAssumption DEF BlockArgumentsAssumption
  <1> DEFINE e == IF Len(t.edges) = 2 /\ Meaning(t.cond, s) = 0 THEN 2 ELSE 1
  <1>2. e \in DOMAIN t.edges
    BY <1>1
  <1>3. ChosenEdge(t, s) = t.edges[e]
    BY DEF ChosenEdge
  <1> QED BY <1>1, <1>2, <1>3

LEMMA EdgeFacts ==
  ASSUME NEW e \in Edge
  PROVE  /\ e.args \in Seq(Operand)
         /\ Params[e.target] \in Seq(IRValue)
         /\ DOMAIN e.args = 1 .. Len(e.args)
         /\ \A i \in DOMAIN e.args : e.args[i] \in Operand /\ Params[e.target][i] \in IRValue
         /\ \A i, j \in DOMAIN e.args : Params[e.target][i] = Params[e.target][j] => i = j
  <1>1. /\ e.target \in Block
        /\ e.args \in Seq(Operand)
        /\ Len(e.args) = Len(Params[e.target])
    BY DEF Edge
  <1>2. Params[e.target] \in Seq(IRValue)
    BY <1>1, BlockArgumentsAssumption DEF BlockArgumentsAssumption
  <1>3. DOMAIN e.args = 1 .. Len(e.args) /\ DOMAIN Params[e.target] = DOMAIN e.args
    BY <1>1, <1>2
  <1>4. \A i \in DOMAIN e.args : e.args[i] \in Operand /\ Params[e.target][i] \in IRValue
    BY <1>1, <1>2, <1>3
  <1>5. \A i, j \in DOMAIN e.args : Params[e.target][i] = Params[e.target][j] => i = j
    BY <1>1, <1>3, BlockArgumentsAssumption DEF BlockArgumentsAssumption
  <1> QED BY <1>1, <1>2, <1>3, <1>4, <1>5

LEMMA MeaningType ==
  ASSUME NEW x \in Operand, NEW s \in [IRValue -> Content]
  PROVE  Meaning(x, s) \in Content
  BY DEF Meaning, Operand

\* A parameter is assigned the meaning of the argument at its place.
LEMMA AssignedParam ==
  ASSUME NEW e \in Edge, NEW s, NEW i \in DOMAIN e.args
  PROVE  Assigned(e, s, Params[e.target][i]) = Meaning(e.args[i], s)
  <1> DEFINE v == Params[e.target][i]
             k == CHOOSE j \in DOMAIN e.args : Params[e.target][j] = v
  <1>1. k \in DOMAIN e.args /\ Params[e.target][k] = v
    OBVIOUS
  <1>2. k = i
    BY <1>1, EdgeFacts
  <1> QED BY <1>2 DEF Assigned

-----------------------------------------------------------------------------

LEMMA Initialized == MachineInit => IInv
  <1> SUFFICES ASSUME MachineInit PROVE IInv
    OBVIOUS
  <1>1. /\ term \in Terminators /\ term.edges \in Seq(Edge) /\ Len(term.edges) \in {1, 2}
        /\ 0 \in Content
    BY BlockArgumentsAssumption DEF BlockArgumentsAssumption, MachineInit, Init
  <1>2. CASE Len(term.edges) = 2
    BY <1>1, <1>2 DEF MachineInit, Init, IInv, TypeOK, Located, NotCopying, CopiedSoFar
  <1>3. CASE Len(term.edges) # 2
    <2>1. edge = term.edges[1] /\ edge \in Edge /\ 1 \in DOMAIN term.edges
      BY <1>1, <1>3 DEF MachineInit
    <2>2. Copying
      BY <2>1, <1>3, EdgeFacts DEF Copying, ChosenEdge, MachineInit
    <2>3. CopiedSoFar
      BY <2>1, EdgeFacts DEF CopiedSoFar, MachineInit
    <2> QED BY <1>1, <1>3, <2>1, <2>2, <2>3 DEF MachineInit, Init, IInv, TypeOK, Located
  <1> QED BY <1>2, <1>3

LEMMA CopyingEdge ==
  ASSUME IInv, pc \in {"load", "spill", "done"}
  PROVE  edge \in Edge /\ edge # NoEdge /\ next \in Nat \ {0} /\ next <= Len(edge.args) + 1
  <1>1. term \in Terminators /\ Copying
    BY DEF IInv, TypeOK, Located
  <1>2. edge \in Edge /\ \E e \in DOMAIN term.edges : edge = term.edges[e]
    BY <1>1, ChosenIsEdge DEF Copying
  <1>3. edge # NoEdge
    BY <1>1, <1>2, NoEdgeAssumption DEF NoEdgeAssumption
  <1> QED BY <1>1, <1>2, <1>3 DEF Copying, IInv, TypeOK

\* No copy made so far has changed what the next argument reads.
LEMMA ArgumentUnchanged ==
  ASSUME IInv, InOrder, pc = "load", next <= Len(edge.args)
  PROVE  Meaning(edge.args[next], slot) = Meaning(edge.args[next], before)
  <1>1. edge \in Edge /\ edge # NoEdge /\ next \in Nat \ {0}
    BY CopyingEdge
  <1>2. next \in DOMAIN edge.args /\ edge.args[next] \in Operand
    BY <1>1, EdgeFacts
  <1>3. CASE edge.args[next][1] = "const"
    BY <1>3 DEF Meaning
  <1>4. CASE edge.args[next][1] # "const"
    <2>1. PICK v \in IRValue : edge.args[next] = <<"value", v>>
      BY <1>2, <1>4 DEF Operand
    <2>2. term \in Terminators /\ \E e \in DOMAIN term.edges : edge = term.edges[e]
      BY <1>1 DEF IInv, TypeOK
    <2>3. ReadsBeforeAssigned(edge)
      BY <2>2 DEF InOrder
    <2>4. \A i \in DOMAIN edge.args : i < next => Params[edge.target][i] # v
      <3> SUFFICES ASSUME NEW i \in DOMAIN edge.args, i < next PROVE Params[edge.target][i] # v
        OBVIOUS
      <3>1. DOMAIN edge.args = 1 .. Len(edge.args)
        BY <1>1, EdgeFacts
      <3>2. i \in 1 .. (next - 1)
        BY <1>1, <3>1
      <3>3. edge.args[next] # <<"value", Params[edge.target][i]>>
        BY <1>2, <2>3, <3>2 DEF ReadsBeforeAssigned
      <3> QED BY <2>1, <3>3
    <2>5. slot[v] = before[v]
      BY <1>1, <2>4 DEF IInv, CopiedSoFar
    <2> QED BY <2>1, <2>5 DEF Meaning
  <1> QED BY <1>3, <1>4

LEMMA SpillKeepsCopied ==
  ASSUME IInv, SpillParam
  PROVE  CopiedSoFar'
  <1>1. pc = "spill" /\ edge' = edge /\ before' = before /\ next' = next + 1
    BY DEF SpillParam
  <1>2. /\ edge \in Edge /\ edge # NoEdge /\ next \in Nat \ {0}
        /\ next <= Len(edge.args) /\ t0 = Meaning(edge.args[next], before)
        /\ slot \in [IRValue -> Content]
    BY <1>1, CopyingEdge DEF IInv, Located, TypeOK
  <1> DEFINE p == Params[edge.target]
  <1>3. next \in DOMAIN edge.args /\ DOMAIN edge.args \subseteq Nat
        /\ (\A i \in DOMAIN edge.args : p[i] \in IRValue)
        /\ (\A i, j \in DOMAIN edge.args : p[i] = p[j] => i = j)
    BY <1>2, EdgeFacts
  <1>4. slot' = [slot EXCEPT ![p[next]] = t0]
    BY DEF SpillParam
  <1>5. ASSUME NEW i \in DOMAIN edge.args, i < next + 1
        PROVE  slot'[p[i]] = Meaning(edge.args[i], before)
    <2>1. CASE i = next
      BY <1>2, <1>3, <1>4, <2>1
    <2>2. CASE i # next
      <3>1. i < next /\ p[i] # p[next]
        BY <1>2, <1>3, <1>5, <2>2
      <3>2. slot[p[i]] = Meaning(edge.args[i], before)
        BY <1>2, <3>1 DEF IInv, CopiedSoFar
      <3> QED BY <1>2, <1>3, <1>4, <3>1, <3>2
    <2> QED BY <2>1, <2>2
  <1>6. ASSUME NEW v \in IRValue,
               \A i \in DOMAIN edge.args : i < next + 1 => p[i] # v
        PROVE  slot'[v] = before[v]
    <2>1. p[next] # v /\ \A i \in DOMAIN edge.args : i < next => p[i] # v
      BY <1>2, <1>3, <1>6
    <2>2. slot[v] = before[v]
      BY <1>2, <2>1 DEF IInv, CopiedSoFar
    <2> QED BY <1>2, <1>4, <2>1, <2>2
  <1> QED BY <1>1, <1>5, <1>6 DEF CopiedSoFar

LEMMA Preserved ==
  ASSUME InOrder
  PROVE  IInv /\ [Next]_vars => IInv'
  <1> SUFFICES ASSUME IInv, [Next]_vars PROVE IInv'
    OBVIOUS
  <1>1. CASE MaterializeCondition
    <2>1. term \in Terminators /\ term.cond \in Operand /\ slot = before
      BY <1>1, BlockArgumentsAssumption
         DEF MaterializeCondition, IInv, TypeOK, Located, NotCopying, BlockArgumentsAssumption
    <2>2. t0' \in Content
      BY <1>1, <2>1, MeaningType DEF MaterializeCondition, IInv, TypeOK
    <2> QED BY <1>1, <2>1, <2>2
         DEF MaterializeCondition, IInv, TypeOK, Located, NotCopying, Copying, CopiedSoFar
  <1>2. CASE Branch
    <2>1. term \in Terminators /\ Len(term.edges) = 2 /\ slot = before /\ next = 1
      BY <1>2 DEF Branch, IInv, TypeOK, Located, NotCopying
    <2>2. edge' = ChosenEdge(term, before)
      BY <1>2, <2>1 DEF Branch, IInv, Located, ChosenEdge
    <2>3. edge' \in Edge /\ \E e \in DOMAIN term.edges : edge' = term.edges[e]
      BY <2>1, <2>2, ChosenIsEdge
    <2>4. Copying'
      BY <1>2, <2>1, <2>2, <2>3, EdgeFacts DEF Branch, Copying
    <2>5. CopiedSoFar'
      BY <1>2, <2>1, <2>3, EdgeFacts DEF Branch, CopiedSoFar
    <2> QED BY <1>2, <2>3, <2>4, <2>5 DEF Branch, IInv, TypeOK, Located
  <1>3. CASE MaterializeArg
    <2>1. pc = "load" /\ next <= Len(edge.args) /\ t0' = Meaning(edge.args[next], slot)
      BY <1>3 DEF MaterializeArg
    <2>2. edge \in Edge /\ slot \in [IRValue -> Content] /\ next \in Nat \ {0}
      BY <2>1, CopyingEdge DEF IInv, TypeOK
    <2>3. t0' \in Content
      BY <2>1, <2>2, EdgeFacts, MeaningType
    <2>4. t0' = Meaning(edge.args[next], before)
      BY <2>1, ArgumentUnchanged
    <2> QED BY <1>3, <2>1, <2>3, <2>4
         DEF MaterializeArg, IInv, TypeOK, Located, Copying, CopiedSoFar
  <1>4. CASE SpillParam
    <2>1. /\ edge \in Edge /\ next \in Nat \ {0} /\ next <= Len(edge.args)
      BY <1>4, CopyingEdge DEF SpillParam, IInv, Located
    <2>2. slot' \in [IRValue -> Content]
      BY <1>4 DEF SpillParam, IInv, TypeOK
    <2>3. Copying' /\ next' \in Nat \ {0}
      BY <1>4, <2>1, EdgeFacts DEF SpillParam, IInv, Located, Copying
    <2> QED BY <1>4, <2>2, <2>3, SpillKeepsCopied DEF SpillParam, IInv, TypeOK, Located
  <1>5. CASE JumpToTarget
    <2>1. /\ edge \in Edge /\ next \in Nat \ {0} /\ next = Len(edge.args) + 1
      BY <1>5, CopyingEdge, EdgeFacts DEF JumpToTarget
    <2>2. edge.target \in Block
      BY <2>1 DEF Edge
    <2> QED BY <1>5, <2>1, <2>2
         DEF JumpToTarget, IInv, TypeOK, Located, Copying, CopiedSoFar
  <1>6. CASE UNCHANGED vars
    BY <1>6 DEF vars, IInv, TypeOK, Located, NotCopying, Copying, CopiedSoFar
  <1> QED BY <1>1, <1>2, <1>3, <1>4, <1>5, <1>6 DEF Next

-----------------------------------------------------------------------------

(* While the copies run, every parameter already copied has what its         *)
(* argument was before the edge and no other value has changed.              *)
THEOREM CopiesCorrect ==
  ASSUME InOrder
  PROVE  MachineSpec => []CopiedSoFar
  <1>1. IInv => CopiedSoFar
    BY DEF IInv
  <1> QED BY Initialized, Preserved, <1>1, PTL DEF MachineSpec

\* The last copy leaves the frame the parallel copy makes of the one before.
LEMMA AllCopied ==
  ASSUME IInv, JumpToTarget
  PROVE  slot = [v \in IRValue |-> Assigned(ChosenEdge(term, before), before, v)]
  <1>1. /\ edge \in Edge /\ edge # NoEdge /\ edge = ChosenEdge(term, before)
        /\ slot \in [IRValue -> Content]
        /\ \A i \in DOMAIN edge.args : i < next
    BY CopyingEdge, EdgeFacts DEF JumpToTarget, IInv, Located, Copying, TypeOK
  <1>2. ASSUME NEW v \in IRValue
        PROVE  slot[v] = Assigned(edge, before, v)
    <2>1. CASE \E i \in DOMAIN edge.args : Params[edge.target][i] = v
      <3>1. PICK i \in DOMAIN edge.args : Params[edge.target][i] = v
        BY <2>1
      <3>2. slot[v] = Meaning(edge.args[i], before)
        BY <1>1, <3>1 DEF IInv, CopiedSoFar
      <3> QED BY <1>1, <3>1, <3>2, AssignedParam
    <2>2. CASE ~ \E i \in DOMAIN edge.args : Params[edge.target][i] = v
      BY <1>1, <2>2 DEF IInv, CopiedSoFar, Assigned
    <2> QED BY <2>1, <2>2
  <1> QED BY <1>1, <1>2

(* Run as machine code, a branch or jump whose arguments read no parameter   *)
(* already assigned is the one step block arguments promise.                 *)
THEOREM ParallelCopyCorrect ==
  ASSUME InOrder
  PROVE  MachineSpec => ParallelCopy
  <1>1. MachineInit => Abstract!Init
    BY BlockArgumentsAssumption DEF MachineInit, Init, Abstract!Init
  <1>2. IInv /\ [Next]_vars =>
          [Abstract!Take]_<<term, IF at = NoBlock THEN before ELSE slot, at>>
    <2> SUFFICES ASSUME IInv, [Next]_vars
                 PROVE  [Abstract!Take]_<<term, IF at = NoBlock THEN before ELSE slot, at>>
      OBVIOUS
    <2>1. CASE JumpToTarget
      <3>1. /\ at = NoBlock /\ at' = edge.target /\ edge = ChosenEdge(term, before)
            /\ edge \in Edge /\ at' # NoBlock
            /\ term' = term /\ slot' = slot
        BY <2>1, CopyingEdge, BlockArgumentsAssumption
           DEF JumpToTarget, IInv, Located, Copying, Edge, BlockArgumentsAssumption
      <3>2. Abstract!ChosenEdge(term, before) = edge
        BY <3>1 DEF ChosenEdge, Meaning, Abstract!ChosenEdge, Abstract!Meaning
      <3>3. slot = [v \in IRValue |-> Assigned(edge, before, v)]
        BY <2>1, <3>1, AllCopied
      <3>4. \A v : Abstract!Assigned(edge, before, v) = Assigned(edge, before, v)
        BY DEF Assigned, Meaning, Abstract!Assigned, Abstract!Meaning
      <3>5. (IF at = NoBlock THEN before ELSE slot) = before
            /\ (IF at = NoBlock THEN before ELSE slot)' = slot
        BY <3>1
      <3>6. Abstract!Take
        BY <3>1, <3>2, <3>3, <3>4, <3>5, Zenon DEF Abstract!Take
      <3> QED BY <3>6
    <2>2. CASE MaterializeCondition \/ Branch \/ MaterializeArg \/ SpillParam
      <3>1. at = NoBlock /\ UNCHANGED <<term, at, before>>
        BY <2>2 DEF MaterializeCondition, Branch, MaterializeArg, SpillParam, IInv, Located
      <3> QED BY <3>1
    <2>3. CASE UNCHANGED vars
      BY <2>3 DEF vars
    <2> QED BY <2>1, <2>2, <2>3 DEF Next
  <1> QED BY Initialized, Preserved, <1>1, <1>2, PTL
      DEF MachineSpec, ParallelCopy, Abstract!Spec
=============================================================================
