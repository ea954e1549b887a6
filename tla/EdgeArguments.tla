--------------------------- MODULE EdgeArguments ---------------------------
(***************************************************************************)
(* The machine code InstructionSelector (src/back_end/instruction_selector   *)
(* .cpp) makes of a branch or a jump with block arguments, as it runs.       *)
(* select_branch tests the condition in t0 and goes to the copies of one     *)
(* edge; select_edge_args loads argument after argument into t0 and spills   *)
(* it to the slot of the parameter before the next argument is loaded.       *)
(*                                                                         *)
(* slot is the stack frame's value slots, which FrameLayout shows disjoint.  *)
(* An argument register holds one content until the next call: on an edge it *)
(* is a constant, as a literal is.                                          *)
(***************************************************************************)
EXTENDS BlockArguments

CONSTANT NoEdge   \* no edge has been chosen yet

ASSUME NoEdgeAssumption == \A t \in Terminators : \A e \in DOMAIN t.edges : t.edges[e] # NoEdge

VARIABLES
  before,  \* slot when the terminator began; never changes
  t0,      \* the register t0
  edge,    \* the edge whose code is running, or NoEdge
  next,    \* the argument select_edge_args's code is at
  pc       \* the machine instruction to run next

vars == <<term, slot, at, before, t0, edge, next, pc>>

MachineInit ==
  /\ Init
  /\ before = slot
  /\ t0 = 0
  /\ next = 1
  /\ IF Len(term.edges) = 2
       THEN edge = NoEdge /\ pc = "condition"
       ELSE edge = term.edges[1] /\ pc = "load"

\* materialize_value(cond_, t0)
MaterializeCondition ==
  /\ pc = "condition"
  /\ t0' = Meaning(term.cond, slot)
  /\ pc' = "bnez"
  /\ UNCHANGED <<term, slot, at, before, edge, next>>

\* A wrong variant: the code of the two edges the other way round.
BranchSwapped ==
  /\ pc = "bnez"
  /\ edge' = IF t0 # 0 THEN term.edges[2] ELSE term.edges[1]
  /\ pc' = "load"
  /\ UNCHANGED <<term, slot, at, before, t0, next>>

\* bnez t0 to the copies of the if edge; those of the else edge follow it.
Branch ==
  /\ pc = "bnez"
  /\ edge' = IF t0 # 0 THEN term.edges[1] ELSE term.edges[2]
  /\ pc' = "load"
  /\ UNCHANGED <<term, slot, at, before, t0, next>>

\* materialize_value(args[i], t0)
MaterializeArg ==
  /\ pc = "load"
  /\ next <= Len(edge.args)
  /\ t0' = Meaning(edge.args[next], slot)
  /\ pc' = "spill"
  /\ UNCHANGED <<term, slot, at, before, edge, next>>

\* A wrong variant: the slots of the parameters are taken from the last back.
SpillParamFromLast ==
  /\ pc = "spill"
  /\ slot' = [slot EXCEPT ![Params[edge.target][Len(edge.args) + 1 - next]] = t0]
  /\ next' = next + 1
  /\ pc' = "load"
  /\ UNCHANGED <<term, at, before, t0, edge>>

\* spill_value(target.params_[i], t0)
SpillParam ==
  /\ pc = "spill"
  /\ slot' = [slot EXCEPT ![Params[edge.target][next]] = t0]
  /\ next' = next + 1
  /\ pc' = "load"
  /\ UNCHANGED <<term, at, before, t0, edge>>

\* j to the label of the target block
JumpToTarget ==
  /\ pc = "load"
  /\ next > Len(edge.args)
  /\ at' = edge.target
  /\ pc' = "done"
  /\ UNCHANGED <<term, slot, before, t0, edge, next>>

Next == MaterializeCondition \/ Branch \/ MaterializeArg \/ SpillParam \/ JumpToTarget

MachineSpec == MachineInit /\ [][Next]_vars

\* The processor goes on to the next instruction.
FairMachineSpec == MachineSpec /\ WF_vars(Next)

-----------------------------------------------------------------------------
(* Properties *)

TypeOK ==
  /\ term \in Terminators
  /\ slot \in [IRValue -> Content]
  /\ before \in [IRValue -> Content]
  /\ t0 \in Content
  /\ edge = NoEdge \/ \E e \in DOMAIN term.edges : edge = term.edges[e]
  /\ next \in Nat \ {0}
  /\ pc \in {"condition", "bnez", "load", "spill", "done"}
  /\ at \in Block \cup {NoBlock}

(* No argument of an edge reads a parameter of its target that an earlier    *)
(* copy of the same edge has assigned.                                       *)
ReadsBeforeAssigned(e) ==
  \A i \in DOMAIN e.args : \A j \in 1 .. (i - 1) :
    e.args[i] # <<"value", Params[e.target][j]>>

(* While the copies of an edge run, every parameter already copied has what  *)
(* its argument was before the edge and no other value has changed.          *)
CopiedSoFar ==
  edge # NoEdge =>
    /\ \A i \in DOMAIN edge.args :
         i < next => slot[Params[edge.target][i]] = Meaning(edge.args[i], before)
    /\ \A v \in IRValue :
         (\A i \in DOMAIN edge.args : i < next => Params[edge.target][i] # v)
           => slot[v] = before[v]

(* The copies of an edge, one after the other, are the parallel copy the     *)
(* block arguments stand for: entering the target, every parameter has what  *)
(* its argument was before the edge and every other value what it had.       *)
Abstract == INSTANCE BlockArguments WITH slot <- IF at = NoBlock THEN before ELSE slot

ParallelCopy == Abstract!Spec
=============================================================================
