--------------------------- MODULE BlockArguments ---------------------------
(***************************************************************************)
(* What a control-flow edge of Rewind IR promises: the arguments of the      *)
(* chosen edge are read together, in the state before the edge, and become   *)
(* the parameters of the target block in one step.                          *)
(*                                                                         *)
(* A terminator is [cond |-> operand, edges |-> <<edge>> or <<if, else>>],    *)
(* an edge [target |-> block, args |-> <<operands>>].  An operand is          *)
(* <<"const", c>>, an integer or the content of an argument register, or      *)
(* <<"value", v>>, the result of an instruction or a block parameter.         *)
(***************************************************************************)
EXTENDS Naturals, Sequences

CONSTANTS Block,        \* the basic blocks
          NoBlock,      \* no block has been entered yet
          Params,       \* params_ of each block
          IRValue,      \* the values that have a value slot
          Content,      \* what a word can hold
          Terminators   \* the branches and jumps looked at

Operand == ({"const"} \X Content) \cup ({"value"} \X IRValue)

Edge == {e \in [target : Block, args : Seq(Operand)] : Len(e.args) = Len(Params[e.target])}

\* Every parameter of a block is an IRValue of its own, and the verifier has
\* seen that the arguments of every edge are as many as the parameters.
ASSUME BlockArgumentsAssumption ==
  /\ NoBlock \notin Block
  /\ 0 \in Content
  /\ Params \in [Block -> Seq(IRValue)]
  /\ \A b \in Block : \A i, j \in DOMAIN Params[b] :
        Params[b][i] = Params[b][j] => i = j
  /\ Terminators \subseteq
       [cond : Operand, edges : {es \in Seq(Edge) : Len(es) \in {1, 2}}]

VARIABLES term,   \* the terminator being run
          slot,   \* the content of each value
          at      \* the block entered, or NoBlock

Meaning(x, s) == IF x[1] = "const" THEN x[2] ELSE s[x[2]]

\* br goes to the first target unless the condition is zero.
ChosenEdge(t, s) ==
  IF Len(t.edges) = 2 /\ Meaning(t.cond, s) = 0 THEN t.edges[2] ELSE t.edges[1]

\* v after the edge e is taken in the state s.
Assigned(e, s, v) ==
  IF \E i \in DOMAIN e.args : Params[e.target][i] = v
  THEN Meaning(e.args[CHOOSE i \in DOMAIN e.args : Params[e.target][i] = v], s)
  ELSE s[v]

Init ==
  /\ term \in Terminators
  /\ slot \in [IRValue -> Content]
  /\ at = NoBlock

Take ==
  /\ at = NoBlock
  /\ at' = ChosenEdge(term, slot).target
  /\ slot' = [v \in IRValue |-> Assigned(ChosenEdge(term, slot), slot, v)]
  /\ UNCHANGED term

Spec == Init /\ [][Take]_<<term, slot, at>>
=============================================================================
