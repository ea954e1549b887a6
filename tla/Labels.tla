-------------------------------- MODULE Labels --------------------------------
(***************************************************************************)
(* The names of basic blocks and the labels made of them.  FuncContext names a *)
(* block %<hint>_<n>, with a counter per hint that starts anew in each function *)
(* (include/ir/func_context.h); lowering asks for the blocks of a construct by  *)
(* fixed hints; the selector labels a block .L<function>_<block>, in one file   *)
(* for all functions (src/back_end/instruction_selector.cpp).                *)
(*                                                                         *)
(* A name is the sequence of its parts between underscores: joining two names  *)
(* with an underscore concatenates them.                                     *)
(***************************************************************************)
EXTENDS Naturals, Sequences, TLC

CONSTANTS
  FunctionNames,  \* the names of the functions, in the order of their definitions
  MaxConstructs   \* bound: if, while, || and && of one function

VARIABLES
  function,    \* the position of the function that is lowered, in FunctionNames
  counter,     \* block_name_counter_
  constructs,  \* constructs of the function lowered so far
  labels       \* the labels defined so far: [function, block, label]

vars == <<function, counter, constructs, labels>>

Entry == <<"entry">>
If == {<<"then">>, <<"merge">>}
IfElse == {<<"then">>, <<"else">>, <<"merge">>}
While == {<<"while", "entry">>, <<"while", "body">>, <<"end">>}
Or == {<<"short", "true">>, <<"rhs", "basic", "block">>, <<"merge">>}
And == {<<"short", "false">>, <<"rhs", "basic", "block">>, <<"merge">>}
Hints == {Entry} \cup If \cup IfElse \cup While \cup Or \cup And

NextBlockName(hint, count) == hint \o <<ToString(count[hint] + 1)>>
BasicBlockLabel(name, block) == name \o block

Defined(f, blocks) ==
  {[function |-> f, block |-> b, label |-> BasicBlockLabel(FunctionNames[f], b)] : b \in blocks}

NoCount == [hint \in Hints |-> 0]
Counted(hints, count) == [hint \in Hints |-> IF hint \in hints THEN count[hint] + 1 ELSE count[hint]]

EntryOf(f) == Defined(f, {NextBlockName(Entry, NoCount)})

Init ==
  /\ function = 1
  /\ counter = Counted({Entry}, NoCount)
  /\ constructs = 0
  /\ labels = EntryOf(1)

\* A construct creates its blocks, each of a hint of its own.
CreateBlocks(hints) ==
  /\ constructs < MaxConstructs
  /\ constructs' = constructs + 1
  /\ labels' = labels \cup Defined(function, {NextBlockName(hint, counter) : hint \in hints})
  /\ counter' = Counted(hints, counter)
  /\ UNCHANGED function

\* The next function has a FuncContext of its own.
NextFunction ==
  /\ function < Len(FunctionNames)
  /\ function' = function + 1
  /\ counter' = Counted({Entry}, NoCount)
  /\ constructs' = 0
  /\ labels' = labels \cup EntryOf(function + 1)

Next ==
  \/ \E hints \in {If, IfElse, While, Or, And} : CreateBlocks(hints)
  \/ NextFunction

Spec == Init /\ [][Next]_vars

\* No two basic blocks of the module have the same label: the prefix with the name of the
\* function is there to keep the blocks of different functions apart.  (A label that is
\* defined twice is refused by the assembler, or both jumps go to one of the blocks.)
LabelsUnique == \A d, e \in labels : d.label = e.label => d = e
=============================================================================
