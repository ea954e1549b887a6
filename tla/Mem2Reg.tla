------------------------------ MODULE Mem2Reg ------------------------------
(***************************************************************************)
(* Mem2RegPass::run_function (src/ir/mem2reg.cpp) with the operand rewrites  *)
(* of src/ir/ir_rewrite.cpp: local i32 allocas become SSA values carried by  *)
(* block parameters and edge arguments.                                     *)
(*                                                                         *)
(* A function is a record: succ is its graph, body[b] the instructions of b  *)
(* before the terminator.  The k-th instruction of b is identified by        *)
(* <<b, k>>.  Instructions are told apart as far as the pass does: "alloc",   *)
(* "load", "store", "addr" (any other use of the alloca) and "other" (any    *)
(* other instruction, with one operand; a branch condition is the operand of  *)
(* an "other" that ends the block).  CFGAnalysis and DominanceAnalysis are    *)
(* what ControlFlow defines; DominanceAnalysis shows they compute it.        *)
(*                                                                         *)
(* The pass never reorders instructions, so insts_ and the copy of it that   *)
(* rename_block goes through are the sets of the instructions they hold: the  *)
(* order is that of the positions.                                          *)
(***************************************************************************)
EXTENDS ControlFlow, FiniteSets

CONSTANTS Var,        \* the allocas of the function whose type is i32
          Constant,   \* the integer operands
          Functions,  \* the functions the pass is run on
          Null        \* a null IRValue pointer

NoOperand == <<"none">>
Result(inst) == <<"result", inst>>
Param(b, v) == <<"param", b, v>>

InstsOf(f, b) == {<<b, k>> : k \in 1 .. Len(f.body[b])}
Insts(f) == UNION {InstsOf(f, b) : b \in Block}

Values(f) ==
  {NoOperand} \cup {<<"const", c>> : c \in Constant}
  \cup {Result(n) : n \in Insts(f)}
  \cup {Param(b, v) : b \in Block, v \in Var}

\* Instruction n is executed before m on every path to m.
Precedes(f, n, m) ==
  \/ n[1] = m[1] /\ n[2] < m[2]
  \/ StrictlyDominates(f.succ, n[1], m[1])

\* What the builder makes: an alloca is one instruction; it and a store have no
\* result that is used other than as an address; an operand is a constant or
\* the result of an instruction executed before.
IsFunction(f) ==
  /\ f.succ \in [Block -> Seq(Block)]
  /\ \A b \in Block : Len(f.body[b]) \in Nat
  /\ Null \notin Values(f)
  /\ \A n \in Insts(f) :
       LET inst == f.body[n[1]][n[2]]
       IN /\ inst.op \in {"alloc", "load", "store", "addr", "other"}
          /\ inst.op # "other" <=> inst.var \in Var
          /\ \A m \in Insts(f) :
               inst.op = "alloc" /\ f.body[m[1]][m[2]].op = "alloc"
                 /\ inst.var = f.body[m[1]][m[2]].var => m = n
          /\ \/ inst.val \in {NoOperand} \cup {<<"const", c>> : c \in Constant}
             \/ \E m \in Insts(f) :
                  /\ inst.val = Result(m)
                  /\ f.body[m[1]][m[2]].op \in {"load", "addr", "other"}
                  /\ n[1] \in Reachable(f.succ) => Precedes(f, m, n)

ASSUME Mem2RegAssumption ==
  /\ IsFiniteSet(Block) /\ IsFiniteSet(Var)
  /\ \A f \in Functions : IsFunction(f)

VARIABLES
  code,        \* the function before the pass; never changes
  dominance,   \* the DominanceAnalysis object
  pc,          \* the running part of run_function
  insts,       \* insts_ of each block, without the terminator
  operand,     \* the value operand of each instruction
  params,      \* params_ of each block: the variable each stands for
  args,        \* args_ of each edge: args[b][e] goes with the e-th target of b
  infos,       \* AllocaInfos the running loop still has to visit
  worklist,    \* of place_block_arguments
  phi,         \* phi_blocks of each AllocaInfo
  promotable,  \* promotable_allocas
  calls,       \* rename_block calls that have not started, innermost first
  block,       \* block, the instructions of original_insts still to be
  rest,        \* visited, and current_values of the running rename_block
  values

examination == <<infos, worklist, phi, promotable>>
renaming == <<calls, block, rest, values>>
function == <<insts, operand, params, args>>
vars == <<code, dominance, pc, function, examination, renaming>>

Op(inst) == code.body[inst[1]][inst[2]].op
VarOf(inst) == code.body[inst[1]][inst[2]].var

Analysis(succ) ==
  [reachable  |-> Reachable(succ),
   dominators |-> [b \in Block |-> Dominators(succ, b)],
   frontier   |-> [b \in Block |-> Frontier(succ, b)],
   children   |-> [b \in Block |->
                     {c \in Reachable(succ) \ {Entry} : IsImmediateDominator(succ, b, c)}]]

Init ==
  /\ code \in Functions
  /\ dominance = Analysis(code.succ)
  /\ pc = "collect"
  /\ insts = [b \in Block |-> InstsOf(code, b)]
  /\ operand = [n \in Insts(code) |-> code.body[n[1]][n[2]].val]
  /\ params = [b \in Block |-> <<>>]
  /\ args = [b \in Block |-> [e \in 1 .. Len(code.succ[b]) |-> <<>>]]
  /\ infos = <<>>
  /\ worklist = {}
  /\ phi = [v \in Var |-> {}]
  /\ promotable = <<>>
  /\ calls = <<>>
  /\ block = NoBlock
  /\ rest = {}
  /\ values = [v \in Var |-> Null]

-----------------------------------------------------------------------------
(* collect_alloca_infos, collect_direct_uses *)

Accesses(op, v) == {n \in Insts(code) : Op(n) = op /\ VarOf(n) = v}

Candidates ==
  {v \in Var : \E n \in Accesses("alloc", v) : n[1] \in dominance.reachable}

InvalidAllocs ==
  {v \in Var :
     \/ Accesses("addr", v) # {}
     \/ \E n \in Accesses("load", v) \cup Accesses("store", v) :
           n[1] \notin dominance.reachable}

DefBlocks(v) == {n[1] : n \in Accesses("store", v)}

\* The blocks are scanned in the order of basic_blocks_, which the graph does
\* not fix: any order of the allocas.
Collect ==
  /\ pc = "collect"
  /\ infos' \in SetToSeqs(Candidates \ InvalidAllocs)
  /\ pc' = "examine"
  /\ UNCHANGED <<code, dominance, function, worklist, phi, promotable, renaming>>

-----------------------------------------------------------------------------
(* place_block_arguments, can_promote_without_undef *)

StartPlacing ==
  /\ pc = "examine"
  /\ infos # <<>>
  /\ worklist' = IF Accesses("load", Head(infos)) = {} THEN {}
                 ELSE DefBlocks(Head(infos))
  /\ pc' = "place"
  /\ UNCHANGED <<code, dominance, function, infos, phi, promotable, renaming>>

\* A wrong variant: a block that gets a parameter does not go on the worklist.
PlaceBlockArgumentsOnce ==
  /\ pc = "place"
  /\ \E b \in worklist :
       /\ phi' = [phi EXCEPT ![Head(infos)] = @ \cup dominance.frontier[b]]
       /\ worklist' = worklist \ {b}
  /\ UNCHANGED <<code, dominance, pc, function, infos, promotable, renaming>>

\* A wrong variant: blocks that have their parameter go on the worklist again.
PlaceBlockArgumentsAgain ==
  /\ pc = "place"
  /\ \E b \in worklist :
       LET v == Head(infos)
       IN /\ phi' = [phi EXCEPT ![v] = @ \cup dominance.frontier[b]]
          /\ worklist' = (worklist \ {b}) \cup (dominance.frontier[b] \ DefBlocks(v))
  /\ UNCHANGED <<code, dominance, pc, function, infos, promotable, renaming>>

\* The worklist is filled from unordered sets, so any block may be its last.
\* in_worklist refuses nothing more: a frontier block gets here only once.
PlaceBlockArguments ==
  /\ pc = "place"
  /\ \E b \in worklist :
       LET v == Head(infos)
           new == dominance.frontier[b] \ phi[v]
       IN /\ phi' = [phi EXCEPT ![v] = @ \cup new]
          /\ worklist' = (worklist \ {b}) \cup (new \ DefBlocks(v))
  /\ UNCHANGED <<code, dominance, pc, function, infos, promotable, renaming>>

\* has_value when has_value_on_all_required_paths reaches instruction k of b:
\* set by a parameter or a store here or in a block further up the tree.
HasValue(v, b, k) ==
  \/ \E a \in dominance.dominators[b] : a \in phi[v]
  \/ \E n \in Accesses("store", v) :
        \/ n[1] # b /\ n[1] \in dominance.dominators[b]
        \/ n[1] = b /\ n[2] < k

\* A wrong variant: the edges into a block with a parameter are not looked at.
CanPromoteWithoutUndefLoadsOnly(v) ==
  \A n \in Accesses("load", v) : HasValue(v, n[1], n[2])

\* A wrong variant: the loads are not looked at.
CanPromoteWithoutUndefEdgesOnly(v) ==
  \A b \in dominance.reachable :
     Targets(code.succ, b) \cap phi[v] # {} => HasValue(v, b, Len(code.body[b]) + 1)

CanPromoteWithoutUndef(v) ==
  /\ \A n \in Accesses("load", v) : HasValue(v, n[1], n[2])
  /\ \A b \in dominance.reachable :
        Targets(code.succ, b) \cap phi[v] # {} => HasValue(v, b, Len(code.body[b]) + 1)

EndPlacing ==
  /\ pc = "place"
  /\ worklist = {}
  /\ promotable' = IF CanPromoteWithoutUndef(Head(infos))
                     THEN Append(promotable, Head(infos)) ELSE promotable
  /\ infos' = Tail(infos)
  /\ pc' = "examine"
  /\ UNCHANGED <<code, dominance, function, worklist, phi, renaming>>

NothingToPromote ==
  /\ pc = "examine"
  /\ infos = <<>>
  /\ promotable = <<>>
  /\ pc' = "done"
  /\ UNCHANGED <<code, dominance, function, examination, renaming>>

-----------------------------------------------------------------------------
(* create_block_params, rename_block *)

\* A wrong variant: info_by_alloc of the candidates instead of that of the
\* promotable allocas.
PromotedCandidate(v) == v \in Candidates

Promoted(v) == v \in ToSet(promotable)

StartCreating ==
  /\ pc = "examine"
  /\ infos = <<>>
  /\ promotable # <<>>
  /\ infos' = promotable
  /\ pc' = "create"
  /\ UNCHANGED <<code, dominance, function, worklist, phi, promotable, renaming>>

\* One turn of the loop over the promotable allocas: a parameter more for each
\* of its blocks.
CreateBlockParams ==
  /\ pc = "create"
  /\ infos # <<>>
  /\ LET v == Head(infos)
     IN params' = [b \in Block |-> IF b \in phi[v] THEN Append(params[b], v) ELSE params[b]]
  /\ infos' = Tail(infos)
  /\ UNCHANGED <<code, dominance, pc, insts, operand, args, worklist, phi, promotable, renaming>>

StartRenaming ==
  /\ pc = "create"
  /\ infos = <<>>
  /\ calls' = << [block |-> Entry, values |-> values] >>
  /\ pc' = "call"
  /\ UNCHANGED <<code, dominance, function, examination, block, rest, values>>

\* A wrong variant: the block's own parameters are not made current.
EnterBlockKeepingValues ==
  /\ pc = "call"
  /\ calls # <<>>
  /\ block' = Head(calls).block
  /\ values' = Head(calls).values
  /\ rest' = insts[block']
  /\ calls' = Tail(calls)
  /\ pc' = "rename"
  /\ UNCHANGED <<code, dominance, function, examination>>

EnterBlock ==
  /\ pc = "call"
  /\ calls # <<>>
  /\ block' = Head(calls).block
  /\ values' = [v \in Var |-> IF v \in ToSet(params[block']) THEN Param(block', v)
                              ELSE Head(calls).values[v]]
  /\ rest' = insts[block']
  /\ calls' = Tail(calls)
  /\ pc' = "rename"
  /\ UNCHANGED <<code, dominance, function, examination>>

\* n is the instruction of original_insts the loop is at, and the pass removes it.
IsNext(n) == pc = "rename" /\ \A m \in rest : n[2] <= m[2]
AccessesPromoted(n) == Op(n) \in {"alloc", "load", "store"} /\ Promoted(VarOf(n))

EraseInstruction(n) ==
  /\ insts' = [insts EXCEPT ![block] = @ \ {n}]
  /\ rest' = rest \ {n}

RenameAlloc ==
  /\ \E n \in rest :
       /\ IsNext(n) /\ AccessesPromoted(n) /\ Op(n) = "alloc"
       /\ EraseInstruction(n)
  /\ UNCHANGED <<code, dominance, pc, operand, params, args, examination, calls, block, values>>

ReplaceAllUses(old, new) ==
  LET Replaced(x) == IF x = old THEN new ELSE x
  IN /\ operand' = [n \in Insts(code) |-> Replaced(operand[n])]
     /\ args' = [b \in Block |-> [e \in DOMAIN args[b] |->
                   [m \in DOMAIN args[b][e] |-> Replaced(args[b][e][m])]]]

RenameLoad ==
  /\ \E n \in rest :
       /\ IsNext(n) /\ AccessesPromoted(n) /\ Op(n) = "load"
       /\ ReplaceAllUses(Result(n), values[VarOf(n)])
       /\ EraseInstruction(n)
  /\ UNCHANGED <<code, dominance, pc, params, examination, calls, block, values>>

\* A wrong variant: the value is the one the store had before the pass.
RenameStoreOfOldOperand ==
  /\ \E n \in rest :
       /\ IsNext(n) /\ AccessesPromoted(n) /\ Op(n) = "store"
       /\ values' = [values EXCEPT ![VarOf(n)] = code.body[n[1]][n[2]].val]
       /\ EraseInstruction(n)
  /\ UNCHANGED <<code, dominance, pc, operand, params, args, examination, calls, block>>

RenameStore ==
  /\ \E n \in rest :
       /\ IsNext(n) /\ AccessesPromoted(n) /\ Op(n) = "store"
       /\ values' = [values EXCEPT ![VarOf(n)] = operand[n]]
       /\ EraseInstruction(n)
  /\ UNCHANGED <<code, dominance, pc, operand, params, args, examination, calls, block>>

KeepInstruction ==
  /\ \E n \in rest :
       /\ IsNext(n) /\ ~AccessesPromoted(n)
       /\ rest' = rest \ {n}
  /\ UNCHANGED <<code, dominance, pc, function, examination, calls, block, values>>

\* The m-th smallest element of a set of numbers.
Nth(S, m) == CHOOSE i \in S : Cardinality({j \in S : j <= i}) = m

\* append_mem2reg_edge_args: a parameter without a current value gets none.
EdgeArgs(target) ==
  LET present == {i \in 1 .. Len(params[target]) : values[params[target][i]] # Null}
  IN [m \in 1 .. Cardinality(present) |-> values[params[target][Nth(present, m)]]]

AppendSuccessorArgs ==
  args' = [args EXCEPT ![block] =
             [e \in DOMAIN @ |-> @[e] \o EdgeArgs(code.succ[block][e])]]

\* The children are renamed in the order of the dominator tree's child list,
\* each with its own copy of the values.
EndBlock ==
  /\ pc = "rename"
  /\ rest = {}
  /\ AppendSuccessorArgs
  /\ \E order \in SetToSeqs(dominance.children[block]) :
       calls' = [m \in DOMAIN order |-> [block |-> order[m], values |-> values]] \o calls
  /\ pc' = "call"
  /\ UNCHANGED <<code, dominance, insts, operand, params, examination, block, rest, values>>

EndRenaming ==
  /\ pc = "call"
  /\ calls = <<>>
  /\ pc' = "done"
  /\ UNCHANGED <<code, dominance, function, examination, renaming>>

Finished == pc = "done" /\ UNCHANGED vars

Next ==
  \/ Collect \/ StartPlacing \/ PlaceBlockArguments \/ EndPlacing
  \/ NothingToPromote \/ StartCreating \/ CreateBlockParams \/ StartRenaming \/ EnterBlock
  \/ RenameAlloc \/ RenameLoad \/ RenameStore \/ KeepInstruction
  \/ EndBlock \/ EndRenaming \/ Finished

Spec == Init /\ [][Next]_vars

\* run_function is one call on one thread: it goes on until it returns.
FairSpec == Spec /\ WF_vars(Next)

-----------------------------------------------------------------------------
(* Properties *)

ValueOrNull == Values(code) \cup {Null}

TypeOK ==
  /\ code \in Functions
  /\ pc \in {"collect", "examine", "place", "create", "call", "rename", "done"}
  /\ insts \in [Block -> SUBSET Insts(code)]
  /\ operand \in [Insts(code) -> Values(code)]
  /\ params \in [Block -> Seq(Var)]
  /\ args \in [Block -> Seq(Seq(Values(code)))]
  /\ \A b \in Block : Len(args[b]) = Len(code.succ[b])
  /\ infos \in Seq(Var)
  /\ worklist \in SUBSET Block
  /\ phi \in [Var -> SUBSET Block]
  /\ promotable \in Seq(Var)
  /\ calls \in Seq([block : Block, values : [Var -> ValueOrNull]])
  /\ block \in Block \cup {NoBlock}
  /\ rest \in SUBSET Insts(code)
  /\ values \in [Var -> ValueOrNull]

(* When the worklist is empty the blocks that get a parameter are the        *)
(* iterated dominance frontier of the stores, the least set closed under     *)
(* frontiers, whatever order the unordered worklist was emptied in.          *)
ClosedUnderFrontiers(v, P) ==
  \A b \in DefBlocks(v) \cup P : dominance.frontier[b] \subseteq P

PhiIsIteratedFrontier ==
  pc = "place" /\ worklist = {} /\ Accesses("load", Head(infos)) # {} =>
    LET v == Head(infos)
    IN /\ ClosedUnderFrontiers(v, phi[v])
       /\ \A P \in SUBSET Block : ClosedUnderFrontiers(v, P) => phi[v] \subseteq P

(* Every edge carries one argument for each parameter of its target: what    *)
(* verify_edge_arguments of src/ir/ir_verifier.cpp demands of every block.   *)
EdgeArgsMatchParams ==
  pc = "done" =>
    \A b \in Block : \A e \in 1 .. Len(code.succ[b]) :
      Len(args[b][e]) = Len(params[code.succ[b][e]])

(* At every moment of the renaming each operand and edge argument of a       *)
(* reachable block is a value whose definition is still in the function and  *)
(* dominates the use: no load is erased before its last use is rewritten and *)
(* no null value gets in.                                                    *)
DefinedAt(x, b, k) ==
  \/ x = NoOperand
  \/ x \in {<<"const", c>> : c \in Constant}
  \/ \E d \in dominance.dominators[b] :
       \/ \E v \in ToSet(params[d]) : x = Param(d, v)
       \/ \E n \in insts[d] : x = Result(n) /\ (d # b \/ n[2] < k)

SSAForm ==
  \A b \in dominance.reachable :
    /\ \A n \in insts[b] : DefinedAt(operand[n], b, n[2])
    /\ \A e \in 1 .. Len(args[b]) : \A m \in 1 .. Len(args[b][e]) :
         DefinedAt(args[b][e][m], b, Len(code.body[b]) + 1)

(* When the pass returns exactly the accesses of the promoted variables are  *)
(* gone: the others keep every alloc, load and store.                        *)
OnlyPromotedVanish ==
  pc = "done" =>
    \A b \in Block :
      insts[b] = {n \in InstsOf(code, b) : VarOf(n) \notin ToSet(promotable)}

(* The pass returns: the placement reaches its fixed point and the recursion *)
(* over the dominator tree ends.                                             *)
Terminates == <>(pc = "done")
=============================================================================
