---------------------------- MODULE FuncLowering ----------------------------
(***************************************************************************)
(* RewindIRBuilder lowering one function body to basic blocks: lower_func_def, *)
(* lower_block, lower_stmt and the expression lowering, on top of FuncContext  *)
(* (src/ir/ir_builder*.cpp, include/ir/func_context.h).                      *)
(*                                                                         *)
(* The recursion over the AST is a stack of frames.  A frame names the code   *)
(* that runs next (at), the AST node and the local variables that are still   *)
(* needed (refs: blocks, or the index of a block item); what runs between two *)
(* recursive calls is one step.                                             *)
(*                                                                         *)
(* A node has a kind and its children.  Statements: "block" (its items),     *)
(* "if" (condition, then, perhaps else), "while" (condition, body), "return"  *)
(* (perhaps a value), "assign" (also a declaration with initializer), "exp"   *)
(* (perhaps empty), "break", "continue".  Expressions: "call" (arguments),    *)
(* "bin" (any strict operator), "or", "and", "num".                          *)
(***************************************************************************)
EXTENDS Naturals, Sequences, FiniteSets, SequencesExt

CONSTANTS Node,      \* AST nodes
          Programs   \* function bodies: [root, kind, kids]

StmtKinds == {"block", "if", "while", "return", "assign", "exp", "break", "continue"}
ExpKinds == {"call", "bin", "or", "and", "num"}

\* What the parser builds: which children a node of each kind has.
IsAst(p) ==
  /\ p.root \in Node /\ p.kind \in [Node -> StmtKinds \cup ExpKinds]
  /\ p.kids \in [Node -> Seq(Node)]
  /\ p.kind[p.root] = "block"
  /\ \A n \in Node :
       /\ \A k \in 1 .. Len(p.kids[n]) :
            p.kind[p.kids[n][k]] \in
              IF p.kind[n] = "block" \/ (p.kind[n] \in {"if", "while"} /\ k > 1)
                THEN StmtKinds ELSE ExpKinds
       /\ p.kind[n] = "if" => Len(p.kids[n]) \in {2, 3}
       /\ p.kind[n] \in {"while", "or", "and"} => Len(p.kids[n]) = 2

ASSUME ProgramsAssumption == \A p \in Programs : IsAst(p)

NoBlock == 0  \* nullptr; the blocks of the function are numbered from 1

VARIABLES
  program,  \* the function body; never changes
  status,   \* "lowering", "done", or "rejected" by a semantic check
  frames,   \* the calls in progress, innermost first
  fn,       \* basic_blocks_ with their instructions, and current_block_
  loops,    \* loop_stack_, innermost first
  scopes    \* the depth of the scope stack of symbols_

vars == <<program, status, frames, fn, loops, scopes>>

Kind(n) == program.kind[n]
Kids(n) == program.kids[n]

Frame(at, n, refs) == [at |-> at, node |-> n, refs |-> refs]
Stmt(n) == Frame("stmt", n, <<>>)
Exp(n) == Frame("exp", n, <<>>)

-----------------------------------------------------------------------------
(* FuncContext *)

CreateBlock(f) == [f EXCEPT !.blocks = Append(@, <<>>)]
Newest(f) == Len(f.blocks)
SetCurrent(f, b) == [f EXCEPT !.current = b]
Emit(f, inst) == [f EXCEPT !.blocks[f.current] = Append(@, inst)]

\* A wrong variant: the current block stays set after its terminator.
TerminateKeepingBlock(f, inst) == Emit(f, inst)

Terminate(f, inst) == SetCurrent(Emit(f, inst), NoBlock)

Ret(n) == [op |-> "ret", node |-> n, to |-> <<>>]
Jump(b) == [op |-> "jump", node |-> program.root, to |-> <<b>>]
Br(cond, b, c) == [op |-> "br", node |-> cond, to |-> <<b, c>>]
Do(op, n) == [op |-> op, node |-> n, to |-> <<>>]

-----------------------------------------------------------------------------
(* lower_func_def *)

Init ==
  /\ program \in Programs
  /\ status = "lowering"
  /\ fn = [blocks |-> << <<>> >>, current |-> 1]
  /\ frames = <<Stmt(program.root)>>
  /\ loops = <<>>
  /\ scopes = 1

Top == Head(frames)
At(label) == status = "lowering" /\ frames # <<>> /\ Top.at = label
AtStmt(kind) == At("stmt") /\ Kind(Top.node) = kind
AtExp(kind) == At("exp") /\ Kind(Top.node) = kind
Return == frames' = Tail(frames)
GoOn(calls) == frames' = calls \o Tail(frames)

\* A wrong variant: no return is added at the end of the body.
EndFunctionOpen ==
  /\ status = "lowering"
  /\ frames = <<>>
  /\ status' = "done"
  /\ scopes' = scopes - 1
  /\ UNCHANGED <<program, frames, fn, loops>>

EndFunction ==
  /\ status = "lowering"
  /\ frames = <<>>
  /\ fn' = IF fn.current # NoBlock THEN Terminate(fn, Ret(program.root)) ELSE fn
  /\ status' = "done"
  /\ scopes' = scopes - 1
  /\ UNCHANGED <<program, frames, loops>>

(* lower_block *)

EnterScope ==
  /\ AtStmt("block")
  /\ scopes' = scopes + 1
  /\ GoOn(<<Frame("item", Top.node, <<1>>)>>)
  /\ UNCHANGED <<program, status, fn, loops>>

\* A wrong variant: the items after a return, break or continue are lowered too.
LowerItemUnconditionally ==
  /\ At("item")
  /\ Top.refs[1] <= Len(Kids(Top.node))
  /\ GoOn(<<Stmt(Kids(Top.node)[Top.refs[1]]), Frame("item", Top.node, <<Top.refs[1] + 1>>)>>)
  /\ UNCHANGED <<program, status, fn, loops, scopes>>

LowerItem ==
  /\ At("item")
  /\ Top.refs[1] <= Len(Kids(Top.node))
  /\ fn.current # NoBlock
  /\ GoOn(<<Stmt(Kids(Top.node)[Top.refs[1]]), Frame("item", Top.node, <<Top.refs[1] + 1>>)>>)
  /\ UNCHANGED <<program, status, fn, loops, scopes>>

ExitScope ==
  /\ At("item")
  /\ Top.refs[1] > Len(Kids(Top.node)) \/ fn.current = NoBlock
  /\ scopes' = scopes - 1
  /\ Return
  /\ UNCHANGED <<program, status, fn, loops>>

-----------------------------------------------------------------------------
(* lower_stmt: return, assignment, expression statement *)

LowerSimpleStmt ==
  /\ At("stmt")
  /\ Kind(Top.node) \in {"return", "assign", "exp"}
  /\ GoOn([k \in 1 .. Len(Kids(Top.node)) |-> Exp(Kids(Top.node)[k])]
          \o <<Frame("finish", Top.node, <<>>)>>)
  /\ UNCHANGED <<program, status, fn, loops, scopes>>

FinishReturn ==
  /\ At("finish")
  /\ Kind(Top.node) = "return"
  /\ fn.current # NoBlock
  /\ fn' = Terminate(fn, Ret(Top.node))
  /\ Return
  /\ UNCHANGED <<program, status, loops, scopes>>

FinishAssign ==
  /\ At("finish")
  /\ Kind(Top.node) = "assign"
  /\ fn.current # NoBlock
  /\ fn' = Emit(fn, Do("assign", Top.node))
  /\ Return
  /\ UNCHANGED <<program, status, loops, scopes>>

FinishExp ==
  /\ At("finish")
  /\ Kind(Top.node) = "exp"
  /\ Return
  /\ UNCHANGED <<program, status, fn, loops, scopes>>

-----------------------------------------------------------------------------
(* lower_stmt: if *)

HasElse(n) == Len(Kids(n)) = 3

StartIf ==
  /\ AtStmt("if")
  /\ GoOn(<<Exp(Kids(Top.node)[1]), Frame("branch", Top.node, <<>>)>>)
  /\ UNCHANGED <<program, status, fn, loops, scopes>>

\* then_bb, and the block the condition skips to: else_bb, or merge_bb when
\* there is no else.
BranchIf ==
  /\ At("branch")
  /\ fn.current # NoBlock
  /\ LET n == Top.node
         withThen == CreateBlock(fn)
         both == CreateBlock(withThen)
         then == Newest(withThen)
         other == Newest(both)
     IN /\ fn' = SetCurrent(Terminate(both, Br(Kids(n)[1], then, other)), then)
        /\ GoOn(<<Stmt(Kids(n)[2]), Frame("then", n, <<other>>)>>)
  /\ UNCHANGED <<program, status, loops, scopes>>

\* A branch of the if that falls through jumps to merge_bb, creating it when it
\* is the first to need it.
FallThrough(f, merge) ==
  IF f.current = NoBlock THEN [fn |-> f, merge |-> merge]
  ELSE LET made == IF merge = NoBlock THEN CreateBlock(f) ELSE f
           to == IF merge = NoBlock THEN Newest(made) ELSE merge
       IN [fn |-> Terminate(made, Jump(to)), merge |-> to]

EndThenWithoutElse ==
  /\ At("then")
  /\ ~HasElse(Top.node)
  /\ fn' = SetCurrent(FallThrough(fn, Top.refs[1]).fn, Top.refs[1])
  /\ Return
  /\ UNCHANGED <<program, status, loops, scopes>>

EndThen ==
  /\ At("then")
  /\ HasElse(Top.node)
  /\ LET out == FallThrough(fn, NoBlock)
     IN /\ fn' = SetCurrent(out.fn, Top.refs[1])
        /\ GoOn(<<Stmt(Kids(Top.node)[3]), Frame("else", Top.node, <<out.merge>>)>>)
  /\ UNCHANGED <<program, status, loops, scopes>>

\* A wrong variant: merge_bb is made current even where neither branch needs it.
EndElseAlwaysMerging ==
  /\ At("else")
  /\ LET out == FallThrough(fn, Top.refs[1])
     IN fn' = IF out.merge # NoBlock THEN SetCurrent(out.fn, out.merge)
              ELSE SetCurrent(CreateBlock(out.fn), Newest(CreateBlock(out.fn)))
  /\ Return
  /\ UNCHANGED <<program, status, loops, scopes>>

EndElse ==
  /\ At("else")
  /\ LET out == FallThrough(fn, Top.refs[1])
     IN fn' = SetCurrent(out.fn, out.merge)
  /\ Return
  /\ UNCHANGED <<program, status, loops, scopes>>

-----------------------------------------------------------------------------
(* lower_stmt: while, break, continue *)

StartLoop ==
  /\ AtStmt("while")
  /\ fn.current # NoBlock
  /\ LET made == CreateBlock(CreateBlock(CreateBlock(fn)))
         entry == Newest(fn) + 1
         body == Newest(fn) + 2
         end == Newest(fn) + 3
     IN /\ fn' = SetCurrent(Terminate(made, Jump(entry)), entry)
        /\ loops' = <<[break |-> end, continue |-> entry]>> \o loops
        /\ GoOn(<<Exp(Kids(Top.node)[1]), Frame("test", Top.node, <<entry, body, end>>)>>)
  /\ UNCHANGED <<program, status, scopes>>

TestLoop ==
  /\ At("test")
  /\ fn.current # NoBlock
  /\ LET n == Top.node
     IN /\ fn' = SetCurrent(Terminate(fn, Br(Kids(n)[1], Top.refs[2], Top.refs[3])), Top.refs[2])
        /\ GoOn(<<Stmt(Kids(n)[2]), Frame("loop", n, <<Top.refs[1], Top.refs[3]>>)>>)
  /\ UNCHANGED <<program, status, loops, scopes>>

\* A wrong variant: the targets of the loop stay on loop_stack_.
EndLoopWithoutPop ==
  /\ At("loop")
  /\ fn' = SetCurrent(FallThrough(fn, Top.refs[1]).fn, Top.refs[2])
  /\ Return
  /\ UNCHANGED <<program, status, loops, scopes>>

EndLoop ==
  /\ At("loop")
  /\ fn' = SetCurrent(FallThrough(fn, Top.refs[1]).fn, Top.refs[2])
  /\ loops' = Tail(loops)
  /\ Return
  /\ UNCHANGED <<program, status, scopes>>

\* A wrong variant: the targets of the outermost loop are taken.
ControlTargetOutermost == loops[Len(loops)]

ControlTarget == Head(loops)

LoopControl ==
  /\ At("stmt")
  /\ Kind(Top.node) \in {"break", "continue"}
  /\ loops # <<>>
  /\ fn.current # NoBlock
  /\ fn' = Terminate(fn, Jump(ControlTarget[Kind(Top.node)]))
  /\ Return
  /\ UNCHANGED <<program, status, loops, scopes>>

\* require_loop_control_inside_loop throws.
RejectLoopControl ==
  /\ At("stmt")
  /\ Kind(Top.node) \in {"break", "continue"}
  /\ loops = <<>>
  /\ status' = "rejected"
  /\ UNCHANGED <<program, frames, fn, loops, scopes>>

-----------------------------------------------------------------------------
(* Expressions: lower_unary_exp's calls, the strict binary levels, lower_lor_exp, *)
(* lower_land_exp.  The value of a node is known by the node.                 *)

LowerNumber ==
  /\ AtExp("num")
  /\ Return
  /\ UNCHANGED <<program, status, fn, loops, scopes>>

LowerOperands ==
  /\ At("exp")
  /\ Kind(Top.node) \in {"call", "bin"}
  /\ GoOn([k \in 1 .. Len(Kids(Top.node)) |-> Exp(Kids(Top.node)[k])]
          \o <<Frame("apply", Top.node, <<>>)>>)
  /\ UNCHANGED <<program, status, fn, loops, scopes>>

Apply ==
  /\ At("apply")
  /\ fn.current # NoBlock
  /\ fn' = Emit(fn, Do(Kind(Top.node), Top.node))
  /\ Return
  /\ UNCHANGED <<program, status, loops, scopes>>

\* The three blocks of || are created before its left side is lowered, those of
\* && after.  In both, the first is the one that skips the right side.
StartOr ==
  /\ AtExp("or")
  /\ fn' = CreateBlock(CreateBlock(CreateBlock(fn)))
  /\ GoOn(<<Exp(Kids(Top.node)[1]), Frame("lhs", Top.node, <<Newest(fn) + 1>>)>>)
  /\ UNCHANGED <<program, status, loops, scopes>>

StartAnd ==
  /\ AtExp("and")
  /\ GoOn(<<Exp(Kids(Top.node)[1]), Frame("create", Top.node, <<>>)>>)
  /\ UNCHANGED <<program, status, fn, loops, scopes>>

\* A wrong variant: no merge block is created.
CreateAndBlocksWithoutMerge ==
  /\ At("create")
  /\ fn' = CreateBlock(CreateBlock(fn))
  /\ GoOn(<<Frame("lhs", Top.node, <<Newest(fn) + 1>>)>>)
  /\ UNCHANGED <<program, status, loops, scopes>>

CreateAndBlocks ==
  /\ At("create")
  /\ fn' = CreateBlock(CreateBlock(CreateBlock(fn)))
  /\ GoOn(<<Frame("lhs", Top.node, <<Newest(fn) + 1>>)>>)
  /\ UNCHANGED <<program, status, loops, scopes>>

ShortCircuitBranch(n, short, rhs) ==
  IF Kind(n) = "or" THEN Br(Kids(n)[1], short, rhs) ELSE Br(Kids(n)[1], rhs, short)

EndLhs ==
  /\ At("lhs")
  /\ fn.current # NoBlock
  /\ LET n == Top.node
         short == Top.refs[1]
         rhs == short + 1
         merge == short + 2
         branched == SetCurrent(Terminate(fn, ShortCircuitBranch(n, short, rhs)), short)
         known == Terminate(Emit(branched, Do("shortcut", n)), Jump(merge))
     IN /\ fn' = SetCurrent(known, rhs)
        /\ GoOn(<<Exp(Kids(n)[2]), Frame("rhs", n, <<merge>>)>>)
  /\ UNCHANGED <<program, status, loops, scopes>>

EndRhs ==
  /\ At("rhs")
  /\ fn.current # NoBlock
  /\ LET stored == Terminate(Emit(fn, Do("store", Top.node)), Jump(Top.refs[1]))
     IN fn' = Emit(SetCurrent(stored, Top.refs[1]), Do("load", Top.node))
  /\ Return
  /\ UNCHANGED <<program, status, loops, scopes>>

-----------------------------------------------------------------------------

Next ==
  \/ EnterScope \/ LowerItem \/ ExitScope
  \/ LowerSimpleStmt \/ FinishReturn \/ FinishAssign \/ FinishExp
  \/ StartIf \/ BranchIf \/ EndThenWithoutElse \/ EndThen \/ EndElse
  \/ StartLoop \/ TestLoop \/ EndLoop \/ LoopControl \/ RejectLoopControl
  \/ LowerNumber \/ LowerOperands \/ Apply
  \/ StartOr \/ StartAnd \/ CreateAndBlocks \/ EndLhs \/ EndRhs
  \/ EndFunction

Spec == Init /\ [][Next]_vars

-----------------------------------------------------------------------------
(* Properties *)

Labels == {"stmt", "exp", "item", "finish", "branch", "then", "else", "test", "loop",
           "apply", "create", "lhs", "rhs"}

BlockOrNull == 0 .. Len(fn.blocks)

Instruction ==
  [op : {"ret", "jump", "br", "call", "bin", "assign", "shortcut", "store", "load"},
   node : Node, to : Seq(1 .. Len(fn.blocks))]

TypeOK ==
  /\ status \in {"lowering", "done", "rejected"}
  /\ frames \in Seq([at : Labels, node : Node, refs : Seq(Nat)])
  /\ \A k \in 1 .. Len(frames) : frames[k].at # "item" =>
        ToSet(frames[k].refs) \subseteq BlockOrNull
  /\ fn.current \in BlockOrNull
  /\ fn.blocks \in Seq(Seq(Instruction))
  /\ loops \in Seq([break : BlockOrNull, continue : BlockOrNull])
  /\ scopes \in Nat

Terminators == {"ret", "jump", "br"}
Open(b) == \A k \in 1 .. Len(fn.blocks[b]) : fn.blocks[b][k].op \notin Terminators

(* A block has at most one terminator, its last instruction, and the block   *)
(* being filled has none: nothing is ever emitted behind a return, break or  *)
(* continue, whatever the nesting.                                           *)
OneTerminator ==
  /\ \A b \in 1 .. Len(fn.blocks) : \A k \in 1 .. Len(fn.blocks[b]) - 1 :
        fn.blocks[b][k].op \notin Terminators
  /\ fn.current # NoBlock => Open(fn.current)

(* A block without a terminator is the current one or is still wanted by a   *)
(* call in progress: no block is left open for good, so that the verifier's  *)
(* demand for a terminator in every block holds when lowering is done.       *)
Wanted(frame) ==
  CASE frame.at = "item" -> {}
    [] frame.at = "lhs"  -> frame.refs[1] .. frame.refs[1] + 2
    [] OTHER             -> ToSet(frame.refs)

NoBlockForgotten ==
  status # "rejected" =>
    \A b \in 1 .. Len(fn.blocks) :
      Open(b) => \/ status = "lowering" /\ b = fn.current
                 \/ \E k \in 1 .. Len(frames) : b \in Wanted(frames[k])

(* FuncContext::current_block() is never called without a current block:     *)
(* "current block is not set" is not thrown for any program.                 *)
NeedsBlock ==
  \/ \E label \in {"branch", "test", "apply", "lhs", "rhs"} : At(label)
  \/ At("finish") /\ Kind(Top.node) \in {"return", "assign"}
  \/ At("stmt") /\ Kind(Top.node) \in {"while", "break", "continue"}

NeverWithoutBlock == NeedsBlock => fn.current # NoBlock

(* Every block of a finished function can be reached from its entry, block 1: *)
(* no set of other blocks holds the targets of the entry and of its own blocks *)
(* and leaves a block out.  And no edge leads back to the entry.  This is     *)
(* what Mem2Reg and the dominance analysis rely on (an unreachable            *)
(* predecessor of a join breaks the former).                                *)
TargetsOf(b) ==
  UNION {ToSet(fn.blocks[b][k].to) : k \in 1 .. Len(fn.blocks[b])}

AllReachable ==
  LET last == Len(fn.blocks)
      succ == [b \in 1 .. last |-> TargetsOf(b)]
  IN /\ \A R \in SUBSET (2 .. last) :
          (\A b \in {1} \cup R : succ[b] \subseteq R) => R = 2 .. last
     /\ \A b \in 1 .. last : 1 \notin succ[b]

EveryBlockReachable ==
  [][status = "lowering" /\ status' = "done" => AllReachable']_vars

(* loop_stack_ holds the targets of exactly the loops whose lowering is in   *)
(* progress, innermost first, and a scope is open for exactly the blocks in  *)
(* progress, however their lowering was left.                                *)
FramesAt(labels) == {k \in 1 .. Len(frames) : frames[k].at \in labels}
OpenLoops == FramesAt({"test", "loop"})

StacksMatchNesting ==
  /\ Len(loops) = Cardinality(OpenLoops)
  /\ \A k \in OpenLoops :
       loops[Cardinality({m \in OpenLoops : m <= k})] =
         [break |-> frames[k].refs[Len(frames[k].refs)], continue |-> frames[k].refs[1]]
  /\ scopes = (IF status = "done" THEN 0 ELSE 1) + Cardinality(FramesAt({"item"}))
=============================================================================
