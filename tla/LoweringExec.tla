---------------------------- MODULE LoweringExec ----------------------------
(***************************************************************************)
(* What FuncLowering promises: the blocks do what the AST says.  When the     *)
(* lowering is done, the AST and the blocks are executed together: each runs  *)
(* silently to its next event (a call, an assignment, the return), the two    *)
(* events are compared, and a call has the same outcome in both.  The AST is   *)
(* run by the rules of C: left to right, short-circuit || and &&, break and    *)
(* continue of the innermost loop.                                          *)
(***************************************************************************)
EXTENDS FuncLowering

CONSTANT Outcome  \* what a call may return

VARIABLES
  todo,    \* source: what remains to be done, next first
  value,   \* source: the value of each expression node
  at,      \* blocks: <<block, position>> of the next instruction
  reg,     \* blocks: the value of each expression node
  slot     \* blocks: lor_tmp / land_tmp of each || and && node

source == <<todo, value>>
target == <<at, reg, slot>>
execVars == <<vars, source, target>>

Zeros == [n \in Node |-> IF Kind(n) = "num" THEN 1 ELSE 0]

ExecInit ==
  /\ Init
  /\ todo = <<Stmt(program.root)>>
  /\ value = Zeros
  /\ at = <<1, 1>>
  /\ reg = Zeros
  /\ slot = Zeros

Bool(p) == IF p THEN 1 ELSE 0

\* A strict operator that tells its operands apart.
Applied(kids, v) == Bool(v[kids[1]] = v[kids[2]])

-----------------------------------------------------------------------------
(* The source *)

Item == Head(todo)
Doing(label, kind) == todo # <<>> /\ Item.at = label /\ Kind(Item.node) = kind
Then(items) == todo' = items \o Tail(todo)

SourceEvent ==
  IF todo = <<>> THEN [op |-> "ret", node |-> program.root]
  ELSE IF Item.at = "apply" /\ Kind(Item.node) = "call"
    THEN [op |-> "call", node |-> Item.node]
  ELSE IF Item.at = "finish" /\ Kind(Item.node) = "assign"
    THEN [op |-> "assign", node |-> Item.node]
  ELSE IF Item.at = "finish" /\ Kind(Item.node) = "return"
    THEN [op |-> "ret", node |-> Item.node]
  ELSE [op |-> "none", node |-> program.root]

LoopIndex == CHOOSE k \in 1 .. Len(todo) :
               /\ todo[k].at = "loop"
               /\ \A m \in 1 .. k - 1 : todo[m].at # "loop"

SourceStmt ==
  /\ todo # <<>>
  /\ Item.at = "stmt"
  /\ LET n == Item.node
     IN CASE Kind(n) = "block" -> Then([k \in 1 .. Len(Kids(n)) |-> Stmt(Kids(n)[k])])
          [] Kind(n) \in {"if", "while"} -> Then(<<Exp(Kids(n)[1]), Frame("test", n, <<>>)>>)
          [] Kind(n) \in {"return", "assign", "exp"} ->
               Then([k \in 1 .. Len(Kids(n)) |-> Exp(Kids(n)[k])]
                    \o <<Frame("finish", n, <<>>)>>)
          [] Kind(n) = "break" -> todo' = SubSeq(todo, LoopIndex + 1, Len(todo))
          [] Kind(n) = "continue" -> todo' = SubSeq(todo, LoopIndex, Len(todo))
  /\ UNCHANGED value

SourceTest ==
  /\ todo # <<>>
  /\ Item.at = "test"
  /\ LET kids == Kids(Item.node)
     IN IF value[kids[1]] # 0
          THEN Then(<<Stmt(kids[2])>>
                    \o IF Kind(Item.node) = "while" THEN <<Frame("loop", Item.node, <<>>)>>
                       ELSE <<>>)
          ELSE Then(IF Len(kids) = 3 THEN <<Stmt(kids[3])>> ELSE <<>>)
  /\ UNCHANGED value

SourceLoop ==
  /\ Doing("loop", "while")
  /\ Then(<<Stmt(Item.node)>>)
  /\ UNCHANGED value

SourceExp ==
  \/ /\ Doing("finish", "exp") \/ Doing("exp", "num")
     /\ Then(<<>>)
     /\ UNCHANGED value
  \/ /\ Doing("exp", "call") \/ Doing("exp", "bin")
     /\ Then([k \in 1 .. Len(Kids(Item.node)) |-> Exp(Kids(Item.node)[k])]
             \o <<Frame("apply", Item.node, <<>>)>>)
     /\ UNCHANGED value
  \/ /\ Doing("apply", "bin")
     /\ value' = [value EXCEPT ![Item.node] = Applied(Kids(Item.node), value)]
     /\ Then(<<>>)

SourceShortCircuit ==
  \/ /\ Doing("exp", "or") \/ Doing("exp", "and")
     /\ Then(<<Exp(Kids(Item.node)[1]), Frame("lhs", Item.node, <<>>)>>)
     /\ UNCHANGED value
  \/ /\ Doing("lhs", "or") \/ Doing("lhs", "and")
     /\ LET lhs == value[Kids(Item.node)[1]] # 0
        IN IF lhs = (Kind(Item.node) = "or")
             THEN Then(<<>>) /\ value' = [value EXCEPT ![Item.node] = Bool(lhs)]
             ELSE /\ Then(<<Exp(Kids(Item.node)[2]), Frame("rhs", Item.node, <<>>)>>)
                  /\ UNCHANGED value
  \/ /\ Doing("rhs", "or") \/ Doing("rhs", "and")
     /\ value' = [value EXCEPT ![Item.node] = Bool(value[Kids(Item.node)[2]] # 0)]
     /\ Then(<<>>)

SourceStep ==
  /\ status = "done"
  /\ SourceEvent.op = "none"
  /\ SourceStmt \/ SourceTest \/ SourceLoop \/ SourceExp \/ SourceShortCircuit
  /\ UNCHANGED <<vars, target>>

-----------------------------------------------------------------------------
(* The blocks *)

Inst == fn.blocks[at[1]][at[2]]
NextInst == at' = <<at[1], at[2] + 1>>

TargetEvent ==
  IF Inst.op \in {"call", "assign", "ret"} THEN [op |-> Inst.op, node |-> Inst.node]
  ELSE [op |-> "none", node |-> program.root]

TargetInst ==
  CASE Inst.op = "bin" -> /\ reg' = [reg EXCEPT ![Inst.node] = Applied(Kids(Inst.node), reg)]
                          /\ UNCHANGED slot
                          /\ NextInst
    [] Inst.op = "shortcut" -> /\ slot' = [slot EXCEPT ![Inst.node] =
                                             Bool(Kind(Inst.node) = "or")]
                               /\ UNCHANGED reg
                               /\ NextInst
    [] Inst.op = "store" -> /\ slot' = [slot EXCEPT ![Inst.node] =
                                          Bool(reg[Kids(Inst.node)[2]] # 0)]
                            /\ UNCHANGED reg
                            /\ NextInst
    [] Inst.op = "load" -> /\ reg' = [reg EXCEPT ![Inst.node] = slot[Inst.node]]
                           /\ UNCHANGED slot
                           /\ NextInst
    [] Inst.op = "jump" -> at' = <<Inst.to[1], 1>> /\ UNCHANGED <<reg, slot>>
    [] Inst.op = "br" -> /\ at' = <<Inst.to[IF reg[Inst.node] # 0 THEN 1 ELSE 2], 1>>
                         /\ UNCHANGED <<reg, slot>>

TargetStep ==
  /\ status = "done"
  /\ SourceEvent.op # "none"
  /\ TargetEvent.op = "none"
  /\ TargetInst
  /\ UNCHANGED <<vars, source>>

-----------------------------------------------------------------------------

AtEvents == status = "done" /\ SourceEvent.op # "none" /\ TargetEvent.op # "none"

JointCall ==
  /\ AtEvents
  /\ SourceEvent.op = "call"
  /\ \E x \in Outcome :
       /\ value' = [value EXCEPT ![Item.node] = x]
       /\ reg' = [reg EXCEPT ![Inst.node] = x]
  /\ Then(<<>>)
  /\ NextInst
  /\ UNCHANGED <<vars, slot>>

JointAssign ==
  /\ AtEvents
  /\ SourceEvent.op = "assign"
  /\ Then(<<>>)
  /\ NextInst
  /\ UNCHANGED <<vars, value, reg, slot>>

Returned == AtEvents /\ SourceEvent.op = "ret" /\ UNCHANGED execVars

ExecNext ==
  \/ Next /\ UNCHANGED <<source, target>>
  \/ status = "rejected" /\ UNCHANGED execVars
  \/ SourceStep \/ TargetStep
  \/ JointCall \/ JointAssign \/ Returned

ExecSpec == ExecInit /\ [][ExecNext]_execVars

-----------------------------------------------------------------------------
(* Properties *)

(* On every path the blocks call, assign and return at the same places of    *)
(* the AST, in the same order and with the same operand values, as the source *)
(* does: short-circuits skip what they must, conditions go the right way,     *)
(* break and continue leave and repeat their own loop, and dropping what      *)
(* follows a return, break or continue drops nothing that could run.          *)
SameEvents ==
  AtEvents =>
    /\ SourceEvent = TargetEvent
    /\ SourceEvent.node # program.root =>
         \A k \in 1 .. Len(Kids(SourceEvent.node)) :
            value[Kids(SourceEvent.node)[k]] = reg[Kids(SourceEvent.node)[k]]
=============================================================================
