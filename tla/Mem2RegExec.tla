---------------------------- MODULE Mem2RegExec ----------------------------
(***************************************************************************)
(* What Mem2Reg promises: "mem2reg 前后程序语义一致" (the program means the    *)
(* same before and after, docs/architecture/ssa_mem2reg_design.md).  When    *)
(* the pass has returned, the function before it and the function after it   *)
(* run in lockstep, instruction by instruction, on the same outcomes of      *)
(* calls and the same branches; what either hands to the rest of the program *)
(* is compared.                                                             *)
(*                                                                         *)
(* The meaning of an instruction is that of the Koopa IR text the program    *)
(* prints, not code of this repository: block parameters are assigned all at *)
(* once when an edge is taken.                                              *)
(***************************************************************************)
EXTENDS Mem2Reg

CONSTANTS Outcome,  \* what calls, arithmetic and unknown code may produce
          Undefined \* what an alloca holds before its first store

VARIABLES
  at,          \* the block being executed, NoBlock before and after the run
  next,        \* the position of the next instruction in code.body[at]
  before,      \* memory and instruction results of the original function
  after,       \* the same of the promoted function
  paramValue,  \* the values of the block parameters of the promoted function
  written,     \* the variables something has been stored in
  seen         \* the operand last handed to an "other": <<original, promoted>>

execution == <<at, next, before, after, paramValue, written, seen>>
execVars == <<vars, execution>>

Blank == [mem |-> [v \in Var |-> Undefined], result |-> [n \in Insts(code) |-> Undefined]]

ExecInit ==
  /\ Init
  /\ at = NoBlock
  /\ next = 0
  /\ before = Blank
  /\ after = Blank
  /\ paramValue = [b \in Block |-> [v \in Var |-> Undefined]]
  /\ written = {}
  /\ seen = <<Undefined, Undefined>>

-----------------------------------------------------------------------------

Eval(x, state) ==
  CASE x[1] = "const"  -> x[2]
    [] x[1] = "result" -> state.result[x[2]]
    [] x[1] = "param"  -> paramValue[x[2]][x[3]]
    [] x[1] = "none"   -> Undefined

Current == <<at, next>>
Executing == at # NoBlock /\ next <= Len(code.body[at])
Kept == Current \in insts[at]

Start ==
  /\ pc = "done"
  /\ next = 0
  /\ at' = Entry
  /\ next' = 1
  /\ UNCHANGED <<vars, before, after, paramValue, written, seen>>

Step(op) ==
  /\ Executing
  /\ Op(Current) = op
  /\ next' = next + 1
  /\ UNCHANGED <<vars, at, paramValue>>

ExecAlloc == Step("alloc") /\ UNCHANGED <<before, after, written, seen>>

Loaded(state) == [state EXCEPT !.result[Current] = state.mem[VarOf(Current)]]

ExecLoad ==
  /\ Step("load")
  /\ before' = Loaded(before)
  /\ after' = IF Kept THEN Loaded(after) ELSE after
  /\ UNCHANGED <<written, seen>>

ExecStore ==
  /\ Step("store")
  /\ before' = [before EXCEPT !.mem[VarOf(Current)] =
                  Eval(code.body[at][next].val, before)]
  /\ after' = IF Kept THEN [after EXCEPT !.mem[VarOf(Current)] = Eval(operand[Current], after)]
              ELSE after
  /\ written' = written \cup {VarOf(Current)}
  /\ UNCHANGED seen

\* Code that has the address may read and write the variable.
ExecAddr ==
  /\ Step("addr")
  /\ written' = written \cup {VarOf(Current)}
  /\ seen' = <<before.mem[VarOf(Current)], after.mem[VarOf(Current)]>>
  /\ \E x \in Outcome :
       /\ before' = [before EXCEPT !.mem[VarOf(Current)] = x]
       /\ after' = [after EXCEPT !.mem[VarOf(Current)] = x]

ResultUsed(n) ==
  \E b \in Block : \E k \in 1 .. Len(code.body[b]) : code.body[b][k].val = Result(n)

ExecOther ==
  /\ Step("other")
  /\ seen' = <<Eval(code.body[at][next].val, before), Eval(operand[Current], after)>>
  /\ \E x \in IF ResultUsed(Current) THEN Outcome ELSE {Undefined} :
       /\ before' = [before EXCEPT !.result[Current] = x]
       /\ after' = [after EXCEPT !.result[Current] = x]
  /\ UNCHANGED written

ExecEdge ==
  /\ at # NoBlock
  /\ next = Len(code.body[at]) + 1
  /\ \E e \in 1 .. Len(code.succ[at]) :
       LET target == code.succ[at][e]
       IN /\ at' = target
          /\ paramValue' =
               [paramValue EXCEPT ![target] =
                  [v \in Var |->
                     IF \E m \in 1 .. Len(params[target]) : params[target][m] = v
                       THEN LET m == CHOOSE m \in 1 .. Len(params[target]) :
                                       params[target][m] = v
                            IN Eval(args[at][e][m], after)
                       ELSE Undefined]]
  /\ next' = 1
  /\ UNCHANGED <<vars, before, after, written, seen>>

ExecReturn ==
  /\ at # NoBlock
  /\ next = Len(code.body[at]) + 1
  /\ code.succ[at] = <<>>
  /\ at' = NoBlock
  /\ UNCHANGED <<vars, next, before, after, paramValue, written, seen>>

Returned == at = NoBlock /\ next > 0 /\ UNCHANGED execVars

ExecNext ==
  \/ pc # "done" /\ Next /\ UNCHANGED execution
  \/ Start
  \/ ExecAlloc \/ ExecLoad \/ ExecStore \/ ExecAddr \/ ExecOther
  \/ ExecEdge \/ ExecReturn \/ Returned

ExecSpec == ExecInit /\ [][ExecNext]_execVars

-----------------------------------------------------------------------------
(* Properties *)

(* On every path, round loops too, the promoted function hands the same      *)
(* values to calls, arithmetic, branches and returns as the original.        *)
SameObservations == seen[1] = seen[2]

(* The variables that stay in memory hold the same value in both functions   *)
(* at every moment, although what is stored in them may be a promoted value. *)
SameMemory ==
  \A v \in Var : v \notin ToSet(promotable) => before.mem[v] = after.mem[v]

(* A variable that some path reads before anything is stored in it is not    *)
(* promoted: "mem2reg 不能隐式制造一个与当前 IR 不一致的默认值" (it must not    *)
(* silently make up a default value, docs/architecture/ssa_mem2reg_design.md). *)
NoUndefinedRead ==
  Executing /\ Op(Current) = "load" /\ VarOf(Current) \notin written =>
    VarOf(Current) \notin ToSet(promotable)
=============================================================================
