-------------------------- MODULE InstructionSelector --------------------------
(***************************************************************************)
(* InstructionSelector (src/back_end/instruction_selector.cpp) on top of the *)
(* frame FrameLayout builds, with the machine it selects for.  The selector  *)
(* turns one IR instruction after the other into machine code; the machine   *)
(* runs that code one instruction at a time on registers and memory, next to *)
(* the IR function itself, which has values, objects and no registers.       *)
(*                                                                         *)
(* A function of the IR is prog.insts, its instructions and block parameters *)
(* in the order of the blocks; an instruction is                            *)
(*   [block, op, words, in, dims, init, to, edge]                           *)
(* with the operands in, the element type dims of the pointers it computes   *)
(* with, and targets to with the arguments edge of their blocks.  An operand *)
(* is [k, n]: a constant, an argument of the function, a global, or the      *)
(* result (or object) of the n-th instruction.                              *)
(*                                                                         *)
(* An IR value is [base, off]: the number off when base is 0, else a pointer *)
(* off bytes into the object of the base-th instruction (base > 0) or into   *)
(* the global -base.  Machine words are numbers below 2^WordBits, Junk is a  *)
(* word nothing is known of.  The width and the reach of a load's offset are *)
(* parameters (32 and 2048 in the code), so that small frames have slots on  *)
(* both sides of the boundary.                                              *)
(***************************************************************************)
EXTENDS Initializers, FiniteSets, Bitwise, TLC

CONSTANTS
  Programs,       \* the functions: [params, globals, insts, calls]
  WordBits,       \* bits of a register
  OffsetLimit,    \* offsets from -OffsetLimit to OffsetLimit - 1 fit in 12 bits
  StackTop,       \* the stack pointer when the function is called
  ReturnAddress,  \* where its caller goes on
  Results,        \* what a called function may return
  MaxInt          \* the largest size FrameLayout may compute

ASSUME SelectorAssumption ==
  /\ WordBits \in Nat \ {0} /\ OffsetLimit \in Nat \ {0}
  /\ StackTop % 16 = 0 /\ StackTop < 2 ^ WordBits

VARIABLES
  prog, args,     \* the function and the arguments of this call; never change
  func, pc, i, payload, maxArgs, savedRa, outgoing, frame, raOffset, nextSlot,
  slot,           \* FrameLayout: frame_
  at, val, obj,   \* the IR: next instruction (0 at the end), results, objects
  result,         \* what it returned
  mat,            \* the instruction whose code the machine executes next
  code,           \* the code selected for the one before and not yet executed
  regs, mem       \* the machine

layout == <<func, pc, i, payload, maxArgs, savedRa, outgoing, frame, raOffset,
            nextSlot, slot>>
ir == <<at, val, obj, result>>
vars == <<prog, args, layout, ir, mat, code, regs, mem>>

-----------------------------------------------------------------------------
(* The frame *)

KindOf(inst) == IF inst.op \in {"param", "alloc", "call"} THEN inst.op ELSE "other"

LayoutOf(p) ==
  [k \in DOMAIN p.insts |->
     [kind  |-> KindOf(p.insts[k]),
      words |-> p.insts[k].words,
      args  |-> IF p.insts[k].op = "call" THEN Len(p.insts[k].in) ELSE 0]]

Layout == INSTANCE FrameLayout WITH Functions <- {LayoutOf(p) : p \in Programs}

HasObjectSlot(v) == v.k = "value" /\ prog.insts[v.n].op = "alloc"
HasValueSlot(v) ==
  v.k = "value" /\ prog.insts[v.n].op # "alloc" /\ slot[v.n] # Layout!NoSlot

\* Counted from zero, above the frame of this function.
IncomingStackArgOffset(arg) == frame + Layout!OutgoingArgOffset(arg)

-----------------------------------------------------------------------------
(* Machine instructions *)

ArgRegister == <<"a0", "a1", "a2", "a3", "a4", "a5", "a6", "a7">>
Registers == {"sp", "ra", "t0", "t1", "t2"} \cup {ArgRegister[k] : k \in 1 .. 8}

Instr(op, rd, rs, rt, n, label) ==
  [op |-> op, rd |-> rd, rs |-> rs, rt |-> rt, n |-> n, label |-> label]

Li(rd, n) == Instr("li", rd, "x0", "x0", n, <<>>)
Mv(rd, rs) == Instr("mv", rd, rs, "x0", 0, <<>>)
Alu(op, rd, rs, rt) == Instr(op, rd, rs, rt, 0, <<>>)
Unary(op, rd, rs) == Instr(op, rd, rs, "x0", 0, <<>>)
Addi(rd, rs, n) == Instr("addi", rd, rs, "x0", n, <<>>)
La(rd, g) == Instr("la", rd, "x0", "x0", g, <<>>)
Lw(rd, base, n) == Instr("lw", rd, base, "x0", n, <<>>)
Sw(rs, base, n) == Instr("sw", "x0", base, rs, n, <<>>)
Call == Instr("call", "x0", "x0", "x0", 0, <<>>)
Bnez(rs, label) == Instr("bnez", "x0", rs, "x0", 0, label)
J(label) == Instr("j", "x0", "x0", "x0", 0, label)
Label(label) == Instr("label", "x0", "x0", "x0", 0, label)
Ret == Instr("ret", "x0", "x0", "x0", 0, <<>>)

\* What the selector throws on.  No action executes it: the run would stop.
Throw == Instr("throw", "x0", "x0", "x0", 0, <<>>)

BlockLabel(b) == <<b>>
EdgeLabel(from, to) == <<from, to>>

-----------------------------------------------------------------------------
(* Selection *)

FitsI12(n) == -OffsetLimit <= n /\ n <= OffsetLimit - 1

PickScratch(avoid) == IF avoid = "t0" THEN "t1" ELSE "t0"

StackAddress(rd, offset) ==
  IF FitsI12(offset) THEN <<Addi(rd, "sp", offset)>>
  ELSE <<Li(rd, offset), Alu("add", rd, "sp", rd)>>

StackLoad(rd, offset) ==
  IF FitsI12(offset) THEN <<Lw(rd, "sp", offset)>>
  ELSE StackAddress(rd, offset) \o <<Lw(rd, rd, 0)>>

\* A wrong variant: the first scratch register, whatever it holds.
StackStoreThroughT0(rs, offset) ==
  IF FitsI12(offset) THEN <<Sw(rs, "sp", offset)>>
  ELSE StackAddress("t0", offset) \o <<Sw(rs, "t0", 0)>>

StackStore(rs, offset) ==
  IF FitsI12(offset) THEN <<Sw(rs, "sp", offset)>>
  ELSE LET address == IF rs = "t2" THEN PickScratch(rs) ELSE "t2"
       IN StackAddress(address, offset) \o <<Sw(rs, address, 0)>>

AdjustSp(delta) ==
  CASE delta = 0 -> <<>>
    [] delta # 0 /\ FitsI12(delta) -> <<Addi("sp", "sp", delta)>>
    [] OTHER -> <<Li("t0", delta), Alu("add", "sp", "sp", "t0")>>

Prologue ==
  AdjustSp(-frame) \o (IF savedRa THEN StackStore("ra", raOffset) ELSE <<>>)

\* A wrong variant: the frame is gone when the return address is read.
EpilogueFrameFirst ==
  AdjustSp(frame) \o (IF savedRa THEN StackLoad("ra", raOffset) ELSE <<>>)

Epilogue ==
  (IF savedRa THEN StackLoad("ra", raOffset) ELSE <<>>) \o AdjustSp(frame)

MaterializeArg(n, rd) ==
  IF n < Layout!ArgRegisterCount THEN <<Mv(rd, ArgRegister[n + 1])>>
  ELSE StackLoad(rd, IncomingStackArgOffset(n))

MaterializeValue(v, rd) ==
  CASE v.k = "const"  -> <<Li(rd, v.n)>>
    [] v.k = "arg"    -> MaterializeArg(v.n, rd)
    [] v.k = "global" -> <<La(rd, v.n), Lw(rd, rd, 0)>>
    [] HasObjectSlot(v) \/ HasValueSlot(v) -> StackLoad(rd, slot[v.n])
    [] OTHER -> <<Throw>>

MaterializePointer(v, rd) ==
  CASE v.k = "global"   -> <<La(rd, v.n)>>
    [] HasObjectSlot(v) -> StackAddress(rd, slot[v.n])
    [] HasValueSlot(v)  -> StackLoad(rd, slot[v.n])
    [] OTHER -> <<Throw>>

StoreToAddressable(v, rs) ==
  CASE HasObjectSlot(v) -> StackStore(rs, slot[v.n])
    [] v.k = "global"   -> <<La("t1", v.n), Sw(rs, "t1", 0)>>
    [] HasValueSlot(v)  -> MaterializePointer(v, "t1") \o <<Sw(rs, "t1", 0)>>
    [] OTHER -> <<Throw>>

SpillValue(n, rs) ==
  IF slot[n] = Layout!NoSlot THEN <<Throw>> ELSE StackStore(rs, slot[n])

InitializerWord(rs, offset) ==
  IF FitsI12(offset) THEN <<Sw(rs, "t2", offset)>>
  ELSE <<Li("t1", offset), Alu("add", "t1", "t2", "t1"), Sw(rs, "t1", 0)>>

RECURSIVE InitializerStore(_, _, _)
InitializerStore(init, dims, offset) ==
  IF dims = <<>>
    THEN IF init.kind = "zero" THEN InitializerWord("x0", offset)
         ELSE <<Li("t0", init.n)>> \o InitializerWord("t0", offset)
    ELSE LET size == 4 * Words(ElementType(dims))
             elem(k) == IF init.kind = "zero" THEN init ELSE init.elems[k]
         IN FlattenSeq([k \in 1 .. Head(dims) |->
              InitializerStore(elem(k), ElementType(dims), offset + (k - 1) * size)])

\* The code for each operator on t0 and t1, the result in t0.
BinaryCode ==
  LET on(op) == <<Alu(op, "t0", "t0", "t1")>>
      zero == <<Unary("seqz", "t0", "t0")>>
      swapped == <<Alu("slt", "t0", "t1", "t0")>>
  IN [ADD |-> on("add"), SUB |-> on("sub"), MUL |-> on("mul"),
      DIV |-> on("div"), MOD |-> on("rem"),
      AND |-> on("and"), OR |-> on("or"), XOR |-> on("xor"),
      EQ  |-> on("xor") \o zero,
      NEQ |-> on("xor") \o <<Unary("snez", "t0", "t0")>>,
      LT  |-> on("slt"), GT |-> swapped,
      LE  |-> swapped \o zero, GE |-> on("slt") \o zero,
      SHL |-> on("sll"), SHR |-> on("srl"), SAR |-> on("sra")]

BinaryInstCode(n, inst) ==
  MaterializeValue(inst.in[1], "t0") \o MaterializeValue(inst.in[2], "t1")
    \o BinaryCode[inst.op] \o SpillValue(n, "t0")

\* A wrong variant: stack arguments go where the first slot is.
CallArgsAboveArea(inst) ==
  FlattenSeq([k \in DOMAIN inst.in |->
    IF k <= Layout!ArgRegisterCount
      THEN MaterializeValue(inst.in[k], ArgRegister[k])
      ELSE MaterializeValue(inst.in[k], "t0")
             \o StackStore("t0", Layout!OutgoingArgOffset(k))])

CallArgs(inst) ==
  FlattenSeq([k \in DOMAIN inst.in |->
    IF k <= Layout!ArgRegisterCount
      THEN MaterializeValue(inst.in[k], ArgRegister[k])
      ELSE MaterializeValue(inst.in[k], "t0")
             \o StackStore("t0", Layout!OutgoingArgOffset(k - 1))])

CallCode(n, inst) ==
  CallArgs(inst) \o <<Call>>
    \o (IF inst.words = 0 THEN <<>> ELSE SpillValue(n, "a0"))

ParamsOf(b) ==
  SelectSeq([k \in DOMAIN prog.insts |-> k],
            LAMBDA k : prog.insts[k].op = "param" /\ prog.insts[k].block = b)

EdgeArgs(b, operands) ==
  FlattenSeq([k \in DOMAIN operands |->
    MaterializeValue(operands[k], "t0") \o SpillValue(ParamsOf(b)[k], "t0")])

JumpCode(inst) ==
  EdgeArgs(inst.to[1], inst.edge[1]) \o <<J(BlockLabel(inst.to[1]))>>

BranchCode(inst) ==
  LET true == inst.to[1]
      false == inst.to[2]
      edge == EdgeLabel(inst.block, true)
  IN MaterializeValue(inst.in[1], "t0") \o
       (IF inst.edge = <<<<>>, <<>>>>
          THEN <<Bnez("t0", BlockLabel(true)), J(BlockLabel(false))>>
          ELSE <<Bnez("t0", edge)>> \o EdgeArgs(false, inst.edge[2])
                 \o <<J(BlockLabel(false)), Label(edge)>>
                 \o EdgeArgs(true, inst.edge[1]) \o <<J(BlockLabel(true))>>)

ReturnCode(inst) ==
  (IF inst.in = <<>> THEN <<>> ELSE MaterializeValue(inst.in[1], "a0"))
    \o Epilogue \o <<Ret>>

\* The address of an element: getptr takes the source's value for the base,
\* getelemptr the source's address.
ElementAddress(base, n, inst) ==
  base \o MaterializeValue(inst.in[2], "t1")
    \o <<Li("t2", 4 * Words(inst.dims)), Alu("mul", "t1", "t1", "t2"),
         Alu("add", "t0", "t0", "t1")>>
    \o SpillValue(n, "t0")

LoadCode(n, inst) ==
  MaterializePointer(inst.in[1], "t0") \o <<Lw("t0", "t0", 0)>> \o SpillValue(n, "t0")

StoreCode(inst) ==
  IF inst.op = "init"
    THEN MaterializePointer(inst.in[1], "t2") \o InitializerStore(inst.init, inst.dims, 0)
    ELSE MaterializeValue(inst.in[1], "t0") \o StoreToAddressable(inst.in[2], "t0")

-----------------------------------------------------------------------------
(* What the IR means *)

Undef == [base |-> 0, off |-> -1]
Num(n) == [base |-> 0, off |-> n % 2 ^ WordBits]
Signed(n) == IF n >= 2 ^ (WordBits - 1) THEN n - 2 ^ WordBits ELSE n

Eval(v) ==
  CASE v.k = "const"  -> Num(v.n)
    [] v.k = "arg"    -> args[v.n + 1]
    [] v.k = "global" -> [base |-> -v.n, off |-> 0]
    [] HasObjectSlot(v) -> [base |-> v.n, off |-> 0]
    [] OTHER -> val[v.n]

Quotient(x, y) ==
  LET q == (IF x < 0 THEN -x ELSE x) \div (IF y < 0 THEN -y ELSE y)
  IN IF (x < 0) = (y < 0) THEN q ELSE -q

\* x and y as signed numbers; a shift takes its amount modulo the width.
Meaning(op, x, y) ==
  LET truth(b) == IF b THEN 1 ELSE 0
      bits(n) == n % 2 ^ WordBits
  IN CASE op = "ADD" -> x + y [] op = "SUB" -> x - y [] op = "MUL" -> x * y
       [] op = "DIV" -> Quotient(x, y) [] op = "MOD" -> x - y * Quotient(x, y)
       [] op = "AND" -> bits(x) & bits(y) [] op = "OR" -> bits(x) | bits(y)
       [] op = "XOR" -> bits(x) ^^ bits(y)
       [] op = "EQ" -> truth(x = y) [] op = "NEQ" -> truth(x # y)
       [] op = "LT" -> truth(x < y) [] op = "GT" -> truth(x > y)
       [] op = "LE" -> truth(x <= y) [] op = "GE" -> truth(x >= y)
       [] op = "SHL" -> bits(x) * 2 ^ (bits(y) % WordBits)
       [] op = "SHR" -> bits(x) \div 2 ^ (bits(y) % WordBits)
       [] op = "SAR" -> x \div 2 ^ (bits(y) % WordBits)

Objects(p) ==
  {k \in DOMAIN p.insts : p.insts[k].op = "alloc"} \cup {-g : g \in DOMAIN p.globals}

InitialObject(p, o) ==
  IF o > 0 THEN [w \in 1 .. p.insts[o].words |-> Undef]
  ELSE LET g == p.globals[-o]
       IN [w \in 1 .. Words(g.dims) |-> Num(WordOf(g.init, g.dims, w - 1))]

FirstInstruction(b) ==
  CHOOSE k \in DOMAIN prog.insts :
    /\ prog.insts[k].block = b /\ prog.insts[k].op # "param"
    /\ \A l \in 1 .. (k - 1) : prog.insts[l].block = b => prog.insts[l].op = "param"

\* The parameters of b get the values the arguments have before the edge.
Assigned(b, operands) ==
  [k \in DOMAIN val |->
     IF \E p \in DOMAIN operands : ParamsOf(b)[p] = k
       THEN Eval(operands[CHOOSE p \in DOMAIN operands : ParamsOf(b)[p] = k])
       ELSE val[k]]

-----------------------------------------------------------------------------
(* The machine *)

Junk == -1
Addresses == {4 * k : k \in 0 .. (2 ^ WordBits \div 4 - 1)}
Reg(r) == IF r = "x0" THEN 0 ELSE regs[r]

Compute(op, x, y) ==
  IF x = Junk \/ y = Junk THEN Junk
  ELSE LET opcode == [add |-> "ADD", sub |-> "SUB", mul |-> "MUL", div |-> "DIV",
                      rem |-> "MOD", and |-> "AND", or |-> "OR", xor |-> "XOR",
                      slt |-> "LT", sll |-> "SHL", srl |-> "SHR", sra |-> "SAR"]
       IN CASE op = "seqz" -> IF x = 0 THEN 1 ELSE 0
            [] op = "snez" -> IF x = 0 THEN 0 ELSE 1
            [] OTHER -> Meaning(opcode[op], Signed(x), Signed(y)) % 2 ^ WordBits

\* Globals follow each other from address 0; the printer emits their words.
GlobalAddress(p, g) == 4 * FoldLeft(+, 0, [k \in 1 .. (g - 1) |-> Words(p.globals[k].dims)])

RECURSIVE GlobalImage(_, _)
GlobalImage(init, dims) ==
  CASE init.kind = "zero" -> [w \in 1 .. Words(dims) |-> 0]
    [] init.kind = "number" -> <<init.n % 2 ^ WordBits>>
    [] init.kind = "aggregate" ->
         FlattenSeq([k \in DOMAIN init.elems |-> GlobalImage(init.elems[k], ElementType(dims))])

AddressOf(base) ==
  IF base > 0 THEN StackTop - frame + slot[base] ELSE GlobalAddress(prog, -base)

Encode(v) ==
  CASE v = Undef -> Junk
    [] v.base = 0 -> v.off
    [] OTHER -> (AddressOf(v.base) + v.off) % 2 ^ WordBits

\* Arguments point to globals, whose addresses do not depend on the frame.
ArgWord(p, v) == IF v.base = 0 THEN v.off ELSE GlobalAddress(p, -v.base) + v.off

InitialMemory(p, a) ==
  LET data == FlattenSeq([g \in DOMAIN p.globals |->
                            GlobalImage(p.globals[g].init, p.globals[g].dims)])
      stacked == [k \in 1 .. (Len(a) - Layout!ArgRegisterCount) |->
                    ArgWord(p, a[k + Layout!ArgRegisterCount])]
  IN [x \in Addresses |->
        CASE x \div 4 < Len(data) -> data[x \div 4 + 1]
          [] x >= StackTop /\ (x - StackTop) \div 4 < Len(stacked) ->
               stacked[(x - StackTop) \div 4 + 1]
          [] OTHER -> Junk]

Init ==
  /\ prog \in Programs
  /\ args \in prog.calls
  /\ Layout!Init
  /\ func = LayoutOf(prog)
  /\ at = 1 /\ mat = 1
  /\ val = [k \in DOMAIN prog.insts |-> Undef]
  /\ obj = [o \in Objects(prog) |-> InitialObject(prog, o)]
  /\ result = <<>>
  /\ code = <<>>
  /\ regs = [r \in Registers |->
               CASE r = "sp" -> StackTop
                 [] r = "ra" -> ReturnAddress
                 [] \E k \in 1 .. 8 : r = ArgRegister[k] /\ k <= Len(args) ->
                      ArgWord(prog, args[CHOOSE k \in 1 .. 8 : r = ArgRegister[k]])
                 [] OTHER -> Junk]
  /\ mem = InitialMemory(prog, args)

-----------------------------------------------------------------------------
(* One step per select_*, with what the IR instruction does *)

BuildFrame ==
  /\ pc # "done"
  /\ Layout!Next
  /\ code' = IF pc' = "done" THEN Prologue ELSE code
  /\ UNCHANGED <<prog, args, ir, mat, regs, mem>>

Selecting(ops) ==
  /\ pc = "done"
  /\ code = <<>>
  /\ mat # 0
  /\ prog.insts[mat].op \in ops
  /\ mat' = mat + 1
  /\ UNCHANGED <<prog, args, layout, regs, mem>>

Current == prog.insts[at]

SelectAlloc ==
  /\ Selecting({"alloc"})
  /\ code' = <<>>
  /\ at' = at + 1
  /\ obj' = [obj EXCEPT ![at] = InitialObject(prog, at)]
  /\ UNCHANGED <<val, result>>

SelectStore ==
  /\ Selecting({"store", "init"})
  /\ code' = StoreCode(prog.insts[mat])
  /\ at' = at + 1
  /\ IF Current.op = "init"
       THEN LET p == Eval(Current.in[1])
            IN obj' = [obj EXCEPT ![p.base] =
                         [w \in DOMAIN @ |->
                            LET k == w - 1 - p.off \div 4
                            IN IF k \in 0 .. (Words(Current.dims) - 1)
                                 THEN Num(WordOf(Current.init, Current.dims, k))
                                 ELSE @[w]]]
       ELSE LET p == Eval(Current.in[2])
            IN obj' = [obj EXCEPT ![p.base][p.off \div 4 + 1] = Eval(Current.in[1])]
  /\ UNCHANGED <<val, result>>

SelectLoad ==
  /\ Selecting({"load"})
  /\ code' = LoadCode(mat, prog.insts[mat])
  /\ at' = at + 1
  /\ LET p == Eval(Current.in[1])
     IN val' = [val EXCEPT ![at] = obj[p.base][p.off \div 4 + 1]]
  /\ UNCHANGED <<obj, result>>

SelectBinary ==
  /\ Selecting(DOMAIN BinaryCode)
  /\ code' = BinaryInstCode(mat, prog.insts[mat])
  /\ at' = at + 1
  /\ val' = [val EXCEPT ![at] =
       Num(Meaning(Current.op, Signed(Eval(Current.in[1]).off),
                               Signed(Eval(Current.in[2]).off)))]
  /\ UNCHANGED <<obj, result>>

SelectElementAddress ==
  /\ Selecting({"getptr", "getelemptr"})
  /\ code' = LET inst == prog.insts[mat]
             IN ElementAddress(IF inst.op = "getptr" THEN MaterializeValue(inst.in[1], "t0")
                               ELSE MaterializePointer(inst.in[1], "t0"), mat, inst)
  /\ at' = at + 1
  /\ val' = [val EXCEPT ![at] =
       LET p == Eval(Current.in[1])
       IN [p EXCEPT !.off = @ + 4 * Words(Current.dims) * Signed(Eval(Current.in[2]).off)]]
  /\ UNCHANGED <<obj, result>>

SelectCall ==
  /\ Selecting({"call"})
  /\ code' = CallCode(mat, prog.insts[mat])
  /\ at' = at + 1
  /\ \E r \in Results :
       val' = IF Current.words = 0 THEN val ELSE [val EXCEPT ![at] = Num(r)]
  /\ UNCHANGED <<obj, result>>

SelectJump ==
  /\ Selecting({"jump"})
  /\ code' = JumpCode(prog.insts[mat])
  /\ at' = FirstInstruction(Current.to[1])
  /\ val' = Assigned(Current.to[1], Current.edge[1])
  /\ UNCHANGED <<obj, result>>

SelectBranch ==
  /\ Selecting({"br"})
  /\ code' = BranchCode(prog.insts[mat])
  /\ LET taken == IF Eval(Current.in[1]).off # 0 THEN 1 ELSE 2
     IN /\ at' = FirstInstruction(Current.to[taken])
        /\ val' = Assigned(Current.to[taken], Current.edge[taken])
  /\ UNCHANGED <<obj, result>>

SelectReturn ==
  /\ Selecting({"ret"})
  /\ code' = ReturnCode(prog.insts[mat])
  /\ at' = 0
  /\ result' = [k \in DOMAIN Current.in |-> Eval(Current.in[k])]
  /\ UNCHANGED <<val, obj>>

-----------------------------------------------------------------------------
(* One step per machine instruction *)

Executing(ops) ==
  /\ code # <<>>
  /\ Head(code).op \in ops
  /\ UNCHANGED <<prog, args, layout, ir>>

\* Code goes on behind the instruction, or behind a label in this code, or
\* at the top of another block: the first block begins with the prologue.
GoTo(label) ==
  LET marks == {k \in DOMAIN code : code[k].op = "label" /\ code[k].label = label}
  IN IF marks # {}
       THEN /\ code' = SubSeq(code, 1 + CHOOSE k \in marks : TRUE, Len(code))
            /\ UNCHANGED mat
       ELSE /\ code' = IF label = BlockLabel(prog.insts[1].block) THEN Prologue ELSE <<>>
            /\ mat' = FirstInstruction(label[1])

ExecuteRegister ==
  /\ Executing({"li", "mv", "la", "addi", "seqz", "snez", "add", "sub", "mul", "div",
                "rem", "and", "or", "xor", "slt", "sll", "srl", "sra"})
  /\ LET I == Head(code)
         x == Reg(I.rs)
     IN regs' = [regs EXCEPT ![I.rd] =
          CASE I.op = "li" -> I.n % 2 ^ WordBits
            [] I.op = "la" -> GlobalAddress(prog, I.n)
            [] I.op = "mv" -> x
            [] I.op = "addi" -> Compute("add", x, I.n % 2 ^ WordBits)
            [] OTHER -> Compute(I.op, x, Reg(I.rt))]
  /\ code' = Tail(code)
  /\ UNCHANGED <<mat, mem>>

\* Lw and Sw of a word; an address that is unknown or not a word's traps.
ExecuteMemory ==
  /\ Executing({"lw", "sw"})
  /\ LET I == Head(code)
         address == Compute("add", Reg(I.rs), I.n % 2 ^ WordBits)
     IN /\ address \in Addresses
        /\ IF I.op = "lw" THEN regs' = [regs EXCEPT ![I.rd] = mem[address]] /\ UNCHANGED mem
                          ELSE mem' = [mem EXCEPT ![address] = Reg(I.rt)] /\ UNCHANGED regs
  /\ code' = Tail(code)
  /\ UNCHANGED mat

\* The callee owns the registers it need not save, the memory below the stack
\* pointer and its stack arguments.
ExecuteCall ==
  /\ Executing({"call"})
  /\ regs' = [r \in Registers |->
       CASE r = "sp" -> regs[r]
         [] r = "a0" -> IF prog.insts[mat - 1].words = 0 THEN Junk ELSE Encode(val[mat - 1])
         [] OTHER -> Junk]
  /\ LET stacked == 4 * (Len(prog.insts[mat - 1].in) - Layout!ArgRegisterCount)
         globals == GlobalAddress(prog, Len(prog.globals) + 1)
     IN mem' = [x \in Addresses |->
          IF (globals <= x /\ x < regs["sp"]) \/ (regs["sp"] <= x /\ x < regs["sp"] + stacked)
            THEN Junk ELSE mem[x]]
  /\ code' = Tail(code)
  /\ UNCHANGED mat

ExecuteJump ==
  /\ Executing({"j", "bnez", "label"})
  /\ IF Head(code).op = "j" \/ (Head(code).op = "bnez" /\ Reg(Head(code).rs) # 0)
       THEN GoTo(Head(code).label)
       ELSE code' = Tail(code) /\ UNCHANGED mat
  /\ UNCHANGED <<regs, mem>>

ExecuteRet ==
  /\ Executing({"ret"})
  /\ code' = <<>>
  /\ mat' = 0
  /\ UNCHANGED <<regs, mem>>

Done ==
  /\ mat = 0
  /\ UNCHANGED vars

Select ==
  SelectAlloc \/ SelectStore \/ SelectLoad \/ SelectBinary \/ SelectElementAddress
    \/ SelectCall \/ SelectJump \/ SelectBranch \/ SelectReturn

Next ==
  \/ BuildFrame \/ Select \/ Done
  \/ ExecuteRegister \/ ExecuteMemory \/ ExecuteCall \/ ExecuteJump \/ ExecuteRet

Spec == Init /\ [][Next]_vars

-----------------------------------------------------------------------------
(* Properties *)

(* Between two IR instructions the machine is where the IR is, every value   *)
(* the IR has computed is in its slot and every word of an object in the     *)
(* object's memory: no code selected for one value, argument or address      *)
(* disturbs another one, near or far from the stack pointer, and a call      *)
(* takes nothing with it that is still needed.                              *)
MachineRepresentsIR ==
  pc = "done" /\ code = <<>> /\ mat # 0 =>
    /\ mat = at
    /\ regs["sp"] = StackTop - frame
    /\ \A k \in DOMAIN val :
         val[k] # Undef => mem[StackTop - frame + slot[k]] = Encode(val[k])
    /\ \A o \in DOMAIN obj : \A w \in DOMAIN obj[o] :
         obj[o][w] # Undef => mem[AddressOf(o) + 4 * (w - 1)] = Encode(obj[o][w])

(* When control passes to a callee its arguments are where the calling       *)
(* convention says, all of them at once: the first eight in registers, the   *)
(* others from the stack pointer up, and computing a later one has destroyed *)
(* no earlier one.                                                          *)
CalleeSeesArguments ==
  code # <<>> /\ Head(code).op = "call" =>
    LET operands == prog.insts[mat - 1].in
    IN \A k \in DOMAIN operands :
         Encode(Eval(operands[k])) =
           IF k <= Layout!ArgRegisterCount THEN regs[ArgRegister[k]]
           ELSE mem[regs["sp"] + 4 * (k - 1 - Layout!ArgRegisterCount)]

(* A function gives its caller back the stack pointer and the return         *)
(* address it was called with, the caller's part of the stack untouched, the *)
(* value the IR returns in a0, and globals as the IR leaves them.            *)
CallerGetsBack ==
  mat = 0 =>
    /\ regs["sp"] = StackTop /\ regs["ra"] = ReturnAddress
    /\ result # <<>> => regs["a0"] = Encode(result[1])
    /\ \A x \in Addresses : x >= StackTop => mem[x] = InitialMemory(prog, args)[x]
    /\ \A g \in DOMAIN prog.globals : \A w \in DOMAIN obj[-g] :
         mem[GlobalAddress(prog, g) + 4 * (w - 1)] = Encode(obj[-g][w])
=============================================================================
