------------------------- MODULE FuncLoweringProofs -------------------------
(***************************************************************************)
(* Proofs about FuncLowering, for every AST and every nesting: the types,    *)
(* that no instruction is ever emitted without a current block, that every   *)
(* block gets exactly one terminator, and that every block of a finished     *)
(* function can be reached.                                                *)
(*                                                                         *)
(* The frames below the innermost one are promises: each owns open blocks    *)
(* that it will fill, and no two own the same.  A step replaces the innermost *)
(* frame and touches only the blocks this frame owns, the current block and  *)
(* the blocks it creates (lemma StackStep); the actions are shown to be such  *)
(* steps one by one.                                                       *)
(***************************************************************************)
EXTENDS FuncLowering, SequenceTheorems, FiniteSetTheorems, TLAPS

(***************************************************************************)
(* The function under construction and what FuncContext does to it.         *)
(***************************************************************************)

Ops == {"ret", "jump", "br", "call", "bin", "assign", "shortcut", "store", "load"}
AnyInstruction == [op : Ops, node : Node, to : Seq(Nat)]
AnyFn == [blocks : Seq(Seq(AnyInstruction)), current : Nat]

\* The blocks without a terminator, and the targets of a block.
Opens(f) ==
  {b \in 1 .. Len(f.blocks) :
     \A k \in 1 .. Len(f.blocks[b]) : f.blocks[b][k].op \notin Terminators}
Succs(f, b) == UNION {ToSet(f.blocks[b][k].to) : k \in 1 .. Len(f.blocks[b])}

\* A terminator is the last instruction of its block, the current block has
\* none, and no edge leads to the entry or out of the function.
GoodFn(f) ==
  /\ f \in AnyFn
  /\ \A b \in 1 .. Len(f.blocks) : \A k \in 1 .. Len(f.blocks[b]) - 1 :
        f.blocks[b][k].op \notin Terminators
  /\ f.current # NoBlock => f.current \in Opens(f)
  /\ \A b \in 1 .. Len(f.blocks) : Succs(f, b) \subseteq 2 .. Len(f.blocks)

LEMMA AppendFacts ==
  ASSUME NEW S, NEW s \in Seq(S), NEW x \in S
  PROVE  /\ Append(s, x) \in Seq(S)
         /\ Len(Append(s, x)) = Len(s) + 1
         /\ \A k \in 1 .. Len(s) : Append(s, x)[k] = s[k]
         /\ Append(s, x)[Len(s) + 1] = x
OBVIOUS

(* A fresh block is empty, and nothing leads to it yet.                     *)
LEMMA CreateBlockFacts ==
  ASSUME NEW f, GoodFn(f)
  PROVE  /\ GoodFn(CreateBlock(f))
         /\ Len(CreateBlock(f).blocks) = Len(f.blocks) + 1
         /\ CreateBlock(f).current = f.current
         /\ Opens(CreateBlock(f)) = Opens(f) \cup {Len(f.blocks) + 1}
         /\ \A b \in 1 .. Len(f.blocks) : Succs(CreateBlock(f), b) = Succs(f, b)
<1> DEFINE h == CreateBlock(f)
           n == Len(f.blocks)
<1>1. f \in AnyFn /\ f.blocks \in Seq(Seq(AnyInstruction)) /\ f.current \in Nat /\ n \in Nat
  BY DEF GoodFn, AnyFn
<1>2. h.blocks = Append(f.blocks, <<>>) /\ h.current = f.current /\ h \in AnyFn
  <2>1. Append(f.blocks, <<>>) \in Seq(Seq(AnyInstruction))
    BY <1>1, AppendFacts, EmptySeq
  <2>2. QED
    BY <1>1, <2>1 DEF CreateBlock, AnyFn
<1>3. /\ Len(h.blocks) = n + 1
      /\ \A b \in 1 .. n : h.blocks[b] = f.blocks[b]
      /\ h.blocks[n + 1] = <<>>
  BY <1>1, <1>2
<1>4. \A b \in 1 .. n : Succs(h, b) = Succs(f, b)
  BY <1>3 DEF Succs
<1>5. Succs(h, n + 1) = {}
  BY <1>3 DEF Succs
<1>6. Opens(h) = Opens(f) \cup {n + 1}
  <2>1. ASSUME NEW b \in 1 .. n PROVE b \in Opens(h) <=> b \in Opens(f)
    <3>1. b \in 1 .. Len(h.blocks) /\ h.blocks[b] = f.blocks[b]
      BY <1>1, <1>3
    <3>2. QED
      BY <3>1 DEF Opens
  <2>2. n + 1 \in Opens(h)
    BY <1>1, <1>3 DEF Opens
  <2>3. Opens(h) \subseteq 1 .. n + 1 /\ Opens(f) \subseteq 1 .. n
    BY <1>3 DEF Opens
  <2>4. \A b \in 1 .. n + 1 : b \in 1 .. n \/ b = n + 1
    BY <1>1
  <2>5. QED
    BY <2>1, <2>2, <2>3, <2>4
<1>7. \A b \in 1 .. n + 1 : Succs(h, b) \subseteq 2 .. n + 1
  <2> SUFFICES ASSUME NEW b \in 1 .. n + 1 PROVE Succs(h, b) \subseteq 2 .. n + 1
    OBVIOUS
  <2>1. CASE b = n + 1
    BY <1>5, <2>1
  <2>2. CASE b \in 1 .. n
    <3>1. Succs(f, b) \subseteq 2 .. n
      BY <2>2 DEF GoodFn
    <3>2. QED
      BY <1>1, <1>4, <2>2, <3>1
  <2>3. QED
    BY <1>1, <2>1, <2>2
<1>8. \A b \in 1 .. n + 1 : \A k \in 1 .. Len(h.blocks[b]) - 1 :
        h.blocks[b][k].op \notin Terminators
  <2> SUFFICES ASSUME NEW b \in 1 .. n + 1, NEW k \in 1 .. Len(h.blocks[b]) - 1
               PROVE  h.blocks[b][k].op \notin Terminators
    OBVIOUS
  <2>1. b # n + 1
    BY <1>3
  <2>2. b \in 1 .. n
    BY <1>1, <2>1
  <2>3. QED
    BY <1>3, <2>2 DEF GoodFn
<1>9. GoodFn(h)
  BY <1>2, <1>3, <1>6, <1>7, <1>8 DEF GoodFn
<1>10. QED
  BY <1>2, <1>3, <1>4, <1>6, <1>9

(* What both emitting and terminating do.                                   *)
LEMMA AppendedFacts ==
  ASSUME NEW f, GoodFn(f), f.current # NoBlock, NEW inst \in AnyInstruction
  PROVE  /\ Emit(f, inst) \in AnyFn
         /\ Len(Emit(f, inst).blocks) = Len(f.blocks)
         /\ Emit(f, inst).current = f.current
         /\ f.current \in 1 .. Len(f.blocks)
         /\ \A b \in 1 .. Len(f.blocks) :
              b # f.current => Emit(f, inst).blocks[b] = f.blocks[b]
         /\ Len(Emit(f, inst).blocks[f.current]) = Len(f.blocks[f.current]) + 1
         /\ \A k \in 1 .. Len(f.blocks[f.current]) :
              Emit(f, inst).blocks[f.current][k] = f.blocks[f.current][k]
         /\ Emit(f, inst).blocks[f.current][Len(f.blocks[f.current]) + 1] = inst
         /\ Len(f.blocks[f.current]) \in Nat
<1> DEFINE c == f.current
           h == Emit(f, inst)
<1>1. /\ f \in AnyFn /\ f.blocks \in Seq(Seq(AnyInstruction)) /\ c \in Nat
      /\ c \in 1 .. Len(f.blocks) /\ f.blocks[c] \in Seq(AnyInstruction)
  BY DEF GoodFn, AnyFn, Opens
<1>2. /\ h.blocks = [f.blocks EXCEPT ![c] = Append(f.blocks[c], inst)]
      /\ h.current = c
      /\ h = [f EXCEPT !.blocks = [f.blocks EXCEPT ![c] = Append(f.blocks[c], inst)]]
  BY <1>1 DEF Emit, AnyFn
<1>3. Append(f.blocks[c], inst) \in Seq(AnyInstruction)
  BY <1>1
<1>4. h.blocks \in Seq(Seq(AnyInstruction)) /\ Len(h.blocks) = Len(f.blocks)
  BY <1>1, <1>2, <1>3
<1>5. h \in AnyFn
  BY <1>1, <1>2, <1>4 DEF AnyFn
<1>6. h.blocks[c] = Append(f.blocks[c], inst)
  BY <1>1, <1>2
<1>7. QED
  BY <1>1, <1>2, <1>4, <1>5, <1>6, AppendFacts

(* The targets of the block written to grow by those of the instruction.    *)
LEMMA SuccsAppended ==
  ASSUME NEW f, GoodFn(f), f.current # NoBlock, NEW inst \in AnyInstruction
  PROVE  /\ \A b \in 1 .. Len(f.blocks) :
              b # f.current => Succs(Emit(f, inst), b) = Succs(f, b)
         /\ Succs(Emit(f, inst), f.current) = Succs(f, f.current) \cup ToSet(inst.to)
<1> DEFINE c == f.current
           h == Emit(f, inst)
           m == Len(f.blocks[c])
<1>1. /\ \A b \in 1 .. Len(f.blocks) : b # c => h.blocks[b] = f.blocks[b]
      /\ Len(h.blocks[c]) = m + 1 /\ m \in Nat
      /\ \A k \in 1 .. m : h.blocks[c][k] = f.blocks[c][k]
      /\ h.blocks[c][m + 1] = inst
  BY AppendedFacts
<1>2. \A b \in 1 .. Len(f.blocks) : b # c => Succs(h, b) = Succs(f, b)
  BY <1>1 DEF Succs
<1>3. ASSUME NEW x \in Succs(h, c) PROVE x \in Succs(f, c) \cup ToSet(inst.to)
  <2>1. PICK k \in 1 .. m + 1 : x \in ToSet(h.blocks[c][k].to)
    BY <1>1, <1>3 DEF Succs
  <2>2. CASE k = m + 1
    BY <1>1, <2>1, <2>2
  <2>3. CASE k \in 1 .. m
    BY <1>1, <2>1, <2>3 DEF Succs
  <2>4. m \in Nat
    BY <1>1
  <2>5. QED
    BY <2>2, <2>3, <2>4
<1>4. ASSUME NEW x \in Succs(f, c) PROVE x \in Succs(h, c)
  <2>1. PICK k \in 1 .. m : x \in ToSet(f.blocks[c][k].to)
    BY <1>4 DEF Succs
  <2>2. k \in 1 .. Len(h.blocks[c]) /\ x \in ToSet(h.blocks[c][k].to)
    <3>1. m \in Nat
      BY <1>1
    <3>2. h.blocks[c][k] = f.blocks[c][k] /\ Len(h.blocks[c]) = m + 1
      BY <1>1
    <3>3. k \in 1 .. m + 1
      BY <3>1
    <3>4. QED
      BY <2>1, <3>2, <3>3
  <2>3. QED
    BY <2>2 DEF Succs
<1>5. ToSet(inst.to) \subseteq Succs(h, c)
  <2>1. m + 1 \in 1 .. Len(h.blocks[c])
    BY <1>1
  <2>2. QED
    BY <1>1, <2>1 DEF Succs
<1>6. QED
  BY <1>2, <1>3, <1>4, <1>5

LEMMA EmitFacts ==
  ASSUME NEW f, GoodFn(f), f.current # NoBlock,
         NEW inst \in AnyInstruction, inst.op \notin Terminators, inst.to = <<>>
  PROVE  /\ GoodFn(Emit(f, inst))
         /\ Len(Emit(f, inst).blocks) = Len(f.blocks)
         /\ Emit(f, inst).current = f.current
         /\ Opens(Emit(f, inst)) = Opens(f)
         /\ \A b \in 1 .. Len(f.blocks) : Succs(Emit(f, inst), b) = Succs(f, b)
<1> DEFINE c == f.current
           h == Emit(f, inst)
           m == Len(f.blocks[c])
<1>1. /\ h \in AnyFn /\ Len(h.blocks) = Len(f.blocks) /\ h.current = c
      /\ c \in 1 .. Len(f.blocks)
      /\ \A b \in 1 .. Len(f.blocks) : b # c => h.blocks[b] = f.blocks[b]
      /\ Len(h.blocks[c]) = m + 1 /\ m \in Nat
      /\ \A k \in 1 .. m : h.blocks[c][k] = f.blocks[c][k]
      /\ h.blocks[c][m + 1] = inst
  BY AppendedFacts
<1>2. \A b \in 1 .. Len(f.blocks) : Succs(h, b) = Succs(f, b)
  <2>1. ToSet(inst.to) = {}
    BY DEF ToSet
  <2>2. /\ \A b \in 1 .. Len(f.blocks) : b # c => Succs(h, b) = Succs(f, b)
        /\ Succs(h, c) = Succs(f, c) \cup ToSet(inst.to)
    BY SuccsAppended
  <2>3. QED
    BY <2>1, <2>2
<1>3. c \in Opens(f) /\ \A k \in 1 .. m : f.blocks[c][k].op \notin Terminators
  BY DEF GoodFn, Opens
<1>4. \A k \in 1 .. m + 1 : h.blocks[c][k].op \notin Terminators
  <2> SUFFICES ASSUME NEW k \in 1 .. m + 1 PROVE h.blocks[c][k].op \notin Terminators
    OBVIOUS
  <2>1. CASE k = m + 1
    <3>1. h.blocks[c][k] = inst
      BY <1>1, <2>1
    <3>2. QED
      BY <3>1
  <2>2. CASE k \in 1 .. m
    <3>1. h.blocks[c][k] = f.blocks[c][k]
      BY <1>1, <2>2
    <3>2. QED
      BY <1>3, <2>2, <3>1
  <2>3. m \in Nat
    BY <1>1
  <2>4. QED
    BY <2>1, <2>2, <2>3
<1>5. Opens(h) = Opens(f)
  BY <1>1, <1>3, <1>4 DEF Opens
<1>6. \A b \in 1 .. Len(h.blocks) : \A k \in 1 .. Len(h.blocks[b]) - 1 :
        h.blocks[b][k].op \notin Terminators
  <2> SUFFICES ASSUME NEW b \in 1 .. Len(h.blocks), NEW k \in 1 .. Len(h.blocks[b]) - 1
               PROVE  h.blocks[b][k].op \notin Terminators
    OBVIOUS
  <2>1. CASE b = c
    BY <1>1, <1>4, <2>1
  <2>2. CASE b # c
    BY <1>1, <2>2 DEF GoodFn
  <2>3. QED
    BY <2>1, <2>2
<1>7. GoodFn(h)
  BY <1>1, <1>2, <1>3, <1>5, <1>6 DEF GoodFn
<1>8. QED
  BY <1>1, <1>2, <1>5, <1>7

LEMMA SetCurrentFacts ==
  ASSUME NEW f \in AnyFn, NEW b \in Nat
  PROVE  /\ SetCurrent(f, b) \in AnyFn
         /\ SetCurrent(f, b).blocks = f.blocks
         /\ SetCurrent(f, b).current = b
         /\ Opens(SetCurrent(f, b)) = Opens(f)
         /\ \A x : Succs(SetCurrent(f, b), x) = Succs(f, x)
         /\ GoodFn(f) /\ (b # NoBlock => b \in Opens(f)) => GoodFn(SetCurrent(f, b))
<1>1. /\ SetCurrent(f, b) \in AnyFn /\ SetCurrent(f, b).blocks = f.blocks
      /\ SetCurrent(f, b).current = b
  BY DEF SetCurrent, AnyFn
<1>2. /\ Opens(SetCurrent(f, b)) = Opens(f)
      /\ \A x : Succs(SetCurrent(f, b), x) = Succs(f, x)
  BY <1>1 DEF Opens, Succs
<1>3. QED
  BY <1>1, <1>2 DEF GoodFn

LEMMA TerminateFacts ==
  ASSUME NEW f, GoodFn(f), f.current # NoBlock,
         NEW inst \in AnyInstruction, inst.op \in Terminators,
         ToSet(inst.to) \subseteq 2 .. Len(f.blocks)
  PROVE  /\ GoodFn(Terminate(f, inst))
         /\ Len(Terminate(f, inst).blocks) = Len(f.blocks)
         /\ Terminate(f, inst).current = NoBlock
         /\ Opens(Terminate(f, inst)) = Opens(f) \ {f.current}
         /\ Succs(Terminate(f, inst), f.current) = Succs(f, f.current) \cup ToSet(inst.to)
         /\ \A b \in 1 .. Len(f.blocks) : Succs(f, b) \subseteq Succs(Terminate(f, inst), b)
<1> DEFINE c == f.current
           e == Emit(f, inst)
           h == Terminate(f, inst)
           m == Len(f.blocks[c])
<1>1. /\ e \in AnyFn /\ Len(e.blocks) = Len(f.blocks)
      /\ c \in 1 .. Len(f.blocks)
      /\ \A b \in 1 .. Len(f.blocks) : b # c => e.blocks[b] = f.blocks[b]
      /\ Len(e.blocks[c]) = m + 1 /\ m \in Nat
      /\ \A k \in 1 .. m : e.blocks[c][k] = f.blocks[c][k]
      /\ e.blocks[c][m + 1] = inst
  BY AppendedFacts
<1>2. /\ h \in AnyFn /\ h.blocks = e.blocks /\ h.current = NoBlock
      /\ Opens(h) = Opens(e) /\ \A x : Succs(h, x) = Succs(e, x)
  BY <1>1, SetCurrentFacts DEF Terminate, NoBlock
<1>3. /\ \A b \in 1 .. Len(f.blocks) : b # c => Succs(e, b) = Succs(f, b)
      /\ Succs(e, c) = Succs(f, c) \cup ToSet(inst.to)
  BY SuccsAppended
<1>4. c \in Opens(f)
  BY DEF GoodFn
<1>5. m + 1 \in 1 .. Len(e.blocks[c]) /\ e.blocks[c][m + 1].op \in Terminators
  BY <1>1
<1>6. Opens(e) = Opens(f) \ {c}
  BY <1>1, <1>5 DEF Opens
<1>7. \A b \in 1 .. Len(e.blocks) : \A k \in 1 .. Len(e.blocks[b]) - 1 :
        e.blocks[b][k].op \notin Terminators
  <2> SUFFICES ASSUME NEW b \in 1 .. Len(e.blocks), NEW k \in 1 .. Len(e.blocks[b]) - 1
               PROVE  e.blocks[b][k].op \notin Terminators
    OBVIOUS
  <2>1. CASE b = c
    <3>1. k \in 1 .. m
      BY <1>1, <2>1
    <3>2. QED
      BY <1>1, <1>4, <2>1, <3>1 DEF Opens
  <2>2. CASE b # c
    BY <1>1, <2>2 DEF GoodFn
  <2>3. QED
    BY <2>1, <2>2
<1>8. \A b \in 1 .. Len(f.blocks) : Succs(e, b) \subseteq 2 .. Len(f.blocks)
  BY <1>3 DEF GoodFn
<1>9. GoodFn(h)
  BY <1>1, <1>2, <1>7, <1>8 DEF GoodFn
<1>10. QED
  BY <1>1, <1>2, <1>3, <1>6, <1>9

-----------------------------------------------------------------------------
(***************************************************************************)
(* The frames.                                                             *)
(***************************************************************************)

FrameRecord == [at : Labels, node : Node, refs : Seq(Nat)]

\* An expression is lowered for a frame that goes on with its value, a
\* statement for one that goes on without.
ExpLabels == {"exp", "apply", "create", "lhs", "rhs"}
InExpression == ExpLabels \cup {"finish", "branch", "test"}
InStatement == {"item", "then", "else", "loop"}
Sits(upper, lower) ==
  IF upper \in ExpLabels THEN lower \in InExpression ELSE lower \in InStatement

\* The frames that put instructions into the current block.
Filling == InExpression \cup {"stmt"}

\* What a frame remembers fits its node; n is the number of blocks.
FrameOK(f, n) ==
  /\ f \in FrameRecord
  /\ f.at = "stmt" => Kind(f.node) \in StmtKinds
  /\ f.at = "exp" => Kind(f.node) \in ExpKinds
  /\ f.at = "finish" => Kind(f.node) \in {"return", "assign", "exp"}
  /\ f.at = "apply" => Kind(f.node) \in {"call", "bin"}
  /\ f.at = "item" => Kind(f.node) = "block" /\ Len(f.refs) = 1 /\ f.refs[1] >= 1
  /\ f.at \in {"branch", "then", "else"} => Kind(f.node) = "if"
  /\ f.at \in {"test", "loop"} => Kind(f.node) = "while"
  /\ f.at \in {"lhs", "rhs"} => Kind(f.node) \in {"or", "and"}
  /\ f.at = "create" => Kind(f.node) = "and"
  /\ f.at \in {"stmt", "exp", "finish", "apply", "branch", "create"} => f.refs = <<>>
  /\ f.at \in {"then", "rhs"} => Len(f.refs) = 1 /\ f.refs[1] \in 2 .. n
  /\ f.at = "else" => Len(f.refs) = 1 /\ f.refs[1] \in {NoBlock} \cup 2 .. n
  /\ f.at = "test" => /\ Len(f.refs) = 3 /\ f.refs[1] \in 2 .. n
                      /\ f.refs[2] = f.refs[1] + 1 /\ f.refs[3] = f.refs[1] + 2
                      /\ f.refs[3] <= n
  /\ f.at = "loop" => Len(f.refs) = 2 /\ f.refs[1] \in 2 .. n /\ f.refs[2] \in 2 .. n
  /\ f.at = "lhs" => Len(f.refs) = 1 /\ f.refs[1] \in 2 .. n /\ f.refs[1] + 2 <= n

\* The open blocks a frame will fill, and those nothing leads to before it does.
Owned(f) ==
  CASE f.at \in {"then", "rhs"} -> {f.refs[1]}
    [] f.at = "else" -> {f.refs[1]} \ {NoBlock}
    [] f.at = "test" -> {f.refs[2], f.refs[3]}
    [] f.at = "loop" -> {f.refs[2]}
    [] f.at = "lhs"  -> f.refs[1] .. f.refs[1] + 2
    [] OTHER         -> {}
Pending(f) == IF f.at \in {"test", "lhs"} THEN Owned(f) ELSE {}

Current == {fn.current} \ {NoBlock}

FrameInv ==
  /\ IsAst(program)
  /\ status \in {"lowering", "done", "rejected"}
  /\ GoodFn(fn)
  /\ 1 <= Len(fn.blocks)
  /\ frames \in Seq(FrameRecord)
  /\ \A k \in 1 .. Len(frames) : FrameOK(frames[k], Len(fn.blocks))
  /\ \A k \in 1 .. Len(frames) - 1 : Sits(frames[k].at, frames[k + 1].at)
  /\ frames # <<>> => frames[Len(frames)].at \notin ExpLabels
  /\ frames # <<>> /\ frames[1].at \in Filling => fn.current # NoBlock

OwnInv ==
  /\ \A k \in 1 .. Len(frames) : Owned(frames[k]) \subseteq Opens(fn) \ Current
  /\ \A k, m \in 1 .. Len(frames) :
       k # m => Owned(frames[k]) \cap Owned(frames[m]) = {}
  /\ \A b \in Opens(fn) \ Current : \E k \in 1 .. Len(frames) : b \in Owned(frames[k])

Closed(f, R) == \A b \in R : Succs(f, b) \subseteq R

ReachInv ==
  \A R \in SUBSET (1 .. Len(fn.blocks)) :
    1 \in R /\ Closed(fn, R) =>
      \A b \in 1 .. Len(fn.blocks) :
        b \in R \/ \E k \in 1 .. Len(frames) : b \in Pending(frames[k])

LoweringInv == FrameInv /\ OwnInv /\ ReachInv

(***************************************************************************)
(* Replacing the innermost frame.                                          *)
(***************************************************************************)

LEMMA Replaced ==
  ASSUME NEW S, NEW s \in Seq(S), s # <<>>, NEW c \in Seq(S), NEW t, t = c \o Tail(s)
  PROVE  /\ t \in Seq(S)
         /\ Len(t) = Len(c) + Len(s) - 1
         /\ \A k \in 1 .. Len(c) : k \in 1 .. Len(t) /\ t[k] = c[k]
         /\ \A k \in 2 .. Len(s) : Len(c) + k - 1 \in 1 .. Len(t) /\ t[Len(c) + k - 1] = s[k]
         /\ \A k \in 1 .. Len(t) : k \in 1 .. Len(c) \/ k - Len(c) + 1 \in 2 .. Len(s)
<1>1. Tail(s) \in Seq(S) /\ Len(Tail(s)) = Len(s) - 1 /\ Len(s) \in Nat \ {0} /\ Len(c) \in Nat
  OBVIOUS
<1>2. \A k \in 1 .. Len(s) - 1 : Tail(s)[k] = s[k + 1]
  OBVIOUS
<1>3. t \in Seq(S) /\ Len(t) = Len(c) + Len(s) - 1
  BY <1>1
<1>4. \A k \in 1 .. Len(c) : k \in 1 .. Len(t) /\ t[k] = c[k]
  BY <1>1, <1>3
<1>5. ASSUME NEW k \in 2 .. Len(s)
      PROVE  Len(c) + k - 1 \in 1 .. Len(t) /\ t[Len(c) + k - 1] = s[k]
  <2>1. k - 1 \in 1 .. Len(Tail(s)) /\ Len(c) + (k - 1) = Len(c) + k - 1
    BY <1>1
  <2>2. t[Len(c) + (k - 1)] = Tail(s)[k - 1]
    BY <1>1, <2>1
  <2>3. Tail(s)[k - 1] = s[k]
    BY <1>1, <1>2, <2>1
  <2>4. QED
    BY <1>1, <1>3, <2>1, <2>2, <2>3
<1>6. \A k \in 1 .. Len(t) : k \in 1 .. Len(c) \/ k - Len(c) + 1 \in 2 .. Len(s)
  BY <1>1, <1>3
<1>7. QED
  BY <1>3, <1>4, <1>5, <1>6

\* The innermost frame is replaced by calls, of which only the last may own
\* blocks, namely own, and only pending of these have no edge to them yet.
Replaces(calls, own, pending) ==
  /\ frames # <<>>
  /\ calls \in Seq(FrameRecord)
  /\ frames' = calls \o Tail(frames)
  /\ \A k \in 1 .. Len(calls) :
       /\ FrameOK(calls[k], Len(fn'.blocks))
       /\ Owned(calls[k]) = IF k = Len(calls) THEN own ELSE {}
       /\ Pending(calls[k]) = IF k = Len(calls) THEN pending ELSE {}
  /\ calls = <<>> => own = {} /\ pending = {}
  /\ \A k \in 1 .. Len(calls) - 1 : Sits(calls[k].at, calls[k + 1].at)
  /\ calls # <<>> =>
       /\ calls[Len(calls)].at \in ExpLabels <=> Top.at \in ExpLabels
       /\ calls[1].at \in Filling => fn'.current # NoBlock
  /\ calls = <<>> /\ Top.at \in ExpLabels => fn'.current # NoBlock

Mine == Owned(Top) \cup Current

\* What happens to the blocks meanwhile.
Fills(own, pending) ==
  /\ UNCHANGED program
  /\ status' \in {"lowering", "done", "rejected"}
  /\ GoodFn(fn')
  /\ Len(fn.blocks) <= Len(fn'.blocks)
  /\ own \cap Current' = {}
  /\ own \cup Current' \subseteq Mine \cup (Len(fn.blocks) + 1 .. Len(fn'.blocks))
  /\ Opens(fn') = (Opens(fn) \ Mine) \cup own \cup Current'
  /\ \A b \in 1 .. Len(fn.blocks) : Succs(fn, b) \subseteq Succs(fn', b)
  /\ \A R \in SUBSET (1 .. Len(fn'.blocks)) :
       Closed(fn', R) /\ Current \subseteq R =>
         Pending(Top) \cup (Len(fn.blocks) + 1 .. Len(fn'.blocks)) \subseteq R \cup pending

LEMMA BlockCounts ==
  ASSUME FrameInv, NEW own, NEW pending, Fills(own, pending)
  PROVE  /\ Len(fn.blocks) \in Nat /\ Len(fn'.blocks) \in Nat /\ Len(fn.blocks) <= Len(fn'.blocks)
         /\ 1 <= Len(fn.blocks) /\ GoodFn(fn')
<1>1. fn \in AnyFn /\ 1 <= Len(fn.blocks)
  BY DEF FrameInv, GoodFn
<1>2. GoodFn(fn') /\ Len(fn.blocks) <= Len(fn'.blocks)
  BY DEF Fills
<1>3. fn' \in AnyFn
  BY <1>2 DEF GoodFn
<1>4. \A g \in AnyFn : Len(g.blocks) \in Nat
  BY LenProperties DEF AnyFn
<1>5. QED
  BY <1>1, <1>2, <1>3, <1>4

LEMMA FrameOKWider ==
  ASSUME NEW f, NEW n \in Nat, NEW m \in Nat, n <= m, FrameOK(f, n)
  PROVE  FrameOK(f, m)
BY DEF FrameOK, NoBlock

LEMMA FrameStep ==
  ASSUME FrameInv, NEW calls, NEW own, NEW pending,
         Replaces(calls, own, pending), Fills(own, pending)
  PROVE  FrameInv'
<1> DEFINE n == Len(fn.blocks)
           p == Len(fn'.blocks)
           l == Len(calls)
<1>1. /\ frames \in Seq(FrameRecord) /\ frames # <<>> /\ calls \in Seq(FrameRecord)
      /\ frames' = calls \o Tail(frames) /\ UNCHANGED program
  BY DEF FrameInv, Replaces, Fills
<1>2. n \in Nat /\ p \in Nat /\ n <= p /\ 1 <= n /\ GoodFn(fn')
  BY BlockCounts
<1>3. /\ frames' \in Seq(FrameRecord)
      /\ Len(frames') = l + Len(frames) - 1 /\ l \in Nat /\ Len(frames) \in Nat \ {0}
      /\ \A k \in 1 .. l : k \in 1 .. Len(frames') /\ frames'[k] = calls[k]
      /\ \A k \in 2 .. Len(frames) :
           l + k - 1 \in 1 .. Len(frames') /\ frames'[l + k - 1] = frames[k]
      /\ \A k \in 1 .. Len(frames') : k \in 1 .. l \/ k - l + 1 \in 2 .. Len(frames)
  BY <1>1, Replaced
<1>4. ASSUME NEW k \in 1 .. Len(frames') PROVE FrameOK(frames'[k], p)
  <2>1. CASE k \in 1 .. l
    BY <1>3, <2>1 DEF Replaces
  <2>2. CASE k - l + 1 \in 2 .. Len(frames)
    <3>1. frames'[k] = frames[k - l + 1] /\ k - l + 1 \in 1 .. Len(frames)
      BY <1>3, <2>2
    <3>2. FrameOK(frames[k - l + 1], n)
      BY <3>1 DEF FrameInv
    <3>3. QED
      BY <1>2, <3>1, <3>2, FrameOKWider
  <2>3. QED
    BY <1>3, <2>1, <2>2
<1>5. (\A k \in 1 .. Len(frames) : FrameOK(frames[k], Len(fn.blocks)))'
  <2>1. \A x : Kind(x)' = Kind(x)
    BY <1>1 DEF Kind
  <2>2. ASSUME NEW k \in 1 .. Len(frames') PROVE (FrameOK(frames[k], Len(fn.blocks)))'
    BY <1>4, <2>1, SMTT(30) DEF FrameOK
  <2>3. QED
    BY <2>2
<1>6. Top = frames[1] /\ (l = 0 <=> calls = <<>>) /\ l \in Nat /\ Len(frames) \in Nat \ {0}
  <2>1. Top = frames[1]
    BY <1>1 DEF Top
  <2>2. (l = 0 <=> calls = <<>>) /\ l \in Nat /\ Len(frames) \in Nat \ {0}
    BY <1>1, EmptySeq, LenProperties
  <2>3. QED
    BY <2>1, <2>2
<1>7. Len(frames) > 1 => Sits(frames[1].at, frames[2].at)
  BY <1>3 DEF FrameInv
<1>8. ASSUME NEW k \in 1 .. Len(frames') - 1 PROVE Sits(frames'[k].at, frames'[k + 1].at)
  <2>1. CASE k \in 1 .. l - 1
    <3>1. frames'[k] = calls[k] /\ frames'[k + 1] = calls[k + 1]
      BY <1>3, <2>1
    <3>2. QED
      BY <2>1, <3>1 DEF Replaces
  <2>2. CASE k = l
    <3>1. frames'[k] = calls[l] /\ frames'[k + 1] = frames[2] /\ Len(frames) > 1 /\ calls # <<>>
      BY <1>1, <1>3, <2>2
    <3>2. calls[l].at \in ExpLabels <=> frames[1].at \in ExpLabels
      BY <1>1, <3>1 DEF Replaces, Top
    <3>3. QED
      BY <1>7, <3>1, <3>2 DEF Sits
  <2>3. CASE k > l
    <3> DEFINE m == k - l + 1
    <3>1. m \in 2 .. Len(frames) /\ m + 1 \in 2 .. Len(frames) /\ m \in 1 .. Len(frames) - 1
      BY <1>3, <2>3
    <3>2. l + m - 1 = k /\ l + (m + 1) - 1 = k + 1
      BY <1>3, <3>1
    <3>3. frames'[k] = frames[m] /\ frames'[k + 1] = frames[m + 1]
      BY <1>3, <3>1, <3>2
    <3>4. QED
      BY <3>1, <3>3 DEF FrameInv
  <2>4. QED
    BY <1>3, <2>1, <2>2, <2>3
<1>9. frames' # <<>> => frames'[Len(frames')].at \notin ExpLabels
  <2>1. frames[Len(frames)].at \notin ExpLabels
    BY <1>1 DEF FrameInv
  <2>2. CASE Len(frames) > 1
    <3>1. frames'[l + Len(frames) - 1] = frames[Len(frames)]
      BY <1>3, <2>2
    <3>2. QED
      BY <1>3, <2>1, <3>1
  <2>3. CASE Len(frames) = 1 /\ l > 0
    <3>1. frames'[Len(frames')] = calls[l] /\ calls # <<>>
      BY <1>1, <1>3, <2>3
    <3>2. calls[l].at \in ExpLabels <=> frames[1].at \in ExpLabels
      BY <1>1, <3>1 DEF Replaces, Top
    <3>3. QED
      BY <2>1, <2>3, <3>1, <3>2
  <2>4. CASE Len(frames) = 1 /\ l = 0
    BY <1>3, <2>4
  <2>5. Len(frames) > 1 \/ (Len(frames) = 1 /\ l > 0) \/ (Len(frames) = 1 /\ l = 0)
    BY <1>6
  <2>6. QED
    BY <2>2, <2>3, <2>4, <2>5, Zenon
<1>10. frames' # <<>> /\ frames'[1].at \in Filling => fn'.current # NoBlock
  <2> SUFFICES ASSUME frames' # <<>>, frames'[1].at \in Filling PROVE fn'.current # NoBlock
    OBVIOUS
  <2>1. CASE l > 0
    BY <1>1, <1>3, <2>1 DEF Replaces
  <2>2. CASE l = 0
    <3>1. calls = <<>> /\ Len(frames) > 1 /\ frames'[1] = frames[2]
      BY <1>1, <1>3, <2>2
    <3>2. frames[2].at \notin InStatement
      BY <3>1 DEF Filling, InExpression, ExpLabels, InStatement
    <3>3. frames[1].at \in ExpLabels
      BY <1>7, <3>1, <3>2 DEF Sits
    <3>4. QED
      BY <1>1, <3>1, <3>3 DEF Replaces, Top
  <2>3. QED
    BY <1>3, <2>1, <2>2
<1>11. IsAst(program)' /\ status' \in {"lowering", "done", "rejected"}
  BY <1>1 DEF FrameInv, Fills
<1>12. 1 <= p /\ frames' \in Seq(FrameRecord)
  BY <1>2, <1>3
<1>13. QED
  BY <1>2, <1>5, <1>8, <1>9, <1>10, <1>11, <1>12, Zenon DEF FrameInv

LEMMA OwnStep ==
  ASSUME FrameInv, OwnInv, NEW calls, NEW own, NEW pending,
         Replaces(calls, own, pending), Fills(own, pending)
  PROVE  OwnInv'
<1> DEFINE n == Len(fn.blocks)
           l == Len(calls)
           Rest == 2 .. Len(frames)
<1>1. /\ frames \in Seq(FrameRecord) /\ frames # <<>> /\ calls \in Seq(FrameRecord)
      /\ frames' = calls \o Tail(frames)
  BY DEF FrameInv, Replaces
<1>2. /\ Len(frames') = l + Len(frames) - 1
      /\ \A k \in 1 .. l : k \in 1 .. Len(frames') /\ frames'[k] = calls[k]
      /\ \A k \in Rest : l + k - 1 \in 1 .. Len(frames') /\ frames'[l + k - 1] = frames[k]
      /\ \A k \in 1 .. Len(frames') : k \in 1 .. l \/ k - l + 1 \in Rest
  BY <1>1, Replaced
<1>3. l \in Nat /\ Len(frames) \in Nat \ {0} /\ Top = frames[1] /\ (l = 0 => calls = <<>>)
  <2>1. Top = frames[1]
    BY <1>1 DEF Top
  <2>2. l \in Nat /\ Len(frames) \in Nat \ {0} /\ (l = 0 => calls = <<>>)
    BY <1>1, EmptySeq, LenProperties
  <2>3. QED
    BY <2>1, <2>2
<1>4. ASSUME NEW k \in 1 .. Len(frames')
      PROVE  \/ k \in 1 .. l - 1 /\ Owned(frames'[k]) = {}
             \/ k = l /\ Owned(frames'[k]) = own
             \/ k - l + 1 \in Rest /\ Owned(frames'[k]) = Owned(frames[k - l + 1])
  <2>1. CASE k \in 1 .. l
    <3>1. Owned(frames'[k]) = IF k = l THEN own ELSE {}
      BY <1>2, <2>1 DEF Replaces
    <3>2. k = l \/ k \in 1 .. l - 1
      BY <1>3, <2>1
    <3>3. k \in 1 .. l - 1 => k # l
      BY <1>3
    <3>4. QED
      BY <3>1, <3>2, <3>3
  <2>2. CASE k - l + 1 \in Rest
    <3>1. l + (k - l + 1) - 1 = k
      BY <1>3
    <3>2. frames'[k] = frames[k - l + 1]
      BY <1>2, <2>2, <3>1
    <3>3. QED
      BY <2>2, <3>2
  <2>3. QED
    BY <1>2, <2>1, <2>2
<1>5. ASSUME NEW k \in Rest
      PROVE  /\ Owned(frames[k]) \subseteq Opens(fn) \ Mine
             /\ Owned(frames[k]) \subseteq Opens(fn') \ (own \cup Current')
  <2>1. k \in 1 .. Len(frames) /\ 1 \in 1 .. Len(frames) /\ k # 1
    BY <1>3
  <2>2. Owned(frames[k]) \subseteq Opens(fn) \ Mine
    BY <1>3, <2>1 DEF OwnInv, Mine
  <2>3. Opens(fn) \subseteq 1 .. n
    BY DEF Opens
  <2>4. Opens(fn) \cap (n + 1 .. Len(fn'.blocks)) = {}
    BY <2>3 DEF FrameInv, GoodFn, AnyFn
  <2>5. QED
    BY <2>2, <2>4 DEF Fills
<1>6. ASSUME NEW k \in 1 .. Len(frames') PROVE Owned(frames'[k]) \subseteq Opens(fn') \ Current'
  BY <1>4, <1>5 DEF Fills
<1>7. ASSUME NEW k \in 1 .. Len(frames'), NEW m \in 1 .. Len(frames'), k # m
      PROVE  Owned(frames'[k]) \cap Owned(frames'[m]) = {}
  <2>1. CASE k - l + 1 \in Rest /\ m - l + 1 \in Rest
    <3>1. k - l + 1 \in 1 .. Len(frames) /\ m - l + 1 \in 1 .. Len(frames) /\ k - l + 1 # m - l + 1
      BY <1>3, <1>7, <2>1
    <3>2. Owned(frames[k - l + 1]) \cap Owned(frames[m - l + 1]) = {}
      BY <3>1 DEF OwnInv
    <3>3. ~(k \in 1 .. l) /\ ~(m \in 1 .. l)
      BY <1>3, <2>1
    <3>4. k \notin 1 .. l - 1 /\ k # l /\ m \notin 1 .. l - 1 /\ m # l
      BY <1>3, <2>1
    <3>5. QED
      BY <1>4, <3>2, <3>4
  <2>2. CASE ~(k - l + 1 \in Rest /\ m - l + 1 \in Rest)
    BY <1>4, <1>5, <1>7, <2>2
  <2>3. QED
    BY <2>1, <2>2
<1>8. ASSUME NEW b \in Opens(fn') \ Current'
      PROVE  \E k \in 1 .. Len(frames') : b \in Owned(frames'[k])
  <2>1. b \in own \/ b \in Opens(fn) \ Mine
    BY <1>8 DEF Fills
  <2>2. CASE b \in own
    <3>1. l # 0
      BY <1>3, <2>2 DEF Replaces
    <3>2. l \in 1 .. l
      BY <1>3, <3>1
    <3>3. l \in 1 .. Len(frames') /\ Owned(frames'[l]) = own
      BY <1>2, <3>2 DEF Replaces
    <3>4. QED
      BY <2>2, <3>3
  <2>3. CASE b \in Opens(fn) \ Mine
    <3>1. PICK k \in 1 .. Len(frames) : b \in Owned(frames[k])
      BY <2>3 DEF OwnInv, Mine
    <3>2. k # 1
      BY <1>3, <2>3, <3>1 DEF Mine
    <3>3. k \in Rest
      BY <1>3, <3>2
    <3>4. QED
      BY <1>2, <3>1, <3>3
  <2>4. QED
    BY <2>1, <2>2, <2>3
<1>9. QED
  BY <1>6, <1>7, <1>8 DEF OwnInv

LEMMA ReachStep ==
  ASSUME FrameInv, OwnInv, ReachInv, NEW calls, NEW own, NEW pending,
         Replaces(calls, own, pending), Fills(own, pending)
  PROVE  ReachInv'
<1> DEFINE n == Len(fn.blocks)
           p == Len(fn'.blocks)
           l == Len(calls)
<1>1. /\ frames \in Seq(FrameRecord) /\ frames # <<>> /\ calls \in Seq(FrameRecord)
      /\ frames' = calls \o Tail(frames)
  BY DEF FrameInv, Replaces
<1>2. /\ \A k \in 1 .. l : k \in 1 .. Len(frames') /\ frames'[k] = calls[k]
      /\ \A k \in 2 .. Len(frames) :
           l + k - 1 \in 1 .. Len(frames') /\ frames'[l + k - 1] = frames[k]
  BY <1>1, Replaced
<1>3. l \in Nat /\ Len(frames) \in Nat \ {0} /\ Top = frames[1] /\ (l = 0 => calls = <<>>)
  <2>1. Top = frames[1]
    BY <1>1 DEF Top
  <2>2. l \in Nat /\ Len(frames) \in Nat \ {0} /\ (l = 0 => calls = <<>>)
    BY <1>1, EmptySeq, LenProperties
  <2>3. QED
    BY <2>1, <2>2
<1>4. n \in Nat /\ p \in Nat /\ n <= p /\ 1 <= n
  BY BlockCounts
<1> SUFFICES ASSUME NEW R \in SUBSET (1 .. p), 1 \in R, Closed(fn', R), NEW b \in 1 .. p
             PROVE  b \in R \/ \E k \in 1 .. Len(frames') : b \in Pending(frames'[k])
  BY DEF ReachInv
<1> DEFINE S == R \cap (1 .. n)
<1>5. S \in SUBSET (1 .. n) /\ 1 \in S
  BY <1>4
<1>6. Closed(fn, S)
  <2> SUFFICES ASSUME NEW x \in S PROVE Succs(fn, x) \subseteq S
    BY DEF Closed
  <2>1. Succs(fn, x) \subseteq Succs(fn', x) /\ Succs(fn', x) \subseteq R
    BY DEF Fills, Closed
  <2>2. Succs(fn, x) \subseteq 2 .. n
    BY DEF FrameInv, GoodFn
  <2>3. QED
    BY <1>4, <2>1, <2>2
<1>7. \A x \in 1 .. n : x \in R \/ \E k \in 1 .. Len(frames) : x \in Pending(frames[k])
  BY <1>5, <1>6 DEF ReachInv
<1>8. Current \subseteq R
  <2> SUFFICES ASSUME NEW x \in Current PROVE x \in R
    OBVIOUS
  <2>1. x \in 1 .. n
    BY DEF Current, FrameInv, GoodFn, Opens
  <2>2. \A k \in 1 .. Len(frames) : x \notin Pending(frames[k])
    BY DEF OwnInv, Pending
  <2>3. QED
    BY <1>7, <2>1, <2>2
<1>9. Pending(Top) \cup (n + 1 .. p) \subseteq R \cup pending
  BY <1>8 DEF Fills
<1>10. ASSUME b \in pending PROVE \E k \in 1 .. Len(frames') : b \in Pending(frames'[k])
  <2>1. l # 0
    BY <1>3, <1>10 DEF Replaces
  <2>2. l \in 1 .. l
    BY <1>3, <2>1
  <2>3. l \in 1 .. Len(frames') /\ Pending(frames'[l]) = pending
    BY <1>2, <2>2 DEF Replaces
  <2>4. QED
    BY <1>10, <2>3
<1>11. CASE b \in n + 1 .. p
  BY <1>9, <1>10, <1>11
<1>12. ASSUME NEW k \in 1 .. Len(frames), b \in Pending(frames[k])
       PROVE  b \in R \/ \E m \in 1 .. Len(frames') : b \in Pending(frames'[m])
  <2>1. CASE k = 1
    BY <1>3, <1>9, <1>10, <1>12, <2>1
  <2>2. CASE k # 1
    <3>1. k \in 2 .. Len(frames)
      BY <1>3, <2>2
    <3>2. QED
      BY <1>2, <1>12, <3>1
  <2>3. QED
    BY <2>1, <2>2
<1>13. b \in 1 .. n \/ b \in n + 1 .. p
  BY <1>4
<1>14. QED
  BY <1>7, <1>11, <1>12, <1>13

LEMMA StackStep ==
  ASSUME LoweringInv, NEW calls, NEW own, NEW pending,
         Replaces(calls, own, pending), Fills(own, pending)
  PROVE  LoweringInv'
BY FrameStep, OwnStep, ReachStep DEF LoweringInv

(***************************************************************************)
(* What the actions have in common: the innermost frame, the children of its *)
(* node, the frames that are pushed.                                        *)
(***************************************************************************)

LEMMA TopFacts ==
  ASSUME LoweringInv, frames # <<>>
  PROVE  /\ frames \in Seq(FrameRecord) /\ Top \in FrameRecord /\ FrameOK(Top, Len(fn.blocks))
         /\ Top.at \in Filling => fn.current # NoBlock
         /\ Owned(Top) \subseteq Opens(fn) \ Current
         /\ Current \subseteq Opens(fn)
         /\ Len(fn.blocks) \in Nat \ {0} /\ fn.current \in Nat
         /\ IsAst(program) /\ status \in {"lowering", "done", "rejected"} /\ GoodFn(fn)
<1>1. /\ frames \in Seq(FrameRecord) /\ Len(frames) \in Nat \ {0} /\ Top = frames[1]
      /\ 1 \in 1 .. Len(frames)
  <2>1. frames \in Seq(FrameRecord)
    BY DEF LoweringInv, FrameInv
  <2>2. Top = frames[1]
    BY <2>1 DEF Top
  <2>3. Len(frames) \in Nat \ {0}
    BY <2>1, EmptySeq, LenProperties
  <2>4. QED
    BY <2>1, <2>2, <2>3
<1>2. Top \in FrameRecord /\ FrameOK(Top, Len(fn.blocks)) /\ Owned(Top) \subseteq Opens(fn) \ Current
  BY <1>1 DEF LoweringInv, FrameInv, OwnInv
<1>3. /\ IsAst(program) /\ status \in {"lowering", "done", "rejected"} /\ GoodFn(fn)
      /\ 1 <= Len(fn.blocks) /\ fn \in AnyFn
      /\ frames[1].at \in Filling => fn.current # NoBlock
  BY DEF LoweringInv, FrameInv, GoodFn
<1>4. Len(fn.blocks) \in Nat \ {0} /\ fn.current \in Nat
  BY <1>3 DEF AnyFn
<1>5. Current \subseteq Opens(fn)
  BY <1>3 DEF Current, GoodFn
<1>6. QED
  BY <1>1, <1>2, <1>3, <1>4, <1>5

LEMMA KidFacts ==
  ASSUME IsAst(program), NEW n \in Node
  PROVE  /\ Kids(n) \in Seq(Node) /\ Len(Kids(n)) \in Nat
         /\ \A k \in 1 .. Len(Kids(n)) :
              /\ Kids(n)[k] \in Node
              /\ Kind(Kids(n)[k]) \in
                   IF Kind(n) = "block" \/ (Kind(n) \in {"if", "while"} /\ k > 1)
                     THEN StmtKinds ELSE ExpKinds
         /\ Kind(n) = "if" => Len(Kids(n)) \in {2, 3}
         /\ Kind(n) \in {"while", "or", "and"} => Len(Kids(n)) = 2
BY DEF IsAst, Kids, Kind

LEMMA BranchingKids ==
  ASSUME IsAst(program), NEW n \in Node
  PROVE  /\ Kind(n) \in {"if", "while"} =>
              /\ Kids(n)[1] \in Node /\ Kind(Kids(n)[1]) \in ExpKinds
              /\ Kids(n)[2] \in Node /\ Kind(Kids(n)[2]) \in StmtKinds
         /\ Kind(n) = "if" /\ HasElse(n) => Kids(n)[3] \in Node /\ Kind(Kids(n)[3]) \in StmtKinds
         /\ Kind(n) \in {"or", "and"} =>
              /\ Kids(n)[1] \in Node /\ Kind(Kids(n)[1]) \in ExpKinds
              /\ Kids(n)[2] \in Node /\ Kind(Kids(n)[2]) \in ExpKinds
<1> DEFINE l == Len(Kids(n))
<1>1. ASSUME NEW k \in 1 .. l
      PROVE  /\ Kids(n)[k] \in Node
             /\ Kind(n) \in {"if", "while"} /\ k > 1 => Kind(Kids(n)[k]) \in StmtKinds
             /\ Kind(n) \in {"if", "while"} /\ k = 1 => Kind(Kids(n)[k]) \in ExpKinds
             /\ Kind(n) \in {"or", "and"} => Kind(Kids(n)[k]) \in ExpKinds
  <2>1. /\ Kids(n)[k] \in Node
        /\ Kind(Kids(n)[k]) \in
             IF Kind(n) = "block" \/ (Kind(n) \in {"if", "while"} /\ k > 1)
               THEN StmtKinds ELSE ExpKinds
    BY KidFacts
  <2>2. QED
    BY <2>1
<1>2. Kind(n) \in {"if", "while", "or", "and"} => 1 \in 1 .. l /\ 2 \in 1 .. l
  <2>1. Kind(n) = "if" => l \in {2, 3}
    BY KidFacts
  <2>2. Kind(n) \in {"while", "or", "and"} => l = 2
    BY KidFacts
  <2>3. QED
    BY <2>1, <2>2
<1>3. HasElse(n) => 3 \in 1 .. l
  BY DEF HasElse
<1> HIDE DEF l
<1>4. QED
  BY <1>1, <1>2, <1>3

(* The frames without references.                                          *)
LEMMA BareFrames ==
  ASSUME NEW x \in Node, NEW n \in Nat
  PROVE  /\ Kind(x) \in StmtKinds => FrameOK(Stmt(x), n)
         /\ Kind(x) \in ExpKinds => FrameOK(Exp(x), n)
         /\ Kind(x) \in {"return", "assign", "exp"} => FrameOK(Frame("finish", x, <<>>), n)
         /\ Kind(x) \in {"call", "bin"} => FrameOK(Frame("apply", x, <<>>), n)
         /\ Kind(x) = "if" => FrameOK(Frame("branch", x, <<>>), n)
         /\ Kind(x) = "and" => FrameOK(Frame("create", x, <<>>), n)
         /\ \A at \in {"stmt", "exp", "finish", "apply", "branch", "create"} :
              /\ Frame(at, x, <<>>) \in FrameRecord
              /\ Owned(Frame(at, x, <<>>)) = {} /\ Pending(Frame(at, x, <<>>)) = {}
<1>1. \A at \in {"stmt", "exp", "finish", "apply", "branch", "create"} :
        Frame(at, x, <<>>) \in FrameRecord
  BY DEF Frame, FrameRecord, Labels
<1>2. \A at \in {"stmt", "exp", "finish", "apply", "branch", "create"} :
        Owned(Frame(at, x, <<>>)) = {} /\ Pending(Frame(at, x, <<>>)) = {}
  BY DEF Frame, Owned, Pending
<1>3. Kind(x) \in StmtKinds => FrameOK(Stmt(x), n)
  BY <1>1 DEF FrameOK, Stmt, Frame
<1>4. Kind(x) \in ExpKinds => FrameOK(Exp(x), n)
  BY <1>1 DEF FrameOK, Exp, Frame
<1>5. Kind(x) \in {"return", "assign", "exp"} => FrameOK(Frame("finish", x, <<>>), n)
  BY <1>1 DEF FrameOK, Frame
<1>6. Kind(x) \in {"call", "bin"} => FrameOK(Frame("apply", x, <<>>), n)
  BY <1>1 DEF FrameOK, Frame
<1>7. Kind(x) = "if" => FrameOK(Frame("branch", x, <<>>), n)
  BY <1>1 DEF FrameOK, Frame
<1>8. Kind(x) = "and" => FrameOK(Frame("create", x, <<>>), n)
  BY <1>1 DEF FrameOK, Frame
<1>9. QED
  BY <1>1, <1>2, <1>3, <1>4, <1>5, <1>6, <1>7, <1>8

LEMMA ConcatNothing ==
  ASSUME NEW S, NEW s \in Seq(S)
  PROVE  <<>> \o s = s /\ <<>> \in Seq(S)
BY EmptySeq, ConcatEmptySeq

(* The shapes of a replacement.                                             *)
LEMMA ReplacesNone ==
  ASSUME LoweringInv, frames # <<>>, frames' = Tail(frames),
         Top.at \in ExpLabels => fn'.current # NoBlock
  PROVE  Replaces(<<>>, {}, {})
<1>1. Tail(frames) \in Seq(FrameRecord)
  BY TopFacts
<1>2. <<>> \in Seq(FrameRecord) /\ frames' = <<>> \o Tail(frames) /\ Len(<<>>) = 0
  BY <1>1, ConcatNothing
<1>3. QED
  BY <1>2 DEF Replaces

LEMMA ReplacesOne ==
  ASSUME LoweringInv, frames # <<>>, NEW a \in FrameRecord, frames' = <<a>> \o Tail(frames),
         FrameOK(a, Len(fn'.blocks)),
         a.at \in ExpLabels <=> Top.at \in ExpLabels,
         a.at \in Filling => fn'.current # NoBlock
  PROVE  Replaces(<<a>>, Owned(a), Pending(a))
<1> DEFINE calls == <<a>>
<1>1. calls \in Seq(FrameRecord) /\ Len(calls) = 1 /\ calls[1] = a /\ calls # <<>>
  OBVIOUS
<1>2. frames' = calls \o Tail(frames)
  OBVIOUS
<1> HIDE DEF calls
<1>3. Replaces(calls, Owned(a), Pending(a))
  BY <1>1, <1>2 DEF Replaces
<1>4. QED
  BY <1>3 DEF calls

LEMMA ReplacesTwo ==
  ASSUME LoweringInv, frames # <<>>, NEW a \in FrameRecord, NEW b \in FrameRecord,
         frames' = <<a, b>> \o Tail(frames),
         FrameOK(a, Len(fn'.blocks)), FrameOK(b, Len(fn'.blocks)), Owned(a) = {},
         Sits(a.at, b.at),
         b.at \in ExpLabels <=> Top.at \in ExpLabels,
         fn'.current # NoBlock
  PROVE  Replaces(<<a, b>>, Owned(b), Pending(b))
<1> DEFINE calls == <<a, b>>
<1>1. /\ calls \in Seq(FrameRecord) /\ Len(calls) = 2 /\ calls[1] = a /\ calls[2] = b
      /\ calls # <<>>
  OBVIOUS
<1>2. frames' = calls \o Tail(frames) /\ Pending(a) = {}
  BY DEF Pending
<1> HIDE DEF calls
<1>3. \A k \in 1 .. 2 : k = 1 \/ k = 2
  OBVIOUS
<1>4. \A k \in 1 .. Len(calls) :
        /\ FrameOK(calls[k], Len(fn'.blocks))
        /\ Owned(calls[k]) = IF k = Len(calls) THEN Owned(b) ELSE {}
        /\ Pending(calls[k]) = IF k = Len(calls) THEN Pending(b) ELSE {}
  BY <1>1, <1>2, <1>3
<1>5. \A k \in 1 .. Len(calls) - 1 : Sits(calls[k].at, calls[k + 1].at)
  BY <1>1
<1>6. Replaces(calls, Owned(b), Pending(b))
  BY <1>1, <1>2, <1>4, <1>5 DEF Replaces
<1>7. QED
  BY <1>6 DEF calls

\* The operands of a node, then what is done with them.
LEMMA ReplacesOperands ==
  ASSUME LoweringInv, frames # <<>>, NEW exps \in Seq(FrameRecord), NEW b \in FrameRecord,
         frames' = (exps \o <<b>>) \o Tail(frames),
         \A k \in 1 .. Len(exps) :
           FrameOK(exps[k], Len(fn'.blocks)) /\ exps[k].at = "exp",
         FrameOK(b, Len(fn'.blocks)), b.at \in {"finish", "apply"},
         b.at \in ExpLabels <=> Top.at \in ExpLabels,
         fn'.current # NoBlock
  PROVE  Replaces(exps \o <<b>>, {}, {})
<1> DEFINE calls == exps \o <<b>>
           m == Len(exps)
<1>1. /\ calls \in Seq(FrameRecord) /\ Len(calls) = m + 1 /\ m \in Nat
      /\ \A k \in 1 .. m : calls[k] = exps[k]
      /\ calls[m + 1] = b
  OBVIOUS
<1>2. calls # <<>> /\ frames' = calls \o Tail(frames)
  BY <1>1, EmptySeq
<1> HIDE DEF calls
<1>3. \A k \in 1 .. m + 1 : k \in 1 .. m \/ k = m + 1
  BY <1>1
<1>4. \A k \in 1 .. m : Owned(exps[k]) = {} /\ Pending(exps[k]) = {}
  BY DEF Owned, Pending
<1>5. Owned(b) = {} /\ Pending(b) = {}
  BY DEF Owned, Pending
<1>6. \A k \in 1 .. Len(calls) :
        /\ FrameOK(calls[k], Len(fn'.blocks))
        /\ Owned(calls[k]) = IF k = Len(calls) THEN {} ELSE {}
        /\ Pending(calls[k]) = IF k = Len(calls) THEN {} ELSE {}
  BY <1>1, <1>3, <1>4, <1>5
<1>7. \A k \in 1 .. m + 1 : calls[k].at \in {"exp", "finish", "apply"}
  BY <1>1, <1>3
<1>8. ASSUME NEW k \in 1 .. Len(calls) - 1 PROVE Sits(calls[k].at, calls[k + 1].at)
  <2>1. k \in 1 .. m /\ k + 1 \in 1 .. m + 1
    BY <1>1
  <2>2. calls[k].at = "exp" /\ calls[k + 1].at \in {"exp", "finish", "apply"}
    BY <1>1, <1>7, <2>1
  <2>3. QED
    BY <2>2 DEF Sits, ExpLabels, InExpression
<1>9. Replaces(calls, {}, {})
  BY <1>1, <1>2, <1>6, <1>8 DEF Replaces
<1>10. QED
  BY <1>9 DEF calls

(* A step that leaves the function alone.                                   *)
LEMMA QuietFills ==
  ASSUME LoweringInv, frames # <<>>, UNCHANGED <<program, status, fn>>, Owned(Top) = {}
  PROVE  Fills({}, {})
<1>1. Pending(Top) = {}
  BY DEF Pending
<1>2. /\ GoodFn(fn) /\ status \in {"lowering", "done", "rejected"}
      /\ Len(fn.blocks) \in Nat /\ Current \subseteq Opens(fn)
  BY TopFacts
<1>3. Mine = Current /\ Current' = Current /\ Len(fn.blocks) + 1 .. Len(fn.blocks) = {}
  BY <1>2 DEF Mine, Current
<1>4. QED
  BY <1>1, <1>2, <1>3 DEF Fills

-----------------------------------------------------------------------------
(***************************************************************************)
(* The steps that leave the function alone.                                 *)
(***************************************************************************)

LEMMA ItemFrame ==
  ASSUME NEW x \in Node, Kind(x) = "block", NEW i \in Nat \ {0}, NEW n \in Nat
  PROVE  /\ FrameOK(Frame("item", x, <<i>>), n)
         /\ Frame("item", x, <<i>>) \in FrameRecord
         /\ Owned(Frame("item", x, <<i>>)) = {}
<1>1. Frame("item", x, <<i>>) \in FrameRecord
  BY DEF Frame, FrameRecord, Labels
<1>2. QED
  BY <1>1 DEF FrameOK, Owned, Frame


LEMMA EnterScopeStep == LoweringInv /\ EnterScope => LoweringInv'
<1> SUFFICES ASSUME LoweringInv, EnterScope PROVE LoweringInv'
  OBVIOUS
<1> DEFINE a == Frame("item", Top.node, <<1>>)
<1>1. /\ frames # <<>> /\ Top.at = "stmt" /\ Kind(Top.node) = "block"
      /\ frames' = <<a>> \o Tail(frames) /\ UNCHANGED <<program, status, fn>>
  BY DEF EnterScope, AtStmt, At, GoOn
<1>2. Top \in FrameRecord /\ Top.node \in Node /\ Len(fn.blocks) \in Nat
  BY <1>1, TopFacts DEF FrameRecord
<1>3. FrameOK(a, Len(fn.blocks)) /\ a \in FrameRecord /\ Owned(a) = {} /\ a.at = "item"
  <2>1. 1 \in Nat \ {0}
    OBVIOUS
  <2>2. FrameOK(a, Len(fn.blocks)) /\ a \in FrameRecord /\ Owned(a) = {}
    BY <1>1, <1>2, <2>1, ItemFrame
  <2>3. QED
    BY <2>2 DEF Frame
<1>4. Owned(Top) = {} /\ Pending(a) = {}
  BY <1>1, <1>3 DEF Owned, Pending
<1> HIDE DEF a
<1>5. /\ a.at \notin ExpLabels /\ Top.at \notin ExpLabels /\ a.at \notin Filling
      /\ FrameOK(a, Len(fn'.blocks))
  BY <1>1, <1>3 DEF ExpLabels, Filling, InExpression
<1>6. Replaces(<<a>>, {}, {})
  BY <1>1, <1>3, <1>4, <1>5, ReplacesOne
<1>7. QED
  BY <1>1, <1>4, <1>6, QuietFills, StackStep

LEMMA LowerItemStep == LoweringInv /\ LowerItem => LoweringInv'
<1> SUFFICES ASSUME LoweringInv, LowerItem PROVE LoweringInv'
  OBVIOUS
<1> DEFINE i == Top.refs[1]
           a == Stmt(Kids(Top.node)[i])
           b == Frame("item", Top.node, <<i + 1>>)
<1>1. /\ frames # <<>> /\ Top.at = "item" /\ i <= Len(Kids(Top.node)) /\ fn.current # NoBlock
      /\ frames' = <<a, b>> \o Tail(frames) /\ UNCHANGED <<program, status, fn>>
  BY DEF LowerItem, At, GoOn
<1>2. /\ Top \in FrameRecord /\ Top.node \in Node /\ Len(fn.blocks) \in Nat /\ IsAst(program)
      /\ Kind(Top.node) = "block" /\ i \in Nat \ {0}
  <2>1. /\ Top \in FrameRecord /\ Len(fn.blocks) \in Nat /\ IsAst(program)
        /\ FrameOK(Top, Len(fn.blocks))
    BY <1>1, TopFacts
  <2>2. QED
    BY <1>1, <2>1 DEF FrameOK, FrameRecord
<1>3. Kids(Top.node)[i] \in Node /\ Kind(Kids(Top.node)[i]) \in StmtKinds
  <2>1. i \in 1 .. Len(Kids(Top.node))
    BY <1>1, <1>2, KidFacts
  <2>2. QED
    BY <1>2, <2>1, KidFacts
<1>4. FrameOK(a, Len(fn.blocks)) /\ a \in FrameRecord /\ Owned(a) = {} /\ a.at = "stmt"
  BY <1>2, <1>3, BareFrames DEF Stmt, Frame
<1>5. FrameOK(b, Len(fn.blocks)) /\ b \in FrameRecord /\ Owned(b) = {} /\ b.at = "item"
  <2>1. i + 1 \in Nat \ {0}
    BY <1>2
  <2>2. QED
    BY <1>2, <2>1, ItemFrame DEF Frame
<1>6. Owned(Top) = {} /\ Pending(b) = {}
  BY <1>1, <1>5 DEF Owned, Pending
<1> HIDE DEF a, b
<1>7. /\ Sits(a.at, b.at) /\ b.at \notin ExpLabels /\ Top.at \notin ExpLabels
      /\ FrameOK(a, Len(fn'.blocks)) /\ FrameOK(b, Len(fn'.blocks)) /\ fn'.current # NoBlock
  BY <1>1, <1>4, <1>5 DEF Sits, ExpLabels, InStatement
<1>8. Replaces(<<a, b>>, {}, {})
  BY <1>1, <1>4, <1>5, <1>6, <1>7, ReplacesTwo
<1>9. QED
  BY <1>1, <1>6, <1>8, QuietFills, StackStep

LEMMA ExitScopeStep == LoweringInv /\ ExitScope => LoweringInv'
<1> SUFFICES ASSUME LoweringInv, ExitScope PROVE LoweringInv'
  OBVIOUS
<1>1. /\ frames # <<>> /\ Top.at = "item"
      /\ frames' = Tail(frames) /\ UNCHANGED <<program, status, fn>>
  BY DEF ExitScope, At, Return
<1>2. Owned(Top) = {} /\ Top.at \notin ExpLabels
  BY <1>1 DEF Owned, ExpLabels
<1>3. QED
  BY <1>1, <1>2, ReplacesNone, QuietFills, StackStep

LEMMA FinishExpStep == LoweringInv /\ FinishExp => LoweringInv'
<1> SUFFICES ASSUME LoweringInv, FinishExp PROVE LoweringInv'
  OBVIOUS
<1>1. /\ frames # <<>> /\ Top.at = "finish"
      /\ frames' = Tail(frames) /\ UNCHANGED <<program, status, fn>>
  BY DEF FinishExp, At, Return
<1>2. Owned(Top) = {} /\ Top.at \notin ExpLabels
  BY <1>1 DEF Owned, ExpLabels
<1>3. QED
  BY <1>1, <1>2, ReplacesNone, QuietFills, StackStep

LEMMA LowerNumberStep == LoweringInv /\ LowerNumber => LoweringInv'
<1> SUFFICES ASSUME LoweringInv, LowerNumber PROVE LoweringInv'
  OBVIOUS
<1>1. /\ frames # <<>> /\ Top.at = "exp"
      /\ frames' = Tail(frames) /\ UNCHANGED <<program, status, fn>>
  BY DEF LowerNumber, AtExp, At, Return
<1>2. Owned(Top) = {} /\ fn'.current # NoBlock
  BY <1>1, TopFacts DEF Owned, Filling, InExpression, ExpLabels
<1>3. QED
  BY <1>1, <1>2, ReplacesNone, QuietFills, StackStep

LEMMA StartIfStep == LoweringInv /\ StartIf => LoweringInv'
<1> SUFFICES ASSUME LoweringInv, StartIf PROVE LoweringInv'
  OBVIOUS
<1> DEFINE a == Exp(Kids(Top.node)[1])
           b == Frame("branch", Top.node, <<>>)
<1>1. /\ frames # <<>> /\ Top.at = "stmt" /\ Kind(Top.node) = "if"
      /\ frames' = <<a, b>> \o Tail(frames) /\ UNCHANGED <<program, status, fn>>
  BY DEF StartIf, AtStmt, At, GoOn
<1>2. /\ Top \in FrameRecord /\ Top.node \in Node /\ Len(fn.blocks) \in Nat /\ IsAst(program)
      /\ fn.current # NoBlock
  BY <1>1, TopFacts DEF FrameRecord, Filling
<1>3. Kids(Top.node)[1] \in Node /\ Kind(Kids(Top.node)[1]) \in ExpKinds
  BY <1>1, <1>2, BranchingKids
<1>4. FrameOK(a, Len(fn.blocks)) /\ a \in FrameRecord /\ Owned(a) = {} /\ a.at = "exp"
  BY <1>2, <1>3, BareFrames DEF Exp, Frame
<1>5. /\ FrameOK(b, Len(fn.blocks)) /\ b \in FrameRecord /\ Owned(b) = {} /\ Pending(b) = {}
      /\ b.at = "branch"
  BY <1>1, <1>2, BareFrames DEF Frame
<1>6. Owned(Top) = {}
  BY <1>1 DEF Owned
<1> HIDE DEF a, b
<1>7. /\ Sits(a.at, b.at) /\ b.at \notin ExpLabels /\ Top.at \notin ExpLabels
      /\ FrameOK(a, Len(fn'.blocks)) /\ FrameOK(b, Len(fn'.blocks)) /\ fn'.current # NoBlock
  BY <1>1, <1>2, <1>4, <1>5 DEF Sits, ExpLabels, InExpression
<1>8. Replaces(<<a, b>>, {}, {})
  BY <1>1, <1>4, <1>5, <1>7, ReplacesTwo
<1>9. QED
  BY <1>1, <1>6, <1>8, QuietFills, StackStep

LEMMA StartAndStep == LoweringInv /\ StartAnd => LoweringInv'
<1> SUFFICES ASSUME LoweringInv, StartAnd PROVE LoweringInv'
  OBVIOUS
<1> DEFINE a == Exp(Kids(Top.node)[1])
           b == Frame("create", Top.node, <<>>)
<1>1. /\ frames # <<>> /\ Top.at = "exp" /\ Kind(Top.node) = "and"
      /\ frames' = <<a, b>> \o Tail(frames) /\ UNCHANGED <<program, status, fn>>
  BY DEF StartAnd, AtExp, At, GoOn
<1>2. /\ Top \in FrameRecord /\ Top.node \in Node /\ Len(fn.blocks) \in Nat /\ IsAst(program)
      /\ fn.current # NoBlock
  BY <1>1, TopFacts DEF FrameRecord, Filling, InExpression, ExpLabels
<1>3. Kids(Top.node)[1] \in Node /\ Kind(Kids(Top.node)[1]) \in ExpKinds
  BY <1>1, <1>2, BranchingKids
<1>4. FrameOK(a, Len(fn.blocks)) /\ a \in FrameRecord /\ Owned(a) = {} /\ a.at = "exp"
  BY <1>2, <1>3, BareFrames DEF Exp, Frame
<1>5. /\ FrameOK(b, Len(fn.blocks)) /\ b \in FrameRecord /\ Owned(b) = {} /\ Pending(b) = {}
      /\ b.at = "create"
  BY <1>1, <1>2, BareFrames DEF Frame
<1>6. Owned(Top) = {}
  BY <1>1 DEF Owned
<1> HIDE DEF a, b
<1>7. /\ Sits(a.at, b.at) /\ b.at \in ExpLabels /\ Top.at \in ExpLabels
      /\ FrameOK(a, Len(fn'.blocks)) /\ FrameOK(b, Len(fn'.blocks)) /\ fn'.current # NoBlock
  BY <1>1, <1>2, <1>4, <1>5 DEF Sits, ExpLabels, InExpression
<1>8. Replaces(<<a, b>>, {}, {})
  BY <1>1, <1>4, <1>5, <1>7, ReplacesTwo
<1>9. QED
  BY <1>1, <1>6, <1>8, QuietFills, StackStep

\* The frames pushed for the operands of a node.
Operands(n) == [k \in 1 .. Len(Kids(n)) |-> Exp(Kids(n)[k])]

LEMMA OperandFacts ==
  ASSUME IsAst(program), NEW n \in Node, Kind(n) \notin {"block", "if", "while"}, NEW m \in Nat
  PROVE  /\ Operands(n) \in Seq(FrameRecord)
         /\ \A k \in 1 .. Len(Operands(n)) : FrameOK(Operands(n)[k], m) /\ Operands(n)[k].at = "exp"
<1>1. /\ Kids(n) \in Seq(Node) /\ Len(Kids(n)) \in Nat
      /\ \A k \in 1 .. Len(Kids(n)) : Kids(n)[k] \in Node /\ Kind(Kids(n)[k]) \in ExpKinds
  BY KidFacts
<1>2. ASSUME NEW k \in 1 .. Len(Kids(n))
      PROVE  /\ Exp(Kids(n)[k]) \in FrameRecord
             /\ FrameOK(Exp(Kids(n)[k]), m) /\ Exp(Kids(n)[k]).at = "exp"
  BY <1>1, BareFrames DEF Exp, Frame
<1>3. Operands(n) \in Seq(FrameRecord) /\ Len(Operands(n)) = Len(Kids(n))
  BY <1>1, <1>2 DEF Operands
<1>4. QED
  BY <1>2, <1>3 DEF Operands

LEMMA LowerSimpleStmtStep == LoweringInv /\ LowerSimpleStmt => LoweringInv'
<1> SUFFICES ASSUME LoweringInv, LowerSimpleStmt PROVE LoweringInv'
  OBVIOUS
<1> DEFINE b == Frame("finish", Top.node, <<>>)
<1>1. /\ frames # <<>> /\ Top.at = "stmt" /\ Kind(Top.node) \in {"return", "assign", "exp"}
      /\ frames' = (Operands(Top.node) \o <<b>>) \o Tail(frames)
      /\ UNCHANGED <<program, status, fn>>
  BY DEF LowerSimpleStmt, At, GoOn, Operands
<1>2. /\ Top \in FrameRecord /\ Top.node \in Node /\ Len(fn.blocks) \in Nat /\ IsAst(program)
      /\ fn.current # NoBlock
  BY <1>1, TopFacts DEF FrameRecord, Filling
<1>3. /\ Operands(Top.node) \in Seq(FrameRecord)
      /\ \A k \in 1 .. Len(Operands(Top.node)) :
           FrameOK(Operands(Top.node)[k], Len(fn.blocks)) /\ Operands(Top.node)[k].at = "exp"
  BY <1>1, <1>2, OperandFacts
<1>4. FrameOK(b, Len(fn.blocks)) /\ b \in FrameRecord /\ b.at = "finish"
  BY <1>1, <1>2, BareFrames DEF Frame
<1>5. Owned(Top) = {}
  BY <1>1 DEF Owned
<1> HIDE DEF b
<1>6. b.at \notin ExpLabels /\ Top.at \notin ExpLabels
  BY <1>1, <1>4 DEF ExpLabels
<1>7. Replaces(Operands(Top.node) \o <<b>>, {}, {})
  BY <1>1, <1>2, <1>3, <1>4, <1>6, ReplacesOperands
<1>8. QED
  BY <1>1, <1>5, <1>7, QuietFills, StackStep

LEMMA LowerOperandsStep == LoweringInv /\ LowerOperands => LoweringInv'
<1> SUFFICES ASSUME LoweringInv, LowerOperands PROVE LoweringInv'
  OBVIOUS
<1> DEFINE b == Frame("apply", Top.node, <<>>)
<1>1. /\ frames # <<>> /\ Top.at = "exp" /\ Kind(Top.node) \in {"call", "bin"}
      /\ frames' = (Operands(Top.node) \o <<b>>) \o Tail(frames)
      /\ UNCHANGED <<program, status, fn>>
  BY DEF LowerOperands, At, GoOn, Operands
<1>2. /\ Top \in FrameRecord /\ Top.node \in Node /\ Len(fn.blocks) \in Nat /\ IsAst(program)
      /\ fn.current # NoBlock
  BY <1>1, TopFacts DEF FrameRecord, Filling, InExpression, ExpLabels
<1>3. /\ Operands(Top.node) \in Seq(FrameRecord)
      /\ \A k \in 1 .. Len(Operands(Top.node)) :
           FrameOK(Operands(Top.node)[k], Len(fn.blocks)) /\ Operands(Top.node)[k].at = "exp"
  BY <1>1, <1>2, OperandFacts
<1>4. FrameOK(b, Len(fn.blocks)) /\ b \in FrameRecord /\ b.at = "apply"
  BY <1>1, <1>2, BareFrames DEF Frame
<1>5. Owned(Top) = {}
  BY <1>1 DEF Owned
<1> HIDE DEF b
<1>6. b.at \in ExpLabels /\ Top.at \in ExpLabels
  BY <1>1, <1>4 DEF ExpLabels
<1>7. Replaces(Operands(Top.node) \o <<b>>, {}, {})
  BY <1>1, <1>2, <1>3, <1>4, <1>6, ReplacesOperands
<1>8. QED
  BY <1>1, <1>5, <1>7, QuietFills, StackStep

-----------------------------------------------------------------------------
(***************************************************************************)
(* The steps that fill and create blocks.                                   *)
(***************************************************************************)

LEMMA DoFacts ==
  ASSUME NEW x \in Node, NEW op \in Ops \ Terminators
  PROVE  Do(op, x) \in AnyInstruction /\ Do(op, x).to = <<>> /\ Do(op, x).op \notin Terminators
BY DEF Do, AnyInstruction

LEMMA RetFacts ==
  ASSUME NEW x \in Node
  PROVE  Ret(x) \in AnyInstruction /\ Ret(x).op \in Terminators /\ ToSet(Ret(x).to) = {}
BY DEF Ret, AnyInstruction, Ops, Terminators, ToSet

LEMMA JumpFacts ==
  ASSUME IsAst(program), NEW b \in Nat
  PROVE  Jump(b) \in AnyInstruction /\ Jump(b).op \in Terminators /\ ToSet(Jump(b).to) = {b}
<1>1. program.root \in Node /\ ToSet(<<b>>) = {b} /\ <<b>> \in Seq(Nat)
  BY DEF IsAst, ToSet
<1>2. QED
  BY <1>1 DEF Jump, AnyInstruction, Ops, Terminators

LEMMA BrFacts ==
  ASSUME NEW x \in Node, NEW b \in Nat, NEW c \in Nat
  PROVE  Br(x, b, c) \in AnyInstruction /\ Br(x, b, c).op \in Terminators
         /\ ToSet(Br(x, b, c).to) = {b, c}
<1>1. ToSet(<<b, c>>) = {b, c} /\ <<b, c>> \in Seq(Nat)
  BY DEF ToSet
<1>2. QED
  BY <1>1 DEF Br, AnyInstruction, Ops, Terminators

(* The frames with references.                                             *)
LEMMA ThenFrame ==
  ASSUME NEW x \in Node, Kind(x) = "if", NEW n \in Nat, NEW b \in 2 .. n
  PROVE  LET f == Frame("then", x, <<b>>) IN
         /\ FrameOK(f, n) /\ f \in FrameRecord /\ f.at = "then"
         /\ Owned(f) = {b} /\ Pending(f) = {}
BY DEF Frame, FrameRecord, Labels, FrameOK, Owned, Pending

LEMMA ElseFrame ==
  ASSUME NEW x \in Node, Kind(x) = "if", NEW n \in Nat, NEW b \in {NoBlock} \cup 2 .. n
  PROVE  LET f == Frame("else", x, <<b>>) IN
         /\ FrameOK(f, n) /\ f \in FrameRecord /\ f.at = "else"
         /\ Owned(f) = {b} \ {NoBlock} /\ Pending(f) = {}
BY DEF Frame, FrameRecord, Labels, FrameOK, Owned, Pending, NoBlock

LEMMA TestFrame ==
  ASSUME NEW x \in Node, Kind(x) = "while", NEW n \in Nat, NEW b \in 2 .. n, b + 2 <= n
  PROVE  LET f == Frame("test", x, <<b, b + 1, b + 2>>) IN
         /\ FrameOK(f, n) /\ f \in FrameRecord /\ f.at = "test"
         /\ Owned(f) = {b + 1, b + 2} /\ Pending(f) = {b + 1, b + 2}
BY DEF Frame, FrameRecord, Labels, FrameOK, Owned, Pending

LEMMA LoopFrame ==
  ASSUME NEW x \in Node, Kind(x) = "while", NEW n \in Nat, NEW b \in 2 .. n, NEW c \in 2 .. n
  PROVE  LET f == Frame("loop", x, <<b, c>>) IN
         /\ FrameOK(f, n) /\ f \in FrameRecord /\ f.at = "loop"
         /\ Owned(f) = {c} /\ Pending(f) = {}
BY DEF Frame, FrameRecord, Labels, FrameOK, Owned, Pending

LEMMA LhsFrame ==
  ASSUME NEW x \in Node, Kind(x) \in {"or", "and"}, NEW n \in Nat, NEW b \in 2 .. n, b + 2 <= n
  PROVE  LET f == Frame("lhs", x, <<b>>) IN
         /\ FrameOK(f, n) /\ f \in FrameRecord /\ f.at = "lhs"
         /\ Owned(f) = b .. b + 2 /\ Pending(f) = b .. b + 2
BY DEF Frame, FrameRecord, Labels, FrameOK, Owned, Pending

LEMMA RhsFrame ==
  ASSUME NEW x \in Node, Kind(x) \in {"or", "and"}, NEW n \in Nat, NEW b \in 2 .. n
  PROVE  LET f == Frame("rhs", x, <<b>>) IN
         /\ FrameOK(f, n) /\ f \in FrameRecord /\ f.at = "rhs"
         /\ Owned(f) = {b} /\ Pending(f) = {}
BY DEF Frame, FrameRecord, Labels, FrameOK, Owned, Pending

LEMMA EmitFills ==
  ASSUME LoweringInv, frames # <<>>, UNCHANGED <<program, status>>, Owned(Top) = {},
         fn.current # NoBlock, NEW inst \in AnyInstruction, inst.op \notin Terminators,
         inst.to = <<>>, fn' = Emit(fn, inst)
  PROVE  Fills({}, {}) /\ fn'.current # NoBlock
<1>1. /\ GoodFn(fn) /\ status \in {"lowering", "done", "rejected"}
      /\ Len(fn.blocks) \in Nat /\ Current \subseteq Opens(fn)
  BY TopFacts
<1>2. /\ GoodFn(fn') /\ Len(fn'.blocks) = Len(fn.blocks) /\ fn'.current = fn.current
      /\ Opens(fn') = Opens(fn)
      /\ \A b \in 1 .. Len(fn.blocks) : Succs(fn', b) = Succs(fn, b)
  BY <1>1, EmitFacts
<1>3. Mine = Current /\ Current' = Current /\ Pending(Top) = {}
      /\ Len(fn.blocks) + 1 .. Len(fn'.blocks) = {}
  BY <1>1, <1>2 DEF Mine, Current, Pending
<1>4. QED
  BY <1>1, <1>2, <1>3 DEF Fills

LEMMA TerminateFills ==
  ASSUME LoweringInv, frames # <<>>, UNCHANGED <<program, status>>, Owned(Top) = {},
         fn.current # NoBlock, NEW inst \in AnyInstruction, inst.op \in Terminators,
         ToSet(inst.to) \subseteq 2 .. Len(fn.blocks), fn' = Terminate(fn, inst)
  PROVE  Fills({}, {})
<1>1. /\ GoodFn(fn) /\ status \in {"lowering", "done", "rejected"}
      /\ Len(fn.blocks) \in Nat /\ Current \subseteq Opens(fn)
  BY TopFacts
<1>2. /\ GoodFn(fn') /\ Len(fn'.blocks) = Len(fn.blocks) /\ fn'.current = NoBlock
      /\ Opens(fn') = Opens(fn) \ {fn.current}
      /\ \A b \in 1 .. Len(fn.blocks) : Succs(fn, b) \subseteq Succs(fn', b)
  BY <1>1, TerminateFacts
<1>3. Mine = Current /\ Current' = {} /\ Pending(Top) = {} /\ Current = {fn.current}
      /\ Len(fn.blocks) + 1 .. Len(fn'.blocks) = {}
  BY <1>1, <1>2 DEF Mine, Current, Pending
<1>4. QED
  BY <1>1, <1>2, <1>3 DEF Fills

LEMMA FinishReturnStep == LoweringInv /\ FinishReturn => LoweringInv'
<1> SUFFICES ASSUME LoweringInv, FinishReturn PROVE LoweringInv'
  OBVIOUS
<1>1. /\ frames # <<>> /\ Top.at = "finish" /\ fn.current # NoBlock
      /\ fn' = Terminate(fn, Ret(Top.node))
      /\ frames' = Tail(frames) /\ UNCHANGED <<program, status>>
  BY DEF FinishReturn, At, Return
<1>2. Owned(Top) = {} /\ Top.at \notin ExpLabels
  BY <1>1 DEF Owned, ExpLabels
<1>3. Top.node \in Node /\ IsAst(program)
  BY <1>1, TopFacts DEF FrameRecord
<1>4. /\ Ret(Top.node) \in AnyInstruction /\ Ret(Top.node).op \in Terminators
      /\ ToSet(Ret(Top.node).to) \subseteq 2 .. Len(fn.blocks)
  BY <1>3, RetFacts
<1>5. Fills({}, {})
  BY <1>1, <1>2, <1>4, TerminateFills
<1>6. QED
  BY <1>1, <1>2, <1>5, ReplacesNone, StackStep

LEMMA FinishAssignStep == LoweringInv /\ FinishAssign => LoweringInv'
<1> SUFFICES ASSUME LoweringInv, FinishAssign PROVE LoweringInv'
  OBVIOUS
<1> DEFINE inst == Do("assign", Top.node)
<1>1. /\ frames # <<>> /\ Top.at = "finish" /\ fn.current # NoBlock
      /\ fn' = Emit(fn, inst)
      /\ frames' = Tail(frames) /\ UNCHANGED <<program, status>>
  BY DEF FinishAssign, At, Return
<1>2. Owned(Top) = {} /\ Top.at \notin ExpLabels
  BY <1>1 DEF Owned, ExpLabels
<1>3. Top.node \in Node /\ IsAst(program) /\ "assign" \in Ops \ Terminators
  BY <1>1, TopFacts DEF FrameRecord, Ops, Terminators
<1>4. inst \in AnyInstruction /\ inst.op \notin Terminators /\ inst.to = <<>>
  BY <1>3, DoFacts
<1>5. Fills({}, {})
  BY <1>1, <1>2, <1>4, EmitFills
<1>6. QED
  BY <1>1, <1>2, <1>5, ReplacesNone, StackStep

LEMMA ApplyStep == LoweringInv /\ Apply => LoweringInv'
<1> SUFFICES ASSUME LoweringInv, Apply PROVE LoweringInv'
  OBVIOUS
<1> DEFINE inst == Do(Kind(Top.node), Top.node)
<1>1. /\ frames # <<>> /\ Top.at = "apply" /\ fn.current # NoBlock
      /\ fn' = Emit(fn, inst)
      /\ frames' = Tail(frames) /\ UNCHANGED <<program, status>>
  BY DEF Apply, At, Return
<1>2. Owned(Top) = {}
  BY <1>1 DEF Owned
<1>3. Top.node \in Node /\ IsAst(program) /\ FrameOK(Top, Len(fn.blocks))
  BY <1>1, TopFacts DEF FrameRecord
<1>4. Kind(Top.node) \in Ops \ Terminators
  BY <1>1, <1>3 DEF FrameOK, Ops, Terminators
<1>5. inst \in AnyInstruction /\ inst.op \notin Terminators /\ inst.to = <<>>
  BY <1>3, <1>4, DoFacts
<1>6. Fills({}, {}) /\ fn'.current # NoBlock
  BY <1>1, <1>2, <1>5, EmitFills
<1>7. QED
  BY <1>1, <1>6, ReplacesNone, StackStep

(* The three blocks of || and of &&, and those of a loop.                   *)
Three(f) == CreateBlock(CreateBlock(CreateBlock(f)))

LEMMA ThreeFacts ==
  ASSUME NEW f, GoodFn(f)
  PROVE  /\ GoodFn(Three(f))
         /\ Len(Three(f).blocks) = Len(f.blocks) + 3
         /\ Three(f).current = f.current
         /\ Opens(Three(f)) = Opens(f) \cup Len(f.blocks) + 1 .. Len(f.blocks) + 3
         /\ \A b \in 1 .. Len(f.blocks) : Succs(Three(f), b) = Succs(f, b)
<1> DEFINE n == Len(f.blocks)
           f1 == CreateBlock(f)
           f2 == CreateBlock(f1)
           f3 == CreateBlock(f2)
<1>1. n \in Nat
  BY DEF GoodFn, AnyFn
<1>2. /\ GoodFn(f1) /\ Len(f1.blocks) = n + 1 /\ f1.current = f.current
      /\ Opens(f1) = Opens(f) \cup {n + 1}
      /\ \A b \in 1 .. n : Succs(f1, b) = Succs(f, b)
  BY CreateBlockFacts
<1> HIDE DEF f1
<1>3. /\ GoodFn(f2) /\ Len(f2.blocks) = n + 1 + 1 /\ f2.current = f.current
      /\ Opens(f2) = Opens(f) \cup {n + 1} \cup {n + 1 + 1}
      /\ \A b \in 1 .. n + 1 : Succs(f2, b) = Succs(f1, b)
  BY <1>2, CreateBlockFacts
<1> HIDE DEF f2
<1>4. /\ GoodFn(f3) /\ Len(f3.blocks) = n + 1 + 1 + 1 /\ f3.current = f.current
      /\ Opens(f3) = Opens(f) \cup {n + 1} \cup {n + 1 + 1} \cup {n + 1 + 1 + 1}
      /\ \A b \in 1 .. n + 1 + 1 : Succs(f3, b) = Succs(f2, b)
  BY <1>3, CreateBlockFacts
<1>5. Three(f) = f3
  BY DEF Three, f1, f2
<1> HIDE DEF f3
<1>6. /\ n + 1 + 1 = n + 2 /\ n + 1 + 1 + 1 = n + 3
      /\ n + 1 .. n + 3 = {n + 1} \cup {n + 2} \cup {n + 3}
      /\ \A b \in 1 .. n : b \in 1 .. n + 1 /\ b \in 1 .. n + 1 + 1
  BY <1>1
<1>7. \A b \in 1 .. n : Succs(f3, b) = Succs(f, b)
  BY <1>2, <1>3, <1>4, <1>6
<1>8. Opens(f3) = Opens(f) \cup n + 1 .. n + 3
  <2>1. Opens(f3) = Opens(f) \cup ({n + 1} \cup {n + 2} \cup {n + 3})
    BY <1>4, <1>6
  <2>2. QED
    BY <2>1, <1>6
<1>9. QED
  BY <1>4, <1>5, <1>6, <1>7, <1>8

LEMMA ThreeFills ==
  ASSUME LoweringInv, frames # <<>>, UNCHANGED <<program, status>>, Owned(Top) = {},
         fn' = Three(fn)
  PROVE  LET new == Len(fn.blocks) + 1 .. Len(fn.blocks) + 3 IN
         /\ Fills(new, new) /\ Len(fn'.blocks) = Len(fn.blocks) + 3
         /\ fn'.current = fn.current
<1> DEFINE n == Len(fn.blocks)
           new == n + 1 .. n + 3
<1>1. /\ GoodFn(fn) /\ status \in {"lowering", "done", "rejected"}
      /\ n \in Nat /\ Current \subseteq Opens(fn) /\ Opens(fn) \subseteq 1 .. n
  BY TopFacts DEF Opens
<1>2. /\ GoodFn(fn') /\ Len(fn'.blocks) = n + 3 /\ fn'.current = fn.current
      /\ Opens(fn') = Opens(fn) \cup new
      /\ \A b \in 1 .. n : Succs(fn', b) = Succs(fn, b)
  BY <1>1, ThreeFacts
<1>3. Mine = Current /\ Current' = Current /\ Pending(Top) = {} /\ new = n + 1 .. Len(fn'.blocks)
  BY <1>1, <1>2 DEF Mine, Current, Pending
<1>4. new \cap Current' = {} /\ n <= Len(fn'.blocks)
  BY <1>1, <1>2, <1>3
<1> HIDE DEF new
<1>5. Fills(new, new)
  BY <1>1, <1>2, <1>3, <1>4 DEF Fills
<1>6. QED
  BY <1>2, <1>5 DEF new

LEMMA StartOrStep == LoweringInv /\ StartOr => LoweringInv'
<1> SUFFICES ASSUME LoweringInv, StartOr PROVE LoweringInv'
  OBVIOUS
<1> DEFINE n == Len(fn.blocks)
           a == Exp(Kids(Top.node)[1])
           b == Frame("lhs", Top.node, <<n + 1>>)
           new == n + 1 .. n + 3
<1>1. /\ frames # <<>> /\ Top.at = "exp" /\ Kind(Top.node) = "or"
      /\ fn' = Three(fn)
      /\ frames' = <<a, b>> \o Tail(frames) /\ UNCHANGED <<program, status>>
  BY DEF StartOr, AtExp, At, GoOn, Three, Newest
<1>2. /\ Top \in FrameRecord /\ Top.node \in Node /\ n \in Nat \ {0} /\ IsAst(program)
      /\ fn.current # NoBlock
  BY <1>1, TopFacts DEF FrameRecord, Filling, InExpression, ExpLabels
<1>3. Kids(Top.node)[1] \in Node /\ Kind(Kids(Top.node)[1]) \in ExpKinds
  BY <1>1, <1>2, BranchingKids
<1>4. Owned(Top) = {}
  BY <1>1 DEF Owned
<1>5. Fills(new, new) /\ Len(fn'.blocks) = n + 3 /\ fn'.current = fn.current
  BY <1>1, <1>4, ThreeFills
<1>6. n + 3 \in Nat /\ n + 1 \in 2 .. n + 3 /\ n + 1 + 2 = n + 3
  BY <1>2
<1>7. FrameOK(a, n + 3) /\ a \in FrameRecord /\ Owned(a) = {} /\ a.at = "exp"
  BY <1>3, <1>6, BareFrames DEF Exp, Frame
<1>8. /\ FrameOK(b, n + 3) /\ b \in FrameRecord /\ Owned(b) = new /\ Pending(b) = new
      /\ b.at = "lhs"
  <2>1. /\ FrameOK(b, n + 3) /\ b \in FrameRecord /\ b.at = "lhs"
        /\ Owned(b) = n + 1 .. n + 1 + 2 /\ Pending(b) = n + 1 .. n + 1 + 2
    BY <1>1, <1>2, <1>6, LhsFrame
  <2>2. QED
    BY <1>6, <2>1
<1> HIDE DEF a, b, new
<1>9. /\ Sits(a.at, b.at) /\ b.at \in ExpLabels /\ Top.at \in ExpLabels
      /\ FrameOK(a, Len(fn'.blocks)) /\ FrameOK(b, Len(fn'.blocks)) /\ fn'.current # NoBlock
  BY <1>1, <1>2, <1>5, <1>7, <1>8 DEF Sits, ExpLabels, InExpression
<1>10. Replaces(<<a, b>>, new, new)
  BY <1>1, <1>7, <1>8, <1>9, ReplacesTwo
<1>11. QED
  BY <1>5, <1>10, StackStep

LEMMA CreateAndBlocksStep == LoweringInv /\ CreateAndBlocks => LoweringInv'
<1> SUFFICES ASSUME LoweringInv, CreateAndBlocks PROVE LoweringInv'
  OBVIOUS
<1> DEFINE n == Len(fn.blocks)
           b == Frame("lhs", Top.node, <<n + 1>>)
           new == n + 1 .. n + 3
<1>1. /\ frames # <<>> /\ Top.at = "create"
      /\ fn' = Three(fn)
      /\ frames' = <<b>> \o Tail(frames) /\ UNCHANGED <<program, status>>
  BY DEF CreateAndBlocks, At, GoOn, Three, Newest
<1>2. /\ Top \in FrameRecord /\ Top.node \in Node /\ n \in Nat \ {0}
      /\ fn.current # NoBlock /\ Kind(Top.node) \in {"or", "and"}
  <2>1. /\ Top \in FrameRecord /\ n \in Nat \ {0} /\ FrameOK(Top, n)
        /\ Top.at \in Filling => fn.current # NoBlock
    BY <1>1, TopFacts
  <2>2. QED
    BY <1>1, <2>1 DEF FrameRecord, FrameOK, Filling, InExpression, ExpLabels
<1>3. Owned(Top) = {}
  BY <1>1 DEF Owned
<1>4. Fills(new, new) /\ Len(fn'.blocks) = n + 3 /\ fn'.current = fn.current
  BY <1>1, <1>3, ThreeFills
<1>5. n + 3 \in Nat /\ n + 1 \in 2 .. n + 3 /\ n + 1 + 2 = n + 3
  BY <1>2
<1>6. /\ FrameOK(b, n + 3) /\ b \in FrameRecord /\ Owned(b) = new /\ Pending(b) = new
      /\ b.at = "lhs"
  <2>1. /\ FrameOK(b, n + 3) /\ b \in FrameRecord /\ b.at = "lhs"
        /\ Owned(b) = n + 1 .. n + 1 + 2 /\ Pending(b) = n + 1 .. n + 1 + 2
    BY <1>1, <1>2, <1>5, LhsFrame
  <2>2. QED
    BY <1>5, <2>1
<1> HIDE DEF b, new
<1>7. /\ b.at \in ExpLabels /\ Top.at \in ExpLabels
      /\ FrameOK(b, Len(fn'.blocks)) /\ fn'.current # NoBlock
  BY <1>1, <1>2, <1>4, <1>6 DEF ExpLabels
<1>8. Replaces(<<b>>, new, new)
  BY <1>1, <1>6, <1>7, ReplacesOne
<1>9. QED
  BY <1>4, <1>8, StackStep

LEMMA ShortCircuitFacts ==
  ASSUME IsAst(program), NEW x \in Node, Kind(x) \in {"or", "and"}, NEW s \in Nat, NEW r \in Nat
  PROVE  /\ ShortCircuitBranch(x, s, r) \in AnyInstruction
         /\ ShortCircuitBranch(x, s, r).op \in Terminators
         /\ ToSet(ShortCircuitBranch(x, s, r).to) = {s, r}
<1> DEFINE y == Kids(x)[1]
<1>1. y \in Node
  BY BranchingKids
<1>2. ShortCircuitBranch(x, s, r) \in {Br(y, s, r), Br(y, r, s)}
  BY DEF ShortCircuitBranch
<1> HIDE DEF y
<1>3. /\ Br(y, s, r) \in AnyInstruction /\ Br(y, s, r).op \in Terminators
      /\ ToSet(Br(y, s, r).to) = {s, r}
  BY <1>1, BrFacts
<1>4. /\ Br(y, r, s) \in AnyInstruction /\ Br(y, r, s).op \in Terminators
      /\ ToSet(Br(y, r, s).to) = {s, r}
  <2>1. {s, r} = {r, s}
    OBVIOUS
  <2>2. /\ Br(y, r, s) \in AnyInstruction /\ Br(y, r, s).op \in Terminators
        /\ ToSet(Br(y, r, s).to) = {r, s}
    BY <1>1, BrFacts
  <2>3. QED
    BY <2>1, <2>2
<1>5. QED
  BY <1>2, <1>3, <1>4

(* The left side: the block that skips the right side is filled at once.     *)
LEMMA EndLhsStep == LoweringInv /\ EndLhs => LoweringInv'
<1> SUFFICES ASSUME LoweringInv, EndLhs PROVE LoweringInv'
  OBVIOUS
<1> DEFINE n == Len(fn.blocks)
           c == fn.current
           x == Top.node
           s == Top.refs[1]
           branch == ShortCircuitBranch(x, s, s + 1)
           f1 == Terminate(fn, branch)
           f2 == SetCurrent(f1, s)
           f3 == Emit(f2, Do("shortcut", x))
           jump == Jump(s + 2)
           f4 == Terminate(f3, jump)
           f5 == SetCurrent(f4, s + 1)
           a == Exp(Kids(x)[2])
           b == Frame("rhs", x, <<s + 2>>)
<1>1. /\ frames # <<>> /\ Top.at = "lhs" /\ c # NoBlock /\ fn' = f5
      /\ frames' = <<a, b>> \o Tail(frames) /\ UNCHANGED <<program, status>>
  BY DEF EndLhs, At, GoOn
<1>2. /\ Top \in FrameRecord /\ x \in Node /\ n \in Nat \ {0} /\ IsAst(program)
      /\ GoodFn(fn) /\ Owned(Top) \subseteq Opens(fn) \ Current /\ FrameOK(Top, n)
      /\ status \in {"lowering", "done", "rejected"} /\ c \in Opens(fn)
  BY <1>1, TopFacts DEF FrameRecord, GoodFn
<1>3. Kind(x) \in {"or", "and"} /\ s \in 2 .. n /\ s + 2 <= n /\ Owned(Top) = s .. s + 2
  BY <1>1, <1>2 DEF FrameOK, Owned
<1>4. /\ s \in Nat /\ s + 1 \in Nat /\ s + 2 \in Nat /\ {s, s + 1, s + 2} = s .. s + 2
      /\ s # s + 1 /\ s # s + 2 /\ s + 1 # s + 2
      /\ s \in 2 .. n /\ s + 1 \in 2 .. n /\ s + 2 \in 2 .. n
      /\ s # NoBlock /\ s + 1 # NoBlock /\ s + 2 # NoBlock
  <2>1. s \in Nat /\ s >= 2 /\ n \in Nat /\ s + 2 <= n
    BY <1>2, <1>3
  <2> HIDE DEF s, n
  <2>2. {s, s + 1, s + 2} = s .. s + 2
    BY <2>1
  <2>3. /\ s + 1 \in Nat /\ s + 2 \in Nat /\ s # s + 1 /\ s # s + 2 /\ s + 1 # s + 2
        /\ s \in 2 .. n /\ s + 1 \in 2 .. n /\ s + 2 \in 2 .. n
    BY <2>1
  <2>4. s # NoBlock /\ s + 1 # NoBlock /\ s + 2 # NoBlock
    BY <2>1 DEF NoBlock
  <2>5. QED
    BY <2>1, <2>2, <2>3, <2>4
<1>5. /\ Current = {c} /\ {s, s + 1, s + 2} \subseteq Opens(fn)
      /\ c # s /\ c # s + 1 /\ c # s + 2
  BY <1>1, <1>2, <1>3, <1>4 DEF Current
<1>6. /\ Kids(x)[1] \in Node
      /\ Kids(x)[2] \in Node /\ Kind(Kids(x)[2]) \in ExpKinds
  BY <1>2, <1>3, BranchingKids
<1>7. branch \in AnyInstruction /\ branch.op \in Terminators /\ ToSet(branch.to) = {s, s + 1}
  <2>1. IsAst(program) /\ x \in Node /\ Kind(x) \in {"or", "and"} /\ s \in Nat /\ s + 1 \in Nat
    BY <1>2, <1>3, <1>4
  <2>2. QED
    BY <2>1, ShortCircuitFacts, Zenon
<1> HIDE DEF branch
<1>8. /\ GoodFn(f1) /\ Len(f1.blocks) = n /\ Opens(f1) = Opens(fn) \ {c}
      /\ Succs(f1, c) = Succs(fn, c) \cup {s, s + 1}
      /\ \A d \in 1 .. n : Succs(fn, d) \subseteq Succs(f1, d)
  <2>1. ToSet(branch.to) \subseteq 2 .. n
    BY <1>4, <1>7
  <2>2. QED
    BY <1>1, <1>2, <1>7, <2>1, TerminateFacts
<1> HIDE DEF f1
<1>9. /\ GoodFn(f2) /\ Len(f2.blocks) = n /\ Opens(f2) = Opens(fn) \ {c} /\ f2.current = s
      /\ \A d : Succs(f2, d) = Succs(f1, d)
  <2>1. f1 \in AnyFn /\ s \in Opens(f1)
    BY <1>5, <1>8 DEF GoodFn
  <2>2. QED
    BY <1>4, <1>8, <2>1, SetCurrentFacts
<1> HIDE DEF f2
<1>10. /\ GoodFn(f3) /\ Len(f3.blocks) = n /\ Opens(f3) = Opens(fn) \ {c} /\ f3.current = s
       /\ \A d \in 1 .. n : Succs(f3, d) = Succs(f2, d)
  <2>1. "shortcut" \in Ops \ Terminators
    BY DEF Ops, Terminators
  <2>2. /\ Do("shortcut", x) \in AnyInstruction /\ Do("shortcut", x).op \notin Terminators
        /\ Do("shortcut", x).to = <<>>
    BY <1>2, <2>1, DoFacts
  <2>3. QED
    BY <1>4, <1>9, <2>2, EmitFacts
<1> HIDE DEF f3
<1>11. /\ GoodFn(f4) /\ Len(f4.blocks) = n /\ Opens(f4) = (Opens(fn) \ {c}) \ {s}
       /\ Succs(f4, s) = Succs(f3, s) \cup {s + 2}
       /\ \A d \in 1 .. n : Succs(f3, d) \subseteq Succs(f4, d)
  <2>1. jump \in AnyInstruction /\ jump.op \in Terminators /\ ToSet(jump.to) = {s + 2}
    BY <1>2, <1>4, JumpFacts
  <2> HIDE DEF jump
  <2>2. ToSet(jump.to) \subseteq 2 .. n
    BY <1>4, <2>1
  <2>3. f3.current # NoBlock
    BY <1>4, <1>10
  <2>4. QED
    BY <1>10, <2>1, <2>2, <2>3, TerminateFacts
<1> HIDE DEF f4
<1>12. /\ GoodFn(f5) /\ Len(f5.blocks) = n /\ Opens(f5) = (Opens(fn) \ {c}) \ {s}
       /\ f5.current = s + 1
       /\ \A d : Succs(f5, d) = Succs(f4, d)
  <2>1. f4 \in AnyFn /\ s + 1 \in Opens(f4)
    BY <1>4, <1>5, <1>11 DEF GoodFn
  <2>2. QED
    BY <1>4, <1>11, <2>1, SetCurrentFacts
<1> HIDE DEF f5
<1>13. \A d \in 1 .. n : Succs(fn, d) \subseteq Succs(f5, d)
  BY <1>8, <1>9, <1>10, <1>11, <1>12
<1>14. {s, s + 1} \subseteq Succs(f5, c) /\ s + 2 \in Succs(f5, s)
  <2>1. c \in 1 .. n /\ s \in 1 .. n
    BY <1>2, <1>5 DEF Opens
  <2>2. {s, s + 1} \subseteq Succs(f5, c)
    BY <2>1, <1>8, <1>9, <1>10, <1>11, <1>12
  <2>3. QED
    BY <2>2, <1>11, <1>12
<1>15. Fills({s + 2}, {})
  <2>1. n + 1 .. n = {} /\ Len(fn'.blocks) = n
    BY <1>1, <1>2, <1>12
  <2>2. Mine = {c, s, s + 1, s + 2} /\ Current' = {s + 1} /\ Pending(Top) = {s, s + 1, s + 2}
    BY <1>1, <1>3, <1>4, <1>5, <1>12 DEF Mine, Current, Pending
  <2>3. Opens(fn') = (Opens(fn) \ Mine) \cup {s + 2} \cup Current'
    BY <1>1, <1>4, <1>5, <1>12, <2>2
  <2>4. {s + 2} \cap Current' = {} /\ {s + 2} \cup Current' \subseteq Mine
    BY <1>4, <2>2
  <2>5. \A R : Closed(fn', R) /\ Current \subseteq R => Pending(Top) \subseteq R
    BY <1>1, <1>5, <1>14, <2>2 DEF Closed
  <2>6. n <= Len(fn'.blocks)
    BY <1>2, <2>1
  <2>7. QED
    BY <1>1, <1>2, <1>12, <1>13, <2>1, <2>3, <2>4, <2>5, <2>6 DEF Fills
<1>16. FrameOK(a, n) /\ a \in FrameRecord /\ Owned(a) = {} /\ a.at = "exp"
  BY <1>2, <1>6, BareFrames DEF Exp, Frame
<1>17. /\ FrameOK(b, n) /\ b \in FrameRecord /\ Owned(b) = {s + 2} /\ Pending(b) = {}
       /\ b.at = "rhs"
  BY <1>2, <1>3, <1>4, RhsFrame
<1> HIDE DEF a, b
<1>18. /\ Sits(a.at, b.at) /\ b.at \in ExpLabels /\ Top.at \in ExpLabels
       /\ FrameOK(a, Len(fn'.blocks)) /\ FrameOK(b, Len(fn'.blocks)) /\ fn'.current # NoBlock
  BY <1>1, <1>4, <1>12, <1>16, <1>17 DEF Sits, ExpLabels, InExpression
<1>19. Replaces(<<a, b>>, {s + 2}, {})
  BY <1>1, <1>16, <1>17, <1>18, ReplacesTwo
<1>20. QED
  BY <1>15, <1>19, StackStep

LEMMA EndRhsStep == LoweringInv /\ EndRhs => LoweringInv'
<1> SUFFICES ASSUME LoweringInv, EndRhs PROVE LoweringInv'
  OBVIOUS
<1> DEFINE n == Len(fn.blocks)
           c == fn.current
           x == Top.node
           m == Top.refs[1]
           jump == Jump(m)
           f1 == Emit(fn, Do("store", x))
           f2 == Terminate(f1, jump)
           f3 == SetCurrent(f2, m)
           f4 == Emit(f3, Do("load", x))
<1>1. /\ frames # <<>> /\ Top.at = "rhs" /\ c # NoBlock /\ fn' = f4
      /\ frames' = Tail(frames) /\ UNCHANGED <<program, status>>
  BY DEF EndRhs, At, Return
<1>2. /\ Top \in FrameRecord /\ x \in Node /\ n \in Nat \ {0} /\ IsAst(program)
      /\ GoodFn(fn) /\ Owned(Top) \subseteq Opens(fn) \ Current /\ FrameOK(Top, n)
      /\ status \in {"lowering", "done", "rejected"} /\ c \in Opens(fn)
  BY <1>1, TopFacts DEF FrameRecord, GoodFn
<1>3. m \in 2 .. n /\ Owned(Top) = {m} /\ Pending(Top) = {}
  BY <1>1, <1>2 DEF FrameOK, Owned, Pending
<1>4. m \in Nat /\ m # NoBlock /\ Current = {c} /\ m \in Opens(fn) /\ m # c
  BY <1>1, <1>2, <1>3 DEF Current, NoBlock
<1>5. /\ GoodFn(f1) /\ Len(f1.blocks) = n /\ Opens(f1) = Opens(fn) /\ f1.current = c
      /\ \A d \in 1 .. n : Succs(f1, d) = Succs(fn, d)
  <2>1. /\ Do("store", x) \in AnyInstruction /\ Do("store", x).op \notin Terminators
        /\ Do("store", x).to = <<>>
    BY <1>2, DoFacts DEF Ops, Terminators
  <2>2. QED
    BY <1>1, <1>2, <2>1, EmitFacts
<1> HIDE DEF f1
<1>6. /\ GoodFn(f2) /\ Len(f2.blocks) = n /\ Opens(f2) = Opens(fn) \ {c}
      /\ \A d \in 1 .. n : Succs(f1, d) \subseteq Succs(f2, d)
  <2>1. jump \in AnyInstruction /\ jump.op \in Terminators /\ ToSet(jump.to) = {m}
    BY <1>2, <1>4, JumpFacts
  <2> HIDE DEF jump
  <2>2. ToSet(jump.to) \subseteq 2 .. n
    BY <1>3, <2>1
  <2>3. QED
    BY <1>1, <1>5, <2>1, <2>2, TerminateFacts
<1> HIDE DEF f2
<1>7. /\ GoodFn(f3) /\ Len(f3.blocks) = n /\ Opens(f3) = Opens(fn) \ {c} /\ f3.current = m
      /\ \A d : Succs(f3, d) = Succs(f2, d)
  <2>1. f2 \in AnyFn /\ m \in Opens(f2)
    BY <1>4, <1>6 DEF GoodFn
  <2>2. QED
    BY <1>4, <1>6, <2>1, SetCurrentFacts
<1> HIDE DEF f3
<1>8. /\ GoodFn(f4) /\ Len(f4.blocks) = n /\ Opens(f4) = Opens(fn) \ {c} /\ f4.current = m
      /\ \A d \in 1 .. n : Succs(f4, d) = Succs(f3, d)
  <2>1. /\ Do("load", x) \in AnyInstruction /\ Do("load", x).op \notin Terminators
        /\ Do("load", x).to = <<>>
    BY <1>2, DoFacts DEF Ops, Terminators
  <2>2. QED
    BY <1>4, <1>7, <2>1, EmitFacts
<1> HIDE DEF f4
<1>9. \A d \in 1 .. n : Succs(fn, d) \subseteq Succs(f4, d)
  BY <1>5, <1>6, <1>7, <1>8
<1>10. Fills({}, {})
  <2>1. n + 1 .. n = {} /\ Len(fn'.blocks) = n /\ n <= n
    BY <1>1, <1>2, <1>8
  <2>2. Mine = {c, m} /\ Current' = {m}
    BY <1>1, <1>3, <1>4, <1>8 DEF Mine, Current
  <2>3. Opens(fn') = (Opens(fn) \ Mine) \cup {} \cup Current'
    BY <1>1, <1>4, <1>8, <2>2
  <2>4. QED
    BY <1>1, <1>2, <1>3, <1>8, <1>9, <2>1, <2>2, <2>3 DEF Fills
<1>11. fn'.current # NoBlock
  BY <1>1, <1>4, <1>8
<1>12. QED
  BY <1>1, <1>10, <1>11, ReplacesNone, StackStep

(* Falling through to the merge block, or to the header of the loop.         *)
LEMMA FallThroughFacts ==
  ASSUME IsAst(program), NEW f, GoodFn(f), NEW merge \in {NoBlock} \cup 2 .. Len(f.blocks)
  PROVE  LET out == FallThrough(f, merge)
             n == Len(f.blocks)
         IN /\ GoodFn(out.fn) /\ out.fn.current = NoBlock
            /\ Len(out.fn.blocks) = IF f.current # NoBlock /\ merge = NoBlock THEN n + 1 ELSE n
            /\ out.merge = IF f.current # NoBlock /\ merge = NoBlock THEN n + 1 ELSE merge
            /\ Opens(out.fn) = (Opens(f) \ {f.current}) \cup (n + 1 .. Len(out.fn.blocks))
            /\ f.current # NoBlock => out.merge \in Succs(out.fn, f.current)
            /\ \A b \in 1 .. n : Succs(f, b) \subseteq Succs(out.fn, b)
<1> DEFINE out == FallThrough(f, merge)
           n == Len(f.blocks)
           c == f.current
<1>1. n \in Nat /\ c \in Nat /\ Opens(f) \subseteq 1 .. n /\ (c # NoBlock => c \in Opens(f))
      /\ n + 1 .. n = {} /\ n + 1 .. n + 1 = {n + 1}
  BY DEF GoodFn, AnyFn, Opens
<1> DEFINE JumpOK(b) == /\ Jump(b) \in AnyInstruction /\ Jump(b).op \in Terminators
                        /\ ToSet(Jump(b).to) = {b}
<1>0. \A b \in Nat : JumpOK(b)
  BY JumpFacts
<1>2. CASE c = NoBlock
  <2>1. out.fn = f /\ out.merge = merge
    BY <1>2 DEF FallThrough
  <2>2. NoBlock \notin Opens(f)
    BY <1>1 DEF NoBlock
  <2> HIDE DEF out
  <2>3. QED
    BY <1>1, <1>2, <2>1, <2>2 DEF out
<1>3. CASE c # NoBlock /\ merge # NoBlock
  <2> DEFINE jump == Jump(merge)
             h == Terminate(f, jump)
  <2>1. out.fn = h /\ out.merge = merge
    BY <1>3 DEF FallThrough
  <2>2. jump \in AnyInstruction /\ jump.op \in Terminators /\ ToSet(jump.to) = {merge}
    <3>1. merge \in Nat
      BY <1>1, <1>3
    <3>2. JumpOK(merge)
      BY <1>0, <3>1
    <3>3. QED
      BY <3>2
  <2> HIDE DEF out, jump
  <2>3. ToSet(jump.to) \subseteq 2 .. n
    BY <1>3, <2>2
  <2>4. /\ GoodFn(h) /\ Len(h.blocks) = n /\ h.current = NoBlock /\ Opens(h) = Opens(f) \ {c}
        /\ Succs(h, c) = Succs(f, c) \cup {merge}
        /\ \A b \in 1 .. n : Succs(f, b) \subseteq Succs(h, b)
    BY <1>3, <2>2, <2>3, TerminateFacts
  <2> HIDE DEF h
  <2>5. QED
    BY <1>1, <1>3, <2>1, <2>4 DEF out
<1>4. CASE c # NoBlock /\ merge = NoBlock
  <2> DEFINE made == CreateBlock(f)
             jump == Jump(n + 1)
             h == Terminate(made, jump)
  <2>1. /\ GoodFn(made) /\ Len(made.blocks) = n + 1 /\ made.current = c
        /\ Opens(made) = Opens(f) \cup {n + 1}
        /\ \A b \in 1 .. n : Succs(made, b) = Succs(f, b)
    BY CreateBlockFacts
  <2>2. out.fn = h /\ out.merge = n + 1
    BY <1>4, <2>1 DEF FallThrough, Newest
  <2>3. jump \in AnyInstruction /\ jump.op \in Terminators /\ ToSet(jump.to) = {n + 1}
    <3>1. n + 1 \in Nat
      BY <1>1
    <3>2. JumpOK(n + 1)
      BY <1>0, <3>1
    <3>3. QED
      BY <3>2
  <2> HIDE DEF out, jump, made
  <2>4. ToSet(jump.to) \subseteq 2 .. n + 1 /\ c \in 1 .. n /\ n + 1 # c
    BY <1>1, <1>4, <2>3
  <2>5. /\ GoodFn(h) /\ Len(h.blocks) = n + 1 /\ h.current = NoBlock
        /\ Opens(h) = (Opens(f) \cup {n + 1}) \ {c}
        /\ Succs(h, c) = Succs(made, c) \cup {n + 1}
        /\ \A b \in 1 .. n + 1 : Succs(made, b) \subseteq Succs(h, b)
    <3>1. ToSet(jump.to) \subseteq 2 .. Len(made.blocks) /\ made.current # NoBlock
      BY <1>4, <2>1, <2>4
    <3>2. /\ GoodFn(h) /\ Len(h.blocks) = Len(made.blocks) /\ h.current = NoBlock
          /\ Opens(h) = Opens(made) \ {made.current}
          /\ Succs(h, made.current) = Succs(made, made.current) \cup ToSet(jump.to)
          /\ \A b \in 1 .. Len(made.blocks) : Succs(made, b) \subseteq Succs(h, b)
      BY <2>1, <2>3, <3>1, TerminateFacts, Zenon
    <3> HIDE DEF h
    <3>3. QED
      BY <2>1, <2>3, <3>2
  <2> HIDE DEF h
  <2>6. Opens(h) = (Opens(f) \ {c}) \cup (n + 1 .. Len(h.blocks))
    BY <1>1, <2>4, <2>5
  <2>7. \A b \in 1 .. n : b \in 1 .. n + 1
    BY <1>1
  <2>8. \A b \in 1 .. n : Succs(f, b) \subseteq Succs(h, b)
    BY <2>1, <2>5, <2>7
  <2>9. QED
    BY <1>4, <2>2, <2>5, <2>6, <2>8 DEF out
<1>5. QED
  BY <1>2, <1>3, <1>4

\* After the then branch and after the body of a loop, what follows is open.
LEMMA FallThroughFills ==
  ASSUME LoweringInv, frames # <<>>, UNCHANGED <<program, status>>,
         NEW merge \in 2 .. Len(fn.blocks), NEW next \in 2 .. Len(fn.blocks),
         Owned(Top) = {next}, Pending(Top) = {},
         fn' = SetCurrent(FallThrough(fn, merge).fn, next)
  PROVE  Fills({}, {})
<1> DEFINE n == Len(fn.blocks)
           c == fn.current
           f1 == FallThrough(fn, merge).fn
           f2 == SetCurrent(f1, next)
<1>1. /\ n \in Nat \ {0} /\ IsAst(program) /\ GoodFn(fn) /\ c \in Nat
      /\ Owned(Top) \subseteq Opens(fn) \ Current /\ Opens(fn) \subseteq 1 .. n
      /\ status \in {"lowering", "done", "rejected"} /\ n + 1 .. n = {}
  BY TopFacts DEF Opens
<1>2. next \in Opens(fn) /\ next # c /\ next \in Nat /\ next # NoBlock /\ merge # NoBlock
      /\ NoBlock \notin Opens(fn)
  BY <1>1 DEF Current, NoBlock
<1>3. /\ GoodFn(f1) /\ Len(f1.blocks) = n /\ Opens(f1) = Opens(fn) \ {c}
      /\ \A d \in 1 .. n : Succs(fn, d) \subseteq Succs(f1, d)
  <2>1. merge \in {NoBlock} \cup 2 .. n
    OBVIOUS
  <2>2. /\ GoodFn(f1)
        /\ Len(f1.blocks) = IF c # NoBlock /\ merge = NoBlock THEN n + 1 ELSE n
        /\ Opens(f1) = (Opens(fn) \ {c}) \cup (n + 1 .. Len(f1.blocks))
        /\ \A d \in 1 .. n : Succs(fn, d) \subseteq Succs(f1, d)
    BY <1>1, <2>1, FallThroughFacts
  <2> HIDE DEF f1
  <2>3. Len(f1.blocks) = n
    BY <1>2, <2>2
  <2>4. QED
    BY <1>1, <2>2, <2>3
<1> HIDE DEF f1
<1>4. /\ GoodFn(f2) /\ Len(f2.blocks) = n /\ Opens(f2) = Opens(fn) \ {c} /\ f2.current = next
      /\ \A d : Succs(f2, d) = Succs(f1, d)
  <2>1. f1 \in AnyFn /\ next \in Opens(f1)
    BY <1>2, <1>3 DEF GoodFn
  <2>2. QED
    BY <1>2, <1>3, <2>1, SetCurrentFacts
<1>5. fn' = f2
  BY DEF f1
<1> HIDE DEF f2
<1>6. Mine = {next} \cup Current /\ Current' = {next}
  BY <1>2, <1>4, <1>5 DEF Mine, Current
<1>7. Opens(fn') = (Opens(fn) \ Mine) \cup {} \cup Current'
  BY <1>2, <1>4, <1>5, <1>6 DEF Current
<1>8. QED
  BY <1>1, <1>3, <1>4, <1>5, <1>6, <1>7 DEF Fills

LEMMA EndThenWithoutElseStep == LoweringInv /\ EndThenWithoutElse => LoweringInv'
<1> SUFFICES ASSUME LoweringInv, EndThenWithoutElse PROVE LoweringInv'
  OBVIOUS
<1> DEFINE m == Top.refs[1]
<1>1. /\ frames # <<>> /\ Top.at = "then"
      /\ fn' = SetCurrent(FallThrough(fn, m).fn, m)
      /\ frames' = Tail(frames) /\ UNCHANGED <<program, status>>
  BY DEF EndThenWithoutElse, At, Return
<1>2. FrameOK(Top, Len(fn.blocks))
  BY <1>1, TopFacts
<1>3. m \in 2 .. Len(fn.blocks) /\ Owned(Top) = {m} /\ Pending(Top) = {} /\ Top.at \notin ExpLabels
  BY <1>1, <1>2 DEF FrameOK, Owned, Pending, ExpLabels
<1>4. Fills({}, {})
  BY <1>1, <1>3, FallThroughFills
<1>5. QED
  BY <1>1, <1>3, <1>4, ReplacesNone, StackStep

LEMMA EndLoopStep == LoweringInv /\ EndLoop => LoweringInv'
<1> SUFFICES ASSUME LoweringInv, EndLoop PROVE LoweringInv'
  OBVIOUS
<1> DEFINE e == Top.refs[1]
           m == Top.refs[2]
<1>1. /\ frames # <<>> /\ Top.at = "loop"
      /\ fn' = SetCurrent(FallThrough(fn, e).fn, m)
      /\ frames' = Tail(frames) /\ UNCHANGED <<program, status>>
  BY DEF EndLoop, At, Return
<1>2. FrameOK(Top, Len(fn.blocks))
  BY <1>1, TopFacts
<1>3. /\ e \in 2 .. Len(fn.blocks) /\ m \in 2 .. Len(fn.blocks)
      /\ Owned(Top) = {m} /\ Pending(Top) = {} /\ Top.at \notin ExpLabels
  BY <1>1, <1>2 DEF FrameOK, Owned, Pending, ExpLabels
<1>4. Fills({}, {})
  BY <1>1, <1>3, FallThroughFills
<1>5. QED
  BY <1>1, <1>3, <1>4, ReplacesNone, StackStep

LEMMA EndThenStep == LoweringInv /\ EndThen => LoweringInv'
<1> SUFFICES ASSUME LoweringInv, EndThen PROVE LoweringInv'
  OBVIOUS
<1> DEFINE n == Len(fn.blocks)
           c == fn.current
           x == Top.node
           next == Top.refs[1]
           out == FallThrough(fn, NoBlock)
           f1 == out.fn
           merge == out.merge
           f2 == SetCurrent(f1, next)
           p == Len(f1.blocks)
           a == Stmt(Kids(x)[3])
           b == Frame("else", x, <<merge>>)
           own == {merge} \ {NoBlock}
<1>1. /\ frames # <<>> /\ Top.at = "then" /\ HasElse(x) /\ fn' = f2
      /\ frames' = <<a, b>> \o Tail(frames) /\ UNCHANGED <<program, status>>
  BY DEF EndThen, At, GoOn
<1>2. /\ Top \in FrameRecord /\ x \in Node /\ n \in Nat \ {0} /\ IsAst(program)
      /\ GoodFn(fn) /\ Owned(Top) \subseteq Opens(fn) \ Current /\ FrameOK(Top, n)
      /\ status \in {"lowering", "done", "rejected"} /\ c \in Nat
      /\ Current \subseteq Opens(fn) /\ Opens(fn) \subseteq 1 .. n
  BY <1>1, TopFacts DEF FrameRecord, Opens
<1>3. /\ Kind(x) = "if" /\ next \in 2 .. n /\ Owned(Top) = {next} /\ Pending(Top) = {}
      /\ Top.at \notin ExpLabels
  BY <1>1, <1>2 DEF FrameOK, Owned, Pending, ExpLabels
<1>4. next \in Opens(fn) /\ next # c /\ next \in Nat /\ next # NoBlock /\ NoBlock \notin Opens(fn)
  BY <1>2, <1>3 DEF Current, NoBlock
<1>5. /\ GoodFn(f1)
      /\ p = IF c # NoBlock THEN n + 1 ELSE n
      /\ merge = IF c # NoBlock THEN n + 1 ELSE NoBlock
      /\ Opens(f1) = (Opens(fn) \ {c}) \cup (n + 1 .. p)
      /\ c # NoBlock => merge \in Succs(f1, c)
      /\ \A d \in 1 .. n : Succs(fn, d) \subseteq Succs(f1, d)
  BY <1>2, FallThroughFacts
<1> HIDE DEF out
<1>6. /\ own = n + 1 .. p /\ n <= p /\ p \in Nat /\ merge \in {NoBlock} \cup 2 .. p
      /\ next \in 2 .. p
  BY <1>2, <1>3, <1>5 DEF NoBlock
<1>7. /\ GoodFn(f2) /\ Len(f2.blocks) = p /\ f2.current = next
      /\ Opens(f2) = (Opens(fn) \ {c}) \cup (n + 1 .. p)
      /\ \A d : Succs(f2, d) = Succs(f1, d)
  <2>1. f1 \in AnyFn /\ next \in Opens(f1)
    BY <1>4, <1>5 DEF GoodFn
  <2>2. QED
    BY <1>4, <1>5, <2>1, SetCurrentFacts
<1> HIDE DEF f2, f1, merge, p
<1>8. Fills(own, {})
  <2>1. Mine = {next} \cup Current /\ Current' = {next}
    BY <1>1, <1>3, <1>4, <1>7 DEF Mine, Current
  <2>2. Opens(fn') = (Opens(fn) \ Mine) \cup own \cup Current'
    BY <1>1, <1>4, <1>6, <1>7, <2>1 DEF Current
  <2>3. own \cap Current' = {} /\ own \cup Current' \subseteq Mine \cup (n + 1 .. p)
    BY <1>2, <1>3, <1>6, <2>1
  <2>4. \A R : Closed(fn', R) /\ Current \subseteq R => own \subseteq R
    BY <1>1, <1>5, <1>7 DEF Closed, Current
  <2>5. Len(fn'.blocks) = p
    BY <1>1, <1>7
  <2> HIDE DEF own
  <2>6. \A R : Closed(fn', R) /\ Current \subseteq R => Pending(Top) \cup (n + 1 .. p) \subseteq R
    BY <1>3, <1>6, <2>4
  <2>7. \A d \in 1 .. n : Succs(fn, d) \subseteq Succs(fn', d)
    BY <1>1, <1>5, <1>7
  <2>8. QED
    BY <1>1, <1>2, <1>6, <1>7, <2>2, <2>3, <2>5, <2>6, <2>7 DEF Fills
<1>9. FrameOK(a, p) /\ a \in FrameRecord /\ Owned(a) = {} /\ a.at = "stmt"
  <2>1. Kids(x)[3] \in Node /\ Kind(Kids(x)[3]) \in StmtKinds
    BY <1>1, <1>2, <1>3, BranchingKids
  <2>2. QED
    BY <1>6, <2>1, BareFrames DEF Stmt, Frame
<1>10. FrameOK(b, p) /\ b \in FrameRecord /\ Owned(b) = own /\ Pending(b) = {} /\ b.at = "else"
  BY <1>2, <1>3, <1>6, ElseFrame
<1> HIDE DEF a, b, own
<1>11. /\ Sits(a.at, b.at) /\ b.at \notin ExpLabels
       /\ FrameOK(a, Len(fn'.blocks)) /\ FrameOK(b, Len(fn'.blocks)) /\ fn'.current # NoBlock
  BY <1>1, <1>4, <1>7, <1>9, <1>10 DEF Sits, ExpLabels, InStatement
<1>12. Replaces(<<a, b>>, own, {})
  BY <1>1, <1>3, <1>9, <1>10, <1>11, ReplacesTwo
<1>13. QED
  BY <1>8, <1>12, StackStep

LEMMA EndElseStep == LoweringInv /\ EndElse => LoweringInv'
<1> SUFFICES ASSUME LoweringInv, EndElse PROVE LoweringInv'
  OBVIOUS
<1> DEFINE n == Len(fn.blocks)
           c == fn.current
           m == Top.refs[1]
           out == FallThrough(fn, m)
           f1 == out.fn
           merge == out.merge
           f2 == SetCurrent(f1, merge)
           p == Len(f1.blocks)
<1>1. /\ frames # <<>> /\ Top.at = "else" /\ fn' = f2
      /\ frames' = Tail(frames) /\ UNCHANGED <<program, status>>
  BY DEF EndElse, At, Return
<1>2. /\ Top \in FrameRecord /\ n \in Nat \ {0} /\ IsAst(program)
      /\ GoodFn(fn) /\ Owned(Top) \subseteq Opens(fn) \ Current /\ FrameOK(Top, n)
      /\ status \in {"lowering", "done", "rejected"} /\ c \in Nat
      /\ Current \subseteq Opens(fn) /\ Opens(fn) \subseteq 1 .. n
      /\ n + 1 .. n = {} /\ n + 1 .. n + 1 = {n + 1}
  BY <1>1, TopFacts DEF Opens
<1>3. /\ m \in {NoBlock} \cup 2 .. n /\ Owned(Top) = {m} \ {NoBlock} /\ Pending(Top) = {}
      /\ Top.at \notin ExpLabels
  BY <1>1, <1>2 DEF FrameOK, Owned, Pending, ExpLabels
<1>4. /\ NoBlock \notin Opens(fn) /\ (m # NoBlock => m \in Opens(fn) /\ m # c)
      /\ (c # NoBlock => c \in Opens(fn))
  BY <1>2, <1>3 DEF Current, NoBlock
<1>5. /\ GoodFn(f1)
      /\ p = IF c # NoBlock /\ m = NoBlock THEN n + 1 ELSE n
      /\ merge = IF c # NoBlock /\ m = NoBlock THEN n + 1 ELSE m
      /\ Opens(f1) = (Opens(fn) \ {c}) \cup (n + 1 .. p)
      /\ c # NoBlock => merge \in Succs(f1, c)
      /\ \A d \in 1 .. n : Succs(fn, d) \subseteq Succs(f1, d)
  BY <1>2, <1>3, FallThroughFacts
<1> HIDE DEF out
<1>6. merge \in Nat /\ (merge # NoBlock => merge \in Opens(f1)) /\ n <= p
  BY <1>2, <1>3, <1>4, <1>5 DEF NoBlock
<1>7. /\ GoodFn(f2) /\ Len(f2.blocks) = p /\ f2.current = merge
      /\ Opens(f2) = (Opens(fn) \ {c}) \cup (n + 1 .. p)
      /\ \A d : Succs(f2, d) = Succs(f1, d)
  <2>1. f1 \in AnyFn
    BY <1>5 DEF GoodFn
  <2>2. QED
    BY <1>5, <1>6, <2>1, SetCurrentFacts
<1> HIDE DEF f2, f1, merge, p
<1>8. Fills({}, {})
  <2>1. Mine = ({m} \cup {c}) \ {NoBlock} /\ Current' = {merge} \ {NoBlock}
    BY <1>1, <1>3, <1>7 DEF Mine, Current
  <2>2. /\ Opens(fn') = (Opens(fn) \ Mine) \cup {} \cup Current'
        /\ Current' \subseteq Mine \cup (n + 1 .. p)
        /\ n + 1 .. p \subseteq Current'
    <3>1. CASE c # NoBlock /\ m = NoBlock
      <4>1. p = n + 1 /\ merge = n + 1 /\ n + 1 # NoBlock
        BY <1>2, <1>5, <3>1 DEF NoBlock
      <4>2. Mine = {c} /\ Current' = {n + 1}
        BY <2>1, <3>1, <4>1
      <4>3. QED
        BY <1>1, <1>2, <1>7, <4>1, <4>2
    <3>2. CASE c = NoBlock \/ m # NoBlock
      <4>1. p = n /\ merge = m
        BY <1>5, <3>2
      <4>2. Opens(fn') = Opens(fn) \ {c}
        BY <1>1, <1>2, <1>7, <4>1
      <4>3. Current' = {m} \ {NoBlock}
        BY <2>1, <4>1
      <4>4. Opens(fn) \ {c} = (Opens(fn) \ Mine) \cup Current'
        BY <1>4, <2>1, <4>3
      <4>5. QED
        BY <1>2, <2>1, <4>1, <4>2, <4>3, <4>4
    <3>3. QED
      BY <3>1, <3>2
  <2>3. \A R : Closed(fn', R) /\ Current \subseteq R => n + 1 .. p \subseteq R
    <3>1. CASE c # NoBlock /\ m = NoBlock
      BY <1>1, <1>2, <1>5, <1>7, <3>1 DEF Closed, Current
    <3>2. CASE c = NoBlock \/ m # NoBlock
      BY <1>2, <1>5, <3>2
    <3>3. QED
      BY <3>1, <3>2
  <2>4. Len(fn'.blocks) = p
    BY <1>1, <1>7
  <2>5. \A d \in 1 .. n : Succs(fn, d) \subseteq Succs(fn', d)
    BY <1>1, <1>5, <1>7
  <2>6. \A R : Closed(fn', R) /\ Current \subseteq R => Pending(Top) \cup (n + 1 .. p) \subseteq R
    BY <1>3, <2>3
  <2>7. QED
    BY <1>1, <1>2, <1>6, <1>7, <2>2, <2>4, <2>5, <2>6 DEF Fills
<1>9. QED
  BY <1>1, <1>3, <1>8, ReplacesNone, StackStep

LEMMA BranchIfStep == LoweringInv /\ BranchIf => LoweringInv'
<1> SUFFICES ASSUME LoweringInv, BranchIf PROVE LoweringInv'
  OBVIOUS
<1> DEFINE n == Len(fn.blocks)
           c == fn.current
           x == Top.node
           y == Kids(x)[1]
           f1 == CreateBlock(fn)
           f2 == CreateBlock(f1)
           branch == Br(y, n + 1, n + 2)
           f3 == Terminate(f2, branch)
           f4 == SetCurrent(f3, n + 1)
           a == Stmt(Kids(x)[2])
           b == Frame("then", x, <<n + 2>>)
<1>1. frames # <<>> /\ Top.at = "branch" /\ c # NoBlock /\ UNCHANGED <<program, status>>
  BY DEF BranchIf, At
<1>2. /\ Top \in FrameRecord /\ x \in Node /\ n \in Nat \ {0} /\ IsAst(program)
      /\ GoodFn(fn) /\ FrameOK(Top, n) /\ Opens(fn) \subseteq 1 .. n
      /\ status \in {"lowering", "done", "rejected"} /\ c \in Opens(fn)
  BY <1>1, TopFacts DEF FrameRecord, GoodFn, Opens
<1>3. Kind(x) = "if" /\ Owned(Top) = {} /\ Pending(Top) = {} /\ Top.at \notin ExpLabels
  BY <1>1, <1>2 DEF FrameOK, Owned, Pending, ExpLabels
<1>4. y \in Node /\ Kids(x)[2] \in Node /\ Kind(Kids(x)[2]) \in StmtKinds
  BY <1>2, <1>3, BranchingKids
<1>5. /\ GoodFn(f1) /\ Len(f1.blocks) = n + 1 /\ f1.current = c
      /\ Opens(f1) = Opens(fn) \cup {n + 1}
      /\ \A d \in 1 .. n : Succs(f1, d) = Succs(fn, d)
  BY <1>2, CreateBlockFacts
<1>6. /\ GoodFn(f2) /\ Len(f2.blocks) = n + 2 /\ f2.current = c
      /\ Opens(f2) = Opens(fn) \cup {n + 1} \cup {n + 2}
      /\ \A d \in 1 .. n + 1 : Succs(f2, d) = Succs(f1, d)
  <2> HIDE DEF f1
  <2>1. n + 1 + 1 = n + 2
    BY <1>2
  <2>2. QED
    BY <1>5, <2>1, CreateBlockFacts
<1>7. fn' = f4 /\ frames' = <<a, b>> \o Tail(frames)
  <2>1. Newest(f1) = n + 1 /\ Newest(f2) = n + 2
    BY <1>5, <1>6 DEF Newest
  <2>2. fn' = SetCurrent(Terminate(f2, Br(y, Newest(f1), Newest(f2))), Newest(f1))
    BY DEF BranchIf
  <2>3. frames' = <<a, Frame("then", x, <<Newest(f2)>>)>> \o Tail(frames)
    BY DEF BranchIf, GoOn
  <2> HIDE DEF f2, f1, y
  <2>4. QED
    BY <2>1, <2>2, <2>3
<1> HIDE DEF f2, f1, y
<1>8. /\ GoodFn(f3) /\ Len(f3.blocks) = n + 2
      /\ Opens(f3) = (Opens(fn) \cup {n + 1} \cup {n + 2}) \ {c}
      /\ Succs(f3, c) = Succs(f2, c) \cup {n + 1, n + 2}
      /\ \A d \in 1 .. n + 2 : Succs(f2, d) \subseteq Succs(f3, d)
  <2>1. n + 1 \in Nat /\ n + 2 \in Nat /\ {n + 1, n + 2} \subseteq 2 .. n + 2
    BY <1>2
  <2>2. branch \in AnyInstruction /\ branch.op \in Terminators /\ ToSet(branch.to) = {n + 1, n + 2}
    <3>1. y \in Node /\ n + 1 \in Nat /\ n + 2 \in Nat
      BY <1>4, <2>1
    <3>2. QED
      BY <3>1, BrFacts, Zenon
  <2> HIDE DEF branch
  <2>3. QED
    BY <1>1, <1>6, <2>1, <2>2, TerminateFacts
<1> HIDE DEF f3
<1>9. n + 1 \in Nat /\ n + 1 # NoBlock /\ n + 1 # n + 2 /\ n + 1 # c /\ n + 2 # c /\ c \in 1 .. n
  BY <1>2 DEF NoBlock
<1>10. /\ GoodFn(f4) /\ Len(f4.blocks) = n + 2 /\ f4.current = n + 1
       /\ Opens(f4) = (Opens(fn) \cup {n + 1} \cup {n + 2}) \ {c}
       /\ \A d : Succs(f4, d) = Succs(f3, d)
  <2>1. f3 \in AnyFn /\ n + 1 \in Opens(f3)
    BY <1>8, <1>9 DEF GoodFn
  <2>2. QED
    BY <1>8, <1>9, <2>1, SetCurrentFacts
<1> HIDE DEF f4
<1>11. \A d \in 1 .. n : Succs(fn, d) \subseteq Succs(f4, d)
  <2>1. \A d \in 1 .. n : d \in 1 .. n + 1 /\ d \in 1 .. n + 2
    BY <1>2
  <2>2. QED
    BY <1>5, <1>6, <1>8, <1>10, <2>1
<1>12. Fills({n + 2}, {})
  <2>1. Mine = {c} /\ Current' = {n + 1} /\ Current = {c}
    BY <1>1, <1>3, <1>7, <1>9, <1>10 DEF Mine, Current
  <2>2. /\ Len(fn'.blocks) = n + 2 /\ n + 1 .. n + 2 = {n + 1, n + 2} /\ n <= n + 2
    <3>1. \A m \in Nat : m + 1 .. m + 2 = {m + 1, m + 2} /\ m <= m + 2
      OBVIOUS
    <3>2. n \in Nat /\ Len(fn'.blocks) = n + 2
      BY <1>2, <1>7, <1>10
    <3>3. QED
      BY <3>1, <3>2
  <2>3. Opens(fn') = (Opens(fn) \ Mine) \cup {n + 2} \cup Current'
    BY <1>7, <1>9, <1>10, <2>1
  <2>4. {n + 2} \cap Current' = {} /\ {n + 2} \cup Current' \subseteq n + 1 .. n + 2
    BY <1>9, <2>1, <2>2
  <2>5. \A R : Closed(fn', R) /\ Current \subseteq R => {n + 1, n + 2} \subseteq R
    BY <1>7, <1>8, <1>10, <2>1 DEF Closed
  <2>6. /\ UNCHANGED program /\ status' \in {"lowering", "done", "rejected"} /\ GoodFn(fn')
        /\ n <= Len(fn'.blocks) /\ {n + 2} \cap Current' = {}
        /\ {n + 2} \cup Current' \subseteq Mine \cup (n + 1 .. Len(fn'.blocks))
        /\ \A d \in 1 .. n : Succs(fn, d) \subseteq Succs(fn', d)
    BY <1>1, <1>2, <1>7, <1>10, <1>11, <2>2, <2>4
  <2>7. \A R \in SUBSET (1 .. Len(fn'.blocks)) :
          Closed(fn', R) /\ Current \subseteq R =>
            Pending(Top) \cup (n + 1 .. Len(fn'.blocks)) \subseteq R \cup {}
    BY <1>3, <2>2, <2>5
  <2>8. QED
    BY <2>3, <2>6, <2>7 DEF Fills
<1>13. n + 2 \in Nat /\ n + 2 \in 2 .. n + 2
  BY <1>2
<1>14. FrameOK(a, n + 2) /\ a \in FrameRecord /\ Owned(a) = {} /\ a.at = "stmt"
  BY <1>4, <1>13, BareFrames DEF Stmt, Frame
<1>15. FrameOK(b, n + 2) /\ b \in FrameRecord /\ Owned(b) = {n + 2} /\ Pending(b) = {} /\ b.at = "then"
  BY <1>2, <1>3, <1>13, ThenFrame
<1> HIDE DEF a, b
<1>16. /\ Sits(a.at, b.at) /\ b.at \notin ExpLabels
       /\ FrameOK(a, Len(fn'.blocks)) /\ FrameOK(b, Len(fn'.blocks)) /\ fn'.current # NoBlock
  BY <1>7, <1>9, <1>10, <1>14, <1>15 DEF Sits, ExpLabels, InStatement
<1>17. Replaces(<<a, b>>, {n + 2}, {})
  BY <1>1, <1>3, <1>7, <1>14, <1>15, <1>16, ReplacesTwo
<1>18. QED
  BY <1>12, <1>17, StackStep

LEMMA StartLoopStep == LoweringInv /\ StartLoop => LoweringInv'
<1> SUFFICES ASSUME LoweringInv, StartLoop PROVE LoweringInv'
  OBVIOUS
<1> DEFINE n == Len(fn.blocks)
           c == fn.current
           x == Top.node
           e == n + 1
           f1 == Three(fn)
           jump == Jump(e)
           f2 == Terminate(f1, jump)
           f3 == SetCurrent(f2, e)
           a == Exp(Kids(x)[1])
           b == Frame("test", x, <<n + 1, n + 2, n + 3>>)
           own == {n + 2, n + 3}
<1>1. /\ frames # <<>> /\ Top.at = "stmt" /\ Kind(x) = "while" /\ c # NoBlock
      /\ fn' = f3 /\ frames' = <<a, b>> \o Tail(frames) /\ UNCHANGED <<program, status>>
  BY DEF StartLoop, AtStmt, At, GoOn, Newest, Three
<1>2. /\ Top \in FrameRecord /\ x \in Node /\ n \in Nat \ {0} /\ IsAst(program)
      /\ GoodFn(fn) /\ Opens(fn) \subseteq 1 .. n
      /\ status \in {"lowering", "done", "rejected"} /\ c \in Opens(fn)
  BY <1>1, TopFacts DEF FrameRecord, GoodFn, Opens
<1>3. Owned(Top) = {} /\ Pending(Top) = {} /\ Top.at \notin ExpLabels
  BY <1>1 DEF Owned, Pending, ExpLabels
<1>4. Kids(x)[1] \in Node /\ Kind(Kids(x)[1]) \in ExpKinds
  BY <1>1, <1>2, BranchingKids
<1>5. /\ e \in Nat /\ e # NoBlock /\ e \in 2 .. n + 3 /\ n + 3 \in Nat /\ n <= n + 3
      /\ e + 1 = n + 2 /\ e + 2 = n + 3
      /\ n + 1 .. n + 3 = {n + 1, n + 2, n + 3}
      /\ c # n + 1 /\ c # n + 2 /\ c # n + 3 /\ n + 1 # n + 2 /\ n + 1 # n + 3 /\ c \in 1 .. n
  <2>1. \A m \in Nat : m + 1 .. m + 3 = {m + 1, m + 2, m + 3}
    OBVIOUS
  <2>2. n + 1 .. n + 3 = {n + 1, n + 2, n + 3}
    BY <1>2, <2>1
  <2>3. c \in 1 .. n /\ n \in Nat \ {0}
    BY <1>2
  <2> HIDE DEF n, c
  <2>4. QED
    BY <2>2, <2>3 DEF NoBlock
<1>6. /\ GoodFn(f1) /\ Len(f1.blocks) = n + 3 /\ f1.current = c
      /\ Opens(f1) = Opens(fn) \cup n + 1 .. n + 3
      /\ \A d \in 1 .. n : Succs(f1, d) = Succs(fn, d)
  BY <1>2, ThreeFacts
<1> HIDE DEF f1
<1>7. /\ GoodFn(f2) /\ Len(f2.blocks) = n + 3
      /\ Opens(f2) = (Opens(fn) \cup n + 1 .. n + 3) \ {c}
      /\ Succs(f2, c) = Succs(f1, c) \cup {e}
      /\ \A d \in 1 .. n + 3 : Succs(f1, d) \subseteq Succs(f2, d)
  <2>1. jump \in AnyInstruction /\ jump.op \in Terminators /\ ToSet(jump.to) = {e}
    <3>1. \A d \in Nat : Jump(d) \in AnyInstruction /\ Jump(d).op \in Terminators /\ ToSet(Jump(d).to) = {d}
      BY <1>2, JumpFacts
    <3>2. QED
      BY <1>5, <3>1
  <2> HIDE DEF jump, e
  <2>2. ToSet(jump.to) \subseteq 2 .. n + 3
    BY <1>5, <2>1
  <2>3. QED
    BY <1>1, <1>6, <2>1, <2>2, TerminateFacts
<1> HIDE DEF f2
<1>8. /\ GoodFn(f3) /\ Len(f3.blocks) = n + 3 /\ f3.current = e
      /\ Opens(f3) = (Opens(fn) \cup n + 1 .. n + 3) \ {c}
      /\ \A d : Succs(f3, d) = Succs(f2, d)
  <2>1. e \in Opens(f2)
    BY <1>5, <1>7
  <2>2. f2 \in AnyFn
    BY <1>7 DEF GoodFn
  <2> HIDE DEF e
  <2>3. QED
    BY <1>5, <1>7, <2>1, <2>2, SetCurrentFacts
<1> HIDE DEF f3
<1>9. \A d \in 1 .. n : Succs(fn, d) \subseteq Succs(f3, d)
  <2>1. \A d \in 1 .. n : d \in 1 .. n + 3
    BY <1>2
  <2>2. QED
    BY <1>6, <1>7, <1>8, <2>1
<1>10. Fills(own, own)
  <2>1. Mine = {c} /\ Current' = {n + 1} /\ Current = {c}
    BY <1>1, <1>3, <1>5, <1>8 DEF Mine, Current
  <2>2. Len(fn'.blocks) = n + 3
    BY <1>1, <1>8
  <2>3. Opens(fn') = (Opens(fn) \ Mine) \cup own \cup Current'
    BY <1>1, <1>5, <1>8, <2>1
  <2>4. own \cap Current' = {} /\ own \cup Current' \subseteq n + 1 .. n + 3
    BY <1>5, <2>1
  <2>5. \A R : Closed(fn', R) /\ Current \subseteq R => n + 1 \in R
    BY <1>1, <1>7, <1>8, <2>1 DEF Closed
  <2>6. \A R : Closed(fn', R) /\ Current \subseteq R => n + 1 .. n + 3 \subseteq R \cup own
    BY <1>5, <2>5
  <2> HIDE DEF own
  <2>7. QED
    BY <1>1, <1>2, <1>3, <1>5, <1>8, <1>9, <2>2, <2>3, <2>4, <2>6 DEF Fills
<1>11. FrameOK(a, n + 3) /\ a \in FrameRecord /\ Owned(a) = {} /\ a.at = "exp"
  BY <1>4, <1>5, BareFrames DEF Exp, Frame
<1>12. FrameOK(b, n + 3) /\ b \in FrameRecord /\ Owned(b) = own /\ Pending(b) = own /\ b.at = "test"
  <2> DEFINE g == Frame("test", x, <<e, e + 1, e + 2>>)
  <2>1. b = g /\ own = {e + 1, e + 2}
    BY <1>5
  <2> HIDE DEF e
  <2>2. /\ FrameOK(g, n + 3) /\ g \in FrameRecord /\ g.at = "test"
        /\ Owned(g) = {e + 1, e + 2} /\ Pending(g) = {e + 1, e + 2}
    <3>1. e + 2 <= n + 3
      BY <1>5
    <3>2. QED
      BY <1>1, <1>2, <1>5, <3>1, TestFrame
  <2>3. QED
    BY <2>1, <2>2
<1> HIDE DEF a, b, own
<1>13. /\ Sits(a.at, b.at) /\ b.at \notin ExpLabels
       /\ FrameOK(a, Len(fn'.blocks)) /\ FrameOK(b, Len(fn'.blocks)) /\ fn'.current # NoBlock
  BY <1>1, <1>5, <1>8, <1>11, <1>12 DEF Sits, ExpLabels, InExpression
<1>14. Replaces(<<a, b>>, own, own)
  BY <1>1, <1>3, <1>11, <1>12, <1>13, ReplacesTwo
<1>15. QED
  BY <1>10, <1>14, StackStep

LEMMA TestLoopStep == LoweringInv /\ TestLoop => LoweringInv'
<1> SUFFICES ASSUME LoweringInv, TestLoop PROVE LoweringInv'
  OBVIOUS
<1> DEFINE n == Len(fn.blocks)
           c == fn.current
           x == Top.node
           e == Top.refs[1]
           r == Top.refs[2]
           q == Top.refs[3]
           branch == Br(Kids(x)[1], r, q)
           f1 == Terminate(fn, branch)
           f2 == SetCurrent(f1, r)
           a == Stmt(Kids(x)[2])
           b == Frame("loop", x, <<e, q>>)
<1>1. /\ frames # <<>> /\ Top.at = "test" /\ c # NoBlock
      /\ fn' = f2 /\ frames' = <<a, b>> \o Tail(frames) /\ UNCHANGED <<program, status>>
  BY DEF TestLoop, At, GoOn
<1>2. /\ Top \in FrameRecord /\ x \in Node /\ n \in Nat \ {0} /\ IsAst(program)
      /\ GoodFn(fn) /\ Opens(fn) \subseteq 1 .. n /\ FrameOK(Top, n)
      /\ Owned(Top) \subseteq Opens(fn) \ Current
      /\ status \in {"lowering", "done", "rejected"} /\ c \in Opens(fn)
  BY <1>1, TopFacts DEF FrameRecord, GoodFn, Opens
<1>3. /\ Kind(x) = "while" /\ e \in 2 .. n /\ r = e + 1 /\ q = e + 2 /\ q <= n
      /\ Owned(Top) = {r, q} /\ Pending(Top) = {r, q} /\ Top.at \notin ExpLabels
  BY <1>1, <1>2 DEF FrameOK, Owned, Pending, ExpLabels
<1>4. Kids(x)[1] \in Node /\ Kids(x)[2] \in Node /\ Kind(Kids(x)[2]) \in StmtKinds
  BY <1>2, <1>3, BranchingKids
<1>5. r \in 2 .. n /\ q \in 2 .. n /\ r \in Nat /\ q \in Nat /\ r # q /\ r # NoBlock
  BY <1>2, <1>3 DEF NoBlock
<1>6. Current = {c} /\ {r, q} \subseteq Opens(fn) /\ r # c /\ q # c
  BY <1>1, <1>2, <1>3 DEF Current
<1> HIDE DEF e, r, q
<1>7. /\ GoodFn(f1) /\ Len(f1.blocks) = n /\ Opens(f1) = Opens(fn) \ {c}
      /\ Succs(f1, c) = Succs(fn, c) \cup {r, q}
      /\ \A d \in 1 .. n : Succs(fn, d) \subseteq Succs(f1, d)
  <2>1. branch \in AnyInstruction /\ branch.op \in Terminators /\ ToSet(branch.to) = {r, q}
    <3> DEFINE y == Kids(x)[1]
    <3>1. y \in Node
      BY <1>4
    <3> HIDE DEF y
    <3>2. Br(y, r, q) \in AnyInstruction /\ Br(y, r, q).op \in Terminators /\ ToSet(Br(y, r, q).to) = {r, q}
      BY <1>5, <3>1, BrFacts
    <3>3. QED
      BY <3>2 DEF y
  <2> HIDE DEF branch
  <2>2. ToSet(branch.to) \subseteq 2 .. n
    BY <1>5, <2>1
  <2>3. QED
    BY <1>1, <1>2, <2>1, <2>2, TerminateFacts
<1> HIDE DEF f1
<1>8. /\ GoodFn(f2) /\ Len(f2.blocks) = n /\ Opens(f2) = Opens(fn) \ {c} /\ f2.current = r
      /\ \A d : Succs(f2, d) = Succs(f1, d)
  <2>1. f1 \in AnyFn /\ r \in Opens(f1)
    BY <1>6, <1>7 DEF GoodFn
  <2>2. QED
    BY <1>5, <1>7, <2>1, SetCurrentFacts
<1> HIDE DEF f2
<1>9. Fills({q}, {})
  <2>1. Mine = {c, r, q} /\ Current' = {r}
    BY <1>1, <1>3, <1>5, <1>6, <1>8 DEF Mine, Current
  <2>2. Len(fn'.blocks) = n /\ n + 1 .. n = {} /\ n <= n
    BY <1>1, <1>2, <1>8
  <2>3. Opens(fn') = (Opens(fn) \ Mine) \cup {q} \cup Current'
    BY <1>1, <1>5, <1>6, <1>8, <2>1
  <2>4. {q} \cap Current' = {} /\ {q} \cup Current' \subseteq Mine
    BY <1>5, <2>1
  <2>5. \A R : Closed(fn', R) /\ Current \subseteq R => Pending(Top) \subseteq R
    BY <1>1, <1>3, <1>6, <1>7, <1>8 DEF Closed
  <2>6. \A d \in 1 .. n : Succs(fn, d) \subseteq Succs(fn', d)
    BY <1>1, <1>7, <1>8
  <2>7. QED
    BY <1>1, <1>2, <1>8, <2>2, <2>3, <2>4, <2>5, <2>6 DEF Fills
<1>10. FrameOK(a, n) /\ a \in FrameRecord /\ Owned(a) = {} /\ a.at = "stmt"
  BY <1>2, <1>4, BareFrames DEF Stmt, Frame
<1>11. FrameOK(b, n) /\ b \in FrameRecord /\ Owned(b) = {q} /\ Pending(b) = {} /\ b.at = "loop"
  BY <1>2, <1>3, <1>5, LoopFrame
<1> HIDE DEF a, b
<1>12. /\ Sits(a.at, b.at) /\ b.at \notin ExpLabels
       /\ FrameOK(a, Len(fn'.blocks)) /\ FrameOK(b, Len(fn'.blocks)) /\ fn'.current # NoBlock
  BY <1>1, <1>5, <1>8, <1>10, <1>11 DEF Sits, ExpLabels, InStatement
<1>13. Replaces(<<a, b>>, {q}, {})
  BY <1>1, <1>3, <1>10, <1>11, <1>12, ReplacesTwo
<1>14. QED
  BY <1>9, <1>13, StackStep

-----------------------------------------------------------------------------
(***************************************************************************)
(* Positions of frames.  Marks(s, fs, L): s lists, in order, the positions in *)
(* fs of the frames whose label is in L.                                    *)
(***************************************************************************)

Marks(s, fs, L) ==
  /\ s \in Seq(Nat)
  /\ \A i \in 1 .. Len(s) : s[i] \in 1 .. Len(fs) /\ fs[s[i]].at \in L
  /\ \A k \in 1 .. Len(fs) : fs[k].at \in L => \E i \in 1 .. Len(s) : s[i] = k
  /\ \A i, j \in 1 .. Len(s) : i < j => s[i] < s[j]

\* The innermost frame of fs is replaced by calls, all but the last of which are
\* labelled outside L.
Swaps(fs, calls, gs, L) ==
  /\ fs \in Seq(FrameRecord) /\ fs # <<>> /\ calls \in Seq(FrameRecord)
  /\ gs = calls \o Tail(fs)
  /\ \A k \in 1 .. Len(calls) - 1 : calls[k].at \notin L

LastIn(calls, L) == calls # <<>> /\ calls[Len(calls)].at \in L

LEMMA SwapFacts ==
  ASSUME NEW fs, NEW calls, NEW gs, NEW L, Swaps(fs, calls, gs, L)
  PROVE  LET l == Len(calls) IN
         /\ l \in Nat /\ Len(fs) \in Nat \ {0} /\ Len(gs) \in Nat
         /\ calls = <<>> <=> l = 0
         /\ \A k \in 1 .. l : k \in 1 .. Len(gs) /\ gs[k] = calls[k]
         /\ \A k \in 2 .. Len(fs) : l + k - 1 \in 1 .. Len(gs) /\ gs[l + k - 1] = fs[k]
         /\ \A k \in 1 .. Len(gs) : gs[k].at \in L =>
              \/ k = l /\ LastIn(calls, L)
              \/ k - l + 1 \in 2 .. Len(fs) /\ gs[k] = fs[k - l + 1]
<1> DEFINE l == Len(calls)
<1>1. fs \in Seq(FrameRecord) /\ fs # <<>> /\ calls \in Seq(FrameRecord) /\ gs = calls \o Tail(fs)
  BY DEF Swaps
<1>2. l \in Nat /\ Len(fs) \in Nat \ {0} /\ (calls = <<>> <=> l = 0)
  BY <1>1, EmptySeq, LenProperties
<1>3. /\ gs \in Seq(FrameRecord)
      /\ \A k \in 1 .. l : k \in 1 .. Len(gs) /\ gs[k] = calls[k]
      /\ \A k \in 2 .. Len(fs) : l + k - 1 \in 1 .. Len(gs) /\ gs[l + k - 1] = fs[k]
      /\ \A k \in 1 .. Len(gs) : k \in 1 .. l \/ k - l + 1 \in 2 .. Len(fs)
  BY <1>1, Replaced
<1>4. ASSUME NEW k \in 1 .. Len(gs), gs[k].at \in L
      PROVE  \/ k = l /\ LastIn(calls, L)
             \/ k - l + 1 \in 2 .. Len(fs) /\ gs[k] = fs[k - l + 1]
  <2>1. CASE k \in 1 .. l
    <3>1. gs[k] = calls[k]
      BY <1>3, <2>1
    <3>2. k \notin 1 .. l - 1
      BY <1>4, <3>1 DEF Swaps
    <3>3. k = l
      BY <1>2, <2>1, <3>2
    <3>4. QED
      BY <1>2, <1>4, <2>1, <3>1, <3>3 DEF LastIn
  <2>2. CASE k - l + 1 \in 2 .. Len(fs)
    <3>1. l + (k - l + 1) - 1 = k
      BY <1>2
    <3>2. gs[k] = fs[k - l + 1]
      BY <1>3, <2>2, <3>1
    <3>3. QED
      BY <2>2, <3>2
  <2>3. QED
    BY <1>3, <2>1, <2>2
<1>5. Len(gs) \in Nat
  BY <1>3
<1>6. QED
  BY <1>2, <1>3, <1>4, <1>5

LEMMA ShiftedOrder ==
  ASSUME NEW x \in Nat, NEW y \in Nat, NEW z \in Nat, x < y
  PROVE  x + z - 1 < y + z - 1
OBVIOUS

(* The frames of L stay the same number, the innermost one moving from the   *)
(* frame that is replaced to the last of those that replace it.              *)
LEMMA MarksKept ==
  ASSUME NEW fs, NEW calls, NEW gs, NEW L, NEW s, Marks(s, fs, L), Swaps(fs, calls, gs, L),
         fs[1].at \in L <=> LastIn(calls, L)
  PROVE  \E t : /\ Marks(t, gs, L) /\ Len(t) = Len(s)
                /\ \A i \in 1 .. Len(s) : IF s[i] = 1 THEN gs[t[i]] = calls[Len(calls)]
                                          ELSE gs[t[i]] = fs[s[i]]
<1> DEFINE l == Len(calls)
           t == [i \in 1 .. Len(s) |-> s[i] + l - 1]
<1>1. /\ l \in Nat /\ Len(fs) \in Nat \ {0} /\ Len(gs) \in Nat
      /\ calls = <<>> <=> l = 0
      /\ \A k \in 1 .. l : k \in 1 .. Len(gs) /\ gs[k] = calls[k]
      /\ \A k \in 2 .. Len(fs) : l + k - 1 \in 1 .. Len(gs) /\ gs[l + k - 1] = fs[k]
      /\ \A k \in 1 .. Len(gs) : gs[k].at \in L =>
           \/ k = l /\ LastIn(calls, L)
           \/ k - l + 1 \in 2 .. Len(fs) /\ gs[k] = fs[k - l + 1]
  BY SwapFacts
<1>2. /\ s \in Seq(Nat) /\ Len(s) \in Nat
      /\ \A i \in 1 .. Len(s) : s[i] \in 1 .. Len(fs) /\ fs[s[i]].at \in L
  BY DEF Marks
<1>3. ASSUME NEW i \in 1 .. Len(s)
      PROVE  /\ t[i] = s[i] + l - 1 /\ t[i] \in 1 .. Len(gs) /\ gs[t[i]].at \in L
             /\ IF s[i] = 1 THEN gs[t[i]] = calls[l] ELSE gs[t[i]] = fs[s[i]]
  <2>1. t[i] = s[i] + l - 1 /\ s[i] \in 1 .. Len(fs) /\ fs[s[i]].at \in L
    BY <1>2
  <2>2. CASE s[i] = 1
    <3>1. LastIn(calls, L) /\ t[i] = l
      BY <1>1, <2>1, <2>2
    <3>2. l \in 1 .. l /\ calls[l].at \in L
      BY <1>1, <3>1 DEF LastIn
    <3>3. QED
      BY <1>1, <2>1, <2>2, <3>1, <3>2
  <2>3. CASE s[i] # 1
    <3>1. s[i] \in 2 .. Len(fs)
      BY <1>1, <2>1, <2>3
    <3>2. l + s[i] - 1 = t[i]
      BY <1>1, <2>1
    <3>3. t[i] \in 1 .. Len(gs) /\ gs[t[i]] = fs[s[i]]
      BY <1>1, <3>1, <3>2
    <3>4. QED
      BY <2>1, <2>3, <3>3
  <2>4. QED
    BY <2>2, <2>3
<1>4. t \in Seq(Nat) /\ Len(t) = Len(s)
  <2>1. \A i \in 1 .. Len(s) : t[i] \in Nat
    BY <1>1, <1>3
  <2>2. \A i \in 1 .. Len(s) : s[i] + l - 1 \in Nat
    BY <1>3, <2>1
  <2>3. QED
    BY <1>2, <2>2
<1>5. ASSUME NEW k \in 1 .. Len(gs), gs[k].at \in L
      PROVE  \E i \in 1 .. Len(s) : t[i] = k
  <2>1. CASE k = l /\ LastIn(calls, L)
    <3>1. PICK i \in 1 .. Len(s) : s[i] = 1
      <4>1. fs[1].at \in L
        BY <2>1, Zenon
      <4>2. 1 \in 1 .. Len(fs)
        BY <1>1
      <4>3. QED
        BY <4>1, <4>2 DEF Marks
    <3>2. t[i] = k
      BY <1>1, <1>3, <2>1, <3>1
    <3>3. QED
      BY <3>2
  <2>2. CASE k - l + 1 \in 2 .. Len(fs) /\ gs[k] = fs[k - l + 1]
    <3>1. k - l + 1 \in 1 .. Len(fs) /\ fs[k - l + 1].at \in L
      BY <1>1, <1>5, <2>2
    <3>2. PICK i \in 1 .. Len(s) : s[i] = k - l + 1
      BY <3>1 DEF Marks
    <3>3. t[i] = k
      BY <1>1, <1>3, <3>2
    <3>4. QED
      BY <3>3
  <2>3. QED
    BY <1>1, <1>5, <2>1, <2>2
<1>6. ASSUME NEW i \in 1 .. Len(s), NEW j \in 1 .. Len(s), i < j PROVE t[i] < t[j]
  <2>1. s[i] < s[j] /\ s[i] \in Nat /\ s[j] \in Nat
    BY <1>2, <1>6 DEF Marks
  <2>2. t[i] = s[i] + l - 1 /\ t[j] = s[j] + l - 1 /\ l \in Nat
    BY <1>1, <1>3
  <2> HIDE DEF t, l
  <2>3. QED
    BY <2>1, <2>2, ShiftedOrder
<1> HIDE DEF t
<1>7. Marks(t, gs, L)
  BY <1>3, <1>4, <1>5, <1>6 DEF Marks
<1>8. QED
  BY <1>3, <1>4, <1>7

(* A frame of L is pushed on one that is not.                               *)
LEMMA MarksAdded ==
  ASSUME NEW fs, NEW calls, NEW gs, NEW L, NEW s, Marks(s, fs, L), Swaps(fs, calls, gs, L),
         fs[1].at \notin L, LastIn(calls, L)
  PROVE  \E t : /\ Marks(t, gs, L) /\ Len(t) = Len(s) + 1 /\ gs[t[1]] = calls[Len(calls)]
                /\ \A i \in 1 .. Len(s) : gs[t[i + 1]] = fs[s[i]]
<1> DEFINE l == Len(calls)
           t == [i \in 1 .. Len(s) + 1 |-> IF i = 1 THEN l ELSE s[i - 1] + l - 1]
<1>1. /\ l \in Nat /\ Len(fs) \in Nat \ {0} /\ Len(gs) \in Nat
      /\ calls = <<>> <=> l = 0
      /\ \A k \in 1 .. l : k \in 1 .. Len(gs) /\ gs[k] = calls[k]
      /\ \A k \in 2 .. Len(fs) : l + k - 1 \in 1 .. Len(gs) /\ gs[l + k - 1] = fs[k]
      /\ \A k \in 1 .. Len(gs) : gs[k].at \in L =>
           \/ k = l /\ LastIn(calls, L)
           \/ k - l + 1 \in 2 .. Len(fs) /\ gs[k] = fs[k - l + 1]
  BY SwapFacts
<1>2. /\ s \in Seq(Nat) /\ Len(s) \in Nat
      /\ \A i \in 1 .. Len(s) : s[i] \in 1 .. Len(fs) /\ fs[s[i]].at \in L
  BY DEF Marks
<1>3. l \in 1 .. l /\ calls[l].at \in L
  BY <1>1 DEF LastIn
<1>4. ASSUME NEW i \in 1 .. Len(s)
      PROVE  /\ s[i] \in 2 .. Len(fs) /\ t[i + 1] = s[i] + l - 1 /\ t[i + 1] \in 1 .. Len(gs)
             /\ gs[t[i + 1]] = fs[s[i]] /\ fs[s[i]].at \in L
  <2>1. s[i] \in 2 .. Len(fs) /\ fs[s[i]].at \in L
    <3>1. s[i] \in 1 .. Len(fs) /\ fs[s[i]].at \in L
      BY <1>2
    <3>2. s[i] # 1
      BY <3>1
    <3>3. QED
      BY <1>1, <3>1, <3>2
  <2>2. t[i + 1] = s[i] + l - 1
    <3>1. i + 1 \in 1 .. Len(s) + 1 /\ i + 1 # 1 /\ (i + 1) - 1 = i
      BY <1>2
    <3>2. QED
      BY <3>1
  <2>3. l + s[i] - 1 = s[i] + l - 1
    BY <1>1, <2>1
  <2>4. l + s[i] - 1 \in 1 .. Len(gs) /\ gs[l + s[i] - 1] = fs[s[i]]
    BY <1>1, <2>1
  <2> HIDE DEF t
  <2>5. t[i + 1] \in 1 .. Len(gs) /\ gs[t[i + 1]] = fs[s[i]]
    BY <2>2, <2>3, <2>4
  <2>6. QED
    BY <2>1, <2>2, <2>5
<1>5. t[1] = l /\ t[1] \in 1 .. Len(gs) /\ gs[t[1]] = calls[l] /\ 1 \in 1 .. Len(s) + 1
  <2>1. 1 \in 1 .. Len(s) + 1
    BY <1>2
  <2>2. t[1] = l
    BY <2>1
  <2>3. QED
    BY <1>1, <1>3, <2>1, <2>2
<1>6. \A i \in 1 .. Len(s) + 1 : i = 1 \/ (i - 1 \in 1 .. Len(s) /\ (i - 1) + 1 = i)
  BY <1>2
<1>7. \A i \in 1 .. Len(s) + 1 : t[i] \in 1 .. Len(gs) /\ gs[t[i]].at \in L
  <2> HIDE DEF t
  <2> SUFFICES ASSUME NEW i \in 1 .. Len(s) + 1 PROVE t[i] \in 1 .. Len(gs) /\ gs[t[i]].at \in L
    OBVIOUS
  <2>1. CASE i = 1
    BY <1>3, <1>5, <2>1
  <2>2. CASE i - 1 \in 1 .. Len(s) /\ (i - 1) + 1 = i
    BY <1>4, <2>2
  <2>3. QED
    BY <1>6, <2>1, <2>2
<1>8. t \in Seq(Nat) /\ Len(t) = Len(s) + 1
  <2> DEFINE u == Len(s) + 1
  <2>1. \A i \in 1 .. u : (IF i = 1 THEN l ELSE s[i - 1] + l - 1) \in Nat
    <3>1. \A i \in 1 .. u : t[i] \in Nat
      BY <1>1, <1>7
    <3>2. \A i \in 1 .. u : t[i] = IF i = 1 THEN l ELSE s[i - 1] + l - 1
      OBVIOUS
    <3>3. QED
      BY <3>1, <3>2
  <2>2. u \in Nat
    BY <1>2
  <2> HIDE DEF u
  <2>3. [i \in 1 .. u |-> IF i = 1 THEN l ELSE s[i - 1] + l - 1] \in Seq(Nat)
    BY <2>1, <2>2
  <2>4. Len([i \in 1 .. u |-> IF i = 1 THEN l ELSE s[i - 1] + l - 1]) = u
    BY <2>2
  <2>5. QED
    BY <2>3, <2>4 DEF u
<1> HIDE DEF t
<1>9. ASSUME NEW k \in 1 .. Len(gs), gs[k].at \in L
      PROVE  \E i \in 1 .. Len(s) + 1 : t[i] = k
  <2>1. CASE k = l /\ LastIn(calls, L)
    BY <1>5, <2>1
  <2>2. CASE k - l + 1 \in 2 .. Len(fs) /\ gs[k] = fs[k - l + 1]
    <3>1. k - l + 1 \in 1 .. Len(fs) /\ fs[k - l + 1].at \in L
      BY <1>1, <1>9, <2>2
    <3>2. PICK i \in 1 .. Len(s) : s[i] = k - l + 1
      BY <3>1 DEF Marks
    <3>3. t[i + 1] = s[i] + l - 1 /\ i + 1 \in 1 .. Len(s) + 1
      BY <1>2, <1>4
    <3>4. t[i + 1] = k
      BY <1>1, <3>2, <3>3
    <3>5. QED
      BY <3>3, <3>4
  <2>3. QED
    BY <1>1, <1>9, <2>1, <2>2
<1>10. ASSUME NEW i \in 1 .. Len(s) + 1, NEW j \in 1 .. Len(s) + 1, i < j PROVE t[i] < t[j]
  <2>1. j - 1 \in 1 .. Len(s) /\ (j - 1) + 1 = j
    BY <1>2, <1>10
  <2>2. s[j - 1] \in 2 .. Len(fs) /\ t[j] = s[j - 1] + l - 1
    <3> DEFINE m == j - 1
    <3>1. m \in 1 .. Len(s) /\ j = m + 1
      BY <2>1
    <3> HIDE DEF m
    <3>2. s[m] \in 2 .. Len(fs) /\ t[m + 1] = s[m] + l - 1
      BY <1>4, <3>1
    <3>3. QED
      BY <3>1, <3>2 DEF m
  <2>3. CASE i = 1
    BY <1>1, <1>5, <2>2, <2>3
  <2>4. CASE i # 1
    <3> DEFINE m == i - 1
    <3>1. m \in 1 .. Len(s) /\ i = m + 1 /\ m < j - 1
      BY <1>2, <1>10, <2>4
    <3>2. s[m] < s[j - 1] /\ s[m] \in Nat
      BY <1>2, <2>1, <3>1 DEF Marks
    <3> HIDE DEF m
    <3>3. t[m + 1] = s[m] + l - 1
      BY <1>4, <3>1
    <3>4. t[i] = s[m] + l - 1
      BY <3>1, <3>3
    <3>5. QED
      <4>1. l \in Nat /\ s[j - 1] \in Nat
        BY <1>1, <2>2
      <4>2. QED
        BY <2>2, <3>2, <3>4, <4>1, ShiftedOrder
  <2>5. QED
    BY <2>3, <2>4
<1>11. Marks(t, gs, L)
  BY <1>7, <1>8, <1>9, <1>10 DEF Marks
<1>12. QED
  BY <1>4, <1>5, <1>8, <1>11

(* A frame of L returns.                                                    *)
LEMMA MarksRemoved ==
  ASSUME NEW fs, NEW calls, NEW gs, NEW L, NEW s, Marks(s, fs, L), Swaps(fs, calls, gs, L),
         fs[1].at \in L, ~LastIn(calls, L)
  PROVE  /\ Len(s) > 0 /\ s[1] = 1
         /\ \E t : /\ Marks(t, gs, L) /\ Len(t) = Len(s) - 1
                   /\ \A i \in 1 .. Len(t) : i + 1 \in 1 .. Len(s) /\ gs[t[i]] = fs[s[i + 1]]
<1> DEFINE l == Len(calls)
           u == Len(s) - 1
           t == [i \in 1 .. u |-> s[i + 1] + l - 1]
<1>1. /\ l \in Nat /\ Len(fs) \in Nat \ {0} /\ Len(gs) \in Nat
      /\ \A k \in 2 .. Len(fs) : l + k - 1 \in 1 .. Len(gs) /\ gs[l + k - 1] = fs[k]
      /\ \A k \in 1 .. Len(gs) : gs[k].at \in L =>
           \/ k = l /\ LastIn(calls, L)
           \/ k - l + 1 \in 2 .. Len(fs) /\ gs[k] = fs[k - l + 1]
  BY SwapFacts
<1>2. /\ s \in Seq(Nat) /\ Len(s) \in Nat
      /\ \A i \in 1 .. Len(s) : s[i] \in 1 .. Len(fs) /\ fs[s[i]].at \in L
      /\ \A i, j \in 1 .. Len(s) : i < j => s[i] < s[j]
  BY DEF Marks
<1>3. Len(s) > 0 /\ s[1] = 1 /\ u \in Nat /\ 1 \in 1 .. Len(s)
  <2>1. PICK i \in 1 .. Len(s) : s[i] = 1
    <3>1. 1 \in 1 .. Len(fs)
      BY <1>1
    <3>2. QED
      BY <3>1 DEF Marks
  <2>2. 1 \in 1 .. Len(s) /\ Len(s) > 0 /\ u \in Nat
    BY <1>2, <2>1
  <2>3. ~(1 < i)
    <3>1. 1 < i => s[1] < s[i]
      BY <1>2, <2>1, <2>2
    <3>2. s[1] \in 1 .. Len(fs)
      BY <1>2, <2>2
    <3>3. QED
      BY <1>1, <2>1, <3>1, <3>2
  <2>4. i = 1
    BY <1>2, <2>3
  <2>5. QED
    BY <2>1, <2>2, <2>4
<1>4. ASSUME NEW i \in 1 .. u
      PROVE  /\ i + 1 \in 1 .. Len(s) /\ s[i + 1] \in 2 .. Len(fs) /\ fs[s[i + 1]].at \in L
             /\ t[i] = s[i + 1] + l - 1 /\ t[i] \in 1 .. Len(gs) /\ gs[t[i]] = fs[s[i + 1]]
  <2>1. i + 1 \in 1 .. Len(s) /\ 1 < i + 1
    BY <1>2
  <2>2. s[1] < s[i + 1] /\ s[i + 1] \in 1 .. Len(fs) /\ fs[s[i + 1]].at \in L
    BY <1>2, <1>3, <2>1
  <2>3. s[i + 1] \in 2 .. Len(fs)
    BY <1>1, <1>3, <2>2
  <2>4. t[i] = s[i + 1] + l - 1 /\ l + s[i + 1] - 1 = s[i + 1] + l - 1
    BY <1>1, <2>3
  <2> HIDE DEF t
  <2>5. QED
    BY <1>1, <2>1, <2>2, <2>3, <2>4
<1>5. t \in Seq(Nat) /\ Len(t) = u
  <2>1. \A i \in 1 .. u : s[i + 1] + l - 1 \in Nat
    <3>1. \A i \in 1 .. u : t[i] \in Nat /\ t[i] = s[i + 1] + l - 1
      BY <1>1, <1>4
    <3>2. QED
      BY <3>1
  <2>2. u \in Nat
    BY <1>3
  <2> HIDE DEF u
  <2>3. QED
    BY <2>1, <2>2
<1> HIDE DEF t
<1>6. ASSUME NEW k \in 1 .. Len(gs), gs[k].at \in L
      PROVE  \E i \in 1 .. u : t[i] = k
  <2>1. k - l + 1 \in 2 .. Len(fs) /\ gs[k] = fs[k - l + 1]
    BY <1>1, <1>6
  <2>2. k - l + 1 \in 1 .. Len(fs) /\ fs[k - l + 1].at \in L
    BY <1>1, <1>6, <2>1
  <2>3. PICK i \in 1 .. Len(s) : s[i] = k - l + 1
    BY <2>2 DEF Marks
  <2>4. i # 1
    BY <1>1, <1>3, <2>1, <2>3
  <2>5. i - 1 \in 1 .. u /\ (i - 1) + 1 = i
    BY <1>2, <2>4
  <2> DEFINE m == i - 1
  <2>6. m \in 1 .. u /\ i = m + 1
    BY <2>5
  <2> HIDE DEF m
  <2>7. t[m] = s[m + 1] + l - 1
    BY <1>4, <2>6
  <2>8. t[m] = k
    BY <1>1, <2>3, <2>6, <2>7
  <2>9. QED
    BY <2>6, <2>8
<1>7. ASSUME NEW i \in 1 .. u, NEW j \in 1 .. u, i < j PROVE t[i] < t[j]
  <2>1. /\ i + 1 \in 1 .. Len(s) /\ t[i] = s[i + 1] + l - 1
        /\ j + 1 \in 1 .. Len(s) /\ t[j] = s[j + 1] + l - 1
    BY <1>4
  <2>2. i + 1 < j + 1
    BY <1>3, <1>7
  <2>3. s[i + 1] < s[j + 1] /\ s[i + 1] \in Nat /\ s[j + 1] \in Nat
    <3>1. s \in Seq(Nat)
      BY <1>2
    <3>2. \A m \in 1 .. Len(s) : s[m] \in Nat
      BY <3>1
    <3>3. QED
      BY <1>2, <2>1, <2>2, <3>2, Zenon
  <2>4. l \in Nat
    BY <1>1
  <2>5. QED
    BY <2>1, <2>3, <2>4, ShiftedOrder
<1>8. Marks(t, gs, L)
  BY <1>4, <1>5, <1>6, <1>7 DEF Marks
<1>9. QED
  BY <1>3, <1>4, <1>5, <1>8

(* Counting: a list of the positions has as many elements as there are, and  *)
(* the i-th is preceded by i - 1 others.                                    *)
Labelled(fs, L) == {k \in 1 .. Len(fs) : fs[k].at \in L}
UpTo(P, x) == {m \in P : m <= x}

LEMMA MarksCounted ==
  ASSUME NEW fs, Len(fs) \in Nat, NEW L, NEW s, Marks(s, fs, L),
         NEW P, P = Labelled(fs, L)
  PROVE  /\ Cardinality(P) = Len(s)
         /\ \A k \in P : \E i \in 1 .. Len(s) : s[i] = k
         /\ \A i \in 1 .. Len(s) : s[i] \in P /\ Cardinality(UpTo(P, s[i])) = i
<1> DEFINE Upto(i) == UpTo(P, s[i])
<1> USE DEF UpTo
<1>1. /\ s \in Seq(Nat) /\ Len(s) \in Nat
      /\ \A i \in 1 .. Len(s) : s[i] \in P /\ s[i] \in Nat
      /\ \A k \in P : \E i \in 1 .. Len(s) : s[i] = k
      /\ \A i, j \in 1 .. Len(s) : i < j => s[i] < s[j]
  BY DEF Marks, Labelled
<1>2. \A i, j \in 1 .. Len(s) : s[i] <= s[j] => i <= j
  <2> SUFFICES ASSUME NEW i \in 1 .. Len(s), NEW j \in 1 .. Len(s), ~(i <= j)
               PROVE  ~(s[i] <= s[j])
    OBVIOUS
  <2>1. j < i
    BY <1>1
  <2>2. s[j] < s[i] /\ s[i] \in Nat /\ s[j] \in Nat
    BY <1>1, <2>1
  <2>3. QED
    BY <2>2
<1>3. Cardinality(P) = Len(s)
  <2> DEFINE g == [i \in 1 .. Len(s) |-> s[i]]
  <2>1. g \in Bijection(1 .. Len(s), P)
    <3>1. g \in [1 .. Len(s) -> P]
      BY <1>1
    <3>2. \A i, j \in 1 .. Len(s) : g[i] = g[j] => i = j
      <4> SUFFICES ASSUME NEW i \in 1 .. Len(s), NEW j \in 1 .. Len(s), s[i] = s[j] PROVE i = j
        OBVIOUS
      <4>1. s[i] <= s[j] /\ s[j] <= s[i]
        BY <1>1
      <4>2. i <= j /\ j <= i
        BY <1>2, <4>1
      <4>3. QED
        BY <4>2
    <3>3. \A k \in P : \E i \in 1 .. Len(s) : g[i] = k
      BY <1>1
    <3> HIDE DEF g
    <3>4. QED
      BY <3>1, <3>2, <3>3 DEF Bijection, Injection, Surjection, IsInjective
  <2>2. ExistsBijection(1 .. Len(s), P)
    BY <2>1 DEF ExistsBijection
  <2>3. QED
    BY <1>1, <2>2, FS_CountingElements
<1>4. ASSUME NEW i \in 1 .. Len(s) PROVE Cardinality(Upto(i)) = i
  <2> DEFINE g == [j \in 1 .. i |-> s[j]]
  <2>1. i \in Nat /\ 1 .. i \subseteq 1 .. Len(s)
    BY <1>1
  <2>2. g \in Bijection(1 .. i, Upto(i))
    <3>1. ASSUME NEW j \in 1 .. i PROVE s[j] \in Upto(i)
      <4>1. j \in 1 .. Len(s) /\ j <= i
        BY <2>1
      <4>2. j < i \/ j = i
        BY <2>1
      <4>3. s[j] <= s[i]
        BY <1>1, <4>1, <4>2
      <4>4. QED
        BY <1>1, <4>1, <4>3
    <3>2. \A j, k \in 1 .. i : g[j] = g[k] => j = k
      <4> SUFFICES ASSUME NEW j \in 1 .. i, NEW k \in 1 .. i, s[j] = s[k] PROVE j = k
        OBVIOUS
      <4>1. j \in 1 .. Len(s) /\ k \in 1 .. Len(s)
        BY <2>1
      <4>2. s[j] <= s[k] /\ s[k] <= s[j]
        BY <1>1, <4>1
      <4>3. j <= k /\ k <= j
        BY <1>2, <4>1, <4>2
      <4>4. QED
        BY <4>3
    <3>3. ASSUME NEW k \in Upto(i) PROVE \E j \in 1 .. i : g[j] = k
      <4>1. PICK j \in 1 .. Len(s) : s[j] = k
        BY <1>1
      <4>2. j <= i
        BY <1>2, <4>1
      <4>3. j \in 1 .. i
        BY <2>1, <4>2
      <4>4. QED
        BY <4>1, <4>3
    <3>4. g \in [1 .. i -> Upto(i)]
      BY <3>1
    <3> HIDE DEF g, Upto
    <3>5. QED
      BY <3>2, <3>3, <3>4 DEF Bijection, Injection, Surjection, IsInjective
  <2>3. ExistsBijection(1 .. i, Upto(i))
    BY <2>2 DEF ExistsBijection
  <2> HIDE DEF Upto
  <2>4. QED
    BY <2>1, <2>3, FS_CountingElements
<1>5. QED
  BY <1>1, <1>3, <1>4

-----------------------------------------------------------------------------
(***************************************************************************)
(* The two stacks beside the frames.                                        *)
(***************************************************************************)

LoopLabels == {"test", "loop"}
Targets(f) == [break |-> f.refs[Len(f.refs)], continue |-> f.refs[1]]

\* loop_stack_ follows the frames of the loops, the scope depth those of blocks.
LoopInv ==
  /\ loops \in Seq([break : Nat, continue : Nat])
  /\ \E s : /\ Marks(s, frames, LoopLabels) /\ Len(loops) = Len(s)
            /\ \A i \in 1 .. Len(s) : loops[i] = Targets(frames[s[i]])

ScopeInv ==
  /\ scopes \in Nat
  /\ \E s : Marks(s, frames, {"item"}) /\ scopes = (IF status = "done" THEN 0 ELSE 1) + Len(s)

\* A step that pushes calls, all but the last of them fresh statements and expressions.
Pushes(calls) ==
  /\ frames # <<>>
  /\ calls \in Seq(FrameRecord)
  /\ frames' = calls \o Tail(frames)
  /\ \A k \in 1 .. Len(calls) - 1 : calls[k].at \in {"stmt", "exp"}

LEMMA PushesSwaps ==
  ASSUME LoweringInv, NEW calls, Pushes(calls)
  PROVE  /\ Swaps(frames, calls, frames', LoopLabels)
         /\ Swaps(frames, calls, frames', {"item"})
         /\ Top = frames[1]
<1>1. frames \in Seq(FrameRecord) /\ frames # <<>>
  BY TopFacts DEF Pushes
<1>2. Top = frames[1]
  BY <1>1 DEF Top
<1>3. QED
  BY <1>1, <1>2 DEF Pushes, Swaps, LoopLabels

LEMMA LoopsKept ==
  ASSUME LoweringInv, LoopInv, NEW calls, Pushes(calls), UNCHANGED loops,
         Top.at \notin LoopLabels, ~LastIn(calls, LoopLabels)
  PROVE  LoopInv'
<1>1. Swaps(frames, calls, frames', LoopLabels) /\ Top = frames[1]
  BY PushesSwaps
<1>2. PICK s : /\ Marks(s, frames, LoopLabels) /\ Len(loops) = Len(s)
               /\ \A i \in 1 .. Len(s) : loops[i] = Targets(frames[s[i]])
  BY DEF LoopInv
<1>3. PICK t : /\ Marks(t, frames', LoopLabels) /\ Len(t) = Len(s)
               /\ \A i \in 1 .. Len(s) : IF s[i] = 1 THEN frames'[t[i]] = calls[Len(calls)]
                                         ELSE frames'[t[i]] = frames[s[i]]
  <2>1. frames[1].at \in LoopLabels <=> LastIn(calls, LoopLabels)
    BY <1>1
  <2>2. QED
    BY <1>1, <1>2, <2>1, MarksKept
<1>4. \A i \in 1 .. Len(s) : s[i] # 1
  BY <1>1, <1>2 DEF Marks
<1>5. \A i \in 1 .. Len(t) : loops'[i] = Targets(frames'[t[i]])
  BY <1>2, <1>3, <1>4
<1>6. loops' \in Seq([break : Nat, continue : Nat]) /\ Len(loops') = Len(t)
  BY <1>2, <1>3 DEF LoopInv
<1>7. QED
  BY <1>3, <1>5, <1>6 DEF LoopInv

LEMMA ScopesKept ==
  ASSUME LoweringInv, ScopeInv, NEW calls, Pushes(calls), UNCHANGED <<scopes, status>>,
         Top.at = "item" <=> LastIn(calls, {"item"})
  PROVE  ScopeInv'
<1>1. Swaps(frames, calls, frames', {"item"}) /\ Top = frames[1]
  BY PushesSwaps
<1>2. PICK s : /\ Marks(s, frames, {"item"})
               /\ scopes = (IF status = "done" THEN 0 ELSE 1) + Len(s)
  BY DEF ScopeInv
<1>3. PICK t : Marks(t, frames', {"item"}) /\ Len(t) = Len(s)
  <2>1. frames[1].at \in {"item"} <=> LastIn(calls, {"item"})
    BY <1>1, Zenon
  <2>2. QED
    BY <1>1, <1>2, <2>1, MarksKept
<1>4. QED
  BY <1>2, <1>3 DEF ScopeInv

(* Most steps concern neither stack.                                        *)
Nesting == LoopInv /\ ScopeInv
NestingLabels == LoopLabels \cup {"item"}

LEMMA NestingKept ==
  ASSUME LoweringInv, Nesting, NEW calls, Pushes(calls), UNCHANGED <<loops, scopes, status>>,
         Top.at \notin NestingLabels, ~LastIn(calls, NestingLabels)
  PROVE  Nesting'
<1>1. Top.at \notin LoopLabels /\ ~LastIn(calls, LoopLabels)
  BY DEF NestingLabels, LastIn
<1>2. Top.at # "item" /\ ~LastIn(calls, {"item"})
  BY DEF NestingLabels, LastIn
<1>3. LoopInv'
  BY <1>1, LoopsKept DEF Nesting
<1>4. ScopeInv'
  <2>1. Top.at = "item" <=> LastIn(calls, {"item"})
    BY <1>2, Zenon
  <2>2. QED
    BY <2>1, ScopesKept DEF Nesting
<1>5. QED
  BY <1>3, <1>4 DEF Nesting

(* The shapes of a push.  What is pushed are frames, as LoweringInv' says.    *)
LEMMA PushesNone ==
  ASSUME LoweringInv, frames # <<>>, frames' = Tail(frames)
  PROVE  Pushes(<<>>) /\ \A L : ~LastIn(<<>>, L)
<1>1. Tail(frames) \in Seq(FrameRecord)
  BY TopFacts
<1>2. <<>> \in Seq(FrameRecord) /\ frames' = <<>> \o Tail(frames) /\ Len(<<>>) = 0
  BY <1>1, ConcatNothing
<1>3. QED
  BY <1>2 DEF Pushes, LastIn

LEMMA PushesOne ==
  ASSUME LoweringInv, LoweringInv', frames # <<>>, NEW a, frames' = <<a>> \o Tail(frames)
  PROVE  Pushes(<<a>>) /\ \A L : LastIn(<<a>>, L) <=> a.at \in L
<1> DEFINE S == FrameRecord \cup {a}
<1>1. Tail(frames) \in Seq(S) /\ frames' \in Seq(FrameRecord)
  <2>1. Tail(frames) \in Seq(FrameRecord)
    BY TopFacts
  <2>2. frames' \in Seq(FrameRecord)
    BY DEF LoweringInv, FrameInv
  <2>3. QED
    BY <2>1, <2>2
<1>2. a \in FrameRecord
  <2>1. <<a>> \in Seq(S) /\ Len(<<a>>) = 1 /\ <<a>>[1] = a
    OBVIOUS
  <2> HIDE DEF S
  <2>2. 1 \in 1 .. Len(frames') /\ frames'[1] = a
    BY <1>1, <2>1
  <2>3. QED
    BY <1>1, <2>2
<1>3. /\ <<a>> \in Seq(FrameRecord) /\ Len(<<a>>) = 1 /\ <<a>>[1] = a /\ <<a>> # <<>>
  BY <1>2
<1>4. Pushes(<<a>>)
  BY <1>3 DEF Pushes
<1>5. \A L : LastIn(<<a>>, L) <=> a.at \in L
  BY <1>3 DEF LastIn
<1>6. QED
  BY <1>4, <1>5

LEMMA PushesTwo ==
  ASSUME LoweringInv, LoweringInv', frames # <<>>, NEW a, NEW b,
         frames' = <<a, b>> \o Tail(frames), a.at \in {"stmt", "exp"}
  PROVE  Pushes(<<a, b>>) /\ \A L : LastIn(<<a, b>>, L) <=> b.at \in L
<1> DEFINE S == FrameRecord \cup {a, b}
           calls == <<a, b>>
<1>1. Tail(frames) \in Seq(S) /\ frames' \in Seq(FrameRecord)
  <2>1. Tail(frames) \in Seq(FrameRecord)
    BY TopFacts
  <2>2. frames' \in Seq(FrameRecord)
    BY DEF LoweringInv, FrameInv
  <2>3. QED
    BY <2>1, <2>2
<1>2. a \in FrameRecord /\ b \in FrameRecord
  <2>1. calls \in Seq(S) /\ Len(calls) = 2 /\ calls[1] = a /\ calls[2] = b
    OBVIOUS
  <2> HIDE DEF S, calls
  <2>2. 1 \in 1 .. Len(frames') /\ frames'[1] = a /\ 2 \in 1 .. Len(frames') /\ frames'[2] = b
    <3>1. frames' = calls \o Tail(frames)
      BY DEF calls
    <3>2. QED
      BY <1>1, <2>1, <3>1
  <2>3. QED
    BY <1>1, <2>2
<1>3. /\ calls \in Seq(FrameRecord) /\ Len(calls) = 2 /\ calls[1] = a /\ calls[2] = b
      /\ calls # <<>>
  BY <1>2
<1>4. frames' = calls \o Tail(frames)
  OBVIOUS
<1> HIDE DEF calls
<1>5. \A k \in 1 .. Len(calls) - 1 : calls[k].at \in {"stmt", "exp"}
  BY <1>3
<1>6. Pushes(calls)
  BY <1>3, <1>4, <1>5 DEF Pushes
<1>7. \A L : LastIn(calls, L) <=> b.at \in L
  BY <1>3 DEF LastIn
<1>8. QED
  BY <1>6, <1>7 DEF calls

LEMMA PushesOperands ==
  ASSUME LoweringInv, frames # <<>>, NEW x \in Node, NEW b \in FrameRecord,
         Kind(x) \notin {"block", "if", "while"},
         frames' = (Operands(x) \o <<b>>) \o Tail(frames)
  PROVE  Pushes(Operands(x) \o <<b>>) /\ \A L : LastIn(Operands(x) \o <<b>>, L) <=> b.at \in L
<1> DEFINE exps == Operands(x)
           m == Len(exps)
           calls == exps \o <<b>>
<1>1. exps \in Seq(FrameRecord) /\ \A k \in 1 .. m : exps[k].at = "exp"
  <2>1. IsAst(program) /\ Len(fn.blocks) \in Nat
    BY TopFacts
  <2>2. QED
    BY <2>1, OperandFacts
<1> HIDE DEF exps
<1>2. /\ calls \in Seq(FrameRecord) /\ Len(calls) = m + 1 /\ m \in Nat
      /\ \A k \in 1 .. m : calls[k] = exps[k]
      /\ calls[m + 1] = b
  BY <1>1
<1>3. calls # <<>> /\ frames' = calls \o Tail(frames)
  <2>1. calls # <<>>
    BY <1>2, EmptySeq
  <2>2. QED
    BY <2>1 DEF exps
<1> HIDE DEF calls
<1>4. \A k \in 1 .. Len(calls) - 1 : calls[k].at \in {"stmt", "exp"}
  <2>1. Len(calls) - 1 = m
    BY <1>2
  <2>2. \A k \in 1 .. m : calls[k].at = "exp"
    BY <1>1, <1>2
  <2>3. QED
    BY <2>1, <2>2
<1>5. Pushes(calls)
  BY <1>2, <1>3, <1>4 DEF Pushes
<1>6. \A L : LastIn(calls, L) <=> b.at \in L
  BY <1>2, <1>3 DEF LastIn
<1>7. QED
  BY <1>5, <1>6 DEF calls, exps

(* Steps of these shapes that concern neither stack.                        *)
LEMMA NestingNone ==
  ASSUME LoweringInv, Nesting, frames # <<>>, frames' = Tail(frames),
         UNCHANGED <<loops, scopes, status>>, Top.at \notin NestingLabels
  PROVE  Nesting'
BY PushesNone, NestingKept

LEMMA NestingOne ==
  ASSUME LoweringInv, LoweringInv', Nesting, frames # <<>>,
         NEW a, frames' = <<a>> \o Tail(frames),
         UNCHANGED <<loops, scopes, status>>, Top.at \notin NestingLabels, a.at \notin NestingLabels
  PROVE  Nesting'
BY PushesOne, NestingKept

LEMMA NestingTwo ==
  ASSUME LoweringInv, LoweringInv', Nesting, frames # <<>>,
         NEW a, NEW b, frames' = <<a, b>> \o Tail(frames), a.at \in {"stmt", "exp"},
         UNCHANGED <<loops, scopes, status>>, Top.at \notin NestingLabels, b.at \notin NestingLabels
  PROVE  Nesting'
BY PushesTwo, NestingKept

\* The actions that return, and those that push.
Returning ==
  \/ FinishReturn \/ FinishAssign \/ FinishExp \/ EndThenWithoutElse \/ EndElse
  \/ LoopControl \/ LowerNumber \/ Apply \/ EndRhs

LEMMA ReturningNesting == LoweringInv /\ Nesting /\ Returning => Nesting'
<1> SUFFICES ASSUME LoweringInv, Nesting, Returning PROVE Nesting'
  OBVIOUS
<1>1. /\ frames # <<>> /\ frames' = Tail(frames) /\ UNCHANGED <<loops, scopes, status>>
      /\ Top.at \in {"finish", "then", "else", "stmt", "exp", "apply", "rhs"}
  BY DEF Returning, FinishReturn, FinishAssign, FinishExp, EndThenWithoutElse, EndElse,
         LoopControl, LowerNumber, Apply, EndRhs, At, AtExp, Return
<1>2. Top.at \notin NestingLabels
  BY <1>1 DEF NestingLabels, LoopLabels
<1>3. QED
  BY <1>1, <1>2, NestingNone

Pushing == StartIf \/ BranchIf \/ EndThen \/ StartOr \/ StartAnd \/ EndLhs

LEMMA PushingNesting == LoweringInv /\ LoweringInv' /\ Nesting /\ Pushing => Nesting'
<1> SUFFICES ASSUME LoweringInv, LoweringInv', Nesting, Pushing PROVE Nesting'
  OBVIOUS
<1>1. /\ frames # <<>> /\ UNCHANGED <<loops, scopes, status>>
      /\ Top.at \in {"stmt", "branch", "then", "exp", "lhs"}
  BY DEF Pushing, StartIf, BranchIf, EndThen, StartOr, StartAnd, EndLhs, At, AtExp, AtStmt
<1>2. Top.at \notin NestingLabels
  BY <1>1 DEF NestingLabels, LoopLabels
<1> DEFINE PairOf(m, n, up, low, refs) ==
             /\ frames' = <<Frame(up, m, <<>>), Frame(low, n, refs)>> \o Tail(frames)
             /\ up \in {"stmt", "exp"} /\ low \in {"branch", "then", "else", "lhs", "create", "rhs"}
<1>3. \E m, n, up, low, refs : PairOf(m, n, up, low, refs)
  <2>1. CASE StartIf
    <3>1. PairOf(Kids(Top.node)[1], Top.node, "exp", "branch", <<>>)
      BY <2>1 DEF StartIf, GoOn, Exp
    <3>2. QED
      BY <3>1
  <2>2. CASE BranchIf
    <3>1. PairOf(Kids(Top.node)[2], Top.node, "stmt", "then", <<Newest(CreateBlock(CreateBlock(fn)))>>)
      BY <2>2 DEF BranchIf, GoOn, Stmt
    <3>2. QED
      BY <3>1
  <2>3. CASE EndThen
    <3>1. PairOf(Kids(Top.node)[3], Top.node, "stmt", "else", <<FallThrough(fn, NoBlock).merge>>)
      BY <2>3 DEF EndThen, GoOn, Stmt
    <3>2. QED
      BY <3>1
  <2>4. CASE StartOr
    <3>1. PairOf(Kids(Top.node)[1], Top.node, "exp", "lhs", <<Newest(fn) + 1>>)
      BY <2>4 DEF StartOr, GoOn, Exp
    <3>2. QED
      BY <3>1
  <2>5. CASE StartAnd
    <3>1. PairOf(Kids(Top.node)[1], Top.node, "exp", "create", <<>>)
      BY <2>5 DEF StartAnd, GoOn, Exp
    <3>2. QED
      BY <3>1
  <2>6. CASE EndLhs
    <3>1. PairOf(Kids(Top.node)[2], Top.node, "exp", "rhs", <<Top.refs[1] + 2>>)
      BY <2>6 DEF EndLhs, GoOn, Exp
    <3>2. QED
      BY <3>1
  <2>7. QED
    BY <2>1, <2>2, <2>3, <2>4, <2>5, <2>6 DEF Pushing
<1>4. PICK m, n, up, low, refs : PairOf(m, n, up, low, refs)
  BY <1>3
<1> DEFINE a == Frame(up, m, <<>>)
           b == Frame(low, n, refs)
<1>5. frames' = <<a, b>> \o Tail(frames) /\ a.at \in {"stmt", "exp"} /\ b.at \notin NestingLabels
  <2>1. frames' = <<a, b>> \o Tail(frames)
    BY <1>4
  <2>2. a.at = up /\ b.at = low
    BY DEF Frame
  <2>3. QED
    BY <1>4, <2>1, <2>2 DEF NestingLabels, LoopLabels
<1> HIDE DEF a, b
<1>6. QED
  BY <1>1, <1>2, <1>5, NestingTwo

LEMMA CreateAndBlocksNesting ==
  LoweringInv /\ LoweringInv' /\ Nesting /\ CreateAndBlocks => Nesting'
<1> SUFFICES ASSUME LoweringInv, LoweringInv', Nesting, CreateAndBlocks PROVE Nesting'
  OBVIOUS
<1> DEFINE a == Frame("lhs", Top.node, <<Newest(fn) + 1>>)
<1>1. /\ frames # <<>> /\ UNCHANGED <<loops, scopes, status>> /\ Top.at = "create"
      /\ frames' = <<a>> \o Tail(frames) /\ a.at = "lhs"
  BY DEF CreateAndBlocks, At, GoOn, Frame
<1> HIDE DEF a
<1>2. Top.at \notin NestingLabels /\ a.at \notin NestingLabels
  BY <1>1 DEF NestingLabels, LoopLabels
<1>3. QED
  BY <1>1, <1>2, NestingOne

LEMMA OperandsNesting == LoweringInv /\ Nesting /\ (LowerSimpleStmt \/ LowerOperands) => Nesting'
<1> SUFFICES ASSUME LoweringInv, Nesting, LowerSimpleStmt \/ LowerOperands PROVE Nesting'
  OBVIOUS
<1> DEFINE at == IF Top.at = "stmt" THEN "finish" ELSE "apply"
           b == Frame(at, Top.node, <<>>)
<1>1. /\ frames # <<>> /\ UNCHANGED <<loops, scopes, status>> /\ Top.at \in {"stmt", "exp"}
      /\ frames' = (Operands(Top.node) \o <<b>>) \o Tail(frames)
      /\ Kind(Top.node) \in {"return", "assign", "exp", "call", "bin"}
  BY DEF LowerSimpleStmt, LowerOperands, At, GoOn, Operands
<1>2. Top.node \in Node
  BY <1>1, TopFacts DEF FrameRecord
<1>3. b \in FrameRecord /\ b.at \notin NestingLabels /\ Top.at \notin NestingLabels
  BY <1>1, <1>2 DEF Frame, FrameRecord, Labels, NestingLabels, LoopLabels
<1> HIDE DEF b
<1>4. Kind(Top.node) \notin {"block", "if", "while"}
  BY <1>1
<1>5. QED
  BY <1>1, <1>2, <1>3, <1>4, PushesOperands, NestingKept

(* Blocks: a scope is pushed, kept while the items are lowered, and popped.  *)
LEMMA EnterScopeNesting == LoweringInv /\ LoweringInv' /\ Nesting /\ EnterScope => Nesting'
<1> SUFFICES ASSUME LoweringInv, LoweringInv', Nesting, EnterScope PROVE Nesting'
  OBVIOUS
<1> DEFINE a == Frame("item", Top.node, <<1>>)
           calls == <<a>>
<1>1. /\ frames # <<>> /\ UNCHANGED <<loops, status>> /\ Top.at = "stmt" /\ scopes' = scopes + 1
      /\ frames' = calls \o Tail(frames) /\ a.at = "item"
  BY DEF EnterScope, AtStmt, At, GoOn, Frame
<1> HIDE DEF a
<1>2. Pushes(calls) /\ \A L : LastIn(calls, L) <=> a.at \in L
  BY <1>1, PushesOne
<1> HIDE DEF calls
<1>3. /\ Top.at \notin LoopLabels /\ a.at \notin LoopLabels
      /\ Top.at \notin {"item"} /\ a.at \in {"item"}
  BY <1>1 DEF LoopLabels
<1>4. ~LastIn(calls, LoopLabels) /\ LastIn(calls, {"item"})
  BY <1>2, <1>3
<1>5. LoopInv'
  BY <1>1, <1>2, <1>3, <1>4, LoopsKept DEF Nesting
<1>6. Swaps(frames, calls, frames', {"item"}) /\ Top = frames[1]
  BY <1>2, PushesSwaps
<1>7. PICK s : Marks(s, frames, {"item"}) /\ scopes = (IF status = "done" THEN 0 ELSE 1) + Len(s)
  BY DEF Nesting, ScopeInv
<1>8. PICK t : Marks(t, frames', {"item"}) /\ Len(t) = Len(s) + 1
  BY <1>3, <1>4, <1>6, <1>7, MarksAdded
<1>9. Len(s) \in Nat
  BY <1>7 DEF Marks
<1>10. ScopeInv'
  BY <1>1, <1>7, <1>8, <1>9 DEF Nesting, ScopeInv
<1>11. QED
  BY <1>5, <1>10 DEF Nesting

LEMMA LowerItemNesting == LoweringInv /\ LoweringInv' /\ Nesting /\ LowerItem => Nesting'
<1> SUFFICES ASSUME LoweringInv, LoweringInv', Nesting, LowerItem PROVE Nesting'
  OBVIOUS
<1> DEFINE a == Stmt(Kids(Top.node)[Top.refs[1]])
           b == Frame("item", Top.node, <<Top.refs[1] + 1>>)
           calls == <<a, b>>
<1>1. /\ frames # <<>> /\ UNCHANGED <<loops, scopes, status>> /\ Top.at = "item"
      /\ frames' = calls \o Tail(frames) /\ a.at = "stmt" /\ b.at = "item"
  BY DEF LowerItem, At, GoOn, Frame, Stmt
<1> HIDE DEF a, b
<1>2. Pushes(calls) /\ \A L : LastIn(calls, L) <=> b.at \in L
  BY <1>1, PushesTwo
<1> HIDE DEF calls
<1>3. /\ Top.at \notin LoopLabels /\ b.at \notin LoopLabels /\ b.at \in {"item"}
  BY <1>1 DEF LoopLabels
<1>4. ~LastIn(calls, LoopLabels) /\ LastIn(calls, {"item"})
  BY <1>2, <1>3
<1>5. LoopInv'
  BY <1>1, <1>2, <1>3, <1>4, LoopsKept DEF Nesting
<1>6. Top.at = "item" <=> LastIn(calls, {"item"})
  BY <1>1, <1>4, Zenon
<1>7. ScopeInv'
  BY <1>1, <1>2, <1>6, ScopesKept DEF Nesting
<1>8. QED
  BY <1>5, <1>7 DEF Nesting

LEMMA ExitScopeNesting == LoweringInv /\ Nesting /\ ExitScope => Nesting'
<1> SUFFICES ASSUME LoweringInv, Nesting, ExitScope PROVE Nesting'
  OBVIOUS
<1>1. /\ frames # <<>> /\ UNCHANGED <<loops, status>> /\ Top.at = "item" /\ scopes' = scopes - 1
      /\ frames' = Tail(frames)
  BY DEF ExitScope, At, Return
<1>2. Pushes(<<>>) /\ ~LastIn(<<>>, LoopLabels) /\ ~LastIn(<<>>, {"item"})
  BY <1>1, PushesNone
<1>3. Top.at \notin LoopLabels /\ Top.at \in {"item"}
  BY <1>1 DEF LoopLabels
<1>4. LoopInv'
  BY <1>1, <1>2, <1>3, LoopsKept DEF Nesting
<1>5. Swaps(frames, <<>>, frames', {"item"}) /\ Top = frames[1]
  BY <1>2, PushesSwaps
<1>6. PICK s : Marks(s, frames, {"item"}) /\ scopes = (IF status = "done" THEN 0 ELSE 1) + Len(s)
  BY DEF Nesting, ScopeInv
<1>7. Len(s) > 0 /\ \E t : Marks(t, frames', {"item"}) /\ Len(t) = Len(s) - 1
  BY <1>2, <1>3, <1>5, <1>6, MarksRemoved
<1>8. PICK t : Marks(t, frames', {"item"}) /\ Len(t) = Len(s) - 1
  BY <1>7
<1>9. Len(s) \in Nat
  BY <1>6 DEF Marks
<1>10. ScopeInv'
  BY <1>1, <1>6, <1>7, <1>8, <1>9 DEF Nesting, ScopeInv
<1>11. QED
  BY <1>4, <1>10 DEF Nesting

(* Loops: the targets are pushed before the condition, and popped after the body. *)
LEMMA StartLoopNesting == LoweringInv /\ LoweringInv' /\ Nesting /\ StartLoop => Nesting'
<1> SUFFICES ASSUME LoweringInv, LoweringInv', Nesting, StartLoop PROVE Nesting'
  OBVIOUS
<1> DEFINE n == Newest(fn)
           a == Exp(Kids(Top.node)[1])
           b == Frame("test", Top.node, <<n + 1, n + 2, n + 3>>)
           calls == <<a, b>>
           loop == [break |-> n + 3, continue |-> n + 1]
<1>1. /\ frames # <<>> /\ UNCHANGED <<scopes, status>> /\ Top.at = "stmt"
      /\ frames' = calls \o Tail(frames) /\ loops' = <<loop>> \o loops
  BY DEF StartLoop, AtStmt, At, GoOn
<1>2. a.at = "exp" /\ b.at = "test" /\ b.refs = <<n + 1, n + 2, n + 3>>
  BY DEF Frame, Exp
<1>3. loop \in [break : Nat, continue : Nat] /\ Targets(b) = loop
  <2>1. n \in Nat
    BY <1>1, TopFacts DEF Newest
  <2>2. Len(b.refs) = 3 /\ b.refs[3] = n + 3 /\ b.refs[1] = n + 1
    BY <1>2, <2>1
  <2> HIDE DEF b, n
  <2>3. QED
    BY <2>1, <2>2 DEF Targets
<1> HIDE DEF a, b, loop
<1>4. Pushes(calls) /\ \A L : LastIn(calls, L) <=> b.at \in L
  BY <1>1, <1>2, PushesTwo
<1>5. Len(calls) = 2 /\ calls[2] = b
  OBVIOUS
<1> HIDE DEF calls
<1>6. /\ Top.at \notin LoopLabels /\ b.at \in LoopLabels
      /\ Top.at # "item" /\ b.at \notin {"item"}
  BY <1>1, <1>2 DEF LoopLabels
<1>7. LastIn(calls, LoopLabels) /\ ~LastIn(calls, {"item"})
  BY <1>4, <1>6
<1>8. ScopeInv'
  <2>1. Top.at = "item" <=> LastIn(calls, {"item"})
    BY <1>6, <1>7, Zenon
  <2>2. QED
    BY <1>1, <1>4, <2>1, ScopesKept DEF Nesting
<1>9. Swaps(frames, calls, frames', LoopLabels) /\ Top = frames[1]
  BY <1>4, PushesSwaps
<1>10. PICK s : /\ Marks(s, frames, LoopLabels) /\ Len(loops) = Len(s)
                /\ \A i \in 1 .. Len(s) : loops[i] = Targets(frames[s[i]])
  BY DEF Nesting, LoopInv
<1>11. PICK t : /\ Marks(t, frames', LoopLabels) /\ Len(t) = Len(s) + 1
                /\ frames'[t[1]] = calls[Len(calls)]
                /\ \A i \in 1 .. Len(s) : frames'[t[i + 1]] = frames[s[i]]
  <2>1. frames[1].at \notin LoopLabels
    BY <1>6, <1>9
  <2>2. QED
    BY <1>7, <1>9, <1>10, <2>1, MarksAdded
<1>12. /\ loops' \in Seq([break : Nat, continue : Nat]) /\ Len(loops') = Len(s) + 1
       /\ loops'[1] = loop /\ \A i \in 1 .. Len(s) : loops'[i + 1] = loops[i]
       /\ Len(s) \in Nat
  <2>1. loops \in Seq([break : Nat, continue : Nat])
    BY DEF Nesting, LoopInv
  <2>2. QED
    BY <1>1, <1>3, <1>10, <2>1
<1>13. ASSUME NEW i \in 1 .. Len(t) PROVE loops'[i] = Targets(frames'[t[i]])
  <2>1. CASE i = 1
    BY <1>3, <1>5, <1>11, <1>12, <2>1
  <2>2. CASE i # 1
    <3> DEFINE j == i - 1
    <3>1. j \in 1 .. Len(s) /\ i = j + 1
      BY <1>11, <1>12, <2>2
    <3> HIDE DEF j
    <3>2. loops'[j + 1] = loops[j] /\ frames'[t[j + 1]] = frames[s[j]]
      BY <1>11, <1>12, <3>1
    <3>3. QED
      BY <1>10, <3>1, <3>2
  <2>3. QED
    BY <2>1, <2>2
<1>14. LoopInv'
  BY <1>11, <1>12, <1>13 DEF LoopInv
<1>15. QED
  BY <1>8, <1>14 DEF Nesting

LEMMA TestLoopNesting == LoweringInv /\ LoweringInv' /\ Nesting /\ TestLoop => Nesting'
<1> SUFFICES ASSUME LoweringInv, LoweringInv', Nesting, TestLoop PROVE Nesting'
  OBVIOUS
<1> DEFINE a == Stmt(Kids(Top.node)[2])
           b == Frame("loop", Top.node, <<Top.refs[1], Top.refs[3]>>)
           calls == <<a, b>>
<1>1. /\ frames # <<>> /\ UNCHANGED <<loops, scopes, status>> /\ Top.at = "test"
      /\ frames' = calls \o Tail(frames)
  BY DEF TestLoop, At, GoOn
<1>2. a.at = "stmt" /\ b.at = "loop" /\ b.refs = <<Top.refs[1], Top.refs[3]>>
  BY DEF Frame, Stmt
<1>3. Targets(b) = Targets(Top)
  <2>1. Len(Top.refs) = 3
    <3>1. FrameOK(Top, Len(fn.blocks))
      BY <1>1, TopFacts
    <3>2. QED
      BY <1>1, <3>1 DEF FrameOK
  <2>2. Len(b.refs) = 2 /\ b.refs[2] = Top.refs[3] /\ b.refs[1] = Top.refs[1]
    BY <1>2
  <2> HIDE DEF b
  <2>3. QED
    BY <2>1, <2>2 DEF Targets
<1> HIDE DEF a, b
<1>4. Pushes(calls) /\ \A L : LastIn(calls, L) <=> b.at \in L
  BY <1>1, <1>2, PushesTwo
<1>5. Len(calls) = 2 /\ calls[2] = b
  OBVIOUS
<1> HIDE DEF calls
<1>6. /\ Top.at \in LoopLabels /\ b.at \in LoopLabels
      /\ Top.at # "item" /\ b.at \notin {"item"}
  BY <1>1, <1>2 DEF LoopLabels
<1>7. LastIn(calls, LoopLabels) /\ ~LastIn(calls, {"item"})
  BY <1>4, <1>6
<1>8. ScopeInv'
  <2>1. Top.at = "item" <=> LastIn(calls, {"item"})
    BY <1>6, <1>7, Zenon
  <2>2. QED
    BY <1>1, <1>4, <2>1, ScopesKept DEF Nesting
<1>9. Swaps(frames, calls, frames', LoopLabels) /\ Top = frames[1]
  BY <1>4, PushesSwaps
<1>10. PICK s : /\ Marks(s, frames, LoopLabels) /\ Len(loops) = Len(s)
                /\ \A i \in 1 .. Len(s) : loops[i] = Targets(frames[s[i]])
  BY DEF Nesting, LoopInv
<1>11. PICK t : /\ Marks(t, frames', LoopLabels) /\ Len(t) = Len(s)
                /\ \A i \in 1 .. Len(s) : IF s[i] = 1 THEN frames'[t[i]] = calls[Len(calls)]
                                          ELSE frames'[t[i]] = frames[s[i]]
  <2>1. frames[1].at \in LoopLabels <=> LastIn(calls, LoopLabels)
    BY <1>6, <1>7, <1>9, Zenon
  <2>2. QED
    BY <1>9, <1>10, <2>1, MarksKept
<1>12. ASSUME NEW i \in 1 .. Len(s) PROVE loops[i] = Targets(frames'[t[i]])
  <2>1. CASE s[i] = 1
    BY <1>3, <1>5, <1>9, <1>10, <1>11, <2>1
  <2>2. CASE s[i] # 1
    BY <1>10, <1>11, <2>2
  <2>3. QED
    BY <2>1, <2>2
<1>13. LoopInv'
  <2>1. loops' \in Seq([break : Nat, continue : Nat]) /\ Len(loops') = Len(t)
    BY <1>1, <1>10, <1>11 DEF Nesting, LoopInv
  <2>2. \A i \in 1 .. Len(t) : loops'[i] = Targets(frames'[t[i]])
    BY <1>1, <1>11, <1>12
  <2>3. QED
    BY <1>11, <2>1, <2>2 DEF LoopInv
<1>14. QED
  BY <1>8, <1>13 DEF Nesting

LEMMA EndLoopNesting == LoweringInv /\ Nesting /\ EndLoop => Nesting'
<1> SUFFICES ASSUME LoweringInv, Nesting, EndLoop PROVE Nesting'
  OBVIOUS
<1>1. /\ frames # <<>> /\ UNCHANGED <<scopes, status>> /\ Top.at = "loop"
      /\ frames' = Tail(frames) /\ loops' = Tail(loops)
  BY DEF EndLoop, At, Return
<1>2. Pushes(<<>>) /\ ~LastIn(<<>>, LoopLabels) /\ ~LastIn(<<>>, {"item"})
  BY <1>1, PushesNone
<1>3. Top.at \in LoopLabels /\ Top.at # "item"
  BY <1>1 DEF LoopLabels
<1>4. ScopeInv'
  <2>1. Top.at = "item" <=> LastIn(<<>>, {"item"})
    BY <1>2, <1>3, Zenon
  <2>2. QED
    BY <1>1, <1>2, <2>1, ScopesKept DEF Nesting
<1>5. Swaps(frames, <<>>, frames', LoopLabels) /\ Top = frames[1]
  BY <1>2, PushesSwaps
<1>6. PICK s : /\ Marks(s, frames, LoopLabels) /\ Len(loops) = Len(s)
               /\ \A i \in 1 .. Len(s) : loops[i] = Targets(frames[s[i]])
  BY DEF Nesting, LoopInv
<1>7. /\ Len(s) > 0
      /\ \E t : /\ Marks(t, frames', LoopLabels) /\ Len(t) = Len(s) - 1
                /\ \A i \in 1 .. Len(t) : i + 1 \in 1 .. Len(s) /\ frames'[t[i]] = frames[s[i + 1]]
  <2>1. frames[1].at \in LoopLabels
    BY <1>3, <1>5
  <2>2. QED
    BY <1>2, <1>5, <1>6, <2>1, MarksRemoved
<1>8. PICK t : /\ Marks(t, frames', LoopLabels) /\ Len(t) = Len(s) - 1
               /\ \A i \in 1 .. Len(t) : i + 1 \in 1 .. Len(s) /\ frames'[t[i]] = frames[s[i + 1]]
  BY <1>7
<1>9. /\ loops \in Seq([break : Nat, continue : Nat]) /\ loops # <<>> /\ Len(s) \in Nat
  <2>1. loops \in Seq([break : Nat, continue : Nat])
    BY DEF Nesting, LoopInv
  <2>2. QED
    BY <1>6, <1>7, <2>1
<1>10. /\ loops' \in Seq([break : Nat, continue : Nat]) /\ Len(loops') = Len(t)
       /\ \A i \in 1 .. Len(t) : loops'[i] = loops[i + 1]
  BY <1>1, <1>6, <1>8, <1>9
<1>11. \A i \in 1 .. Len(t) : loops'[i] = Targets(frames'[t[i]])
  BY <1>6, <1>8, <1>10
<1>12. LoopInv'
  BY <1>8, <1>10, <1>11 DEF LoopInv
<1>13. QED
  BY <1>4, <1>12 DEF Nesting

-----------------------------------------------------------------------------
(***************************************************************************)
(* break and continue: the innermost loop is the one the first targets are of. *)
(***************************************************************************)

LEMMA InnermostLoop ==
  ASSUME LoweringInv, Nesting, loops # <<>>
  PROVE  ControlTarget.break \in 2 .. Len(fn.blocks) /\ ControlTarget.continue \in 2 .. Len(fn.blocks)
<1>1. PICK s : /\ Marks(s, frames, LoopLabels) /\ Len(loops) = Len(s)
               /\ \A i \in 1 .. Len(s) : loops[i] = Targets(frames[s[i]])
  BY DEF Nesting, LoopInv
<1>2. loops \in Seq([break : Nat, continue : Nat])
  BY DEF Nesting, LoopInv
<1>3. 1 \in 1 .. Len(s) /\ ControlTarget = loops[1]
  <2>1. Len(loops) \in Nat \ {0}
    BY <1>2, EmptySeq, LenProperties
  <2>2. QED
    BY <1>1, <1>2, <2>1 DEF ControlTarget
<1>4. s[1] \in 1 .. Len(frames) /\ frames[s[1]].at \in LoopLabels
  BY <1>1, <1>3 DEF Marks
<1> DEFINE f == frames[s[1]]
           n == Len(fn.blocks)
<1>5. FrameOK(f, n) /\ f.at \in {"test", "loop"} /\ n \in Nat
  <2>1. n \in Nat
    BY DEF LoweringInv, FrameInv, GoodFn, AnyFn
  <2>2. QED
    BY <1>4, <2>1 DEF LoweringInv, FrameInv, LoopLabels
<1>6. ControlTarget = Targets(f)
  BY <1>1, <1>3
<1> HIDE DEF f, n
<1>7. f.refs[Len(f.refs)] \in 2 .. n /\ f.refs[1] \in 2 .. n
  <2>1. CASE f.at = "test"
    <3>1. /\ Len(f.refs) = 3 /\ f.refs[1] \in 2 .. n /\ f.refs[3] = f.refs[1] + 2
          /\ f.refs[3] <= n
      BY <1>5, <2>1 DEF FrameOK
    <3>2. QED
      BY <1>5, <3>1
  <2>2. CASE f.at = "loop"
    BY <1>5, <2>2 DEF FrameOK
  <2>3. QED
    BY <1>5, <2>1, <2>2
<1>8. QED
  BY <1>6, <1>7 DEF Targets, n

LEMMA LoopControlStep == LoweringInv /\ Nesting /\ LoopControl => LoweringInv'
<1> SUFFICES ASSUME LoweringInv, Nesting, LoopControl PROVE LoweringInv'
  OBVIOUS
<1> DEFINE to == ControlTarget[Kind(Top.node)]
           inst == Jump(to)
<1>1. /\ frames # <<>> /\ Top.at = "stmt" /\ fn.current # NoBlock /\ loops # <<>>
      /\ Kind(Top.node) \in {"break", "continue"}
      /\ fn' = Terminate(fn, inst)
      /\ frames' = Tail(frames) /\ UNCHANGED <<program, status>>
  BY DEF LoopControl, At, Return
<1>2. Owned(Top) = {} /\ Top.at \notin ExpLabels
  BY <1>1 DEF Owned, ExpLabels
<1>3. to \in 2 .. Len(fn.blocks)
  BY <1>1, InnermostLoop
<1>4. IsAst(program) /\ Len(fn.blocks) \in Nat
  BY <1>1, TopFacts
<1> HIDE DEF to
<1>5. inst \in AnyInstruction /\ inst.op \in Terminators /\ ToSet(inst.to) \subseteq 2 .. Len(fn.blocks)
  <2>1. to \in Nat
    BY <1>3, <1>4
  <2>2. QED
    BY <1>3, <1>4, <2>1, JumpFacts
<1> HIDE DEF inst
<1>6. Fills({}, {})
  BY <1>1, <1>2, <1>5, TerminateFills
<1>7. QED
  BY <1>1, <1>2, <1>6, ReplacesNone, StackStep

-----------------------------------------------------------------------------
(***************************************************************************)
(* The end of a function, and its beginning.                                *)
(***************************************************************************)

\* When lowering is done, nothing is in progress and no block is current.
DoneInv == status = "done" => frames = <<>> /\ fn.current = NoBlock

LEMMA EmptyFrames ==
  ASSUME LoweringInv, frames = <<>>
  PROVE  /\ Opens(fn) = Current
         /\ \A R \in SUBSET (1 .. Len(fn.blocks)) :
              1 \in R /\ Closed(fn, R) => R = 1 .. Len(fn.blocks)
<1>1. 1 .. Len(frames) = {}
  OBVIOUS
<1>2. Current \subseteq Opens(fn)
  BY DEF Current, LoweringInv, FrameInv, GoodFn
<1>3. Opens(fn) \ Current = {}
  BY <1>1 DEF LoweringInv, OwnInv
<1>4. QED
  BY <1>1, <1>2, <1>3 DEF LoweringInv, ReachInv

LEMMA EndFunctionStep == LoweringInv /\ EndFunction => LoweringInv' /\ fn'.current = NoBlock
<1> SUFFICES ASSUME LoweringInv, EndFunction PROVE LoweringInv' /\ fn'.current = NoBlock
  OBVIOUS
<1> DEFINE inst == Ret(program.root)
           n == Len(fn.blocks)
<1>1. /\ frames = <<>> /\ status' = "done" /\ UNCHANGED <<program, frames>>
      /\ fn' = IF fn.current # NoBlock THEN Terminate(fn, inst) ELSE fn
  BY DEF EndFunction
<1>2. /\ GoodFn(fn) /\ IsAst(program) /\ n \in Nat /\ 1 <= n
      /\ program.root \in Node
  <2>1. GoodFn(fn) /\ IsAst(program) /\ 1 <= n
    BY DEF LoweringInv, FrameInv
  <2>2. n \in Nat
    BY <2>1 DEF GoodFn, AnyFn
  <2>3. QED
    BY <2>1, <2>2 DEF IsAst
<1>3. inst \in AnyInstruction /\ inst.op \in Terminators /\ ToSet(inst.to) \subseteq 2 .. n
  BY <1>2, RetFacts
<1>4. /\ Opens(fn) = Current
      /\ \A R \in SUBSET (1 .. n) : 1 \in R /\ Closed(fn, R) => R = 1 .. n
  BY <1>1, EmptyFrames
<1> HIDE DEF inst
<1>5. /\ GoodFn(fn') /\ Len(fn'.blocks) = n /\ fn'.current = NoBlock /\ Opens(fn') = {}
      /\ \A b \in 1 .. n : Succs(fn, b) \subseteq Succs(fn', b)
  <2>1. CASE fn.current # NoBlock
    <3>1. fn' = Terminate(fn, inst) /\ Opens(fn) = {fn.current}
      BY <1>1, <1>4, <2>1 DEF Current
    <3>2. QED
      BY <1>2, <1>3, <2>1, <3>1, TerminateFacts
  <2>2. CASE fn.current = NoBlock
    BY <1>1, <1>2, <1>4, <2>2 DEF Current
  <2>3. QED
    BY <2>1, <2>2
<1>6. 1 .. Len(frames') = {} /\ frames' = <<>> /\ frames' \in Seq(FrameRecord)
  BY <1>1, EmptySeq
<1>7. FrameInv'
  <2>1. IsAst(program)'
    BY <1>1, <1>2
  <2>2. 1 .. Len(frames') - 1 = {}
    BY <1>1
  <2>3. QED
    BY <1>1, <1>2, <1>5, <1>6, <2>1, <2>2 DEF FrameInv
<1>8. OwnInv'
  BY <1>5, <1>6 DEF OwnInv
<1>9. ReachInv'
  <2> SUFFICES ASSUME NEW R \in SUBSET (1 .. n), 1 \in R, Closed(fn', R)
               PROVE  R = 1 .. n
    BY <1>5 DEF ReachInv
  <2>1. Closed(fn, R)
    BY <1>5 DEF Closed
  <2>2. QED
    BY <1>4, <2>1
<1>10. QED
  BY <1>5, <1>7, <1>8, <1>9 DEF LoweringInv

LEMMA EndFunctionNesting == Nesting /\ EndFunction => Nesting'
<1> SUFFICES ASSUME Nesting, EndFunction PROVE Nesting'
  OBVIOUS
<1>1. /\ frames = <<>> /\ status = "lowering" /\ status' = "done" /\ scopes' = scopes - 1
      /\ UNCHANGED <<frames, loops>>
  BY DEF EndFunction
<1>2. LoopInv'
  BY <1>1 DEF Nesting, LoopInv
<1>3. PICK s : Marks(s, frames, {"item"}) /\ scopes = 1 + Len(s)
  BY <1>1 DEF Nesting, ScopeInv
<1>4. Len(s) = 0
  <2>1. Len(s) \in Nat
    BY <1>3 DEF Marks
  <2>2. 1 \notin 1 .. Len(s)
    BY <1>1, <1>3 DEF Marks
  <2>3. QED
    BY <2>1, <2>2
<1>5. Marks(s, frames', {"item"}) /\ scopes' = 0
  BY <1>1, <1>3, <1>4
<1>6. ScopeInv'
  BY <1>1, <1>4, <1>5 DEF ScopeInv
<1>7. QED
  BY <1>2, <1>6 DEF Nesting

LEMMA RejectStep ==
  LoweringInv /\ Nesting /\ RejectLoopControl => LoweringInv' /\ Nesting'
<1> SUFFICES ASSUME LoweringInv, Nesting, RejectLoopControl PROVE LoweringInv' /\ Nesting'
  OBVIOUS
<1>1. /\ UNCHANGED <<program, frames, fn, loops, scopes>>
      /\ status = "lowering" /\ status' = "rejected"
  BY DEF RejectLoopControl, At
<1>2. FrameInv'
  <2>1. ASSUME NEW k \in 1 .. Len(frames) PROVE FrameOK(frames[k], Len(fn.blocks))'
    <3>1. FrameOK(frames[k], Len(fn.blocks)) /\ \A x : Kind(x)' = Kind(x)
      BY <1>1 DEF LoweringInv, FrameInv, Kind
    <3>2. QED
      BY <1>1, <3>1, SMTT(30) DEF FrameOK
  <2>2. QED
    BY <1>1, <2>1 DEF LoweringInv, FrameInv
<1>3. OwnInv' /\ ReachInv'
  BY <1>1 DEF LoweringInv, OwnInv, ReachInv, Current
<1>4. Nesting'
  BY <1>1 DEF Nesting, LoopInv, ScopeInv
<1>5. QED
  BY <1>2, <1>3, <1>4 DEF LoweringInv

LEMMA StartFn ==
  LET f == [blocks |-> << <<>> >>, current |-> 1] IN
  GoodFn(f) /\ Len(f.blocks) = 1 /\ Opens(f) = {1} /\ f.current = 1
<1> DEFINE f == [blocks |-> << <<>> >>, current |-> 1]
<1>1. << <<>> >> \in Seq(Seq(AnyInstruction)) /\ Len(<< <<>> >>) = 1 /\ << <<>> >>[1] = <<>>
  BY EmptySeq
<1>2. f \in AnyFn /\ Len(f.blocks) = 1 /\ f.blocks[1] = <<>> /\ f.current = 1
  BY <1>1 DEF AnyFn
<1> HIDE DEF f
<1>3. \A b \in 1 .. Len(f.blocks) : b = 1 /\ f.blocks[b] = <<>> /\ Len(f.blocks[b]) = 0
  BY <1>2
<1>4. Opens(f) = {1}
  BY <1>2, <1>3 DEF Opens
<1>5. \A b \in 1 .. Len(f.blocks) : Succs(f, b) = {}
  BY <1>3 DEF Succs
<1>6. \A b \in 1 .. Len(f.blocks) : 1 .. Len(f.blocks[b]) - 1 = {}
  BY <1>3
<1>7. GoodFn(f)
  BY <1>2, <1>4, <1>5, <1>6 DEF GoodFn
<1>8. QED
  BY <1>2, <1>4, <1>7 DEF f

LEMMA InitInv == Init => LoweringInv /\ Nesting /\ DoneInv
<1> SUFFICES ASSUME Init PROVE LoweringInv /\ Nesting /\ DoneInv
  OBVIOUS
<1> DEFINE a == Stmt(program.root)
<1>1. /\ program \in Programs /\ status = "lowering"
      /\ fn = [blocks |-> << <<>> >>, current |-> 1]
      /\ frames = <<a>> /\ loops = <<>> /\ scopes = 1
  BY DEF Init
<1>2. IsAst(program) /\ program.root \in Node /\ Kind(program.root) = "block"
  BY <1>1, ProgramsAssumption DEF IsAst, Kind
<1>3. GoodFn(fn) /\ Len(fn.blocks) = 1 /\ Opens(fn) = {1} /\ fn.current = 1
  BY <1>1, StartFn
<1>4. /\ FrameOK(a, 1) /\ a \in FrameRecord /\ a.at = "stmt"
      /\ Owned(a) = {} /\ Pending(a) = {}
  BY <1>2, BareFrames DEF StmtKinds, Stmt, Frame
<1> HIDE DEF a
<1>5. frames \in Seq(FrameRecord) /\ Len(frames) = 1 /\ frames[1] = a
  BY <1>1, <1>4
<1>6. \A k \in 1 .. Len(frames) : k = 1
  BY <1>5
<1>7. Current = {1}
  BY <1>3 DEF Current, NoBlock
<1>8. FrameInv
  <2>1. 1 .. Len(frames) - 1 = {}
    BY <1>5
  <2>2. /\ \A k \in 1 .. Len(frames) : FrameOK(frames[k], Len(fn.blocks))
        /\ frames[Len(frames)].at \notin ExpLabels
    BY <1>3, <1>4, <1>5, <1>6 DEF ExpLabels
  <2>3. fn.current # NoBlock
    BY <1>3 DEF NoBlock
  <2>4. QED
    BY <1>1, <1>2, <1>3, <1>5, <2>1, <2>2, <2>3 DEF FrameInv
<1>9. OwnInv
  BY <1>3, <1>4, <1>5, <1>6, <1>7 DEF OwnInv
<1>10. ReachInv
  BY <1>3 DEF ReachInv
<1>11. \A L : a.at \notin L => Marks(<<>>, frames, L)
  <2>1. <<>> \in Seq(Nat) /\ Len(<<>>) = 0
    BY EmptySeq
  <2>2. QED
    BY <1>5, <1>6, <2>1 DEF Marks
<1>12. Marks(<<>>, frames, LoopLabels) /\ Marks(<<>>, frames, {"item"})
  BY <1>4, <1>11 DEF LoopLabels
<1>13. LoopInv
  <2>1. loops \in Seq([break : Nat, continue : Nat]) /\ Len(loops) = Len(<<>>)
    BY <1>1, EmptySeq
  <2>2. QED
    BY <1>12, <2>1 DEF LoopInv
<1>14. ScopeInv
  <2>1. scopes \in Nat /\ scopes = (IF status = "done" THEN 0 ELSE 1) + Len(<<>>)
    BY <1>1
  <2>2. QED
    BY <1>12, <2>1 DEF ScopeInv
<1>15. DoneInv
  BY <1>1 DEF DoneInv
<1>16. QED
  BY <1>8, <1>9, <1>10, <1>13, <1>14, <1>15 DEF LoweringInv, Nesting

-----------------------------------------------------------------------------
(***************************************************************************)
(* The inductive invariant.                                                 *)
(***************************************************************************)

Inv == LoweringInv /\ Nesting /\ DoneInv

LEMMA NextInv == Inv /\ [Next]_vars => Inv'
<1> SUFFICES ASSUME Inv, [Next]_vars PROVE Inv'
  OBVIOUS
<1>1. LoweringInv /\ Nesting /\ DoneInv
  BY DEF Inv
<1>2. CASE Returning
  <2>1. LoweringInv'
    BY <1>1, <1>2, FinishReturnStep, FinishAssignStep, FinishExpStep, EndThenWithoutElseStep,
       EndElseStep, LoopControlStep, LowerNumberStep, ApplyStep, EndRhsStep, Zenon DEF Returning
  <2>2. Nesting'
    BY <1>1, <1>2, ReturningNesting
  <2>3. DoneInv'
    BY <1>2 DEF Returning, FinishReturn, FinishAssign, FinishExp, EndThenWithoutElse, EndElse,
       LoopControl, LowerNumber, Apply, EndRhs, At, AtExp, DoneInv
  <2>4. QED
    BY <2>1, <2>2, <2>3 DEF Inv
<1>3. CASE Pushing
  <2>1. LoweringInv'
    BY <1>1, <1>3, StartIfStep, BranchIfStep, EndThenStep, StartOrStep, StartAndStep,
       EndLhsStep, Zenon DEF Pushing
  <2>2. Nesting'
    BY <1>1, <1>3, <2>1, PushingNesting
  <2>3. DoneInv'
    BY <1>3 DEF Pushing, StartIf, BranchIf, EndThen, StartOr, StartAnd, EndLhs, At, AtStmt,
       AtExp, DoneInv
  <2>4. QED
    BY <2>1, <2>2, <2>3 DEF Inv
<1>4. CASE CreateAndBlocks
  <2>1. LoweringInv' /\ Nesting'
    BY <1>1, <1>4, CreateAndBlocksStep, CreateAndBlocksNesting
  <2>2. DoneInv'
    BY <1>4 DEF CreateAndBlocks, At, DoneInv
  <2>3. QED
    BY <2>1, <2>2 DEF Inv
<1>5. CASE LowerSimpleStmt \/ LowerOperands
  <2>1. LoweringInv' /\ Nesting'
    BY <1>1, <1>5, LowerSimpleStmtStep, LowerOperandsStep, OperandsNesting
  <2>2. DoneInv'
    BY <1>5 DEF LowerSimpleStmt, LowerOperands, At, DoneInv
  <2>3. QED
    BY <2>1, <2>2 DEF Inv
<1>6. CASE EnterScope \/ LowerItem \/ ExitScope
  <2>1. LoweringInv'
    BY <1>1, <1>6, EnterScopeStep, LowerItemStep, ExitScopeStep
  <2>2. Nesting'
    BY <1>1, <1>6, <2>1, EnterScopeNesting, LowerItemNesting, ExitScopeNesting
  <2>3. DoneInv'
    BY <1>6 DEF EnterScope, LowerItem, ExitScope, At, AtStmt, DoneInv
  <2>4. QED
    BY <2>1, <2>2, <2>3 DEF Inv
<1>7. CASE StartLoop \/ TestLoop \/ EndLoop
  <2>1. LoweringInv'
    BY <1>1, <1>7, StartLoopStep, TestLoopStep, EndLoopStep
  <2>2. Nesting'
    BY <1>1, <1>7, <2>1, StartLoopNesting, TestLoopNesting, EndLoopNesting
  <2>3. DoneInv'
    BY <1>7 DEF StartLoop, TestLoop, EndLoop, At, AtStmt, DoneInv
  <2>4. QED
    BY <2>1, <2>2, <2>3 DEF Inv
<1>8. CASE RejectLoopControl
  <2>1. LoweringInv' /\ Nesting'
    BY <1>1, <1>8, RejectStep
  <2>2. DoneInv'
    BY <1>8 DEF RejectLoopControl, DoneInv
  <2>3. QED
    BY <2>1, <2>2 DEF Inv
<1>9. CASE EndFunction
  <2>1. LoweringInv' /\ Nesting' /\ fn'.current = NoBlock
    BY <1>1, <1>9, EndFunctionStep, EndFunctionNesting
  <2>2. frames' = <<>>
    BY <1>9 DEF EndFunction
  <2>3. QED
    BY <2>1, <2>2 DEF Inv, DoneInv
<1>10. CASE UNCHANGED vars
  <2>1. /\ UNCHANGED <<program, status, frames, fn, loops, scopes>>
    BY <1>10 DEF vars
  <2>2. FrameInv'
    <3>1. ASSUME NEW k \in 1 .. Len(frames) PROVE FrameOK(frames[k], Len(fn.blocks))'
      <4>1. FrameOK(frames[k], Len(fn.blocks)) /\ \A x : Kind(x)' = Kind(x)
        BY <1>1, <2>1 DEF LoweringInv, FrameInv, Kind
      <4>2. QED
        BY <2>1, <4>1, SMTT(30) DEF FrameOK
    <3>2. QED
      BY <1>1, <2>1, <3>1 DEF LoweringInv, FrameInv
  <2>3. OwnInv' /\ ReachInv'
    BY <1>1, <2>1 DEF LoweringInv, OwnInv, ReachInv, Current
  <2>4. Nesting' /\ DoneInv'
    BY <1>1, <2>1 DEF Nesting, LoopInv, ScopeInv, DoneInv
  <2>5. QED
    BY <2>2, <2>3, <2>4 DEF Inv, LoweringInv
<1>11. QED
  BY <1>2, <1>3, <1>4, <1>5, <1>6, <1>7, <1>8, <1>9, <1>10, Zenon DEF Next, Returning, Pushing

(* The invariant of the whole lowering: every call in progress returns to    *)
(* where its caller stopped, and the blocks without a terminator are those   *)
(* the calls in progress still have to fill.                                *)
THEOREM LoweringInvariant == Spec => []Inv
<1>1. Init => Inv
  BY InitInv DEF Inv
<1>2. QED
  BY <1>1, NextInv, PTL DEF Spec

-----------------------------------------------------------------------------
(***************************************************************************)
(* What the runs check, for every function body.                            *)
(***************************************************************************)

LEMMA Retyped ==
  ASSUME NEW A, NEW B, NEW s \in Seq(A), \A i \in 1 .. Len(s) : s[i] \in B
  PROVE  s \in Seq(B)
<1>1. s \in [1 .. Len(s) -> A] /\ Len(s) \in Nat
  OBVIOUS
<1>2. s \in [1 .. Len(s) -> B]
  BY <1>1
<1>3. QED
  BY <1>1, <1>2, SeqDef

LEMMA OpenIsOpen ==
  \A b \in 1 .. Len(fn.blocks) : Open(b) <=> b \in Opens(fn)
BY DEF Open, Opens

LEMMA InstructionsTyped ==
  ASSUME GoodFn(fn)
  PROVE  fn.blocks \in Seq(Seq(Instruction))
<1> DEFINE n == Len(fn.blocks)
<1>1. fn.blocks \in Seq(Seq(AnyInstruction)) /\ n \in Nat
  BY DEF GoodFn, AnyFn
<1>2. ASSUME NEW b \in 1 .. n, NEW k \in 1 .. Len(fn.blocks[b])
      PROVE  fn.blocks[b][k] \in Instruction
  <2> DEFINE inst == fn.blocks[b][k]
  <2>1. fn.blocks[b] \in Seq(AnyInstruction)
    BY <1>1
  <2>2. inst \in AnyInstruction
    BY <2>1
  <2>3. ToSet(inst.to) \subseteq 2 .. n
    <3>1. Succs(fn, b) \subseteq 2 .. n
      BY DEF GoodFn
    <3>2. QED
      BY <3>1 DEF Succs
  <2> HIDE DEF inst
  <2>4. inst.to \in Seq(Nat) /\ inst.op \in Ops /\ inst.node \in Node
    BY <2>2 DEF AnyInstruction
  <2>5. \A i \in 1 .. Len(inst.to) : inst.to[i] \in 1 .. n
    <3>1. \A i \in 1 .. Len(inst.to) : inst.to[i] \in ToSet(inst.to)
      BY DEF ToSet
    <3>2. \A x \in 2 .. n : x \in 1 .. n
      BY <1>1
    <3>3. QED
      BY <2>3, <3>1, <3>2
  <2>6. inst.to \in Seq(1 .. n)
    BY <2>4, <2>5, Retyped
  <2>7. inst = [op |-> inst.op, node |-> inst.node, to |-> inst.to]
    BY <2>2 DEF AnyInstruction
  <2>8. QED
    BY <2>4, <2>6, <2>7 DEF Instruction, Ops, inst
<1>3. \A b \in 1 .. n : fn.blocks[b] \in Seq(Instruction)
  <2> SUFFICES ASSUME NEW b \in 1 .. n PROVE fn.blocks[b] \in Seq(Instruction)
    OBVIOUS
  <2>1. fn.blocks[b] \in Seq(AnyInstruction)
    BY <1>1
  <2>2. QED
    BY <1>2, <2>1, Retyped
<1>4. QED
  BY <1>1, <1>3, Retyped

LEMMA LoopsTyped ==
  ASSUME LoweringInv, LoopInv
  PROVE  loops \in Seq([break : BlockOrNull, continue : BlockOrNull])
<1> DEFINE n == Len(fn.blocks)
<1>1. PICK s : /\ Marks(s, frames, LoopLabels) /\ Len(loops) = Len(s)
               /\ \A i \in 1 .. Len(s) : loops[i] = Targets(frames[s[i]])
  BY DEF LoopInv
<1>2. loops \in Seq([break : Nat, continue : Nat]) /\ n \in Nat
  <2>1. GoodFn(fn)
    BY DEF LoweringInv, FrameInv
  <2>2. QED
    BY <2>1 DEF LoopInv, GoodFn, AnyFn
<1>3. ASSUME NEW i \in 1 .. Len(loops) PROVE loops[i] \in [break : 0 .. n, continue : 0 .. n]
  <2> DEFINE f == frames[s[i]]
  <2>1. FrameOK(f, n) /\ f.at \in {"test", "loop"} /\ loops[i] = Targets(f)
    <3>1. s[i] \in 1 .. Len(frames) /\ f.at \in LoopLabels
      BY <1>1 DEF Marks
    <3>2. QED
      BY <1>1, <3>1 DEF LoopLabels, LoweringInv, FrameInv
  <2> HIDE DEF f
  <2>2. f.refs[Len(f.refs)] \in 0 .. n /\ f.refs[1] \in 0 .. n
    <3>1. CASE f.at = "test"
      <4>1. /\ Len(f.refs) = 3 /\ f.refs[1] \in 2 .. n /\ f.refs[3] = f.refs[1] + 2
            /\ f.refs[3] <= n
        BY <2>1, <3>1 DEF FrameOK
      <4>2. QED
        BY <1>2, <4>1
    <3>2. CASE f.at = "loop"
      <4>1. Len(f.refs) = 2 /\ f.refs[1] \in 2 .. n /\ f.refs[2] \in 2 .. n
        BY <2>1, <3>2 DEF FrameOK
      <4>2. QED
        BY <1>2, <4>1
    <3>3. QED
      BY <2>1, <3>1, <3>2
  <2>3. QED
    BY <2>1, <2>2 DEF Targets
<1>4. QED
  BY <1>2, <1>3, Retyped DEF BlockOrNull

LEMMA RefsAreBlocks ==
  ASSUME NEW f, NEW n \in Nat, FrameOK(f, n), f.at # "item"
  PROVE  ToSet(f.refs) \subseteq 0 .. n
<1>1. f \in FrameRecord /\ f.refs \in Seq(Nat) /\ f.at \in Labels
  BY DEF FrameOK, FrameRecord
<1>2. \A i \in 1 .. Len(f.refs) : f.refs[i] \in 0 .. n
  <2>1. CASE f.at \in {"stmt", "exp", "finish", "apply", "branch", "create"}
    BY <2>1 DEF FrameOK
  <2>2. CASE f.at \in {"then", "rhs", "else", "lhs"}
    <3>1. Len(f.refs) = 1 /\ f.refs[1] \in 0 .. n
      BY <2>2 DEF FrameOK, NoBlock
    <3>2. QED
      BY <3>1
  <2>3. CASE f.at = "test"
    <3>1. /\ Len(f.refs) = 3 /\ f.refs[1] \in 2 .. n /\ f.refs[3] = f.refs[1] + 2
          /\ f.refs[3] <= n /\ f.refs[2] = f.refs[1] + 1
      BY <2>3 DEF FrameOK
    <3>2. \A i \in 1 .. 3 : i = 1 \/ i = 2 \/ i = 3
      OBVIOUS
    <3>3. f.refs[1] \in 0 .. n /\ f.refs[2] \in 0 .. n /\ f.refs[3] \in 0 .. n
      BY <3>1
    <3>4. QED
      BY <3>1, <3>2, <3>3
  <2>4. CASE f.at = "loop"
    <3>1. Len(f.refs) = 2 /\ f.refs[1] \in 2 .. n /\ f.refs[2] \in 2 .. n
      BY <2>4 DEF FrameOK
    <3>2. \A i \in 1 .. 2 : i = 1 \/ i = 2
      OBVIOUS
    <3>3. f.refs[1] \in 0 .. n /\ f.refs[2] \in 0 .. n
      BY <3>1
    <3>4. QED
      BY <3>1, <3>2, <3>3
  <2>5. QED
    BY <1>1, <2>1, <2>2, <2>3, <2>4 DEF Labels
<1>3. QED
  BY <1>2 DEF ToSet

LEMMA InvTypeOK == Inv => TypeOK
<1> SUFFICES ASSUME Inv PROVE TypeOK
  OBVIOUS
<1>1. LoweringInv /\ LoopInv /\ ScopeInv
  BY DEF Inv, Nesting
<1>2. /\ GoodFn(fn) /\ frames \in Seq(FrameRecord)
      /\ status \in {"lowering", "done", "rejected"}
      /\ \A k \in 1 .. Len(frames) : FrameOK(frames[k], Len(fn.blocks))
  BY <1>1 DEF LoweringInv, FrameInv
<1>3. Len(fn.blocks) \in Nat /\ fn.current \in Nat
  BY <1>2 DEF GoodFn, AnyFn
<1>4. fn.current \in BlockOrNull
  BY <1>2, <1>3 DEF GoodFn, Opens, BlockOrNull, NoBlock
<1>5. fn.blocks \in Seq(Seq(Instruction))
  BY <1>2, InstructionsTyped
<1>6. loops \in Seq([break : BlockOrNull, continue : BlockOrNull])
  BY <1>1, LoopsTyped
<1>7. \A k \in 1 .. Len(frames) : frames[k].at # "item" => ToSet(frames[k].refs) \subseteq BlockOrNull
  BY <1>2, <1>3, RefsAreBlocks DEF BlockOrNull
<1>8. scopes \in Nat
  BY <1>1 DEF ScopeInv
<1>9. QED
  BY <1>2, <1>4, <1>5, <1>6, <1>7, <1>8, Zenon DEF TypeOK, FrameRecord

(* Types: the frames hold nodes and blocks of the function, every target of   *)
(* an instruction and of a loop is one of its blocks.                        *)
THEOREM LoweringTypes == Spec => []TypeOK
BY LoweringInvariant, InvTypeOK, PTL

LEMMA InvNeverWithoutBlock == Inv => NeverWithoutBlock
<1> SUFFICES ASSUME Inv, NeedsBlock PROVE fn.current # NoBlock
  BY DEF NeverWithoutBlock
<1>1. frames # <<>> /\ Top.at \in {"branch", "test", "apply", "lhs", "rhs", "finish", "stmt"}
  BY DEF NeedsBlock, At
<1>2. Top.at \in Filling
  BY <1>1 DEF Filling, InExpression, ExpLabels
<1>3. QED
  BY <1>1, <1>2, TopFacts DEF Inv

(* FuncContext::current_block() always has a block to return: an instruction  *)
(* is only emitted where control can arrive.                                 *)
THEOREM AlwaysInABlock == Spec => []NeverWithoutBlock
BY LoweringInvariant, InvNeverWithoutBlock, PTL

LEMMA InvOneTerminator == Inv => OneTerminator
<1> SUFFICES ASSUME Inv PROVE OneTerminator
  OBVIOUS
<1>1. GoodFn(fn)
  BY DEF Inv, LoweringInv, FrameInv
<1>2. fn.current # NoBlock => Open(fn.current)
  <2>1. fn.current # NoBlock => fn.current \in Opens(fn)
    BY <1>1 DEF GoodFn
  <2>2. QED
    BY <2>1 DEF Opens, Open
<1>3. QED
  BY <1>1, <1>2 DEF GoodFn, OneTerminator

(* No instruction follows the terminator of its block, whatever returns,     *)
(* breaks and continues are nested in whatever statements and operators.      *)
THEOREM TerminatedOnce == Spec => []OneTerminator
BY LoweringInvariant, InvOneTerminator, PTL

LEMMA OwnedIsWanted ==
  ASSUME NEW f, NEW n \in Nat, FrameOK(f, n)
  PROVE  Owned(f) \subseteq Wanted(f)
<1>1. CASE f.at \in {"then", "rhs", "else"}
  <2>1. Len(f.refs) = 1 /\ f.at # "item" /\ f.at # "lhs"
    BY <1>1 DEF FrameOK
  <2>2. f.refs[1] \in ToSet(f.refs)
    BY <2>1 DEF ToSet
  <2>3. QED
    BY <1>1, <2>1, <2>2 DEF Owned, Wanted
<1>2. CASE f.at = "test"
  <2>1. Len(f.refs) = 3
    BY <1>2 DEF FrameOK
  <2>2. f.refs[2] \in ToSet(f.refs) /\ f.refs[3] \in ToSet(f.refs)
    BY <2>1 DEF ToSet
  <2>3. QED
    BY <1>2, <2>2 DEF Owned, Wanted
<1>3. CASE f.at = "loop"
  <2>1. Len(f.refs) = 2
    BY <1>3 DEF FrameOK
  <2>2. f.refs[2] \in ToSet(f.refs)
    BY <2>1 DEF ToSet
  <2>3. QED
    BY <1>3, <2>2 DEF Owned, Wanted
<1>4. CASE f.at = "lhs"
  BY <1>4 DEF Owned, Wanted
<1>5. CASE f.at \notin {"then", "rhs", "else", "test", "loop", "lhs"}
  BY <1>5 DEF Owned
<1>6. QED
  BY <1>1, <1>2, <1>3, <1>4, <1>5

LEMMA InvNoBlockForgotten == Inv => NoBlockForgotten
<1> SUFFICES ASSUME Inv, status # "rejected", NEW b \in 1 .. Len(fn.blocks), Open(b)
             PROVE  \/ status = "lowering" /\ b = fn.current
                    \/ \E k \in 1 .. Len(frames) : b \in Wanted(frames[k])
  BY DEF NoBlockForgotten
<1>1. b \in Opens(fn) /\ LoweringInv /\ DoneInv
  BY OpenIsOpen DEF Inv
<1>2. status \in {"lowering", "done"} /\ Len(fn.blocks) \in Nat
  BY <1>1 DEF LoweringInv, FrameInv, GoodFn, AnyFn
<1>3. CASE status = "done"
  <2>1. frames = <<>> /\ Current = {}
    BY <1>1, <1>3 DEF DoneInv, Current
  <2>2. QED
    BY <1>1, <2>1, EmptyFrames
<1>4. CASE status = "lowering" /\ b # fn.current
  <2>1. PICK k \in 1 .. Len(frames) : b \in Owned(frames[k])
    BY <1>1, <1>4 DEF LoweringInv, OwnInv, Current
  <2>2. Owned(frames[k]) \subseteq Wanted(frames[k])
    <3>1. FrameOK(frames[k], Len(fn.blocks))
      BY <1>1 DEF LoweringInv, FrameInv
    <3>2. QED
      BY <1>2, <3>1, OwnedIsWanted
  <2>3. QED
    BY <2>1, <2>2
<1>5. QED
  BY <1>2, <1>3, <1>4

(* Every block is filled in the end: the open blocks are the current one and  *)
(* those a call in progress will return to, and a finished function has none. *)
THEOREM EveryBlockTerminated == Spec => []NoBlockForgotten
BY LoweringInvariant, InvNoBlockForgotten, PTL

LEMMA InvStacks == Inv => StacksMatchNesting
<1> SUFFICES ASSUME Inv PROVE StacksMatchNesting
  OBVIOUS
<1> DEFINE Rank(k) == Cardinality({m \in OpenLoops : m <= k})
<1>1. Len(frames) \in Nat
  BY DEF Inv, LoweringInv, FrameInv
<1>2. PICK s : /\ Marks(s, frames, LoopLabels) /\ Len(loops) = Len(s)
               /\ \A i \in 1 .. Len(s) : loops[i] = Targets(frames[s[i]])
  BY DEF Inv, Nesting, LoopInv
<1>3. OpenLoops = Labelled(frames, LoopLabels)
  BY DEF OpenLoops, FramesAt, LoopLabels, Labelled
<1>4. /\ Cardinality(OpenLoops) = Len(s)
      /\ \A k \in OpenLoops : \E i \in 1 .. Len(s) : s[i] = k
      /\ \A i \in 1 .. Len(s) : Rank(s[i]) = i
  <2>1. Marks(s, frames, LoopLabels)
    BY <1>2
  <2>2. Cardinality(OpenLoops) = Len(s) /\ \A k \in OpenLoops : \E i \in 1 .. Len(s) : s[i] = k
    BY <1>1, <1>3, <2>1, MarksCounted
  <2>3. \A i \in 1 .. Len(s) : Cardinality(UpTo(OpenLoops, s[i])) = i
    BY <1>1, <1>3, <2>1, MarksCounted
  <2>4. \A x : UpTo(OpenLoops, x) = {m \in OpenLoops : m <= x}
    BY DEF UpTo
  <2>5. QED
    BY <2>2, <2>3, <2>4, Zenon
<1>5. ASSUME NEW k \in OpenLoops
      PROVE  loops[Rank(k)] = [break |-> frames[k].refs[Len(frames[k].refs)],
                               continue |-> frames[k].refs[1]]
  <2>1. PICK i \in 1 .. Len(s) : s[i] = k
    BY <1>4
  <2>2. Rank(s[i]) = i
    BY <1>4
  <2> HIDE DEF Rank
  <2>3. QED
    BY <1>2, <2>1, <2>2 DEF Targets
<1>6. PICK t : /\ Marks(t, frames, {"item"})
               /\ scopes = (IF status = "done" THEN 0 ELSE 1) + Len(t)
  BY DEF Inv, Nesting, ScopeInv
<1>7. Cardinality(FramesAt({"item"})) = Len(t)
  <2>1. Marks(t, frames, {"item"})
    BY <1>6
  <2>2. FramesAt({"item"}) = Labelled(frames, {"item"})
    BY DEF FramesAt, Labelled
  <2>3. QED
    BY <1>1, <2>1, <2>2, MarksCounted
<1>8. QED
  BY <1>2, <1>4, <1>5, <1>6, <1>7 DEF StacksMatchNesting

(* loop_stack_ and the scope stack follow the nesting of the source, also    *)
(* where a loop or a block is left by break, continue or return.             *)
THEOREM StacksFollowNesting == Spec => []StacksMatchNesting
BY LoweringInvariant, InvStacks, PTL

LEMMA InvReachable == Inv => (status = "done" => AllReachable)
<1> SUFFICES ASSUME Inv, status = "done" PROVE AllReachable
  OBVIOUS
<1> DEFINE n == Len(fn.blocks)
           succ == [b \in 1 .. n |-> TargetsOf(b)]
<1>1. frames = <<>> /\ LoweringInv
  BY DEF Inv, DoneInv
<1>2. GoodFn(fn) /\ n \in Nat /\ 1 <= n
  BY <1>1 DEF LoweringInv, FrameInv, GoodFn, AnyFn
<1>3. \A b \in 1 .. n : succ[b] = Succs(fn, b) /\ Succs(fn, b) \subseteq 2 .. n
  BY <1>2 DEF TargetsOf, Succs, GoodFn
<1> HIDE DEF succ
<1>4. ASSUME NEW R \in SUBSET (2 .. n), \A b \in {1} \cup R : succ[b] \subseteq R
      PROVE  R = 2 .. n
  <2> DEFINE S == {1} \cup R
  <2>1. S \in SUBSET (1 .. n) /\ 1 \in S
    BY <1>2
  <2>2. Closed(fn, S)
    BY <1>3, <1>4, <2>1 DEF Closed
  <2>3. S = 1 .. n
    BY <1>1, <2>1, <2>2, EmptyFrames
  <2>4. \A x \in 2 .. n : x \in S /\ x # 1
    BY <2>3
  <2>5. QED
    BY <2>4
<1>5. \A b \in 1 .. n : 1 \notin succ[b]
  BY <1>3
<1>6. QED
  BY <1>4, <1>5 DEF AllReachable, succ

(* Lowering makes no unreachable block and no edge back to the entry, which   *)
(* is what keeps Mem2Reg's edge arguments and block parameters in step.       *)
THEOREM FinishedReachable == Spec => EveryBlockReachable
<1> DEFINE Reached == status = "done" => AllReachable
<1>1. Inv => Reached
  BY InvReachable
<1>2. Reached' => [status = "lowering" /\ status' = "done" => AllReachable']_vars
  OBVIOUS
<1> HIDE DEF Reached
<1>3. QED
  BY <1>1, <1>2, LoweringInvariant, PTL DEF EveryBlockReachable
=============================================================================
