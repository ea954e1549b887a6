---------------------------- MODULE PipelineProofs ----------------------------
(***************************************************************************)
(* Proof about Pipeline, for every set of command lines and of modules: what   *)
(* an exit code of 0 says of the output file.  The invariant follows the file: *)
(* while pieces are emitted into a good stream it holds exactly those before   *)
(* the position, and nothing is in it before the last verification.          *)
(***************************************************************************)
EXTENDS Pipeline, TLAPS

Prefix == [k \in 1..position |-> Pieces(mode, module)[k]]
Early == {"options", "parse", "open", "build", "verify"}
Before == Early \cup {"passes"}

IInv ==
  /\ module \in Modules \cup Rewritten \cup {NoModule}
  /\ stage \in Before \cup {"emit", "end"}
  /\ position \in Nat
  /\ stage \in Early => position = 0
  /\ stage \in Before => written = <<>> /\ exit = "none"
  /\ stage \in {"options", "parse", "open"} => file = "closed"
  /\ stage = "emit" => (mode = "-ast" \/ Verified(module)) /\ exit # "success"
  /\ stage = "emit" /\ exit = "none" /\ file = "good" => written = Prefix
  /\ SuccessIsWholeOutput

(* The pieces of a module form a sequence: what was emitted up to the last is    *)
(* all of it.                                                              *)
LEMMA PiecesSequence ==
  ASSUME NEW md, NEW m \in Modules \cup Rewritten \cup {NoModule}
  PROVE  Pieces(md, m) \in Seq(Range(Pieces(md, m)))
<1> DEFINE S == {<<"tree", 1>>} \cup {<<"global", k>> : k \in Nat} \cup {<<"function", k>> : k \in Nat}
<1>1. m.globals \in Seq(Range(m.globals)) /\ m.funcs \in Seq(Range(m.funcs))
  <2>1. CASE m = NoModule
    BY <2>1 DEF NoModule
  <2>2. CASE m \in Modules \cup Rewritten
    BY <2>2, ModulesAssumption DEF ModulesAssumption, IsModule
  <2>3. QED
    BY <2>1, <2>2
<1>2. Globals(m) \in Seq(S)
  <2>1. Globals(m) = [g \in 1..Len(m.globals) |-> <<"global", g>>] /\ Len(m.globals) \in Nat
    BY <1>1 DEF Globals
  <2>2. \A g \in 1..Len(m.globals) : <<"global", g>> \in S
    BY <2>1
  <2> HIDE DEF S
  <2>3. QED
    BY <2>1, <2>2
<1>3. Functions(m) \in Seq(S)
  <2>1. Functions(m) = [k \in 1..Len(m.funcs) |-> <<"function", k>>] /\ Len(m.funcs) \in Nat
    BY <1>1 DEF Functions
  <2>2. \A k \in 1..Len(m.funcs) : <<"function", k>> \in S
    BY <2>1
  <2> HIDE DEF S
  <2>3. QED
    BY <2>1, <2>2
<1>4. Pieces(md, m) \in Seq(S)
  <2>1. <<"tree", 1>> \in S
    OBVIOUS
  <2> HIDE DEF S
  <2>2. <<<<"tree", 1>>>> \in Seq(S) /\ Globals(m) \o Functions(m) \in Seq(S)
    BY <1>2, <1>3, <2>1
  <2>3. QED
    BY <2>2 DEF Pieces
<1>5. \A s \in Seq(S) : s \in Seq(Range(s))
  BY DEF Range
<1>6. QED
  BY <1>4, <1>5

(* The file agrees with the position through every step.                      *)
LEMMA Inductive == IInv /\ [Next]_vars => IInv'
<1> SUFFICES ASSUME IInv, [Next]_vars PROVE IInv'
  OBVIOUS
<1> USE DEF IInv, Early, Before, SuccessIsWholeOutput, Exit
<1>1. CASE ParseOptions
  <2>1. written = <<>> /\ written' = written /\ file' = "closed" /\ position' = 0
        /\ module' = module
    BY <1>1 DEF ParseOptions
  <2>2. \/ stage' = "parse" /\ exit' = "none"
        \/ stage' = "end"
    BY <1>1 DEF ParseOptions
  <2>3. QED
    BY <2>1, <2>2
<1>2. CASE ParseAst
  BY <1>2 DEF ParseAst
<1>3. CASE OpenOutput
  <2>1. written' = <<>> /\ position' = 0 /\ module' = module /\ mode' = mode
    BY <1>3 DEF OpenOutput
  <2>2. Prefix' = <<>>
    BY <2>1 DEF Prefix
  <2>3. \/ exit' = "failure" /\ stage' = "end"
        \/ exit' = "none" /\ stage' = "emit" /\ mode = "-ast"
        \/ exit' = "none" /\ stage' = "build"
    BY <1>3 DEF OpenOutput
  <2>4. QED
    BY <2>1, <2>2, <2>3
<1>4. CASE Build
  BY <1>4 DEF Build
<1>5. CASE VerifyBeforePasses
  BY <1>5 DEF VerifyBeforePasses
<1>6. CASE RunPass
  <2>1. module' \in Modules \cup Rewritten \cup {NoModule}
    BY <1>6 DEF RunPass
  <2>2. position' \in Nat /\ stage' = "passes" /\ written' = <<>> /\ exit' = "none"
    BY <1>6 DEF RunPass
  <2>3. QED
    BY <2>1, <2>2
<1>7. CASE VerifyAfterPasses
  <2>1. written' = <<>> /\ position' = 0 /\ module' = module /\ mode' = mode
    BY <1>7 DEF VerifyAfterPasses
  <2>2. Prefix' = <<>>
    BY <2>1 DEF Prefix
  <2>3. \/ exit' = "failure" /\ stage' = "end"
        \/ exit' = "none" /\ stage' = "emit" /\ Verified(module)
    BY <1>7 DEF VerifyAfterPasses
  <2>4. QED
    BY <2>1, <2>2, <2>3
<1>8. CASE EmitPiece
  <2> DEFINE P == Pieces(mode, module)
  <2>1. /\ stage = "emit" /\ stage' = "emit" /\ exit = "none" /\ exit' = "none"
        /\ position' = position + 1 /\ module' = module /\ mode' = mode
    BY <1>8 DEF EmitPiece
  <2>2. Pieces(mode', module') = P
    BY <2>1
  <2>3. ASSUME file' = "good" PROVE written' = Prefix'
    <3>1. file = "good" /\ written' = Append(written, P[position + 1])
      BY <1>8, <2>3 DEF EmitPiece, Write, NextPiece
    <3>2. written = [k \in 1..position |-> P[k]]
      BY <2>1, <3>1 DEF Prefix
    <3>3. Append(written, P[position + 1]) = [k \in 1..(position + 1) |-> P[k]]
      <4> HIDE DEF P
      <4>1. Len(written) = position
        BY <3>2
      <4>2. QED
        BY <3>2, <4>1
    <3>4. Prefix' = [k \in 1..(position + 1) |-> P[k]]
      BY <2>1, <2>2 DEF Prefix
    <3>5. QED
      BY <3>1, <3>3, <3>4
  <2>4. QED
    BY <2>1, <2>3
<1>9. CASE EmitThrows
  BY <1>9 DEF EmitThrows
<1>10. CASE EmitUndefined
  BY <1>10 DEF EmitUndefined
<1>11. CASE EndEmission
  <2> DEFINE P == Pieces(mode, module)
  <2>1. /\ stage = "emit" /\ exit = "none" /\ position = Len(P)
        /\ stage' = "end" /\ exit' = "success"
        /\ UNCHANGED <<mode, module, position, file, written>>
    BY <1>11 DEF EndEmission
  <2>2. file = "good" => written = P
    <3>1. P \in Seq(Range(P))
      BY PiecesSequence
    <3>2. P = [k \in 1..Len(P) |-> P[k]]
      <4> HIDE DEF P
      <4>1. QED
        BY <3>1
    <3>3. QED
      BY <2>1, <3>2 DEF Prefix
  <2>3. mode = "-ast" \/ Verified(module)
    BY <2>1
  <2>4. Pieces(mode', module') = P /\ (Verified(module') <=> Verified(module))
    BY <2>1
  <2>5. QED
    BY <2>1, <2>2, <2>3, <2>4
<1>12. CASE UNCHANGED vars
  BY <1>12 DEF vars, Prefix
<1>13. QED
  BY <1>1, <1>2, <1>3, <1>4, <1>5, <1>6, <1>7, <1>8, <1>9, <1>10, <1>11, <1>12 DEF Next, Emit

(* An exit code of 0 and no failing write mean that the output file has the      *)
(* whole of what the mode asks for, of a verified module; and nothing is in the  *)
(* file before the module it is made of has been verified: for every command     *)
(* line, every module the builder returns and whatever Mem2Reg makes of it.     *)
THEOREM ExitCodeTells == Spec => []SuccessIsWholeOutput
<1>1. Init => IInv
  BY DEF Init, IInv, Early, Before, SuccessIsWholeOutput, NoModule
<1>2. IInv => SuccessIsWholeOutput
  BY DEF IInv
<1>3. QED
  BY <1>1, <1>2, Inductive, PTL DEF Spec

-----------------------------------------------------------------------------
(* What the verifier promises to the emitters.                              *)

(* Pointers and i32 have a size, which gives them slots in the frame; the types a   *)
(* pointer points to and the pointers to them can be made.                     *)
LEMMA TypesHaveSize ==
  ASSUME NEW type \in Types
  PROVE  /\ PointerBase(type) # <<>> => IsPointer(type)
         /\ IsPointer(type) => HasSize(type)
         /\ PointerBase(type) \in Types
         /\ PointerTo(type) \in Types /\ HasSize(PointerTo(type))
         /\ HasSize(I32) /\ ~IsArray(I32) /\ ~IsArray(<<>>) /\ ~IsPointer(<<>>)
<1> DEFINE Tags == {"i32", "unit", "pointer", "function"} \cup ArrayTags
<1>1. type \in Seq(Tags) /\ Types = Seq(Tags) /\ "pointer" \in Tags
  BY DEF Types
<1> HIDE DEF Tags
<1>2. PointerBase(type) # <<>> => IsPointer(type)
  BY DEF PointerBase
<1>3. ASSUME NEW s \in Seq(Tags), IsPointer(s) PROVE HasSize(s)
  <2>1. 1 \in DOMAIN s /\ s[1] = "pointer"
    BY <1>3 DEF IsPointer
  <2>2. QED
    BY <2>1 DEF HasSize
<1>4. PointerBase(type) \in Types
  BY <1>1 DEF PointerBase, IsPointer
<1>5. PointerTo(type) \in Seq(Tags) /\ IsPointer(PointerTo(type))
  BY <1>1 DEF PointerTo, IsPointer
<1>6. HasSize(I32)
  <2>1. 1 \in DOMAIN I32 /\ I32[1] = "i32"
    BY DEF I32
  <2>2. QED
    BY <2>1 DEF HasSize
<1>7. ~IsArray(I32) /\ ~IsArray(<<>>) /\ ~IsPointer(<<>>)
  BY DEF I32, IsArray, IsPointer, ArrayTags
<1>8. QED
  BY <1>1, <1>2, <1>3, <1>4, <1>5, <1>6, <1>7

(* What the recursion into an initializer of integers meets is an i32 or an array  *)
(* that zeros can be stored in.                                              *)
LEMMA PartFits ==
  ASSUME NEW type \in Types, NEW path \in Seq(Nat), OfIntegers(type),
         \A i \in DOMAIN path : i \in DOMAIN type /\ type[i] \in ArrayTags
  PROVE  LET part == Within(type, path)
         IN part = I32 \/ (IsArray(part) /\ ZeroStores(part))
<1> DEFINE Tags == {"i32", "unit", "pointer", "function"} \cup ArrayTags
           n == Len(path)
           L == Len(type)
           part == Within(type, path)
<1>1. type \in Seq(Tags)
  BY DEF Types
<1>2. "i32" \notin ArrayTags
  BY DEF ArrayTags
<1> HIDE DEF Tags
<1>3. n \in Nat /\ L \in Nat /\ L >= 1
  BY <1>1 DEF OfIntegers
<1>4. n < L
  <2>1. SUFFICES ASSUME L <= n PROVE FALSE
    BY <1>3
  <2>2. L \in DOMAIN path
    BY <1>3, <2>1
  <2>3. QED
    BY <1>2, <2>2 DEF OfIntegers
<1> DEFINE N == L - n
<1>5. N \in Nat \ {0} /\ part = [i \in 1..N |-> type[n + i]]
  BY <1>1, <1>3, <1>4 DEF Within
<1>6. \A i \in 1..N : type[n + i] \in ArrayTags \/ (n + i = L /\ type[n + i] = "i32")
  BY <1>3, <1>4 DEF OfIntegers
<1> HIDE DEF N
<1> DEFINE S == ArrayTags \cup {"i32"}
<1>7. part \in Seq(S) /\ Len(part) = N
  <2>1. \A i \in 1..N : type[n + i] \in S
    BY <1>6
  <2> HIDE DEF S
  <2>2. QED
    BY <1>5, <2>1
<1> USE DEF N
<1>8. CASE n + 1 = L
  <2>1. Len(part) = 1 /\ part[1] = "i32"
    <3>1. N = 1 /\ type[n + 1] = "i32"
      BY <1>3, <1>8 DEF OfIntegers
    <3>2. part[1] = type[n + 1]
      BY <1>5
    <3>3. QED
      BY <1>7, <3>1, <3>2
  <2> HIDE DEF part
  <2>2. part = I32
    BY <1>7, <2>1 DEF I32
  <2>3. QED
    BY <2>2 DEF part
<1>9. CASE n + 1 # L
  <2>1. part # <<>> /\ part[1] \in ArrayTags
    <3>1. part[1] = type[n + 1] /\ type[n + 1] \in ArrayTags
      BY <1>3, <1>5, <1>6, <1>9
    <3>2. Len(part) # 0
      BY <1>5, <1>7
    <3>3. QED
      BY <3>1, <3>2
  <2> HIDE DEF part
  <2>2. IsArray(part)
    BY <1>7, <2>1 DEF IsArray
  <2>3. \A d \in DOMAIN part : part[d] \in ArrayTags \cup {"i32"}
    BY <1>7
  <2>4. ZeroStores(part)
    BY <2>1, <2>3 DEF ZeroStores
  <2>5. QED
    BY <2>2, <2>4 DEF part
<1>10. QED
  BY <1>8, <1>9

(* An initializer that is well typed part by part is stored without a failure     *)
(* if it is made of integers, assembled as a global of its type in any case, and  *)
(* printed.                                                                *)
LEMMA InitializerIsTaken ==
  ASSUME NEW m, NEW f, NEW v, IsOperand(m, f, v), WellTyped(v)
  PROVE  /\ PrintsValue(v)
         /\ \A path \in Visited(v, v.type) : WordFails(Node(v, path), Within(v.type, path)) = {}
         /\ v.type \in Types /\ OfIntegers(v.type) =>
              \A path \in Visited(v, v.type) :
                ElementFails(f, Node(v, path), Within(v.type, path)) = {}
<1>1. PrintsValue(v)
  BY DEF PrintsValue, WellTyped
<1>2. ~IsArray(I32)
  BY DEF IsArray, I32, ArrayTags
<1>3. ASSUME NEW path \in Visited(v, v.type)
      PROVE  /\ Node(v, path).k \in {"zero", "integer", "aggregate"}
             /\ Node(v, path).k = "integer" => Within(v.type, path) = I32
             /\ Node(v, path).k = "aggregate" => IsArray(Within(v.type, path))
  BY DEF Visited, WellTyped
<1>4. ASSUME NEW path \in Visited(v, v.type)
      PROVE  WordFails(Node(v, path), Within(v.type, path)) = {}
  BY <1>2, <1>3 DEF WordFails, Guard
<1>5. ASSUME NEW path \in Visited(v, v.type), v.type \in Types, OfIntegers(v.type)
      PROVE  ElementFails(f, Node(v, path), Within(v.type, path)) = {}
  <2>1. path \in Seq(Nat) /\ \A i \in DOMAIN path : i \in DOMAIN v.type /\ v.type[i] \in ArrayTags
    BY DEF Visited, IsOperand
  <2>2. \/ Within(v.type, path) = I32
        \/ IsArray(Within(v.type, path)) /\ ZeroStores(Within(v.type, path))
    BY <1>5, <2>1, PartFits
  <2>3. Node(v, path).k = "integer" => Materializes(f, Node(v, path))
    BY DEF Materializes
  <2>4. QED
    BY <1>2, <1>3, <2>2, <2>3 DEF ElementFails, Guard
<1>6. QED
  BY <1>1, <1>4, <1>5

(* The type of an operand is one that can be made.                            *)
LEMMA OperandTyped ==
  ASSUME NEW m, NEW f, NEW o, IsModule(m), IsFunction(m, f), IsOperand(m, f, o)
  PROVE  TypeOf(m, f, o) \in Types
<1>1. Exists(m, f, o)
  BY DEF IsOperand, Paths, Node
<1>2. <<>> \in Types
  BY DEF Types
<1>3. CASE o.k \in Constants
  BY <1>1, <1>3 DEF Exists, TypeOf, Constants
<1>4. CASE o.k = "value"
  BY <1>1, <1>4 DEF Exists, TypeOf, Constants, IsFunction, IsInstruction
<1>5. CASE o.k = "param"
  BY <1>1, <1>5 DEF Exists, TypeOf, Constants, IsFunction
<1>6. CASE o.k = "arg"
  BY <1>1, <1>6 DEF Exists, TypeOf, Constants, IsFunction
<1>7. CASE o.k = "global"
  <2>1. m.globals[o.n].base \in Types
    BY <1>1, <1>7 DEF Exists, Constants, IsModule
  <2>2. PointerTo(m.globals[o.n].base) \in Types
    BY <2>1, TypesHaveSize
  <2>3. QED
    BY <1>2, <1>7, <2>2 DEF TypeOf, Constants
<1>8. CASE o.k = "null"
  BY <1>2, <1>8 DEF TypeOf, Constants
<1>9. QED
  BY <1>1, <1>3, <1>4, <1>5, <1>6, <1>7, <1>8 DEF Exists

(* An operand with a size that is not one of the constants the selector refuses   *)
(* has a place from which its value is read and, unless it is an argument or an     *)
(* integer, one whose address is formed.                                      *)
LEMMA OperandsHavePlaces ==
  ASSUME NEW m, NEW f, NEW o, IsOperand(m, f, o),
         o.k \notin {"null"} \cup (Constants \ {"integer"}), HasSize(TypeOf(m, f, o))
  PROVE  Materializes(f, o) /\ (o.k \notin {"arg", "integer"} => Addressable(f, o))
<1>1. o.k \in {"integer", "value", "param", "arg", "global"}
  <2>1. Exists(m, f, o)
    BY DEF IsOperand, Paths, Node
  <2>2. QED
    BY <2>1 DEF Exists, Constants
<1>2. CASE o.k \in {"integer", "arg", "global"}
  BY <1>2 DEF Materializes, Addressable
<1>3. CASE o.k = "value"
  <2>1. TypeOf(m, f, o) = InstOf(f, o).type
    BY <1>3 DEF TypeOf, InstOf, Constants
  <2>2. QED
    BY <1>3, <2>1 DEF Materializes, Addressable, HasValueSlot, HasObjectSlot
<1>4. CASE o.k = "param"
  <2>1. TypeOf(m, f, o) = f.blocks[o.b].params[o.n]
    BY <1>4 DEF TypeOf, Constants
  <2>2. QED
    BY <1>4, <2>1 DEF Materializes, Addressable, HasValueSlot
<1>5. QED
  BY <1>1, <1>2, <1>3, <1>4

(* An instruction that is verified, and is none of the named cases, is selected   *)
(* and printed.                                                             *)
LEMMA RightIsTaken ==
  ASSUME NEW m, NEW f, NEW inst, IsModule(m), IsFunction(m, f),
         IsInstruction(m, f, inst), InstructionRight(m, f, inst), ~NotTaken(m, f, inst)
  PROVE  SelectFails(m, f, inst) = {} /\ PrintInstFails(inst) = {}
<1> DEFINE Fit(o) == Materializes(f, o) /\ (o.k \notin {"arg", "integer"} => Addressable(f, o))
           type(k) == TypeOf(m, f, inst.in[k])
<1>1. \A o \in PlainOperands(inst) : o.k # "null" =>
        Fit(o) /\ HasSize(TypeOf(m, f, o)) /\ o.k # "aggregate"
  <2> SUFFICES ASSUME NEW o \in PlainOperands(inst), o.k # "null"
               PROVE  Fit(o) /\ HasSize(TypeOf(m, f, o)) /\ o.k # "aggregate"
    OBVIOUS
  <2>1. o.k \notin Constants \ {"integer"} /\ HasSize(TypeOf(m, f, o))
    BY DEF NotTaken
  <2>2. IsOperand(m, f, o)
    <3>1. \A x \in OperandsOf(inst) : IsOperand(m, f, x)
      BY DEF IsInstruction
    <3>2. CASE StoresInitializer(inst)
      <4>1. DOMAIN inst.in = 1..2
        BY <3>2 DEF IsInstruction, Arity, StoresInitializer
      <4>2. inst.in[2] \in OperandsOf(inst)
        BY <4>1 DEF OperandsOf, Range
      <4>3. QED
        BY <3>1, <3>2, <4>2 DEF PlainOperands
    <3>3. CASE ~StoresInitializer(inst)
      BY <3>1, <3>3 DEF PlainOperands
    <3>4. QED
      BY <3>2, <3>3
  <2>3. QED
    BY <2>1, <2>2, OperandsHavePlaces DEF Constants
<1>2. ~StoresInitializer(inst) => \A k \in DOMAIN inst.in : inst.in[k] \in PlainOperands(inst)
  BY DEF PlainOperands, OperandsOf, Range
<1>3. inst.op # "store" => ~StoresInitializer(inst)
  BY DEF StoresInitializer
<1>4. \A o : o.k = "null" => TypeOf(m, f, o) = <<>>
  BY DEF TypeOf, Constants
<1>5. /\ I32 # <<>> /\ HasSize(I32) /\ PointerBase(<<>>) = <<>>
      /\ \A t \in Types : PointerBase(t) # <<>> => IsPointer(t)
  <2>1. I32 # <<>>
    BY DEF I32
  <2>2. <<>> \in Types
    BY DEF Types
  <2>3. HasSize(I32) /\ PointerBase(<<>>) = <<>>
    BY <2>2, TypesHaveSize DEF PointerBase
  <2>4. QED
    BY <2>1, <2>3, TypesHaveSize
<1>6. inst.op # "call" => DOMAIN inst.in = 1..Arity(inst.op)
  BY DEF IsInstruction
<1>7. \A k \in DOMAIN inst.in : TypeOf(m, f, inst.in[k]) \in Types
  <2>1. \A k \in DOMAIN inst.in : IsOperand(m, f, inst.in[k])
    BY DEF IsInstruction, OperandsOf, Range
  <2>2. QED
    BY <2>1, OperandTyped
<1>8. \A k \in DOMAIN inst.in :
        PointerBase(type(k)) # <<>> => inst.in[k].k # "null" /\ IsPointer(type(k))
  BY <1>4, <1>5, <1>7
<1>9. \A k \in DOMAIN inst.in : type(k) = I32 => inst.in[k].k # "null"
  BY <1>4, <1>5
<1>10. DOMAIN inst.to = DOMAIN inst.edge /\ (inst.op \notin {"br", "jump"} => DOMAIN inst.to = {})
  BY DEF IsInstruction
<1> HIDE DEF Fit
<1> DEFINE Result == SelectFails(m, f, inst) = {}
           Clean == \A k \in DOMAIN inst.in : inst.in[k].k # "null"
           Taken == /\ Result
                    /\ inst.op # "ret" => Clean
                    /\ inst.op \in {"alloc", "call"} => inst.type # <<>>
                    /\ inst.op = "call" => inst.callee # 0
                    /\ inst.op \in {"br", "jump"} => EdgesRight(m, f, inst)
<1> HIDE DEF Taken
<1>11. ASSUME inst.op \in {"br", "jump"}, EdgesRight(m, f, inst)
       PROVE  /\ EdgesFail(f, inst) = {}
              /\ \A e \in DOMAIN inst.to : inst.to[e] \in DOMAIN f.blocks
              /\ \A e \in DOMAIN inst.edge : \A k \in DOMAIN inst.edge[e] : inst.edge[e][k].k # "null"
  <2>1. \A e \in DOMAIN inst.edge : \A k \in DOMAIN inst.edge[e] :
          inst.edge[e][k] \in PlainOperands(inst)
    BY <1>3, <1>11 DEF PlainOperands, OperandsOf, Range
  <2>2. ASSUME NEW e \in DOMAIN inst.to PROVE EdgeFails(f, inst.to[e], inst.edge[e]) = {}
    <3>1. /\ inst.to[e] \in DOMAIN f.blocks
          /\ Len(inst.edge[e]) = Len(f.blocks[inst.to[e]].params)
          /\ \A k \in DOMAIN inst.edge[e] :
               /\ inst.edge[e][k].k # "null"
               /\ TypeOf(m, f, inst.edge[e][k]) = f.blocks[inst.to[e]].params[k]
      BY <1>11 DEF EdgesRight
    <3>2. \A k \in DOMAIN inst.edge[e] :
            /\ Materializes(f, inst.edge[e][k])
            /\ HasSize(f.blocks[inst.to[e]].params[k])
      BY <1>1, <1>10, <2>1, <3>1 DEF Fit
    <3>3. inst.to[e] # 0
      BY <3>1 DEF IsFunction
    <3>4. QED
      BY <3>1, <3>2, <3>3 DEF EdgeFails, Guard
  <2>3. QED
    BY <1>10, <1>11, <2>2 DEF EdgesFail, EdgesRight
<1>12. Taken
  <2>1. CASE inst.op = "alloc"
    <3>1. IsPointer(inst.type) /\ inst.type # <<>>
      BY <1>5, <2>1 DEF InstructionRight, IsInstruction, IsPointer
    <3>2. Result
      BY <2>1, <3>1 DEF SelectFails, Guard
    <3>3. Clean
      BY <1>6, <2>1 DEF Arity
    <3>4. QED
      BY <2>1, <3>1, <3>2, <3>3 DEF Taken
  <2>2. CASE inst.op = "load"
    <3>1. DOMAIN inst.in = 1..1 /\ PointerBase(type(1)) # <<>>
      BY <1>6, <2>2 DEF Arity, InstructionRight
    <3>2. inst.in[1].k # "null" /\ inst.in[1].k \notin {"arg", "integer"} /\ HasSize(inst.type)
      BY <1>8, <2>2, <3>1 DEF NotTaken
    <3>3. Addressable(f, inst.in[1])
      BY <1>1, <1>2, <1>3, <2>2, <3>1, <3>2 DEF Fit
    <3>4. Result
      BY <2>2, <3>2, <3>3 DEF SelectFails, Guard
    <3>5. QED
      BY <2>2, <3>1, <3>2, <3>4 DEF Taken
  <2>3. CASE inst.op = "store"
    <3>1. DOMAIN inst.in = 1..2 /\ PointerBase(type(2)) # <<>> /\ type(1) = PointerBase(type(2))
          /\ inst.in[1].k # "null"
      BY <1>6, <2>3 DEF Arity, InstructionRight
    <3>2. inst.in[2].k # "null" /\ inst.in[2].k \notin {"arg", "integer"}
      BY <1>8, <2>3, <3>1 DEF NotTaken
    <3>3. inst.in[2] \in PlainOperands(inst)
      BY <3>1 DEF PlainOperands, OperandsOf, Range
    <3>4. Addressable(f, inst.in[2])
      BY <1>1, <3>2, <3>3 DEF Fit
    <3>5. ASSUME StoresInitializer(inst) PROVE Result
      <4> DEFINE v == inst.in[1]
      <4>1. v.k \in {"aggregate", "zero"}
        BY <3>5 DEF StoresInitializer
      <4>2. v.type = type(1) /\ v.type \in Types
        <5>1. TypeOf(m, f, v) = v.type
          BY <4>1 DEF TypeOf, Constants
        <5>2. QED
          BY <1>7, <3>1, <5>1
      <4>3. WellTyped(v) /\ OfIntegers(v.type)
        BY <3>5 DEF NotTaken
      <4>4. IsOperand(m, f, v)
        BY <3>1 DEF IsInstruction, OperandsOf, Range
      <4>5. \A path \in Visited(v, v.type) :
              ElementFails(f, Node(v, path), Within(v.type, path)) = {}
        BY <4>2, <4>3, <4>4, InitializerIsTaken
      <4>6. PointerBase(TypeOf(m, f, inst.in[2])) = v.type /\ v.type # <<>>
        BY <3>1, <4>2
      <4> HIDE DEF v
      <4>7. StoreFails(m, f, v, inst.in[2]) = {}
        BY <3>4, <4>1, <4>5, <4>6 DEF StoreFails, Guard
      <4>8. QED
        BY <2>3, <4>7 DEF SelectFails, v
    <3>6. ASSUME ~StoresInitializer(inst) PROVE Result
      <4>1. inst.in[1].k \notin {"aggregate", "zero", "null"}
        BY <2>3, <3>1, <3>6 DEF StoresInitializer
      <4>2. Materializes(f, inst.in[1])
        BY <1>1, <1>2, <3>1, <3>6 DEF Fit
      <4>3. StoreFails(m, f, inst.in[1], inst.in[2]) = {}
        BY <3>2, <3>4, <4>1, <4>2 DEF StoreFails, Guard
      <4>4. QED
        BY <2>3, <4>3 DEF SelectFails
    <3>7. QED
      BY <2>3, <3>1, <3>2, <3>5, <3>6 DEF Taken
  <2>4. CASE inst.op = "binary"
    <3>1. DOMAIN inst.in = 1..2 /\ type(1) = I32 /\ type(2) = I32 /\ inst.type = I32
      BY <1>6, <2>4 DEF Arity, InstructionRight
    <3>2. Clean
      BY <1>9, <3>1
    <3>3. \A k \in DOMAIN inst.in : Materializes(f, inst.in[k])
      BY <1>1, <1>2, <1>3, <2>4, <3>2 DEF Fit
    <3>4. Result
      BY <1>5, <2>4, <3>1, <3>3 DEF SelectFails, Guard
    <3>5. QED
      BY <2>4, <3>2, <3>4 DEF Taken
  <2>5. CASE inst.op = "getptr"
    <3>1. DOMAIN inst.in = 1..2 /\ PointerBase(type(1)) # <<>> /\ type(2) = I32 /\ inst.type = type(1)
      BY <1>6, <2>5 DEF Arity, InstructionRight
    <3>2. Clean /\ IsPointer(type(1))
      BY <1>8, <1>9, <3>1
    <3>3. \A k \in DOMAIN inst.in : Materializes(f, inst.in[k]) /\ HasSize(type(k))
      BY <1>1, <1>2, <1>3, <2>5, <3>2 DEF Fit
    <3>4. Result
      BY <2>5, <3>1, <3>2, <3>3 DEF SelectFails, Guard
    <3>5. QED
      BY <2>5, <3>2, <3>4 DEF Taken
  <2>6. CASE inst.op = "getelemptr"
    <3>1. DOMAIN inst.in = 1..2 /\ IsArrayStorage(type(1)) /\ type(2) = I32
          /\ inst.type = PointerTo(Tail(PointerBase(type(1))))
      BY <1>6, <2>6 DEF Arity, InstructionRight
    <3>2. PointerBase(type(1)) # <<>>
      BY <3>1 DEF IsArrayStorage, IsArray
    <3>3. Clean /\ inst.in[1].k \notin {"arg", "integer"}
      BY <1>8, <1>9, <2>6, <3>1, <3>2 DEF NotTaken
    <3>4. Addressable(f, inst.in[1]) /\ Materializes(f, inst.in[2])
      BY <1>1, <1>2, <1>3, <2>6, <3>1, <3>3 DEF Fit
    <3>5. HasSize(inst.type)
      <4>1. PointerBase(type(1)) \in Types
        BY <1>7, <3>1, TypesHaveSize
      <4>2. Tail(PointerBase(type(1))) \in Types
        BY <3>2, <4>1 DEF Types
      <4>3. QED
        BY <3>1, <4>2, TypesHaveSize
    <3>6. Result
      BY <2>6, <3>1, <3>4, <3>5 DEF SelectFails, Guard
    <3>7. QED
      BY <2>6, <3>3, <3>6 DEF Taken
  <2>7. CASE inst.op = "call"
    <3>1. inst.callee \in DOMAIN m.funcs /\ Clean /\ inst.type = m.funcs[inst.callee].result
      BY <2>7 DEF InstructionRight
    <3>2. inst.callee # 0 /\ inst.type # <<>>
      BY <3>1 DEF IsModule, IsFunction
    <3>3. inst.type = Unit \/ HasSize(inst.type)
      BY <2>7 DEF NotTaken
    <3>4. \A k \in DOMAIN inst.in : Materializes(f, inst.in[k])
      BY <1>1, <1>2, <1>3, <2>7, <3>1 DEF Fit
    <3>5. Result
      BY <2>7, <3>2, <3>3, <3>4 DEF SelectFails, Guard
    <3>6. QED
      BY <2>7, <3>1, <3>2, <3>5 DEF Taken
  <2>8. CASE inst.op = "br"
    <3>1. DOMAIN inst.in = 1..1 /\ type(1) = I32 /\ EdgesRight(m, f, inst)
      BY <1>6, <2>8 DEF Arity, InstructionRight
    <3>2. Clean
      BY <1>9, <3>1
    <3>3. \A k \in DOMAIN inst.in : Materializes(f, inst.in[k])
      BY <1>1, <1>2, <1>3, <2>8, <3>2 DEF Fit
    <3>4. Result
      BY <1>11, <2>8, <3>1, <3>3 DEF SelectFails, Guard
    <3>5. QED
      BY <2>8, <3>1, <3>2, <3>4 DEF Taken
  <2>9. CASE inst.op = "jump"
    <3>1. Clean /\ EdgesRight(m, f, inst)
      BY <1>6, <2>9 DEF Arity, InstructionRight
    <3>2. Result
      BY <1>11, <2>9, <3>1 DEF SelectFails
    <3>3. QED
      BY <2>9, <3>1, <3>2 DEF Taken
  <2>10. CASE inst.op = "ret"
    <3>1. DOMAIN inst.in = 1..1
      BY <1>6, <2>10 DEF Arity
    <3>2. inst.in[1].k # "null" => \A k \in DOMAIN inst.in : Materializes(f, inst.in[k])
      BY <1>1, <1>2, <1>3, <2>10, <3>1 DEF Fit
    <3>3. Result
      BY <2>10, <3>2 DEF SelectFails, Guard
    <3>4. QED
      BY <2>10, <3>3 DEF Taken
  <2>11. inst.op \in {"alloc", "load", "store", "binary", "getptr", "getelemptr", "call"}
                  \cup {"br", "jump", "ret"}
    BY DEF InstructionRight, NotTaken
  <2>12. QED
    BY <2>1, <2>2, <2>3, <2>4, <2>5, <2>6, <2>7, <2>8, <2>9, <2>10, <2>11
<1>13. ASSUME NEW o \in OperandsOf(inst)
       PROVE  IF o.k = "null" THEN inst.op = "ret" ELSE inst.op = "load" \/ PrintsValue(o)
  <2>1. CASE o.k = "null"
    <3>1. CASE \E k \in DOMAIN inst.in : o = inst.in[k]
      BY <1>12, <2>1, <3>1 DEF Taken
    <3>2. CASE \E e \in DOMAIN inst.edge : \E k \in DOMAIN inst.edge[e] : o = inst.edge[e][k]
      BY <1>10, <1>11, <1>12, <2>1, <3>2 DEF Taken
    <3>3. QED
      BY <3>1, <3>2 DEF OperandsOf, Range
  <2>2. CASE o.k # "null" /\ o \in PlainOperands(inst)
    BY <1>1, <2>2 DEF PrintsValue, Paths, Node
  <2>3. CASE o \notin PlainOperands(inst)
    <3>1. StoresInitializer(inst)
      BY <2>3 DEF PlainOperands
    <3>2. DOMAIN inst.in = 1..2 /\ DOMAIN inst.edge = {}
      BY <1>6, <1>10, <3>1 DEF StoresInitializer, Arity
    <3>3. o = inst.in[1]
      BY <2>3, <3>1, <3>2 DEF PlainOperands, OperandsOf, Range
    <3>4. WellTyped(o)
      BY <3>1, <3>3 DEF NotTaken
    <3>5. PrintsValue(o)
      BY <3>4 DEF PrintsValue, WellTyped
    <3>6. o.k # "null"
      BY <3>1, <3>3 DEF StoresInitializer
    <3>7. QED
      BY <3>5, <3>6
  <2>4. QED
    BY <2>1, <2>2, <2>3
<1>14. \A e \in DOMAIN inst.to : inst.to[e] # 0
  BY <1>10, <1>11, <1>12 DEF Taken, IsFunction
<1>15. inst.op \in Printed
  BY DEF InstructionRight, NotTaken, Printed, Terminators
<1>16. PrintInstFails(inst) = {}
  BY <1>12, <1>13, <1>14, <1>15 DEF PrintInstFails, Guard, Taken
<1>17. QED
  BY <1>12, <1>16 DEF Taken

(* A verified function, none of whose instructions is a named case, is selected,  *)
(* passes the machine verifier, and is printed.                             *)
LEMMA FunctionIsTaken ==
  ASSUME NEW m, NEW k \in DOMAIN m.funcs, IsModule(m), Verified(m), ~OutsideVerifier(m)
  PROVE  /\ m.funcs[k].declaration \/ AssembleFails(m, m.funcs[k]) = {}
         /\ PrintFails(m.funcs[k]) = {}
<1> DEFINE f == m.funcs[k]
<1>1. FunctionRight(m, f) /\ IsFunction(m, f)
  BY DEF Verified, IsModule
<1>2. CASE f.declaration
  <2>1. f.blocks = <<>>
    BY <1>1, <1>2 DEF FunctionRight
  <2>2. QED
    BY <1>2, <2>1 DEF PrintFails, InstructionsOf
<1>3. CASE ~f.declaration
  <2>1. f.blocks # <<>> /\ \A b \in DOMAIN f.blocks : BlockRight(m, f, b)
    BY <1>1, <1>3 DEF FunctionRight
  <2>2. \A b \in DOMAIN f.blocks : \A i \in DOMAIN f.blocks[b].insts :
          /\ IsInstruction(m, f, f.blocks[b].insts[i])
          /\ InstructionRight(m, f, f.blocks[b].insts[i])
          /\ ~NotTaken(m, f, f.blocks[b].insts[i])
    BY <1>1, <2>1 DEF IsFunction, BlockRight, OutsideVerifier
  <2>3. \A b \in DOMAIN f.blocks : \A i \in DOMAIN f.blocks[b].insts :
          /\ SelectFails(m, f, f.blocks[b].insts[i]) = {}
          /\ PrintInstFails(f.blocks[b].insts[i]) = {}
    BY <1>1, <2>2, RightIsTaken
  <2>4. ASSUME NEW b \in DOMAIN f.blocks
        PROVE  LET insts == f.blocks[b].insts
               IN insts # <<>> /\ insts[Len(insts)].op \in Terminators
    <3> DEFINE insts == f.blocks[b].insts
    <3>1. insts \in Seq(Range(insts))
      BY <1>1 DEF IsFunction
    <3>2. insts # <<>> /\ \A i \in DOMAIN insts : (insts[i].op \in Terminators) = (i = Len(insts))
      BY <2>1 DEF BlockRight
    <3> HIDE DEF insts
    <3>3. Len(insts) \in DOMAIN insts
      BY <3>1, <3>2
    <3>4. QED
      BY <3>2, <3>3 DEF insts
  <2>5. MachineRight(f)
    BY <2>1, <2>4 DEF MachineRight
  <2> HIDE DEF f
  <2>6. \A inst \in InstructionsOf(f) :
          SelectFails(m, f, inst) = {} /\ PrintInstFails(inst) = {}
    BY <2>3 DEF InstructionsOf, Range
  <2>7. AssembleFails(m, f) = {} /\ PrintFails(f) = {}
    BY <2>5, <2>6 DEF AssembleFails, PrintFails, Guard, InstructionsOf
  <2>8. QED
    BY <2>7 DEF f
<1>4. QED
  BY <1>2, <1>3

(* Every piece of a verified module is written, in assembly and as text.       *)
LEMMA PieceIsWritten ==
  ASSUME NEW md, NEW m, NEW p \in DOMAIN Pieces(md, m),
         IsModule(m), md = "-ast" \/ Verified(m), ~OutsideVerifier(m)
  PROVE  Failures(md, m, Pieces(md, m)[p]) = {}
<1> DEFINE piece == Pieces(md, m)[p]
<1>1. CASE md = "-ast"
  BY <1>1 DEF Failures
<1>2. CASE md # "-ast"
  <2> DEFINE A == Globals(m)  B == Functions(m)
  <2>1. m.globals \in Seq(Range(m.globals)) /\ m.funcs \in Seq(Range(m.funcs))
    BY DEF IsModule
  <2>2. Verified(m) /\ Pieces(md, m) = A \o B
    BY <1>2 DEF Pieces
  <2>3. /\ DOMAIN A = DOMAIN m.globals /\ DOMAIN B = DOMAIN m.funcs
        /\ Len(A) = Len(m.globals) /\ Len(B) = Len(m.funcs)
        /\ Len(m.globals) \in Nat /\ Len(m.funcs) \in Nat
    BY <2>1 DEF Globals, Functions
  <2>4. \/ \E g \in DOMAIN m.globals : piece = <<"global", g>>
        \/ \E k \in DOMAIN m.funcs : piece = <<"function", k>>
    <3>1. A \in Seq({<<"global", g>> : g \in DOMAIN m.globals})
      <4>1. A = [g \in 1..Len(m.globals) |-> <<"global", g>>]
        BY <2>1, <2>3 DEF Globals
      <4>2. \A g \in 1..Len(m.globals) : <<"global", g>> \in {<<"global", h>> : h \in DOMAIN m.globals}
        BY <2>1
      <4>3. QED
        BY <2>3, <4>1, <4>2
    <3>2. B \in Seq({<<"function", k>> : k \in DOMAIN m.funcs})
      <4>1. B = [k \in 1..Len(m.funcs) |-> <<"function", k>>]
        BY <2>1, <2>3 DEF Functions
      <4>2. \A k \in 1..Len(m.funcs) : <<"function", k>> \in {<<"function", h>> : h \in DOMAIN m.funcs}
        BY <2>1
      <4>3. QED
        BY <2>3, <4>1, <4>2
    <3> HIDE DEF A, B
    <3>3. p \in 1..(Len(A) + Len(B)) /\ piece = (A \o B)[p]
      BY <2>2, <3>1, <3>2
    <3>4. CASE p <= Len(A)
      <4>1. p \in 1..Len(A) /\ piece = A[p]
        BY <3>1, <3>2, <3>3, <3>4
      <4>2. A[p] \in {<<"global", g>> : g \in DOMAIN m.globals}
        BY <3>1, <4>1
      <4>3. QED
        BY <4>1, <4>2
    <3>5. CASE ~(p <= Len(A))
      <4>1. p - Len(A) \in 1..Len(B) /\ piece = B[p - Len(A)]
        BY <3>1, <3>2, <3>3, <3>5
      <4>2. B[p - Len(A)] \in {<<"function", k>> : k \in DOMAIN m.funcs}
        BY <3>2, <4>1
      <4>3. QED
        BY <4>1, <4>2
    <3>6. QED
      BY <3>4, <3>5
  <2> HIDE DEF piece
  <2>5. ASSUME NEW g \in DOMAIN m.globals, piece = <<"global", g>>
        PROVE  Failures(md, m, piece) = {}
    <3> DEFINE global == m.globals[g]  init == global.init
    <3>1. IsOperand(m, NoFunction, init) /\ WellTyped(init)
      BY DEF IsModule, OutsideVerifier
    <3>2. init.k \in {"zero", "integer", "aggregate"}
      BY <3>1 DEF WellTyped, Paths, Node
    <3>3. global.base # <<>> /\ init.type = global.base
      BY <2>2, <3>2 DEF Verified, GlobalRight, TypeOf, Constants
    <3>4. PrintsValue(init) /\ \A path \in Visited(init, init.type) :
            WordFails(Node(init, path), Within(init.type, path)) = {}
      BY <3>1, InitializerIsTaken
    <3>5. AssembleGlobalFails(global) = {} /\ PrintGlobalFails(global) = {}
      BY <3>2, <3>3, <3>4 DEF AssembleGlobalFails, PrintGlobalFails, Guard
    <3>6. QED
      BY <2>5, <3>5, <1>2 DEF Failures, AssemblyFails, TextFails
  <2>6. ASSUME NEW k \in DOMAIN m.funcs, piece = <<"function", k>>
        PROVE  Failures(md, m, piece) = {}
    BY <2>2, <2>6, <1>2, FunctionIsTaken DEF Failures, AssemblyFails, TextFails
  <2>7. Failures(md, m, piece) = {}
    BY <2>4, <2>5, <2>6
  <2>8. QED
    BY <2>7 DEF piece
<1>3. QED
  BY <1>1, <1>2

(* Once the verification has passed no emitter fails on a module, but for the     *)
(* named cases: for modules of any size and shape.                           *)
THEOREM VerifierCoversEmitters == Spec => []VerifiedIsEmitted
<1> DEFINE Inv == IInv /\ VerifiedIsEmitted
<1>1. Init => Inv
  BY DEF Init, IInv, Early, Before, SuccessIsWholeOutput, NoModule, VerifiedIsEmitted
<1>2. Inv /\ [Next]_vars => Inv'
  <2> SUFFICES ASSUME Inv, [Next]_vars PROVE VerifiedIsEmitted'
    BY Inductive
  <2>1. CASE ParseOptions
    BY <2>1 DEF ParseOptions, Exit, VerifiedIsEmitted
  <2>2. CASE ParseAst
    BY <2>2 DEF ParseAst, Exit, VerifiedIsEmitted
  <2>3. CASE OpenOutput
    BY <2>3 DEF OpenOutput, Exit, VerifiedIsEmitted, IInv, Before, Early
  <2>4. CASE Build
    BY <2>4 DEF Build, Exit, VerifiedIsEmitted
  <2>5. CASE VerifyBeforePasses
    BY <2>5 DEF VerifyBeforePasses, Exit, VerifiedIsEmitted
  <2>6. CASE RunPass
    BY <2>6 DEF RunPass, VerifiedIsEmitted
  <2>7. CASE VerifyAfterPasses
    BY <2>7 DEF VerifyAfterPasses, Exit, VerifiedIsEmitted, IInv, Before, Early
  <2>8. CASE EmitPiece
    BY <2>8 DEF EmitPiece, VerifiedIsEmitted
  <2>9. CASE EmitThrows \/ EmitUndefined
    <3>1. /\ stage = "emit" /\ position < Len(Pieces(mode, module))
          /\ Failures(mode, module, Pieces(mode, module)[position + 1]) # {}
          /\ module' = module
      BY <2>9 DEF EmitThrows, EmitUndefined, NextPiece
    <3>2. /\ module \in Modules \cup Rewritten \cup {NoModule}
          /\ mode = "-ast" \/ Verified(module)
          /\ position \in Nat
      BY <3>1 DEF IInv
    <3>3. IsModule(module)
      <4>1. IsModule(NoModule)
        BY DEF IsModule, NoModule
      <4>2. QED
        BY <3>2, <4>1, ModulesAssumption DEF ModulesAssumption
    <3>4. position + 1 \in DOMAIN Pieces(mode, module)
      BY <3>1, <3>2, PiecesSequence
    <3>5. OutsideVerifier(module)
      BY <3>1, <3>2, <3>3, <3>4, PieceIsWritten
    <3>6. QED
      BY <3>1, <3>5 DEF VerifiedIsEmitted
  <2>10. CASE EndEmission
    BY <2>10 DEF EndEmission, Exit, VerifiedIsEmitted
  <2>11. CASE UNCHANGED vars
    BY <2>11 DEF vars, VerifiedIsEmitted
  <2>12. QED
    BY <2>1, <2>2, <2>3, <2>4, <2>5, <2>6, <2>7, <2>8, <2>9, <2>10, <2>11 DEF Next, Emit
<1>3. Inv => VerifiedIsEmitted
  OBVIOUS
<1>4. QED
  BY <1>1, <1>2, <1>3, PTL DEF Spec
=============================================================================
