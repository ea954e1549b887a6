------------------------------- MODULE Verifier -------------------------------
(***************************************************************************)
(* IRVerifier (src/ir/ir_verifier.cpp), and what the emitters rely on: the    *)
(* instruction selector, the machine verifier, the printer of global values    *)
(* and the text generator.                                                  *)
(*                                                                         *)
(* A type is a sequence of tags, outermost first; <<>> is a null type.  Of an  *)
(* array it is told whether it has elements; their storage is taken to fit     *)
(* int32_t, as FrameLayout does.                                            *)
(* An operand is a place, [k, b, n]: the instruction ("value") or the parameter *)
(* ("param") n of block b, the argument n of the function or the global n; or   *)
(* [k, type]: an integer, a zero initializer, an undef, an instruction of        *)
(* another function ("foreign") or an aggregate; or null.  The elements of an    *)
(* aggregate, theirs and so on are its parts, by their paths of positions.      *)
(* Target 0 is a null block, any other that is no block of the function is one   *)
(* of another; callee 0 is a null function.  The lists of a module hold no null   *)
(* entries and nothing twice, for which the verifier has checks of their own.    *)
(***************************************************************************)
EXTENDS Integers, SequencesExt

ArrayTags == {"array", "array0"}  \* with elements, and of length 0
Types == Seq({"i32", "unit", "pointer", "function"} \cup ArrayTags)

I32 == <<"i32">>
Unit == <<"unit">>
PointerTo(type) == <<"pointer">> \o type
ArrayOf(type) == <<"array">> \o type

IsPointer(type) == type # <<>> /\ Head(type) = "pointer"
IsArray(type) == type # <<>> /\ Head(type) \in ArrayTags
\* pointer_base_type: <<>> for what is no pointer.
PointerBase(type) == IF IsPointer(type) THEN Tail(type) ELSE <<>>
IsArrayStorage(type) == IsArray(PointerBase(type))

\* getTypeSize is not 0: an i32, a pointer, or elements of such a type.
HasSize(type) ==
  \E d \in DOMAIN type : type[d] \in {"i32", "pointer"} /\ \A i \in 1..(d - 1) : type[i] = "array"

Terminators == {"ret", "br", "jump"}

-----------------------------------------------------------------------------
(* Values.                                                                 *)

Null == [k |-> "null"]
Constants == {"integer", "zero", "undef", "foreign", "aggregate"}

\* The value itself and what it is made of, each by its path.
Paths(v) == {<<>>} \cup (IF v.k = "aggregate" THEN DOMAIN v.parts ELSE {})
Node(v, path) == IF path = <<>> THEN v ELSE v.parts[path]

\* The type at a path: one tag less for each element gone into.
Within(type, path) == SubSeq(type, Len(path) + 1, Len(type))

\* The paths a recursion over a value by a type takes: into elements of arrays.
Visited(v, type) ==
  {path \in Paths(v) : \A i \in DOMAIN path : i \in DOMAIN type /\ type[i] \in ArrayTags}

\* The type of what an operand of function f stands for; <<>> for a null pointer.
TypeOf(m, f, o) ==
  CASE o.k \in Constants -> o.type
    [] o.k = "value" -> f.blocks[o.b].insts[o.n].type
    [] o.k = "param" -> f.blocks[o.b].params[o.n]
    [] o.k = "arg" -> f.args[o.n]
    [] o.k = "global" /\ m.globals[o.n].base # <<>> -> PointerTo(m.globals[o.n].base)
    [] OTHER -> <<>>

\* The values an instruction has as operands or passes along its edges.
OperandsOf(inst) == Range(inst.in) \cup UNION {Range(inst.edge[e]) : e \in DOMAIN inst.edge}

-----------------------------------------------------------------------------
(* What the constructors of rewind_ir.h and ir_type.cpp make, before any check: *)
(* any value may be an operand of any instruction, an element or an             *)
(* initializer, and a constant may have any type.                            *)

Exists(m, f, o) ==
  CASE o.k = "value" -> o.b \in DOMAIN f.blocks /\ o.n \in DOMAIN f.blocks[o.b].insts
    [] o.k = "param" -> o.b \in DOMAIN f.blocks /\ o.n \in DOMAIN f.blocks[o.b].params
    [] o.k = "arg" -> o.n \in DOMAIN f.args
    [] o.k = "global" -> o.n \in DOMAIN m.globals
    [] o.k \in Constants -> o.type \in Types
    [] OTHER -> o.k = "null"

IsOperand(m, f, o) ==
  \A path \in Paths(o) :
    /\ path \in Seq(Nat)
    /\ Exists(m, f, Node(o, path))
    /\ path # <<>> => Front(path) \in Paths(o) /\ Node(o, Front(path)).k = "aggregate"

Arity(op) == CASE op \in {"load", "br", "ret"} -> 1
               [] op \in {"binary", "store", "getptr", "getelemptr"} -> 2
               [] OTHER -> 0

IsInstruction(m, f, inst) ==
  /\ inst.type \in Types
  /\ \A o \in OperandsOf(inst) : IsOperand(m, f, o)
  /\ inst.op # "call" => DOMAIN inst.in = 1..Arity(inst.op)
  /\ DOMAIN inst.to = DOMAIN inst.edge
  /\ inst.op \notin {"br", "jump"} => DOMAIN inst.to = {}

IsFunction(m, f) ==
  /\ \A a \in DOMAIN f.args : f.args[a] \in Types
  /\ f.result \in Types \ {<<>>}
  /\ f.blocks \in Seq(Range(f.blocks))
  /\ \A b \in DOMAIN f.blocks :
       /\ \A k \in DOMAIN f.blocks[b].params : f.blocks[b].params[k] \in Types
       /\ f.blocks[b].insts \in Seq(Range(f.blocks[b].insts))
       /\ \A i \in DOMAIN f.blocks[b].insts : IsInstruction(m, f, f.blocks[b].insts[i])

\* Initializers belong to no function.
NoFunction == [args |-> <<>>, blocks |-> <<>>]

IsModule(m) ==
  /\ m.globals \in Seq(Range(m.globals)) /\ m.funcs \in Seq(Range(m.funcs))
  /\ \A g \in DOMAIN m.globals :
       m.globals[g].base \in Types /\ IsOperand(m, NoFunction, m.globals[g].init)
  /\ \A k \in DOMAIN m.funcs : IsFunction(m, m.funcs[k])

-----------------------------------------------------------------------------
(* IRVerifier::verify.  Every check is one conjunct; the messages are left out. *)

\* A wrong variant: the number of arguments of an edge is not compared.
EdgesRightUncounted(m, f, inst) ==
  \A e \in DOMAIN inst.to :
    /\ inst.to[e] \in DOMAIN f.blocks
    /\ LET args == inst.edge[e]
           params == f.blocks[inst.to[e]].params
       IN \A k \in DOMAIN args \cap DOMAIN params :
            args[k].k # "null" /\ TypeOf(m, f, args[k]) = params[k]

EdgesRight(m, f, inst) ==
  \A e \in DOMAIN inst.to :
    /\ inst.to[e] \in DOMAIN f.blocks
    /\ LET args == inst.edge[e]
           params == f.blocks[inst.to[e]].params
       IN /\ Len(args) = Len(params)
          /\ \A k \in DOMAIN args : args[k].k # "null" /\ TypeOf(m, f, args[k]) = params[k]

ReturnRight(m, f, inst) ==
  IF f.result = Unit THEN inst.in[1].k = "null"
                     ELSE inst.in[1].k # "null" /\ TypeOf(m, f, inst.in[1]) = f.result

InstructionRight(m, f, inst) ==
  LET type(k) == TypeOf(m, f, inst.in[k])
      callee == m.funcs[inst.callee]
  IN CASE inst.op = "integer" -> inst.type = I32
       [] inst.op = "binary" -> type(1) = I32 /\ type(2) = I32 /\ inst.type = I32
       [] inst.op = "alloc" -> PointerBase(inst.type) # <<>>
       [] inst.op = "load" -> PointerBase(type(1)) # <<>> /\ inst.type = PointerBase(type(1))
       [] inst.op = "store" ->
            /\ PointerBase(type(2)) # <<>> /\ inst.in[1].k # "null"
            /\ type(1) = PointerBase(type(2))
            /\ inst.type = Unit
       [] inst.op = "getptr" ->
            PointerBase(type(1)) # <<>> /\ type(2) = I32 /\ inst.type = type(1)
       [] inst.op = "getelemptr" ->
            /\ IsArrayStorage(type(1)) /\ type(2) = I32
            /\ inst.type = PointerTo(Tail(PointerBase(type(1))))
       [] inst.op = "call" ->
            /\ inst.callee \in DOMAIN m.funcs
            /\ Len(inst.in) = Len(callee.params)
            /\ \A k \in DOMAIN inst.in : inst.in[k].k # "null" /\ type(k) = callee.params[k]
            /\ inst.type = callee.result
       [] inst.op = "br" -> type(1) = I32 /\ EdgesRight(m, f, inst) /\ inst.type = Unit
       [] inst.op = "jump" -> EdgesRight(m, f, inst) /\ inst.type = Unit
       [] inst.op = "ret" -> ReturnRight(m, f, inst)
       [] OTHER -> FALSE

BlockRight(m, f, b) ==
  LET insts == f.blocks[b].insts
  IN /\ insts # <<>>
     /\ \A i \in DOMAIN insts :
          /\ (insts[i].op \in Terminators) = (i = Len(insts))
          /\ InstructionRight(m, f, insts[i])
     /\ \A k \in DOMAIN f.blocks[b].params : f.blocks[b].params[k] # <<>>

FunctionRight(m, f) ==
  /\ f.args = f.params
  /\ IF f.declaration THEN f.blocks = <<>>
     ELSE /\ f.blocks # <<>>
          /\ f.blocks[1].params = <<>>
          /\ \A b \in DOMAIN f.blocks : BlockRight(m, f, b)

\* The type of the initializer as a whole: its elements are not looked at.
GlobalRight(m, global) ==
  /\ global.base # <<>>
  /\ global.init.k # "null" /\ TypeOf(m, NoFunction, global.init) = global.base

Verified(m) ==
  /\ m.funcs # <<>>
  /\ \A g \in DOMAIN m.globals : GlobalRight(m, m.globals[g])
  /\ \A k \in DOMAIN m.funcs : FunctionRight(m, m.funcs[k])

-----------------------------------------------------------------------------
(* What an emitter takes for granted: the ways in which it fails, each "throws"  *)
(* or "undefined", an invalid cast or a null dereference; none if it does not.   *)
(* Which one comes first is left open.                                      *)

Guard(taken, failure) == IF taken THEN {} ELSE {failure}

InstOf(f, o) == f.blocks[o.b].insts[o.n]
HasObjectSlot(f, o) == o.k = "value" /\ InstOf(f, o).op = "alloc"
HasValueSlot(f, o) ==
  \/ o.k = "param" /\ HasSize(f.blocks[o.b].params[o.n])
  \/ o.k = "value" /\ InstOf(f, o).op # "alloc" /\ HasSize(InstOf(f, o).type)

\* materialize_value, materialize_pointer and store_to_addressable
Materializes(f, o) ==
  o.k \in {"integer", "arg", "global"} \/ HasObjectSlot(f, o) \/ HasValueSlot(f, o)
Addressable(f, o) == o.k = "global" \/ HasObjectSlot(f, o) \/ HasValueSlot(f, o)

\* select_edge_args: no arguments always pass.  A block of another function has no slots.
EdgeFails(f, target, args) ==
  IF target = 0 THEN {"undefined"}
  ELSE Guard(\/ args = <<>>
             \/ /\ target \in DOMAIN f.blocks
                /\ Len(args) = Len(f.blocks[target].params)
                /\ \A k \in DOMAIN args :
                     Materializes(f, args[k]) /\ HasSize(f.blocks[target].params[k]),
             "throws")

EdgesFail(f, inst) == UNION {EdgeFails(f, inst.to[e], inst.edge[e]) : e \in DOMAIN inst.to}

\* Zeros are stored down to the integers, or to an array without elements.
ZeroStores(type) ==
  /\ type # <<>>
  /\ \A d \in DOMAIN type :
       (\A i \in 1..(d - 1) : type[i] = "array") => type[d] \in ArrayTags \cup {"i32"}

\* select_initializer_store, for one value and the type it is stored as
ElementFails(f, v, type) ==
  IF v.k = "null" THEN {"undefined"}
  ELSE CASE type = I32 -> Guard(v.k = "zero" \/ Materializes(f, v), "throws")
         [] IsArray(type) ->
              Guard(v.k = "aggregate" \/ (v.k = "zero" /\ ZeroStores(type)), "undefined")
         [] OTHER -> {"undefined"}

StoresInitializer(inst) == inst.op = "store" /\ inst.in[1].k \in {"aggregate", "zero"}

StoreFails(m, f, value, dest) ==
  LET base == PointerBase(TypeOf(m, f, dest))
      addressed == Guard(Addressable(f, dest), "throws")
  IN CASE value.k = "null" -> {"undefined"}
       [] value.k \in {"aggregate", "zero"} ->
            IF base = <<>> THEN {"undefined"}
            ELSE addressed \cup UNION {ElementFails(f, Node(value, path), Within(base, path)) :
                                         path \in Visited(value, base)}
       [] OTHER ->
            Guard(Materializes(f, value), "throws")
            \cup IF dest.k = "null" THEN {"undefined"} ELSE addressed

\* FrameLayout::build and select_instruction
SelectFails(m, f, inst) ==
  LET type(k) == TypeOf(m, f, inst.in[k])
      inputs == Guard(\A k \in DOMAIN inst.in : Materializes(f, inst.in[k]), "throws")
      address == Guard(Addressable(f, inst.in[1]), "throws")
      result == Guard(HasSize(inst.type), "throws")
  IN CASE inst.op = "alloc" -> Guard(IsPointer(inst.type), "undefined")
       [] inst.op = "load" -> address \cup result
       [] inst.op = "store" -> StoreFails(m, f, inst.in[1], inst.in[2])
       [] inst.op = "binary" -> inputs \cup result
       [] inst.op = "getptr" -> Guard(IsPointer(type(1)), "throws") \cup inputs \cup result
       [] inst.op = "getelemptr" ->
            address \cup result
            \cup Guard(IsArrayStorage(type(1)) /\ Materializes(f, inst.in[2]), "throws")
       [] inst.op = "call" ->
            Guard(inst.callee # 0 /\ inst.type # <<>>, "undefined") \cup inputs
            \cup IF inst.type \in {<<>>, Unit} THEN {} ELSE result
       [] inst.op = "br" -> inputs \cup EdgesFail(f, inst)
       [] inst.op = "jump" -> EdgesFail(f, inst)
       [] inst.op = "ret" -> IF inst.in[1].k = "null" THEN {} ELSE inputs
       [] OTHER -> {"throws"}

\* MachineVerifier: the last machine instruction of a block is a terminator when
\* the last instruction of the IR is one.
MachineRight(f) ==
  /\ f.blocks # <<>>
  /\ \A b \in DOMAIN f.blocks :
       LET insts == f.blocks[b].insts IN insts # <<>> /\ insts[Len(insts)].op \in Terminators

InstructionsOf(f) == UNION {Range(f.blocks[b].insts) : b \in DOMAIN f.blocks}

AssembleFails(m, f) ==
  UNION {SelectFails(m, f, inst) : inst \in InstructionsOf(f)}
  \cup Guard(MachineRight(f), "throws")

\* emit_global_initializer: anything but zeros is cast to what the type asks for.
WordFails(v, type) ==
  IF v.k \in {"null", "zero"} THEN Guard(v.k = "zero", "undefined")
  ELSE CASE type = I32 -> Guard(v.k = "integer", "undefined")
         [] IsArray(type) -> Guard(v.k = "aggregate", "undefined")
         [] OTHER -> {"throws"}

AssembleGlobalFails(global) ==
  IF global.base = <<>> THEN {"throws"}
  ELSE UNION {WordFails(Node(global.init, path), Within(global.base, path)) :
                path \in Visited(global.init, global.base)}

-----------------------------------------------------------------------------
(* IRTextGen.  A block is printed by its name, whatever function it belongs to.  *)

PrintsValue(v) == \A path \in Paths(v) : Node(v, path).k # "null"

PrintGlobalFails(global) ==
  Guard(global.base # <<>> /\ PrintsValue(global.init), "undefined")
  \cup Guard(global.init.k \in {"null", "zero", "integer", "aggregate"}, "throws")

\* An integer is printed as nothing.
Printed ==
  {"integer", "alloc", "load", "store", "binary", "getptr", "getelemptr", "call"} \cup Terminators

PrintInstFails(inst) ==
  IF inst.op \notin Printed THEN {"throws"}
  ELSE Guard(/\ inst.op \in {"alloc", "call"} => inst.type # <<>>
             /\ inst.op = "call" => inst.callee # 0
             /\ \A e \in DOMAIN inst.to : inst.to[e] # 0
             /\ \A o \in OperandsOf(inst) :
                  IF o.k = "null" THEN inst.op = "ret" ELSE inst.op = "load" \/ PrintsValue(o),
             "undefined")

PrintFails(f) ==
  UNION {PrintInstFails(inst) : inst \in InstructionsOf(f)}
=============================================================================
