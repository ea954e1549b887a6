------------------------------ MODULE MCPipeline ------------------------------
(***************************************************************************)
(* Modules as the builder API makes them (scripts/run_ir_verifier_smoke.sh    *)
(* builds its modules so): a function whose entry block allocates a scalar and *)
(* an array, calls a function of each result, has one further instruction and  *)
(* ends in one terminator.  One of these is varied at a time, over every       *)
(* operand and the types that matter; and stores and globals of every          *)
(* initializer, up to two levels of elements, well typed or not.              *)
(***************************************************************************)
EXTENDS Pipeline

ArrayI32 == ArrayOf(I32)
ArrayOfArray == ArrayOf(ArrayI32)
Empty == <<"array0">> \o I32
O(k, b, n) == [k |-> k, b |-> b, n |-> n]
Constant(k, type) == [k |-> k, type |-> type]
Const == Constant("integer", I32)
Aggregate(type, elems) ==
  [k |-> "aggregate", type |-> type,
   parts |-> [path \in UNION {{<<i>> \o p : p \in Paths(elems[i])} : i \in DOMAIN elems} |->
                Node(elems[path[1]], Tail(path))]]

Alloc == O("value", 1, 1)
ArrayAlloc == O("value", 1, 2)
IntCall == O("value", 1, 3)
UnitCall == O("value", 1, 4)
IntArg == O("arg", 0, 1)
PointerArg == O("arg", 0, 2)
Param == O("param", 2, 1)

Operands == {Const, Null, Constant("undef", I32), Constant("foreign", I32), Constant("zero", I32),
             Constant("integer", PointerTo(I32)), Constant("integer", Unit),
             Aggregate(ArrayI32, <<Const>>), Aggregate(I32, <<Null>>),
             Alloc, ArrayAlloc, IntCall, UnitCall, IntArg, PointerArg, Param,
             O("global", 0, 1), O("global", 0, 2)}
SomeOperands == {Const, Null, Constant("zero", I32), Alloc, ArrayAlloc, IntCall, UnitCall, PointerArg}
TypesTried == {I32, Unit, PointerTo(I32), PointerTo(ArrayI32), PointerTo(Unit), <<>>}

Inst(op, type, in) == [op |-> op, type |-> type, in |-> in, to |-> <<>>, edge |-> <<>>, callee |-> 0]
Call(callee, type, in) == [Inst("call", type, in) EXCEPT !.callee = callee]
Ret(o) == Inst("ret", <<>>, <<o>>)
Jump(target, args) == [Inst("jump", Unit, <<>>) EXCEPT !.to = <<target>>, !.edge = <<args>>]
Br(cond, targets, args) == [Inst("br", Unit, <<cond>>) EXCEPT !.to = targets, !.edge = args]
AllocOf(base) == Inst("alloc", PointerTo(base), <<>>)
Store(value, dest) == Inst("store", Unit, <<value, dest>>)

\* Functions 1 and 2 are declared, 3 is defined.
Declaration(params, result) ==
  [declaration |-> TRUE, params |-> params, args |-> params, result |-> result, blocks |-> <<>>]
Params == <<I32, PointerTo(I32)>>
Definition(result, blocks) ==
  [declaration |-> FALSE, params |-> Params, args |-> Params, result |-> result, blocks |-> blocks]
Block(params, insts) == [params |-> params, insts |-> insts]

Prelude == <<AllocOf(I32), AllocOf(ArrayI32), Call(1, I32, <<Const, Alloc>>), Call(2, Unit, <<>>)>>
Entry(insts) == Block(<<>>, Prelude \o insts)
Tail2(params) == Block(params, <<Ret(Const)>>)

GlobalsOK == <<[base |-> I32, init |-> Const],
               [base |-> ArrayI32, init |-> Aggregate(ArrayI32, <<Const>>)]>>
Of(globals, functions) ==
  [globals |-> globals,
   funcs |-> <<Declaration(Params, I32), Declaration(<<>>, Unit)>> \o functions]
With(result, insts, params) ==
  Of(GlobalsOK, <<Definition(result, <<Entry(insts), Tail2(params)>>)>>)

\* One instruction varied.
Instructions ==
  {Inst(op, type, <<a, b>>) : op \in {"binary", "getptr"}, type \in {I32, PointerTo(I32)},
                             a \in Operands, b \in Operands}
  \cup {Inst("getelemptr", type, <<a, b>>) : type \in {PointerTo(I32), PointerTo(ArrayI32)},
                                            a \in Operands, b \in SomeOperands}
  \cup {Inst("load", type, <<a>>) : type \in TypesTried, a \in Operands}
  \cup {Store(a, b) : a \in Operands, b \in Operands}
  \cup {Inst("alloc", type, <<>>) : type \in TypesTried}
  \cup {Call(callee, type, <<a, b>>) : callee \in {0, 1, 2}, type \in {I32, Unit},
                                      a \in SomeOperands, b \in SomeOperands}
  \cup {Call(callee, type, <<a>>) : callee \in {1, 2}, type \in {I32, Unit}, a \in SomeOperands}
  \cup {Inst(op, I32, <<>>) : op \in {"integer", "undef", "aggregate", "zero"}}

\* One terminator varied, with an edge to a block of one parameter or of none, to a null
\* block or to one of another function.
EdgeArgLists ==
  {<<>>} \cup {<<a>> : a \in Operands} \cup {<<Const, Const>>, <<Constant("integer", Empty)>>}
Terminator ==
  {Ret(a) : a \in Operands}
  \cup {Jump(target, args) : target \in {0, 1, 2, 9}, args \in EdgeArgLists}
  \cup {Br(c, <<target, 2>>, <<args, <<Const>>>>) :
          c \in Operands, target \in {0, 2}, args \in {<<>>, <<Const>>, <<UnitCall>>}}

\* Initializers of a type: zeros, and elements that fit it or do not.
Scalars(type) == {Constant("zero", type), Constant("integer", type), Constant("integer", I32),
                  Constant("undef", type), O("global", 0, 1), Null}
Lists(elems) == {<<a>> : a \in elems} \cup {<<Const, a>> : a \in elems}
InitializersOf(type) ==
  Scalars(type)
  \cup {Aggregate(type, elems) : elems \in {<<>>} \cup Lists(Scalars(Tail(type)))}
  \cup {Aggregate(type, <<Aggregate(Tail(type), elems)>>) :
          elems \in {<<>>} \cup Lists({Null, Const, Constant("zero", I32)})}
Bases == {I32, PointerTo(I32), ArrayI32, ArrayOfArray, Empty, ArrayOf(Empty),
          <<"array0">> \o ArrayI32, <<"array0">> \o PointerTo(I32), ArrayOf(PointerTo(I32)), ArrayOf(Unit)}
Initialized ==
  {With(I32, <<AllocOf(base), Store(init, O("value", 1, 5)), Ret(Const)>>, <<I32>>) :
     <<base, init>> \in UNION {{base} \X InitializersOf(base) : base \in Bases}}
  \cup {With(I32, <<AllocOf(ArrayI32), Store(Aggregate(ArrayI32, <<a>>), O("value", 1, 5)),
                     Ret(Const)>>, <<I32>>) : a \in Operands}

\* One part of a function or of the module varied.
Shapes ==
  {Of(<<[base |-> base, init |-> init], [base |-> I32, init |-> Const]>>,
      <<Definition(I32, <<Tail2(<<>>)>>)>>) :
     <<base, init>> \in UNION {{base} \X InitializersOf(base) : base \in Bases}}
  \cup {Of(<<[base |-> base, init |-> init]>>, <<Definition(I32, <<Tail2(<<>>)>>)>>) :
          base \in {Unit, <<>>}, init \in {Const, Constant("zero", Unit), Null}}
  \cup {NoModule,
        Of(<<>>, <<Definition(I32, <<Block(<<>>, <<Call(4, Empty, <<>>), Ret(Const)>>)>>),
                   Declaration(<<>>, Empty)>>),
        Of(<<>>, <<Definition(I32, <<Block(<<>>, <<AllocOf(Empty), Inst("load", Empty, <<Alloc>>),
                                                   Ret(Const)>>)>>)>>),
        Of(<<>>, <<Definition(I32, <<>>)>>),
        Of(<<>>, <<Definition(I32, <<Block(<<>>, <<>>)>>)>>),
        Of(<<>>, <<Definition(I32, <<Tail2(<<I32>>)>>)>>),
        Of(<<>>, <<Definition(I32, <<Block(<<>>, <<Ret(Const), Ret(Const)>>)>>)>>),
        Of(<<>>, <<Definition(I32, <<Block(<<>>, Prelude)>>)>>),
        Of(<<>>, <<[Definition(I32, <<Tail2(<<>>)>>) EXCEPT !.args = <<I32>>]>>),
        Of(<<>>, <<[Definition(I32, <<Tail2(<<>>)>>) EXCEPT !.declaration = TRUE]>>),
        Of(<<>>, <<Definition(I32, <<Tail2(<<>>)>>), Definition(Unit, <<Tail2(<<>>)>>)>>)}

\* What renaming may leave: edges and parameters of the second block.
MCRewritten ==
  {With(I32, <<Jump(2, args)>>, params) :
     args \in EdgeArgLists \ {<<Param>>},
     params \in {<<>>, <<I32>>, <<Unit>>, <<PointerTo(I32)>>, <<Empty>>, <<<<>>>>}}

MCModules ==
  {With(I32, <<inst, Ret(Const)>>, <<I32>>) : inst \in Instructions}
  \cup {With(I32, <<AllocOf(type), Store(a, O("value", 1, 5)), Inst("load", type, <<O("value", 1, 5)>>),
                     Ret(Const)>>, <<I32>>) : type \in {I32, Unit, Empty}, a \in Operands}
  \cup {With(result, <<last>>, params) : result \in {I32, Unit}, last \in Terminator,
                                        params \in {<<I32>>, <<Unit>>, <<Empty>>}}
  \cup Initialized \cup Shapes

MCCommandLines ==
  {<<"compiler", first, "input", "-o", "output">> : first \in {"-ast", "-koopa", "-ssa", "-riscv", "-x"}}
  \cup {<<"compiler">>, <<"compiler", "-h">>, <<"compiler", "-ast", "input", "output", "-o">>}
=============================================================================
