----------------------------- MODULE Declarations -----------------------------
(***************************************************************************)
(* RewindIRBuilder over the declarations of a program: lower_comp_unit,       *)
(* lower_global_decl, declare_function, lower_func_def, lower_block,          *)
(* lower_const_decl and lower_var_decl (src/ir/ir_builder.cpp), with the      *)
(* semantic checks of the expressions in between (semantic_checks.cpp,       *)
(* ir_builder_expr.cpp).  Control flow other than blocks and return is the    *)
(* subject of FuncLowering.                                                 *)
(*                                                                         *)
(* An item of the AST is known by its path: <<3, 1>> is the first item of the *)
(* body of the third item of the program, <<3, 0, 1>> its first parameter.   *)
(* What C++ leaves undefined ends the run as "undefined".                    *)
(***************************************************************************)
EXTENDS SymbolTable, ConstEval, ArrayInit

CONSTANT Programs  \* sequences of global items

VARIABLES
  program,    \* the AST; never changes
  pass,       \* "headers", "bodies", or the end: "accepted", "rejected", "undefined"
  at,         \* the path of the item that is lowered next
  globals,    \* the scopes of module_symbols_
  locals,     \* the scopes of the FuncContext, none between functions
  functions,  \* func_table_: the type of each function
  open,       \* has_current_block
  objects,    \* what each declaration became: see Object
  uses        \* which declaration each use of a name was lowered to

vars == <<program, pass, at, globals, locals, functions, open, objects, uses>>

NoInit == [kind |-> "none", exp |-> Num(0), elems |-> <<>>]
Braces(trees) == List(Num(0), trees)

\* Kinds: "const", "var", "constarray" and "array" declare a name; "assign" has
\* its indices in dims; "exp", "return", "block"; "func".
Item(kind, name, dims, init, items) ==
  [kind |-> kind, name |-> name, dims |-> dims, init |-> init, items |-> items,
   params |-> <<>>, unit |-> FALSE]

ItemAt(path) ==
  FoldLeft(LAMBDA item, k : item.items[k], Item("unit", "", <<>>, NoInit, program), path)

AtEnd(path) == path[Len(path)] > Len(ItemAt(Front(path)).items)
Here == ItemAt(at)
NextItem == [at EXCEPT ![Len(at)] = @ + 1]

-----------------------------------------------------------------------------
(* Types of storage, symbols and checks *)

\* What an alloc or a global holds: a pointer (an array parameter) or not, to or
\* of an array of the dimensions dims.
Type(ptr, dims) == [ptr |-> ptr, dims |-> dims]
I32 == Type(FALSE, <<>>)
IsArrayStorage(type) == type.ptr \/ type.dims # <<>>

Constant(n) == [kind |-> "const", n |-> n, type |-> I32, ro |-> TRUE, decl |-> at]
Var(type, ro) == [kind |-> "var", n |-> 0, type |-> type, ro |-> ro, decl |-> at]
ParamVar(k) == [Var(functions[Here.name].params[k], FALSE) EXCEPT !.decl = at \o <<0, k>>]

\* lookup_value: the scopes of the function, then those of the module.
Scopes == globals \o locals
EnvOf(scopes) ==
  [x \in UNION {DOMAIN scopes[k] : k \in DOMAIN scopes} |-> LookupValue(scopes, x)]

\* The indices of an lvalue of this type: one for the pointer, one per dimension,
\* fewer only where the array may decay.
IndexCountOk(type, count, decay) ==
  LET depth == Len(type.dims) + (IF type.ptr THEN 1 ELSE 0)
  IN count <= depth /\ (count = depth \/ decay)

\* The dimensions that are left behind that many indices.
Pointee(type, count) ==
  IF type.ptr /\ count > 0 THEN SubSeq(type.dims, count, Len(type.dims))
                           ELSE SubSeq(type.dims, count + 1, Len(type.dims))

\* The pointer a call passes for an lvalue: without indices an array decays once.
ArgumentDims(type, count) ==
  IF count = 0 /\ ~type.ptr THEN Tail(type.dims) ELSE Pointee(type, count)

\* One check after the other: the first that does not pass decides.
s ## t == IF s = "ok" THEN t ELSE s
Require(condition) == IF condition THEN "ok" ELSE "error"
All(Check(_), seq) == FoldLeft(LAMBDA s, x : IF s = "ok" THEN Check(x) ELSE s, "ok", seq)

\* lower_lval_storage_address
CheckAddress(name, count, decay, mutable, env) ==
  Require(/\ name \in DOMAIN env
          /\ env[name].kind = "var"
          /\ ~(mutable /\ env[name].ro)
          /\ IndexCountOk(env[name].type, count, decay))

\* The value of the expression is that of a call without a value: +f() is f().
RECURSIVE IsUnitValue(_)
IsUnitValue(e) ==
  \/ e.op = "call" /\ functions[e.name].unit
  \/ e.op = "PLUS" /\ IsUnitValue(e.args[1])

\* What the lowering of an expression checks: "ok" or "error".  Only as an argument
\* is the missing value of a call noticed here.
RECURSIVE CheckExp(_, _)
CheckExp(e, env) ==
  LET operands == All(LAMBDA x : CheckExp(x, env), e.args)
      argument(k) ==
        LET x == e.args[k]
            param == functions[e.name].params[k]
            storage == env[x.name].type
            count == Len(x.args)
            actual == ArgumentDims(storage, count)
        IN IF ~param.ptr THEN CheckExp(x, env) ## Require(~IsUnitValue(x))
           ELSE Require(x.op = "lval" /\ x.name \in DOMAIN env)
                ## Require(env[x.name].kind = "var" /\ IsArrayStorage(storage))
                ## (IF count = 0 THEN "ok"
                    ELSE CheckAddress(x.name, count, TRUE, TRUE, env)
                         ## All(LAMBDA i : CheckExp(i, env), x.args))
                ## Require(\/ actual = param.dims
                           \/ actual # <<>> /\ Tail(actual) = param.dims)
  IN CASE e.op = "num" -> "ok"
       [] e.op = "lval" ->
            IF e.name \in DOMAIN env /\ env[e.name].kind = "const" THEN "ok"
            ELSE CheckAddress(e.name, Len(e.args), FALSE, FALSE, env) ## operands
       [] e.op = "call" ->
            Require(e.name \in DOMAIN functions)
            ## Require(Len(e.args) = Len(functions[e.name].params))
            ## All(argument, [k \in DOMAIN e.args |-> k])
       [] OTHER -> operands

RECURSIVE NamesIn(_)
NamesIn(e) ==
  (IF e.op = "lval" THEN {e.name} ELSE {}) \cup UNION {NamesIn(e.args[k]) : k \in DOMAIN e.args}

\* The uses of names in the expressions, looked up in env.
UsesIn(exps, env, own) ==
  {[at |-> at, name |-> x, own |-> own, decl |-> env[x].decl] :
     x \in (UNION {NamesIn(exps[k]) : k \in DOMAIN exps}) \cap DOMAIN env}

-----------------------------------------------------------------------------
Env == EnvOf(Scopes)

InFunction == locals # <<>>
Innermost == IF InFunction THEN locals ELSE globals
CheckNew(name) == Require(~IsDefinedHere(Innermost, name))

\* All scopes once the innermost one has the name.
ScopesWith(name, entry) ==
  IF InFunction THEN globals \o Define(locals, name, entry) ELSE Define(globals, name, entry)

DefineName(name, entry) ==
  /\ globals' = SubSeq(ScopesWith(name, entry), 1, 1)
  /\ locals' = SubSeq(ScopesWith(name, entry), 2, Len(locals) + 1)

\* What became of a declaration: the lengths of an array, and its words, evaluated
\* to numbers or stored expressions; none without an initial value.
Object(lengths, evaluated, words) ==
  [lengths |-> lengths, evaluated |-> evaluated, words |-> words]

Became(object) == objects' = (at :> object) @@ objects

Throw(status) ==
  /\ status # "ok"
  /\ pass' = IF status = "error" THEN "rejected" ELSE "undefined"
  /\ UNCHANGED <<program, at, globals, locals, functions, open, objects, uses>>

\* The item passes its checks; the next one follows.
Passed(status) ==
  /\ status = "ok"
  /\ at' = NextItem
  /\ UNCHANGED <<program, pass, functions>>

\* Globals go with the headers; the items of a block as long as there is a
\* current block.
Lowering(kind) ==
  /\ pass = (IF InFunction THEN "bodies" ELSE "headers")
  /\ InFunction => open
  /\ ~AtEnd(at)
  /\ Here.kind = kind

\* The initializer of a scalar is taken for an expression: std::get throws on braces.
HasNoBraces == Require(Here.init.kind # "list")

\* A scalar constant has no storage; its value is known before its name.
LowerConst ==
  /\ Lowering("const")
  /\ LET value == EvalExp(Here.init.exp, Env)
         status == HasNoBraces ## value.status ## CheckNew(Here.name)
     IN \/ Throw(status)
        \/ /\ Passed(status)
           /\ DefineName(Here.name, Constant(value.n))
           /\ Became(Object(<<>>, TRUE, <<value.n>>))
           /\ uses' = uses \cup UsesIn(<<Here.init.exp>>, Env, FALSE)
           /\ UNCHANGED open

LowerGlobalVar ==
  /\ ~InFunction /\ Lowering("var")
  /\ LET value == EvalExp(Here.init.exp, Env)
         status == HasNoBraces ## value.status ## CheckNew(Here.name)
     IN \/ Throw(status)
        \/ /\ Passed(status)
           /\ DefineName(Here.name, Var(I32, FALSE))
           /\ Became(Object(<<>>, TRUE, <<value.n>>))
           /\ uses' = uses \cup UsesIn(<<Here.init.exp>>, Env, FALSE)
           /\ UNCHANGED open

\* A wrong variant: the initializer is lowered before the name is defined.
LowerLocalVarLate ==
  /\ InFunction /\ Lowering("var")
  /\ LET status == HasNoBraces ## CheckExp(Here.init.exp, Env) ## CheckNew(Here.name)
     IN \/ Throw(status)
        \/ /\ Passed(status)
           /\ DefineName(Here.name, Var(I32, FALSE))
           /\ Became(Object(<<>>, FALSE, <<>>))
           /\ uses' = uses \cup UsesIn(<<Here.init.exp>>, Env, TRUE)
           /\ UNCHANGED open

LowerLocalVar ==
  /\ InFunction /\ Lowering("var")
  /\ LET env == EnvOf(ScopesWith(Here.name, Var(I32, FALSE)))
         status == CheckNew(Here.name) ## HasNoBraces ## CheckExp(Here.init.exp, env)
     IN \/ Throw(status)
        \/ /\ Passed(status)
           /\ DefineName(Here.name, Var(I32, FALSE))
           /\ Became(Object(<<>>, FALSE, <<>>))
           /\ uses' = uses \cup UsesIn(<<Here.init.exp>>, env, TRUE)
           /\ UNCHANGED open

-----------------------------------------------------------------------------
(* Arrays *)

Lengths(dims) == [k \in DOMAIN dims |-> EvalExp(dims[k], Env).n]

CheckLengths(dims) ==
  LET multiply(acc, n) == IF acc.status = "ok" THEN Int32(acc.n * n) ELSE acc
      product == FoldLeft(multiply, Value(1), Lengths(dims))
  IN All(LAMBDA d : EvalExp(d, Env).status, dims)
     ## product.status ## Require(product.n > 0)

\* Two negative lengths pass; the initializer is then written out of bounds.
CheckBounds(lengths) ==
  IF \E k \in DOMAIN lengths : lengths[k] < 0 THEN "undefined" ELSE "ok"

Flat(lengths) == FlattenInitTree(Here.init, lengths, Num(0))

\* The elements are evaluated and nested in an aggregate.
EvaluatedWords(lengths, env) ==
  LET flat == Flat(lengths)
      init == BuildAggregate(lengths, [w \in DOMAIN flat |-> EvalExp(flat[w], env).n], 1)
  IN [w \in DOMAIN flat |-> WordOf(init, lengths, w - 1)]

\* The elements are stored one by one.
StoredWords(lengths) ==
  LET stores == InitializerStores(lengths, Flat(lengths))
  IN FoldLeft(LAMBDA words, s : [words EXCEPT ![s.offset + 1] = s.value],
              [w \in DOMAIN stores |-> Num(0)], stores)

\* The names in the dimensions are looked up before the array is defined, those in
\* the initializer of a local array after.  The elements of a const array and of a
\* global array are constant expressions.
LowerArray(kind) ==
  LET lengths == Lengths(Here.dims)
      entry == Var(Type(FALSE, lengths), kind = "constarray")
      env == IF InFunction THEN EnvOf(ScopesWith(Here.name, entry)) ELSE Env
      evaluated == kind = "constarray" \/ ~InFunction
      braced == Require(Here.init.kind # "scalar")
      elements == IF Here.init.kind = "none" THEN "ok"
                  ELSE CheckBounds(lengths)
                       ## All(LAMBDA e : IF evaluated THEN EvalExp(e, env).status
                                         ELSE CheckExp(e, env), Flat(lengths))
      status == IF InFunction
                  THEN CheckLengths(Here.dims) ## CheckNew(Here.name) ## braced ## elements
                  ELSE braced ## CheckLengths(Here.dims) ## elements ## CheckNew(Here.name)
      words == CASE Here.init.kind = "none" /\ InFunction -> <<>>
                 [] Here.init.kind = "none" /\ ~InFunction -> FillZero(lengths, 0)
                 [] Here.init.kind # "none" /\ evaluated -> EvaluatedWords(lengths, env)
                 [] OTHER -> StoredWords(lengths)
      inits == IF Here.init.kind = "none" THEN <<>> ELSE Flat(lengths)
  IN /\ Lowering(kind)
     /\ \/ Throw(status)
        \/ /\ Passed(status)
           /\ DefineName(Here.name, entry)
           /\ Became(Object(lengths, evaluated, words))
           /\ uses' = uses \cup UsesIn(Here.dims, Env, FALSE) \cup UsesIn(inits, env, InFunction)
           /\ UNCHANGED open

LowerConstArray == LowerArray("constarray")
LowerVarArray == LowerArray("array")

-----------------------------------------------------------------------------
(* Functions, blocks and statements *)

Signature(params, unit) == [params |-> params, unit |-> unit]

LibraryFunctions ==
  [f \in {"getint", "getch", "starttime", "stoptime"} |->
     Signature(<<>>, f \in {"starttime", "stoptime"})]
  @@ [f \in {"putint", "putch"} |-> Signature(<<I32>>, TRUE)]
  @@ ("getarray" :> Signature(<<Type(TRUE, <<>>)>>, FALSE))
  @@ ("putarray" :> Signature(<<I32, Type(TRUE, <<>>)>>, TRUE))

Init ==
  /\ program \in Programs
  /\ pass = "headers"
  /\ at = <<1>>
  /\ globals = EnterScope(<<>>)
  /\ locals = <<>>
  /\ functions = LibraryFunctions
  /\ open = FALSE
  /\ objects = <<>>
  /\ uses = {}

\* Only the types of the parameters: their names are defined with the body.
DeclareFunction ==
  /\ ~InFunction /\ Lowering("func")
  /\ LET dims == FlattenSeq([k \in DOMAIN Here.params |-> Here.params[k].dims])
         status == All(LAMBDA d : EvalExp(d, Env).status, dims)
                   ## Require(Here.name \notin DOMAIN functions)
         types == [k \in DOMAIN Here.params |->
                     Type(Here.params[k].ptr, Lengths(Here.params[k].dims))]
     IN \/ Throw(status)
        \/ /\ status = "ok"
           /\ at' = NextItem
           /\ functions' = (Here.name :> Signature(types, Here.unit)) @@ functions
           /\ uses' = uses \cup UsesIn(dims, Env, FALSE)
           /\ UNCHANGED <<program, pass, globals, locals, open, objects>>

StartBodies ==
  /\ pass = "headers"
  /\ AtEnd(at)
  /\ pass' = "bodies"
  /\ at' = <<1>>
  /\ UNCHANGED <<program, globals, locals, functions, open, objects, uses>>

BetweenFunctions == pass = "bodies" /\ ~InFunction

SkipDeclaration ==
  /\ BetweenFunctions
  /\ ~AtEnd(at)
  /\ Here.kind # "func"
  /\ at' = NextItem
  /\ UNCHANGED <<program, pass, globals, locals, functions, open, objects, uses>>

\* A scope for the parameters, a further one for the body.
EnterFunction ==
  /\ BetweenFunctions
  /\ ~AtEnd(at)
  /\ Here.kind = "func"
  /\ LET names == {Here.params[k].name : k \in DOMAIN Here.params}
         number(x) == CHOOSE k \in DOMAIN Here.params : Here.params[k].name = x
         status == Require(Cardinality(names) = Len(Here.params))
     IN \/ Throw(status)
        \/ /\ status = "ok"
           /\ locals' = EnterScope(<<[x \in names |-> ParamVar(number(x))]>>)
           /\ open' = TRUE
           /\ at' = Append(at, 1)
           /\ UNCHANGED <<program, pass, globals, functions, objects, uses>>

EnterBlock ==
  /\ InFunction /\ Lowering("block")
  /\ locals' = EnterScope(locals)
  /\ at' = Append(at, 1)
  /\ UNCHANGED <<program, pass, globals, functions, open, objects, uses>>

BlockEnds == pass = "bodies" /\ InFunction /\ (AtEnd(at) \/ ~open)
Leave(path) == [Front(path) EXCEPT ![Len(path) - 1] = @ + 1]

ExitBlock ==
  /\ BlockEnds /\ Len(at) > 2
  /\ locals' = ExitScope(locals)
  /\ at' = Leave(at)
  /\ UNCHANGED <<program, pass, globals, functions, open, objects, uses>>

EndFunction ==
  /\ BlockEnds /\ Len(at) = 2
  /\ locals' = ExitScope(ExitScope(locals))
  /\ open' = FALSE
  /\ at' = Leave(at)
  /\ UNCHANGED <<program, pass, globals, functions, objects, uses>>

Accept ==
  /\ BetweenFunctions
  /\ AtEnd(at)
  /\ pass' = "accepted"
  /\ UNCHANGED <<program, at, globals, locals, functions, open, objects, uses>>

\* lower_stmt of an assignment, an expression or a return.
LowerStmt(kind, status, exps) ==
  /\ InFunction /\ Lowering(kind)
  /\ \/ Throw(status)
     \/ /\ Passed(status)
        /\ uses' = uses \cup UsesIn(exps, Env, FALSE)
        /\ open' = (kind # "return")
        /\ UNCHANGED <<globals, locals, objects>>

LowerAssign ==
  LowerStmt("assign",
            CheckAddress(Here.name, Len(Here.dims), FALSE, TRUE, Env)
            ## All(LAMBDA e : CheckExp(e, Env), Append(Here.dims, Here.init.exp)),
            <<LVal(Here.name, Here.dims), Here.init.exp>>)

LowerExp == LowerStmt("exp", CheckExp(Here.init.exp, Env), <<Here.init.exp>>)

LowerReturn ==
  LET exps == IF Here.init.kind = "none" THEN <<>> ELSE <<Here.init.exp>>
  IN LowerStmt("return",
               Require(program[at[1]].unit => exps = <<>>) ## All(LAMBDA e : CheckExp(e, Env), exps),
               exps)

Next ==
  \/ LowerConst \/ LowerGlobalVar \/ LowerLocalVar \/ LowerConstArray \/ LowerVarArray
  \/ DeclareFunction \/ StartBodies \/ SkipDeclaration \/ EnterFunction \/ EndFunction
  \/ EnterBlock \/ ExitBlock \/ LowerAssign \/ LowerExp \/ LowerReturn \/ Accept

Spec == Init /\ [][Next]_vars
=============================================================================
