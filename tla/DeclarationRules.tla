--------------------------- MODULE DeclarationRules ---------------------------
(***************************************************************************)
(* What the language says of the declarations and uses of a program, read off *)
(* the AST without any table of symbols, and what the lowering makes of it.   *)
(***************************************************************************)
EXTENDS Declarations

Declares(item) == item.kind \in {"const", "var", "constarray", "array"}
Parent(path, k) == SubSeq(path, 1, k - 1)

\* The declarations of x beside the path at level k that are in force at its end:
\* the ones before it; for a body every global; for its own initializer a local
\* declaration itself.
DeclaredBeside(path, k, x, own) ==
  {j \in DOMAIN ItemAt(Parent(path, k)).items :
     /\ LET item == ItemAt(Append(Parent(path, k), j)) IN Declares(item) /\ item.name = x
     /\ \/ j < path[k]
        \/ k = 1 /\ Len(path) > 1
        \/ own /\ k = Len(path) /\ j = path[k]}

\* The last declaration of the innermost level that has one, beside[k] being those of
\* level k; the parameters params come between the body and the globals.
InnermostOf(path, beside, params) ==
  LET levels == {k \in DOMAIN beside : beside[k] # {}}
      global == levels \ {1} = {} /\ params = {}
  IN CASE levels \ {1} # {} -> Append(Parent(path, Max(levels)), Max(beside[Max(levels)]))
       [] levels \ {1} = {} /\ params # {} -> <<path[1], 0, Max(params)>>
       [] global /\ levels # {} -> <<Max(beside[1])>>
       [] global /\ levels = {} -> <<>>

\* The path of the declaration a name means: of the innermost block, then the
\* parameters, then the globals; <<>> without any.
InForce(path, x, own) ==
  InnermostOf(path,
             [k \in DOMAIN path |-> DeclaredBeside(path, k, x, own)],
             {k \in DOMAIN program[path[1]].params :
                Len(path) > 1 /\ program[path[1]].params[k].name = x})

\* What a constant expression is worth if it is lowered and run in place.
RECURSIVE RunValue(_, _)
RunValue(e, path) ==
  LET arg(k) == RunValue(e.args[k], path)
      decl == InForce(path, e.name, FALSE)
  IN CASE e.op = "num" -> Value(e.n)
       [] e.op = "lval" -> RunValue(ItemAt(decl).init.exp, decl)
       [] e.op = "PLUS" -> arg(1)
       [] e.op = "MINUS" -> RunBinary("SUB", 0, arg(1).n)
       [] e.op = "NOT" -> RunBinary("EQ", arg(1).n, 0)
       [] e.op = "LOR" -> IF arg(1).n # 0 THEN Value(1) ELSE RunBinary("NEQ", arg(2).n, 0)
       [] e.op = "LAND" -> IF arg(1).n = 0 THEN Value(0) ELSE RunBinary("NEQ", arg(2).n, 0)
       [] OTHER -> RunBinary(e.op, arg(1).n, arg(2).n)

IsParam(decl) == Len(decl) = 3 /\ decl[2] = 0
DimsOf(decl) ==
  IF IsParam(decl) THEN program[decl[1]].params[decl[3]].dims ELSE ItemAt(decl).dims
IsArray(decl) ==
  IF IsParam(decl) THEN program[decl[1]].params[decl[3]].ptr
                   ELSE ItemAt(decl).kind \in {"constarray", "array"}
Rank(decl) == Len(DimsOf(decl)) + (IF IsParam(decl) /\ IsArray(decl) THEN 1 ELSE 0)
IsConstant(decl) == ~IsParam(decl) /\ ItemAt(decl).kind \in {"const", "constarray"}

RECURSIVE ConstantExp(_, _, _)
ConstantExp(e, path, own) ==
  LET decl == InForce(path, e.name, own)
  IN /\ e.op # "call"
     /\ e.op = "lval" => decl # <<>> /\ IsConstant(decl) /\ ~IsArray(decl)
     /\ \A k \in DOMAIN e.args : ConstantExp(e.args[k], path, own)

FunctionsNamed(f) == {k \in DOMAIN program : program[k].kind = "func" /\ program[k].name = f}

IsFunction(f) == FunctionsNamed(f) # {} \/ f \in DOMAIN LibraryFunctions

\* The parameters of a function: [ptr, dims, path], dims being expressions at path.
ParamsOf(f) ==
  IF FunctionsNamed(f) = {}
    THEN [k \in DOMAIN LibraryFunctions[f].params |->
            [ptr |-> LibraryFunctions[f].params[k].ptr, dims |-> <<>>]]
    ELSE program[Max(FunctionsNamed(f))].params

\* A call of a function without a result; + leaves its operand as it is.
RECURSIVE HasNoValue(_)
HasNoValue(e) ==
  \/ e.op = "PLUS" /\ HasNoValue(e.args[1])
  \/ /\ e.op = "call" /\ IsFunction(e.name)
     /\ IF FunctionsNamed(e.name) = {} THEN LibraryFunctions[e.name].unit
                                       ELSE program[Max(FunctionsNamed(e.name))].unit

TakesArray(f, k) == IsFunction(f) /\ k \in DOMAIN ParamsOf(f) /\ ParamsOf(f)[k].ptr

\* The expressions in e that are to be numbers, itself included: all but the arguments
\* a function takes as arrays.
RECURSIVE NumbersIn(_)
NumbersIn(e) ==
  LET inside(k) == IF e.op = "call" /\ TakesArray(e.name, k)
                     THEN UNION {NumbersIn(e.args[k].args[l]) : l \in DOMAIN e.args[k].args}
                     ELSE NumbersIn(e.args[k])
  IN {e} \cup UNION {inside(k) : k \in DOMAIN e.args}

\* The lvalue x, which means decl, is an array of the element type of the parameter.
ArrayFits(x, decl, param) ==
  /\ x.op = "lval" /\ decl # <<>>
  /\ IsArray(decl)
  /\ Rank(decl) - Len(x.args) = Len(param.dims) + 1
  /\ LET dims == DimsOf(decl)
     IN \A k \in DOMAIN param.dims : param.dims[k] = dims[Len(dims) - Len(param.dims) + k]

CallRight(e, path, own) ==
  /\ IsFunction(e.name)
  /\ Len(e.args) = Len(ParamsOf(e.name))
  /\ \A k \in DOMAIN e.args :
       IF TakesArray(e.name, k)
         THEN ArrayFits(e.args[k], InForce(path, e.args[k].name, own), ParamsOf(e.name)[k])
         ELSE ~HasNoValue(e.args[k])

RightExp(e, path, own) ==
  \A x \in NumbersIn(e) :
    /\ x.op = "lval" =>
         LET decl == InForce(path, x.name, own) IN decl # <<>> /\ Rank(decl) = Len(x.args)
    /\ x.op = "call" => CallRight(x, path, own)

FirstOfItsName(path) ==
  ~\E j \in 1 .. (path[Len(path)] - 1) :
     LET item == ItemAt(Append(Front(path), j))
     IN Declares(item) /\ item.name = ItemAt(path).name

ArrayRight(path) ==
  LET item == ItemAt(path)
      lengths == [k \in DOMAIN item.dims |-> RunValue(item.dims[k], path).n]
      element(w) == InitialElement(item.init.elems, lengths, w, Num(0))
  IN /\ item.init.kind # "scalar"
     /\ \A k \in DOMAIN item.dims : ConstantExp(item.dims[k], path, FALSE)
     /\ \A n \in Range(lengths) : n > 0
     /\ \A w \in 0 .. (Words(lengths) - 1) :
          IF item.kind = "constarray" \/ Len(path) = 1
            THEN ConstantExp(element(w), path, Len(path) > 1)
            ELSE RightExp(element(w), path, TRUE)

Right(path) ==
  LET item == ItemAt(path)
      target == InForce(path, item.name, FALSE)
      params == item.params
  IN CASE item.kind = "const" ->
            /\ FirstOfItsName(path)
            /\ item.init.kind # "list"
            /\ ConstantExp(item.init.exp, path, FALSE)
       [] item.kind = "var" ->
            /\ FirstOfItsName(path)
            /\ item.init.kind # "list"
            /\ IF Len(path) = 1 THEN ConstantExp(item.init.exp, path, FALSE)
                                ELSE RightExp(item.init.exp, path, TRUE)
       [] item.kind \in {"constarray", "array"} -> FirstOfItsName(path) /\ ArrayRight(path)
       [] item.kind = "func" ->
            /\ item.name \notin DOMAIN LibraryFunctions
            /\ FunctionsNamed(item.name) = {path[1]}
            /\ \A k, l \in DOMAIN params : params[k].name = params[l].name => k = l
            /\ \A k \in DOMAIN params : \A d \in Range(params[k].dims) : ConstantExp(d, path, FALSE)
       [] item.kind = "assign" ->
            /\ RightExp(LVal(item.name, item.dims), path, FALSE)
            /\ ~IsConstant(target)
            /\ RightExp(item.init.exp, path, FALSE)
       [] item.kind = "return" ->
            /\ program[path[1]].unit => item.init.kind = "none"
            /\ RightExp(item.init.exp, path, FALSE)
       [] item.kind = "exp" -> RightExp(item.init.exp, path, FALSE)
       [] item.kind = "block" -> TRUE

RECURSIVE Terminates(_)
Terminates(item) ==
  \/ item.kind = "return"
  \/ item.kind = "block" /\ \E k \in DOMAIN item.items : Terminates(item.items[k])

RECURSIVE LivePaths(_)
LivePaths(path) ==
  LET items == ItemAt(path).items
      live == {k \in DOMAIN items : path # <<>> => \A j \in 1 .. (k - 1) : ~Terminates(items[j])}
  IN {Append(path, k) : k \in live} \cup UNION {LivePaths(Append(path, k)) : k \in live}

-----------------------------------------------------------------------------
(* Every name that is looked up is lowered to the declaration that is in force *)
(* there by the nesting of blocks, whatever scopes have come and gone since.  *)
UsesResolveLexically == \A u \in uses : u.decl = InForce(u.at, u.name, u.own)

(* What the compiler computes at once, constants, global initial values and   *)
(* lengths, is what the same expression would give at run time.             *)
ConstantsAsAtRunTime ==
  \A d \in DOMAIN objects :
    /\ \A k \in DOMAIN objects[d].lengths :
         RunValue(ItemAt(d).dims[k], d) = Value(objects[d].lengths[k])
    /\ objects[d].evaluated /\ ~IsArray(d) =>
         RunValue(ItemAt(d).init.exp, d) = Value(objects[d].words[1])

(* Whatever braces are left out, every element of an array with an initializer *)
(* has the value the initializer gives it, in an aggregate as by stores.     *)
ArraysInitialized ==
  \A d \in DOMAIN objects :
    IsArray(d) /\ objects[d].words # <<>> =>
      /\ Len(objects[d].words) = Words(objects[d].lengths)
      /\ \A w \in DOMAIN objects[d].words :
           LET element == InitialElement(ItemAt(d).init.elems, objects[d].lengths, w - 1, Num(0))
           IN IF objects[d].evaluated THEN RunValue(element, d) = Value(objects[d].words[w])
                                      ELSE objects[d].words[w] = element

(* A program is accepted if everything that is not dead in it is right, and    *)
(* rejected only if something is wrong.                                     *)
AcceptsTheRight ==
  /\ pass = "accepted" => \A p \in LivePaths(<<>>) : Right(p)
  /\ pass = "rejected" => \E p \in LivePaths(<<>>) : ~Right(p)
=============================================================================
