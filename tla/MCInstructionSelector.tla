------------------------ MODULE MCInstructionSelector ------------------------
(***************************************************************************)
(* Functions of the shapes the builder makes: parameters stored at entry,    *)
(* every variable in memory.  Between them they use every operator on        *)
(* boundary values, scalars, arrays and array parameters, globals, calls     *)
(* with register and stack arguments, loops and edges with arguments, and    *)
(* frames of no bytes, of the largest offset that fits, and beyond.          *)
(***************************************************************************)
EXTENDS InstructionSelector

C(n) == [k |-> "const", n |-> n]
A(n) == [k |-> "arg", n |-> n]
G(n) == [k |-> "global", n |-> n]
V(n) == [k |-> "value", n |-> n]

Inst(b, op, words, in) ==
  [block |-> b, op |-> op, words |-> words, in |-> in, dims |-> <<>>, init |-> Zero,
   to |-> <<>>, edge |-> <<>>]
Alloc(b, words) == Inst(b, "alloc", words, <<>>)
Store(b, v, p) == Inst(b, "store", 0, <<v, p>>)
InitStore(b, p, dims, init) == [Inst(b, "init", 0, <<p>>) EXCEPT !.dims = dims, !.init = init]
Load(b, p) == Inst(b, "load", 1, <<p>>)
Bin(b, op, x, y) == Inst(b, op, 1, <<x, y>>)
GetPtr(b, p, n, dims) == [Inst(b, "getptr", 1, <<p, n>>) EXCEPT !.dims = dims]
GetElemPtr(b, p, n, dims) == [Inst(b, "getelemptr", 1, <<p, n>>) EXCEPT !.dims = dims]
CallTo(b, words, operands) == Inst(b, "call", words, operands)
Param(b) == Inst(b, "param", 1, <<>>)
Jump(b, t, edge) == [Inst(b, "jump", 0, <<>>) EXCEPT !.to = <<t>>, !.edge = <<edge>>]
Br(b, c, t, f, et, ef) ==
  [Inst(b, "br", 0, <<c>>) EXCEPT !.to = <<t, f>>, !.edge = <<et, ef>>]
Return(b, operands) == Inst(b, "ret", 0, operands)

Program(globals, insts, calls) ==
  [globals |-> globals, insts |-> insts, calls |-> calls]

Nums(ns) == [k \in DOMAIN ns |-> Num(ns[k])]

(* int f(int x, int y) { return x op y; } *)
Operator(op, pairs) ==
  Program(<<>>,
    <<Alloc(1, 1), Store(1, A(0), V(1)), Alloc(1, 1), Store(1, A(1), V(3)),
      Load(1, V(1)), Load(1, V(3)), Bin(1, op, V(5), V(6)), Return(1, <<V(7)>>)>>,
    {Nums(p) : p \in pairs})

Boundary == {0, 1, 5, -1, -5, 127, -128}
Dividing == {<<x, y>> \in Boundary \X (Boundary \ {0}) : <<x, y>> # <<-128, -1>>}

Operators ==
  {Operator(op, Dividing) : op \in {"DIV", "MOD"}} \cup
  {Operator(op, Boundary \X Boundary) : op \in
     {"ADD", "SUB", "MUL", "AND", "OR", "XOR", "EQ", "NEQ", "LT", "GT", "LE", "GE",
      "SHL", "SHR", "SAR"}}

(* int f(int p0, ..., int p9) { int r = g(p9, 1, ..., 9, p8); h(); return r - p9; } *)
ManyParams ==
  LET stores == FlattenSeq([k \in 1 .. 10 |->
                   <<Alloc(1, 1), Store(1, A(k - 1), V(2 * k - 1))>>])
  IN Program(<<>>,
       stores \o
       <<Load(1, V(19)), Load(1, V(17)),
         CallTo(1, 1, <<V(21), C(1), C(2), C(3), C(4), C(5), C(6), C(7), V(22), V(21)>>),
         Alloc(1, 1), Store(1, V(23), V(24)),
         CallTo(1, 0, <<>>),
         Load(1, V(24)), Load(1, V(19)), Bin(1, "SUB", V(27), V(28)), Return(1, <<V(29)>>)>>,
       {Nums([k \in 1 .. 10 |-> 10 + k]), Nums([k \in 1 .. 10 |-> -k])})

(* void f() { g(); }: a frame of 16 bytes, which -16 fits and 16 does not. *)
JustCall == Program(<<>>, <<CallTo(1, 0, <<>>), Return(1, <<>>)>>, {<<>>})

(* int f() { return 3; }: no frame. *)
Leaf == Program(<<>>, <<Return(1, <<C(3)>>)>>, {<<>>})

(* int a[2][2] = init; a[1][x] = 7; return a[1][0] * a[0][1]; *)
LocalArray(init) ==
  Program(<<>>,
    <<Alloc(1, 1), Store(1, A(0), V(1)), Alloc(1, 4), InitStore(1, V(3), <<2, 2>>, init),
      GetElemPtr(1, V(3), C(1), <<2>>), Load(1, V(1)), GetElemPtr(1, V(5), V(6), <<>>),
      Store(1, C(7), V(7)),
      GetElemPtr(1, V(3), C(1), <<2>>), GetElemPtr(1, V(9), C(0), <<>>), Load(1, V(10)),
      GetElemPtr(1, V(3), C(0), <<2>>), GetElemPtr(1, V(12), C(1), <<>>), Load(1, V(13)),
      Bin(1, "MUL", V(11), V(14)), Return(1, <<V(15)>>)>>,
    {Nums(<<0>>), Nums(<<1>>)})

Inits == {Zero, Aggregate(<<Zero, Aggregate(<<Number(3), Number(4)>>)>>),
          Aggregate(<<Aggregate(<<Number(1), Number(2)>>), Aggregate(<<Number(3), Zero>>)>>)}

(* int s = 9, m[2][2] = {{1, 2}, {3, 4}};                                   *)
(* int f(int a[][2], int n) { a[n][1] = s; s = a[0][1]; return g(a[n][0]); } *)
ArrayParam ==
  Program(<<[dims |-> <<>>, init |-> Number(9)],
            [dims |-> <<2, 2>>, init |-> Aggregate(<<Aggregate(<<Number(1), Number(2)>>),
                                                     Aggregate(<<Number(3), Number(4)>>)>>)]>>,
    <<Alloc(1, 1), Store(1, A(0), V(1)), Alloc(1, 1), Store(1, A(1), V(3)),
      Load(1, G(1)), Load(1, V(1)), Load(1, V(3)), GetPtr(1, V(6), V(7), <<2>>),
      GetElemPtr(1, V(8), C(1), <<>>), Store(1, V(5), V(9)),
      Load(1, V(1)), GetPtr(1, V(11), C(0), <<2>>), GetElemPtr(1, V(12), C(1), <<>>),
      Load(1, V(13)), Store(1, V(14), G(1)),
      Load(1, V(1)), Load(1, V(3)), GetPtr(1, V(16), V(17), <<2>>),
      GetElemPtr(1, V(18), C(0), <<>>), Load(1, V(19)),
      GetElemPtr(1, G(2), C(1), <<2>>), GetElemPtr(1, V(21), C(1), <<>>), Load(1, V(22)),
      CallTo(1, 1, <<V(20), V(23)>>), Return(1, <<V(24)>>)>>,
    {<<[base |-> -2, off |-> 0], Num(n)>> : n \in {0, 1}} \cup
    {<<[base |-> -2, off |-> 8], Num(-1)>>})

(* int f(int n) { while (n) { g(n); n = n - 1; } return n; } *)
Loop ==
  Program(<<>>,
    <<Alloc(1, 1), Store(1, A(0), V(1)), Jump(1, 2, <<>>),
      Load(2, V(1)), Br(2, V(4), 3, 4, <<>>, <<>>),
      Load(3, V(1)), CallTo(3, 0, <<V(6)>>), Load(3, V(1)), Bin(3, "SUB", V(8), C(1)),
      Store(3, V(9), V(1)), Jump(3, 2, <<>>),
      Load(4, V(1)), Return(4, <<V(12)>>)>>,
    {Nums(<<n>>) : n \in {0, 2}})

(* A merge block with two parameters, reached by a jump and from a branch. *)
Merge ==
  Program(<<>>,
    <<Alloc(1, 1), Store(1, A(0), V(1)), Load(1, V(1)),
      Br(1, V(3), 2, 3, <<>>, <<V(3), C(4)>>),
      Bin(2, "ADD", V(3), C(1)), Jump(2, 3, <<V(5), V(3)>>),
      Param(3), Param(3), Bin(3, "SUB", V(7), V(8)), Return(3, <<V(9)>>)>>,
    {Nums(<<n>>) : n \in {0, 2}})

BranchWithArguments ==
  Program(<<>>,
    <<Alloc(1, 1), Store(1, A(0), V(1)), Load(1, V(1)),
      Br(1, V(3), 2, 2, <<C(5)>>, <<V(3)>>),
      Param(2), Return(2, <<V(5)>>)>>,
    {Nums(<<n>>) : n \in {0, 2}})

MCPrograms ==
  Operators \cup {LocalArray(init) : init \in Inits}
    \cup {ManyParams, JustCall, Leaf, ArrayParam, Loop, Merge, BranchWithArguments}

MCResults == {0, 42}
=============================================================================
