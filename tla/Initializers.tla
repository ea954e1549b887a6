----------------------------- MODULE Initializers -----------------------------
(***************************************************************************)
(* Types and initializers of the IR (include/ir/ir_type.h, IRZeroInit,       *)
(* IRConstant and IRAggregate of include/ir/rewind_ir.h).  A type is the     *)
(* sequence of its array lengths, outermost first: <<>> is i32.  Every       *)
(* initializer is a record of one shape, [kind, n, elems].                  *)
(***************************************************************************)
EXTENDS Integers, Sequences, SequencesExt

Zero == [kind |-> "zero", n |-> 0, elems |-> <<>>]
Number(n) == [kind |-> "number", n |-> n, elems |-> <<>>]
Aggregate(elems) == [kind |-> "aggregate", n |-> 0, elems |-> elems]

\* The number of i32 in a value of the type: total_array_elems, and a quarter
\* of IRTypeContext::getTypeSize.
Words(dims) == FoldLeft(LAMBDA x, y : x * y, 1, dims)

ElementType(dims) == Tail(dims)

\* What an initializer says of the word number w (from zero) of its object.
RECURSIVE WordOf(_, _, _)
WordOf(init, dims, w) ==
  CASE init.kind = "zero" -> 0
    [] init.kind = "number" -> init.n
    [] init.kind = "aggregate" ->
         LET size == Words(ElementType(dims))
         IN WordOf(init.elems[w \div size + 1], ElementType(dims), w % size)
=============================================================================
