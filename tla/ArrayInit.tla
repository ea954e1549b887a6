------------------------------- MODULE ArrayInit -------------------------------
(***************************************************************************)
(* Array initializers (src/ir/ir_builder_array_init.cpp).  An InitTree is     *)
(* [kind, exp, elems]: a scalar with its expression or a list of trees.  It  *)
(* is flattened into one expression per element of the array, which becomes  *)
(* an aggregate (constant and global arrays) or a store per element.        *)
(***************************************************************************)
EXTENDS Initializers

Scalar(e) == [kind |-> "scalar", exp |-> e, elems |-> <<>>]
List(e, trees) == [kind |-> "list", exp |-> e, elems |-> trees]

\* fill_zero_object
FillZero(dims, zero) == [w \in 1 .. Words(dims) |-> zero]

\* Fills one object from the items, from item k on: the item to go on with and
\* the flat elements.  An array takes a list for one element of its own, and
\* lets an element take scalars from its own items.
RECURSIVE FillObject(_, _, _, _)
FillObject(items, k, dims, zero) ==
  LET nested(item, type) == FillObject(item.elems, 1, type, zero).out
      FillElement(acc, element) ==
        CASE acc.k > Len(items) ->
               [acc EXCEPT !.out = @ \o FillZero(ElementType(dims), zero)]
          [] acc.k <= Len(items) /\ items[acc.k].kind = "list" ->
               [k |-> acc.k + 1, out |-> acc.out \o nested(items[acc.k], ElementType(dims))]
          [] OTHER ->
               LET r == FillObject(items, acc.k, ElementType(dims), zero)
               IN [r EXCEPT !.out = acc.out \o @]
  IN IF dims # <<>>
       THEN FoldLeft(FillElement, [k |-> k, out |-> <<>>], [n \in 1 .. Head(dims) |-> n])
       ELSE CASE k > Len(items) -> [k |-> k, out |-> <<zero>>]
              [] k <= Len(items) /\ items[k].kind = "scalar" ->
                   [k |-> k + 1, out |-> <<items[k].exp>>]
              [] OTHER -> [k |-> k + 1, out |-> nested(items[k], dims)]

\* A wrong variant: a list inside a row that scalars have begun is spread over
\* the rest of the row.
FlattenInitTreeSpread(tree, dims, zero) ==
  LET spread(items) == FlattenSeq([n \in DOMAIN items |->
        IF n > 1 /\ items[n].kind = "list" THEN items[n].elems ELSE <<items[n]>>])
  IN FillObject(spread(tree.elems), 1, dims, zero).out

FlattenInitTree(tree, dims, zero) ==
  FillObject(IF tree.kind = "scalar" THEN <<tree>> ELSE tree.elems, 1, dims, zero).out

\* The aggregate whose first element is the cursor-th of the flat values.
RECURSIVE BuildAggregate(_, _, _)
BuildAggregate(dims, flat, cursor) ==
  IF dims = <<>> THEN Number(flat[cursor])
  ELSE Aggregate([n \in 1 .. Head(dims) |->
         BuildAggregate(ElementType(dims), flat, cursor + (n - 1) * Words(ElementType(dims)))])

\* The indices of the getelemptr chain to the flat element w, from zero.
IndexPath(dims, w) ==
  [d \in DOMAIN dims |->
     (w % Words(SubSeq(dims, d, Len(dims)))) \div Words(SubSeq(dims, d + 1, Len(dims)))]

\* Where the chain leads: every getelemptr moves by elements of its own type.
ChainOffset(dims, path) ==
  FoldLeft(+, 0, [d \in DOMAIN dims |-> path[d] * Words(SubSeq(dims, d + 1, Len(dims)))])

\* emit_local_array_initializer_stores: the stores in order.
InitializerStores(dims, flat) ==
  [w \in DOMAIN flat |-> [offset |-> ChainOffset(dims, IndexPath(dims, w - 1)), value |-> flat[w]]]

-----------------------------------------------------------------------------
(* What the language says.  The items of a list lie one behind the other: a   *)
(* scalar takes the next word, a list the largest part of the array, smaller *)
(* than the whole, that can begin there.  Words without an item are zero.   *)

PartAt(dims, p) ==
  LET suffix(d) == SubSeq(dims, d, Len(dims))
      first == CHOOSE d \in 2 .. (Len(dims) + 1) :
                 /\ p % Words(suffix(d)) = 0
                 /\ \A c \in 2 .. (d - 1) : p % Words(suffix(c)) # 0
  IN IF dims = <<>> THEN <<>> ELSE suffix(first)

ItemSize(dims, item, p) == IF item.kind = "scalar" THEN 1 ELSE Words(PartAt(dims, p))

ItemPosition(dims, items, k) ==
  FoldLeft(LAMBDA p, item : p + ItemSize(dims, item, p), 0, SubSeq(items, 1, k - 1))

RECURSIVE InitialElement(_, _, _, _)
InitialElement(items, dims, w, zero) ==
  LET position(k) == ItemPosition(dims, items, k)
      covering == {k \in DOMAIN items :
                     position(k) <= w /\ w < position(k) + ItemSize(dims, items[k], position(k))}
  IN IF covering = {} THEN zero
     ELSE LET k == CHOOSE k \in covering : TRUE
          IN IF items[k].kind = "scalar" THEN items[k].exp
             ELSE InitialElement(items[k].elems, PartAt(dims, position(k)), w - position(k), zero)
=============================================================================
