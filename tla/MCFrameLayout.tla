--------------------------- MODULE MCFrameLayout ---------------------------
(***************************************************************************)
(* Every function of up to four values out of a block parameter, a scalar,   *)
(* an array, a result, an instruction without one and calls with arguments   *)
(* in registers only, and with one and with three more.  MaxInt is small     *)
(* enough that some functions overflow it.                                  *)
(***************************************************************************)
EXTENDS FrameLayout

V(kind, words, args) == [kind |-> kind, words |-> words, args |-> args]

MCValues ==
  {V("param", 1, 0), V("alloc", 1, 0), V("alloc", 5, 0), V("other", 1, 0), V("other", 0, 0),
   V("call", 1, 8), V("call", 0, 9), V("call", 1, 11)}

MCFunctions == UNION {[1 .. n -> MCValues] : n \in 0 .. 4}
MCMaxInt == 63
=============================================================================
