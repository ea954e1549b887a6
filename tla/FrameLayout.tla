---------------------------- MODULE FrameLayout ----------------------------
(***************************************************************************)
(* FrameLayout::build (src/back_end/frame_layout.cpp) with the rules of      *)
(* CallingConvention and DataLayout it uses.  One traversal of the function  *)
(* measures the frame, a second one gives the slots; from the stack pointer  *)
(* up the frame holds the stack arguments of calls, the slots of block       *)
(* parameters, allocs and results, and the return address.                   *)
(*                                                                         *)
(* A function is the sequence of its values in the order both traversals     *)
(* visit them: block by block, the parameters before the instructions.  A    *)
(* value is [kind, words, args]: words is the size of what it holds (the     *)
(* object of an alloc, the result of any other), args how many arguments a   *)
(* call has.  slot[i] stands for the entry of the i-th value in object_slots_ *)
(* (an alloc) or value_slots_ (any other).                                  *)
(***************************************************************************)
EXTENDS Integers, Sequences

CONSTANTS Functions,  \* the functions to lay out
          MaxInt      \* the largest int32_t

WordSize == 4
StackAlignment == 16
ArgRegisterCount == 8
NoSlot == -1

Kind == {"param", "alloc", "call", "other"}
Value == [kind : Kind, words : Nat, args : Nat]

\* getTypeSize is a size_t cut to int32_t: no value of its own is larger.
ASSUME FrameAssumption ==
  /\ MaxInt \in Nat
  /\ Functions \subseteq Seq(Value)
  /\ \A f \in Functions : \A i \in DOMAIN f :
       /\ WordSize * f[i].words <= MaxInt
       /\ WordSize * f[i].args <= MaxInt

VARIABLES
  func,      \* the function; never changes
  pc,        \* "measure", "place", "done", or "undefined" after an overflow
  i,         \* the value the traversal is at
  payload,   \* payload_size
  maxArgs,   \* max_func_param_size
  savedRa,   \* has_saved_ra_
  outgoing,  \* outgoing_arg_size_
  frame,     \* frame_size_
  raOffset,  \* ra_offset_
  nextSlot,  \* next_slot_offset_
  slot       \* object_slots_ and value_slots_

measured == <<payload, maxArgs, savedRa>>
laidOut == <<outgoing, frame, raOffset>>
vars == <<func, pc, i, measured, laidOut, nextSlot, slot>>

StackStorageSize(v) == WordSize * v.words

\* A wrong variant: rounded up to a word.
AlignToWord(n) == ((n + WordSize - 1) \div WordSize) * WordSize

AlignStackSize(n) == ((n + StackAlignment - 1) \div StackAlignment) * StackAlignment

OutgoingArgAreaSize(args) ==
  IF args <= ArgRegisterCount THEN 0 ELSE (args - ArgRegisterCount) * WordSize

\* For the arguments from ArgRegisterCount on, counted from zero.
OutgoingArgOffset(arg) == (arg - ArgRegisterCount) * WordSize

Init ==
  /\ func \in Functions
  /\ pc = "measure"
  /\ i = 1
  /\ payload = 0
  /\ maxArgs = 0
  /\ savedRa = FALSE
  /\ outgoing = 0
  /\ frame = 0
  /\ raOffset = 0
  /\ nextSlot = 0
  /\ slot = [k \in DOMAIN func |-> NoSlot]

\* A wrong variant: block parameters get no room.
PayloadOfInstructions(v) ==
  IF v.kind = "param" THEN payload ELSE payload + StackStorageSize(v)

PayloadWith(v) == payload + StackStorageSize(v)

\* A wrong variant: the area is as large as the last call needs.
ArgsOfLastCall(v) == v.args

MaxArgsWith(v) == IF v.args > maxArgs THEN v.args ELSE maxArgs

Measure ==
  /\ pc = "measure"
  /\ i <= Len(func)
  /\ PayloadWith(func[i]) <= MaxInt
  /\ payload' = PayloadWith(func[i])
  /\ IF func[i].kind = "call"
       THEN savedRa' = TRUE /\ maxArgs' = MaxArgsWith(func[i])
       ELSE UNCHANGED <<savedRa, maxArgs>>
  /\ i' = i + 1
  /\ UNCHANGED <<func, pc, laidOut, nextSlot, slot>>

SavedRaSize == IF savedRa THEN WordSize ELSE 0

\* What align_stack_size adds up before it rounds down.
Unaligned == OutgoingArgAreaSize(maxArgs) + payload + SavedRaSize + StackAlignment - 1

\* A wrong variant: the return address is placed before the frame has its size.
EndMeasuringRaFirst ==
  /\ pc = "measure"
  /\ i > Len(func)
  /\ Unaligned <= MaxInt
  /\ outgoing' = OutgoingArgAreaSize(maxArgs)
  /\ frame' = AlignStackSize(outgoing' + payload + SavedRaSize)
  /\ raOffset' = IF savedRa THEN frame - WordSize ELSE raOffset
  /\ nextSlot' = outgoing'
  /\ i' = 1
  /\ pc' = "place"
  /\ UNCHANGED <<func, measured, slot>>

EndMeasuring ==
  /\ pc = "measure"
  /\ i > Len(func)
  /\ Unaligned <= MaxInt
  /\ outgoing' = OutgoingArgAreaSize(maxArgs)
  /\ frame' = AlignStackSize(outgoing' + payload + SavedRaSize)
  /\ raOffset' = IF savedRa THEN frame' - WordSize ELSE raOffset
  /\ nextSlot' = outgoing'
  /\ i' = 1
  /\ pc' = "place"
  /\ UNCHANGED <<func, measured, slot>>

\* A signed addition that overflows: nothing is known of what follows.
Overflow ==
  /\ pc = "measure"
  /\ IF i <= Len(func) THEN PayloadWith(func[i]) > MaxInt
                       ELSE Unaligned > MaxInt
  /\ pc' = "undefined"
  /\ UNCHANGED <<func, i, measured, laidOut, nextSlot, slot>>

\* A wrong variant: the object of an alloc is given a word.
PlaceWord ==
  /\ pc = "place"
  /\ i <= Len(func)
  /\ LET size == StackStorageSize(func[i])
     IN IF func[i].kind = "alloc" \/ size > 0
          THEN /\ slot' = [slot EXCEPT ![i] = nextSlot]
               /\ nextSlot' = nextSlot + (IF size > 0 THEN WordSize ELSE 0)
          ELSE UNCHANGED <<slot, nextSlot>>
  /\ i' = i + 1
  /\ UNCHANGED <<func, pc, measured, laidOut>>

Place ==
  /\ pc = "place"
  /\ i <= Len(func)
  /\ LET size == StackStorageSize(func[i])
     IN IF func[i].kind = "alloc" \/ size > 0
          THEN /\ slot' = [slot EXCEPT ![i] = nextSlot]
               /\ nextSlot' = nextSlot + size
          ELSE UNCHANGED <<slot, nextSlot>>
  /\ i' = i + 1
  /\ UNCHANGED <<func, pc, measured, laidOut>>

EndPlacing ==
  /\ pc = "place"
  /\ i > Len(func)
  /\ pc' = "done"
  /\ UNCHANGED <<func, i, measured, laidOut, nextSlot, slot>>

Next == Measure \/ EndMeasuring \/ Overflow \/ Place \/ EndPlacing

Spec == Init /\ [][Next]_vars

-----------------------------------------------------------------------------
(* Properties *)

TypeOK ==
  /\ func \in Functions
  /\ pc \in {"measure", "place", "done", "undefined"}
  /\ i \in 1 .. (Len(func) + 1)
  /\ payload \in 0 .. MaxInt
  /\ maxArgs \in Nat
  /\ savedRa \in BOOLEAN
  /\ outgoing \in Nat
  /\ frame \in Nat
  /\ raOffset \in Nat
  /\ nextSlot \in Nat
  /\ slot \in [DOMAIN func -> Nat \cup {NoSlot}]

SlotEnd(k) == slot[k] + StackStorageSize(func[k])

(* No two values share a byte of the frame.                                 *)
SlotsDisjoint ==
  \A k, l \in DOMAIN func :
    k < l /\ slot[k] # NoSlot /\ slot[l] # NoSlot => SlotEnd(k) <= slot[l]

(* The second traversal stays in the room the first one measured: every      *)
(* object and every result has a slot, above the stack arguments of every    *)
(* call, below the return address and inside the frame.                      *)
SlotsInFrame ==
  pc = "done" =>
    \A k \in DOMAIN func :
      /\ func[k].words > 0 => slot[k] # NoSlot
      /\ slot[k] # NoSlot =>
           /\ outgoing <= slot[k]
           /\ SlotEnd(k) <= IF savedRa THEN raOffset ELSE frame

(* A call finds room for every argument that does not go in a register below *)
(* the first slot, and the return address it overwrites is saved.            *)
CallsHaveRoom ==
  pc = "done" =>
    \A k \in DOMAIN func : func[k].kind = "call" =>
      /\ savedRa
      /\ \A arg \in ArgRegisterCount .. (func[k].args - 1) :
           OutgoingArgOffset(arg) + WordSize <= outgoing

(* The stack pointer stays a multiple of 16 and every slot a multiple of 4,  *)
(* and no offset in the frame overflows.                                    *)
Aligned ==
  pc = "done" =>
    /\ frame % StackAlignment = 0
    /\ frame <= MaxInt
    /\ raOffset % WordSize = 0
    /\ \A k \in DOMAIN func : slot[k] # NoSlot => slot[k] % WordSize = 0
=============================================================================
