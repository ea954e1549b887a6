------------------------- MODULE FrameLayoutProofs -------------------------
(***************************************************************************)
(* The layout of a frame is sound for every function whose frame does not    *)
(* overflow.  The inductive invariant names what both traversals add up: the *)
(* running totals of the storage sizes, which say how large the payload is   *)
(* after the first traversal and where the second one has put each value.    *)
(***************************************************************************)
EXTENDS FrameLayout, TLAPS

Size(k) == StackStorageSize(func[k])

\* total[k] is the storage of the first k values.
RunningTotals(total, n) ==
  /\ total \in [0 .. n -> Nat]
  /\ total[0] = 0
  /\ \A k \in 1 .. n : total[k] = total[k - 1] + Size(k)
  /\ \A k, l \in 0 .. n : k <= l => total[k] <= total[l]
  /\ \A k \in 0 .. n : total[k] % WordSize = 0

CallsMeasured(n) ==
  \A k \in 1 .. n : func[k].kind = "call" => savedRa /\ func[k].args <= maxArgs

PayloadMeasured(n) == \E total : RunningTotals(total, n) /\ payload = total[n]

HasSlot(k) == func[k].kind = "alloc" \/ Size(k) > 0

Placed(total) ==
  /\ nextSlot = outgoing + total[i - 1]
  /\ \A k \in DOMAIN func :
       slot[k] = IF k < i /\ HasSlot(k) THEN outgoing + total[k - 1] ELSE NoSlot

MeasureInv ==
  /\ pc = "measure" => CallsMeasured(i - 1) /\ PayloadMeasured(i - 1) /\ raOffset = 0
  /\ pc \in {"measure", "undefined"} => \A k \in DOMAIN func : slot[k] = NoSlot

LayoutInv ==
  pc \in {"place", "done"} =>
    /\ CallsMeasured(Len(func))
    /\ Unaligned <= MaxInt
    /\ outgoing = OutgoingArgAreaSize(maxArgs)
    /\ frame = AlignStackSize(outgoing + payload + SavedRaSize)
    /\ raOffset = IF savedRa THEN frame - WordSize ELSE 0
    /\ \E total : /\ RunningTotals(total, Len(func))
                  /\ payload = total[Len(func)]
                  /\ Placed(total)

IInv ==
  /\ TypeOK
  /\ MeasureInv
  /\ LayoutInv
  /\ pc = "done" => i = Len(func) + 1

-----------------------------------------------------------------------------
(* The rules of CallingConvention and DataLayout *)

LEMMA ValueFacts ==
  ASSUME NEW f \in Functions, NEW k \in DOMAIN f
  PROVE  f[k].words \in Nat /\ f[k].args \in Nat /\ f[k].kind \in Kind
         /\ StackStorageSize(f[k]) \in Nat /\ StackStorageSize(f[k]) % WordSize = 0
  <1>1. f \in Seq(Value)
    BY FrameAssumption DEF FrameAssumption
  <1>2. f[k] \in Value
    BY <1>1
  <1> QED BY <1>2 DEF Value, StackStorageSize, WordSize

\* Rounding up: a multiple of 16, less than 16 away.
LEMMA AlignUp ==
  ASSUME NEW n \in Nat
  PROVE  /\ AlignStackSize(n) \in Nat
         /\ AlignStackSize(n) % StackAlignment = 0
         /\ n <= AlignStackSize(n)
         /\ AlignStackSize(n) <= n + StackAlignment - 1
  BY DEF AlignStackSize, StackAlignment

\* The area of a call with fewer arguments lies in that of one with more.
LEMMA AreaHoldsArgs ==
  ASSUME NEW n \in Nat, NEW m \in Nat, n <= m
  PROVE  /\ OutgoingArgAreaSize(m) \in Nat
         /\ OutgoingArgAreaSize(m) % WordSize = 0
         /\ \A arg \in ArgRegisterCount .. (n - 1) :
              OutgoingArgOffset(arg) + WordSize <= OutgoingArgAreaSize(m)
  BY DEF OutgoingArgAreaSize, OutgoingArgOffset, ArgRegisterCount, WordSize

\* One more value is one more total.
LEMMA TotalsExtend ==
  ASSUME NEW n \in Nat, NEW total, RunningTotals(total, n),
         Size(n + 1) \in Nat, Size(n + 1) % WordSize = 0
  PROVE  \E more : /\ RunningTotals(more, n + 1)
                   /\ more[n + 1] = total[n] + Size(n + 1)
  <1> DEFINE more == [k \in 0 .. (n + 1) |-> IF k <= n THEN total[k] ELSE total[n] + Size(n + 1)]
  <1>1. \A k \in 0 .. n : total[k] \in Nat
    BY DEF RunningTotals
  <1>2. more \in [0 .. (n + 1) -> Nat] /\ more[0] = 0
    BY <1>1 DEF RunningTotals
  <1>3. \A k \in 0 .. n : more[k] = total[k]
    OBVIOUS
  <1>4. more[n + 1] = total[n] + Size(n + 1)
    OBVIOUS
  <1>5. ASSUME NEW k \in 1 .. (n + 1)
        PROVE  more[k] = more[k - 1] + Size(k)
    <2>1. CASE k <= n
      BY <1>3, <2>1 DEF RunningTotals
    <2>2. CASE k = n + 1
      BY <1>3, <1>4, <2>2
    <2> QED BY <2>1, <2>2
  <1>6. ASSUME NEW k \in 0 .. (n + 1), NEW l \in 0 .. (n + 1), k <= l
        PROVE  more[k] <= more[l]
    <2>1. CASE l <= n
      BY <1>3, <1>6, <2>1 DEF RunningTotals
    <2>2. CASE l = n + 1 /\ k <= n
      <3>1. more[k] = total[k] /\ total[k] <= total[n] /\ total[k] \in Nat /\ total[n] \in Nat
        BY <1>1, <1>3, <2>2 DEF RunningTotals
      <3> QED BY <1>4, <2>2, <3>1
    <2>3. CASE l = n + 1 /\ k = n + 1
      BY <1>2, <2>3
    <2> QED BY <2>1, <2>2, <2>3
  <1>7. ASSUME NEW k \in 0 .. (n + 1)
        PROVE  more[k] % WordSize = 0
    <2>1. CASE k <= n
      BY <1>3, <2>1 DEF RunningTotals
    <2>2. CASE k = n + 1
      <3>1. total[n] \in Nat /\ total[n] % WordSize = 0
        BY <1>1 DEF RunningTotals
      <3>2. (total[n] + Size(n + 1)) % WordSize = 0
        BY <3>1 DEF WordSize
      <3> QED BY <1>4, <2>2, <3>2
    <2> QED BY <2>1, <2>2
  <1> HIDE DEF more
  <1>8. RunningTotals(more, n + 1)
    BY <1>2, <1>5, <1>6, <1>7 DEF RunningTotals
  <1> QED BY <1>4, <1>8

-----------------------------------------------------------------------------

LEMMA LengthFacts ==
  ASSUME TypeOK
  PROVE  /\ func \in Functions /\ Len(func) \in Nat /\ DOMAIN func = 1 .. Len(func)
         /\ i \in Nat /\ 1 <= i /\ i <= Len(func) + 1
         /\ MaxInt \in Nat
  <1>1. func \in Seq(Value) /\ MaxInt \in Nat
    BY FrameAssumption DEF FrameAssumption, TypeOK
  <1> QED BY <1>1 DEF TypeOK

LEMMA Initialized == Init => IInv
  <1> SUFFICES ASSUME Init PROVE IInv
    OBVIOUS
  <1>1. func \in Seq(Value) /\ MaxInt \in Nat /\ func \in Functions
    BY FrameAssumption DEF FrameAssumption, Init
  <1>2. TypeOK
    <2>1. savedRa \in BOOLEAN
      BY Zenon DEF Init
    <2>2. /\ pc \in {"measure", "place", "done", "undefined"}
          /\ i \in 1 .. (Len(func) + 1) /\ payload \in 0 .. MaxInt
          /\ maxArgs \in Nat /\ outgoing \in Nat /\ frame \in Nat /\ raOffset \in Nat
          /\ nextSlot \in Nat
      BY <1>1 DEF Init
    <2>3. slot \in [DOMAIN func -> Nat \cup {NoSlot}]
      BY DEF Init
    <2> QED BY <1>1, <2>1, <2>2, <2>3, Zenon DEF TypeOK
  <1>3. RunningTotals([k \in 0 .. 0 |-> 0], 0)
    BY DEF RunningTotals, WordSize
  <1>4. PayloadMeasured(i - 1)
    <2>1. i - 1 = 0 /\ payload = [k \in 0 .. 0 |-> 0][0]
      BY DEF Init
    <2> QED BY <1>3, <2>1 DEF PayloadMeasured
  <1>5. MeasureInv
    BY <1>4 DEF MeasureInv, CallsMeasured, Init
  <1> QED BY <1>2, <1>5 DEF IInv, LayoutInv, Init

LEMMA MeasurePreserves ==
  ASSUME IInv, Measure
  PROVE  IInv'
  <1>1. /\ pc = "measure" /\ pc' = "measure" /\ i <= Len(func) /\ i' = i + 1
        /\ func' = func /\ slot' = slot /\ raOffset' = raOffset
        /\ payload + Size(i) <= MaxInt /\ payload' = payload + Size(i)
        /\ UNCHANGED <<outgoing, frame, nextSlot>>
    BY DEF Measure, PayloadWith, Size, laidOut
  <1>2. /\ i \in DOMAIN func /\ i \in Nat /\ DOMAIN func = 1 .. Len(func) /\ Len(func) \in Nat
        /\ func[i].args \in Nat /\ Size(i) \in Nat /\ Size(i) % WordSize = 0 /\ func \in Functions /\ MaxInt \in Nat
    BY <1>1, LengthFacts, ValueFacts DEF IInv, Size
  <1>3. payload \in Nat /\ maxArgs \in Nat /\ savedRa \in BOOLEAN
    BY DEF IInv, TypeOK
  <1>4. /\ maxArgs' \in Nat /\ maxArgs <= maxArgs'
        /\ func[i].kind = "call" => func[i].args <= maxArgs'
    BY <1>2, <1>3 DEF Measure, MaxArgsWith
  <1>5. /\ savedRa' \in BOOLEAN
        /\ savedRa => savedRa'
        /\ func[i].kind = "call" => savedRa'
    BY <1>3, Zenon DEF Measure
  <1>6. TypeOK'
    BY <1>1, <1>2, <1>3, <1>4, <1>5 DEF IInv, TypeOK
  <1>7. CallsMeasured(i - 1)'
    <2>1. CallsMeasured(i - 1)
      BY <1>1 DEF IInv, MeasureInv
    <2>2. ASSUME NEW k \in 1 .. (i' - 1), func[k].kind = "call"
          PROVE  savedRa' /\ func[k].args <= maxArgs'
      <3>1. CASE k = i
        BY <1>4, <1>5, <2>2, <3>1
      <3>2. CASE k # i
        <4>1. k \in 1 .. (i - 1) /\ k \in DOMAIN func
          BY <1>1, <1>2, <3>2
        <4>2. savedRa /\ func[k].args <= maxArgs /\ func[k].args \in Nat
          BY <1>2, <2>1, <2>2, <4>1, ValueFacts DEF CallsMeasured
        <4>3. func[k].args <= maxArgs'
          BY <1>3, <1>4, <4>2
        <4> QED BY <1>5, <4>2, <4>3, Zenon
      <3> QED BY <3>1, <3>2
    <2> QED BY <1>1, <2>2, Zenon DEF CallsMeasured
  <1>8. PayloadMeasured(i - 1)'
    <2>1. PICK total : RunningTotals(total, i - 1) /\ payload = total[i - 1]
      BY <1>1 DEF IInv, MeasureInv, PayloadMeasured
    <2>2. i - 1 \in Nat /\ (i - 1) + 1 = i
      BY <1>2, LengthFacts DEF IInv
    <2>3. PICK more : RunningTotals(more, i) /\ more[i] = total[i - 1] + Size(i)
      BY <1>2, <2>1, <2>2, TotalsExtend
    <2>5. i' - 1 = i /\ payload' = more[i]
      BY <1>1, <1>2, <2>1, <2>3
    <2>6. RunningTotals(more, i' - 1) /\ payload' = more[i' - 1]
      BY <2>3, <2>5
    <2>7. RunningTotals(more, i - 1)'
      BY <1>1, <2>6 DEF RunningTotals, Size
    <2> QED BY <2>6, <2>7, Zenon DEF PayloadMeasured
  <1>9. MeasureInv'
    BY <1>1, <1>7, <1>8 DEF IInv, MeasureInv
  <1> QED BY <1>1, <1>6, <1>9 DEF IInv, LayoutInv

LEMMA EndMeasuringPreserves ==
  ASSUME IInv, EndMeasuring
  PROVE  IInv'
  <1>1. /\ pc = "measure" /\ pc' = "place" /\ i > Len(func) /\ i' = 1
        /\ func' = func /\ slot' = slot /\ Unaligned <= MaxInt
        /\ UNCHANGED <<payload, maxArgs, savedRa>>
        /\ outgoing' = OutgoingArgAreaSize(maxArgs) /\ nextSlot' = outgoing'
        /\ frame' = AlignStackSize(outgoing' + payload + SavedRaSize)
    BY DEF EndMeasuring, measured
  <1>2. /\ func \in Functions /\ i = Len(func) + 1 /\ Len(func) \in Nat
        /\ DOMAIN func = 1 .. Len(func) /\ MaxInt \in Nat
        /\ payload \in 0 .. MaxInt /\ payload \in Nat /\ maxArgs \in Nat
    BY <1>1, LengthFacts DEF IInv, TypeOK
  <1> DEFINE area == OutgoingArgAreaSize(maxArgs)
             size == AlignStackSize(area + payload + SavedRaSize)
  <1>3. area \in Nat /\ SavedRaSize \in Nat
    BY <1>2, AreaHoldsArgs DEF SavedRaSize, WordSize
  <1>4. size \in Nat /\ area + payload + SavedRaSize <= size
    <2>1. area + payload + SavedRaSize \in Nat
      BY <1>2, <1>3
    <2> QED BY <2>1, AlignUp
  <1>5. outgoing' = area /\ frame' = size
    BY <1>1, Zenon
  <1>6. raOffset' = IF savedRa THEN frame' - WordSize ELSE 0
    BY <1>1 DEF EndMeasuring, IInv, MeasureInv
  <1>7. outgoing' \in Nat /\ frame' \in Nat /\ raOffset' \in Nat
    <2>1. CASE savedRa
      <3>1. SavedRaSize = WordSize
        BY <2>1 DEF SavedRaSize
      <3>2. size - WordSize \in Nat
        BY <1>2, <1>3, <1>4, <3>1 DEF WordSize
      <3>3. raOffset' = size - WordSize
        BY <1>5, <1>6, <2>1, Zenon
      <3> QED BY <1>3, <1>4, <1>5, <3>2, <3>3, Zenon
    <2>2. CASE ~savedRa
      BY <1>3, <1>4, <1>5, <1>6, <2>2
    <2> QED BY <2>1, <2>2
  <1>8. TypeOK'
    <2>1. savedRa' \in BOOLEAN
      BY <1>1, Zenon DEF IInv, TypeOK
    <2> QED BY <1>1, <1>2, <1>7, <2>1 DEF IInv, TypeOK
  <1>9. CallsMeasured(Len(func))'
    <2>1. CallsMeasured(Len(func))
      BY <1>1, <1>2 DEF IInv, MeasureInv
    <2> QED BY <1>1, <2>1, Zenon DEF CallsMeasured
  <1>10. PICK total : RunningTotals(total, Len(func)) /\ payload = total[Len(func)]
    BY <1>1, <1>2 DEF IInv, MeasureInv, PayloadMeasured
  <1>11. Placed(total)'
    <2>1. total[0] = 0 /\ i' - 1 = 0
      BY <1>1, <1>10 DEF RunningTotals
    <2>2. \A k \in DOMAIN func : slot[k] = NoSlot /\ ~(k < 1)
      BY <1>1, <1>2 DEF IInv, MeasureInv
    <2> QED BY <1>1, <1>7, <2>1, <2>2 DEF Placed
  <1>12. RunningTotals(total, Len(func))'
    BY <1>1, <1>10 DEF RunningTotals, Size
  <1>13. Unaligned' = Unaligned /\ SavedRaSize' = SavedRaSize
    BY <1>1 DEF Unaligned, SavedRaSize
  <1>14. LayoutInv'
    <2>1. Unaligned' <= MaxInt /\ payload' = total[Len(func')]
      BY <1>1, <1>10, <1>13
    <2>2. /\ outgoing' = OutgoingArgAreaSize(maxArgs')
          /\ frame' = AlignStackSize(outgoing' + payload' + SavedRaSize')
      BY <1>1, <1>13
    <2>3. raOffset' = IF savedRa' THEN frame' - WordSize ELSE 0
      BY <1>1, <1>6, Zenon
    <2> QED BY <1>9, <1>11, <1>12, <2>1, <2>2, <2>3, Zenon DEF LayoutInv
  <1> QED BY <1>1, <1>8, <1>14 DEF IInv, MeasureInv

LEMMA PlacePreserves ==
  ASSUME IInv, Place
  PROVE  IInv'
  <1>1. /\ pc = "place" /\ pc' = "place" /\ i <= Len(func) /\ i' = i + 1
        /\ UNCHANGED <<func, payload, maxArgs, savedRa, outgoing, frame, raOffset>>
    BY DEF Place, measured, laidOut
  <1>2. /\ i \in DOMAIN func /\ i \in Nat /\ 1 <= i /\ DOMAIN func = 1 .. Len(func)
        /\ Len(func) \in Nat /\ Size(i) \in Nat /\ func \in Functions
        /\ outgoing \in Nat /\ nextSlot \in Nat /\ slot \in [DOMAIN func -> Nat \cup {NoSlot}]
    BY <1>1, LengthFacts, ValueFacts DEF IInv, TypeOK, Size
  <1>3. IF HasSlot(i)
          THEN slot' = [slot EXCEPT ![i] = nextSlot] /\ nextSlot' = nextSlot + Size(i)
          ELSE slot' = slot /\ nextSlot' = nextSlot /\ Size(i) = 0
    BY <1>2 DEF Place, HasSlot, Size
  <1>4. TypeOK'
    <2>1. slot' \in [DOMAIN func -> Nat \cup {NoSlot}] /\ nextSlot' \in Nat
      BY <1>2, <1>3
    <2>2. i' \in 1 .. (Len(func) + 1)
      BY <1>1, <1>2
    <2>3. savedRa' \in BOOLEAN
      BY <1>1, Zenon DEF IInv, TypeOK
    <2> QED BY <1>1, <2>1, <2>2, <2>3 DEF IInv, TypeOK
  <1>5. PICK total : /\ RunningTotals(total, Len(func))
                     /\ payload = total[Len(func)]
                     /\ Placed(total)
    BY <1>1 DEF IInv, LayoutInv
  <1>6. total[i] = total[i - 1] + Size(i) /\ total[i - 1] \in Nat
    BY <1>2, <1>5 DEF RunningTotals
  <1>7. RunningTotals(total, Len(func))'
    BY <1>1, <1>5 DEF RunningTotals, Size
  <1>8. \A k \in DOMAIN func : HasSlot(k)' = HasSlot(k)
    BY <1>1 DEF HasSlot, Size
  <1>9. Placed(total)'
    <2>1. nextSlot' = outgoing' + total[i' - 1]
      <3>1. i' = i + 1 /\ outgoing' = outgoing /\ (i + 1) - 1 = i
        BY <1>1, <1>2
      <3>2. nextSlot' = nextSlot + Size(i)
        BY <1>2, <1>3
      <3>3. nextSlot = outgoing + total[i - 1]
        BY <1>5 DEF Placed
      <3>4. total[i' - 1] = total[i] /\ outgoing' + total[i' - 1] = outgoing + total[i]
        BY <3>1
      <3>5. nextSlot + Size(i) = outgoing + total[i]
        <4>1. \A x, y, z \in Nat : (x + y) + z = x + (y + z)
          OBVIOUS
        <4> QED BY <1>2, <1>6, <3>3, <4>1
      <3> QED BY <3>2, <3>4, <3>5
    <2>2. ASSUME NEW k \in DOMAIN func
          PROVE  slot'[k] = IF k < i' /\ HasSlot(k) THEN outgoing + total[k - 1] ELSE NoSlot
      <3>1. CASE k = i
        BY <1>1, <1>2, <1>3, <1>5, <3>1 DEF Placed
      <3>2. CASE k # i
        <4>1. slot'[k] = slot[k] /\ (k < i' <=> k < i)
          BY <1>1, <1>2, <1>3, <3>2
        <4> QED BY <1>5, <4>1 DEF Placed
      <3> QED BY <3>1, <3>2
    <2> QED BY <1>1, <1>8, <2>1, <2>2 DEF Placed
  <1>10. LayoutInv'
    <2>1. /\ CallsMeasured(Len(func)) /\ Unaligned <= MaxInt
          /\ outgoing = OutgoingArgAreaSize(maxArgs)
          /\ frame = AlignStackSize(outgoing + payload + SavedRaSize)
          /\ raOffset = IF savedRa THEN frame - WordSize ELSE 0
      BY <1>1 DEF IInv, LayoutInv
    <2>2. /\ CallsMeasured(Len(func))' /\ Unaligned' = Unaligned /\ SavedRaSize' = SavedRaSize
      BY <1>1, <2>1 DEF CallsMeasured, Unaligned, SavedRaSize
    <2> QED BY <1>1, <1>5, <1>7, <1>9, <2>1, <2>2 DEF LayoutInv
  <1> QED BY <1>1, <1>4, <1>10 DEF IInv, MeasureInv

LEMMA Preserved == IInv /\ [Next]_vars => IInv'
  <1> SUFFICES ASSUME IInv, [Next]_vars PROVE IInv'
    OBVIOUS
  <1>1. CASE Measure
    BY <1>1, MeasurePreserves
  <1>2. CASE EndMeasuring
    BY <1>2, EndMeasuringPreserves
  <1>3. CASE Overflow
    <2>1. /\ pc = "measure" /\ pc' = "undefined"
          /\ UNCHANGED <<func, i, payload, maxArgs, savedRa, outgoing, frame, raOffset,
                         nextSlot, slot>>
      BY <1>3 DEF Overflow, measured, laidOut
    <2> QED BY <2>1 DEF IInv, TypeOK, MeasureInv, LayoutInv
  <1>4. CASE Place
    BY <1>4, PlacePreserves
  <1>5. CASE EndPlacing \/ UNCHANGED vars
    <2>1. /\ UNCHANGED <<func, i, payload, maxArgs, savedRa, outgoing, frame, raOffset,
                         nextSlot, slot>>
          /\ \/ pc = "place" /\ pc' = "done" /\ i > Len(func)
             \/ pc' = pc
      BY <1>5 DEF EndPlacing, vars, measured, laidOut
    <2>2. TypeOK'
      BY <2>1 DEF IInv, TypeOK
    <2>3. pc' = "done" => i' = Len(func') + 1
      BY <2>1, LengthFacts DEF IInv
    <2>4. MeasureInv'
      BY <2>1 DEF IInv, MeasureInv, CallsMeasured, PayloadMeasured, RunningTotals, Size
    <2>5. LayoutInv'
      BY <2>1 DEF IInv, LayoutInv, CallsMeasured, Unaligned, SavedRaSize, RunningTotals, Size,
                  Placed, HasSlot
    <2> QED BY <2>2, <2>3, <2>4, <2>5 DEF IInv
  <1> QED BY <1>1, <1>2, <1>3, <1>4, <1>5 DEF Next

LEMMA Invariant == Spec => []IInv
  BY Initialized, Preserved, PTL DEF Spec

-----------------------------------------------------------------------------
(* What the invariant says of the frame *)

LEMMA DisjointFromInv == IInv => SlotsDisjoint
  <1> SUFFICES ASSUME IInv,
                      NEW k \in DOMAIN func, NEW l \in DOMAIN func,
                      k < l, slot[k] # NoSlot, slot[l] # NoSlot
               PROVE  SlotEnd(k) <= slot[l]
    BY DEF SlotsDisjoint
  <1>1. pc \in {"place", "done"}
    BY DEF IInv, TypeOK, MeasureInv
  <1>2. PICK total : RunningTotals(total, Len(func)) /\ Placed(total)
    BY <1>1 DEF IInv, LayoutInv
  <1>3. k \in 1 .. Len(func) /\ l \in 1 .. Len(func) /\ Len(func) \in Nat /\ outgoing \in Nat
    BY LengthFacts DEF IInv, TypeOK
  <1>4. slot[k] = outgoing + total[k - 1] /\ slot[l] = outgoing + total[l - 1]
    BY <1>2 DEF Placed
  <1>5. /\ total[k] = total[k - 1] + Size(k) /\ total[k] <= total[l - 1]
        /\ total[k] \in Nat /\ total[k - 1] \in Nat /\ total[l - 1] \in Nat
    <2>1. k - 1 \in 0 .. Len(func) /\ l - 1 \in 0 .. Len(func) /\ k \in 0 .. Len(func)
          /\ k <= l - 1
      BY <1>3
    <2>2. total[k] = total[k - 1] + Size(k) /\ total[k] <= total[l - 1]
      BY <1>2, <1>3, <2>1 DEF RunningTotals
    <2>3. total[k] \in Nat /\ total[k - 1] \in Nat /\ total[l - 1] \in Nat
      BY <1>2, <2>1 DEF RunningTotals
    <2> QED BY <2>2, <2>3
  <1>6. Size(k) \in Nat
    BY ValueFacts DEF IInv, TypeOK, Size
  <1>7. SlotEnd(k) = slot[k] + Size(k)
    BY DEF SlotEnd, Size
  <1>8. outgoing \in Nat
    BY <1>3
  <1> QED BY <1>4, <1>5, <1>6, <1>7, <1>8

LEMMA InFrameFromInv == IInv => SlotsInFrame
  <1> SUFFICES ASSUME IInv, pc = "done", NEW k \in DOMAIN func
               PROVE  /\ func[k].words > 0 => slot[k] # NoSlot
                      /\ slot[k] # NoSlot =>
                           /\ outgoing <= slot[k]
                           /\ SlotEnd(k) <= IF savedRa THEN raOffset ELSE frame
    BY DEF SlotsInFrame
  <1>1. PICK total : /\ RunningTotals(total, Len(func)) /\ Placed(total)
                     /\ payload = total[Len(func)]
    BY DEF IInv, LayoutInv
  <1>2. /\ k \in 1 .. Len(func) /\ Len(func) \in Nat /\ outgoing \in Nat /\ payload \in Nat
        /\ k < i /\ Size(k) \in Nat /\ func[k].words \in Nat
    BY LengthFacts, ValueFacts DEF IInv, TypeOK, Size
  <1>3. /\ total[k] = total[k - 1] + Size(k) /\ total[k] <= payload
        /\ total[k - 1] \in Nat /\ total[k] \in Nat
    <2>1. k - 1 \in 0 .. Len(func) /\ k \in 0 .. Len(func) /\ Len(func) \in 0 .. Len(func)
      BY <1>2
    <2>2. total[k] = total[k - 1] + Size(k) /\ total[k] <= total[Len(func)]
      BY <1>1, <1>2, <2>1 DEF RunningTotals
    <2>3. total[k] \in Nat /\ total[k - 1] \in Nat
      BY <1>1, <2>1 DEF RunningTotals
    <2> QED BY <1>1, <2>2, <2>3
  <1>4. outgoing + payload + SavedRaSize <= frame /\ frame \in Nat
    <2>1. outgoing + payload + SavedRaSize \in Nat
      BY <1>2 DEF SavedRaSize, WordSize
    <2>2. frame = AlignStackSize(outgoing + payload + SavedRaSize)
      BY DEF IInv, LayoutInv
    <2> QED BY <2>1, <2>2, AlignUp
  <1>5. outgoing + payload <= IF savedRa THEN raOffset ELSE frame
    <2>1. raOffset = IF savedRa THEN frame - WordSize ELSE 0
      BY DEF IInv, LayoutInv
    <2>2. outgoing \in Nat /\ payload \in Nat
      BY <1>2
    <2>3. CASE savedRa
      <3>1. SavedRaSize = 4 /\ raOffset = frame - 4
        BY <2>1, <2>3 DEF SavedRaSize, WordSize
      <3> QED BY <1>4, <2>2, <2>3, <3>1
    <2>4. CASE ~savedRa
      <3>1. SavedRaSize = 0
        BY <2>4 DEF SavedRaSize
      <3> QED BY <1>4, <2>2, <2>4, <3>1
    <2> QED BY <2>3, <2>4
  <1>6. slot[k] = IF HasSlot(k) THEN outgoing + total[k - 1] ELSE NoSlot
    BY <1>1, <1>2 DEF Placed
  <1>7. func[k].words > 0 => slot[k] # NoSlot
    <2> SUFFICES ASSUME func[k].words > 0 PROVE slot[k] # NoSlot
      OBVIOUS
    <2>1. Size(k) = 4 * func[k].words
      BY DEF Size, StackStorageSize, WordSize
    <2>2. HasSlot(k)
      BY <1>2, <2>1 DEF HasSlot
    <2>3. slot[k] = outgoing + total[k - 1] /\ outgoing \in Nat
      BY <1>2, <1>6, <2>2
    <2> QED BY <1>3, <2>3 DEF NoSlot
  <1>8. ASSUME slot[k] # NoSlot
        PROVE  outgoing <= slot[k] /\ SlotEnd(k) <= IF savedRa THEN raOffset ELSE frame
    <2>1. slot[k] = outgoing + total[k - 1]
      BY <1>6, <1>8
    <2>2. outgoing <= slot[k] /\ SlotEnd(k) <= outgoing + payload /\ SlotEnd(k) \in Nat
      <3>1. SlotEnd(k) = slot[k] + Size(k)
        BY DEF SlotEnd, Size
      <3>2. outgoing \in Nat /\ payload \in Nat /\ Size(k) \in Nat
        BY <1>2
      <3> QED BY <1>3, <2>1, <3>1, <3>2
    <2>3. (IF savedRa THEN raOffset ELSE frame) \in Nat
      BY DEF IInv, TypeOK
    <2> QED BY <1>2, <1>5, <2>2, <2>3
  <1> QED BY <1>7, <1>8

LEMMA RoomFromInv == IInv => CallsHaveRoom
  <1> SUFFICES ASSUME IInv, pc = "done", NEW k \in DOMAIN func, func[k].kind = "call"
               PROVE  /\ savedRa
                      /\ \A arg \in ArgRegisterCount .. (func[k].args - 1) :
                           OutgoingArgOffset(arg) + WordSize <= outgoing
    BY DEF CallsHaveRoom
  <1>1. savedRa /\ func[k].args <= maxArgs
    BY LengthFacts DEF IInv, LayoutInv, CallsMeasured
  <1>2. maxArgs \in Nat /\ func[k].args \in Nat /\ outgoing = OutgoingArgAreaSize(maxArgs)
    BY ValueFacts DEF IInv, TypeOK, LayoutInv
  <1> QED BY <1>1, <1>2, AreaHoldsArgs

LEMMA AlignedFromInv == IInv => Aligned
  <1> SUFFICES ASSUME IInv, pc = "done"
               PROVE  /\ frame % StackAlignment = 0
                      /\ frame <= MaxInt
                      /\ raOffset % WordSize = 0
                      /\ \A k \in DOMAIN func : slot[k] # NoSlot => slot[k] % WordSize = 0
    BY DEF Aligned
  <1>1. PICK total : RunningTotals(total, Len(func)) /\ Placed(total)
    BY DEF IInv, LayoutInv
  <1>2. /\ DOMAIN func = 1 .. Len(func) /\ Len(func) \in Nat /\ MaxInt \in Nat
        /\ outgoing \in Nat /\ payload \in Nat /\ maxArgs \in Nat /\ SavedRaSize \in Nat
    BY LengthFacts DEF IInv, TypeOK, SavedRaSize, WordSize
  <1>3. /\ frame = AlignStackSize(outgoing + payload + SavedRaSize)
        /\ outgoing = OutgoingArgAreaSize(maxArgs)
        /\ raOffset = IF savedRa THEN frame - WordSize ELSE 0
        /\ Unaligned <= MaxInt
    BY DEF IInv, LayoutInv
  <1>4. /\ frame \in Nat /\ frame % StackAlignment = 0
        /\ frame <= outgoing + payload + SavedRaSize + StackAlignment - 1
    <2>1. outgoing + payload + SavedRaSize \in Nat
      BY <1>2
    <2> QED BY <1>3, <2>1, AlignUp
  <1>5. frame <= MaxInt
    BY <1>2, <1>3, <1>4 DEF Unaligned, StackAlignment
  <1>6. raOffset % WordSize = 0
    <2>1. CASE savedRa
      BY <1>3, <1>4, <2>1 DEF StackAlignment, WordSize
    <2>2. CASE ~savedRa
      BY <1>3, <2>2 DEF WordSize
    <2> QED BY <2>1, <2>2
  <1>7. ASSUME NEW k \in DOMAIN func, slot[k] # NoSlot
        PROVE  slot[k] % WordSize = 0
    <2>1. k - 1 \in 0 .. Len(func)
      BY <1>2
    <2>2. total[k - 1] \in Nat /\ total[k - 1] % WordSize = 0
      BY <1>1, <2>1 DEF RunningTotals
    <2>3. slot[k] = outgoing + total[k - 1]
      BY <1>1, <1>7 DEF Placed
    <2>4. outgoing % WordSize = 0
      <3>1. OutgoingArgAreaSize(maxArgs) % WordSize = 0
        BY <1>2, AreaHoldsArgs
      <3> QED BY <1>3, <3>1
    <2> QED BY <1>2, <2>2, <2>3, <2>4 DEF WordSize
  <1> QED BY <1>4, <1>5, <1>6, <1>7

-----------------------------------------------------------------------------

(* Every frame has the values TypeOK lists for it.                          *)
THEOREM TypeCorrect == Spec => []TypeOK
  <1>1. IInv => TypeOK
    BY DEF IInv
  <1> QED BY Invariant, <1>1, PTL

(* No two values of any function share a byte of its frame.                 *)
THEOREM SlotsDisjointCorrect == Spec => []SlotsDisjoint
  BY Invariant, DisjointFromInv, PTL

(* The second traversal of any function stays between the stack arguments    *)
(* and the return address, in the room the first one measured.              *)
THEOREM SlotsInFrameCorrect == Spec => []SlotsInFrame
  BY Invariant, InFrameFromInv, PTL

(* Every call of any function has its stack arguments below the first slot,  *)
(* and a function that calls saves its return address.                      *)
THEOREM CallsHaveRoomCorrect == Spec => []CallsHaveRoom
  BY Invariant, RoomFromInv, PTL

(* The stack pointer and the slots of any function keep their alignment.     *)
THEOREM AlignedCorrect == Spec => []Aligned
  BY Invariant, AlignedFromInv, PTL
=============================================================================
