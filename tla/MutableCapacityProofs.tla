------------------------ MODULE MutableCapacityProofs ------------------------
(***************************************************************************)
(* Theorems about MutableCapacity, for every word size, block size, reserve *)
(* and recommendation: a reservation holds its saves or is as large as a   *)
(* u64 allows, and an edit never shrinks a region.                         *)
(***************************************************************************)
EXTENDS MutableCapacity, Integers, TLAPS

\* A saturated sum is in range, and is the sum or the largest value.
LEMMA SaturateBounds ==
  ASSUME NEW n \in Nat
  PROVE  /\ Saturate(n) \in 0..(Limit - 1)
         /\ Saturate(n) = n \/ Saturate(n) = Limit - 1
         /\ Saturate(n) <= n
BY CapacityAssumption DEF Saturate

\* The remainder by a block size.
LEMMA Remainder ==
  ASSUME NEW n \in Nat
  PROVE  n % Align \in 0..(Align - 1) /\ n % Align <= n
BY CapacityAssumption

\* The last aligned u64.
LEMMA LastBlock ==
  /\ (Limit - 1) - ((Limit - 1) % Align) \in Nat
  /\ (Limit - 1) - ((Limit - 1) % Align) <= Limit - 1
<1>1. Limit - 1 \in Nat
  BY CapacityAssumption
<1>2. (Limit - 1) % Align \in 0..(Align - 1) /\ (Limit - 1) % Align <= Limit - 1
  BY <1>1, Remainder
<1> QED
  BY <1>1, <1>2, CapacityAssumption

\* Alignment stays in range, and rounds down only where no aligned u64 is larger.
LEMMA AlignedBounds ==
  ASSUME NEW n \in 0..(Limit - 1)
  PROVE  /\ Aligned(n) \in 0..(Limit - 1)
         /\ \/ Aligned(n) >= n
            \/ Aligned(n) = (Limit - 1) - ((Limit - 1) % Align)
<1>1. n % Align \in 0..(Align - 1)
  BY Remainder
<1>2. Limit - 1 \in Nat
  BY CapacityAssumption
<1>3. (Limit - 1) % Align \in 0..(Align - 1) /\ (Limit - 1) % Align <= Limit - 1
  BY <1>2, Remainder
<1> QED
  BY <1>1, <1>3, CapacityAssumption DEF Aligned

\* What the saves need: in range, and all of it unless it saturates.
LEMMA NeedBounds ==
  ASSUME NEW count \in Nat, NEW bytes \in 0..(Limit - 1)
  PROVE  /\ SavesNeed(count, bytes) \in 0..(Limit - 1)
         /\ \/ SavesNeed(count, bytes) >= bytes + Overhead * count
            \/ SavesNeed(count, bytes) = Limit - 1
<1>1. Overhead * count \in Nat /\ SaveReserve * count \in Nat
  BY CapacityAssumption
<1> DEFINE o == Saturate(Overhead * count)
           r == Saturate(SaveReserve * count)
           s == Saturate(bytes + o)
<1>2. o \in 0..(Limit - 1) /\ (o = Overhead * count \/ o = Limit - 1)
  BY <1>1, SaturateBounds
<1>3. r \in 0..(Limit - 1)
  BY <1>1, SaturateBounds
<1>4. bytes + o \in Nat
  BY <1>2, CapacityAssumption
<1>5. s \in 0..(Limit - 1) /\ (s = bytes + o \/ s = Limit - 1)
  BY <1>4, SaturateBounds
<1>6. s >= bytes + Overhead * count \/ s = Limit - 1
  BY <1>1, <1>2, <1>5, CapacityAssumption
<1>7. SavesNeed(count, bytes) = Larger(s, r)
  BY DEF SavesNeed
<1> HIDE DEF o, r, s
<1>8. SavesNeed(count, bytes) \in {s, r} /\ SavesNeed(count, bytes) >= s
  BY <1>3, <1>5, <1>7, CapacityAssumption DEF Larger
<1> QED
  BY <1>1, <1>3, <1>5, <1>6, <1>8, CapacityAssumption

\* Growth adds at least one block, unless it saturates.
LEMMA GrowthBounds ==
  ASSUME NEW need \in 0..(Limit - 1)
  PROVE  /\ WithGrowth(need) \in 0..(Limit - 1)
         /\ WithGrowth(need) >= need + Align \/ WithGrowth(need) = Limit - 1
<1> DEFINE g == Larger(need \div 4, Align)
<1>1. g \in Nat /\ g >= Align
  BY CapacityAssumption DEF Larger
<1> HIDE DEF g
<1>2. need + g \in Nat
  BY <1>1
<1>3. Saturate(need + g) \in 0..(Limit - 1) /\ (Saturate(need + g) = need + g \/ Saturate(need + g) = Limit - 1)
  BY <1>2, SaturateBounds
<1>4. WithGrowth(need) = Saturate(need + g)
  BY DEF WithGrowth, g
<1> QED
  BY <1>1, <1>3, <1>4, CapacityAssumption

\* The recommendation is in range and holds the saves, their overhead and a block, or is
\* the largest aligned capacity.
LEMMA RecommendedBounds ==
  ASSUME NEW base \in 0..(Limit - 1), NEW count \in Nat, NEW bytes \in 0..(Limit - 1)
  PROVE  /\ Recommended(base, count, bytes) \in 0..(Limit - 1)
         /\ \/ Recommended(base, count, bytes) >= bytes + Overhead * count + Align
            \/ Recommended(base, count, bytes) >= (Limit - 1) - ((Limit - 1) % Align)
<1> DEFINE need == SavesNeed(count, bytes)
           grown == WithGrowth(need)
           wanted == Larger(Larger(base, grown), MinCapacity)
           top == (Limit - 1) - ((Limit - 1) % Align)
           asked == bytes + Overhead * count
<1>1. need \in 0..(Limit - 1) /\ (need >= asked \/ need = Limit - 1)
  BY NeedBounds
<1>2. asked \in Nat
  BY CapacityAssumption
<1>3. top \in Nat /\ top <= Limit - 1
  BY LastBlock
<1> HIDE DEF need, top, asked
<1>4. grown \in 0..(Limit - 1) /\ (grown >= need + Align \/ grown = Limit - 1)
  BY <1>1, GrowthBounds
<1> HIDE DEF grown
<1>5. wanted \in 0..(Limit - 1) /\ wanted >= grown
  BY <1>4, CapacityAssumption DEF Larger
<1> HIDE DEF wanted
<1>6. Aligned(wanted) \in 0..(Limit - 1) /\ (Aligned(wanted) >= wanted \/ Aligned(wanted) = top)
  BY <1>5, AlignedBounds DEF top
<1>7. grown >= asked + Align \/ grown = Limit - 1
  BY <1>1, <1>2, <1>4, CapacityAssumption
<1>8. Aligned(wanted) >= asked + Align \/ Aligned(wanted) >= top
  BY <1>2, <1>3, <1>4, <1>5, <1>6, <1>7, CapacityAssumption
<1>9. Recommended(base, count, bytes) = Aligned(wanted)
  BY DEF Recommended, wanted, grown, need
<1> QED
  BY <1>6, <1>8, <1>9 DEF top, asked

\* Two slots stay free, and there are never fewer than eight.
LEMMA SlotsBounds ==
  ASSUME NEW count \in Nat
  PROVE  SlotCount(count) \in Nat /\ SlotCount(count) >= count + 2 /\ SlotCount(count) >= 8
BY DEF SlotCount, Larger

\* The inductive invariant: the types, and that the reserve holds what was asked for.
CapacityInv ==
  /\ capacity \in 0..(Limit - 1) /\ slots \in Nat
  /\ room \in [count : Nat, bytes : Nat, reserve : BOOLEAN]
  /\ ReserveHoldsSaves

LEMMA InvInit == CapacityInit => CapacityInv
BY CapacityAssumption DEF CapacityInit, CapacityInv, ReserveHoldsSaves

\* One edit, of any kind, keeps the invariant and the capacity.
LEMMA InvStep ==
  ASSUME CapacityInv, [CapacityNext]_capacityVars
  PROVE  CapacityInv' /\ capacity' >= capacity
<1>1. CASE UNCHANGED capacityVars
  BY <1>1, CapacityAssumption DEF CapacityInv, capacityVars, ReserveHoldsSaves
<1>2. CASE PackWithReserve
  <2>1. capacity = 0
    BY <1>2 DEF PackWithReserve
  <2>2. PICK base \in Bases, count \in SaveCounts, bytes \in SaveSizes, reserve \in BOOLEAN :
          /\ Wants(count, bytes, reserve)
          /\ capacity' = IF reserve THEN Recommended(base, count, bytes) ELSE 0
          /\ slots' = IF reserve THEN SlotCount(count) ELSE 0
    BY <1>2 DEF PackWithReserve
  <2>3. base \in 0..(Limit - 1) /\ count \in Nat /\ bytes \in 0..(Limit - 1)
    BY CapacityAssumption
  <2>4. room' = [count |-> count, bytes |-> bytes, reserve |-> reserve]
    BY <2>2 DEF Wants
  <2>5. room' \in [count : Nat, bytes : Nat, reserve : BOOLEAN]
    BY <2>3, <2>4
  <2>6. CASE reserve
    <3>1. capacity' = Recommended(base, count, bytes) /\ slots' = SlotCount(count)
      BY <2>2, <2>6
    <3>2. capacity' \in 0..(Limit - 1)
      BY <2>3, <3>1, RecommendedBounds
    <3>3. slots' \in Nat /\ slots' >= count + 2 /\ slots' >= 8
      BY <2>3, <3>1, SlotsBounds
    <3>4. \/ capacity' >= bytes + Overhead * count + Align
          \/ capacity' >= (Limit - 1) - ((Limit - 1) % Align)
      BY <2>3, <3>1, RecommendedBounds
    <3>5. room'.count = count /\ room'.bytes = bytes
      BY <2>4
    <3>6. ReserveHoldsSaves'
      BY <3>2, <3>3, <3>4, <3>5, CapacityAssumption DEF ReserveHoldsSaves
    <3> QED
      BY <2>1, <2>5, <3>2, <3>3, <3>6 DEF CapacityInv
  <2>7. CASE ~reserve
    BY <2>1, <2>2, <2>4, <2>5, <2>7, CapacityAssumption DEF CapacityInv, ReserveHoldsSaves
  <2> QED
    BY <2>6, <2>7
<1>3. CASE EditContainer
  <2>1. CASE Wants(0, 0, FALSE) /\ UNCHANGED <<capacity, slots>>
    BY <2>1, CapacityAssumption DEF Wants, CapacityInv, ReserveHoldsSaves
  <2>2. CASE \E base \in Bases, count \in SaveCounts, bytes \in SaveSizes, reserve \in BOOLEAN :
          /\ Wants(count, bytes, reserve)
          /\ capacity' = IF reserve THEN GrownTo(Recommended(base, count, bytes)) ELSE capacity
          /\ slots' = IF reserve THEN SlotCount(count) ELSE 8
    <3>1. PICK base \in Bases, count \in SaveCounts, bytes \in SaveSizes, reserve \in BOOLEAN :
            /\ Wants(count, bytes, reserve)
            /\ capacity' = IF reserve THEN GrownTo(Recommended(base, count, bytes)) ELSE capacity
            /\ slots' = IF reserve THEN SlotCount(count) ELSE 8
      BY <2>2
    <3>2. base \in 0..(Limit - 1) /\ count \in Nat /\ bytes \in 0..(Limit - 1)
      BY CapacityAssumption
    <3>3. room' = [count |-> count, bytes |-> bytes, reserve |-> reserve]
      BY <3>1 DEF Wants
    <3>4. room' \in [count : Nat, bytes : Nat, reserve : BOOLEAN]
      BY <3>2, <3>3
    <3>5. CASE reserve
      <4> DEFINE rec == Recommended(base, count, bytes)
                 top == (Limit - 1) - ((Limit - 1) % Align)
                 asked == bytes + Overhead * count + Align
      <4>1. rec \in 0..(Limit - 1) /\ (rec >= asked \/ rec >= top)
        BY <3>2, RecommendedBounds
      <4>2. top \in Int /\ asked \in Int
        <5>1. top \in Nat
          BY LastBlock
        <5>2. Overhead * count \in Nat
          BY <3>2, CapacityAssumption
        <5> QED
          BY <3>2, <5>1, <5>2, CapacityAssumption
      <4>3. slots' = SlotCount(count) /\ capacity' = GrownTo(rec)
        BY <3>1, <3>5
      <4> HIDE DEF rec, top, asked
      <4>4. capacity' \in 0..(Limit - 1) /\ capacity' >= capacity /\ capacity' >= rec
        BY <4>1, <4>3, CapacityAssumption DEF GrownTo, Larger, CapacityInv
      <4>5. capacity' >= asked \/ capacity' >= top
        BY <4>1, <4>2, <4>4, CapacityAssumption
      <4>6. capacity' < Limit
        BY <4>4, CapacityAssumption
      <4>7. room'.count = count /\ room'.bytes = bytes
        BY <3>3
      <4>8. ReserveHoldsSaves'
        BY <3>2, <4>3, <4>5, <4>6, <4>7, SlotsBounds DEF ReserveHoldsSaves, asked, top
      <4> QED
        BY <3>2, <3>4, <4>3, <4>4, <4>8, SlotsBounds DEF CapacityInv
    <3>6. CASE ~reserve
      BY <3>1, <3>3, <3>4, <3>6, CapacityAssumption DEF CapacityInv, ReserveHoldsSaves
    <3> QED
      BY <3>5, <3>6
  <2> QED
    BY <1>3, <2>1, <2>2 DEF EditContainer
<1> QED
  BY <1>1, <1>2, <1>3 DEF CapacityNext

\* A reserved region holds what it was reserved for, whatever the platform recommends.
THEOREM ReserveAlwaysHoldsSaves == CapacitySpec => []ReserveHoldsSaves
<1>1. CapacityInit => CapacityInv
  BY InvInit
<1>2. CapacityInv /\ [CapacityNext]_capacityVars => CapacityInv'
  BY InvStep
<1>3. CapacityInv => ReserveHoldsSaves
  BY DEF CapacityInv
<1> QED
  BY <1>1, <1>2, <1>3, PTL DEF CapacitySpec

\* main.rs: "an edit must never silently shrink it".
THEOREM EditsNeverShrink == CapacitySpec => EditNeverShrinks
<1>1. CapacityInit => CapacityInv
  BY InvInit
<1>2. CapacityInv /\ [CapacityNext]_capacityVars => CapacityInv'
  BY InvStep
<1>3. CapacityInv /\ [CapacityNext]_capacityVars => [capacity' >= capacity]_capacityVars
  BY InvStep
<1> QED
  BY <1>1, <1>2, <1>3, PTL DEF CapacitySpec, EditNeverShrinks
=============================================================================
