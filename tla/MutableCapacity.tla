--------------------------- MODULE MutableCapacity ---------------------------
(***************************************************************************)
(* How large a container's mutable region is made: the recommendation of   *)
(* lib.rs, in u64 arithmetic that saturates, and what the pack page makes  *)
(* of it when a container is packed and edited again and again             *)
(* (convert_pack_set, convert_single, convert_lpl_edit).                   *)
(***************************************************************************)
EXTENDS Naturals

CONSTANTS
  Limit,        \* the number of values of a u64
  Align,        \* MUTABLE_ALIGNMENT
  Overhead,     \* MUTABLE_BUNDLE_OVERHEAD_RESERVE, per save
  SaveReserve,  \* DEFAULT_SAVE_OBJECT_CAPACITY, per save
  MinCapacity,  \* MIN_MUTABLE_CAPACITY
  Bases,        \* the platforms' recommendations
  SaveCounts, SaveSizes  \* bounds on what a save directory holds

ASSUME CapacityAssumption ==
  /\ Limit \in Nat /\ Align \in Nat \ {0} /\ Overhead \in Nat /\ SaveReserve \in Nat /\ MinCapacity \in Nat
  /\ Align < Limit /\ MinCapacity < Limit
  /\ Bases \subseteq 0..(Limit - 1) /\ SaveCounts \subseteq Nat /\ SaveSizes \subseteq 0..(Limit - 1)

VARIABLES
  capacity,  \* mutable capacity of the container on the page; 0 for none
  slots,     \* its mutable_entry_capacity
  room       \* what the last conversion had to make room for

capacityVars == <<capacity, slots, room>>

Saturate(n) == IF n < Limit THEN n ELSE Limit - 1
Larger(a, b) == IF a > b THEN a ELSE b

------------------------------------------------------------------------------
(* lib.rs *)

\* Defect: the overhead of the bundles is not counted.
SavesNeed_Bare(count, bytes) == Larger(bytes, Saturate(SaveReserve * count))

\* The measured bytes and the bundles' overhead, but at least the default per save.
SavesNeed(count, bytes) ==
  Larger(Saturate(bytes + Saturate(Overhead * count)), Saturate(SaveReserve * count))

\* A quarter, but at least one block, is added for growth.
WithGrowth(need) == Saturate(need + Larger(need \div 4, Align))

\* Up to the next block; where that is no u64, down to the last one.
Aligned(n) ==
  IF n % Align = 0 THEN n
  ELSE IF n + (Align - (n % Align)) < Limit THEN n + (Align - (n % Align))
  ELSE (Limit - 1) - ((Limit - 1) % Align)

\* recommended_mutable_capacity_for_save_bytes.
Recommended(base, count, bytes) ==
  Aligned(Larger(Larger(base, WithGrowth(SavesNeed(count, bytes))), MinCapacity))

\* recommended_mutable_entry_capacity: two more than the saves, in units of eight.
SlotCount(count) == (((Larger(count + 2, 8)) + 7) \div 8) * 8

------------------------------------------------------------------------------
(* The pages. *)

CapacityInit == capacity = 0 /\ slots = 0 /\ room = [count |-> 0, bytes |-> 0, reserve |-> FALSE]

\* Defect: the recommendation replaces what the container had.
GrownTo_Recommended(recommended) == recommended

\* An edit never takes less than the container has.
GrownTo(recommended) == Larger(recommended, capacity)

Wants(count, bytes, reserve) == room' = [count |-> count, bytes |-> bytes, reserve |-> reserve]

\* convert_single of a ROM and convert_pack_set: nothing was there before.
PackWithReserve ==
  /\ capacity = 0
  /\ \E base \in Bases, count \in SaveCounts, bytes \in SaveSizes, reserve \in BOOLEAN :
       /\ Wants(count, bytes, reserve)
       /\ capacity' = IF reserve THEN Recommended(base, count, bytes) ELSE 0
       /\ slots' = IF reserve THEN SlotCount(count) ELSE 0

\* convert_single of a ROMX: its region is copied as it is when no save directory is
\* chosen; else the region is rebuilt, grown if the box is ticked, with the writer's
\* eight slots if it is not.
EditContainer ==
  /\ capacity > 0
  /\ \/ Wants(0, 0, FALSE) /\ UNCHANGED <<capacity, slots>>
     \/ \E base \in Bases, count \in SaveCounts, bytes \in SaveSizes, reserve \in BOOLEAN :
          /\ Wants(count, bytes, reserve)
          /\ capacity' = IF reserve THEN GrownTo(Recommended(base, count, bytes)) ELSE capacity
          /\ slots' = IF reserve THEN SlotCount(count) ELSE 8

CapacityNext == PackWithReserve \/ EditContainer
CapacitySpec == CapacityInit /\ [][CapacityNext]_capacityVars

------------------------------------------------------------------------------
(* Properties. *)

\* A reservation has room for every save with its overhead and a growth block, as far
\* as a u64 goes, and for CHEAT and STATS beside the saves; saturation never wraps
\* around to a region that is too small.
ReserveHoldsSaves ==
  room.reserve =>
    /\ capacity < Limit
    /\ \/ capacity >= room.bytes + Overhead * room.count + Align
       \/ capacity >= (Limit - 1) - ((Limit - 1) % Align)
    /\ slots >= room.count + 2 /\ slots >= 8

\* "An edit must never silently shrink it" (main.rs): editing a container, any number of
\* times and whatever the saves and the platform, keeps the region's capacity or grows it.
EditNeverShrinks == [][capacity' >= capacity]_capacityVars
=============================================================================
