--------------------------- MODULE InFlightSlots ---------------------------
(***************************************************************************)
(* What a pool entry promises about its in-flight slots: taking one and    *)
(* giving one back are indivisible, a slot is taken only below the limit   *)
(* (0: no limit), and a slot nobody holds is never given back.  Module     *)
(* Leases implements this with the lookup and compare-and-swap loops of    *)
(* pool.go.                                                                *)
(***************************************************************************)
EXTENDS Naturals

CONSTANTS
  Entries,      \* entry objects
  Limit         \* [Entries -> Nat]: slots of an entry, 0 for no limit

VARIABLE used   \* slots taken of each entry

Init == used = [e \in Entries |-> 0]

Take(e) ==
  /\ Limit[e] = 0 \/ used[e] < Limit[e]
  /\ used' = [used EXCEPT ![e] = @ + 1]

Give(e) ==
  /\ used[e] > 0
  /\ used' = [used EXCEPT ![e] = @ - 1]

Next == \E e \in Entries : Take(e) \/ Give(e)

Spec == Init /\ [][Next]_used
=============================================================================
