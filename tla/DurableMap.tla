------------------------------ MODULE DurableMap ------------------------------
(***************************************************************************)
(* What pkg/storage/hybrid promises its callers, without logs, indexes or  *)
(* caches: a map from keys to values whose recent history may be lost in a *)
(* crash, but only back to the last flush, and only as a whole suffix of   *)
(* the history (never one key's write without the writes before it).       *)
(***************************************************************************)
EXTENDS Naturals, Sequences

CONSTANTS Keys, Vals, Absent

VARIABLES
    snaps,      \* the map after the last flush, and after every write since
    up          \* whether the store is serving requests

vars == <<snaps, up>>

Maps == [Keys -> Vals \cup {Absent}]
Current == snaps[Len(snaps)]

Init == /\ snaps \in {<<m>> : m \in Maps}
        /\ up = FALSE

Start == /\ ~up
         /\ up' = TRUE
         /\ UNCHANGED snaps

(* A Put is a write of a value, a Delete is a write of Absent. *)
Write == /\ up
         /\ \E k \in Keys, v \in Vals \cup {Absent} :
               snaps' = Append(snaps, [Current EXCEPT ![k] = v])
         /\ UNCHANGED up

Flush == /\ up
         /\ snaps' = <<Current>>
         /\ UNCHANGED up

(* A stop, orderly or not: the map restarts from one of the snapshots. *)
Stop == /\ \E i \in DOMAIN snaps : snaps' = <<snaps[i]>>
        /\ up' = FALSE

Next == Start \/ Write \/ Flush \/ Stop

Spec == Init /\ [][Next]_vars
===============================================================================
