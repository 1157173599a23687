------------------------------ MODULE RegionMap ------------------------------
(***************************************************************************)
(* What the memory planning of an application promises, whatever strategy  *)
(* it uses: a set of address spaces, each from Lo[s] up to Hi[s], in which *)
(* regions are granted one at a time.  A granted region is aligned, lies   *)
(* inside its space, and shares no byte with any other; it is never moved, *)
(* resized or taken back.  The collector places the slices of a tile in    *)
(* its L1 and the buffers of a tensor in L2 by bumping a cursor; this      *)
(* module says nothing of cursors.                                         *)
(***************************************************************************)
EXTENDS Integers

CONSTANTS
  Spaces,  \* the memories
  Lo,      \* the first byte of each
  Hi,      \* the first byte after it
  Align    \* every region starts at a multiple of Align

VARIABLE regions   \* space -> region id -> [start, size]

Stop(r) == r.start + r.size

Disjoint(r, s) == Stop(r) <= s.start \/ Stop(s) <= r.start

Init == \A s \in Spaces : DOMAIN regions[s] = {}

(***************************************************************************)
(* A new region appears in space s beside the old ones, which stay.        *)
(***************************************************************************)
Grant(s) ==
  \E id \in DOMAIN regions'[s] :
    /\ id \notin DOMAIN regions[s]
    /\ DOMAIN regions'[s] = DOMAIN regions[s] \cup {id}
    /\ \A old \in DOMAIN regions[s] :
         /\ regions'[s][old] = regions[s][old]
         /\ Disjoint(regions[s][old], regions'[s][id])
    /\ regions'[s][id].start % Align = 0
    /\ Lo[s] <= regions'[s][id].start
    /\ Stop(regions'[s][id]) <= Hi[s]

(***************************************************************************)
(* One step may grant a region in several spaces: an input is given a      *)
(* slice of a tile and a buffer in L2 at once.                             *)
(***************************************************************************)
Next == \A s \in Spaces : Grant(s) \/ UNCHANGED regions[s]

Spec == Init /\ [][Next]_regions
=============================================================================
