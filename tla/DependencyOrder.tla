--------------------------- MODULE DependencyOrder ---------------------------
(***************************************************************************)
(* What lowering in dependency order promises, whatever worklist finds the *)
(* order: a channel gets its value when all channels it reads have theirs, *)
(* and a tile is retired when all its channels have a value.  The program  *)
(* is accepted when every tile is retired; it may be refused at any time.  *)
(***************************************************************************)
EXTENDS FiniteSets

VARIABLES
  reads,    \* the channels each channel of a tile reads
  from,     \* the tile that sends each channel
  tiles,    \* the tiles to retire
  valued,   \* the channels that have a value
  retired,  \* the tiles that are gone
  verdict

vars == <<reads, from, tiles, valued, retired, verdict>>
program == <<reads, from, tiles>>

Init == valued = {} /\ retired = {} /\ verdict = "open"

Produce(c) ==
  /\ from[c] \notin retired
  /\ reads[c] \subseteq valued
  /\ valued' = valued \cup {c}
  /\ UNCHANGED <<program, retired, verdict>>

Retire(t) ==
  /\ {c \in DOMAIN from : from[c] = t} \subseteq valued
  /\ retired' = retired \cup {t}
  /\ UNCHANGED <<program, valued, verdict>>

Accept ==
  /\ retired = tiles
  /\ verdict' = "accepted"
  /\ UNCHANGED <<program, valued, retired>>

Refuse ==
  /\ verdict' = "refused"
  /\ UNCHANGED <<program, valued, retired>>

Next ==
  /\ verdict = "open"
  /\ \/ \E c \in DOMAIN reads : Produce(c)
     \/ \E t \in tiles \ retired : Retire(t)
     \/ Accept
     \/ Refuse

Spec == Init /\ [][Next]_vars
=============================================================================
