--------------------------- MODULE VersionRetention ---------------------------
(***************************************************************************)
(* What the owner promises about the versions of the arena, with the words *)
(* of shared memory left out.  The ring has room for the version that is   *)
(* published because the one it displaces was given up first; a version is *)
(* given up only when it loses its place in the ring or is older than the  *)
(* depth of history; what it alone kept alive is freed once, after that,   *)
(* and not under a pin that stands unless its place in the ring is lost.   *)
(*                                                                         *)
(* Nothing here keeps the floor from overtaking a pin: a pin protects what *)
(* it pins from being freed, not from being called stale.                  *)
(***************************************************************************)
EXTENDS Integers

CONSTANTS Readers, Capacity, HistoryDepth

VARIABLES
  latest,  \* the version published last
  newest,  \* the newest version with a place in the ring: latest, or the next
  floor,   \* the versions below are given up: nobody may start to read them
  freed,   \* the versions whose garbage was freed
  pinned   \* per reader, the version its pin holds, 0 for none

vars == <<latest, newest, floor, freed, pinned>>

\* The place of v in the ring belongs to w, or to a version in between.
Displaces(w, v) == v + Capacity <= w

Init ==
  /\ latest = 1
  /\ newest = 1
  /\ floor \in 0..1
  /\ freed = {}
  /\ pinned = [r \in Readers |-> 0]

\* The next version takes its place; what had it is given up, and no more.
MakeRoom ==
  /\ newest = latest
  /\ newest' = latest + 1
  /\ \E to \in floor..(latest + 1) :
       /\ \A v \in floor..(to - 1) : Displaces(latest + 1, v)
       /\ \A v \in to..latest : v >= 1 => ~Displaces(latest + 1, v)
       /\ floor' = to
  /\ UNCHANGED <<latest, freed, pinned>>

Publish ==
  /\ newest = latest + 1
  /\ latest' = newest
  /\ UNCHANGED <<newest, floor, freed, pinned>>

\* Between two versions, what is older than the depth of history is given up.
GiveUp ==
  /\ newest = latest
  /\ \E to \in (floor + 1)..(latest - HistoryDepth) : floor' = to
  /\ UNCHANGED <<latest, newest, freed, pinned>>

\* The garbage of v is what v reaches and v + 1 does not.
Free(v) ==
  /\ v < latest
  /\ v < floor
  /\ v \notin freed
  /\ Displaces(newest, v) \/ \A r \in Readers : pinned[r] = 0 \/ v < pinned[r]
  /\ freed' = freed \cup {v}
  /\ UNCHANGED <<latest, newest, floor, pinned>>

\* A pin holds a version that is not given up, perhaps the one on its way.
Pin(r) ==
  /\ pinned[r] = 0
  /\ \E v \in 1..newest :
       /\ v >= floor
       /\ pinned' = [pinned EXCEPT ![r] = v]
  /\ UNCHANGED <<latest, newest, floor, freed>>

\* Pins end: the reader's own, and those of the readers that share its slot.
Unpin ==
  /\ \E R \in SUBSET Readers :
       pinned' = [r \in Readers |-> IF r \in R THEN 0 ELSE pinned[r]]
  /\ UNCHANGED <<latest, newest, floor, freed>>

Next ==
  \/ MakeRoom \/ Publish \/ GiveUp \/ Unpin
  \/ \E v \in 1..latest : Free(v)
  \/ \E r \in Readers : Pin(r)

Spec == Init /\ [][Next]_vars

=============================================================================
