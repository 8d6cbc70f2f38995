----------------------------- MODULE CommitLog -----------------------------
(***************************************************************************)
(* What the transport promises its two callers.  The owner seals whole     *)
(* commits and publishes them one at a time.  A reader that syncs gets     *)
(* the bytes of one commit, no older than the one published when it asked  *)
(* and at most the one being published when it gets its answer, or it is   *)
(* told that the writer lapped it, and then it was: RetryCap times.        *)
(***************************************************************************)
EXTENDS Integers

CONSTANTS Readers, Cells, Values, Blank, RetryCap

VARIABLES
  commits,      \* commits[v]: the bytes of sealed commit v
  published,    \* the version a reader sees
  syncing,      \* readers inside a sync
  from,         \* the version published when the sync was called
  heldVersion,  \* the commit a reader's last sync gave it...
  heldBytes     \* ...and its bytes

vars == <<commits, published, syncing, from, heldVersion, heldBytes>>
readerVars == <<syncing, from, heldVersion, heldBytes>>

Bytes == [Cells -> Values]

Init ==
  /\ commits = [v \in 0..0 |-> [c \in Cells |-> Blank]]
  /\ published = 0
  /\ syncing = [r \in Readers |-> FALSE]
  /\ from = [r \in Readers |-> 0]
  /\ heldVersion = [r \in Readers |-> 0]
  /\ heldBytes = [r \in Readers |-> [c \in Cells |-> Blank]]

\* One commit at most is sealed and not yet published.
Seal ==
  /\ DOMAIN commits = 0..published
  /\ \E bytes \in Bytes :
       commits' = [v \in 0..(published + 1) |->
                     IF v = published + 1 THEN bytes ELSE commits[v]]
  /\ UNCHANGED <<published, readerVars>>

Publish ==
  /\ DOMAIN commits = 0..(published + 1)
  /\ published' = published + 1
  /\ UNCHANGED <<commits, readerVars>>

Call(r) ==
  /\ ~syncing[r]
  /\ syncing' = [syncing EXCEPT ![r] = TRUE]
  /\ from' = [from EXCEPT ![r] = published]
  /\ UNCHANGED <<commits, published, heldVersion, heldBytes>>

End(r) ==
  /\ syncing[r]
  /\ syncing' = [syncing EXCEPT ![r] = FALSE]
  /\ from' = [from EXCEPT ![r] = 0]
  /\ UNCHANGED <<commits, published>>

Return(r) ==
  /\ End(r)
  /\ \E v \in DOMAIN commits :
       /\ v >= from[r]
       /\ heldVersion' = [heldVersion EXCEPT ![r] = v]
       /\ heldBytes' = [heldBytes EXCEPT ![r] = commits[v]]

Lapped(r) ==
  /\ End(r)
  /\ published >= from[r] + RetryCap
  /\ UNCHANGED <<heldVersion, heldBytes>>

Next ==
  \/ Seal
  \/ Publish
  \/ \E r \in Readers : Call(r) \/ Return(r) \/ Lapped(r)

Spec == Init /\ [][Next]_vars

=============================================================================
