----------------------------- MODULE ShmRegion -----------------------------
(***************************************************************************)
(* The native transport, packages/shm/native/addon.c: one mapped region    *)
(* with two data slots, written by one owner and copied out by readers in  *)
(* other processes, with no lock between them.                             *)
(*                                                                         *)
(* Flush and Sync are split at every load and store of shared memory, and  *)
(* the memcpy's into single cells that may be copied in any order: the     *)
(* fences of addon.c order the sequence and the word against the payload,  *)
(* and nothing orders the payload.  The operations of one process are      *)
(* interleaved freely with those of the others.                            *)
(***************************************************************************)
EXTENDS Integers

CONSTANTS
  Readers,     \* processes that attached the region
  Cells,       \* the units a memcpy copies in one access
  Values,      \* what a cell can hold
  Blank,       \* the zeroed cell of a new file
  Mirrors,     \* Mirrors[v]: what the owner's private mirror may hold at commit v
  MaxVersion,  \* bound: commits flushed
  RetryCap     \* SYNC_RETRY_CAP, 50 million in the code

ASSUME BlankAssumption   == Blank \in Values
ASSUME VersionAssumption == MaxVersion \in Nat
ASSUME MirrorAssumption  == Mirrors \in [1..MaxVersion -> SUBSET [Cells -> Values]]
ASSUME RetryAssumption   == RetryCap \in Nat \ {0}
\* A slot's sequence is a uint32 that a flush advances by two: below this bound
\* it does not wrap, and the model keeps it as a natural number.
ASSUME WidthAssumption   == MaxVersion < 2147483647

VARIABLES
  word,        \* the published word: version and slot, one atomic u64
  slotSeq,     \* per slot, odd while the writer is inside
  slotVer,     \* per slot, the commit it was built for
  slotData,    \* per slot, the bytes
  ownerPc,     \* where the owner is in Flush
  flushing,    \* Flush's arguments: the ranges' cells and the mirror
  redo,        \* cells of the previous ranges not yet reapplied
  todo,        \* cells of the new ranges not yet copied in
  prevRanges,  \* Region.prev_ranges
  readerPc,    \* where each reader is in Sync
  slot,        \* Sync's s
  s1,          \* Sync's s1
  dest,        \* Sync's dest buffer
  copied,      \* cells of dest already copied
  version,     \* Sync's version, Unread until it is loaded
  fails,       \* Sync's attempts, the ones that have failed
  heldVersion, \* what the last Sync that returned gave its caller...
  heldBytes,   \* ...and the bytes it left in dest
  log,         \* history: log[v] is commit v as the owner declared it
  from,        \* history: the published version when Sync was called
  loaded       \* history: the published version when this attempt loaded the word

ownerVars  == <<word, slotSeq, slotVer, slotData, ownerPc, flushing, redo, todo,
                prevRanges, log>>
localVars  == <<slot, s1, dest, copied, version, loaded>>
readerVars == <<readerPc, localVars, fails, heldVersion, heldBytes, from>>
vars       == <<ownerVars, readerVars>>

Slots   == {0, 1}
Unread  == -1
Odd(n)  == n % 2 = 1
Blanks  == [c \in Cells |-> Blank]

\* A Flush that is not running has no arguments.
NoFlush == [declared |-> {}, mirror |-> Blanks]

\* Mutant: layout one, which rewrote the published slot in place.
MutantInPlace == word.slot

InactiveSlot == 1 - word.slot
NextVersion  == word.version + 1

Init ==
  /\ word = [version |-> 0, slot |-> 0]
  /\ slotSeq = [s \in Slots |-> 0]
  /\ slotVer = [s \in Slots |-> 0]
  /\ slotData = [s \in Slots |-> Blanks]
  /\ ownerPc = "idle"
  /\ flushing = NoFlush
  /\ redo = {}
  /\ todo = {}
  /\ prevRanges = {}
  /\ readerPc = [r \in Readers |-> "idle"]
  /\ slot = [r \in Readers |-> 0]
  /\ s1 = [r \in Readers |-> 0]
  /\ dest = [r \in Readers |-> Blanks]
  /\ copied = [r \in Readers |-> {}]
  /\ version = [r \in Readers |-> Unread]
  /\ fails = [r \in Readers |-> 0]
  /\ heldVersion = [r \in Readers |-> 0]
  /\ heldBytes = [r \in Readers |-> Blanks]
  /\ log = [v \in 0..MaxVersion |-> Blanks]
  /\ from = [r \in Readers |-> 0]
  /\ loaded = [r \in Readers |-> 0]

-----------------------------------------------------------------------------
(* The owner: Flush *)

\* The arguments are checked, the word is read, and the inactive slot's
\* sequence goes odd.  The mirror may differ from the last commit anywhere:
\* only the declared cells are part of this one.
EnterSlot ==
  /\ ownerPc = "idle"
  /\ word.version < MaxVersion
  /\ slotSeq' = [slotSeq EXCEPT ![InactiveSlot] = @ + 1]
  /\ \E declared \in SUBSET Cells, mirror \in Mirrors[NextVersion] :
       /\ flushing' = [declared |-> declared, mirror |-> mirror]
       /\ todo' = declared
       /\ log' = [log EXCEPT ![NextVersion] =
                    [c \in Cells |-> IF c \in declared THEN mirror[c]
                                     ELSE log[word.version][c]]]
  /\ redo' = prevRanges
  /\ ownerPc' = "inside"
  /\ UNCHANGED <<word, slotVer, slotData, prevRanges, readerVars>>

\* Mutant: the previous ranges are reapplied from the owner's mirror.
MutantReapplyFromMirror(c) ==
  /\ ownerPc = "inside"
  /\ c \in redo
  /\ slotData' = [slotData EXCEPT ![InactiveSlot][c] = flushing.mirror[c]]
  /\ redo' = redo \ {c}
  /\ UNCHANGED <<word, slotSeq, slotVer, ownerPc, flushing, todo, prevRanges, log,
                 readerVars>>

\* One cell of the previous commit's ranges, from the published slot.
ReapplyCell(c) ==
  /\ ownerPc = "inside"
  /\ c \in redo
  /\ slotData' = [slotData EXCEPT ![InactiveSlot][c] = slotData[word.slot][c]]
  /\ redo' = redo \ {c}
  /\ UNCHANGED <<word, slotSeq, slotVer, ownerPc, flushing, todo, prevRanges, log,
                 readerVars>>

\* One cell of the new ranges, from the mirror.  Two stores to one cell keep
\* their order, stores to different cells do not.
CopyInCell(c) ==
  /\ ownerPc = "inside"
  /\ c \in todo \ redo
  /\ slotData' = [slotData EXCEPT ![InactiveSlot][c] = flushing.mirror[c]]
  /\ todo' = todo \ {c}
  /\ UNCHANGED <<word, slotSeq, slotVer, ownerPc, flushing, redo, prevRanges, log,
                 readerVars>>

\* The slot's version, then the owner's private note of these ranges.
StampSlot ==
  /\ ownerPc = "inside"
  /\ redo = {}
  /\ todo = {}
  /\ slotVer' = [slotVer EXCEPT ![InactiveSlot] = NextVersion]
  /\ prevRanges' = flushing.declared
  /\ ownerPc' = "stamped"
  /\ UNCHANGED <<word, slotSeq, slotData, flushing, redo, todo, log, readerVars>>

LeaveSlot ==
  /\ ownerPc = "stamped"
  /\ slotSeq' = [slotSeq EXCEPT ![InactiveSlot] = @ + 1]
  /\ ownerPc' = "sealed"
  /\ UNCHANGED <<word, slotVer, slotData, flushing, redo, todo, prevRanges, log,
                 readerVars>>

PublishWord ==
  /\ ownerPc = "sealed"
  /\ word' = [version |-> NextVersion, slot |-> InactiveSlot]
  /\ flushing' = NoFlush
  /\ ownerPc' = "idle"
  /\ UNCHANGED <<slotSeq, slotVer, slotData, redo, todo, prevRanges, log, readerVars>>

Flush ==
  \/ EnterSlot
  \/ \E c \in Cells : ReapplyCell(c) \/ CopyInCell(c)
  \/ StampSlot
  \/ LeaveSlot
  \/ PublishWord

-----------------------------------------------------------------------------
(* A reader: Sync *)

CallSync(r) ==
  /\ readerPc[r] = "idle"
  /\ readerPc' = [readerPc EXCEPT ![r] = "load"]
  /\ from' = [from EXCEPT ![r] = word.version]
  /\ UNCHANGED <<ownerVars, localVars, fails, heldVersion, heldBytes>>

\* Mutant: attempts <= SYNC_RETRY_CAP.
MutantOneAttemptMore(r) ==
  /\ readerPc[r] = "load"
  /\ fails[r] <= RetryCap
  /\ slot' = [slot EXCEPT ![r] = word.slot]
  /\ loaded' = [loaded EXCEPT ![r] = word.version]
  /\ readerPc' = [readerPc EXCEPT ![r] = "seq"]
  /\ UNCHANGED <<ownerVars, s1, dest, copied, version, fails, heldVersion, heldBytes,
                 from>>

\* Mutant: the reader copies the slot the word does not name.
MutantWrongSlot(r) ==
  /\ readerPc[r] = "load"
  /\ fails[r] < RetryCap
  /\ slot' = [slot EXCEPT ![r] = InactiveSlot]
  /\ loaded' = [loaded EXCEPT ![r] = word.version]
  /\ readerPc' = [readerPc EXCEPT ![r] = "seq"]
  /\ UNCHANGED <<ownerVars, s1, dest, copied, version, fails, heldVersion, heldBytes,
                 from>>

LoadWord(r) ==
  /\ readerPc[r] = "load"
  /\ fails[r] < RetryCap
  /\ slot' = [slot EXCEPT ![r] = word.slot]
  /\ loaded' = [loaded EXCEPT ![r] = word.version]
  /\ readerPc' = [readerPc EXCEPT ![r] = "seq"]
  /\ UNCHANGED <<ownerVars, s1, dest, copied, version, fails, heldVersion, heldBytes,
                 from>>

\* What an attempt loaded is dead when the attempt ends.
ResetLocals(r) ==
  /\ slot' = [slot EXCEPT ![r] = 0]
  /\ s1' = [s1 EXCEPT ![r] = 0]
  /\ dest' = [dest EXCEPT ![r] = Blanks]
  /\ copied' = [copied EXCEPT ![r] = {}]
  /\ version' = [version EXCEPT ![r] = Unread]
  /\ loaded' = [loaded EXCEPT ![r] = 0]

FailAttempt(r) ==
  /\ fails' = [fails EXCEPT ![r] = @ + 1]
  /\ readerPc' = [readerPc EXCEPT ![r] = "load"]
  /\ ResetLocals(r)
  /\ UNCHANGED <<ownerVars, heldVersion, heldBytes, from>>

EndSync(r) ==
  /\ readerPc' = [readerPc EXCEPT ![r] = "idle"]
  /\ fails' = [fails EXCEPT ![r] = 0]
  /\ from' = [from EXCEPT ![r] = 0]
  /\ ResetLocals(r)

LoadSeq(r) ==
  /\ readerPc[r] = "seq"
  /\ \/ Odd(slotSeq[slot[r]]) /\ FailAttempt(r)
     \/ /\ ~Odd(slotSeq[slot[r]])
        /\ s1' = [s1 EXCEPT ![r] = slotSeq[slot[r]]]
        /\ readerPc' = [readerPc EXCEPT ![r] = "copy"]
        /\ UNCHANGED <<ownerVars, slot, dest, copied, version, loaded, fails,
                       heldVersion, heldBytes, from>>

CopyOutCell(r, c) ==
  /\ readerPc[r] = "copy"
  /\ c \notin copied[r]
  /\ dest' = [dest EXCEPT ![r][c] = slotData[slot[r]][c]]
  /\ copied' = [copied EXCEPT ![r] = @ \cup {c}]
  /\ UNCHANGED <<ownerVars, readerPc, slot, s1, version, loaded, fails, heldVersion,
                 heldBytes, from>>

\* An acquire load keeps later accesses behind it, not the memcpy before it.
LoadVersion(r) ==
  /\ readerPc[r] = "copy"
  /\ version[r] = Unread
  /\ version' = [version EXCEPT ![r] = slotVer[slot[r]]]
  /\ UNCHANGED <<ownerVars, readerPc, slot, s1, dest, copied, loaded, fails,
                 heldVersion, heldBytes, from>>

\* Mutant: the sequence is not read again.
MutantNoSecondCheck(r) ==
  /\ readerPc[r] = "copy"
  /\ copied[r] = Cells
  /\ version[r] # Unread
  /\ heldVersion' = [heldVersion EXCEPT ![r] = version[r]]
  /\ heldBytes' = [heldBytes EXCEPT ![r] = dest[r]]
  /\ EndSync(r)
  /\ UNCHANGED ownerVars

\* s2: an unchanged sequence ends Sync, a changed one ends the attempt.
CheckSeq(r) ==
  /\ readerPc[r] = "copy"
  /\ copied[r] = Cells
  /\ version[r] # Unread
  /\ \/ slotSeq[slot[r]] # s1[r] /\ FailAttempt(r)
     \/ /\ slotSeq[slot[r]] = s1[r]
        /\ heldVersion' = [heldVersion EXCEPT ![r] = version[r]]
        /\ heldBytes' = [heldBytes EXCEPT ![r] = dest[r]]
        /\ EndSync(r)
        /\ UNCHANGED ownerVars

\* ESHM_LIVELOCK: the caller keeps what it held.
GiveUp(r) ==
  /\ readerPc[r] = "load"
  /\ fails[r] = RetryCap
  /\ EndSync(r)
  /\ UNCHANGED <<ownerVars, heldVersion, heldBytes>>

Sync(r) ==
  \/ CallSync(r)
  \/ LoadWord(r)
  \/ LoadSeq(r)
  \/ \E c \in Cells : CopyOutCell(r, c)
  \/ LoadVersion(r)
  \/ CheckSeq(r)
  \/ GiveUp(r)

Next == Flush \/ \E r \in Readers : Sync(r)

Spec == Init /\ [][Next]_vars

-----------------------------------------------------------------------------
(* Properties *)

\* Every variable keeps its type; a Sync makes at most RetryCap attempts.
TypeOK ==
  /\ word \in [version : 0..MaxVersion, slot : Slots]
  /\ slotSeq \in [Slots -> Nat]
  /\ slotVer \in [Slots -> 0..MaxVersion]
  /\ slotData \in [Slots -> [Cells -> Values]]
  /\ ownerPc \in {"idle", "inside", "stamped", "sealed"}
  /\ flushing \in [declared : SUBSET Cells, mirror : [Cells -> Values]]
  /\ redo \in SUBSET Cells
  /\ todo \in SUBSET Cells
  /\ prevRanges \in SUBSET Cells
  /\ readerPc \in [Readers -> {"idle", "load", "seq", "copy"}]
  /\ slot \in [Readers -> Slots]
  /\ s1 \in [Readers -> Nat]
  /\ dest \in [Readers -> [Cells -> Values]]
  /\ copied \in [Readers -> SUBSET Cells]
  /\ version \in [Readers -> 0..MaxVersion \cup {Unread}]
  /\ fails \in [Readers -> 0..RetryCap]
  /\ heldVersion \in [Readers -> 0..MaxVersion]
  /\ heldBytes \in [Readers -> [Cells -> Values]]
  /\ log \in [0..MaxVersion -> [Cells -> Values]]
  /\ from \in [Readers -> 0..MaxVersion]
  /\ loaded \in [Readers -> 0..MaxVersion]

\* The last commit whose slot is whole: the published one, or the next one
\* between LeaveSlot and PublishWord.
Sealed == IF ownerPc = "sealed" THEN NextVersion ELSE word.version

\* What a reader holds is one commit, byte for byte as the owner declared it:
\* no mix of two commits and no byte the owner changed without declaring it.
SyncedCopyIsOneCommit ==
  \A r \in Readers : heldBytes[r] = log[heldVersion[r]]

\* Sync pays every failed attempt with a commit the owner published meanwhile,
\* so that it spins only as long as it is being lapped ("the retry is bounded").
RetryPaidByPublish ==
  \A r \in Readers :
    readerPc[r] # "idle" => fails[r] <= word.version - from[r]

\* A Sync returns no commit older than the one published when it was called.
SyncNotOlderThanCall ==
  [][\A r \in Readers :
       readerPc[r] = "copy" /\ readerPc'[r] = "idle" => heldVersion'[r] >= from[r]]_vars

\* Two Syncs of one reader never go back in time.  The code does not do this.
SyncsMonotone ==
  [][\A r \in Readers : heldVersion'[r] >= heldVersion[r]]_vars

\* The transport keeps the promise of module CommitLog.
CommitLog == INSTANCE CommitLog WITH
  commits   <- [v \in 0..Sealed |-> log[v]],
  published <- word.version,
  syncing   <- [r \in Readers |-> readerPc[r] # "idle"],
  from      <- from

ImplementsCommitLog == CommitLog!Spec

=============================================================================
