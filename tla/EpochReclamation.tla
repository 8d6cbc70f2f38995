--------------------------- MODULE EpochReclamation ---------------------------
(***************************************************************************)
(* Versions in a shared arena: how the single owner publishes, retains and *)
(* reclaims them (owner.ts, retained.ts) under readers that pin one epoch  *)
(* each in the reader table (reader.ts, readers.ts).  No lock, no message: *)
(* every step below is one atomic load or store of shared memory, or the   *)
(* local step between two of them.  Joined into one step are only a root's *)
(* tag and payload, which the sequence covers both, the stores that claim  *)
(* or release a slot, which pins nothing in between, and a scan's loads of *)
(* a slot's state and epoch, for the same reason.                          *)
(*                                                                         *)
(* Memory is abstracted to the lists of owner.ts's #garbage: garbage[v] is *)
(* what version v reached and v + 1 does not.  Freeing it may break any    *)
(* version up to v and none above.  A root is named by its version, so a   *)
(* torn read is a root that is not its snapshot's.                         *)
(***************************************************************************)
EXTENDS Integers

CONSTANTS
  Readers,       \* ArenaReader objects, each attached at most once
  Historians,    \* the readers used for history: acquireVersion and readVersion
  MaxReaders,    \* slots of the reader table
  Capacity,      \* entries of the retained ring
  HistoryDepth,  \* versions kept with nothing pinned to them
  MaxVersion,    \* bound: versions committed
  MaxSpin        \* MAX_SPIN, 128 in the code

ASSUME HistoryAssumption  == Historians \subseteq Readers
ASSUME SlotAssumption     == MaxReaders \in Nat
ASSUME CapacityAssumption == Capacity \in Nat \ {0}
ASSUME DepthAssumption    == HistoryDepth \in 0..Capacity-1
ASSUME VersionAssumption  == MaxVersion \in Nat \ {0}
ASSUME SpinAssumption     == MaxSpin \in Nat \ {0}
\* The words are int32: below this bound neither VersionId nor Sequence, which
\* counts two a version, wraps, and the model keeps them as natural numbers.
ASSUME WidthAssumption    == 2 * MaxVersion < 2147483647

VARIABLES
  \* the header and the ring
  floor,      \* ReclaimFloor
  seq,        \* Sequence, odd while a version is being published
  root,       \* RootTag and RootPayload
  version,    \* VersionId
  ringVersion,  \* the retained ring, three words an entry: VersionId...
  ringRoot,     \* ...RootTag and RootPayload...
  ringLive,     \* ...and the entries whose State is Live
  \* the reader table
  claimed,    \* slots that are SLOT_CLAIMED
  epoch,      \* per slot, the pinned version, 0 for none
  \* the owner
  ownerPc,
  garbage,    \* versions whose garbage is not freed yet, #garbage's keys
  freed,      \* versions whose garbage was freed
  retiring,   \* the version freed whose ring entry is not retired yet, or 0
  scanAt,     \* minimumPinnedEpoch: the next slot...
  scanMin,    \* ...and the minimum so far
  boundary,   \* reclaim's boundary, then its safeBelow
  \* the readers
  pc,
  slotOf,     \* ArenaReader.slot
  detached,   \* readers that have detached
  op,         \* the call a reader is in
  attempt,    \* acquire's attempts that failed
  before,     \* acquire's sequence
  want,       \* the snapshot being acquired or read
  cur,        \* ArenaReader.#current
  other,      \* a snapshot the caller holds that is not #current
  \* history
  tainted,    \* readers that decoded the value being read out of freed memory...
  broken,     \* ...and readers that were returned such a value
  secured     \* readers whose pin was checked against the floor and still stands

ringVars   == <<ringVersion, ringRoot, ringLive>>
headerVars == <<floor, seq, root, version, ringVars>>
tableVars  == <<claimed, epoch>>
ownerVars  == <<ownerPc, garbage, freed, retiring, scanAt, scanMin, boundary>>
callVars   == <<op, attempt, before, want, tainted>>
holdVars   == <<slotOf, detached, cur, other>>
readerVars == <<pc, callVars, holdVars, broken, secured>>
vars       == <<headerVars, tableVars, ownerVars, readerVars>>

Slots      == 0..MaxReaders-1
Versions   == 1..MaxVersion
NoPin      == MaxVersion + 1     \* Infinity
NoSnapshot == [version |-> 0, root |-> 0]
Snapshots  == [version : 0..MaxVersion, root : 0..MaxVersion]
Odd(n)     == n % 2 = 1
Lesser(a, b)  == IF a <= b THEN a ELSE b
Greater(a, b) == IF a <= b THEN b ELSE a

Index(v) == (v - 1) % Capacity

\* ArenaOwner.create has committed version 1 and reclaimed once.
Init ==
  /\ floor = Greater(0, 1 - HistoryDepth)
  /\ seq = 2
  /\ root = 1
  /\ version = 1
  /\ ringVersion = [i \in 0..Capacity-1 |-> IF i = 0 THEN 1 ELSE 0]
  /\ ringRoot = [i \in 0..Capacity-1 |-> IF i = 0 THEN 1 ELSE 0]
  /\ ringLive = {0}
  /\ claimed = {}
  /\ epoch = [s \in Slots |-> 0]
  /\ ownerPc = "idle"
  /\ garbage = {}
  /\ freed = {}
  /\ retiring = 0
  /\ scanAt = 0
  /\ scanMin = NoPin
  /\ boundary = 0
  /\ pc = [r \in Readers |-> "new"]
  /\ slotOf = [r \in Readers |-> 0]
  /\ detached = {}
  /\ op = [r \in Readers |-> "none"]
  /\ attempt = [r \in Readers |-> 0]
  /\ before = [r \in Readers |-> 0]
  /\ want = [r \in Readers |-> NoSnapshot]
  /\ cur = [r \in Readers |-> NoSnapshot]
  /\ other = [r \in Readers |-> NoSnapshot]
  /\ tainted = {}
  /\ broken = {}
  /\ secured = {}

-----------------------------------------------------------------------------
(* The owner: #install, which evicts, publishes and reclaims *)

\* Mutant: evict keeps one version more than the ring has entries.
MutantEvicted == version - Capacity

\* The version whose ring entry the next one takes.
Evicted == version + 1 - Capacity

\* Mutant: evict does not raise the floor before it frees.
MutantBeginInstall ==
  /\ ownerPc = "idle"
  /\ version < MaxVersion
  /\ ownerPc' = "evict"
  /\ UNCHANGED <<headerVars, tableVars, garbage, freed, retiring, scanAt, scanMin,
                 boundary, readerVars>>

\* #evictForVersion up to its loop.  What it counts for the statistics is left
\* out: a forced retirement and another one are both "not live".
BeginInstall ==
  /\ ownerPc = "idle"
  /\ version < MaxVersion
  /\ floor' = IF Evicted >= 1 THEN Greater(floor, Evicted + 1) ELSE floor
  /\ ownerPc' = "evict"
  /\ UNCHANGED <<seq, root, version, ringVars, tableVars, garbage, freed, retiring,
                 scanAt, scanMin, boundary, readerVars>>

\* Evict and reclaim free the versions of #garbage below this one.
Limit == IF ownerPc = "evict" THEN Evicted + 1 ELSE boundary

FreeOldest ==
  /\ ownerPc \in {"evict", "free"}
  /\ retiring = 0
  /\ \E v \in garbage :
       /\ v < Limit
       /\ \A u \in garbage : v <= u
       /\ garbage' = garbage \ {v}
       /\ freed' = freed \cup {v}
       /\ retiring' = v
  /\ UNCHANGED <<headerVars, tableVars, ownerPc, scanAt, scanMin, boundary, readerVars>>

RetireEntry ==
  /\ retiring # 0
  /\ ringLive' = IF ringVersion[Index(retiring)] = retiring
                 THEN ringLive \ {Index(retiring)} ELSE ringLive
  /\ retiring' = 0
  /\ UNCHANGED <<floor, seq, root, version, ringVersion, ringRoot, tableVars, ownerPc,
                 garbage, freed, scanAt, scanMin, boundary, readerVars>>

\* #publish, one store a step.
Store(from, to) ==
  /\ ownerPc = from
  /\ ownerPc' = to
  /\ UNCHANGED <<floor, tableVars, freed, retiring, boundary, readerVars>>

StoreOdd ==
  /\ Store("evict", "clear")
  /\ retiring = 0
  /\ \A v \in garbage : v >= Limit
  /\ seq' = seq + 1
  /\ UNCHANGED <<root, version, ringVars, garbage, scanAt, scanMin>>

StoreRingEmpty ==
  /\ Store("clear", "ringRoot")
  /\ ringLive' = ringLive \ {Index(version + 1)}
  /\ UNCHANGED <<seq, root, version, ringVersion, ringRoot, garbage, scanAt, scanMin>>

StoreRingRoot ==
  /\ Store("ringRoot", "ringVersion")
  /\ ringRoot' = [ringRoot EXCEPT ![Index(version + 1)] = version + 1]
  /\ UNCHANGED <<seq, root, version, ringVersion, ringLive, garbage, scanAt, scanMin>>

StoreRingVersion ==
  /\ Store("ringVersion", "ringLive")
  /\ ringVersion' = [ringVersion EXCEPT ![Index(version + 1)] = version + 1]
  /\ UNCHANGED <<seq, root, version, ringRoot, ringLive, garbage, scanAt, scanMin>>

StoreRingLive ==
  /\ Store("ringLive", "root")
  /\ ringLive' = ringLive \cup {Index(version + 1)}
  /\ UNCHANGED <<seq, root, version, ringVersion, ringRoot, garbage, scanAt, scanMin>>

StoreRoot ==
  /\ Store("root", "version")
  /\ root' = version + 1
  /\ UNCHANGED <<seq, version, ringVars, garbage, scanAt, scanMin>>

StoreVersion ==
  /\ Store("version", "even")
  /\ version' = version + 1
  /\ UNCHANGED <<seq, root, ringVars, garbage, scanAt, scanMin>>

\* The last store, and what #install does on its own before it reclaims: the
\* previous version may have left garbage.
StoreEven ==
  /\ Store("even", "scan1")
  /\ seq' = seq + 1
  /\ garbage' \in {garbage, garbage \cup {version - 1}}
  /\ scanAt' = 0
  /\ scanMin' = NoPin
  /\ UNCHANGED <<root, version, ringVars>>

-----------------------------------------------------------------------------
(* The owner: reclaim *)

\* reclaim is public, and LivenessMonitor.tick calls it on a timer.
BeginReclaim ==
  /\ ownerPc = "idle"
  /\ ownerPc' = "scan1"
  /\ UNCHANGED <<headerVars, tableVars, garbage, freed, retiring, scanAt, scanMin,
                 boundary, readerVars>>

\* minimumPinnedEpoch reads one slot.
Scan ==
  /\ ownerPc \in {"scan1", "scan2"}
  /\ scanAt < MaxReaders
  /\ scanMin' = IF scanAt \in claimed /\ epoch[scanAt] # 0
                THEN Lesser(scanMin, epoch[scanAt])
                ELSE scanMin
  /\ scanAt' = scanAt + 1
  /\ UNCHANGED <<headerVars, tableVars, ownerPc, garbage, freed, retiring, boundary,
                 readerVars>>

RaiseFloor ==
  /\ ownerPc = "scan1"
  /\ scanAt = MaxReaders
  /\ boundary' = Lesser(scanMin, version - HistoryDepth)
  /\ floor' = Greater(floor, Lesser(scanMin, version - HistoryDepth))
  /\ scanAt' = 0
  /\ scanMin' = NoPin
  /\ ownerPc' = "scan2"
  /\ UNCHANGED <<seq, root, version, ringVars, tableVars, garbage, freed, retiring,
                 readerVars>>

\* Mutant: the second scan is made and its result is not used.
MutantBeginFree ==
  /\ ownerPc = "scan2"
  /\ scanAt = MaxReaders
  /\ scanAt' = 0
  /\ scanMin' = NoPin
  /\ ownerPc' = "free"
  /\ UNCHANGED <<headerVars, tableVars, garbage, freed, retiring, boundary, readerVars>>

BeginFree ==
  /\ ownerPc = "scan2"
  /\ scanAt = MaxReaders
  /\ boundary' = Lesser(boundary, scanMin)
  /\ scanAt' = 0
  /\ scanMin' = NoPin
  /\ ownerPc' = "free"
  /\ UNCHANGED <<headerVars, tableVars, garbage, freed, retiring, readerVars>>

EndReclaim ==
  /\ ownerPc = "free"
  /\ retiring = 0
  /\ \A v \in garbage : v >= Limit
  /\ boundary' = 0
  /\ ownerPc' = "idle"
  /\ UNCHANGED <<headerVars, tableVars, garbage, freed, retiring, scanAt, scanMin,
                 readerVars>>

Publish == StoreOdd \/ StoreRingEmpty \/ StoreRingRoot \/ StoreRingVersion
             \/ StoreRingLive \/ StoreRoot \/ StoreVersion \/ StoreEven
Reclaim == BeginReclaim \/ Scan \/ RaiseFloor \/ BeginFree \/ EndReclaim
Owner   == BeginInstall \/ FreeOldest \/ RetireEntry \/ Publish \/ Reclaim

-----------------------------------------------------------------------------
(* The reader table *)

\* claim: a compare-and-exchange on each slot in turn.  A scan that passed a
\* slot before it was freed takes a later one, so any free slot may be the one.
Attach(r) ==
  /\ pc[r] = "new"
  /\ \E s \in Slots \ claimed :
       /\ claimed' = claimed \cup {s}
       /\ epoch' = [epoch EXCEPT ![s] = 0]
       /\ slotOf' = [slotOf EXCEPT ![r] = s]
  /\ pc' = [pc EXCEPT ![r] = "idle"]
  /\ UNCHANGED <<headerVars, ownerVars, callVars, detached, cur, other, broken,
                 secured>>

\* pin and unpin: a store to the slot, whoever owns it by now.
StoreEpoch(r, v) ==
  /\ epoch' = [epoch EXCEPT ![slotOf[r]] = v]
  /\ secured' = {q \in secured : slotOf[q] # slotOf[r]}
  /\ UNCHANGED claimed

\* detach: the caller may go on using a snapshot it took.
Detach(r) ==
  /\ pc[r] = "idle"
  /\ r \notin detached
  /\ detached' = detached \cup {r}
  /\ cur' = [cur EXCEPT ![r] = NoSnapshot]
  /\ other' = [other EXCEPT ![r] = IF @ = NoSnapshot THEN cur[r] ELSE @]
  /\ epoch' = [epoch EXCEPT ![slotOf[r]] = 0]
  /\ claimed' = claimed \ {slotOf[r]}
  /\ secured' = {q \in secured : slotOf[q] # slotOf[r]}
  /\ UNCHANGED <<headerVars, ownerVars, pc, callVars, slotOf, broken>>

-----------------------------------------------------------------------------
(* A reader: acquire, acquireVersion, readVersion, release and the reads *)

Call(r, name, at) ==
  /\ pc[r] = "idle"
  /\ op' = [op EXCEPT ![r] = name]
  /\ pc' = [pc EXCEPT ![r] = at]
  /\ UNCHANGED <<headerVars, tableVars, ownerVars, attempt, before, tainted, slotOf,
                 detached, cur, secured>>

\* What a call loaded is dead when it returns or throws.
EndCall(r) ==
  /\ pc' = [pc EXCEPT ![r] = "idle"]
  /\ op' = [op EXCEPT ![r] = "none"]
  /\ attempt' = [attempt EXCEPT ![r] = 0]
  /\ before' = [before EXCEPT ![r] = 0]
  /\ want' = [want EXCEPT ![r] = NoSnapshot]
  /\ tainted' = tainted \ {r}

\* acquire past its fast path, which returns #current and changes nothing.
Acquire(r) ==
  /\ Call(r, "acquire", "seq")
  /\ r \notin detached
  /\ cur[r].version # version \/ cur[r].version < floor
  /\ UNCHANGED <<want, other, broken>>

\* acquireVersion and readVersion: any version a caller may name.
OpenVersion(r) ==
  /\ r \in Historians
  /\ \/ Call(r, "open", "entry") /\ other[r] = NoSnapshot
     \/ Call(r, "peek", "entry")
  /\ \E v \in Versions : want' = [want EXCEPT ![r].version = v]
  /\ UNCHANGED <<other, broken>>

\* value, toJSON and get, on the current snapshot or on the other one.
Read(r) ==
  /\ Call(r, "read", "validate")
  /\ \E s \in {cur[r], other[r]} \ {NoSnapshot} : want' = [want EXCEPT ![r] = s]
  /\ UNCHANGED <<other, broken>>

\* A step inside a call that only loads shared memory.
Load(r, at) ==
  /\ pc[r] = at
  /\ UNCHANGED <<headerVars, tableVars, ownerVars, slotOf, detached, secured>>

Continue(r, to) ==
  /\ pc' = [pc EXCEPT ![r] = to]
  /\ UNCHANGED <<op, attempt, tainted, cur, other, broken>>

\* Mutant: one attempt more than MAX_SPIN.
MutantRetry(r) ==
  /\ attempt' = [attempt EXCEPT ![r] = @ + 1]
  /\ before' = [before EXCEPT ![r] = 0]
  /\ want' = [want EXCEPT ![r] = NoSnapshot]
  /\ pc' = [pc EXCEPT ![r] = IF attempt[r] <= MaxSpin THEN "seq" ELSE "giveUp"]
  /\ UNCHANGED <<op, tainted, cur, other, broken>>

\* acquire's continue: the pin, if it was stored, stays.
Retry(r) ==
  /\ attempt' = [attempt EXCEPT ![r] = @ + 1]
  /\ before' = [before EXCEPT ![r] = 0]
  /\ want' = [want EXCEPT ![r] = NoSnapshot]
  /\ pc' = [pc EXCEPT ![r] = IF attempt[r] + 1 < MaxSpin THEN "seq" ELSE "giveUp"]
  /\ UNCHANGED <<op, tainted, cur, other, broken>>

LoadSeq(r) ==
  /\ Load(r, "seq")
  /\ \/ Odd(seq) /\ Retry(r)
     \/ /\ ~Odd(seq)
        /\ before' = [before EXCEPT ![r] = seq]
        /\ Continue(r, "root")
        /\ UNCHANGED want

LoadRoot(r) ==
  /\ Load(r, "root")
  /\ want' = [want EXCEPT ![r].root = root]
  /\ Continue(r, "version")
  /\ UNCHANGED before

LoadVersion(r) ==
  /\ Load(r, "version")
  /\ want' = [want EXCEPT ![r].version = version]
  /\ Continue(r, "reseq")
  /\ UNCHANGED before

\* Mutant: the sequence is not read again.
MutantCheckSeq(r) ==
  /\ Load(r, "reseq")
  /\ before' = [before EXCEPT ![r] = 0]
  /\ Continue(r, "pin")
  /\ UNCHANGED want

CheckSeq(r) ==
  /\ Load(r, "reseq")
  /\ \/ seq # before[r] /\ Retry(r)
     \/ /\ seq = before[r]
        /\ before' = [before EXCEPT ![r] = 0]
        /\ Continue(r, "pin")
        /\ UNCHANGED want

\* RetainedRing.read, then isLive, before acquireVersion pins anything.
LoadEntry(r) ==
  /\ Load(r, "entry")
  /\ \/ /\ ringVersion[Index(want[r].version)] # want[r].version
        /\ EndCall(r)
        /\ UNCHANGED <<cur, other, broken>>
     \/ /\ ringVersion[Index(want[r].version)] = want[r].version
        /\ Continue(r, "entryRoot")
        /\ UNCHANGED <<before, want>>

LoadEntryRoot(r) ==
  /\ Load(r, "entryRoot")
  /\ want' = [want EXCEPT ![r].root = ringRoot[Index(want[r].version)]]
  /\ Continue(r, "wasLiveVersion")
  /\ UNCHANGED before

WasLiveVersion(r) ==
  /\ Load(r, "wasLiveVersion")
  /\ \/ /\ ringVersion[Index(want[r].version)] # want[r].version
        /\ EndCall(r)
        /\ UNCHANGED <<cur, other, broken>>
     \/ /\ ringVersion[Index(want[r].version)] = want[r].version
        /\ Continue(r, "wasLive")
        /\ UNCHANGED <<before, want>>

WasLive(r) ==
  /\ Load(r, "wasLive")
  /\ \/ /\ Index(want[r].version) \notin ringLive
        /\ EndCall(r)
        /\ UNCHANGED <<cur, other, broken>>
     \/ /\ Index(want[r].version) \in ringLive
        /\ Continue(r, "pin")
        /\ UNCHANGED <<before, want>>

Pin(r) ==
  /\ pc[r] = "pin"
  /\ StoreEpoch(r, want[r].version)
  /\ Continue(r, "floor")
  /\ UNCHANGED <<headerVars, ownerVars, before, want, slotOf, detached>>

\* A version that is gone: acquire retries, acquireVersion unpins and throws.
Gone(r) ==
  \/ op[r] = "acquire" /\ Retry(r)
  \/ op[r] # "acquire" /\ Continue(r, "unpin") /\ UNCHANGED <<before, want>>

\* The floor after the pin.  From here the pin is worth something: it was
\* visible before the floor was found not to have passed it.
CheckFloor(r) ==
  /\ pc[r] = "floor"
  /\ \/ want[r].version < floor /\ Gone(r) /\ UNCHANGED secured
     \/ /\ want[r].version >= floor
        /\ secured' = IF /\ slotOf[r] \in claimed
                         /\ epoch[slotOf[r]] = want[r].version
                         /\ r \notin detached
                      THEN secured \cup {r} ELSE secured
        /\ Continue(r, "liveVersion")
        /\ UNCHANGED <<before, want>>
  /\ UNCHANGED <<headerVars, tableVars, ownerVars, slotOf, detached>>

IsLiveVersion(r) ==
  /\ Load(r, "liveVersion")
  /\ \/ ringVersion[Index(want[r].version)] # want[r].version /\ Gone(r)
     \/ /\ ringVersion[Index(want[r].version)] = want[r].version
        /\ Continue(r, "live")
        /\ UNCHANGED <<before, want>>

\* Mutant: acquireVersion makes the version it opened the reader's current one.
MutantIsLive(r) ==
  /\ Load(r, "live")
  /\ \/ Index(want[r].version) \notin ringLive /\ Gone(r)
     \/ /\ Index(want[r].version) \in ringLive
        /\ \/ /\ op[r] # "peek"
              /\ cur' = [cur EXCEPT ![r] = want[r]]
              /\ other' = [other EXCEPT ![r] = IF @ = NoSnapshot THEN cur[r] ELSE @]
              /\ EndCall(r)
              /\ UNCHANGED broken
           \/ /\ op[r] = "peek"
              /\ Continue(r, "validate")
              /\ UNCHANGED <<before, want>>

\* isLive's second load, and what each call does with a version it may keep.
\* acquire drops the snapshot it held, which its caller may go on using.
IsLive(r) ==
  /\ Load(r, "live")
  /\ \/ Index(want[r].version) \notin ringLive /\ Gone(r)
     \/ /\ Index(want[r].version) \in ringLive
        /\ \/ /\ op[r] = "acquire"
              /\ cur' = [cur EXCEPT ![r] = want[r]]
              /\ other' = [other EXCEPT ![r] = IF @ = NoSnapshot THEN cur[r] ELSE @]
              /\ EndCall(r)
              /\ UNCHANGED broken
           \/ /\ op[r] = "open"
              /\ other' = [other EXCEPT ![r] = want[r]]
              /\ EndCall(r)
              /\ UNCHANGED <<cur, broken>>
           \/ /\ op[r] = "peek"
              /\ Continue(r, "validate")
              /\ UNCHANGED <<before, want>>

\* readVersion restores the pin of #current, another read is over.
AfterRead(r) ==
  \/ /\ op[r] = "peek"
     /\ pc' = [pc EXCEPT ![r] = "held"]
     /\ tainted' = tainted \ {r}
     /\ UNCHANGED <<op, attempt, before, want>>
  \/ op[r] # "peek" /\ EndCall(r)

Validate(r) ==
  /\ Load(r, "validate")
  /\ \/ want[r].version < floor /\ AfterRead(r) /\ UNCHANGED <<cur, other, broken>>
     \/ /\ want[r].version >= floor
        /\ Continue(r, "decode")
        /\ UNCHANGED <<before, want>>

\* The decode is many loads.  Freed memory stays broken, so the last of them
\* finds whatever the others would.
Decode(r) ==
  /\ Load(r, "decode")
  /\ tainted' = IF \E v \in freed : v >= want[r].version
                THEN tainted \cup {r} ELSE tainted
  /\ pc' = [pc EXCEPT ![r] = "revalidate"]
  /\ UNCHANGED <<op, attempt, before, want, cur, other, broken>>

\* The second validation, after which the value is returned or Stale thrown.
Revalidate(r) ==
  /\ Load(r, "revalidate")
  /\ broken' = IF want[r].version >= floor /\ r \in tainted
               THEN broken \cup {r} ELSE broken
  /\ AfterRead(r)
  /\ UNCHANGED <<cur, other>>

\* releaseSnapshot of #current, and of a snapshot that is not #current.
ReleaseCurrent(r) ==
  /\ pc[r] = "idle"
  /\ cur[r] # NoSnapshot
  /\ cur' = [cur EXCEPT ![r] = NoSnapshot]
  /\ StoreEpoch(r, 0)
  /\ UNCHANGED <<headerVars, ownerVars, pc, callVars, slotOf, detached, other, broken>>

ReleaseOther(r) ==
  /\ other[r] # NoSnapshot
  /\ other' = [other EXCEPT ![r] = NoSnapshot]
  /\ \/ /\ pc[r] = "idle"
        /\ epoch[slotOf[r]] # other[r].version
        /\ UNCHANGED <<headerVars, tableVars, ownerVars, pc, callVars, slotOf, detached,
                       cur, secured>>
     \/ /\ Call(r, "release", "held")
        /\ epoch[slotOf[r]] = other[r].version
        /\ UNCHANGED want
  /\ UNCHANGED broken

\* acquire's bounded spin is exhausted.
GiveUp(r) ==
  /\ pc[r] = "giveUp"
  /\ StoreEpoch(r, 0)
  /\ Continue(r, "held")
  /\ UNCHANGED <<headerVars, ownerVars, before, want, slotOf, detached>>

\* Is #current still valid?  Then its pin is restored.
CheckHeld(r) ==
  /\ Load(r, "held")
  /\ Continue(r, IF cur[r] # NoSnapshot /\ cur[r].version >= floor
                 THEN "repin" ELSE "unpin")
  /\ UNCHANGED <<before, want>>

Repin(r) ==
  /\ pc[r] = "repin"
  /\ StoreEpoch(r, cur[r].version)
  /\ EndCall(r)
  /\ UNCHANGED <<headerVars, ownerVars, holdVars, broken>>

Unpin(r) ==
  /\ pc[r] = "unpin"
  /\ StoreEpoch(r, 0)
  /\ EndCall(r)
  /\ UNCHANGED <<headerVars, ownerVars, holdVars, broken>>

Reader(r) ==
  \/ Attach(r) \/ Detach(r)
  \/ Acquire(r) \/ LoadSeq(r) \/ LoadRoot(r) \/ LoadVersion(r) \/ CheckSeq(r)
  \/ OpenVersion(r) \/ LoadEntry(r) \/ LoadEntryRoot(r) \/ WasLiveVersion(r)
  \/ WasLive(r)
  \/ Pin(r) \/ CheckFloor(r) \/ IsLiveVersion(r) \/ IsLive(r)
  \/ Read(r) \/ Validate(r) \/ Decode(r) \/ Revalidate(r)
  \/ ReleaseCurrent(r) \/ ReleaseOther(r)
  \/ GiveUp(r) \/ CheckHeld(r) \/ Repin(r) \/ Unpin(r)

Next == Owner \/ \E r \in Readers : Reader(r)

Spec == Init /\ [][Next]_vars

-----------------------------------------------------------------------------
(* Properties *)

OwnerTypeOK ==
  /\ floor \in 0..MaxVersion
  /\ seq \in 0..2*MaxVersion
  /\ root \in Versions
  /\ version \in Versions
  /\ ringVersion \in [0..Capacity-1 -> 0..MaxVersion]
  /\ ringRoot \in [0..Capacity-1 -> 0..MaxVersion]
  /\ ringLive \subseteq 0..Capacity-1
  /\ ownerPc \in {"idle", "evict", "clear", "ringRoot", "ringVersion", "ringLive",
                  "root", "version", "even", "scan1", "scan2", "free"}
  /\ garbage \subseteq Versions
  /\ freed \subseteq Versions
  /\ retiring \in 0..MaxVersion
  /\ scanAt \in 0..MaxReaders
  /\ scanMin \in 1..NoPin
  /\ boundary \in Int

TableTypeOK ==
  /\ claimed \subseteq Slots
  /\ epoch \in [Slots -> 0..MaxVersion]
  /\ slotOf \in [Readers -> Slots \cup {0}]
  /\ detached \subseteq Readers
  /\ secured \subseteq Readers

CallTypeOK ==
  /\ pc \in [Readers -> {"new", "idle", "seq", "root", "version", "reseq", "entry",
                         "entryRoot", "wasLiveVersion", "wasLive", "pin", "floor",
                         "liveVersion", "live", "validate", "decode", "revalidate",
                         "giveUp", "held", "repin", "unpin"}]
  /\ op \in [Readers -> {"none", "acquire", "open", "peek", "read", "release"}]
  /\ attempt \in [Readers -> 0..MaxSpin]
  /\ before \in [Readers -> 0..2*MaxVersion]
  /\ want \in [Readers -> Snapshots]
  /\ tainted \subseteq Readers

HoldTypeOK ==
  /\ cur \in [Readers -> Snapshots]
  /\ other \in [Readers -> Snapshots]
  /\ broken \subseteq Readers

ReaderTypeOK == TableTypeOK /\ CallTypeOK /\ HoldTypeOK

\* Every variable holds a value of its type; the reader's retries are bounded.
TypeOK == OwnerTypeOK /\ ReaderTypeOK

\* Where the owner is from the first step of #install to the store of VersionId.
Publishing == {"evict", "clear", "ringRoot", "ringVersion", "ringLive", "root", "version"}

\* The newest version that took, or is about to take, its place in the ring.
Newest == IF ownerPc \in Publishing THEN version + 1 ELSE version

\* No eager read returns a value decoded out of freed memory: the owner raises
\* the floor before it frees, the reader validates after it has decoded.
ReadsAreIntact == broken = {}

\* What a pin promises once the floor was checked behind it: neither the
\* pinned version nor a later one is freed while the pin stands, except when
\* the ring has no room left for the pinned version.
ReclaimSparesPinned ==
  \A r \in secured : \A v \in freed :
    v < epoch[slotOf[r]] \/ v + Capacity <= Newest

HoldsWhole(r) ==
  /\ cur[r].root = cur[r].version
  /\ other[r].root = other[r].version
  /\ pc[r] \in {"validate", "decode", "revalidate"} => want[r].root = want[r].version

\* A snapshot's root is the root of its version, whether it was read from the
\* header under the sequence or from a ring entry that may be overwritten.
SnapshotsAreWhole == \A r \in Readers : HoldsWhole(r)

\* Retention is bounded whatever the readers do: once evict is through, nothing
\* older than the ring is waiting to be freed but the version just replaced.
RetentionIsBounded ==
  ownerPc # "evict" =>
    \A v \in garbage : v + Capacity > Newest \/ v = version - 1

\* A stale snapshot is for readers past the retention cap: the floor does not
\* overtake a snapshot that is held and pinned, and whose pin passed its floor
\* check, before the ring is full.  The code does not keep this.
StaleOnlyPastCap ==
  \A r \in secured :
    /\ cur[r] # NoSnapshot
    /\ cur[r].version = epoch[slotOf[r]]
    => cur[r].version >= floor \/ cur[r].version + Capacity <= Newest

\* A reader that acquires again does not go back to an older version, which is
\* what the soak program counts as a version regression.
CurrentMovesForward ==
  [][\A r \in Readers :
       cur[r] # NoSnapshot /\ cur'[r] # NoSnapshot
         => cur'[r].version >= cur[r].version]_cur

\* A pin counts once the floor was checked behind it, while it stands.
Retention == INSTANCE VersionRetention WITH
  latest <- version,
  newest <- Newest,
  pinned <- [r \in Readers |-> IF r \in secured THEN epoch[slotOf[r]] ELSE 0]

\* The owner's scans, its floor and its frees, and the readers' pins, keep what
\* VersionRetention promises, whatever their order: the version published has a
\* place in the ring, none is given up early, and what is freed is freed once
\* and not under a standing pin.
ImplementsRetention == Retention!Spec

\* A reader's pin is changed by that reader only.  The code does not keep this.
PinIsOwn ==
  [][\A r \in Readers :
       pc[r] # "new" /\ r \notin detached' /\ UNCHANGED <<pc[r], cur[r]>>
         => epoch'[slotOf[r]] = epoch[slotOf[r]]]_vars

============================================================================
