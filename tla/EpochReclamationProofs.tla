------------------------ MODULE EpochReclamationProofs ------------------------
(***************************************************************************)
(* Proofs about EpochReclamation, for any number of readers, of slots of   *)
(* the reader table, of ring entries and of versions.                      *)
(*                                                                         *)
(* The inductive invariant says what each actor relies on while the other  *)
(* moves: what the floor covers (FloorInv), what a pin that passed its     *)
(* floor check still holds against a reclaim under way (PinInv), what a    *)
(* reader in the middle of a call already knows (CallInv), and which root  *)
(* the header and each ring entry name (HeaderInv, RingInv, SeqlockInv,    *)
(* EntryInv).  A second one, PathInv, rests on it: garbage is freed once,  *)
(* and the version a call works on was published and is not older than the *)
(* snapshot it replaces.  With both, EpochReclamation implements           *)
(* VersionRetention, whose pins are the ones that passed the floor check.  *)
(***************************************************************************)
EXTENDS EpochReclamation, TLAPS

\* The sequence counts the stores of #publish and tells where the owner is.
HeaderInv ==
  /\ ownerPc \in Publishing => version < MaxVersion
  /\ ownerPc \in {"idle", "evict", "scan1", "scan2", "free"} =>
       seq = 2 * version /\ root = version
  /\ ownerPc \in {"clear", "ringRoot", "ringVersion", "ringLive", "root"} =>
       seq = 2 * version + 1 /\ root = version
  /\ ownerPc = "version" => seq = 2 * version + 1 /\ root = version + 1
  /\ ownerPc = "even" => seq = 2 * version - 1 /\ root = version /\ version >= 2

\* The floor has passed everything freed, and what is about to be.
FloorInv ==
  /\ \A v \in freed : v < floor
  /\ ownerPc \in Publishing => Evicted < 1 \/ Evicted < floor
  /\ ownerPc \in {"scan2", "free"} => boundary <= floor

GarbageInv ==
  /\ ownerPc \in Publishing \ {"evict"} => \A v \in garbage : v + Capacity > Newest
  /\ ownerPc \notin Publishing =>
       \A v \in garbage : v + Capacity > Newest \/ v = version - 1

\* A standing pin bounds what the reclaim under way frees: the boundary, or
\* the second scan, which has seen the pin or has yet to reach its slot.
PinInv(r) ==
  r \in secured =>
    /\ slotOf[r] \in claimed
    /\ epoch[slotOf[r]] >= 1
    /\ \A v \in freed : v < epoch[slotOf[r]] \/ v + Capacity <= Newest
    /\ ownerPc = "scan2" => \/ boundary <= epoch[slotOf[r]]
                            \/ scanAt <= slotOf[r]
                            \/ scanMin <= epoch[slotOf[r]]
    /\ ownerPc = "free" => boundary <= epoch[slotOf[r]]

\* Where the call of a reader has a version to work on.
Named == {"reseq", "entry", "entryRoot", "wasLiveVersion", "wasLive", "pin", "floor",
          "liveVersion", "live", "validate", "decode", "revalidate"}

CallInv(r) ==
  /\ IF pc[r] = "new" THEN r \notin secured ELSE slotOf[r] \in Slots
  /\ pc[r] \notin {"giveUp", "held", "repin", "unpin"} => attempt[r] < MaxSpin
  /\ pc[r] \in Named => want[r].version >= 1
  /\ r \in tainted => pc[r] = "revalidate" /\ want[r].version < floor
  /\ r \notin broken

\* The entries written so far are up to this version.
Entered == IF ownerPc \in {"ringLive", "root", "version"} THEN version + 1 ELSE version

RingInv(i) ==
  /\ ringVersion[i] <= Entered
  /\ ringVersion[i] # 0 => Index(ringVersion[i]) = i
  /\ ringRoot[i] = IF ownerPc = "ringVersion" /\ i = Index(version + 1)
                   THEN version + 1 ELSE ringVersion[i]

\* What acquire has loaded is of one version if the sequence still stands.
SeqlockInv(r) ==
  /\ pc[r] \in {"root", "version", "reseq"} => ~Odd(before[r]) /\ before[r] <= seq
  /\ pc[r] \in {"version", "reseq"} /\ before[r] = seq => 2 * want[r].root = seq
  /\ pc[r] = "reseq" /\ before[r] = seq => 2 * want[r].version = seq

\* A root that is not its version's is one the floor check will refuse.
EntryInv(r) ==
  /\ pc[r] = "entryRoot" =>
       \/ ringVersion[Index(want[r].version)] = want[r].version
       \/ want[r].version < floor
  /\ pc[r] \in {"wasLiveVersion", "wasLive", "pin", "floor"} =>
       want[r].root = want[r].version \/ want[r].version < floor

HeldInv(r) ==
  /\ cur[r].root = cur[r].version
  /\ other[r].root = other[r].version
  /\ pc[r] \in {"liveVersion", "live", "validate", "decode", "revalidate"} =>
       want[r].root = want[r].version

ReaderInv(r) == PinInv(r) /\ CallInv(r) /\ SeqlockInv(r) /\ EntryInv(r) /\ HeldInv(r)

IInv == /\ OwnerTypeOK /\ ReaderTypeOK
        /\ HeaderInv /\ FloorInv /\ GarbageInv
        /\ \A i \in 0..Capacity-1 : RingInv(i)
        /\ \A r \in Readers : ReaderInv(r)

-----------------------------------------------------------------------------
(* The ring *)

\* A version has an entry, and the versions that share it are Capacity apart.
LEMMA IndexFacts ==
  /\ \A v \in Nat \ {0} : Index(v) \in 0..Capacity-1
  /\ \A v, w \in Nat \ {0} : v < w /\ Index(v) = Index(w) => v + Capacity <= w
<1>1. Capacity \in Nat \ {0}
  BY CapacityAssumption
<1>2. ASSUME NEW v \in Nat \ {0} PROVE Index(v) \in 0..Capacity-1
  BY <1>1 DEF Index
<1>3. ASSUME NEW v \in Nat \ {0}, NEW w \in Nat \ {0}, v < w, Index(v) = Index(w)
      PROVE  v + Capacity <= w
  <2> DEFINE p == (v - 1) \div Capacity
             q == (w - 1) \div Capacity
  <2>1. /\ v - 1 = Capacity * p + Index(v) /\ p \in Int
        /\ w - 1 = Capacity * q + Index(w) /\ q \in Int
    BY <1>1 DEF Index
  <2>2. w - v = Capacity * (q - p)
    BY <1>1, <1>2, <1>3, <2>1
  <2>3. q - p >= 1
    BY <1>1, <1>3, <2>1, <2>2
  <2>4. Capacity * (q - p) >= Capacity
    BY <1>1, <2>1, <2>3
  <2>5. QED
    BY <1>1, <2>2, <2>4, <2>1
<1>4. QED
  BY <1>2, <1>3

-----------------------------------------------------------------------------
(* The owner's steps *)

\* An owner step leaves the reader table and the readers alone.
LEMMA OwnerFrame == Owner => UNCHANGED <<tableVars, readerVars>>
BY DEF Owner, Publish, Reclaim, BeginInstall, FreeOldest, RetireEntry, Store, StoreOdd,
       StoreRingEmpty, StoreRingRoot, StoreRingVersion, StoreRingLive, StoreRoot,
       StoreVersion, StoreEven, BeginReclaim, Scan, RaiseFloor, BeginFree, EndReclaim

\* The invariant holds initially.
LEMMA InitInv == Init => IInv
<1> SUFFICES ASSUME Init PROVE IInv
  OBVIOUS
<1> USE VersionAssumption, CapacityAssumption, DepthAssumption, SpinAssumption,
        SlotAssumption DEF Init
<1>1. OwnerTypeOK /\ ReaderTypeOK
  BY DEF OwnerTypeOK, ReaderTypeOK, TableTypeOK, CallTypeOK, HoldTypeOK, Slots,
     Versions, NoPin, NoSnapshot, Snapshots, Greater
<1>2. HeaderInv /\ FloorInv /\ GarbageInv
  BY DEF HeaderInv, FloorInv, GarbageInv, Publishing
<1>3. ASSUME NEW i \in 0..Capacity-1 PROVE RingInv(i)
  BY DEF RingInv, Entered, Index
<1>4. ASSUME NEW r \in Readers PROVE ReaderInv(r)
  BY DEF ReaderInv, PinInv, CallInv, SeqlockInv, EntryInv, HeldInv, Named, NoSnapshot
<1>5. QED
  BY <1>1, <1>2, <1>3, <1>4 DEF IInv

\* The sequence is odd exactly between two versions.
LEMMA OddFacts == \A n \in Nat : ~Odd(2 * n) /\ Odd(2 * n + 1)
BY DEF Odd

\* What an owner step keeps of a reader's invariant if it only raises the floor.
LEMMA OwnerKeepsReader ==
  ASSUME OwnerTypeOK, NEW r \in Readers, ReaderTypeOK, ReaderInv(r),
         UNCHANGED <<tableVars, readerVars>>, floor' \in Int, floor' >= floor
  PROVE  /\ ReaderTypeOK' /\ CallInv(r)' /\ HeldInv(r)'
         /\ seq' = seq => SeqlockInv(r)'
         /\ ringVersion' = ringVersion => EntryInv(r)'
<1> USE DEF tableVars, readerVars, callVars, holdVars
<1>1. ReaderTypeOK' /\ HeldInv(r)'
  BY DEF ReaderTypeOK, TableTypeOK, CallTypeOK, HoldTypeOK, ReaderInv, HeldInv
<1>2. want[r].version \in Int /\ floor \in Int
  BY DEF OwnerTypeOK, ReaderTypeOK, TableTypeOK, CallTypeOK, HoldTypeOK, Snapshots
<1>3. CallInv(r)'
  BY <1>2 DEF ReaderInv, CallInv
<1>4. seq' = seq => SeqlockInv(r)'
  BY DEF ReaderInv, SeqlockInv
<1>5. ringVersion' = ringVersion => EntryInv(r)'
  BY <1>2 DEF ReaderInv, EntryInv
<1>6. QED
  BY <1>1, <1>3, <1>4, <1>5

\* The next version exists while it is being published, and has an entry.
LEMMA OwnerFacts ==
  ASSUME IInv
  PROVE  /\ MaxVersion \in Nat \ {0} /\ Capacity \in Nat \ {0}
         /\ version \in 1..MaxVersion /\ Evicted \in Int
         /\ ownerPc \in Publishing => /\ version + 1 \in 1..MaxVersion
                                     /\ Index(version + 1) \in 0..Capacity-1
<1>1. version \in 1..MaxVersion /\ MaxVersion \in Nat \ {0} /\ Capacity \in Nat \ {0}
  BY VersionAssumption, CapacityAssumption DEF IInv, OwnerTypeOK, Versions
<1>2. ownerPc \in Publishing => version < MaxVersion
  BY DEF IInv, HeaderInv
<1>3. QED
  BY <1>1, <1>2, IndexFacts DEF Evicted

\* Evict raises the floor past what it is about to free.
LEMMA BeginInstallInv == IInv /\ BeginInstall => IInv'
<1> SUFFICES ASSUME IInv, BeginInstall PROVE IInv'
  OBVIOUS
<1> USE VersionAssumption, CapacityAssumption, DepthAssumption, SlotAssumption
    DEF BeginInstall
<1>1. UNCHANGED <<tableVars, readerVars>>
  BY OwnerFrame DEF Owner, Publish, Reclaim
<1> USE DEF headerVars, ownerVars, ringVars
<1>2. OwnerTypeOK /\ ReaderTypeOK
  BY DEF IInv
<1>3. OwnerTypeOK'
  BY <1>2, OwnerFacts DEF OwnerTypeOK, Versions, Evicted, Greater
<1>4. floor' \in Int /\ floor' >= floor
  BY <1>2, <1>3 DEF Greater
<1>5. HeaderInv' /\ FloorInv' /\ GarbageInv'
  BY <1>2 DEF IInv, OwnerTypeOK, HeaderInv, FloorInv, GarbageInv, Publishing, Evicted,
     Greater, Lesser, Limit, Versions, NoPin, Newest
<1>6. ASSUME NEW i \in 0..Capacity-1 PROVE RingInv(i)'
  BY <1>2, IndexFacts DEF IInv, RingInv, Entered, HeaderInv, Publishing, Versions
<1>7. ASSUME NEW r \in Readers PROVE ReaderInv(r)' /\ ReaderTypeOK'
  <2>1. /\ ReaderTypeOK' /\ CallInv(r)' /\ HeldInv(r)'
        /\ seq' = seq => SeqlockInv(r)'
        /\ ringVersion' = ringVersion => EntryInv(r)'
    BY <1>1, <1>2, <1>4, OwnerKeepsReader DEF IInv
  <2>2. PinInv(r)'
    BY <1>1, <1>2, SMTT(30)
       DEF IInv, OwnerTypeOK, ReaderTypeOK, TableTypeOK, CallTypeOK, HoldTypeOK,
           ReaderInv, PinInv, HeaderInv, Publishing, Newest, Evicted, Limit, Versions,
           Lesser, NoPin, Slots, tableVars, readerVars, holdVars
  <2>3. QED
    BY <2>1, <2>2 DEF ReaderInv
<1>8. ReaderTypeOK'
  BY <1>1, <1>2 DEF ReaderTypeOK, TableTypeOK, CallTypeOK, HoldTypeOK, tableVars,
     readerVars, callVars, holdVars
<1>9. QED
  BY <1>3, <1>5, <1>6, <1>7, <1>8 DEF IInv

\* What is freed is below the floor, and no standing pin needs it.
LEMMA FreeOldestInv == IInv /\ FreeOldest => IInv'
<1> SUFFICES ASSUME IInv, FreeOldest PROVE IInv'
  OBVIOUS
<1> USE VersionAssumption, CapacityAssumption, DepthAssumption, SlotAssumption
    DEF FreeOldest
<1>1. UNCHANGED <<tableVars, readerVars>>
  BY OwnerFrame DEF Owner, Publish, Reclaim
<1> USE DEF headerVars, ownerVars, ringVars
<1>2. OwnerTypeOK /\ ReaderTypeOK
  BY DEF IInv
<1>3. PICK v \in garbage :
        garbage' = garbage \ {v} /\ freed' = freed \cup {v} /\ retiring' = v
  OBVIOUS
<1>4. OwnerTypeOK'
  BY <1>2, <1>3, OwnerFacts DEF OwnerTypeOK, Versions
<1>5. floor' \in Int /\ floor' >= floor
  BY <1>2, <1>4 DEF OwnerTypeOK, Greater
<1>6. HeaderInv' /\ FloorInv' /\ GarbageInv'
  BY <1>2 DEF IInv, OwnerTypeOK, HeaderInv, FloorInv, GarbageInv, Publishing, Evicted,
     Greater, Lesser, Limit, Versions, NoPin, Newest
<1>7. ASSUME NEW i \in 0..Capacity-1 PROVE RingInv(i)'
  BY <1>2, IndexFacts DEF IInv, RingInv, Entered, HeaderInv, Publishing, Versions
<1>8. ASSUME NEW r \in Readers PROVE ReaderInv(r)' /\ ReaderTypeOK'
  <2>1. /\ ReaderTypeOK' /\ CallInv(r)' /\ HeldInv(r)'
        /\ seq' = seq => SeqlockInv(r)'
        /\ ringVersion' = ringVersion => EntryInv(r)'
    BY <1>1, <1>2, <1>5, OwnerKeepsReader DEF IInv
  <2>2. PinInv(r)'
    BY <1>1, <1>2, SMTT(30)
       DEF IInv, OwnerTypeOK, ReaderTypeOK, TableTypeOK, CallTypeOK, HoldTypeOK,
           ReaderInv, PinInv, HeaderInv, Publishing, Newest, Evicted, Limit, Versions,
           Lesser, NoPin, Slots, tableVars, readerVars, holdVars
  <2>3. QED
    BY <2>1, <2>2 DEF ReaderInv
<1>9. ReaderTypeOK'
  BY <1>1, <1>2 DEF ReaderTypeOK, TableTypeOK, CallTypeOK, HoldTypeOK, tableVars,
     readerVars, callVars, holdVars
<1>10. QED
  BY <1>4, <1>6, <1>7, <1>8, <1>9 DEF IInv

\* A freed version loses its ring entry, unless the entry was taken already.
LEMMA RetireEntryInv == IInv /\ RetireEntry => IInv'
<1> SUFFICES ASSUME IInv, RetireEntry PROVE IInv'
  OBVIOUS
<1> USE VersionAssumption, CapacityAssumption, DepthAssumption, SlotAssumption
    DEF RetireEntry
<1>1. UNCHANGED <<tableVars, readerVars>>
  BY OwnerFrame DEF Owner, Publish, Reclaim
<1> USE DEF headerVars, ownerVars, ringVars
<1>2. OwnerTypeOK /\ ReaderTypeOK
  BY DEF IInv
<1>3. ringLive' \subseteq 0..Capacity-1
  BY <1>2, OwnerFacts DEF OwnerTypeOK, Publishing
<1>4. OwnerTypeOK'
  BY <1>2, <1>3, OwnerFacts DEF OwnerTypeOK, Versions, Publishing
<1>5. floor' \in Int /\ floor' >= floor
  BY <1>2, <1>4 DEF OwnerTypeOK, Greater
<1>6. HeaderInv' /\ FloorInv' /\ GarbageInv'
  BY <1>2 DEF IInv, HeaderInv, FloorInv, GarbageInv, Publishing, Evicted, Greater,
     Lesser, Limit, Versions, NoPin, Newest
<1>7. ASSUME NEW i \in 0..Capacity-1 PROVE RingInv(i)'
  BY <1>2, IndexFacts DEF IInv, RingInv, Entered, HeaderInv, Publishing, Versions
<1>8. ASSUME NEW r \in Readers PROVE ReaderInv(r)' /\ ReaderTypeOK'
  <2>1. /\ ReaderTypeOK' /\ CallInv(r)' /\ HeldInv(r)'
        /\ seq' = seq => SeqlockInv(r)'
        /\ ringVersion' = ringVersion => EntryInv(r)'
    BY <1>1, <1>2, <1>5, OwnerKeepsReader DEF IInv
  <2>2. PinInv(r)'
    BY <1>1, <1>2, SMTT(30)
       DEF IInv, OwnerTypeOK, ReaderTypeOK, TableTypeOK, CallTypeOK, HoldTypeOK,
           ReaderInv, PinInv, HeaderInv, Publishing, Newest, Evicted, Limit, Versions,
           Lesser, NoPin, Slots, tableVars, readerVars, holdVars
  <2>3. QED
    BY <2>1, <2>2 DEF ReaderInv
<1>9. ReaderTypeOK'
  BY <1>1, <1>2 DEF ReaderTypeOK, TableTypeOK, CallTypeOK, HoldTypeOK, tableVars,
     readerVars, callVars, holdVars
<1>10. QED
  BY <1>4, <1>6, <1>7, <1>8, <1>9 DEF IInv

\* Evict is through: what is left is within the ring that is about to grow.
LEMMA StoreOddInv == IInv /\ StoreOdd => IInv'
<1> SUFFICES ASSUME IInv, StoreOdd PROVE IInv'
  OBVIOUS
<1> USE VersionAssumption, CapacityAssumption, DepthAssumption, SlotAssumption
    DEF StoreOdd, Store
<1>1. UNCHANGED <<tableVars, readerVars>>
  BY OwnerFrame DEF Owner, Publish, Reclaim
<1> USE DEF headerVars, ownerVars, ringVars
<1>2. OwnerTypeOK /\ ReaderTypeOK
  BY DEF IInv
<1>3. seq' = 2 * version + 1 /\ seq' \in 0..2*MaxVersion
  BY OwnerFacts DEF IInv, HeaderInv, Publishing
<1>4. OwnerTypeOK'
  BY <1>2, <1>3, OwnerFacts DEF IInv, HeaderInv, OwnerTypeOK, Publishing
<1>5. floor' \in Int /\ floor' >= floor
  BY <1>2, <1>4 DEF OwnerTypeOK, Greater
<1>6. HeaderInv' /\ FloorInv' /\ GarbageInv'
  BY <1>2 DEF IInv, OwnerTypeOK, HeaderInv, FloorInv, GarbageInv, Publishing, Evicted,
     Greater, Lesser, Limit, Versions, NoPin, Newest
<1>7. ASSUME NEW i \in 0..Capacity-1 PROVE RingInv(i)'
  BY <1>2, IndexFacts DEF IInv, RingInv, Entered, HeaderInv, Publishing, Versions
<1>8. ASSUME NEW r \in Readers PROVE ReaderInv(r)' /\ ReaderTypeOK'
  <2>1. /\ ReaderTypeOK' /\ CallInv(r)' /\ HeldInv(r)'
        /\ seq' = seq => SeqlockInv(r)'
        /\ ringVersion' = ringVersion => EntryInv(r)'
    BY <1>1, <1>2, <1>5, OwnerKeepsReader DEF IInv
  <2>2. PinInv(r)'
    BY <1>1, <1>2, SMTT(30)
       DEF IInv, OwnerTypeOK, ReaderTypeOK, TableTypeOK, CallTypeOK, HoldTypeOK,
           ReaderInv, PinInv, HeaderInv, Publishing, Newest, Evicted, Limit, Versions,
           Lesser, NoPin, Slots, tableVars, readerVars, holdVars
  <2>3. SeqlockInv(r)'
    BY <1>1, <1>2, OddFacts DEF readerVars, callVars, IInv, OwnerTypeOK, ReaderTypeOK,
       TableTypeOK, CallTypeOK, HoldTypeOK, ReaderInv, SeqlockInv, HeaderInv, Versions
  <2>4. QED
    BY <2>1, <2>2, <2>3 DEF ReaderInv
<1>9. ReaderTypeOK'
  BY <1>1, <1>2 DEF ReaderTypeOK, TableTypeOK, CallTypeOK, HoldTypeOK, tableVars,
     readerVars, callVars, holdVars
<1>10. QED
  BY <1>4, <1>6, <1>7, <1>8, <1>9 DEF IInv

\* The entry of the next version is emptied.
LEMMA StoreRingEmptyInv == IInv /\ StoreRingEmpty => IInv'
<1> SUFFICES ASSUME IInv, StoreRingEmpty PROVE IInv'
  OBVIOUS
<1> USE VersionAssumption, CapacityAssumption, DepthAssumption, SlotAssumption
    DEF StoreRingEmpty, Store
<1>1. UNCHANGED <<tableVars, readerVars>>
  BY OwnerFrame DEF Owner, Publish, Reclaim
<1> USE DEF headerVars, ownerVars, ringVars
<1>2. OwnerTypeOK /\ ReaderTypeOK
  BY DEF IInv
<1>3. ringLive' \subseteq 0..Capacity-1
  BY <1>2, OwnerFacts DEF OwnerTypeOK, Publishing
<1>4. OwnerTypeOK'
  BY <1>2, <1>3, OwnerFacts DEF OwnerTypeOK, Versions, Publishing
<1>5. floor' \in Int /\ floor' >= floor
  BY <1>2, <1>4 DEF OwnerTypeOK, Greater
<1>6. HeaderInv' /\ FloorInv' /\ GarbageInv'
  BY <1>2 DEF IInv, HeaderInv, FloorInv, GarbageInv, Publishing, Evicted, Greater,
     Lesser, Limit, Versions, NoPin, Newest
<1>7. ASSUME NEW i \in 0..Capacity-1 PROVE RingInv(i)'
  BY <1>2, IndexFacts DEF IInv, RingInv, Entered, HeaderInv, Publishing, Versions
<1>8. ASSUME NEW r \in Readers PROVE ReaderInv(r)' /\ ReaderTypeOK'
  <2>1. /\ ReaderTypeOK' /\ CallInv(r)' /\ HeldInv(r)'
        /\ seq' = seq => SeqlockInv(r)'
        /\ ringVersion' = ringVersion => EntryInv(r)'
    BY <1>1, <1>2, <1>5, OwnerKeepsReader DEF IInv
  <2>2. PinInv(r)'
    BY <1>1, <1>2, SMTT(30)
       DEF IInv, OwnerTypeOK, ReaderTypeOK, TableTypeOK, CallTypeOK, HoldTypeOK,
           ReaderInv, PinInv, HeaderInv, Publishing, Newest, Evicted, Limit, Versions,
           Lesser, NoPin, Slots, tableVars, readerVars, holdVars
  <2>3. QED
    BY <2>1, <2>2 DEF ReaderInv
<1>9. ReaderTypeOK'
  BY <1>1, <1>2 DEF ReaderTypeOK, TableTypeOK, CallTypeOK, HoldTypeOK, tableVars,
     readerVars, callVars, holdVars
<1>10. QED
  BY <1>4, <1>6, <1>7, <1>8, <1>9 DEF IInv

\* From here to the next store the entry names a root that is not its version's.
LEMMA StoreRingRootInv == IInv /\ StoreRingRoot => IInv'
<1> SUFFICES ASSUME IInv, StoreRingRoot PROVE IInv'
  OBVIOUS
<1> USE VersionAssumption, CapacityAssumption, DepthAssumption, SlotAssumption
    DEF StoreRingRoot, Store
<1>1. UNCHANGED <<tableVars, readerVars>>
  BY OwnerFrame DEF Owner, Publish, Reclaim
<1> USE DEF headerVars, ownerVars, ringVars
<1>2. OwnerTypeOK /\ ReaderTypeOK
  BY DEF IInv
<1>3. OwnerTypeOK'
  BY <1>2, OwnerFacts DEF OwnerTypeOK, Versions, Publishing
<1>4. floor' \in Int /\ floor' >= floor
  BY <1>2, <1>3 DEF OwnerTypeOK, Greater
<1>5. HeaderInv' /\ FloorInv' /\ GarbageInv'
  BY <1>2 DEF IInv, HeaderInv, FloorInv, GarbageInv, Publishing, Evicted, Greater,
     Lesser, Limit, Versions, NoPin, Newest
<1>6. ASSUME NEW i \in 0..Capacity-1 PROVE RingInv(i)'
  BY <1>2, IndexFacts DEF IInv, OwnerTypeOK, RingInv, Entered, HeaderInv, Publishing,
     Versions
<1>7. ASSUME NEW r \in Readers PROVE ReaderInv(r)' /\ ReaderTypeOK'
  <2>1. /\ ReaderTypeOK' /\ CallInv(r)' /\ HeldInv(r)'
        /\ seq' = seq => SeqlockInv(r)'
        /\ ringVersion' = ringVersion => EntryInv(r)'
    BY <1>1, <1>2, <1>4, OwnerKeepsReader DEF IInv
  <2>2. PinInv(r)'
    BY <1>1, <1>2, SMTT(30)
       DEF IInv, OwnerTypeOK, ReaderTypeOK, TableTypeOK, CallTypeOK, HoldTypeOK,
           ReaderInv, PinInv, HeaderInv, Publishing, Newest, Evicted, Limit, Versions,
           Lesser, NoPin, Slots, tableVars, readerVars, holdVars
  <2>3. QED
    BY <2>1, <2>2 DEF ReaderInv
<1>8. ReaderTypeOK'
  BY <1>1, <1>2 DEF ReaderTypeOK, TableTypeOK, CallTypeOK, HoldTypeOK, tableVars,
     readerVars, callVars, holdVars
<1>9. QED
  BY <1>3, <1>5, <1>6, <1>7, <1>8 DEF IInv

\* The entry is of one version again.
LEMMA StoreRingVersionInv == IInv /\ StoreRingVersion => IInv'
<1> SUFFICES ASSUME IInv, StoreRingVersion PROVE IInv'
  OBVIOUS
<1> USE VersionAssumption, CapacityAssumption, DepthAssumption, SlotAssumption
    DEF StoreRingVersion, Store
<1>1. UNCHANGED <<tableVars, readerVars>>
  BY OwnerFrame DEF Owner, Publish, Reclaim
<1> USE DEF headerVars, ownerVars, ringVars
<1>2. OwnerTypeOK /\ ReaderTypeOK
  BY DEF IInv
<1>3. OwnerTypeOK'
  BY <1>2, OwnerFacts DEF OwnerTypeOK, Versions, Publishing
<1>4. floor' \in Int /\ floor' >= floor
  BY <1>2, <1>3 DEF OwnerTypeOK, Greater
<1>5. HeaderInv' /\ FloorInv' /\ GarbageInv'
  BY <1>2 DEF IInv, HeaderInv, FloorInv, GarbageInv, Publishing, Evicted, Greater,
     Lesser, Limit, Versions, NoPin, Newest
<1>6. ASSUME NEW i \in 0..Capacity-1 PROVE RingInv(i)'
  <2>1. /\ version \in Int /\ version + 1 # 0 /\ ringVersion[i] \in Int
        /\ Index(version + 1) \in 0..Capacity-1
    BY <1>2, OwnerFacts DEF OwnerTypeOK, Publishing
  <2>2. CASE i = Index(version + 1)
    <3>1. /\ ringVersion'[i] = version + 1 /\ ringRoot'[i] = ringRoot[i]
          /\ ringRoot[i] = version + 1
      BY <1>2, <2>1, <2>2 DEF IInv, OwnerTypeOK, RingInv
    <3>2. QED
      BY <2>1, <2>2, <3>1 DEF RingInv, Entered
  <2>3. CASE i # Index(version + 1)
    <3>1. ringVersion'[i] = ringVersion[i] /\ ringRoot'[i] = ringRoot[i]
      BY <1>2, <2>1, <2>3
    <3>2. QED
      BY <2>1, <2>3, <3>1 DEF IInv, RingInv, Entered
  <2>4. QED
    BY <2>2, <2>3
<1>7. ASSUME NEW r \in Readers PROVE ReaderInv(r)' /\ ReaderTypeOK'
  <2>1. /\ ReaderTypeOK' /\ CallInv(r)' /\ HeldInv(r)'
        /\ seq' = seq => SeqlockInv(r)'
        /\ ringVersion' = ringVersion => EntryInv(r)'
    BY <1>1, <1>2, <1>4, OwnerKeepsReader DEF IInv
  <2>2. PinInv(r)'
    BY <1>1, <1>2, SMTT(30)
       DEF IInv, OwnerTypeOK, ReaderTypeOK, TableTypeOK, CallTypeOK, HoldTypeOK,
           ReaderInv, PinInv, HeaderInv, Publishing, Newest, Evicted, Limit, Versions,
           Lesser, NoPin, Slots, tableVars, readerVars, holdVars
  <2>3. EntryInv(r)'
    <3> SUFFICES ASSUME pc[r] = "entryRoot" PROVE EntryInv(r)'
      BY <1>1, <1>2 DEF IInv, ReaderInv, EntryInv, readerVars, callVars
    <3> DEFINE w == want[r].version
    <3>1. /\ w \in 1..MaxVersion /\ floor \in Int /\ version \in 1..MaxVersion
          /\ Index(w) \in 0..Capacity-1
          /\ ringVersion[Index(w)] = w \/ w < floor
          /\ Evicted < 1 \/ Evicted < floor
      <4>1. w \in 0..MaxVersion /\ floor \in Int /\ version \in 1..MaxVersion
        BY <1>2, OwnerFacts DEF OwnerTypeOK, ReaderTypeOK, CallTypeOK, Snapshots
      <4>2. EntryInv(r) /\ CallInv(r) /\ FloorInv
        BY DEF IInv, ReaderInv
      <4>3. w >= 1 /\ (ringVersion[Index(w)] = w \/ w < floor)
        BY <4>2 DEF EntryInv, CallInv, Named
      <4>4. QED
        BY <4>1, <4>2, <4>3, IndexFacts, OwnerFacts DEF FloorInv, Publishing
    <3>2. CASE Index(w) = Index(version + 1) /\ ringVersion[Index(w)] = w
      <4>1. w <= version
        BY <3>1, <3>2 DEF IInv, RingInv, Entered
      <4>2. w + Capacity <= version + 1
        BY <3>1, <3>2, <4>1, IndexFacts
      <4>3. w < floor
        BY <3>1, <4>2, OwnerFacts DEF Evicted
      <4>4. QED
        BY <1>1, <4>3 DEF EntryInv, readerVars, callVars
    <3>3. CASE Index(w) # Index(version + 1)
      BY <1>1, <1>2, <3>1, <3>3 DEF EntryInv, readerVars, callVars
    <3>4. CASE w < floor
      BY <1>1, <3>4 DEF EntryInv, readerVars, callVars
    <3>5. QED
      BY <3>1, <3>2, <3>3, <3>4
  <2>4. QED
    BY <2>1, <2>2, <2>3 DEF ReaderInv
<1>8. ReaderTypeOK'
  BY <1>1, <1>2 DEF ReaderTypeOK, TableTypeOK, CallTypeOK, HoldTypeOK, tableVars,
     readerVars, callVars, holdVars
<1>9. QED
  BY <1>3, <1>5, <1>6, <1>7, <1>8 DEF IInv

\* The entry of the next version is live before the header names it.
LEMMA StoreRingLiveInv == IInv /\ StoreRingLive => IInv'
<1> SUFFICES ASSUME IInv, StoreRingLive PROVE IInv'
  OBVIOUS
<1> USE VersionAssumption, CapacityAssumption, DepthAssumption, SlotAssumption
    DEF StoreRingLive, Store
<1>1. UNCHANGED <<tableVars, readerVars>>
  BY OwnerFrame DEF Owner, Publish, Reclaim
<1> USE DEF headerVars, ownerVars, ringVars
<1>2. OwnerTypeOK /\ ReaderTypeOK
  BY DEF IInv
<1>3. ringLive' \subseteq 0..Capacity-1
  BY <1>2, OwnerFacts DEF OwnerTypeOK, Publishing
<1>4. OwnerTypeOK'
  BY <1>2, <1>3, OwnerFacts DEF OwnerTypeOK, Versions, Publishing
<1>5. floor' \in Int /\ floor' >= floor
  BY <1>2, <1>4 DEF OwnerTypeOK, Greater
<1>6. HeaderInv' /\ FloorInv' /\ GarbageInv'
  BY <1>2 DEF IInv, HeaderInv, FloorInv, GarbageInv, Publishing, Evicted, Greater,
     Lesser, Limit, Versions, NoPin, Newest
<1>7. ASSUME NEW i \in 0..Capacity-1 PROVE RingInv(i)'
  BY <1>2, IndexFacts DEF IInv, RingInv, Entered, HeaderInv, Publishing, Versions
<1>8. ASSUME NEW r \in Readers PROVE ReaderInv(r)' /\ ReaderTypeOK'
  <2>1. /\ ReaderTypeOK' /\ CallInv(r)' /\ HeldInv(r)'
        /\ seq' = seq => SeqlockInv(r)'
        /\ ringVersion' = ringVersion => EntryInv(r)'
    BY <1>1, <1>2, <1>5, OwnerKeepsReader DEF IInv
  <2>2. PinInv(r)'
    BY <1>1, <1>2, SMTT(30)
       DEF IInv, OwnerTypeOK, ReaderTypeOK, TableTypeOK, CallTypeOK, HoldTypeOK,
           ReaderInv, PinInv, HeaderInv, Publishing, Newest, Evicted, Limit, Versions,
           Lesser, NoPin, Slots, tableVars, readerVars, holdVars
  <2>3. QED
    BY <2>1, <2>2 DEF ReaderInv
<1>9. ReaderTypeOK'
  BY <1>1, <1>2 DEF ReaderTypeOK, TableTypeOK, CallTypeOK, HoldTypeOK, tableVars,
     readerVars, callVars, holdVars
<1>10. QED
  BY <1>4, <1>6, <1>7, <1>8, <1>9 DEF IInv

\* The header mixes two versions, behind an odd sequence.
LEMMA StoreRootInv == IInv /\ StoreRoot => IInv'
<1> SUFFICES ASSUME IInv, StoreRoot PROVE IInv'
  OBVIOUS
<1> USE VersionAssumption, CapacityAssumption, DepthAssumption, SlotAssumption
    DEF StoreRoot, Store
<1>1. UNCHANGED <<tableVars, readerVars>>
  BY OwnerFrame DEF Owner, Publish, Reclaim
<1> USE DEF headerVars, ownerVars, ringVars
<1>2. OwnerTypeOK /\ ReaderTypeOK
  BY DEF IInv
<1>3. OwnerTypeOK'
  BY <1>2, OwnerFacts DEF OwnerTypeOK, Versions, Publishing
<1>4. floor' \in Int /\ floor' >= floor
  BY <1>2, <1>3 DEF OwnerTypeOK, Greater
<1>5. HeaderInv' /\ FloorInv' /\ GarbageInv'
  BY <1>2 DEF IInv, HeaderInv, FloorInv, GarbageInv, Publishing, Evicted, Greater,
     Lesser, Limit, Versions, NoPin, Newest
<1>6. ASSUME NEW i \in 0..Capacity-1 PROVE RingInv(i)'
  BY <1>2, IndexFacts DEF IInv, RingInv, Entered, HeaderInv, Publishing, Versions
<1>7. ASSUME NEW r \in Readers PROVE ReaderInv(r)' /\ ReaderTypeOK'
  <2>1. /\ ReaderTypeOK' /\ CallInv(r)' /\ HeldInv(r)'
        /\ seq' = seq => SeqlockInv(r)'
        /\ ringVersion' = ringVersion => EntryInv(r)'
    BY <1>1, <1>2, <1>4, OwnerKeepsReader DEF IInv
  <2>2. PinInv(r)'
    BY <1>1, <1>2, SMTT(30)
       DEF IInv, OwnerTypeOK, ReaderTypeOK, TableTypeOK, CallTypeOK, HoldTypeOK,
           ReaderInv, PinInv, HeaderInv, Publishing, Newest, Evicted, Limit, Versions,
           Lesser, NoPin, Slots, tableVars, readerVars, holdVars
  <2>3. QED
    BY <2>1, <2>2 DEF ReaderInv
<1>8. ReaderTypeOK'
  BY <1>1, <1>2 DEF ReaderTypeOK, TableTypeOK, CallTypeOK, HoldTypeOK, tableVars,
     readerVars, callVars, holdVars
<1>9. QED
  BY <1>3, <1>5, <1>6, <1>7, <1>8 DEF IInv

\* The header is of the new version, still behind an odd sequence.
LEMMA StoreVersionInv == IInv /\ StoreVersion => IInv'
<1> SUFFICES ASSUME IInv, StoreVersion PROVE IInv'
  OBVIOUS
<1> USE VersionAssumption, CapacityAssumption, DepthAssumption, SlotAssumption
    DEF StoreVersion, Store
<1>1. UNCHANGED <<tableVars, readerVars>>
  BY OwnerFrame DEF Owner, Publish, Reclaim
<1> USE DEF headerVars, ownerVars, ringVars
<1>2. OwnerTypeOK /\ ReaderTypeOK
  BY DEF IInv
<1>3. OwnerTypeOK'
  BY <1>2, OwnerFacts DEF OwnerTypeOK, Versions, Publishing
<1>4. floor' \in Int /\ floor' >= floor
  BY <1>2, <1>3 DEF OwnerTypeOK, Greater
<1>5. HeaderInv' /\ FloorInv' /\ GarbageInv'
  BY <1>2 DEF IInv, OwnerTypeOK, HeaderInv, FloorInv, GarbageInv, Publishing, Evicted,
     Greater, Lesser, Limit, Versions, NoPin, Newest
<1>6. ASSUME NEW i \in 0..Capacity-1 PROVE RingInv(i)'
  BY <1>2, IndexFacts DEF IInv, RingInv, Entered, HeaderInv, Publishing, Versions
<1>7. ASSUME NEW r \in Readers PROVE ReaderInv(r)' /\ ReaderTypeOK'
  <2>1. /\ ReaderTypeOK' /\ CallInv(r)' /\ HeldInv(r)'
        /\ seq' = seq => SeqlockInv(r)'
        /\ ringVersion' = ringVersion => EntryInv(r)'
    BY <1>1, <1>2, <1>4, OwnerKeepsReader DEF IInv
  <2>2. PinInv(r)'
    BY <1>1, <1>2, SMTT(30)
       DEF IInv, OwnerTypeOK, ReaderTypeOK, TableTypeOK, CallTypeOK, HoldTypeOK,
           ReaderInv, PinInv, HeaderInv, Publishing, Newest, Evicted, Limit, Versions,
           Lesser, NoPin, Slots, tableVars, readerVars, holdVars
  <2>3. QED
    BY <2>1, <2>2 DEF ReaderInv
<1>8. ReaderTypeOK'
  BY <1>1, <1>2 DEF ReaderTypeOK, TableTypeOK, CallTypeOK, HoldTypeOK, tableVars,
     readerVars, callVars, holdVars
<1>9. QED
  BY <1>3, <1>5, <1>6, <1>7, <1>8 DEF IInv

\* The version is published, and the one before may have left garbage.
LEMMA StoreEvenInv == IInv /\ StoreEven => IInv'
<1> SUFFICES ASSUME IInv, StoreEven PROVE IInv'
  OBVIOUS
<1> USE VersionAssumption, CapacityAssumption, DepthAssumption, SlotAssumption
    DEF StoreEven, Store
<1>1. UNCHANGED <<tableVars, readerVars>>
  BY OwnerFrame DEF Owner, Publish, Reclaim
<1> USE DEF headerVars, ownerVars, ringVars
<1>2. OwnerTypeOK /\ ReaderTypeOK
  BY DEF IInv
<1>3. OwnerTypeOK'
  BY <1>2, OwnerFacts, SMTT(30) DEF IInv, HeaderInv, OwnerTypeOK, Versions, NoPin
<1>4. floor' \in Int /\ floor' >= floor
  BY <1>2, <1>3 DEF OwnerTypeOK, Greater
<1>5. HeaderInv' /\ FloorInv' /\ GarbageInv'
  BY <1>2 DEF IInv, OwnerTypeOK, HeaderInv, FloorInv, GarbageInv, Publishing, Evicted,
     Greater, Lesser, Limit, Versions, NoPin, Newest
<1>6. ASSUME NEW i \in 0..Capacity-1 PROVE RingInv(i)'
  BY <1>2, IndexFacts DEF IInv, RingInv, Entered, HeaderInv, Publishing, Versions
<1>7. ASSUME NEW r \in Readers PROVE ReaderInv(r)' /\ ReaderTypeOK'
  <2>1. /\ ReaderTypeOK' /\ CallInv(r)' /\ HeldInv(r)'
        /\ seq' = seq => SeqlockInv(r)'
        /\ ringVersion' = ringVersion => EntryInv(r)'
    BY <1>1, <1>2, <1>4, OwnerKeepsReader DEF IInv
  <2>2. PinInv(r)'
    BY <1>1, <1>2, SMTT(30)
       DEF IInv, OwnerTypeOK, ReaderTypeOK, TableTypeOK, CallTypeOK, HoldTypeOK,
           ReaderInv, PinInv, HeaderInv, Publishing, Newest, Evicted, Limit, Versions,
           Lesser, NoPin, Slots, tableVars, readerVars, holdVars
  <2>3. SeqlockInv(r)'
    <3>1. seq \in Nat /\ seq' = seq + 1 /\ before[r] \in Nat
      BY <1>2 DEF OwnerTypeOK, ReaderTypeOK, CallTypeOK
    <3>2. pc[r] \in {"root", "version", "reseq"} => ~Odd(before[r]) /\ before[r] < seq'
      BY <1>2, <3>1 DEF IInv, ReaderInv, SeqlockInv
    <3>3. QED
      BY <1>1, <3>1, <3>2 DEF SeqlockInv, readerVars, callVars
  <2>4. QED
    BY <2>1, <2>2, <2>3 DEF ReaderInv
<1>8. ReaderTypeOK'
  BY <1>1, <1>2 DEF ReaderTypeOK, TableTypeOK, CallTypeOK, HoldTypeOK, tableVars,
     readerVars, callVars, holdVars
<1>9. QED
  BY <1>3, <1>5, <1>6, <1>7, <1>8 DEF IInv

\* A reclaim on its own starts where the one of an install does.
LEMMA BeginReclaimInv == IInv /\ BeginReclaim => IInv'
<1> SUFFICES ASSUME IInv, BeginReclaim PROVE IInv'
  OBVIOUS
<1> USE VersionAssumption, CapacityAssumption, DepthAssumption, SlotAssumption
    DEF BeginReclaim
<1>1. UNCHANGED <<tableVars, readerVars>>
  BY OwnerFrame DEF Owner, Publish, Reclaim
<1> USE DEF headerVars, ownerVars, ringVars
<1>2. OwnerTypeOK /\ ReaderTypeOK
  BY DEF IInv
<1>3. OwnerTypeOK'
  BY <1>2 DEF OwnerTypeOK
<1>4. floor' \in Int /\ floor' >= floor
  BY <1>2, <1>3 DEF OwnerTypeOK, Greater
<1>5. HeaderInv' /\ FloorInv' /\ GarbageInv'
  BY <1>2 DEF IInv, HeaderInv, FloorInv, GarbageInv, Publishing, Evicted, Greater,
     Lesser, Limit, Versions, NoPin, Newest
<1>6. ASSUME NEW i \in 0..Capacity-1 PROVE RingInv(i)'
  BY <1>2, IndexFacts DEF IInv, RingInv, Entered, HeaderInv, Publishing, Versions
<1>7. ASSUME NEW r \in Readers PROVE ReaderInv(r)' /\ ReaderTypeOK'
  <2>1. /\ ReaderTypeOK' /\ CallInv(r)' /\ HeldInv(r)'
        /\ seq' = seq => SeqlockInv(r)'
        /\ ringVersion' = ringVersion => EntryInv(r)'
    BY <1>1, <1>2, <1>4, OwnerKeepsReader DEF IInv
  <2>2. PinInv(r)'
    BY <1>1, <1>2, SMTT(30)
       DEF IInv, OwnerTypeOK, ReaderTypeOK, TableTypeOK, CallTypeOK, HoldTypeOK,
           ReaderInv, PinInv, HeaderInv, Publishing, Newest, Evicted, Limit, Versions,
           Lesser, NoPin, Slots, tableVars, readerVars, holdVars
  <2>3. QED
    BY <2>1, <2>2 DEF ReaderInv
<1>8. ReaderTypeOK'
  BY <1>1, <1>2 DEF ReaderTypeOK, TableTypeOK, CallTypeOK, HoldTypeOK, tableVars,
     readerVars, callVars, holdVars
<1>9. QED
  BY <1>3, <1>5, <1>6, <1>7, <1>8 DEF IInv

\* The second scan does not pass a standing pin without seeing it.
LEMMA ScanInv == IInv /\ Scan => IInv'
<1> SUFFICES ASSUME IInv, Scan PROVE IInv'
  OBVIOUS
<1> USE VersionAssumption, CapacityAssumption, DepthAssumption, SlotAssumption
    DEF Scan
<1>1. UNCHANGED <<tableVars, readerVars>>
  BY OwnerFrame DEF Owner, Publish, Reclaim
<1> USE DEF headerVars, ownerVars, ringVars
<1>2. OwnerTypeOK /\ ReaderTypeOK
  BY DEF IInv
<1>3. scanAt \in Slots /\ epoch[scanAt] \in 0..MaxVersion /\ scanAt + 1 \in 0..MaxReaders
  BY <1>2 DEF OwnerTypeOK, ReaderTypeOK, TableTypeOK, Slots
<1>4. scanMin' \in 1..NoPin
  BY <1>2, <1>3 DEF OwnerTypeOK, Lesser, NoPin, Versions
<1>5. OwnerTypeOK'
  BY <1>2, <1>3, <1>4 DEF OwnerTypeOK
<1>6. floor' \in Int /\ floor' >= floor
  BY <1>2, <1>5 DEF OwnerTypeOK, Greater
<1>7. HeaderInv' /\ FloorInv' /\ GarbageInv'
  BY <1>2 DEF IInv, HeaderInv, FloorInv, GarbageInv, Publishing, Evicted, Greater,
     Lesser, Limit, Versions, NoPin, Newest
<1>8. ASSUME NEW i \in 0..Capacity-1 PROVE RingInv(i)'
  BY <1>2, IndexFacts DEF IInv, RingInv, Entered, HeaderInv, Publishing, Versions
<1>9. ASSUME NEW r \in Readers PROVE ReaderInv(r)' /\ ReaderTypeOK'
  <2>1. /\ ReaderTypeOK' /\ CallInv(r)' /\ HeldInv(r)'
        /\ seq' = seq => SeqlockInv(r)'
        /\ ringVersion' = ringVersion => EntryInv(r)'
    BY <1>1, <1>2, <1>6, OwnerKeepsReader DEF IInv
  <2>2. PinInv(r)'
    <3> SUFFICES ASSUME r \in secured PROVE PinInv(r)'
      BY <1>1 DEF PinInv, readerVars
    <3>1. /\ slotOf[r] \in claimed /\ slotOf[r] \in Slots
          /\ epoch[slotOf[r]] \in 1..MaxVersion
      BY <1>2 DEF IInv, ReaderInv, PinInv, ReaderTypeOK, TableTypeOK
    <3>2. slotOf[r] # scanAt \/ scanMin' <= epoch[slotOf[r]]
      BY <1>2, <3>1 DEF Lesser
    <3>3. scanMin' <= scanMin
      BY <1>2, <1>3 DEF Lesser, OwnerTypeOK, NoPin
    <3>4. ownerPc = "scan2" => \/ boundary <= epoch[slotOf[r]]
                              \/ scanAt + 1 <= slotOf[r]
                              \/ scanMin' <= epoch[slotOf[r]]
      <4>1. PinInv(r) /\ scanAt \in Int /\ scanMin \in Int /\ scanMin' \in Int
        BY <1>2, <1>5 DEF IInv, ReaderInv, OwnerTypeOK, NoPin
      <4>2. QED
        BY <3>1, <3>2, <3>3, <4>1 DEF PinInv, Slots
    <3>5. QED
      BY <1>1, <3>4 DEF IInv, ReaderInv, PinInv, Newest, tableVars, readerVars, holdVars
  <2>3. QED
    BY <2>1, <2>2 DEF ReaderInv
<1>10. ReaderTypeOK'
  BY <1>1, <1>2 DEF ReaderTypeOK, TableTypeOK, CallTypeOK, HoldTypeOK, tableVars,
     readerVars, callVars, holdVars
<1>11. QED
  BY <1>5, <1>7, <1>8, <1>9, <1>10 DEF IInv

\* The floor is raised to the boundary before the second scan begins.
LEMMA RaiseFloorInv == IInv /\ RaiseFloor => IInv'
<1> SUFFICES ASSUME IInv, RaiseFloor PROVE IInv'
  OBVIOUS
<1> USE VersionAssumption, CapacityAssumption, DepthAssumption, SlotAssumption
    DEF RaiseFloor
<1>1. UNCHANGED <<tableVars, readerVars>>
  BY OwnerFrame DEF Owner, Publish, Reclaim
<1> USE DEF headerVars, ownerVars, ringVars
<1>2. OwnerTypeOK /\ ReaderTypeOK
  BY DEF IInv
<1>3. /\ Lesser(scanMin, version - HistoryDepth) \in Int
      /\ Lesser(scanMin, version - HistoryDepth) <= MaxVersion
  BY <1>2, OwnerFacts DEF OwnerTypeOK, Lesser, NoPin
<1>4. floor' \in 0..MaxVersion
  BY <1>2, <1>3 DEF OwnerTypeOK, Greater
<1>5. OwnerTypeOK'
  BY <1>2, <1>3, <1>4, OwnerFacts, SMTT(30) DEF OwnerTypeOK, NoPin
<1>6. floor' \in Int /\ floor' >= floor
  BY <1>2, <1>5 DEF OwnerTypeOK, Greater
<1>7. HeaderInv' /\ FloorInv' /\ GarbageInv'
  BY <1>2 DEF IInv, OwnerTypeOK, HeaderInv, FloorInv, GarbageInv, Publishing, Evicted,
     Greater, Lesser, Limit, Versions, NoPin, Newest
<1>8. ASSUME NEW i \in 0..Capacity-1 PROVE RingInv(i)'
  BY <1>2, IndexFacts DEF IInv, RingInv, Entered, HeaderInv, Publishing, Versions
<1>9. ASSUME NEW r \in Readers PROVE ReaderInv(r)' /\ ReaderTypeOK'
  <2>1. /\ ReaderTypeOK' /\ CallInv(r)' /\ HeldInv(r)'
        /\ seq' = seq => SeqlockInv(r)'
        /\ ringVersion' = ringVersion => EntryInv(r)'
    BY <1>1, <1>2, <1>6, OwnerKeepsReader DEF IInv
  <2>2. PinInv(r)'
    BY <1>1, <1>2, SMTT(30)
       DEF IInv, OwnerTypeOK, ReaderTypeOK, TableTypeOK, CallTypeOK, HoldTypeOK,
           ReaderInv, PinInv, HeaderInv, Publishing, Newest, Evicted, Limit, Versions,
           Lesser, NoPin, Slots, tableVars, readerVars, holdVars
  <2>3. QED
    BY <2>1, <2>2 DEF ReaderInv
<1>10. ReaderTypeOK'
  BY <1>1, <1>2 DEF ReaderTypeOK, TableTypeOK, CallTypeOK, HoldTypeOK, tableVars,
     readerVars, callVars, holdVars
<1>11. QED
  BY <1>5, <1>7, <1>8, <1>9, <1>10 DEF IInv

\* Both scans are over: no standing pin is below what may be freed.
LEMMA BeginFreeInv == IInv /\ BeginFree => IInv'
<1> SUFFICES ASSUME IInv, BeginFree PROVE IInv'
  OBVIOUS
<1> USE VersionAssumption, CapacityAssumption, DepthAssumption, SlotAssumption
    DEF BeginFree
<1>1. UNCHANGED <<tableVars, readerVars>>
  BY OwnerFrame DEF Owner, Publish, Reclaim
<1> USE DEF headerVars, ownerVars, ringVars
<1>2. OwnerTypeOK /\ ReaderTypeOK
  BY DEF IInv
<1>3. OwnerTypeOK'
  BY <1>2, OwnerFacts DEF OwnerTypeOK, Lesser, NoPin
<1>4. floor' \in Int /\ floor' >= floor
  BY <1>2, <1>3 DEF OwnerTypeOK, Greater
<1>5. HeaderInv' /\ FloorInv' /\ GarbageInv'
  BY <1>2 DEF IInv, OwnerTypeOK, HeaderInv, FloorInv, GarbageInv, Publishing, Evicted,
     Greater, Lesser, Limit, Versions, NoPin, Newest
<1>6. ASSUME NEW i \in 0..Capacity-1 PROVE RingInv(i)'
  BY <1>2, IndexFacts DEF IInv, RingInv, Entered, HeaderInv, Publishing, Versions
<1>7. ASSUME NEW r \in Readers PROVE ReaderInv(r)' /\ ReaderTypeOK'
  <2>1. /\ ReaderTypeOK' /\ CallInv(r)' /\ HeldInv(r)'
        /\ seq' = seq => SeqlockInv(r)'
        /\ ringVersion' = ringVersion => EntryInv(r)'
    BY <1>1, <1>2, <1>4, OwnerKeepsReader DEF IInv
  <2>2. PinInv(r)'
    <3> SUFFICES ASSUME r \in secured PROVE PinInv(r)'
      BY <1>1 DEF PinInv, readerVars
    <3>1. /\ slotOf[r] \in claimed /\ slotOf[r] \in Slots
          /\ epoch[slotOf[r]] \in 1..MaxVersion
      BY <1>2 DEF IInv, ReaderInv, PinInv, ReaderTypeOK, TableTypeOK
    <3>2. ~(scanAt <= slotOf[r])
      BY <3>1 DEF Slots
    <3>3. boundary' <= epoch[slotOf[r]]
      BY <1>2, <3>1, <3>2 DEF IInv, ReaderInv, PinInv, OwnerTypeOK, Lesser, NoPin
    <3>4. QED
      BY <1>1, <3>3 DEF IInv, ReaderInv, PinInv, Newest, Publishing, tableVars,
         readerVars,
                        holdVars
  <2>3. QED
    BY <2>1, <2>2 DEF ReaderInv
<1>8. ReaderTypeOK'
  BY <1>1, <1>2 DEF ReaderTypeOK, TableTypeOK, CallTypeOK, HoldTypeOK, tableVars,
     readerVars, callVars, holdVars
<1>9. QED
  BY <1>3, <1>5, <1>6, <1>7, <1>8 DEF IInv

\* Nothing below the boundary waits any more.
LEMMA EndReclaimInv == IInv /\ EndReclaim => IInv'
<1> SUFFICES ASSUME IInv, EndReclaim PROVE IInv'
  OBVIOUS
<1> USE VersionAssumption, CapacityAssumption, DepthAssumption, SlotAssumption
    DEF EndReclaim
<1>1. UNCHANGED <<tableVars, readerVars>>
  BY OwnerFrame DEF Owner, Publish, Reclaim
<1> USE DEF headerVars, ownerVars, ringVars
<1>2. OwnerTypeOK /\ ReaderTypeOK
  BY DEF IInv
<1>3. OwnerTypeOK'
  BY <1>2 DEF OwnerTypeOK
<1>4. floor' \in Int /\ floor' >= floor
  BY <1>2, <1>3 DEF OwnerTypeOK, Greater
<1>5. HeaderInv' /\ FloorInv' /\ GarbageInv'
  BY <1>2 DEF IInv, HeaderInv, FloorInv, GarbageInv, Publishing, Evicted, Greater,
     Lesser, Limit, Versions, NoPin, Newest
<1>6. ASSUME NEW i \in 0..Capacity-1 PROVE RingInv(i)'
  BY <1>2, IndexFacts DEF IInv, RingInv, Entered, HeaderInv, Publishing, Versions
<1>7. ASSUME NEW r \in Readers PROVE ReaderInv(r)' /\ ReaderTypeOK'
  <2>1. /\ ReaderTypeOK' /\ CallInv(r)' /\ HeldInv(r)'
        /\ seq' = seq => SeqlockInv(r)'
        /\ ringVersion' = ringVersion => EntryInv(r)'
    BY <1>1, <1>2, <1>4, OwnerKeepsReader DEF IInv
  <2>2. PinInv(r)'
    BY <1>1, <1>2, SMTT(30)
       DEF IInv, OwnerTypeOK, ReaderTypeOK, TableTypeOK, CallTypeOK, HoldTypeOK,
           ReaderInv, PinInv, HeaderInv, Publishing, Newest, Evicted, Limit, Versions,
           Lesser, NoPin, Slots, tableVars, readerVars, holdVars
  <2>3. QED
    BY <2>1, <2>2 DEF ReaderInv
<1>8. ReaderTypeOK'
  BY <1>1, <1>2 DEF ReaderTypeOK, TableTypeOK, CallTypeOK, HoldTypeOK, tableVars,
     readerVars, callVars, holdVars
<1>9. QED
  BY <1>3, <1>5, <1>6, <1>7, <1>8 DEF IInv

-----------------------------------------------------------------------------
(* The readers' steps *)

\* A step of r leaves the owner alone, and of another reader everything but
\* the pin, which it may end and never moves.
Frame(r) ==
  /\ UNCHANGED <<headerVars, ownerVars>>
  /\ \A q \in Readers \ {r} :
       /\ pc'[q] = pc[q] /\ op'[q] = op[q] /\ slotOf'[q] = slotOf[q]
       /\ attempt'[q] = attempt[q] /\ before'[q] = before[q] /\ want'[q] = want[q]
       /\ cur'[q] = cur[q] /\ other'[q] = other[q]
       /\ q \in tainted' => q \in tainted
       /\ q \in broken' => q \in broken
       /\ q \in secured' => q \in secured
       /\ q \in secured' /\ slotOf[q] \in claimed =>
            /\ slotOf[q] \in claimed'
            /\ epoch'[slotOf[q]] = epoch[slotOf[q]]

\* What a reader's step is proved to do.
GoodStep(r) == Frame(r) /\ ReaderTypeOK' /\ ReaderInv(r)'

\* A pin is stored: the types of the table stand.
LEMMA StoreEpochFacts ==
  ASSUME TableTypeOK, NEW r \in Readers, NEW v \in 0..MaxVersion, StoreEpoch(r, v)
  PROVE  /\ claimed' \subseteq Slots
         /\ epoch' \in [Slots -> 0..MaxVersion]
         /\ secured' \subseteq Readers
<1>1. epoch \in [Slots -> 0..MaxVersion] /\ epoch' = [epoch EXCEPT ![slotOf[r]] = v]
  BY DEF TableTypeOK, StoreEpoch
<1>2. epoch' \in [Slots -> 0..MaxVersion]
  BY <1>1
<1>3. claimed' \subseteq Slots /\ secured' \subseteq Readers
  BY DEF TableTypeOK, StoreEpoch
<1>4. QED
  BY <1>2, <1>3

\* Where a call of r may be when an attempt, a read or the call itself is over.
Ended(r) ==
  /\ CallTypeOK'
  /\ pc'[r] \in {"idle", "held", "seq", "giveUp", "unpin"}
  /\ pc'[r] \in {"idle", "seq"} => attempt'[r] < MaxSpin
  /\ r \notin tainted'

\* A call that ends leaves nothing it loaded behind.
LEMMA EndCallFacts ==
  ASSUME CallTypeOK, NEW r \in Readers, EndCall(r) PROVE Ended(r)
<1> USE DEF EndCall, CallTypeOK
<1>1. /\ pc'[r] = "idle" /\ attempt'[r] = 0 /\ r \notin tainted'
  OBVIOUS
<1>2. NoSnapshot \in Snapshots /\ 0 \in 0..MaxSpin /\ 0 \in 0..2*MaxVersion
  BY SpinAssumption, VersionAssumption DEF NoSnapshot, Snapshots
<1>3. CallTypeOK'
  BY <1>2
<1>4. QED
  BY <1>1, <1>3, SpinAssumption DEF Ended

\* So does an attempt of acquire that failed, and the attempts stay bounded.
LEMMA RetryFacts ==
  ASSUME CallTypeOK, NEW r \in Readers, CallInv(r), Retry(r),
         pc[r] \notin {"revalidate", "giveUp", "held", "repin", "unpin"}
  PROVE  Ended(r)
<1> USE DEF Retry, CallTypeOK
<1>1. attempt[r] < MaxSpin /\ r \notin tainted /\ attempt[r] \in Nat /\ MaxSpin \in Nat
  BY SpinAssumption DEF CallInv
<1>2. /\ attempt'[r] = attempt[r] + 1 /\ r \notin tainted'
      /\ pc'[r] = IF attempt[r] + 1 < MaxSpin THEN "seq" ELSE "giveUp"
  BY <1>1
<1>3. /\ NoSnapshot \in Snapshots /\ attempt[r] + 1 \in 0..MaxSpin
      /\ 0 \in 0..2*MaxVersion
  BY <1>1, VersionAssumption DEF NoSnapshot, Snapshots
<1>4. CallTypeOK'
  BY <1>3
<1>5. QED
  BY <1>1, <1>2, <1>4 DEF Ended

\* A version that is gone ends the attempt, or the call.
LEMMA GoneFacts ==
  ASSUME CallTypeOK, NEW r \in Readers, CallInv(r), Gone(r),
         pc[r] \notin {"revalidate", "giveUp", "held", "repin", "unpin"}
  PROVE  Ended(r)
<1>1. CASE Retry(r)
  BY <1>1, RetryFacts
<1>2. CASE ~Retry(r)
  <2>1. Continue(r, "unpin") /\ UNCHANGED <<before, want>>
    BY <1>2 DEF Gone
  <2>2. r \notin tainted
    BY DEF CallInv
  <2>3. QED
    BY <2>1, <2>2 DEF Continue, CallTypeOK, Ended
<1>3. QED
  BY <1>1, <1>2

\* A read that is over ends the call, or goes on to restore a pin.
LEMMA AfterReadFacts ==
  ASSUME CallTypeOK, NEW r \in Readers, AfterRead(r) PROVE Ended(r)
<1>1. CASE EndCall(r)
  BY <1>1, EndCallFacts
<1>2. CASE ~EndCall(r)
  BY <1>2 DEF AfterRead, CallTypeOK, Ended
<1>3. QED
  BY <1>1, <1>2

\* An even sequence: no publish is under way, and the header is of one version.
LEMMA EvenSequence ==
  ASSUME IInv, ~Odd(seq) PROVE root = version /\ seq = 2 * version
<1>1. version \in Nat /\ version - 1 \in Nat
  BY VersionAssumption DEF IInv, OwnerTypeOK, Versions
<1>2. Odd(2 * version + 1) /\ Odd(2 * (version - 1) + 1)
  BY <1>1, OddFacts
<1>3. 2 * (version - 1) + 1 = 2 * version - 1
  BY <1>1
<1>4. QED
  BY <1>2, <1>3 DEF IInv, HeaderInv, OwnerTypeOK

\* A slot that is claimed pins nothing yet.
LEMMA AttachStep == ASSUME IInv, NEW r \in Readers, Attach(r) PROVE GoodStep(r)
<1> USE DEF Attach, callVars, holdVars
<1>1. OwnerTypeOK /\ ReaderTypeOK /\ ReaderInv(r)
  BY DEF IInv
<1>2. Frame(r)
  BY <1>1 DEF Frame
<1>3. ReaderTypeOK'
  <2>1. TableTypeOK'
    BY <1>1, VersionAssumption DEF ReaderTypeOK, TableTypeOK
  <2>2. CallTypeOK'
    BY <1>1 DEF ReaderTypeOK, CallTypeOK
  <2>3. HoldTypeOK'
    BY <1>1, VersionAssumption DEF ReaderTypeOK, HoldTypeOK, NoSnapshot
  <2>4. QED
    BY <2>1, <2>2, <2>3 DEF ReaderTypeOK
<1>4. PinInv(r)'
  BY <1>1 DEF ReaderInv, CallInv, PinInv
<1>5. CallInv(r)'
  <2>1. r \notin broken'
    BY <1>1 DEF ReaderInv, CallInv
  <2>2. QED
    BY <1>1, <1>2, <2>1 DEF ReaderTypeOK, TableTypeOK, ReaderInv, CallInv, Named,
       NoSnapshot
<1>6. SeqlockInv(r)'
  BY <1>1, <1>2 DEF SeqlockInv
<1>7. EntryInv(r)'
  BY <1>1, <1>2 DEF ringVars, EntryInv
<1>8. HeldInv(r)'
  BY <1>1, <1>2 DEF ReaderInv, HeldInv, NoSnapshot
<1>9. QED
  BY <1>2, <1>3, <1>4, <1>5, <1>6, <1>7, <1>8 DEF GoodStep, ReaderInv

\* A reader that detaches takes its pin, and those of the slot, with it.
LEMMA DetachStep == ASSUME IInv, NEW r \in Readers, Detach(r) PROVE GoodStep(r)
<1> USE DEF Detach, callVars, holdVars
<1>1. OwnerTypeOK /\ ReaderTypeOK /\ ReaderInv(r)
  BY DEF IInv
<1>2. Frame(r)
  BY <1>1 DEF Frame
<1>3. ReaderTypeOK'
  <2>1. TableTypeOK'
    <3>1. 0 \in 0..MaxVersion /\ epoch \in [Slots -> 0..MaxVersion]
      BY <1>1, VersionAssumption DEF ReaderTypeOK, TableTypeOK
    <3>2. epoch' \in [Slots -> 0..MaxVersion]
      BY <3>1
    <3>3. QED
      BY <1>1, <3>2 DEF ReaderTypeOK, TableTypeOK
  <2>2. CallTypeOK'
    BY <1>1 DEF ReaderTypeOK, CallTypeOK
  <2>3. HoldTypeOK'
    BY <1>1, VersionAssumption DEF ReaderTypeOK, HoldTypeOK, Snapshots, NoSnapshot
  <2>4. QED
    BY <2>1, <2>2, <2>3 DEF ReaderTypeOK
<1>4. PinInv(r)'
  BY <1>1, <1>2 DEF ownerVars, PinInv, Newest
<1>5. CallInv(r)'
  <2>1. r \notin broken'
    BY <1>1 DEF ReaderInv, CallInv
  <2>2. QED
    BY <1>1, <1>2, <2>1 DEF ReaderInv, CallInv, Named, NoSnapshot
<1>6. SeqlockInv(r)'
  BY <1>1, <1>2 DEF SeqlockInv
<1>7. EntryInv(r)'
  BY <1>1, <1>2 DEF ringVars, EntryInv
<1>8. HeldInv(r)'
  BY <1>1, <1>2 DEF ReaderInv, HeldInv, NoSnapshot
<1>9. QED
  BY <1>2, <1>3, <1>4, <1>5, <1>6, <1>7, <1>8 DEF GoodStep, ReaderInv

\* A call of acquire starts with an attempt to spare.
LEMMA AcquireStep == ASSUME IInv, NEW r \in Readers, Acquire(r) PROVE GoodStep(r)
<1> USE DEF Acquire, Call, callVars, holdVars
<1>1. OwnerTypeOK /\ ReaderTypeOK /\ ReaderInv(r)
  BY DEF IInv
<1>2. Frame(r)
  BY <1>1 DEF Frame, tableVars
<1>3. ReaderTypeOK'
  <2>1. TableTypeOK'
    BY <1>1, VersionAssumption DEF ReaderTypeOK, TableTypeOK, tableVars
  <2>2. CallTypeOK'
    BY <1>1 DEF ReaderTypeOK, CallTypeOK
  <2>3. HoldTypeOK'
    BY <1>1, VersionAssumption DEF ReaderTypeOK, HoldTypeOK, NoSnapshot
  <2>4. QED
    BY <2>1, <2>2, <2>3 DEF ReaderTypeOK
<1>4. PinInv(r)'
  BY <1>1, <1>2 DEF headerVars, tableVars, ownerVars, ReaderInv, PinInv, Newest
<1>5. CallInv(r)'
  <2>1. r \notin broken'
    BY <1>1 DEF ReaderInv, CallInv
  <2>2. QED
    BY <1>1, <1>2, <2>1 DEF ReaderInv, CallInv, Named, NoSnapshot
<1>6. SeqlockInv(r)'
  BY <1>1, <1>2 DEF SeqlockInv
<1>7. EntryInv(r)'
  BY <1>1, <1>2 DEF ringVars, EntryInv
<1>8. HeldInv(r)'
  BY <1>1, <1>2 DEF ReaderInv, HeldInv, NoSnapshot
<1>9. QED
  BY <1>2, <1>3, <1>4, <1>5, <1>6, <1>7, <1>8 DEF GoodStep, ReaderInv

\* An even sequence opens the bracket around the header.
LEMMA LoadSeqStep == ASSUME IInv, NEW r \in Readers, LoadSeq(r) PROVE GoodStep(r)
<1> USE DEF LoadSeq, Load, Continue, callVars, holdVars
<1>1. OwnerTypeOK /\ ReaderTypeOK /\ ReaderInv(r)
  BY DEF IInv
<1>2. (Retry(r) => Ended(r))
  BY <1>1, RetryFacts DEF ReaderInv, ReaderTypeOK
<1>3. Frame(r)
  BY <1>1 DEF ReaderTypeOK, CallTypeOK, Frame, tableVars, Retry
<1>4. ReaderTypeOK'
  <2>1. TableTypeOK'
    BY <1>1, VersionAssumption DEF ReaderTypeOK, TableTypeOK, tableVars
  <2>2. CallTypeOK'
    <3>1. CASE Retry(r)
      BY <1>2, <3>1 DEF Ended
    <3>2. CASE ~Retry(r)
      <4>1. before' = [before EXCEPT ![r] = seq] /\ seq \in 0..2*MaxVersion
        BY <1>1, <3>2, VersionAssumption DEF OwnerTypeOK
      <4>2. before' \in [Readers -> 0..2*MaxVersion]
        BY <1>1, <4>1 DEF ReaderTypeOK, CallTypeOK
      <4>3. QED
        BY <1>1, <3>2, <4>2 DEF ReaderTypeOK, CallTypeOK
    <3>3. QED
      BY <3>1, <3>2
  <2>3. HoldTypeOK'
    BY <1>1, VersionAssumption DEF ReaderTypeOK, HoldTypeOK, NoSnapshot, Retry
  <2>4. QED
    BY <2>1, <2>2, <2>3 DEF ReaderTypeOK
<1>5. PinInv(r)'
  BY <1>1, <1>3 DEF headerVars, tableVars, ownerVars, ReaderInv, PinInv, Newest, Retry
<1>6. CallInv(r)'
  <2>1. r \notin broken'
    BY <1>1 DEF ReaderInv, CallInv, Retry
  <2>2. QED
    BY <1>2, <1>1, <1>3, <2>1 DEF ReaderTypeOK, CallTypeOK, ReaderInv, CallInv, Named,
       NoSnapshot, Ended
<1>7. SeqlockInv(r)'
  <2>1. CASE Retry(r)
    BY <1>2, <2>1 DEF Ended, SeqlockInv
  <2>2. CASE ~Retry(r)
    <3>1. pc'[r] = "root" /\ before'[r] = seq /\ seq' = seq /\ ~Odd(seq)
      BY <1>1, <2>2 DEF ReaderTypeOK, CallTypeOK, headerVars
    <3>2. QED
      BY <1>1, <3>1 DEF SeqlockInv, OwnerTypeOK
  <2>3. QED
    BY <2>1, <2>2
<1>8. EntryInv(r)'
  BY <1>2, <1>1, <1>3 DEF ReaderTypeOK, CallTypeOK, ringVars, EntryInv, Ended
<1>9. HeldInv(r)'
  BY <1>1, <1>3 DEF ReaderTypeOK, CallTypeOK, ReaderInv, HeldInv, NoSnapshot, Retry
<1>10. QED
  BY <1>3, <1>4, <1>5, <1>6, <1>7, <1>8, <1>9 DEF GoodStep, ReaderInv

\* The root is that of the sequence, if the sequence still stands.
LEMMA LoadRootStep == ASSUME IInv, NEW r \in Readers, LoadRoot(r) PROVE GoodStep(r)
<1> USE DEF LoadRoot, Load, Continue, callVars, holdVars
<1>1. OwnerTypeOK /\ ReaderTypeOK /\ ReaderInv(r)
  BY DEF IInv
<1>2. Frame(r)
  BY <1>1 DEF Frame, tableVars
<1>3. ReaderTypeOK'
  <2>1. TableTypeOK'
    BY <1>1, VersionAssumption DEF ReaderTypeOK, TableTypeOK, tableVars
  <2>2. CallTypeOK'
    <3>1. want[r] \in Snapshots /\ root \in 0..MaxVersion
      BY <1>1 DEF ReaderTypeOK, CallTypeOK, OwnerTypeOK, Versions
    <3>2. [want[r] EXCEPT !.root = root] \in Snapshots
      BY <3>1 DEF Snapshots
    <3>3. want' = [want EXCEPT ![r] = [want[r] EXCEPT !.root = root]]
      OBVIOUS
    <3>4. want' \in [Readers -> Snapshots]
      BY <1>1, <3>2, <3>3 DEF ReaderTypeOK, CallTypeOK
    <3>5. QED
      BY <1>1, <3>4 DEF ReaderTypeOK, CallTypeOK
  <2>3. HoldTypeOK'
    BY <1>1, VersionAssumption DEF ReaderTypeOK, HoldTypeOK, NoSnapshot
  <2>4. QED
    BY <2>1, <2>2, <2>3 DEF ReaderTypeOK
<1>4. PinInv(r)'
  BY <1>1, <1>2 DEF headerVars, tableVars, ownerVars, ReaderInv, PinInv, Newest
<1>5. CallInv(r)'
  <2>1. r \notin broken'
    BY <1>1 DEF ReaderInv, CallInv
  <2>2. QED
    BY <1>1, <1>2, <2>1 DEF ReaderInv, CallInv, Named, NoSnapshot
<1>6. SeqlockInv(r)'
  <2>1. /\ pc'[r] = "version" /\ before' = before /\ seq' = seq
        /\ want'[r].root = root /\ before[r] <= seq /\ ~Odd(before[r])
    BY <1>1 DEF ReaderTypeOK, CallTypeOK, headerVars, ReaderInv, SeqlockInv
  <2>2. before[r] = seq => 2 * root = seq
    BY <2>1, EvenSequence
  <2>3. QED
    BY <2>1, <2>2 DEF SeqlockInv
<1>7. EntryInv(r)'
  BY <1>1, <1>2 DEF ringVars, EntryInv
<1>8. HeldInv(r)'
  BY <1>1, <1>2 DEF ReaderInv, HeldInv, NoSnapshot
<1>9. QED
  BY <1>2, <1>3, <1>4, <1>5, <1>6, <1>7, <1>8 DEF GoodStep, ReaderInv

\* So is the version.
LEMMA LoadVersionStep == ASSUME IInv, NEW r \in Readers, LoadVersion(r) PROVE GoodStep(r)
<1> USE DEF LoadVersion, Load, Continue, callVars, holdVars
<1>1. OwnerTypeOK /\ ReaderTypeOK /\ ReaderInv(r)
  BY DEF IInv
<1>2. Frame(r)
  BY <1>1 DEF Frame, tableVars
<1>3. ReaderTypeOK'
  <2>1. TableTypeOK'
    BY <1>1, VersionAssumption DEF ReaderTypeOK, TableTypeOK, tableVars
  <2>2. CallTypeOK'
    <3>1. want[r] \in Snapshots /\ version \in 0..MaxVersion
      BY <1>1 DEF ReaderTypeOK, CallTypeOK, OwnerTypeOK, Versions
    <3>2. [want[r] EXCEPT !.version = version] \in Snapshots
      BY <3>1 DEF Snapshots
    <3>3. want' = [want EXCEPT ![r] = [want[r] EXCEPT !.version = version]]
      OBVIOUS
    <3>4. want' \in [Readers -> Snapshots]
      BY <1>1, <3>2, <3>3 DEF ReaderTypeOK, CallTypeOK
    <3>5. QED
      BY <1>1, <3>4 DEF ReaderTypeOK, CallTypeOK
  <2>3. HoldTypeOK'
    BY <1>1, VersionAssumption DEF ReaderTypeOK, HoldTypeOK, NoSnapshot
  <2>4. QED
    BY <2>1, <2>2, <2>3 DEF ReaderTypeOK
<1>4. PinInv(r)'
  BY <1>1, <1>2 DEF headerVars, tableVars, ownerVars, ReaderInv, PinInv, Newest
<1>5. CallInv(r)'
  <2>1. /\ pc[r] = "version" /\ pc'[r] = "reseq"
        /\ UNCHANGED <<slotOf, attempt, tainted, broken>>
        /\ want'[r].version = version /\ version >= 1
    BY <1>1 DEF ReaderTypeOK, CallTypeOK, OwnerTypeOK, Versions
  <2>2. QED
    BY <1>1, <2>1 DEF ReaderInv, CallInv, Named
<1>6. SeqlockInv(r)'
  <2>1. /\ pc'[r] = "reseq" /\ before' = before /\ seq' = seq
        /\ want'[r].root = want[r].root /\ want'[r].version = version
        /\ before[r] <= seq /\ ~Odd(before[r])
        /\ (before[r] = seq => 2 * want[r].root = seq)
    BY <1>1 DEF ReaderTypeOK, CallTypeOK, headerVars, ReaderInv, SeqlockInv
  <2>2. before[r] = seq => 2 * version = seq
    BY <2>1, EvenSequence
  <2>3. QED
    BY <2>1, <2>2 DEF SeqlockInv
<1>7. EntryInv(r)'
  BY <1>1, <1>2 DEF ringVars, EntryInv
<1>8. HeldInv(r)'
  BY <1>1, <1>2 DEF ReaderInv, HeldInv, NoSnapshot
<1>9. QED
  BY <1>2, <1>3, <1>4, <1>5, <1>6, <1>7, <1>8 DEF GoodStep, ReaderInv

\* The sequence still stands: root and version belong together.
LEMMA CheckSeqStep == ASSUME IInv, NEW r \in Readers, CheckSeq(r) PROVE GoodStep(r)
<1> USE DEF CheckSeq, Load, Continue, callVars, holdVars
<1>1. OwnerTypeOK /\ ReaderTypeOK /\ ReaderInv(r)
  BY DEF IInv
<1>2. (Retry(r) => Ended(r))
  BY <1>1, RetryFacts DEF ReaderInv, ReaderTypeOK
<1>3. Frame(r)
  BY <1>1 DEF ReaderTypeOK, CallTypeOK, Frame, tableVars, Retry
<1>4. ReaderTypeOK'
  <2>1. TableTypeOK'
    BY <1>1, VersionAssumption DEF ReaderTypeOK, TableTypeOK, tableVars
  <2>2. CallTypeOK'
    <3>1. CASE Retry(r)
      BY <1>2, <3>1 DEF Ended
    <3>2. CASE ~Retry(r)
      <4>1. before' = [before EXCEPT ![r] = 0] /\ 0 \in 0..2*MaxVersion
        BY <1>1, <3>2, VersionAssumption
      <4>2. before' \in [Readers -> 0..2*MaxVersion]
        BY <1>1, <4>1 DEF ReaderTypeOK, CallTypeOK
      <4>3. QED
        BY <1>1, <3>2, <4>2 DEF ReaderTypeOK, CallTypeOK
    <3>3. QED
      BY <3>1, <3>2
  <2>3. HoldTypeOK'
    BY <1>1, VersionAssumption DEF ReaderTypeOK, HoldTypeOK, NoSnapshot, Retry
  <2>4. QED
    BY <2>1, <2>2, <2>3 DEF ReaderTypeOK
<1>5. PinInv(r)'
  BY <1>1, <1>3 DEF headerVars, tableVars, ownerVars, ReaderInv, PinInv, Newest, Retry
<1>6. CallInv(r)'
  <2>1. r \notin broken'
    BY <1>1 DEF ReaderInv, CallInv, Retry
  <2>2. QED
    BY <1>2, <1>1, <1>3, <2>1 DEF ReaderTypeOK, CallTypeOK, ReaderInv, CallInv, Named,
       NoSnapshot, Ended
<1>7. SeqlockInv(r)'
  BY <1>2, <1>1, <1>3 DEF ReaderTypeOK, CallTypeOK, SeqlockInv, Ended
<1>8. EntryInv(r)'
  <2>1. CASE Retry(r)
    BY <1>2, <2>1 DEF Ended, EntryInv
  <2>2. CASE ~Retry(r)
    <3>1. /\ pc[r] = "reseq" /\ pc'[r] = "pin" /\ UNCHANGED <<want, floor>>
          /\ seq = before[r] /\ want[r] \in Snapshots
      BY <1>1, <2>2 DEF ReaderTypeOK, CallTypeOK, headerVars
    <3>2. 2 * want[r].root = 2 * want[r].version
      BY <1>1, <3>1 DEF ReaderInv, SeqlockInv
    <3>3. want[r].root = want[r].version
      BY <3>1, <3>2 DEF Snapshots
    <3>4. QED
      BY <3>1, <3>3 DEF EntryInv
  <2>3. QED
    BY <2>1, <2>2
<1>9. HeldInv(r)'
  BY <1>1, <1>3 DEF ReaderTypeOK, CallTypeOK, ReaderInv, HeldInv, NoSnapshot, Retry
<1>10. QED
  BY <1>3, <1>4, <1>5, <1>6, <1>7, <1>8, <1>9 DEF GoodStep, ReaderInv

\* The caller names any version there is.
LEMMA OpenVersionStep == ASSUME IInv, NEW r \in Readers, OpenVersion(r) PROVE GoodStep(r)
<1> USE DEF OpenVersion, Call, callVars, holdVars
<1>1. OwnerTypeOK /\ ReaderTypeOK /\ ReaderInv(r)
  BY DEF IInv
<1>2. Frame(r)
  BY <1>1 DEF ReaderTypeOK, CallTypeOK, Frame, tableVars
<1>3. ReaderTypeOK'
  <2>1. TableTypeOK'
    BY <1>1, VersionAssumption DEF ReaderTypeOK, TableTypeOK, tableVars
  <2>2. CallTypeOK'
    <3>1. PICK v \in Versions : want' = [want EXCEPT ![r].version = v]
      OBVIOUS
    <3>2. want[r] \in Snapshots /\ v \in 0..MaxVersion
      BY <1>1, <3>1 DEF ReaderTypeOK, CallTypeOK, Versions
    <3>3. [want[r] EXCEPT !.version = v] \in Snapshots
      BY <3>2 DEF Snapshots
    <3>4. want' = [want EXCEPT ![r] = [want[r] EXCEPT !.version = v]]
      BY <3>1
    <3>5. want' \in [Readers -> Snapshots]
      BY <1>1, <3>3, <3>4 DEF ReaderTypeOK, CallTypeOK
    <3>6. QED
      BY <1>1, <3>5 DEF ReaderTypeOK, CallTypeOK
  <2>3. HoldTypeOK'
    BY <1>1, VersionAssumption DEF ReaderTypeOK, HoldTypeOK, NoSnapshot
  <2>4. QED
    BY <2>1, <2>2, <2>3 DEF ReaderTypeOK
<1>4. PinInv(r)'
  BY <1>1, <1>2 DEF headerVars, tableVars, ownerVars, ReaderInv, PinInv, Newest
<1>5. CallInv(r)'
  <2>1. PICK v \in Versions : want' = [want EXCEPT ![r].version = v]
    OBVIOUS
  <2>2. /\ pc[r] = "idle" /\ pc'[r] = "entry"
        /\ UNCHANGED <<slotOf, attempt, tainted, broken>>
        /\ want'[r].version >= 1
    BY <1>1, <2>1 DEF ReaderTypeOK, CallTypeOK, Versions
  <2>3. QED
    BY <1>1, <2>2 DEF ReaderInv, CallInv, Named
<1>6. SeqlockInv(r)'
  BY <1>1, <1>2 DEF ReaderTypeOK, CallTypeOK, SeqlockInv
<1>7. EntryInv(r)'
  BY <1>1, <1>2 DEF ReaderTypeOK, CallTypeOK, ringVars, EntryInv
<1>8. HeldInv(r)'
  BY <1>1, <1>2 DEF ReaderTypeOK, CallTypeOK, ReaderInv, HeldInv, NoSnapshot
<1>9. QED
  BY <1>2, <1>3, <1>4, <1>5, <1>6, <1>7, <1>8 DEF GoodStep, ReaderInv

\* The entry is of the version asked for, or the call ends.
LEMMA LoadEntryStep == ASSUME IInv, NEW r \in Readers, LoadEntry(r) PROVE GoodStep(r)
<1> USE DEF LoadEntry, Load, Continue, callVars, holdVars
<1>1. OwnerTypeOK /\ ReaderTypeOK /\ ReaderInv(r)
  BY DEF IInv
<1>2. (EndCall(r) => Ended(r))
  BY <1>1, EndCallFacts DEF ReaderTypeOK
<1>3. Frame(r)
  BY <1>1 DEF ReaderTypeOK, CallTypeOK, Frame, tableVars, EndCall
<1>4. ReaderTypeOK'
  <2>1. TableTypeOK'
    BY <1>1, VersionAssumption DEF ReaderTypeOK, TableTypeOK, tableVars
  <2>2. CallTypeOK'
    BY <1>2, <1>1 DEF ReaderTypeOK, CallTypeOK, Ended
  <2>3. HoldTypeOK'
    BY <1>1, VersionAssumption DEF ReaderTypeOK, HoldTypeOK, NoSnapshot, EndCall
  <2>4. QED
    BY <2>1, <2>2, <2>3 DEF ReaderTypeOK
<1>5. PinInv(r)'
  BY <1>1, <1>3 DEF headerVars, tableVars, ownerVars, ReaderInv, PinInv, Newest, EndCall
<1>6. CallInv(r)'
  <2>1. r \notin broken'
    BY <1>1 DEF ReaderInv, CallInv, EndCall
  <2>2. QED
    BY <1>2, <1>1, <1>3, <2>1 DEF ReaderTypeOK, CallTypeOK, ReaderInv, CallInv, Named,
       NoSnapshot, Ended
<1>7. SeqlockInv(r)'
  BY <1>2, <1>1, <1>3 DEF ReaderTypeOK, CallTypeOK, SeqlockInv, Ended
<1>8. EntryInv(r)'
  BY <1>2, <1>1, <1>3 DEF ReaderTypeOK, CallTypeOK, headerVars, ringVars, EntryInv, Ended
<1>9. HeldInv(r)'
  BY <1>1, <1>3 DEF ReaderTypeOK, CallTypeOK, ReaderInv, HeldInv, NoSnapshot, EndCall
<1>10. QED
  BY <1>3, <1>4, <1>5, <1>6, <1>7, <1>8, <1>9 DEF GoodStep, ReaderInv

\* The root is of the version, or of the next to take the entry, and then the
\* floor has passed.
LEMMA LoadEntryRootStep ==
  ASSUME IInv, NEW r \in Readers, LoadEntryRoot(r)
  PROVE  GoodStep(r)
<1> USE DEF LoadEntryRoot, Load, Continue, callVars, holdVars
<1>1. OwnerTypeOK /\ ReaderTypeOK /\ ReaderInv(r)
  BY DEF IInv
<1>2. Frame(r)
  BY <1>1 DEF Frame, tableVars
<1>3. ReaderTypeOK'
  <2>1. TableTypeOK'
    BY <1>1, VersionAssumption DEF ReaderTypeOK, TableTypeOK, tableVars
  <2>2. CallTypeOK'
    <3>1. Index(want[r].version) \in 0..Capacity-1
      BY <1>1, IndexFacts DEF ReaderTypeOK, CallTypeOK, ReaderInv, CallInv, Named,
         Snapshots
    <3>2. want[r] \in Snapshots /\ ringRoot[Index(want[r].version)] \in 0..MaxVersion
      BY <1>1, <3>1 DEF ReaderTypeOK, CallTypeOK, OwnerTypeOK
    <3>3. [want[r] EXCEPT !.root = ringRoot[Index(want[r].version)]] \in Snapshots
      BY <3>2 DEF Snapshots
    <3>4. want' = [want EXCEPT ![r] =
                     [want[r] EXCEPT !.root = ringRoot[Index(want[r].version)]]]
      OBVIOUS
    <3>5. want' \in [Readers -> Snapshots]
      BY <1>1, <3>3, <3>4 DEF ReaderTypeOK, CallTypeOK
    <3>6. QED
      BY <1>1, <3>5 DEF ReaderTypeOK, CallTypeOK
  <2>3. HoldTypeOK'
    BY <1>1, VersionAssumption DEF ReaderTypeOK, HoldTypeOK, NoSnapshot
  <2>4. QED
    BY <2>1, <2>2, <2>3 DEF ReaderTypeOK
<1>4. PinInv(r)'
  BY <1>1, <1>2 DEF headerVars, tableVars, ownerVars, ReaderInv, PinInv, Newest
<1>5. CallInv(r)'
  <2>1. r \notin broken'
    BY <1>1 DEF ReaderInv, CallInv
  <2>2. QED
    BY <1>1, <1>2, <2>1 DEF ReaderInv, CallInv, Named, NoSnapshot
<1>6. SeqlockInv(r)'
  BY <1>1, <1>2 DEF SeqlockInv
<1>7. EntryInv(r)'
  <2> DEFINE v == want[r].version
  <2>1. /\ pc[r] = "entryRoot" /\ pc'[r] = "wasLiveVersion" /\ UNCHANGED floor
        /\ want'[r].version = v /\ want'[r].root = ringRoot[Index(v)]
    BY <1>1 DEF ReaderTypeOK, CallTypeOK, headerVars
  <2>2. v \in 0..MaxVersion /\ v >= 1 /\ Index(v) \in 0..Capacity-1
    BY <1>1, <2>1, IndexFacts DEF ReaderTypeOK, CallTypeOK, ReaderInv, CallInv, Named,
       Snapshots
  <2>3. ASSUME ringVersion[Index(v)] = v PROVE ringRoot[Index(v)] = v \/ v < floor
    <3>1. RingInv(Index(v))
      BY <2>2 DEF IInv
    <3>2. CASE ~(ownerPc = "ringVersion" /\ Index(v) = Index(version + 1))
      BY <2>3, <3>1, <3>2 DEF RingInv
    <3>3. CASE ownerPc = "ringVersion" /\ Index(v) = Index(version + 1)
      <4>1. version \in Nat /\ v <= version /\ Capacity \in Nat \ {0}
        BY <1>1, <2>3, <3>1, <3>3, CapacityAssumption DEF RingInv, Entered, OwnerTypeOK,
           Versions
      <4>2. v + Capacity <= version + 1
        BY <2>2, <3>3, <4>1, IndexFacts
      <4>3. Evicted >= v /\ Evicted \in Int
        BY <2>2, <4>1, <4>2 DEF Evicted
      <4>4. Evicted < floor /\ floor \in Int
        BY <1>1, <2>2, <3>3, <4>3 DEF IInv, FloorInv, Publishing, OwnerTypeOK
      <4>5. QED
        BY <2>2, <4>3, <4>4
    <3>4. QED
      BY <3>2, <3>3
  <2>4. ringVersion[Index(v)] = v \/ v < floor
    BY <1>1, <2>1 DEF ReaderInv, EntryInv
  <2>5. QED
    BY <2>1, <2>3, <2>4 DEF EntryInv
<1>8. HeldInv(r)'
  BY <1>1, <1>2 DEF ReaderInv, HeldInv, NoSnapshot
<1>9. QED
  BY <1>2, <1>3, <1>4, <1>5, <1>6, <1>7, <1>8 DEF GoodStep, ReaderInv

\* The first load of isLive changes nothing of that.
LEMMA WasLiveVersionStep ==
  ASSUME IInv, NEW r \in Readers, WasLiveVersion(r)
  PROVE  GoodStep(r)
<1> USE DEF WasLiveVersion, Load, Continue, callVars, holdVars
<1>1. OwnerTypeOK /\ ReaderTypeOK /\ ReaderInv(r)
  BY DEF IInv
<1>2. (EndCall(r) => Ended(r))
  BY <1>1, EndCallFacts DEF ReaderTypeOK
<1>3. Frame(r)
  BY <1>1 DEF ReaderTypeOK, CallTypeOK, Frame, tableVars, EndCall
<1>4. ReaderTypeOK'
  <2>1. TableTypeOK'
    BY <1>1, VersionAssumption DEF ReaderTypeOK, TableTypeOK, tableVars
  <2>2. CallTypeOK'
    BY <1>2, <1>1 DEF ReaderTypeOK, CallTypeOK, Ended
  <2>3. HoldTypeOK'
    BY <1>1, VersionAssumption DEF ReaderTypeOK, HoldTypeOK, NoSnapshot, EndCall
  <2>4. QED
    BY <2>1, <2>2, <2>3 DEF ReaderTypeOK
<1>5. PinInv(r)'
  BY <1>1, <1>3 DEF headerVars, tableVars, ownerVars, ReaderInv, PinInv, Newest, EndCall
<1>6. CallInv(r)'
  <2>1. r \notin broken'
    BY <1>1 DEF ReaderInv, CallInv, EndCall
  <2>2. QED
    BY <1>2, <1>1, <1>3, <2>1 DEF ReaderTypeOK, CallTypeOK, ReaderInv, CallInv, Named,
       NoSnapshot, Ended
<1>7. SeqlockInv(r)'
  BY <1>2, <1>1, <1>3 DEF ReaderTypeOK, CallTypeOK, SeqlockInv, Ended
<1>8. EntryInv(r)'
  BY <1>2, <1>1, <1>3 DEF headerVars, ringVars, ReaderInv, EntryInv, Ended
<1>9. HeldInv(r)'
  BY <1>1, <1>3 DEF ReaderTypeOK, CallTypeOK, ReaderInv, HeldInv, NoSnapshot, EndCall
<1>10. QED
  BY <1>3, <1>4, <1>5, <1>6, <1>7, <1>8, <1>9 DEF GoodStep, ReaderInv

\* Nor does the second.
LEMMA WasLiveStep == ASSUME IInv, NEW r \in Readers, WasLive(r) PROVE GoodStep(r)
<1> USE DEF WasLive, Load, Continue, callVars, holdVars
<1>1. OwnerTypeOK /\ ReaderTypeOK /\ ReaderInv(r)
  BY DEF IInv
<1>2. (EndCall(r) => Ended(r))
  BY <1>1, EndCallFacts DEF ReaderTypeOK
<1>3. Frame(r)
  BY <1>1 DEF ReaderTypeOK, CallTypeOK, Frame, tableVars, EndCall
<1>4. ReaderTypeOK'
  <2>1. TableTypeOK'
    BY <1>1, VersionAssumption DEF ReaderTypeOK, TableTypeOK, tableVars
  <2>2. CallTypeOK'
    BY <1>2, <1>1 DEF ReaderTypeOK, CallTypeOK, Ended
  <2>3. HoldTypeOK'
    BY <1>1, VersionAssumption DEF ReaderTypeOK, HoldTypeOK, NoSnapshot, EndCall
  <2>4. QED
    BY <2>1, <2>2, <2>3 DEF ReaderTypeOK
<1>5. PinInv(r)'
  BY <1>1, <1>3 DEF headerVars, tableVars, ownerVars, ReaderInv, PinInv, Newest, EndCall
<1>6. CallInv(r)'
  <2>1. r \notin broken'
    BY <1>1 DEF ReaderInv, CallInv, EndCall
  <2>2. QED
    BY <1>2, <1>1, <1>3, <2>1 DEF ReaderTypeOK, CallTypeOK, ReaderInv, CallInv, Named,
       NoSnapshot, Ended
<1>7. SeqlockInv(r)'
  BY <1>2, <1>1, <1>3 DEF ReaderTypeOK, CallTypeOK, SeqlockInv, Ended
<1>8. EntryInv(r)'
  BY <1>2, <1>1, <1>3 DEF ReaderTypeOK, CallTypeOK, headerVars, ringVars, ReaderInv,
     EntryInv, Ended
<1>9. HeldInv(r)'
  BY <1>1, <1>3 DEF ReaderTypeOK, CallTypeOK, ReaderInv, HeldInv, NoSnapshot, EndCall
<1>10. QED
  BY <1>3, <1>4, <1>5, <1>6, <1>7, <1>8, <1>9 DEF GoodStep, ReaderInv

\* A pin that was just stored promises nothing until the floor is checked.
LEMMA PinStep == ASSUME IInv, NEW r \in Readers, Pin(r) PROVE GoodStep(r)
<1> USE DEF Pin, StoreEpoch, Continue, callVars, holdVars
<1>1. OwnerTypeOK /\ ReaderTypeOK /\ ReaderInv(r)
  BY DEF IInv
<1>2. Frame(r)
  BY <1>1 DEF Frame
<1>3. ReaderTypeOK'
  <2>1. TableTypeOK'
    BY <1>1, VersionAssumption DEF ReaderTypeOK, TableTypeOK, CallTypeOK, Snapshots
  <2>2. CallTypeOK'
    BY <1>1 DEF ReaderTypeOK, CallTypeOK
  <2>3. HoldTypeOK'
    BY <1>1, VersionAssumption DEF ReaderTypeOK, HoldTypeOK, NoSnapshot
  <2>4. QED
    BY <2>1, <2>2, <2>3 DEF ReaderTypeOK
<1>4. PinInv(r)'
  BY <1>1, <1>2 DEF ownerVars, PinInv, Newest
<1>5. CallInv(r)'
  <2>1. r \notin broken'
    BY <1>1 DEF ReaderInv, CallInv
  <2>2. QED
    BY <1>1, <1>2, <2>1 DEF ReaderInv, CallInv, Named, NoSnapshot
<1>6. SeqlockInv(r)'
  BY <1>1, <1>2 DEF SeqlockInv
<1>7. EntryInv(r)'
  BY <1>1, <1>2 DEF headerVars, ringVars, ReaderInv, EntryInv
<1>8. HeldInv(r)'
  BY <1>1, <1>2 DEF ReaderInv, HeldInv, NoSnapshot
<1>9. QED
  BY <1>2, <1>3, <1>4, <1>5, <1>6, <1>7, <1>8 DEF GoodStep, ReaderInv

\* A version the floor has not passed is pinned in time for the second scan.
LEMMA CheckFloorStep == ASSUME IInv, NEW r \in Readers, CheckFloor(r) PROVE GoodStep(r)
<1> USE DEF CheckFloor, Continue, callVars, holdVars
<1>1. OwnerTypeOK /\ ReaderTypeOK /\ ReaderInv(r)
  BY DEF IInv
<1>2. (Gone(r) => Ended(r))
  BY <1>1, GoneFacts DEF ReaderInv, ReaderTypeOK
<1>3. Frame(r)
  BY <1>1 DEF ReaderTypeOK, CallTypeOK, Frame, tableVars, Gone, Retry
<1>4. ReaderTypeOK'
  <2>1. TableTypeOK'
    BY <1>1, VersionAssumption DEF ReaderTypeOK, TableTypeOK, tableVars
  <2>2. CallTypeOK'
    BY <1>2, <1>1 DEF ReaderTypeOK, CallTypeOK, Ended
  <2>3. HoldTypeOK'
    BY <1>1, VersionAssumption DEF ReaderTypeOK, HoldTypeOK, NoSnapshot, Gone, Retry
  <2>4. QED
    BY <2>1, <2>2, <2>3 DEF ReaderTypeOK
<1>5. PinInv(r)'
  <2> SUFFICES ASSUME r \in secured' PROVE PinInv(r)'
    BY DEF PinInv
  <2> USE DEF headerVars, tableVars, ownerVars, Newest
  <2>1. CASE r \in secured
    BY <1>1, <2>1 DEF ReaderInv, PinInv
  <2>2. CASE r \notin secured
    <3>1. /\ slotOf[r] \in claimed /\ epoch[slotOf[r]] = want[r].version
          /\ want[r].version >= floor /\ pc[r] = "floor"
      BY <2>2
    <3>2. /\ want[r].version \in 0..MaxVersion /\ want[r].version >= 1
          /\ floor \in Int /\ boundary \in Int /\ (\A v \in freed : v \in Int)
      BY <1>1, <3>1 DEF ReaderTypeOK, CallTypeOK, OwnerTypeOK, Versions, Snapshots,
         ReaderInv, CallInv, Named
    <3>3. \A v \in freed : v < want[r].version
      <4>1. \A v \in freed : v < floor
        BY DEF IInv, FloorInv
      <4>2. QED
        BY <3>1, <3>2, <4>1
    <3>4. ownerPc \in {"scan2", "free"} => boundary <= want[r].version
      BY <3>1, <3>2 DEF IInv, FloorInv
    <3>5. QED
      BY <3>1, <3>2, <3>3, <3>4 DEF PinInv
  <2>3. QED
    BY <2>1, <2>2
<1>6. CallInv(r)'
  <2>1. r \notin broken'
    BY <1>1 DEF ReaderInv, CallInv, Gone, Retry
  <2>2. QED
    BY <1>2, <1>1, <1>3, <2>1 DEF ReaderTypeOK, CallTypeOK, ReaderInv, CallInv, Named,
       NoSnapshot, Ended
<1>7. SeqlockInv(r)'
  BY <1>2, <1>1, <1>3 DEF ReaderTypeOK, CallTypeOK, SeqlockInv, Ended
<1>8. EntryInv(r)'
  BY <1>2, <1>1, <1>3 DEF ReaderTypeOK, CallTypeOK, ringVars, EntryInv, Ended
<1>9. HeldInv(r)'
  <2>1. UNCHANGED <<cur, other>>
    BY DEF Gone, Retry
  <2>2. CASE Gone(r)
    BY <1>2, <1>1, <2>1, <2>2 DEF Ended, ReaderInv, HeldInv
  <2>3. CASE ~Gone(r)
    <3>1. /\ want' = want /\ want[r].version >= floor /\ pc[r] = "floor"
          /\ want[r] \in Snapshots /\ floor \in Int
      BY <1>1, <2>3 DEF ReaderTypeOK, CallTypeOK, OwnerTypeOK
    <3>2. want[r].root = want[r].version
      BY <1>1, <3>1 DEF ReaderInv, EntryInv, Snapshots
    <3>3. QED
      BY <1>1, <2>1, <3>1, <3>2 DEF ReaderInv, HeldInv
  <2>4. QED
    BY <2>2, <2>3
<1>10. QED
  BY <1>3, <1>4, <1>5, <1>6, <1>7, <1>8, <1>9 DEF GoodStep, ReaderInv

\* The entry is checked again behind the pin.
LEMMA IsLiveVersionStep ==
  ASSUME IInv, NEW r \in Readers, IsLiveVersion(r)
  PROVE  GoodStep(r)
<1> USE DEF IsLiveVersion, Load, Continue, callVars, holdVars
<1>1. OwnerTypeOK /\ ReaderTypeOK /\ ReaderInv(r)
  BY DEF IInv
<1>2. (Gone(r) => Ended(r))
  BY <1>1, GoneFacts DEF ReaderInv, ReaderTypeOK
<1>3. Frame(r)
  BY <1>1 DEF ReaderTypeOK, CallTypeOK, Frame, tableVars, Gone, Retry
<1>4. ReaderTypeOK'
  <2>1. TableTypeOK'
    BY <1>1, VersionAssumption DEF ReaderTypeOK, TableTypeOK, tableVars
  <2>2. CallTypeOK'
    BY <1>2, <1>1 DEF ReaderTypeOK, CallTypeOK, Ended
  <2>3. HoldTypeOK'
    BY <1>1, VersionAssumption DEF ReaderTypeOK, HoldTypeOK, NoSnapshot, Gone, Retry
  <2>4. QED
    BY <2>1, <2>2, <2>3 DEF ReaderTypeOK
<1>5. PinInv(r)'
  BY <1>1, <1>3 DEF headerVars, tableVars, ownerVars, ReaderInv, PinInv, Newest, Gone,
     Retry
<1>6. CallInv(r)'
  <2>1. r \notin broken'
    BY <1>1 DEF ReaderInv, CallInv, Gone, Retry
  <2>2. QED
    BY <1>2, <1>1, <1>3, <2>1 DEF ReaderTypeOK, CallTypeOK, ReaderInv, CallInv, Named,
       NoSnapshot, Ended
<1>7. SeqlockInv(r)'
  BY <1>2, <1>1, <1>3 DEF ReaderTypeOK, CallTypeOK, SeqlockInv, Ended
<1>8. EntryInv(r)'
  BY <1>2, <1>1, <1>3 DEF ReaderTypeOK, CallTypeOK, ringVars, EntryInv, Ended
<1>9. HeldInv(r)'
  BY <1>1, <1>3 DEF ReaderTypeOK, CallTypeOK, ReaderInv, HeldInv, NoSnapshot, Gone, Retry
<1>10. QED
  BY <1>3, <1>4, <1>5, <1>6, <1>7, <1>8, <1>9 DEF GoodStep, ReaderInv

\* The snapshot that is handed out is of one version.
LEMMA IsLiveStep == ASSUME IInv, NEW r \in Readers, IsLive(r) PROVE GoodStep(r)
<1> USE DEF IsLive, Load, Continue, callVars, holdVars
<1>1. OwnerTypeOK /\ ReaderTypeOK /\ ReaderInv(r)
  BY DEF IInv
<1>2. (Gone(r) => Ended(r)) /\ (EndCall(r) => Ended(r))
  BY <1>1, GoneFacts, EndCallFacts DEF ReaderInv, ReaderTypeOK
<1>3. Frame(r)
  BY <1>1 DEF ReaderTypeOK, CallTypeOK, HoldTypeOK, Frame, tableVars, Gone, Retry, EndCall
<1>4. ReaderTypeOK'
  <2>1. TableTypeOK'
    BY <1>1, VersionAssumption DEF ReaderTypeOK, TableTypeOK, tableVars
  <2>2. CallTypeOK'
    BY <1>2, <1>1 DEF ReaderTypeOK, CallTypeOK, Ended
  <2>3. HoldTypeOK'
    <3>1. /\ broken' = broken
          /\ cur' \in {cur, [cur EXCEPT ![r] = want[r]]}
          /\ other' \in {other, [other EXCEPT ![r] = want[r]], [other EXCEPT ![r] = cur[r]]}
      <4>1. CASE Gone(r)
        BY <4>1 DEF Gone, Retry
      <4>2. CASE ~Gone(r)
        <5>1. other[r] \in Snapshots /\ other \in [Readers -> Snapshots]
          BY <1>1 DEF ReaderTypeOK, HoldTypeOK
        <5>2. [other EXCEPT ![r] = IF @ = NoSnapshot THEN cur[r] ELSE @]
                \in {other, [other EXCEPT ![r] = cur[r]]}
          BY <5>1
        <5>3. QED
          BY <4>2, <5>2
      <4>3. QED
        BY <4>1, <4>2
    <3>2. /\ want[r] \in Snapshots /\ cur[r] \in Snapshots
          /\ cur \in [Readers -> Snapshots] /\ other \in [Readers -> Snapshots]
      BY <1>1 DEF ReaderTypeOK, CallTypeOK, HoldTypeOK
    <3>3. cur' \in [Readers -> Snapshots] /\ other' \in [Readers -> Snapshots]
      BY <3>1, <3>2
    <3>4. QED
      BY <1>1, <3>1, <3>3 DEF ReaderTypeOK, HoldTypeOK
  <2>4. QED
    BY <2>1, <2>2, <2>3 DEF ReaderTypeOK
<1>5. PinInv(r)'
  BY <1>1, <1>3 DEF headerVars, tableVars, ownerVars, ReaderInv, PinInv, Newest, Gone,
     Retry, EndCall
<1>6. CallInv(r)'
  <2>1. r \notin broken'
    BY <1>1 DEF ReaderInv, CallInv, Gone, Retry, EndCall
  <2>2. QED
    BY <1>2, <1>1, <1>3, <2>1 DEF ReaderTypeOK, CallTypeOK, ReaderInv, CallInv, Named,
       NoSnapshot, Ended
<1>7. SeqlockInv(r)'
  BY <1>2, <1>1, <1>3 DEF ReaderTypeOK, CallTypeOK, SeqlockInv, Ended
<1>8. EntryInv(r)'
  BY <1>2, <1>1, <1>3 DEF ReaderTypeOK, CallTypeOK, ringVars, EntryInv, Ended
<1>9. HeldInv(r)'
  BY <1>1, <1>3 DEF ReaderTypeOK, CallTypeOK, HoldTypeOK, ReaderInv, HeldInv,
     NoSnapshot, Gone, Retry, EndCall
<1>10. QED
  BY <1>3, <1>4, <1>5, <1>6, <1>7, <1>8, <1>9 DEF GoodStep, ReaderInv

\* A read works on a snapshot of one version.
LEMMA ReadStep == ASSUME IInv, NEW r \in Readers, Read(r) PROVE GoodStep(r)
<1> USE DEF Read, Call, callVars, holdVars
<1>1. OwnerTypeOK /\ ReaderTypeOK /\ ReaderInv(r)
  BY DEF IInv
<1>2. Frame(r)
  BY <1>1 DEF Frame, tableVars
<1>3. ReaderTypeOK'
  <2>1. TableTypeOK'
    BY <1>1, VersionAssumption DEF ReaderTypeOK, TableTypeOK, tableVars
  <2>2. CallTypeOK'
    BY <1>1 DEF ReaderTypeOK, CallTypeOK, HoldTypeOK
  <2>3. HoldTypeOK'
    BY <1>1, VersionAssumption DEF ReaderTypeOK, HoldTypeOK, NoSnapshot
  <2>4. QED
    BY <2>1, <2>2, <2>3 DEF ReaderTypeOK
<1>4. PinInv(r)'
  BY <1>1, <1>2 DEF headerVars, tableVars, ownerVars, ReaderInv, PinInv, Newest
<1>5. CallInv(r)'
  <2>1. r \notin broken'
    BY <1>1 DEF ReaderInv, CallInv
  <2>2. QED
    BY <1>1, <1>2, <2>1 DEF ReaderTypeOK, CallTypeOK, HoldTypeOK, ReaderInv, CallInv,
       Named, NoSnapshot, HeldInv, Snapshots
<1>6. SeqlockInv(r)'
  BY <1>1, <1>2 DEF SeqlockInv
<1>7. EntryInv(r)'
  BY <1>1, <1>2 DEF ringVars, EntryInv
<1>8. HeldInv(r)'
  BY <1>1, <1>2 DEF ReaderTypeOK, CallTypeOK, ReaderInv, HeldInv, NoSnapshot
<1>9. QED
  BY <1>2, <1>3, <1>4, <1>5, <1>6, <1>7, <1>8 DEF GoodStep, ReaderInv

\* The first validation lets the read begin.
LEMMA ValidateStep == ASSUME IInv, NEW r \in Readers, Validate(r) PROVE GoodStep(r)
<1> USE DEF Validate, Load, Continue, callVars, holdVars
<1>1. OwnerTypeOK /\ ReaderTypeOK /\ ReaderInv(r)
  BY DEF IInv
<1>2. (AfterRead(r) => Ended(r))
  BY <1>1, AfterReadFacts DEF ReaderTypeOK
<1>3. Frame(r)
  BY <1>1 DEF ReaderTypeOK, CallTypeOK, Frame, tableVars, AfterRead, EndCall
<1>4. ReaderTypeOK'
  <2>1. TableTypeOK'
    BY <1>1, VersionAssumption DEF ReaderTypeOK, TableTypeOK, tableVars
  <2>2. CallTypeOK'
    BY <1>2, <1>1 DEF ReaderTypeOK, CallTypeOK, Ended
  <2>3. HoldTypeOK'
    BY <1>1, VersionAssumption DEF ReaderTypeOK, HoldTypeOK, NoSnapshot, AfterRead,
       EndCall
  <2>4. QED
    BY <2>1, <2>2, <2>3 DEF ReaderTypeOK
<1>5. PinInv(r)'
  BY <1>1, <1>3 DEF headerVars, tableVars, ownerVars, ReaderInv, PinInv, Newest,
     AfterRead, EndCall
<1>6. CallInv(r)'
  <2>1. r \notin broken'
    BY <1>1 DEF ReaderInv, CallInv, AfterRead, EndCall
  <2>2. QED
    BY <1>2, <1>1, <1>3, <2>1 DEF ReaderTypeOK, CallTypeOK, ReaderInv, CallInv, Named,
       NoSnapshot, Ended
<1>7. SeqlockInv(r)'
  BY <1>2, <1>1, <1>3 DEF ReaderTypeOK, CallTypeOK, SeqlockInv, Ended
<1>8. EntryInv(r)'
  BY <1>2, <1>1, <1>3 DEF ReaderTypeOK, CallTypeOK, ringVars, EntryInv, Ended
<1>9. HeldInv(r)'
  BY <1>1, <1>3 DEF ReaderTypeOK, CallTypeOK, ReaderInv, HeldInv, NoSnapshot, AfterRead,
     EndCall
<1>10. QED
  BY <1>3, <1>4, <1>5, <1>6, <1>7, <1>8, <1>9 DEF GoodStep, ReaderInv

\* Memory freed under the decode is below the floor.
LEMMA DecodeStep == ASSUME IInv, NEW r \in Readers, Decode(r) PROVE GoodStep(r)
<1> USE DEF Decode, Load, Continue, callVars, holdVars
<1>1. OwnerTypeOK /\ ReaderTypeOK /\ ReaderInv(r)
  BY DEF IInv
<1>2. Frame(r)
  BY <1>1 DEF Frame, tableVars
<1>3. ReaderTypeOK'
  <2>1. TableTypeOK'
    BY <1>1, VersionAssumption DEF ReaderTypeOK, TableTypeOK, tableVars
  <2>2. CallTypeOK'
    BY <1>1 DEF ReaderTypeOK, CallTypeOK
  <2>3. HoldTypeOK'
    BY <1>1, VersionAssumption DEF ReaderTypeOK, HoldTypeOK, NoSnapshot
  <2>4. QED
    BY <2>1, <2>2, <2>3 DEF ReaderTypeOK
<1>4. PinInv(r)'
  BY <1>1, <1>2 DEF headerVars, tableVars, ownerVars, ReaderInv, PinInv, Newest
<1>5. CallInv(r)'
  <2>1. r \notin broken'
    BY <1>1 DEF ReaderInv, CallInv
  <2>2. r \in tainted' => want[r].version < floor
    <3>1. \A v \in freed : v < floor
      BY DEF IInv, FloorInv
    <3>2. want[r].version \in Int /\ floor \in Int /\ freed \subseteq Int
      BY <1>1 DEF OwnerTypeOK, ReaderTypeOK, CallTypeOK, Snapshots, Versions
    <3>3. r \in tainted => want[r].version < floor
      BY <1>1 DEF ReaderInv, CallInv
    <3>4. CASE \E v \in freed : v >= want[r].version
      <4>1. PICK v \in freed : v >= want[r].version
        BY <3>4
      <4>2. v \in Int /\ v < floor
        BY <3>1, <3>2
      <4>3. QED
        BY <4>1, <4>2, <3>2
    <3>5. CASE ~ \E v \in freed : v >= want[r].version
      <4>1. tainted' = tainted
        BY <3>5
      <4>2. QED
        BY <4>1, <3>3
    <3>6. QED
      BY <3>4, <3>5
  <2>3. /\ pc[r] = "decode" /\ pc'[r] = "revalidate"
        /\ UNCHANGED <<slotOf, attempt, want, floor, broken>>
    BY <1>1 DEF ReaderTypeOK, CallTypeOK, headerVars
  <2>4. QED
    BY <1>1, <2>1, <2>2, <2>3 DEF ReaderInv, CallInv, Named
<1>6. SeqlockInv(r)'
  BY <1>1, <1>2 DEF SeqlockInv
<1>7. EntryInv(r)'
  BY <1>1, <1>2 DEF ringVars, EntryInv
<1>8. HeldInv(r)'
  BY <1>1, <1>2 DEF ReaderInv, HeldInv, NoSnapshot
<1>9. QED
  BY <1>2, <1>3, <1>4, <1>5, <1>6, <1>7, <1>8 DEF GoodStep, ReaderInv

\* The second validation finds the floor raised if memory was freed.
LEMMA RevalidateStep == ASSUME IInv, NEW r \in Readers, Revalidate(r) PROVE GoodStep(r)
<1> USE DEF Revalidate, Load, Continue, callVars, holdVars
<1>1. OwnerTypeOK /\ ReaderTypeOK /\ ReaderInv(r)
  BY DEF IInv
<1>2. (AfterRead(r) => Ended(r))
  BY <1>1, AfterReadFacts DEF ReaderTypeOK
<1>3. Frame(r)
  BY <1>1 DEF ReaderTypeOK, CallTypeOK, Frame, tableVars, AfterRead, EndCall
<1>4. ReaderTypeOK'
  <2>1. TableTypeOK'
    BY <1>1, VersionAssumption DEF ReaderTypeOK, TableTypeOK, tableVars
  <2>2. CallTypeOK'
    BY <1>2, <1>1 DEF Ended
  <2>3. HoldTypeOK'
    BY <1>1, VersionAssumption DEF ReaderTypeOK, HoldTypeOK, NoSnapshot, AfterRead,
       EndCall
  <2>4. QED
    BY <2>1, <2>2, <2>3 DEF ReaderTypeOK
<1>5. PinInv(r)'
  BY <1>1, <1>3 DEF headerVars, tableVars, ownerVars, ReaderInv, PinInv, Newest,
     AfterRead, EndCall
<1>6. CallInv(r)'
  <2>1. r \notin broken'
    <3>1. want[r].version \in Int /\ floor \in Int
      BY <1>1 DEF OwnerTypeOK, ReaderTypeOK, CallTypeOK, Snapshots
    <3>2. r \in tainted => want[r].version < floor
      BY <1>1 DEF ReaderInv, CallInv
    <3>3. r \notin broken
      BY <1>1 DEF ReaderInv, CallInv
    <3>4. QED
      BY <3>1, <3>2, <3>3
  <2>2. QED
    BY <1>2, <1>1, <1>3, <2>1 DEF ReaderInv, CallInv, Named, NoSnapshot, Ended
<1>7. SeqlockInv(r)'
  BY <1>2, <1>1, <1>3 DEF SeqlockInv, Ended
<1>8. EntryInv(r)'
  BY <1>2, <1>1, <1>3 DEF ringVars, EntryInv, Ended
<1>9. HeldInv(r)'
  BY <1>1, <1>3 DEF ReaderTypeOK, CallTypeOK, ReaderInv, HeldInv, NoSnapshot, AfterRead,
     EndCall
<1>10. QED
  BY <1>3, <1>4, <1>5, <1>6, <1>7, <1>8, <1>9 DEF GoodStep, ReaderInv

\* A release gives up the promises of the slot.
LEMMA ReleaseCurrentStep ==
  ASSUME IInv, NEW r \in Readers, ReleaseCurrent(r)
  PROVE  GoodStep(r)
<1> USE DEF ReleaseCurrent, StoreEpoch, callVars, holdVars
<1>1. OwnerTypeOK /\ ReaderTypeOK /\ ReaderInv(r)
  BY DEF IInv
<1>2. Frame(r)
  BY <1>1 DEF Frame
<1>3. ReaderTypeOK'
  <2>1. TableTypeOK'
    <3>1. 0 \in 0..MaxVersion
      BY VersionAssumption
    <3>2. StoreEpoch(r, 0)
      OBVIOUS
    <3>3. /\ claimed' \subseteq Slots
          /\ epoch' \in [Slots -> 0..MaxVersion]
          /\ secured' \subseteq Readers
      BY <1>1, <3>1, <3>2, StoreEpochFacts DEF ReaderTypeOK
    <3>4. QED
      BY <1>1, <3>3 DEF ReaderTypeOK, TableTypeOK
  <2>2. CallTypeOK'
    BY <1>1 DEF ReaderTypeOK, CallTypeOK
  <2>3. HoldTypeOK'
    BY <1>1, VersionAssumption DEF ReaderTypeOK, HoldTypeOK, Snapshots, NoSnapshot
  <2>4. QED
    BY <2>1, <2>2, <2>3 DEF ReaderTypeOK
<1>4. PinInv(r)'
  BY <1>1, <1>2 DEF ownerVars, PinInv, Newest
<1>5. CallInv(r)'
  <2>1. r \notin broken'
    BY <1>1 DEF ReaderInv, CallInv
  <2>2. QED
    BY <1>1, <1>2, <2>1 DEF ReaderInv, CallInv, Named, NoSnapshot
<1>6. SeqlockInv(r)'
  BY <1>1, <1>2 DEF SeqlockInv
<1>7. EntryInv(r)'
  BY <1>1, <1>2 DEF ringVars, EntryInv
<1>8. HeldInv(r)'
  BY <1>1, <1>2 DEF ReaderInv, HeldInv, NoSnapshot
<1>9. QED
  BY <1>2, <1>3, <1>4, <1>5, <1>6, <1>7, <1>8 DEF GoodStep, ReaderInv

\* A snapshot with no pin of its own is only forgotten.
LEMMA ReleaseOtherStep ==
  ASSUME IInv, NEW r \in Readers, ReleaseOther(r)
  PROVE  GoodStep(r)
<1> USE DEF ReleaseOther, Call, callVars, holdVars
<1>1. OwnerTypeOK /\ ReaderTypeOK /\ ReaderInv(r)
  BY DEF IInv
<1>2. Frame(r)
  BY <1>1 DEF ReaderTypeOK, CallTypeOK, Frame, tableVars
<1>3. ReaderTypeOK'
  <2>1. TableTypeOK'
    BY <1>1, VersionAssumption DEF ReaderTypeOK, TableTypeOK, tableVars
  <2>2. CallTypeOK'
    BY <1>1 DEF ReaderTypeOK, CallTypeOK
  <2>3. HoldTypeOK'
    BY <1>1, VersionAssumption DEF ReaderTypeOK, HoldTypeOK, Snapshots, NoSnapshot
  <2>4. QED
    BY <2>1, <2>2, <2>3 DEF ReaderTypeOK
<1>4. PinInv(r)'
  BY <1>1, <1>2 DEF headerVars, tableVars, ownerVars, ReaderInv, PinInv, Newest
<1>5. CallInv(r)'
  <2>1. r \notin broken'
    BY <1>1 DEF ReaderInv, CallInv
  <2>2. QED
    BY <1>1, <1>2, <2>1 DEF ReaderTypeOK, CallTypeOK, ReaderInv, CallInv, Named,
       NoSnapshot
<1>6. SeqlockInv(r)'
  BY <1>1, <1>2 DEF ReaderTypeOK, CallTypeOK, SeqlockInv
<1>7. EntryInv(r)'
  BY <1>1, <1>2 DEF ReaderTypeOK, CallTypeOK, ringVars, EntryInv
<1>8. HeldInv(r)'
  BY <1>1, <1>2 DEF ReaderTypeOK, CallTypeOK, ReaderInv, HeldInv, NoSnapshot
<1>9. QED
  BY <1>2, <1>3, <1>4, <1>5, <1>6, <1>7, <1>8 DEF GoodStep, ReaderInv

\* acquire out of attempts unpins before it looks at what it held.
LEMMA GiveUpStep == ASSUME IInv, NEW r \in Readers, GiveUp(r) PROVE GoodStep(r)
<1> USE DEF GiveUp, StoreEpoch, Continue, callVars, holdVars
<1>1. OwnerTypeOK /\ ReaderTypeOK /\ ReaderInv(r)
  BY DEF IInv
<1>2. Frame(r)
  BY <1>1 DEF Frame
<1>3. ReaderTypeOK'
  <2>1. TableTypeOK'
    <3>1. 0 \in 0..MaxVersion
      BY VersionAssumption
    <3>2. StoreEpoch(r, 0)
      OBVIOUS
    <3>3. /\ claimed' \subseteq Slots
          /\ epoch' \in [Slots -> 0..MaxVersion]
          /\ secured' \subseteq Readers
      BY <1>1, <3>1, <3>2, StoreEpochFacts DEF ReaderTypeOK
    <3>4. QED
      BY <1>1, <3>3 DEF ReaderTypeOK, TableTypeOK
  <2>2. CallTypeOK'
    BY <1>1 DEF ReaderTypeOK, CallTypeOK
  <2>3. HoldTypeOK'
    BY <1>1, VersionAssumption DEF ReaderTypeOK, HoldTypeOK, NoSnapshot
  <2>4. QED
    BY <2>1, <2>2, <2>3 DEF ReaderTypeOK
<1>4. PinInv(r)'
  BY <1>1, <1>2 DEF ownerVars, PinInv, Newest
<1>5. CallInv(r)'
  <2>1. r \notin broken'
    BY <1>1 DEF ReaderInv, CallInv
  <2>2. QED
    BY <1>1, <1>2, <2>1 DEF ReaderInv, CallInv, Named, NoSnapshot
<1>6. SeqlockInv(r)'
  BY <1>1, <1>2 DEF SeqlockInv
<1>7. EntryInv(r)'
  BY <1>1, <1>2 DEF ringVars, EntryInv
<1>8. HeldInv(r)'
  BY <1>1, <1>2 DEF ReaderInv, HeldInv, NoSnapshot
<1>9. QED
  BY <1>2, <1>3, <1>4, <1>5, <1>6, <1>7, <1>8 DEF GoodStep, ReaderInv

\* What was held is pinned again, or nothing is.
LEMMA CheckHeldStep == ASSUME IInv, NEW r \in Readers, CheckHeld(r) PROVE GoodStep(r)
<1> USE DEF CheckHeld, Load, Continue, callVars, holdVars
<1>1. OwnerTypeOK /\ ReaderTypeOK /\ ReaderInv(r)
  BY DEF IInv
<1>2. Frame(r)
  BY <1>1 DEF Frame, tableVars
<1>3. ReaderTypeOK'
  <2>1. TableTypeOK'
    BY <1>1, VersionAssumption DEF ReaderTypeOK, TableTypeOK, tableVars
  <2>2. CallTypeOK'
    BY <1>1 DEF ReaderTypeOK, CallTypeOK
  <2>3. HoldTypeOK'
    BY <1>1, VersionAssumption DEF ReaderTypeOK, HoldTypeOK, NoSnapshot
  <2>4. QED
    BY <2>1, <2>2, <2>3 DEF ReaderTypeOK
<1>4. PinInv(r)'
  BY <1>1, <1>2 DEF headerVars, tableVars, ownerVars, ReaderInv, PinInv, Newest
<1>5. CallInv(r)'
  <2>1. r \notin broken'
    BY <1>1 DEF ReaderInv, CallInv
  <2>2. QED
    BY <1>1, <1>2, <2>1 DEF ReaderInv, CallInv, Named, NoSnapshot
<1>6. SeqlockInv(r)'
  BY <1>1, <1>2 DEF SeqlockInv
<1>7. EntryInv(r)'
  BY <1>1, <1>2 DEF ringVars, EntryInv
<1>8. HeldInv(r)'
  BY <1>1, <1>2 DEF ReaderInv, HeldInv, NoSnapshot
<1>9. QED
  BY <1>2, <1>3, <1>4, <1>5, <1>6, <1>7, <1>8 DEF GoodStep, ReaderInv

\* A pin that is restored promises nothing: the floor is not checked behind it.
LEMMA RepinStep == ASSUME IInv, NEW r \in Readers, Repin(r) PROVE GoodStep(r)
<1> USE DEF Repin, StoreEpoch, callVars, holdVars
<1>1. OwnerTypeOK /\ ReaderTypeOK /\ ReaderInv(r)
  BY DEF IInv
<1>2. (EndCall(r) => Ended(r))
  BY <1>1, EndCallFacts DEF ReaderTypeOK
<1>3. Frame(r)
  BY <1>1 DEF Frame, EndCall
<1>4. ReaderTypeOK'
  <2>1. TableTypeOK'
    BY <1>1, VersionAssumption DEF ReaderTypeOK, TableTypeOK, HoldTypeOK, Snapshots
  <2>2. CallTypeOK'
    BY <1>2, <1>1 DEF Ended
  <2>3. HoldTypeOK'
    BY <1>1, VersionAssumption DEF ReaderTypeOK, HoldTypeOK, NoSnapshot, EndCall
  <2>4. QED
    BY <2>1, <2>2, <2>3 DEF ReaderTypeOK
<1>5. PinInv(r)'
  BY <1>1, <1>3 DEF ownerVars, PinInv, Newest, EndCall
<1>6. CallInv(r)'
  <2>1. r \notin broken'
    BY <1>1 DEF ReaderInv, CallInv, EndCall
  <2>2. QED
    BY <1>2, <1>1, <1>3, <2>1 DEF ReaderInv, CallInv, Named, NoSnapshot, Ended
<1>7. SeqlockInv(r)'
  BY <1>2, <1>1, <1>3 DEF SeqlockInv, Ended
<1>8. EntryInv(r)'
  BY <1>2, <1>1, <1>3 DEF ringVars, EntryInv, Ended
<1>9. HeldInv(r)'
  BY <1>1, <1>3 DEF ReaderInv, HeldInv, NoSnapshot, EndCall
<1>10. QED
  BY <1>3, <1>4, <1>5, <1>6, <1>7, <1>8, <1>9 DEF GoodStep, ReaderInv

\* An unpinned slot promises nothing.
LEMMA UnpinStep == ASSUME IInv, NEW r \in Readers, Unpin(r) PROVE GoodStep(r)
<1> USE DEF Unpin, StoreEpoch, callVars, holdVars
<1>1. OwnerTypeOK /\ ReaderTypeOK /\ ReaderInv(r)
  BY DEF IInv
<1>2. (EndCall(r) => Ended(r))
  BY <1>1, EndCallFacts DEF ReaderTypeOK
<1>3. Frame(r)
  BY <1>1 DEF Frame, EndCall
<1>4. ReaderTypeOK'
  <2>1. TableTypeOK'
    <3>1. 0 \in 0..MaxVersion
      BY VersionAssumption
    <3>2. StoreEpoch(r, 0)
      OBVIOUS
    <3>3. /\ claimed' \subseteq Slots
          /\ epoch' \in [Slots -> 0..MaxVersion]
          /\ secured' \subseteq Readers
      BY <1>1, <3>1, <3>2, StoreEpochFacts DEF ReaderTypeOK
    <3>4. QED
      BY <1>1, <3>3 DEF ReaderTypeOK, TableTypeOK
  <2>2. CallTypeOK'
    BY <1>2, <1>1 DEF Ended
  <2>3. HoldTypeOK'
    BY <1>1, VersionAssumption DEF ReaderTypeOK, HoldTypeOK, NoSnapshot, EndCall
  <2>4. QED
    BY <2>1, <2>2, <2>3 DEF ReaderTypeOK
<1>5. PinInv(r)'
  BY <1>1, <1>3 DEF ownerVars, PinInv, Newest, EndCall
<1>6. CallInv(r)'
  <2>1. r \notin broken'
    BY <1>1 DEF ReaderInv, CallInv, EndCall
  <2>2. QED
    BY <1>2, <1>1, <1>3, <2>1 DEF ReaderInv, CallInv, Named, NoSnapshot, Ended
<1>7. SeqlockInv(r)'
  BY <1>2, <1>1, <1>3 DEF SeqlockInv, Ended
<1>8. EntryInv(r)'
  BY <1>2, <1>1, <1>3 DEF ringVars, EntryInv, Ended
<1>9. HeldInv(r)'
  BY <1>1, <1>3 DEF ReaderInv, HeldInv, NoSnapshot, EndCall
<1>10. QED
  BY <1>3, <1>4, <1>5, <1>6, <1>7, <1>8, <1>9 DEF GoodStep, ReaderInv

-----------------------------------------------------------------------------
(* Every step *)

\* What the step of one reader keeps of another's invariant.
LEMMA OthersKeep ==
  ASSUME IInv, NEW r \in Readers, Frame(r), NEW q \in Readers \ {r}
  PROVE  ReaderInv(q)'
<1> USE DEF Frame, headerVars, ownerVars, ringVars
<1>1. ReaderInv(q) /\ OwnerTypeOK /\ ReaderTypeOK
  BY DEF IInv
<1>2. PinInv(q)'
  <2> SUFFICES ASSUME q \in secured' PROVE PinInv(q)'
    BY DEF PinInv
  <2>1. q \in secured /\ slotOf[q] \in claimed
    BY <1>1 DEF ReaderInv, PinInv
  <2>2. /\ slotOf'[q] = slotOf[q] /\ slotOf[q] \in claimed'
        /\ epoch'[slotOf[q]] = epoch[slotOf[q]]
    BY <2>1
  <2>3. QED
    BY <1>1, <2>1, <2>2 DEF ReaderInv, PinInv, Newest
<1>3. CallInv(q)'
  BY <1>1 DEF ReaderInv, CallInv
<1>4. SeqlockInv(q)'
  BY <1>1 DEF ReaderInv, SeqlockInv
<1>5. EntryInv(q)'
  BY <1>1 DEF ReaderInv, EntryInv
<1>6. HeldInv(q)'
  BY <1>1 DEF ReaderInv, HeldInv
<1>7. QED
  BY <1>2, <1>3, <1>4, <1>5, <1>6 DEF ReaderInv

\* A good step of any reader keeps the whole invariant.
LEMMA GoodStepInv == ASSUME IInv, NEW r \in Readers, GoodStep(r) PROVE IInv'
<1>1. UNCHANGED <<headerVars, ownerVars>> /\ Frame(r) /\ ReaderTypeOK'
  BY DEF GoodStep, Frame
<1>2. OwnerTypeOK'
  BY <1>1 DEF IInv, OwnerTypeOK, headerVars, ownerVars, ringVars
<1>3. HeaderInv' /\ FloorInv' /\ GarbageInv'
  BY <1>1 DEF IInv, HeaderInv, FloorInv, GarbageInv, Evicted, Newest, headerVars,
     ownerVars
<1>4. ASSUME NEW i \in 0..Capacity-1 PROVE RingInv(i)'
  BY <1>1, <1>4 DEF IInv, RingInv, Entered, headerVars, ownerVars, ringVars
<1>5. ASSUME NEW q \in Readers PROVE ReaderInv(q)'
  <2>1. CASE q = r
    BY <2>1 DEF GoodStep
  <2>2. CASE q # r
    BY <1>1, <1>5, <2>2, OthersKeep
  <2>3. QED
    BY <2>1, <2>2
<1>6. QED
  BY <1>1, <1>2, <1>3, <1>4, <1>5 DEF IInv

\* Every step of a reader is a good one.
LEMMA ReaderStep == ASSUME NEW r \in Readers, IInv, Reader(r) PROVE GoodStep(r)
<1>1. CASE Attach(r)
  BY <1>1, AttachStep
<1>2. CASE Detach(r)
  BY <1>2, DetachStep
<1>3. CASE Acquire(r)
  BY <1>3, AcquireStep
<1>4. CASE LoadSeq(r)
  BY <1>4, LoadSeqStep
<1>5. CASE LoadRoot(r)
  BY <1>5, LoadRootStep
<1>6. CASE LoadVersion(r)
  BY <1>6, LoadVersionStep
<1>7. CASE CheckSeq(r)
  BY <1>7, CheckSeqStep
<1>8. CASE OpenVersion(r)
  BY <1>8, OpenVersionStep
<1>9. CASE LoadEntry(r)
  BY <1>9, LoadEntryStep
<1>10. CASE LoadEntryRoot(r)
  BY <1>10, LoadEntryRootStep
<1>11. CASE WasLiveVersion(r)
  BY <1>11, WasLiveVersionStep
<1>12. CASE WasLive(r)
  BY <1>12, WasLiveStep
<1>13. CASE Pin(r)
  BY <1>13, PinStep
<1>14. CASE CheckFloor(r)
  BY <1>14, CheckFloorStep
<1>15. CASE IsLiveVersion(r)
  BY <1>15, IsLiveVersionStep
<1>16. CASE IsLive(r)
  BY <1>16, IsLiveStep
<1>17. CASE Read(r)
  BY <1>17, ReadStep
<1>18. CASE Validate(r)
  BY <1>18, ValidateStep
<1>19. CASE Decode(r)
  BY <1>19, DecodeStep
<1>20. CASE Revalidate(r)
  BY <1>20, RevalidateStep
<1>21. CASE ReleaseCurrent(r)
  BY <1>21, ReleaseCurrentStep
<1>22. CASE ReleaseOther(r)
  BY <1>22, ReleaseOtherStep
<1>23. CASE GiveUp(r)
  BY <1>23, GiveUpStep
<1>24. CASE CheckHeld(r)
  BY <1>24, CheckHeldStep
<1>25. CASE Repin(r)
  BY <1>25, RepinStep
<1>26. CASE Unpin(r)
  BY <1>26, UnpinStep
<1>27. QED
  BY <1>1, <1>2, <1>3, <1>4, <1>5, <1>6, <1>7, <1>8, <1>9, <1>10, <1>11, <1>12,
     <1>13, <1>14, <1>15, <1>16, <1>17, <1>18, <1>19, <1>20, <1>21, <1>22, <1>23,
     <1>24, <1>25, <1>26 DEF Reader

\* Every step of the owner keeps the invariant.
LEMMA OwnerStep == IInv /\ Owner => IInv'
<1> SUFFICES ASSUME IInv, Owner PROVE IInv'
  OBVIOUS
<1>1. CASE BeginInstall
  BY <1>1, BeginInstallInv
<1>2. CASE FreeOldest
  BY <1>2, FreeOldestInv
<1>3. CASE RetireEntry
  BY <1>3, RetireEntryInv
<1>4. CASE StoreOdd
  BY <1>4, StoreOddInv
<1>5. CASE StoreRingEmpty
  BY <1>5, StoreRingEmptyInv
<1>6. CASE StoreRingRoot
  BY <1>6, StoreRingRootInv
<1>7. CASE StoreRingVersion
  BY <1>7, StoreRingVersionInv
<1>8. CASE StoreRingLive
  BY <1>8, StoreRingLiveInv
<1>9. CASE StoreRoot
  BY <1>9, StoreRootInv
<1>10. CASE StoreVersion
  BY <1>10, StoreVersionInv
<1>11. CASE StoreEven
  BY <1>11, StoreEvenInv
<1>12. CASE BeginReclaim
  BY <1>12, BeginReclaimInv
<1>13. CASE Scan
  BY <1>13, ScanInv
<1>14. CASE RaiseFloor
  BY <1>14, RaiseFloorInv
<1>15. CASE BeginFree
  BY <1>15, BeginFreeInv
<1>16. CASE EndReclaim
  BY <1>16, EndReclaimInv
<1>17. QED
  BY <1>1, <1>2, <1>3, <1>4, <1>5, <1>6, <1>7, <1>8, <1>9, <1>10, <1>11, <1>12,
     <1>13, <1>14, <1>15, <1>16
  DEF Owner, Publish, Reclaim

\* So does a step that changes nothing.
LEMMA StutterInv == IInv /\ UNCHANGED vars => IInv'
<1> SUFFICES ASSUME IInv, UNCHANGED vars PROVE IInv'
  OBVIOUS
<1> USE DEF vars, headerVars, ringVars, tableVars, ownerVars, readerVars, callVars,
        holdVars
<1>1. OwnerTypeOK' /\ ReaderTypeOK'
  BY DEF IInv, OwnerTypeOK, ReaderTypeOK, TableTypeOK, CallTypeOK, HoldTypeOK
<1>2. HeaderInv' /\ FloorInv' /\ GarbageInv'
  BY DEF IInv, HeaderInv, FloorInv, GarbageInv, Evicted, Newest
<1>3. ASSUME NEW i \in 0..Capacity-1 PROVE RingInv(i)'
  BY <1>3 DEF IInv, RingInv, Entered
<1>4. ASSUME NEW r \in Readers PROVE ReaderInv(r)'
  <2>1. ReaderInv(r)
    BY DEF IInv
  <2>2. PinInv(r)' /\ CallInv(r)'
    BY <2>1 DEF ReaderInv, PinInv, CallInv, Newest
  <2>3. SeqlockInv(r)' /\ EntryInv(r)' /\ HeldInv(r)'
    BY <2>1 DEF ReaderInv, SeqlockInv, EntryInv, HeldInv
  <2>4. QED
    BY <2>2, <2>3 DEF ReaderInv
<1>5. QED
  BY <1>1, <1>2, <1>3, <1>4 DEF IInv

\* Every step keeps the invariant.
LEMMA NextInv == IInv /\ [Next]_vars => IInv'
<1> SUFFICES ASSUME IInv, [Next]_vars PROVE IInv'
  OBVIOUS
<1>1. CASE Owner
  BY <1>1, OwnerStep
<1>2. CASE \E r \in Readers : Reader(r)
  BY <1>2, ReaderStep, GoodStepInv
<1>3. CASE UNCHANGED vars
  BY <1>3, StutterInv
<1>4. QED
  BY <1>1, <1>2, <1>3 DEF Next

\* The invariant holds in every reachable state.
THEOREM Invariance == Spec => []IInv
<1>1. Init => IInv
  BY InitInv
<1>2. IInv /\ [Next]_vars => IInv'
  BY NextInv
<1>3. QED
  BY <1>1, <1>2, PTL DEF Spec

-----------------------------------------------------------------------------
(* What follows from it *)

\* Every variable keeps its type, for any number of readers, slots, entries and
\* versions; in particular acquire never makes more than MaxSpin attempts.
THEOREM TypeCorrect == Spec => []TypeOK
<1>1. IInv => TypeOK
  BY DEF IInv, TypeOK
<1>2. QED
  BY <1>1, Invariance, PTL

\* No eager read returns a value decoded out of memory the owner had freed.
THEOREM IntactReads == Spec => []ReadsAreIntact
<1>1. IInv => ReadsAreIntact
  BY DEF IInv, ReaderTypeOK, HoldTypeOK, ReaderInv, CallInv, ReadsAreIntact
<1>2. QED
  BY <1>1, Invariance, PTL

\* What a reader pinned, and checked the floor behind, is freed only when the
\* ring has no room left for it, whatever reclaim is under way.
THEOREM PinnedIsSpared == Spec => []ReclaimSparesPinned
<1>1. IInv => ReclaimSparesPinned
  BY DEF IInv, ReaderTypeOK, TableTypeOK, ReaderInv, PinInv, ReclaimSparesPinned
<1>2. QED
  BY <1>1, Invariance, PTL

\* A snapshot's root and version belong together, from the header or the ring.
THEOREM WholeSnapshots == Spec => []SnapshotsAreWhole
<1>1. ASSUME IInv PROVE SnapshotsAreWhole
  <2>1. ASSUME NEW r \in Readers PROVE HoldsWhole(r)
    <3>1. HeldInv(r)
      BY <1>1 DEF IInv, ReaderInv
    <3>2. QED
      BY <3>1 DEF HeldInv, HoldsWhole
  <2>2. QED
    BY <2>1, Zenon DEF SnapshotsAreWhole
<1>2. QED
  BY <1>1, Invariance, PTL

\* The garbage that waits is never older than the ring, but for one version.
THEOREM BoundedRetention == Spec => []RetentionIsBounded
<1>1. IInv => RetentionIsBounded
  BY DEF IInv, GarbageInv, RetentionIsBounded
<1>2. QED
  BY <1>1, Invariance, PTL

-----------------------------------------------------------------------------
(* What was published: it is freed once, and held by nobody before *)

\* The floor stays below what has a place in the ring, and garbage is freed
\* once, after the version that replaced it was published.
OnceInv ==
  /\ floor <= Newest
  /\ \A v \in garbage \cup freed :
       v < version /\ (ownerPc = "even" => v < version - 1)
  /\ garbage \cap freed = {}

\* Where a call has seen its version in the header or in the ring.
Seen == {"reseq", "entryRoot", "wasLiveVersion", "wasLive", "pin", "floor",
         "liveVersion", "live"}

\* Nobody holds a version that is not there yet, and acquire has one in its
\* hands that is no older than the snapshot it will replace.
ForwardInv(r) ==
  /\ cur[r].version <= version
  /\ pc[r] = "entry" => op[r] # "acquire"
  /\ pc[r] \in Seen => want[r].version <= Entered
  /\ op[r] = "acquire" /\ pc[r] \in Seen =>
       cur[r].version <= want[r].version /\ want[r].version <= version

PathInv == OnceInv /\ \A r \in Readers : ForwardInv(r)

\* The owner's bounds are integers, and what has a place in the ring is at most
\* one version ahead of the header.
LEMMA NewestFacts ==
  ASSUME OwnerTypeOK
  PROVE  /\ version \in Nat \ {0} /\ floor \in Nat /\ Newest \in Nat /\ Entered \in Nat
         /\ version <= Entered /\ Entered <= Newest /\ Newest <= version + 1
BY VersionAssumption DEF OwnerTypeOK, Versions, Newest, Entered, Publishing

\* It holds initially.
LEMMA PathInit == Init => PathInv
BY CapacityAssumption, DepthAssumption DEF Init, PathInv, OnceInv, ForwardInv, Seen,
   Newest, Entered, Publishing, NoSnapshot, Greater

\* An owner step never takes a version back.
LEMMA OwnerGrows ==
  ASSUME IInv, Owner
  PROVE  /\ version' \in Nat /\ version' >= version
         /\ Entered' \in Nat /\ Entered' >= Entered
<1>1. version \in Nat
  BY NewestFacts DEF IInv
<1>2. QED
  BY <1>1 DEF Entered, Owner, Publish, Reclaim, BeginInstall, FreeOldest, RetireEntry,
     Store, StoreOdd, StoreRingEmpty, StoreRingRoot, StoreRingVersion, StoreRingLive,
     StoreRoot, StoreVersion, StoreEven, BeginReclaim, Scan, RaiseFloor, BeginFree,
     EndReclaim, headerVars, ringVars

\* The owner frees what it has not freed, and keeps the floor within the ring.
LEMMA OwnerOnce == IInv /\ OnceInv /\ Owner => OnceInv'
<1> SUFFICES ASSUME IInv, OnceInv, Owner PROVE OnceInv'
  OBVIOUS
<1> USE CapacityAssumption, DepthAssumption DEF headerVars, ringVars, OnceInv
<1>1. /\ version \in Nat \ {0} /\ floor \in Nat /\ Newest \in Nat /\ scanMin \in Int
      /\ garbage \subseteq Nat /\ freed \subseteq Nat
  <2>1. version \in Nat \ {0} /\ floor \in Nat /\ Newest \in Nat
    BY NewestFacts DEF IInv
  <2>2. scanMin \in Int /\ garbage \subseteq Nat /\ freed \subseteq Nat
    BY DEF IInv, OwnerTypeOK, Versions
  <2>3. QED
    BY <2>1, <2>2
<1>2. CASE BeginInstall
  BY <1>1, <1>2 DEF BeginInstall, Newest, Publishing, Evicted, Greater
<1>3. CASE FreeOldest
  BY <1>1, <1>3 DEF FreeOldest, Newest
<1>4. CASE StoreVersion
  BY <1>1, <1>4 DEF StoreVersion, Store, Newest, Publishing
<1>5. CASE StoreEven
  BY <1>1, <1>5 DEF StoreEven, Store, Newest, Publishing
<1>6. CASE RaiseFloor
  BY <1>1, <1>6 DEF RaiseFloor, Newest, Publishing, Greater, Lesser
<1>7. CASE \/ StoreOdd \/ StoreRingEmpty \/ StoreRingRoot \/ StoreRingVersion
           \/ StoreRingLive \/ StoreRoot
  BY <1>1, <1>7 DEF StoreOdd, StoreRingEmpty, StoreRingRoot, StoreRingVersion,
     StoreRingLive, StoreRoot, Store, Newest, Publishing
<1>8. CASE RetireEntry \/ BeginReclaim \/ Scan \/ BeginFree \/ EndReclaim
  BY <1>1, <1>8 DEF RetireEntry, BeginReclaim, Scan, BeginFree, EndReclaim, Newest,
     Publishing
<1>9. QED
  BY <1>2, <1>3, <1>4, <1>5, <1>6, <1>7, <1>8 DEF Owner, Publish, Reclaim

\* A version that was there stays there.
LEMMA OwnerForward == IInv /\ PathInv /\ Owner => PathInv'
<1> SUFFICES ASSUME IInv, PathInv, Owner PROVE PathInv'
  OBVIOUS
<1>1. OnceInv'
  BY OwnerOnce DEF PathInv
<1>2. ASSUME NEW r \in Readers PROVE ForwardInv(r)'
  <2>1. /\ version' \in Nat /\ version' >= version
        /\ Entered' \in Nat /\ Entered' >= Entered
    BY OwnerGrows
  <2>2. UNCHANGED <<pc, op, want, cur>>
    BY OwnerFrame DEF readerVars, callVars, holdVars
  <2>3. version \in Nat /\ Entered \in Nat /\ want[r].version \in Nat
        /\ cur[r].version \in Nat
    BY NewestFacts DEF IInv, ReaderTypeOK, CallTypeOK, HoldTypeOK, Snapshots
  <2>4. ForwardInv(r)
    BY <1>2 DEF PathInv
  <2>5. QED
    BY <2>1, <2>2, <2>3, <2>4 DEF ForwardInv
<1>3. QED
  BY <1>1, <1>2 DEF PathInv

\* A call that ends, is retried or gives up asks for nothing.
LEMMA CallEnds ==
  ASSUME NEW r \in Readers, CallTypeOK,
         EndCall(r) \/ Retry(r) \/ Gone(r) \/ AfterRead(r)
  PROVE  pc'[r] \notin Seen \cup {"entry"}
BY DEF EndCall, Retry, Gone, AfterRead, Continue, CallTypeOK, Seen

\* No reader's step loses track of the version it works on.
LEMMA ReaderForward ==
  ASSUME IInv, PathInv, NEW r \in Readers, Reader(r) PROVE PathInv'
<1> USE DEF headerVars, ownerVars, ringVars
<1>1. Frame(r) /\ ReaderTypeOK'
  BY ReaderStep DEF GoodStep
<1>2. UNCHANGED <<headerVars, ownerVars>> /\ UNCHANGED Newest /\ UNCHANGED Entered
  BY <1>1 DEF Frame, Newest, Entered
<1>3. /\ ReaderTypeOK /\ CallTypeOK /\ HoldTypeOK /\ ForwardInv(r)
      /\ version \in Nat \ {0} /\ Entered \in Nat /\ version <= Entered
  BY NewestFacts DEF IInv, PathInv, ReaderTypeOK
<1>4. OnceInv'
  BY <1>2 DEF PathInv, OnceInv
<1>5. ForwardInv(r)'
  <2> USE DEF Load, Call, Continue, callVars, holdVars, tableVars
  <2>1. cur[r].version \in Nat /\ want[r].version \in Nat
    BY <1>3 DEF CallTypeOK, HoldTypeOK, Snapshots
  <2>2. EndCall(r) \/ Retry(r) \/ Gone(r) \/ AfterRead(r) =>
          pc'[r] \notin Seen \cup {"entry"}
    BY <1>3, CallEnds
  <2>3. /\ pc'[r] \notin Seen /\ (pc'[r] = "entry" => op'[r] # "acquire")
        /\ cur'[r] \in {cur[r], NoSnapshot}
        => ForwardInv(r)'
    BY <1>2, <1>3 DEF ForwardInv, NoSnapshot
  <2>4. /\ pc[r] \in Seen /\ pc'[r] # "entry" /\ want'[r].version = want[r].version
        /\ op'[r] = op[r] /\ cur'[r] = cur[r]
        => ForwardInv(r)'
    BY <1>2, <1>3 DEF ForwardInv
  <2>5. CASE Attach(r) \/ Detach(r) \/ Acquire(r) \/ OpenVersion(r) \/ Read(r)
    BY <1>3, <2>3, <2>5 DEF Attach, Detach, Acquire, OpenVersion, Read, CallTypeOK,
       HoldTypeOK, Seen
  <2>6. CASE LoadSeq(r) \/ LoadRoot(r) \/ Validate(r) \/ Decode(r) \/ Revalidate(r)
    BY <1>3, <2>2, <2>3, <2>6 DEF LoadSeq, LoadRoot, Validate, Decode, Revalidate, Retry,
       CallTypeOK, Seen
  <2>7. CASE \/ ReleaseCurrent(r) \/ ReleaseOther(r) \/ GiveUp(r) \/ CheckHeld(r)
             \/ Repin(r) \/ Unpin(r)
    BY <1>3, <2>2, <2>3, <2>7 DEF ReleaseCurrent, ReleaseOther, GiveUp, CheckHeld, Repin,
       Unpin, CallTypeOK, HoldTypeOK, Seen
  <2>8. CASE LoadVersion(r)
    BY <1>2, <1>3, <2>1, <2>8 DEF LoadVersion, CallTypeOK, ForwardInv, Seen
  <2>9. CASE LoadEntry(r)
    <3>1. CASE EndCall(r)
      BY <2>2, <2>3, <2>9, <3>1 DEF LoadEntry
    <3>2. CASE ~EndCall(r)
      <4>1. /\ ringVersion[Index(want[r].version)] = want[r].version
            /\ UNCHANGED <<want, cur, op>>
        BY <2>9, <3>2 DEF LoadEntry
      <4>2. want[r].version >= 1 /\ op[r] # "acquire"
        BY <1>3, <2>9 DEF LoadEntry, ForwardInv, IInv, ReaderInv, CallInv, Named
      <4>3. want[r].version <= Entered
        BY <2>1, <4>1, <4>2, IndexFacts DEF IInv, RingInv
      <4>4. QED
        BY <1>2, <1>3, <4>1, <4>2, <4>3 DEF ForwardInv
    <3>3. QED
      BY <3>1, <3>2
  <2>10. CASE \/ CheckSeq(r) \/ LoadEntryRoot(r) \/ WasLiveVersion(r) \/ WasLive(r)
              \/ Pin(r) \/ CheckFloor(r) \/ IsLiveVersion(r)
    <3>1. pc[r] \in Seen
      BY <2>10 DEF CheckSeq, LoadEntryRoot, WasLiveVersion, WasLive, Pin, CheckFloor,
         IsLiveVersion, Seen
    <3>2. UNCHANGED cur
      BY <2>10 DEF CheckSeq, LoadEntryRoot, WasLiveVersion, WasLive, Pin, CheckFloor,
         IsLiveVersion, EndCall, Retry, Gone
    <3>3. \/ EndCall(r) \/ Retry(r) \/ Gone(r)
          \/ pc'[r] # "entry" /\ want'[r].version = want[r].version /\ op' = op
      BY <1>3, <2>10 DEF CheckSeq, LoadEntryRoot, WasLiveVersion, WasLive, Pin,
         CheckFloor, IsLiveVersion, CallTypeOK, Snapshots
    <3>4. QED
      BY <2>2, <2>3, <2>4, <3>1, <3>2, <3>3
  <2>11. CASE IsLive(r)
    <3>1. pc[r] \in Seen
      BY <2>11 DEF IsLive, Seen
    <3>2. \/ pc'[r] \notin Seen \cup {"entry"} /\ cur' = cur
          \/ pc'[r] \notin Seen \cup {"entry"} /\ op[r] = "acquire" /\ cur'[r] = want[r]
      BY <1>3, <2>2, <2>11 DEF IsLive, Gone, Retry, CallTypeOK, HoldTypeOK, Seen
    <3>3. QED
      BY <1>2, <1>3, <2>1, <2>3, <3>1, <3>2 DEF ForwardInv
  <2>12. QED
    BY <2>5, <2>6, <2>7, <2>8, <2>9, <2>10, <2>11 DEF Reader
<1>6. ASSUME NEW q \in Readers PROVE ForwardInv(q)'
  <2>1. CASE q = r
    BY <1>5, <2>1
  <2>2. CASE q # r
    <3>1. /\ pc'[q] = pc[q] /\ op'[q] = op[q] /\ want'[q] = want[q] /\ cur'[q] = cur[q]
      BY <1>1, <1>6, <2>2 DEF Frame
    <3>2. ForwardInv(q)
      BY <1>6 DEF PathInv
    <3>3. QED
      BY <1>2, <3>1, <3>2 DEF ForwardInv
  <2>3. QED
    BY <2>1, <2>2
<1>7. QED
  BY <1>4, <1>6 DEF PathInv

\* Both invariants, together, in every reachable state.
LEMMA PathInvariance == Spec => [](IInv /\ PathInv)
<1>1. Init => IInv /\ PathInv
  BY InitInv, PathInit
<1>2. ASSUME IInv, PathInv, [Next]_vars PROVE IInv' /\ PathInv'
  <2>1. IInv'
    BY <1>2, NextInv
  <2>2. CASE Owner
    BY <1>2, <2>1, <2>2, OwnerForward
  <2>3. CASE \E r \in Readers : Reader(r)
    BY <1>2, <2>1, <2>3, ReaderForward
  <2>4. CASE UNCHANGED vars
    <3>1. OnceInv'
      BY <1>2, <2>4 DEF vars, headerVars, ringVars, ownerVars, PathInv, OnceInv, Newest
    <3>2. ASSUME NEW r \in Readers PROVE ForwardInv(r)'
      BY <1>2, <2>4, <3>2 DEF vars, headerVars, ringVars, ownerVars, readerVars,
         callVars, holdVars, PathInv, ForwardInv, Entered
    <3>3. QED
      BY <2>1, <3>1, <3>2 DEF PathInv
  <2>5. QED
    BY <1>2, <2>1, <2>2, <2>3, <2>4 DEF Next
<1>3. QED
  BY <1>1, <1>2, PTL DEF Spec

\* The current snapshot of a reader is let go, or replaced by acquire.
LEMMA CurrentStep ==
  ASSUME HoldTypeOK, NEW r \in Readers, Reader(r), NEW q \in Readers
  PROVE  \/ cur'[q] \in {cur[q], NoSnapshot}
         \/ /\ q = r /\ pc[r] = "live" /\ op[r] = "acquire"
            /\ cur'[q] = want[q]
<1> USE DEF HoldTypeOK, holdVars, Load, Call, Continue
<1>1. CASE Attach(r) \/ Detach(r) \/ Acquire(r) \/ OpenVersion(r) \/ Read(r)
  BY <1>1 DEF Attach, Detach, Acquire, OpenVersion, Read
<1>2. CASE LoadSeq(r) \/ LoadRoot(r) \/ LoadVersion(r) \/ CheckSeq(r)
  BY <1>2 DEF LoadSeq, LoadRoot, LoadVersion, CheckSeq, Retry
<1>3. CASE \/ LoadEntry(r) \/ LoadEntryRoot(r) \/ WasLiveVersion(r) \/ WasLive(r)
           \/ Pin(r) \/ CheckFloor(r) \/ IsLiveVersion(r)
  BY <1>3 DEF LoadEntry, LoadEntryRoot, WasLiveVersion, WasLive, Pin, CheckFloor,
     IsLiveVersion, EndCall, Gone, Retry
<1>4. CASE IsLive(r)
  BY <1>4 DEF IsLive, Gone, Retry
<1>5. CASE Validate(r) \/ Decode(r) \/ Revalidate(r)
  BY <1>5 DEF Validate, Decode, Revalidate
<1>6. CASE \/ ReleaseCurrent(r) \/ ReleaseOther(r) \/ GiveUp(r) \/ CheckHeld(r)
           \/ Repin(r) \/ Unpin(r)
  BY <1>6 DEF ReleaseCurrent, ReleaseOther, GiveUp, CheckHeld, Repin, Unpin
<1>7. QED
  BY <1>1, <1>2, <1>3, <1>4, <1>5, <1>6 DEF Reader

\* A reader that acquires again never goes back to an older version.
THEOREM ForwardCurrent == Spec => CurrentMovesForward
<1>1. ASSUME IInv, PathInv, [Next]_vars, NEW q \in Readers,
             cur[q] # NoSnapshot, cur'[q] # NoSnapshot
      PROVE  cur'[q].version >= cur[q].version
  <2>1. cur[q].version \in Nat
    BY <1>1 DEF IInv, ReaderTypeOK, HoldTypeOK, Snapshots
  <2>2. CASE cur'[q] = cur[q]
    BY <2>1, <2>2
  <2>3. CASE cur'[q] # cur[q]
    <3>1. ~UNCHANGED cur
      BY <2>3
    <3>2. ~Owner /\ ~UNCHANGED vars
      BY <3>1, OwnerFrame, Zenon DEF vars, readerVars, holdVars
    <3>3. PICK r \in Readers : Reader(r)
      BY <1>1, <3>2 DEF Next
    <3>4. pc[q] = "live" /\ op[q] = "acquire" /\ cur'[q] = want[q]
      BY <1>1, <2>3, <3>3, CurrentStep DEF IInv, ReaderTypeOK
    <3>5. want[q].version >= cur[q].version
      BY <1>1, <3>4 DEF PathInv, ForwardInv, Seen
    <3>6. QED
      BY <3>4, <3>5
  <2>4. QED
    BY <2>2, <2>3
<1>2. IInv /\ PathInv /\ [Next]_vars =>
        [\A r \in Readers :
           cur[r] # NoSnapshot /\ cur'[r] # NoSnapshot
             => cur'[r].version >= cur[r].version]_cur
  BY <1>1
<1>3. QED
  BY <1>2, PathInvariance, PTL DEF Spec, CurrentMovesForward

-----------------------------------------------------------------------------
(* EpochReclamation implements VersionRetention *)

\* What the pin of a reader counts for.
Counted(r) == IF r \in secured THEN epoch[slotOf[r]] ELSE 0

\* A step that the abstract specification does not see.
LEMMA HiddenStep ==
  UNCHANGED <<version, Newest, floor, freed, tableVars, readerVars>>
    => UNCHANGED Retention!vars
BY DEF Retention!vars, tableVars, readerVars, holdVars

\* The initial states are initial states of the abstract specification.
LEMMA RetentionInit == Init => Retention!Init
BY CapacityAssumption, DepthAssumption DEF Init, Retention!Init, Newest, Publishing,
   Greater

\* What the owner does is to make room, publish, give up or free.
LEMMA OwnerImplements ==
  ASSUME IInv, PathInv, Owner PROVE [Retention!Next]_(Retention!vars)
<1> USE CapacityAssumption, DepthAssumption DEF headerVars, ringVars
<1>1. UNCHANGED <<tableVars, readerVars>>
  BY OwnerFrame
<1>2. UNCHANGED <<secured, epoch, slotOf>>
  BY <1>1 DEF tableVars, readerVars, holdVars
<1>3. /\ version \in Nat \ {0} /\ floor \in Nat /\ Newest \in Nat
      /\ scanMin \in Int /\ boundary \in Int /\ floor <= Newest
  <2>1. version \in Nat \ {0} /\ floor \in Nat /\ Newest \in Nat
    BY NewestFacts DEF IInv
  <2>2. scanMin \in Int /\ boundary \in Int /\ floor <= Newest
    BY DEF IInv, OwnerTypeOK, PathInv, OnceInv
  <2>3. QED
    BY <2>1, <2>2
<1>4. CASE BeginInstall
  <2>1. Newest = version /\ Newest' = version + 1 /\ Evicted \in Int
    BY <1>3, <1>4 DEF BeginInstall, Newest, Publishing, Evicted
  <2>2. floor' \in floor..(version + 1)
    BY <1>3, <1>4, <2>1 DEF BeginInstall, Evicted, Greater
  <2>3. \A v \in floor..(floor' - 1) : Retention!Displaces(version + 1, v)
    BY <1>3, <1>4 DEF BeginInstall, Evicted, Greater, Retention!Displaces
  <2>4. \A v \in floor'..version : v >= 1 => ~Retention!Displaces(version + 1, v)
    BY <1>3, <1>4 DEF BeginInstall, Evicted, Greater, Retention!Displaces
  <2>5. Retention!MakeRoom
    BY <1>2, <1>4, <2>1, <2>2, <2>3, <2>4 DEF BeginInstall, Retention!MakeRoom
  <2>6. QED
    BY <2>5 DEF Retention!Next
<1>5. CASE FreeOldest
  <2>1. PICK v \in garbage : freed' = freed \cup {v}
    BY <1>5 DEF FreeOldest
  <2>2. v \in 1..version /\ v < version /\ v \notin freed
    BY <1>3, <2>1 DEF PathInv, OnceInv, IInv, OwnerTypeOK, Versions
  <2>3. IInv' /\ Newest' = Newest /\ UNCHANGED <<version, floor>>
    BY <1>5, FreeOldestInv DEF FreeOldest, Newest
  <2>4. v < floor
    BY <2>1, <2>3 DEF IInv, FloorInv
  <2>5. \A r \in Readers : Counted(r) = 0 \/ v < Counted(r) \/ v + Capacity <= Newest
    BY <1>2, <2>1, <2>3 DEF IInv, ReaderInv, PinInv, Counted
  <2>6. Retention!Displaces(Newest, v)
          \/ \A r \in Readers : Counted(r) = 0 \/ v < Counted(r)
    BY <2>5 DEF Retention!Displaces
  <2>7. Retention!Free(v)
    BY <1>2, <2>1, <2>2, <2>3, <2>4, <2>6 DEF Retention!Free, Counted
  <2>8. QED
    BY <2>2, <2>7 DEF Retention!Next
<1>6. CASE StoreVersion
  <2>1. Newest = version + 1 /\ Newest' = Newest /\ version' = version + 1
        /\ UNCHANGED <<floor, freed>>
    BY <1>3, <1>6 DEF StoreVersion, Store, Newest, Publishing
  <2>2. Retention!Publish
    BY <1>2, <2>1 DEF Retention!Publish
  <2>3. QED
    BY <2>2 DEF Retention!Next
<1>7. CASE RaiseFloor
  <2>1. /\ Newest = version /\ Newest' = Newest /\ version' = version
        /\ freed' = freed
    BY <1>7 DEF RaiseFloor, Newest, Publishing
  <2>2. floor' = floor \/ floor' \in (floor + 1)..(version - HistoryDepth)
    BY <1>3, <1>7 DEF RaiseFloor, Greater, Lesser
  <2>3. CASE floor' = floor
    BY <1>1, <2>1, <2>3, HiddenStep
  <2>4. CASE floor' \in (floor + 1)..(version - HistoryDepth)
    <3>1. Retention!GiveUp
      BY <1>2, <2>1, <2>4 DEF Retention!GiveUp
    <3>2. QED
      BY <3>1 DEF Retention!Next
  <2>5. QED
    BY <2>2, <2>3, <2>4
<1>8. CASE \/ StoreOdd \/ StoreRingEmpty \/ StoreRingRoot \/ StoreRingVersion
           \/ StoreRingLive \/ StoreRoot \/ StoreEven
           \/ RetireEntry \/ BeginReclaim \/ Scan \/ BeginFree \/ EndReclaim
  <2>1. UNCHANGED <<version, floor, freed>> /\ Newest' = Newest
    BY <1>8 DEF StoreOdd, StoreRingEmpty, StoreRingRoot, StoreRingVersion,
       StoreRingLive, StoreRoot, StoreEven, Store, RetireEntry, BeginReclaim, Scan,
       BeginFree, EndReclaim, Newest, Publishing
  <2>2. QED
    BY <1>1, <2>1, HiddenStep
<1>9. QED
  BY <1>4, <1>5, <1>6, <1>7, <1>8 DEF Owner, Publish, Reclaim

\* Only the check of the floor makes a pin count; other steps can only end it.
LEMMA PinsEnd ==
  ASSUME IInv, NEW r \in Readers, Reader(r), ~CheckFloor(r)
  PROVE  /\ secured' \subseteq secured
         /\ r \in secured' => Counted(r)' = Counted(r)
<1> USE DEF Counted, Load, Call, Continue, tableVars, holdVars
<1>1. CASE Attach(r)
  <2>1. r \notin secured /\ UNCHANGED secured
    BY <1>1 DEF Attach, IInv, ReaderInv, CallInv
  <2>2. QED
    BY <2>1
<1>2. CASE \/ Detach(r) \/ Pin(r) \/ ReleaseCurrent(r) \/ GiveUp(r) \/ Repin(r)
           \/ Unpin(r)
  <2>1. secured' = {q \in secured : slotOf[q] # slotOf[r]}
    BY <1>2 DEF Detach, Pin, ReleaseCurrent, GiveUp, Repin, Unpin, StoreEpoch
  <2>2. QED
    BY <2>1
<1>3. CASE \/ Acquire(r) \/ LoadSeq(r) \/ LoadRoot(r) \/ LoadVersion(r) \/ CheckSeq(r)
           \/ OpenVersion(r) \/ LoadEntry(r) \/ LoadEntryRoot(r) \/ WasLiveVersion(r)
           \/ WasLive(r) \/ IsLiveVersion(r) \/ IsLive(r) \/ Read(r) \/ Validate(r)
           \/ Decode(r) \/ Revalidate(r) \/ ReleaseOther(r) \/ CheckHeld(r)
  <2>1. UNCHANGED <<secured, epoch, slotOf>>
    BY <1>3 DEF Acquire, LoadSeq, LoadRoot, LoadVersion, CheckSeq, OpenVersion,
       LoadEntry, LoadEntryRoot, WasLiveVersion, WasLive, IsLiveVersion, IsLive, Read,
       Validate, Decode, Revalidate, ReleaseOther, CheckHeld
  <2>2. QED
    BY <2>1
<1>4. QED
  BY <1>1, <1>2, <1>3 DEF Reader

\* What a reader does is to pin, to end pins, or nothing the owner has to know.
LEMMA ReaderImplements ==
  ASSUME IInv, PathInv, NEW r \in Readers, Reader(r)
  PROVE  [Retention!Next]_(Retention!vars)
<1>1. Frame(r) /\ UNCHANGED <<version, floor, freed>> /\ Newest' = Newest
  BY ReaderStep DEF GoodStep, Frame, headerVars, ringVars, ownerVars, Newest
<1>2. ASSUME NEW q \in Readers \ {r}
      PROVE  Counted(q)' = Counted(q) \/ q \in secured \ secured'
  <2>1. q \in secured' => q \in secured /\ slotOf'[q] = slotOf[q]
    BY <1>1 DEF Frame
  <2>2. q \in secured => slotOf[q] \in claimed
    BY DEF IInv, ReaderInv, PinInv
  <2>3. q \in secured' => epoch'[slotOf[q]] = epoch[slotOf[q]]
    BY <1>1, <2>1, <2>2 DEF Frame
  <2>4. QED
    BY <2>1, <2>3 DEF Counted
<1>3. CASE CheckFloor(r) /\ secured' # secured
  <2>1. /\ r \notin secured /\ secured' = secured \cup {r}
        /\ epoch[slotOf[r]] = want[r].version /\ want[r].version >= floor
        /\ UNCHANGED <<epoch, slotOf>> /\ pc[r] = "floor"
    BY <1>3 DEF CheckFloor, tableVars
  <2>2. want[r].version \in 1..Newest
    <3>1. want[r].version >= 1 /\ want[r].version <= Entered /\ want[r].version \in Nat
      BY <2>1 DEF IInv, ReaderInv, CallInv, Named, PathInv, ForwardInv, Seen,
         ReaderTypeOK, CallTypeOK, Snapshots
    <3>2. QED
      BY <3>1, NewestFacts DEF IInv
  <2>3. Retention!Pin(r)
    BY <1>1, <2>1, <2>2 DEF Retention!Pin
  <2>4. QED
    BY <2>3 DEF Retention!Next
<1>4. CASE ~(CheckFloor(r) /\ secured' # secured)
  <2>1. /\ secured' \subseteq secured
        /\ r \in secured' => Counted(r)' = Counted(r)
    <3>1. CASE CheckFloor(r)
      BY <1>4, <3>1 DEF CheckFloor, Counted, tableVars
    <3>2. CASE ~CheckFloor(r)
      BY <3>2, PinsEnd
    <3>3. QED
      BY <3>1, <3>2
  <2>2. \A q \in Readers :
          Counted(q)' = IF q \in secured \ secured' THEN 0 ELSE Counted(q)
    BY <1>2, <2>1 DEF Counted
  <2>3. Retention!Unpin
    <3>1. secured \ secured' \in SUBSET Readers
      BY DEF IInv, ReaderTypeOK, TableTypeOK
    <3>2. [q \in Readers |-> Counted(q)]' =
            [q \in Readers |-> IF q \in secured \ secured' THEN 0 ELSE Counted(q)]
      BY <2>2
    <3>3. QED
      BY <1>1, <3>1, <3>2 DEF Retention!Unpin, Counted
  <2>4. QED
    BY <2>3 DEF Retention!Next
<1>5. QED
  BY <1>3, <1>4

\* The owner and its readers, one load and one store at a time, keep what
\* VersionRetention promises of publishing, giving up, freeing and pinning.
THEOREM Refinement == Spec => ImplementsRetention
<1>1. Init => Retention!Init
  BY RetentionInit
<1>2. ASSUME IInv, PathInv, [Next]_vars PROVE [Retention!Next]_(Retention!vars)
  <2>1. CASE Owner
    BY <1>2, <2>1, OwnerImplements
  <2>2. CASE \E r \in Readers : Reader(r)
    BY <1>2, <2>2, ReaderImplements
  <2>3. CASE UNCHANGED vars
    BY <2>3, HiddenStep DEF vars, headerVars, ownerVars, Newest
  <2>4. QED
    BY <1>2, <2>1, <2>2, <2>3 DEF Next
<1>3. QED
  BY <1>1, <1>2, PathInvariance, PTL DEF Spec, ImplementsRetention, Retention!Spec

=============================================================================
