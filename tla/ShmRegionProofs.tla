-------------------------- MODULE ShmRegionProofs --------------------------
(***************************************************************************)
(* What Sync promises, proved for any readers, cells, mirrors, number of   *)
(* commits and retry cap.                                                  *)
(***************************************************************************)
EXTENDS ShmRegion, TLAPS

\* The published slot is whole, and is the commit the word names.
PublishedSlotInv ==
  /\ ~Odd(slotSeq[word.slot])
  /\ slotVer[word.slot] = word.version
  /\ slotData[word.slot] = log[word.version]

\* The other slot: its sequence is odd exactly while the owner is inside, and
\* while it is not, the slot is the commit its version names.
OtherSlotInv ==
  /\ Odd(slotSeq[InactiveSlot]) <=> ownerPc \in {"inside", "stamped"}
  /\ ~Odd(slotSeq[InactiveSlot]) => slotData[InactiveSlot] = log[slotVer[InactiveSlot]]
  /\ slotVer[InactiveSlot] <= IF ownerPc \in {"stamped", "sealed"} THEN NextVersion
                                                                  ELSE word.version

\* The owner inside a flush.  Outside the previous ranges both slots are equal
\* ("inductively", says the code), and every cell that is not waiting to be
\* copied is already the next commit's.
FlushInv ==
  /\ ownerPc # "idle" =>
       /\ word.version < MaxVersion
       /\ \A c \in Cells : log[NextVersion][c] = IF c \in flushing.declared
                                                 THEN flushing.mirror[c]
                                                 ELSE log[word.version][c]
  /\ ownerPc = "idle" =>
       \A c \in Cells \ prevRanges : slotData[InactiveSlot][c] = slotData[word.slot][c]
  /\ ownerPc = "inside" =>
       /\ todo \subseteq flushing.declared
       /\ redo \cap flushing.declared \subseteq todo
       /\ \A c \in Cells \ (redo \cup todo) :
            slotData[InactiveSlot][c] = log[NextVersion][c]
  /\ ownerPc \in {"stamped", "sealed"} =>
       /\ prevRanges = flushing.declared
       /\ slotVer[InactiveSlot] = NextVersion
       /\ slotData[InactiveSlot] = log[NextVersion]

HeldInv(r) ==
  /\ heldVersion[r] <= Sealed
  /\ heldBytes[r] = log[heldVersion[r]]

\* Each attempt that failed has seen a commit published after it loaded the word.
AttemptInv(r) ==
  /\ readerPc[r] = "idle" => fails[r] = 0
  /\ readerPc[r] # "idle" =>
       /\ from[r] <= word.version
       /\ fails[r] <= word.version - from[r]
  /\ readerPc[r] \in {"seq", "copy"} =>
       /\ fails[r] < RetryCap
       /\ from[r] <= loaded[r]
       /\ loaded[r] <= word.version
       /\ fails[r] <= loaded[r] - from[r]
       /\ loaded[r] <= slotVer[slot[r]]
       /\ loaded[r] = word.version => slot[r] = word.slot

\* While the slot's sequence is the one the reader saw, what it copied is still there.
CopyInv(r) ==
  /\ readerPc[r] # "copy" => copied[r] = {} /\ version[r] = Unread
  /\ readerPc[r] = "copy" =>
       /\ ~Odd(s1[r])
       /\ s1[r] <= slotSeq[slot[r]]
       /\ loaded[r] = word.version => slotSeq[slot[r]] = s1[r]
       /\ slotSeq[slot[r]] = s1[r] =>
            /\ \A c \in copied[r] : dest[r][c] = slotData[slot[r]][c]
            /\ version[r] # Unread => version[r] = slotVer[slot[r]]

ReaderInv(r) == HeldInv(r) /\ AttemptInv(r) /\ CopyInv(r)

IInv ==
  /\ TypeOK
  /\ PublishedSlotInv
  /\ OtherSlotInv
  /\ FlushInv
  /\ \A r \in Readers : ReaderInv(r)

-----------------------------------------------------------------------------
(* Small facts *)

\* One more turns even into odd and odd into even.
LEMMA OddFlips == \A n \in Nat : Odd(n + 1) <=> ~Odd(n)
BY DEF Odd

\* The word names one slot, and the inactive one is the other.
LEMMA SlotFacts ==
  ASSUME TypeOK
  PROVE  /\ word.version \in 0..MaxVersion /\ word.slot \in Slots
         /\ InactiveSlot \in Slots /\ InactiveSlot # word.slot
         /\ \A s \in Slots : s = word.slot \/ s = InactiveSlot
         /\ NextVersion \in Nat
         /\ word.version < MaxVersion => NextVersion \in 1..MaxVersion
BY VersionAssumption DEF TypeOK, Slots, InactiveSlot, NextVersion

-----------------------------------------------------------------------------
(* The initial state *)

\* The invariant holds initially.
LEMMA InitInv == Init => IInv
<1> SUFFICES ASSUME Init PROVE IInv
  OBVIOUS
<1> USE VersionAssumption, BlankAssumption, RetryAssumption
<1>1. Blanks \in [Cells -> Values]
  BY DEF Blanks
<1>2. TypeOK
  BY <1>1 DEF Init, TypeOK, Slots, NoFlush
<1>3. PublishedSlotInv /\ OtherSlotInv /\ FlushInv
  BY <1>1 DEF Init, PublishedSlotInv, OtherSlotInv, FlushInv, Slots, Odd, InactiveSlot,
              NextVersion
<1>4. ASSUME NEW r \in Readers PROVE ReaderInv(r)
  BY <1>1 DEF Init, ReaderInv, HeldInv, AttemptInv, CopyInv, Sealed
<1>5. QED
  BY <1>2, <1>3, <1>4 DEF IInv

-----------------------------------------------------------------------------
(* The owner's steps *)

\* A flush begins: the inactive slot turns odd, and commit NextVersion is declared.
LEMMA EnterSlotInv == IInv /\ EnterSlot => IInv'
<1> SUFFICES ASSUME IInv, EnterSlot PROVE IInv'
  OBVIOUS
<1> USE DEF ownerVars, readerVars, localVars
<1> DEFINE I == InactiveSlot
<1>1. TypeOK
  BY DEF IInv
<1>2. /\ word.version \in 0..MaxVersion /\ word.slot \in Slots
      /\ I \in Slots /\ I # word.slot
      /\ NextVersion \in 1..MaxVersion
      /\ word' = word /\ InactiveSlot' = I /\ NextVersion' = NextVersion
  BY <1>1, SlotFacts DEF EnterSlot, InactiveSlot, NextVersion
<1>3. PICK declared \in SUBSET Cells, mirror \in Mirrors[NextVersion] :
        /\ flushing' = [declared |-> declared, mirror |-> mirror]
        /\ todo' = declared
        /\ log' = [log EXCEPT ![NextVersion] =
                     [c \in Cells |-> IF c \in declared THEN mirror[c]
                                      ELSE log[word.version][c]]]
  BY DEF EnterSlot
<1>4. mirror \in [Cells -> Values]
  BY <1>2, <1>3, MirrorAssumption
<1>5. log' \in [0..MaxVersion -> [Cells -> Values]]
  BY <1>1, <1>2, <1>3, <1>4 DEF TypeOK
<1>6. TypeOK'
  BY <1>1, <1>2, <1>3, <1>4, <1>5 DEF TypeOK, EnterSlot
<1>7. \A v \in 0..word.version : log'[v] = log[v]
  BY <1>1, <1>2, <1>3 DEF TypeOK, NextVersion
<1>8. /\ slotSeq'[I] = slotSeq[I] + 1 /\ slotSeq'[word.slot] = slotSeq[word.slot]
      /\ slotSeq[I] \in Nat /\ slotSeq[word.slot] \in Nat
  BY <1>1, <1>2 DEF TypeOK, EnterSlot
<1>9. Odd(slotSeq'[I])
  BY <1>8, OddFlips DEF IInv, OtherSlotInv, EnterSlot
<1>10. PublishedSlotInv'
  <2>1. word.version \in 0..word.version
    BY <1>2, VersionAssumption
  <2>2. QED
    BY <2>1, <1>2, <1>7, <1>8 DEF IInv, PublishedSlotInv, EnterSlot
<1>11. OtherSlotInv'
  BY <1>2, <1>9 DEF IInv, OtherSlotInv, EnterSlot
<1>12. FlushInv'
  <2>1. \A c \in Cells : log'[NextVersion][c] =
          IF c \in declared THEN mirror[c] ELSE log'[word.version][c]
    BY <1>1, <1>2, <1>3, <1>7 DEF TypeOK
  <2>2. \A c \in Cells \ (prevRanges \cup declared) :
          slotData[I][c] = log'[NextVersion][c]
    BY <2>1, <1>1, <1>2, <1>7 DEF IInv, FlushInv, PublishedSlotInv, EnterSlot
  <2>3. QED
    BY <2>1, <2>2, <1>2, <1>3 DEF FlushInv, EnterSlot
<1>13. ASSUME NEW r \in Readers PROVE ReaderInv(r)'
  <2>1. ReaderInv(r) /\ slot[r] \in Slots /\ s1[r] \in Nat /\ slotSeq[slot[r]] \in Nat
        /\ heldVersion[r] \in Nat /\ loaded[r] \in Nat
    BY <1>1 DEF IInv, TypeOK
  <2>2. HeldInv(r)'
    BY <2>1, <1>2, <1>7 DEF ReaderInv, HeldInv, Sealed, EnterSlot
  <2>3. AttemptInv(r)'
    BY <2>1, <1>2 DEF ReaderInv, AttemptInv, EnterSlot
  <2>4. CopyInv(r)'
    <3>1. CASE slot[r] = word.slot
      BY <3>1, <2>1, <1>2, <1>8 DEF ReaderInv, CopyInv, EnterSlot
    <3>2. CASE slot[r] = I
      <4>1. s1[r] <= slotSeq[I] => s1[r] # slotSeq'[I] /\ s1[r] <= slotSeq'[I]
        BY <3>2, <2>1, <1>8
      <4>2. readerPc[r] = "copy" => loaded[r] # word.version
        BY <3>2, <2>1, <1>2 DEF ReaderInv, AttemptInv
      <4>3. QED
        BY <4>1, <4>2, <3>2, <2>1, <1>2 DEF ReaderInv, CopyInv, EnterSlot
    <3>3. QED
      BY <3>1, <3>2, <2>1, <1>1, SlotFacts
  <2>5. QED
    BY <2>2, <2>3, <2>4 DEF ReaderInv
<1>14. QED
  BY <1>6, <1>10, <1>11, <1>12, <1>13 DEF IInv

\* Inside the slot the owner writes bytes no reader's bracket can accept.
LEMMA CopyStepInv ==
  ASSUME IInv, ownerPc = "inside", NEW c \in Cells, NEW b \in Values,
         slotData' = [slotData EXCEPT ![InactiveSlot][c] = b],
         UNCHANGED <<word, slotSeq, slotVer, ownerPc, flushing, prevRanges, log,
                     readerVars>>
  PROVE  /\ slotData' \in [Slots -> [Cells -> Values]]
         /\ slotData'[InactiveSlot][c] = b
         /\ \A d \in Cells : d # c => slotData'[InactiveSlot][d] = slotData[InactiveSlot][d]
         /\ slotData'[word.slot] = slotData[word.slot]
         /\ InactiveSlot' = InactiveSlot /\ NextVersion' = NextVersion
         /\ PublishedSlotInv'
         /\ OtherSlotInv'
         /\ \A r \in Readers : ReaderInv(r)'
<1> USE DEF readerVars, localVars
<1>1. TypeOK /\ OtherSlotInv
  BY DEF IInv
<1>2. /\ word.slot \in Slots /\ InactiveSlot \in Slots /\ InactiveSlot # word.slot
      /\ \A s \in Slots : s = word.slot \/ s = InactiveSlot
      /\ InactiveSlot' = InactiveSlot /\ NextVersion' = NextVersion
  BY <1>1, SlotFacts DEF InactiveSlot, NextVersion
<1>3. /\ slotData' \in [Slots -> [Cells -> Values]]
      /\ slotData'[InactiveSlot][c] = b
      /\ \A d \in Cells : d # c => slotData'[InactiveSlot][d] = slotData[InactiveSlot][d]
      /\ slotData'[word.slot] = slotData[word.slot]
  BY <1>1, <1>2 DEF TypeOK
<1>4. Odd(slotSeq[InactiveSlot])
  BY <1>1 DEF OtherSlotInv
<1>5. PublishedSlotInv'
  BY <1>2, <1>3 DEF IInv, PublishedSlotInv
<1>6. OtherSlotInv'
  BY <1>1, <1>2, <1>4 DEF OtherSlotInv
<1>7. ASSUME NEW r \in Readers PROVE ReaderInv(r)'
  <2>1. ReaderInv(r) /\ slot[r] \in Slots
    BY <1>1 DEF IInv, TypeOK
  <2>2. HeldInv(r)' /\ AttemptInv(r)'
    BY <2>1, <1>2 DEF ReaderInv, HeldInv, AttemptInv, Sealed
  <2>3. CopyInv(r)'
    <3>1. CASE slot[r] = word.slot
      BY <3>1, <2>1, <1>2, <1>3 DEF ReaderInv, CopyInv
    <3>2. CASE slot[r] = InactiveSlot
      BY <3>2, <2>1, <1>4 DEF ReaderInv, CopyInv
    <3>3. QED
      BY <3>1, <3>2, <2>1, <1>2
  <2>4. QED
    BY <2>2, <2>3 DEF ReaderInv
<1>8. QED
  BY <1>2, <1>3, <1>5, <1>6, <1>7

\* The ranges of the commit before bring the slot up to the published one.
LEMMA ReapplyCellInv == \A c \in Cells : IInv /\ ReapplyCell(c) => IInv'
<1> SUFFICES ASSUME NEW c \in Cells, IInv, ReapplyCell(c) PROVE IInv'
  OBVIOUS
<1> DEFINE b == slotData[word.slot][c]
<1>1. TypeOK /\ FlushInv /\ PublishedSlotInv /\ word.slot \in Slots
  BY SlotFacts DEF IInv
<1>2. b \in Values /\ b = log[word.version][c]
  BY <1>1 DEF TypeOK, PublishedSlotInv
<1>3. /\ slotData' \in [Slots -> [Cells -> Values]]
      /\ slotData'[InactiveSlot][c] = b
      /\ \A d \in Cells : d # c => slotData'[InactiveSlot][d] = slotData[InactiveSlot][d]
      /\ slotData'[word.slot] = slotData[word.slot]
      /\ InactiveSlot' = InactiveSlot /\ NextVersion' = NextVersion
      /\ PublishedSlotInv' /\ OtherSlotInv' /\ \A r \in Readers : ReaderInv(r)'
  BY <1>2, CopyStepInv DEF ReapplyCell
<1>4. TypeOK'
  BY <1>1, <1>3 DEF TypeOK, ReapplyCell, readerVars, localVars
<1>5. FlushInv'
  <2>1. c \notin todo => log[NextVersion][c] = b
    BY <1>1, <1>2 DEF FlushInv, ReapplyCell
  <2>2. QED
    BY <1>1, <1>3, <2>1 DEF FlushInv, ReapplyCell
<1>6. QED
  BY <1>3, <1>4, <1>5 DEF IInv

\* The declared ranges bring it from there to the commit being built.
LEMMA CopyInCellInv == \A c \in Cells : IInv /\ CopyInCell(c) => IInv'
<1> SUFFICES ASSUME NEW c \in Cells, IInv, CopyInCell(c) PROVE IInv'
  OBVIOUS
<1> DEFINE b == flushing.mirror[c]
<1>1. TypeOK /\ FlushInv
  BY DEF IInv
<1>2. b \in Values
  BY <1>1 DEF TypeOK
<1>3. /\ slotData' \in [Slots -> [Cells -> Values]]
      /\ slotData'[InactiveSlot][c] = b
      /\ \A d \in Cells : d # c => slotData'[InactiveSlot][d] = slotData[InactiveSlot][d]
      /\ slotData'[word.slot] = slotData[word.slot]
      /\ InactiveSlot' = InactiveSlot /\ NextVersion' = NextVersion
      /\ PublishedSlotInv' /\ OtherSlotInv' /\ \A r \in Readers : ReaderInv(r)'
  BY <1>2, CopyStepInv DEF CopyInCell
<1>4. TypeOK'
  BY <1>1, <1>3 DEF TypeOK, CopyInCell, readerVars, localVars
<1>5. FlushInv'
  <2>1. log[NextVersion][c] = b
    BY <1>1 DEF FlushInv, CopyInCell
  <2>2. QED
    BY <1>1, <1>3, <2>1 DEF FlushInv, CopyInCell
<1>6. QED
  BY <1>3, <1>4, <1>5 DEF IInv

\* A slot with nothing left to copy is the commit it is stamped with.
LEMMA StampSlotInv == IInv /\ StampSlot => IInv'
<1> SUFFICES ASSUME IInv, StampSlot PROVE IInv'
  OBVIOUS
<1> USE DEF readerVars, localVars
<1>1. TypeOK /\ FlushInv /\ OtherSlotInv
  BY DEF IInv
<1>2. /\ word.version \in 0..MaxVersion /\ word.slot \in Slots
      /\ InactiveSlot \in Slots /\ InactiveSlot # word.slot
      /\ \A s \in Slots : s = word.slot \/ s = InactiveSlot
      /\ NextVersion \in 1..MaxVersion /\ NextVersion = word.version + 1
      /\ word' = word /\ InactiveSlot' = InactiveSlot /\ NextVersion' = NextVersion
  BY <1>1, SlotFacts DEF FlushInv, StampSlot, InactiveSlot, NextVersion
<1>3. /\ slotVer'[InactiveSlot] = NextVersion
      /\ slotVer'[word.slot] = slotVer[word.slot]
      /\ slotVer' \in [Slots -> 0..MaxVersion]
      /\ slotVer[InactiveSlot] <= NextVersion /\ slotVer[InactiveSlot] \in Nat
  BY <1>1, <1>2 DEF TypeOK, StampSlot, OtherSlotInv
<1>4. TypeOK'
  BY <1>1, <1>3 DEF TypeOK, StampSlot
<1>5. slotData[InactiveSlot] = log[NextVersion]
  <2>1. \A c \in Cells : slotData[InactiveSlot][c] = log[NextVersion][c]
    BY <1>1 DEF FlushInv, StampSlot
  <2>2. /\ slotData[InactiveSlot] \in [Cells -> Values]
        /\ log[NextVersion] \in [Cells -> Values]
    BY <1>1, <1>2 DEF TypeOK
  <2>3. QED
    BY <2>1, <2>2
<1>6. PublishedSlotInv'
  BY <1>2, <1>3 DEF IInv, PublishedSlotInv, StampSlot
<1>7. OtherSlotInv'
  BY <1>1, <1>2, <1>3 DEF OtherSlotInv, StampSlot
<1>8. FlushInv'
  BY <1>1, <1>2, <1>3, <1>5 DEF FlushInv, StampSlot
<1>9. ASSUME NEW r \in Readers PROVE ReaderInv(r)'
  <2>1. /\ ReaderInv(r) /\ slot[r] \in Slots /\ loaded[r] \in Nat
        /\ slotVer[slot[r]] \in Nat
    BY <1>1 DEF IInv, TypeOK
  <2>2. HeldInv(r)'
    BY <2>1, <1>2 DEF ReaderInv, HeldInv, Sealed, StampSlot
  <2>3. AttemptInv(r)'
    <3>1. slotVer'[slot[r]] \in Nat /\ slotVer[slot[r]] <= slotVer'[slot[r]]
      BY <2>1, <1>2, <1>3
    <3>2. QED
      BY <2>1, <3>1, <1>2 DEF ReaderInv, AttemptInv, StampSlot
  <2>4. CopyInv(r)'
    <3>1. Odd(slotSeq[InactiveSlot])
      BY <1>1 DEF OtherSlotInv, StampSlot
    <3>2. slotSeq[slot[r]] = s1[r] /\ ~Odd(s1[r]) => slot[r] = word.slot
      BY <3>1, <2>1, <1>2
    <3>3. QED
      BY <3>2, <2>1, <1>2, <1>3 DEF ReaderInv, CopyInv, StampSlot
  <2>5. QED
    BY <2>2, <2>3, <2>4 DEF ReaderInv
<1>10. QED
  BY <1>4, <1>6, <1>7, <1>8, <1>9 DEF IInv

\* A sealed slot is even and whole, before the word names it.
LEMMA LeaveSlotInv == IInv /\ LeaveSlot => IInv'
<1> SUFFICES ASSUME IInv, LeaveSlot PROVE IInv'
  OBVIOUS
<1> USE DEF readerVars, localVars
<1>1. TypeOK /\ FlushInv /\ OtherSlotInv
  BY DEF IInv
<1>2. /\ word.version \in 0..MaxVersion /\ word.slot \in Slots
      /\ InactiveSlot \in Slots /\ InactiveSlot # word.slot
      /\ \A s \in Slots : s = word.slot \/ s = InactiveSlot
      /\ NextVersion \in 1..MaxVersion /\ NextVersion = word.version + 1
      /\ word' = word /\ InactiveSlot' = InactiveSlot /\ NextVersion' = NextVersion
  BY <1>1, SlotFacts DEF FlushInv, LeaveSlot, InactiveSlot, NextVersion
<1>3. /\ slotSeq'[InactiveSlot] = slotSeq[InactiveSlot] + 1
      /\ slotSeq'[word.slot] = slotSeq[word.slot]
      /\ slotSeq' \in [Slots -> Nat]
      /\ slotSeq[InactiveSlot] \in Nat
  BY <1>1, <1>2 DEF TypeOK, LeaveSlot
<1>4. Odd(slotSeq[InactiveSlot]) /\ ~Odd(slotSeq'[InactiveSlot])
  BY <1>1, <1>3, OddFlips DEF OtherSlotInv, LeaveSlot
<1>5. TypeOK'
  BY <1>1, <1>3 DEF TypeOK, LeaveSlot
<1>6. PublishedSlotInv'
  BY <1>2, <1>3 DEF IInv, PublishedSlotInv, LeaveSlot
<1>7. OtherSlotInv'
  BY <1>1, <1>2, <1>4 DEF OtherSlotInv, FlushInv, LeaveSlot
<1>8. FlushInv'
  BY <1>1, <1>2 DEF FlushInv, LeaveSlot
<1>9. ASSUME NEW r \in Readers PROVE ReaderInv(r)'
  <2>1. /\ ReaderInv(r) /\ slot[r] \in Slots /\ loaded[r] \in Nat /\ s1[r] \in Nat
        /\ heldVersion[r] \in Nat
    BY <1>1 DEF IInv, TypeOK
  <2>2. HeldInv(r)'
    BY <2>1, <1>2 DEF ReaderInv, HeldInv, Sealed, LeaveSlot
  <2>3. AttemptInv(r)'
    BY <2>1, <1>2 DEF ReaderInv, AttemptInv, LeaveSlot
  <2>4. CopyInv(r)'
    <3>1. CASE slot[r] = word.slot
      BY <3>1, <2>1, <1>2, <1>3 DEF ReaderInv, CopyInv, LeaveSlot
    <3>2. CASE slot[r] = InactiveSlot
      <4>1. readerPc[r] = "copy" => /\ s1[r] <= slotSeq'[InactiveSlot]
                                    /\ s1[r] # slotSeq'[InactiveSlot]
                                    /\ loaded[r] # word.version
        BY <3>2, <2>1, <1>2, <1>3 DEF ReaderInv, CopyInv, AttemptInv
      <4>2. QED
        BY <4>1, <3>2, <2>1, <1>2 DEF ReaderInv, CopyInv, LeaveSlot
    <3>3. QED
      BY <3>1, <3>2, <2>1, <1>2
  <2>5. QED
    BY <2>2, <2>3, <2>4 DEF ReaderInv
<1>10. QED
  BY <1>5, <1>6, <1>7, <1>8, <1>9 DEF IInv

\* The word moves to the sealed slot; the one before becomes the inactive one.
LEMMA PublishWordInv == IInv /\ PublishWord => IInv'
<1> SUFFICES ASSUME IInv, PublishWord PROVE IInv'
  OBVIOUS
<1> USE DEF readerVars, localVars
<1>1. TypeOK /\ FlushInv /\ OtherSlotInv /\ PublishedSlotInv
  BY DEF IInv
<1>2. /\ word.version \in 0..MaxVersion /\ word.slot \in Slots
      /\ InactiveSlot \in Slots /\ InactiveSlot # word.slot
      /\ \A s \in Slots : s = word.slot \/ s = InactiveSlot
      /\ NextVersion \in 1..MaxVersion /\ NextVersion = word.version + 1
  BY <1>1, SlotFacts DEF FlushInv, PublishWord, NextVersion
<1>3. /\ word'.version = NextVersion /\ word'.slot = InactiveSlot
      /\ InactiveSlot' = word.slot /\ NextVersion' = NextVersion + 1
      /\ word' \in [version : 0..MaxVersion, slot : Slots]
  BY <1>2 DEF PublishWord, InactiveSlot, NextVersion, Slots
<1>4. NoFlush \in [declared : SUBSET Cells, mirror : [Cells -> Values]]
  BY BlankAssumption DEF NoFlush, Blanks
<1>5. TypeOK'
  BY <1>1, <1>3, <1>4 DEF TypeOK, PublishWord
<1>6. PublishedSlotInv'
  BY <1>1, <1>3 DEF OtherSlotInv, FlushInv, PublishedSlotInv, PublishWord
<1>7. OtherSlotInv'
  BY <1>1, <1>2, <1>3 DEF OtherSlotInv, PublishedSlotInv, PublishWord
<1>8. FlushInv'
  <2>1. \A c \in Cells \ prevRanges : slotData[InactiveSlot][c] = slotData[word.slot][c]
    BY <1>1 DEF FlushInv, PublishedSlotInv, PublishWord
  <2>2. QED
    BY <2>1, <1>3 DEF FlushInv, PublishWord
<1>9. ASSUME NEW r \in Readers PROVE ReaderInv(r)'
  <2>1. /\ ReaderInv(r) /\ slot[r] \in Slots /\ loaded[r] \in Nat /\ from[r] \in Nat
        /\ heldVersion[r] \in Nat /\ fails[r] \in Nat
    BY <1>1, RetryAssumption DEF IInv, TypeOK
  <2>2. HeldInv(r)'
    BY <2>1, <1>2, <1>3 DEF ReaderInv, HeldInv, Sealed, PublishWord
  <2>3. AttemptInv(r)'
    BY <2>1, <1>2, <1>3 DEF ReaderInv, AttemptInv, PublishWord
  <2>4. CopyInv(r)'
    BY <2>1, <1>2, <1>3 DEF ReaderInv, CopyInv, AttemptInv, PublishWord
  <2>5. QED
    BY <2>2, <2>3, <2>4 DEF ReaderInv
<1>10. QED
  BY <1>5, <1>6, <1>7, <1>8, <1>9 DEF IInv

-----------------------------------------------------------------------------
(* The readers' steps *)

\* A reader writes no shared memory, so its steps can only disturb its own part.
LEMMA OwnerPartUnchanged ==
  ASSUME IInv, UNCHANGED ownerVars, TypeOK', NEW r \in Readers, ReaderInv(r)',
         \A q \in Readers \ {r} :
           /\ readerPc'[q] = readerPc[q] /\ slot'[q] = slot[q] /\ s1'[q] = s1[q]
           /\ dest'[q] = dest[q] /\ copied'[q] = copied[q] /\ version'[q] = version[q]
           /\ fails'[q] = fails[q] /\ heldVersion'[q] = heldVersion[q]
           /\ heldBytes'[q] = heldBytes[q] /\ from'[q] = from[q] /\ loaded'[q] = loaded[q]
  PROVE  IInv'
<1> USE DEF ownerVars
<1>1. PublishedSlotInv' /\ OtherSlotInv' /\ FlushInv'
  BY DEF IInv, PublishedSlotInv, OtherSlotInv, FlushInv, InactiveSlot, NextVersion
<1>2. ASSUME NEW q \in Readers \ {r} PROVE ReaderInv(q)'
  BY <1>2 DEF IInv, ReaderInv, HeldInv, AttemptInv, CopyInv, Sealed, NextVersion
<1>3. QED
  BY <1>1, <1>2 DEF IInv

\* What a step of one reader keeps of the types.
LEMMA ReaderTypes ==
  ASSUME TypeOK, NEW r \in Readers
  PROVE  /\ word.version \in 0..MaxVersion /\ word.slot \in Slots
         /\ slot[r] \in Slots /\ s1[r] \in Nat /\ dest[r] \in [Cells -> Values]
         /\ copied[r] \in SUBSET Cells /\ fails[r] \in 0..RetryCap
         /\ version[r] \in 0..MaxVersion \cup {Unread} /\ fails[r] \in Nat
         /\ heldVersion[r] \in 0..MaxVersion /\ from[r] \in 0..MaxVersion
         /\ loaded[r] \in 0..MaxVersion /\ loaded[r] \in Nat /\ from[r] \in Nat
         /\ \A s \in Slots : /\ slotSeq[s] \in Nat /\ slotVer[s] \in 0..MaxVersion
                             /\ slotVer[s] \in Nat /\ slotData[s] \in [Cells -> Values]
         /\ MaxVersion \in Nat /\ RetryCap \in Nat /\ word.version \in Nat
BY VersionAssumption, RetryAssumption DEF TypeOK

\* A Sync that is called has failed nothing yet.
LEMMA CallSyncInv == \A r \in Readers : IInv /\ CallSync(r) => IInv'
<1> SUFFICES ASSUME NEW r \in Readers, IInv, CallSync(r) PROVE IInv'
  OBVIOUS
<1>1. TypeOK /\ ReaderInv(r)
  BY DEF IInv
<1>2. TypeOK'
  BY <1>1, ReaderTypes DEF TypeOK, CallSync, ownerVars, localVars
<1>3. ReaderInv(r)'
  <2>1. AttemptInv(r)'
    BY <1>1, ReaderTypes, SMTT(30)
       DEF ReaderInv, AttemptInv, CallSync, ownerVars, localVars, TypeOK
  <2>2. QED
    BY <2>1, <1>1, ReaderTypes
       DEF TypeOK, ReaderInv, HeldInv, CopyInv, Sealed, NextVersion, CallSync, ownerVars,
           localVars
<1>4. QED
  BY <1>2, <1>3, OwnerPartUnchanged DEF CallSync, localVars, TypeOK

\* The slot of the word is whole and of the version just loaded.
LEMMA LoadWordInv == \A r \in Readers : IInv /\ LoadWord(r) => IInv'
<1> SUFFICES ASSUME NEW r \in Readers, IInv, LoadWord(r) PROVE IInv'
  OBVIOUS
<1>1. TypeOK /\ ReaderInv(r) /\ PublishedSlotInv
  BY DEF IInv
<1>2. TypeOK'
  BY <1>1, ReaderTypes DEF TypeOK, LoadWord, ownerVars
<1>3. ReaderInv(r)'
  <2>1. AttemptInv(r)'
    BY <1>1, ReaderTypes, SMTT(30)
       DEF ReaderInv, AttemptInv, PublishedSlotInv, LoadWord, ownerVars, TypeOK
  <2>2. QED
    BY <2>1, <1>1, ReaderTypes
       DEF TypeOK, ReaderInv, HeldInv, CopyInv, Sealed, NextVersion, LoadWord, ownerVars
<1>4. QED
  BY <1>2, <1>3, OwnerPartUnchanged DEF LoadWord, TypeOK

\* An attempt fails only when its slot is no longer the published one, that is,
\* when a commit was published since it loaded the word.
LEMMA FailAttemptInv ==
  ASSUME NEW r \in Readers, IInv, FailAttempt(r), readerPc[r] \in {"seq", "copy"},
         loaded[r] # word.version
  PROVE  IInv'
<1>1. TypeOK /\ ReaderInv(r)
  BY DEF IInv
<1>2. fails[r] < RetryCap /\ fails[r] + 1 <= word.version - from[r]
  BY <1>1, ReaderTypes DEF ReaderInv, AttemptInv
<1>3. TypeOK'
  <2>1. fails[r] + 1 \in 0..RetryCap
    BY <1>1, <1>2, ReaderTypes
  <2>2. Blanks \in [Cells -> Values] /\ 0 \in Slots /\ 0 \in 0..MaxVersion
    BY BlankAssumption, VersionAssumption DEF Blanks, Slots
  <2>3. QED
    BY <1>1, <2>1, <2>2 DEF TypeOK, FailAttempt, ResetLocals, ownerVars
<1>4. ReaderInv(r)'
  <2>1. AttemptInv(r)'
    BY <1>1, <1>2, ReaderTypes
       DEF ReaderInv, AttemptInv, FailAttempt, ResetLocals, ownerVars, TypeOK
  <2>2. QED
    BY <2>1, <1>1, ReaderTypes
       DEF TypeOK, ReaderInv, HeldInv, CopyInv, Sealed, NextVersion, FailAttempt,
           ResetLocals, ownerVars
<1>5. QED
  BY <1>3, <1>4, OwnerPartUnchanged DEF FailAttempt, ResetLocals, TypeOK

\* An even sequence opens the bracket, an odd one was paid by a publish.
LEMMA LoadSeqInv == \A r \in Readers : IInv /\ LoadSeq(r) => IInv'
<1> SUFFICES ASSUME NEW r \in Readers, IInv, LoadSeq(r) PROVE IInv'
  OBVIOUS
<1>1. TypeOK /\ ReaderInv(r) /\ PublishedSlotInv
  BY DEF IInv
<1>2. CASE Odd(slotSeq[slot[r]]) /\ FailAttempt(r)
  <2>1. loaded[r] # word.version
    BY <1>1, <1>2 DEF ReaderInv, AttemptInv, PublishedSlotInv, LoadSeq
  <2>2. QED
    BY <2>1, <1>2, FailAttemptInv DEF LoadSeq
<1>3. CASE /\ ~Odd(slotSeq[slot[r]])
           /\ s1' = [s1 EXCEPT ![r] = slotSeq[slot[r]]]
           /\ readerPc' = [readerPc EXCEPT ![r] = "copy"]
           /\ UNCHANGED <<ownerVars, slot, dest, copied, version, loaded, fails,
                          heldVersion, heldBytes, from>>
  <2>1. TypeOK'
    BY <1>1, <1>3, ReaderTypes DEF TypeOK, ownerVars
  <2>2. HeldInv(r)' /\ AttemptInv(r)'
    BY <1>1, <1>3, ReaderTypes
       DEF ReaderInv, HeldInv, AttemptInv, Sealed, NextVersion, LoadSeq, ownerVars, TypeOK
  <2>3. copied[r] = {} /\ version[r] = Unread
    BY <1>1 DEF ReaderInv, CopyInv, LoadSeq
  <2>4. CopyInv(r)'
    BY <1>1, <1>3, <2>3, ReaderTypes DEF CopyInv, ownerVars, TypeOK
  <2>5. QED
    BY <1>3, <2>1, <2>2, <2>4, OwnerPartUnchanged DEF ReaderInv, TypeOK
<1>4. QED
  BY <1>2, <1>3 DEF LoadSeq

\* A cell copied while the sequence stands is a cell of the slot.
LEMMA CopyOutCellInv ==
  \A r \in Readers, c \in Cells : IInv /\ CopyOutCell(r, c) => IInv'
<1> SUFFICES ASSUME NEW r \in Readers, NEW c \in Cells, IInv, CopyOutCell(r, c) PROVE IInv'
  OBVIOUS
<1>1. TypeOK /\ ReaderInv(r)
  BY DEF IInv
<1>2. /\ dest'[r][c] = slotData[slot[r]][c]
      /\ \A d \in Cells \ {c} : dest'[r][d] = dest[r][d]
      /\ copied'[r] = copied[r] \cup {c}
      /\ dest' \in [Readers -> [Cells -> Values]]
  <2>1. dest \in [Readers -> [Cells -> Values]] /\ copied \in [Readers -> SUBSET Cells]
    BY <1>1 DEF TypeOK
  <2>2. slotData[slot[r]][c] \in Values
    BY <1>1, ReaderTypes DEF TypeOK
  <2>3. dest' = [dest EXCEPT ![r][c] = slotData[slot[r]][c]]
        /\ copied' = [copied EXCEPT ![r] = @ \cup {c}]
    BY DEF CopyOutCell
  <2>4. QED
    BY <2>1, <2>2, <2>3
<1>3. TypeOK'
  <2>1. copied' \in [Readers -> SUBSET Cells]
    BY <1>1 DEF TypeOK, CopyOutCell
  <2>2. UNCHANGED <<ownerVars, readerPc, slot, s1, version, loaded, fails, heldVersion,
                    heldBytes, from>>
    BY DEF CopyOutCell
  <2>3. QED
    BY <1>1, <1>2, <2>1, <2>2 DEF TypeOK, ownerVars
<1>4. ReaderInv(r)'
  <2>1. HeldInv(r)' /\ AttemptInv(r)'
    BY <1>1, ReaderTypes
       DEF ReaderInv, HeldInv, AttemptInv, Sealed, NextVersion, CopyOutCell, ownerVars
  <2>2. CopyInv(r)'
    BY <1>1, <1>2, ReaderTypes DEF ReaderInv, CopyInv, CopyOutCell, ownerVars
  <2>3. QED
    BY <2>1, <2>2 DEF ReaderInv
<1>5. QED
  BY <1>3, <1>4, OwnerPartUnchanged DEF CopyOutCell, TypeOK

\* So is the version.
LEMMA LoadVersionInv == \A r \in Readers : IInv /\ LoadVersion(r) => IInv'
<1> SUFFICES ASSUME NEW r \in Readers, IInv, LoadVersion(r) PROVE IInv'
  OBVIOUS
<1>1. TypeOK /\ ReaderInv(r)
  BY DEF IInv
<1>2. TypeOK'
  BY <1>1, ReaderTypes DEF TypeOK, LoadVersion, ownerVars
<1>3. ReaderInv(r)'
  <2>1. HeldInv(r)' /\ AttemptInv(r)'
    BY <1>1, ReaderTypes
       DEF ReaderInv, HeldInv, AttemptInv, Sealed, NextVersion, LoadVersion, ownerVars
  <2>2. CopyInv(r)'
    BY <1>1, ReaderTypes DEF ReaderInv, CopyInv, LoadVersion, ownerVars, TypeOK
  <2>3. QED
    BY <2>1, <2>2 DEF ReaderInv
<1>4. QED
  BY <1>2, <1>3, OwnerPartUnchanged DEF LoadVersion, TypeOK

\* What a Sync that found its slot's sequence unchanged has in its hands.
LEMMA BracketHolds ==
  ASSUME NEW r \in Readers, IInv, readerPc[r] = "copy", copied[r] = Cells,
         version[r] # Unread, slotSeq[slot[r]] = s1[r]
  PROVE  /\ dest[r] = log[version[r]]
         /\ from[r] <= version[r]
         /\ version[r] <= Sealed
         /\ version[r] \in 0..MaxVersion
<1>1. TypeOK /\ ReaderInv(r) /\ PublishedSlotInv /\ OtherSlotInv
  BY DEF IInv
<1>2. /\ ~Odd(slotSeq[slot[r]]) /\ version[r] = slotVer[slot[r]]
      /\ \A c \in Cells : dest[r][c] = slotData[slot[r]][c]
  BY <1>1 DEF ReaderInv, CopyInv
<1>3. dest[r] = slotData[slot[r]]
  BY <1>1, <1>2, ReaderTypes
<1>4. slotData[slot[r]] = log[slotVer[slot[r]]] /\ slotVer[slot[r]] <= Sealed
  <2>1. CASE slot[r] = word.slot
    BY <2>1, <1>1, ReaderTypes DEF PublishedSlotInv, Sealed, NextVersion
  <2>2. CASE slot[r] = InactiveSlot
    BY <2>2, <1>1, <1>2 DEF OtherSlotInv, Sealed, TypeOK
  <2>3. QED
    BY <2>1, <2>2, <1>1, SlotFacts, ReaderTypes
<1>5. from[r] <= slotVer[slot[r]]
  BY <1>1, ReaderTypes DEF ReaderInv, AttemptInv
<1>6. QED
  BY <1>1, <1>2, <1>3, <1>4, <1>5, ReaderTypes

\* An unchanged sequence closes the bracket: the copy is one commit.
LEMMA CheckSeqInv == \A r \in Readers : IInv /\ CheckSeq(r) => IInv'
<1> SUFFICES ASSUME NEW r \in Readers, IInv, CheckSeq(r) PROVE IInv'
  OBVIOUS
<1>1. TypeOK /\ ReaderInv(r)
  BY DEF IInv
<1>2. CASE slotSeq[slot[r]] # s1[r] /\ FailAttempt(r)
  <2>1. loaded[r] # word.version
    BY <1>1, <1>2 DEF ReaderInv, CopyInv, CheckSeq
  <2>2. QED
    BY <2>1, <1>2, FailAttemptInv DEF CheckSeq
<1>3. CASE /\ slotSeq[slot[r]] = s1[r]
           /\ heldVersion' = [heldVersion EXCEPT ![r] = version[r]]
           /\ heldBytes' = [heldBytes EXCEPT ![r] = dest[r]]
           /\ EndSync(r)
           /\ UNCHANGED ownerVars
  <2>1. /\ dest[r] = log[version[r]] /\ version[r] <= Sealed
        /\ version[r] \in 0..MaxVersion /\ dest[r] \in [Cells -> Values]
    BY <1>1, <1>3, BracketHolds, ReaderTypes DEF CheckSeq
  <2>2. /\ Blanks \in [Cells -> Values] /\ 0 \in Slots /\ 0 \in 0..MaxVersion
        /\ 0 \in 0..RetryCap
    BY BlankAssumption, VersionAssumption, RetryAssumption DEF Blanks, Slots
  <2>3. TypeOK'
    BY <1>1, <1>3, <2>1, <2>2 DEF TypeOK, EndSync, ResetLocals, ownerVars
  <2>4. HeldInv(r)'
    BY <1>1, <1>3, <2>1 DEF HeldInv, Sealed, NextVersion, TypeOK, ownerVars
  <2>5. AttemptInv(r)' /\ CopyInv(r)'
    BY <1>1, <1>3 DEF AttemptInv, CopyInv, EndSync, ResetLocals, TypeOK
  <2>6. QED
    BY <1>3, <2>3, <2>4, <2>5, OwnerPartUnchanged
       DEF ReaderInv, EndSync, ResetLocals, TypeOK
<1>4. QED
  BY <1>2, <1>3 DEF CheckSeq

\* A Sync that gives up leaves its caller what it held.
LEMMA GiveUpInv == \A r \in Readers : IInv /\ GiveUp(r) => IInv'
<1> SUFFICES ASSUME NEW r \in Readers, IInv, GiveUp(r) PROVE IInv'
  OBVIOUS
<1>1. TypeOK /\ ReaderInv(r)
  BY DEF IInv
<1>2. /\ Blanks \in [Cells -> Values] /\ 0 \in Slots /\ 0 \in 0..MaxVersion
      /\ 0 \in 0..RetryCap
  BY BlankAssumption, VersionAssumption, RetryAssumption DEF Blanks, Slots
<1>3. TypeOK'
  BY <1>1, <1>2 DEF TypeOK, GiveUp, EndSync, ResetLocals, ownerVars
<1>4. ReaderInv(r)'
  BY <1>1 DEF ReaderInv, HeldInv, Sealed, NextVersion, AttemptInv, CopyInv, GiveUp,
              EndSync, ResetLocals, TypeOK, ownerVars
<1>5. QED
  BY <1>3, <1>4, OwnerPartUnchanged DEF GiveUp, EndSync, ResetLocals, TypeOK

-----------------------------------------------------------------------------
(* The theorems *)

\* Every step keeps the invariant.
LEMMA NextInv == IInv /\ [Next]_vars => IInv'
<1> SUFFICES ASSUME IInv, [Next]_vars PROVE IInv'
  OBVIOUS
<1>1. CASE EnterSlot
  BY <1>1, EnterSlotInv
<1>2. CASE \E c \in Cells : ReapplyCell(c) \/ CopyInCell(c)
  BY <1>2, ReapplyCellInv, CopyInCellInv
<1>3. CASE StampSlot
  BY <1>3, StampSlotInv
<1>4. CASE LeaveSlot
  BY <1>4, LeaveSlotInv
<1>5. CASE PublishWord
  BY <1>5, PublishWordInv
<1>6. ASSUME NEW r \in Readers, Sync(r) PROVE IInv'
  BY <1>6, CallSyncInv, LoadWordInv, LoadSeqInv, CopyOutCellInv, LoadVersionInv,
     CheckSeqInv, GiveUpInv DEF Sync
<1>7. CASE UNCHANGED vars
  BY <1>7 DEF vars, ownerVars, readerVars, localVars, IInv, TypeOK, PublishedSlotInv,
     OtherSlotInv, FlushInv, ReaderInv, HeldInv, AttemptInv, CopyInv, Sealed,
     InactiveSlot, NextVersion
<1>8. QED
  BY <1>1, <1>2, <1>3, <1>4, <1>5, <1>6, <1>7 DEF Next, Flush

\* The invariant the other theorems follow from.
THEOREM Invariance == Spec => []IInv
<1>1. Init => IInv
  BY InitInv
<1>2. IInv /\ [Next]_vars => IInv'
  BY NextInv
<1>3. QED
  BY <1>1, <1>2, PTL DEF Spec

\* Type correctness of Flush and Sync, the version and attempt bounds included.
THEOREM TypeCorrect == Spec => []TypeOK
<1>1. IInv => TypeOK
  BY DEF IInv
<1>2. QED
  BY <1>1, Invariance, PTL

\* Whatever the interleaving of Flush and Sync, a reader holds one whole commit
\* exactly as it was declared.
THEOREM NoTornCopy == Spec => []SyncedCopyIsOneCommit
<1>1. IInv => SyncedCopyIsOneCommit
  BY DEF IInv, ReaderInv, HeldInv, SyncedCopyIsOneCommit
<1>2. QED
  BY <1>1, Invariance, PTL

\* A Sync that is still running has failed no more often than the owner published.
THEOREM RetriesArePaid == Spec => []RetryPaidByPublish
<1>1. IInv => RetryPaidByPublish
  BY DEF IInv, ReaderInv, AttemptInv, RetryPaidByPublish
<1>2. QED
  BY <1>1, Invariance, PTL

\* A Sync never returns a commit older than the one published when it was called.
THEOREM NoStaleSync == Spec => SyncNotOlderThanCall
<1> DEFINE Fresh == \A r \in Readers :
       readerPc[r] = "copy" /\ readerPc'[r] = "idle" => heldVersion'[r] >= from[r]
<1>1. IInv /\ [Next]_vars => [Fresh]_vars
  <2> SUFFICES ASSUME IInv, Next, NEW r \in Readers, readerPc[r] = "copy",
                      readerPc'[r] = "idle"
               PROVE  heldVersion'[r] >= from[r]
    OBVIOUS
  <2>1. TypeOK
    BY DEF IInv
  <2>2. CheckSeq(r)
    <3>1. ~Flush
      BY DEF Flush, EnterSlot, ReapplyCell, CopyInCell, StampSlot, LeaveSlot,
             PublishWord, readerVars
    <3>2. PICK q \in Readers : Sync(q)
      BY <3>1 DEF Next
    <3>3. q = r
      BY <3>2, <2>1 DEF TypeOK, Sync, CallSync, LoadWord, LoadSeq, FailAttempt,
         CopyOutCell,
                 LoadVersion, CheckSeq, GiveUp, EndSync
    <3>4. QED
      BY <3>2, <3>3, <2>1 DEF TypeOK, Sync, CallSync, LoadWord, LoadSeq, FailAttempt,
         CopyOutCell,
                        LoadVersion, GiveUp
  <2>3. /\ copied[r] = Cells /\ version[r] # Unread /\ slotSeq[slot[r]] = s1[r]
        /\ heldVersion' = [heldVersion EXCEPT ![r] = version[r]]
    BY <2>1, <2>2 DEF CheckSeq, FailAttempt, TypeOK
  <2>4. from[r] <= version[r] /\ version[r] \in Nat
    BY <2>3, BracketHolds, VersionAssumption
  <2>5. QED
    BY <2>1, <2>3, <2>4, ReaderTypes DEF TypeOK
<1>2. QED
  BY <1>1, Invariance, PTL DEF Spec, SyncNotOlderThanCall

-----------------------------------------------------------------------------
(* Refinement *)

\* The empty region is the empty log.
LEMMA RefinesInit == Init => CommitLog!Init
<1> SUFFICES ASSUME Init PROVE CommitLog!Init
  OBVIOUS
<1>1. Sealed = 0 /\ log[0] = Blanks
  BY VersionAssumption DEF Init, Sealed
<1>2. [v \in 0..Sealed |-> log[v]] = [v \in 0..0 |-> Blanks]
  BY <1>1
<1>3. QED
  BY <1>2 DEF Init, CommitLog!Init, Blanks

\* The owner's steps seal a commit, publish it, or show a reader nothing.
LEMMA RefinesFlush == IInv /\ Flush => [CommitLog!Next]_(CommitLog!vars)
<1> SUFFICES ASSUME IInv, Flush PROVE [CommitLog!Next]_(CommitLog!vars)
  OBVIOUS
<1> USE DEF readerVars, localVars
<1>1. TypeOK /\ FlushInv
  BY DEF IInv
<1>2. /\ word.version \in 0..MaxVersion /\ NextVersion = word.version + 1
      /\ word.version \in Nat
  BY <1>1, SlotFacts, VersionAssumption DEF NextVersion
<1>3. /\ UNCHANGED <<readerPc, from, heldVersion, heldBytes>>
      /\ ownerPc' # "sealed" => Sealed' = word'.version
      /\ ownerPc # "sealed" => Sealed = word.version
  BY DEF Flush, EnterSlot, ReapplyCell, CopyInCell, StampSlot, LeaveSlot, PublishWord,
     Sealed
<1>4. CASE EnterSlot
  <2>1. Sealed = word.version /\ Sealed' = Sealed /\ word' = word
    BY <1>3, <1>4 DEF EnterSlot
  <2>2. \A v \in 0..Sealed : log'[v] = log[v]
    BY <1>1, <1>2, <1>4, <2>1 DEF EnterSlot, TypeOK
  <2>3. [v \in 0..Sealed' |-> log'[v]] = [v \in 0..Sealed |-> log[v]]
    BY <2>1, <2>2
  <2>4. QED
    BY <1>3, <2>1, <2>3 DEF CommitLog!vars
<1>5. CASE (\E c \in Cells : ReapplyCell(c) \/ CopyInCell(c)) \/ StampSlot
  <2>1. Sealed' = Sealed /\ word' = word /\ log' = log
    BY <1>3, <1>5 DEF ReapplyCell, CopyInCell, StampSlot
  <2>2. QED
    BY <1>3, <2>1 DEF CommitLog!vars
<1>6. CASE LeaveSlot
  <2>1. /\ Sealed = word.version /\ Sealed' = word.version + 1 /\ word' = word /\ log' = log
    BY <1>2, <1>3, <1>6 DEF LeaveSlot, Sealed, NextVersion
  <2>2. log[NextVersion] \in [Cells -> Values]
    BY <1>1, <1>2, <1>6, SlotFacts DEF LeaveSlot, FlushInv, TypeOK
  <2>3. CommitLog!Seal
    BY <1>2, <1>3, <2>1, <2>2 DEF CommitLog!Seal, CommitLog!Bytes, CommitLog!readerVars
  <2>4. QED
    BY <2>3 DEF CommitLog!Next
<1>7. CASE PublishWord
  <2>1. /\ Sealed = word.version + 1 /\ word'.version = word.version + 1
        /\ Sealed' = Sealed /\ log' = log
    BY <1>2, <1>3, <1>7 DEF PublishWord, Sealed, NextVersion
  <2>2. CommitLog!Publish
    BY <1>2, <1>3, <2>1 DEF CommitLog!Publish, CommitLog!readerVars
  <2>3. QED
    BY <2>2 DEF CommitLog!Next
<1>8. QED
  BY <1>4, <1>5, <1>6, <1>7 DEF Flush

\* A reader's steps call, return or give up; the others it keeps to itself.
LEMMA RefinesSync ==
  \A r \in Readers : IInv /\ Sync(r) => [CommitLog!Next]_(CommitLog!vars)
<1> SUFFICES ASSUME NEW r \in Readers, IInv, Sync(r)
             PROVE  [CommitLog!Next]_(CommitLog!vars)
  OBVIOUS
<1> DEFINE commits == [v \in 0..Sealed |-> log[v]]
           syncing == [q \in Readers |-> readerPc[q] # "idle"]
<1>1. TypeOK /\ ReaderInv(r)
  BY DEF IInv
<1>2. UNCHANGED ownerVars
  BY DEF Sync, CallSync, LoadWord, LoadSeq, FailAttempt, CopyOutCell, LoadVersion,
         CheckSeq, GiveUp
<1>3. Sealed' = Sealed /\ commits' = commits /\ word' = word
  BY <1>2 DEF ownerVars, Sealed, NextVersion
<1>4. CASE CallSync(r)
  <2>1. ~syncing[r] /\ syncing' = [syncing EXCEPT ![r] = TRUE]
    BY <1>1, <1>4 DEF CallSync, TypeOK
  <2>2. CommitLog!Call(r)
    BY <1>3, <1>4, <2>1 DEF CommitLog!Call, CallSync
  <2>3. QED
    BY <2>2 DEF CommitLog!Next
<1>5. CASE \/ LoadWord(r) \/ LoadVersion(r) \/ (\E c \in Cells : CopyOutCell(r, c))
           \/ LoadSeq(r) \/ (CheckSeq(r) /\ FailAttempt(r))
  <2>1. /\ readerPc[r] # "idle"
        /\ \/ UNCHANGED readerPc
           \/ \E label \in {"load", "seq", "copy"} :
                readerPc' = [readerPc EXCEPT ![r] = label]
    BY <1>5 DEF LoadWord, LoadSeq, FailAttempt, CopyOutCell, LoadVersion, CheckSeq
  <2>2. syncing' = syncing
    BY <1>1, <2>1 DEF TypeOK
  <2>3. UNCHANGED <<from, heldVersion, heldBytes>>
    BY <1>5 DEF LoadWord, LoadSeq, FailAttempt, CopyOutCell, LoadVersion
  <2>4. QED
    BY <1>3, <2>2, <2>3 DEF CommitLog!vars
<1>6. ASSUME EndSync(r), readerPc[r] # "idle"
      PROVE  syncing[r] /\ syncing' = [syncing EXCEPT ![r] = FALSE]
             /\ from' = [from EXCEPT ![r] = 0]
  BY <1>1, <1>6 DEF EndSync, TypeOK
<1>7. CASE CheckSeq(r) /\ ~FailAttempt(r)
  <2>1. /\ EndSync(r) /\ readerPc[r] = "copy"
        /\ heldVersion' = [heldVersion EXCEPT ![r] = version[r]]
        /\ heldBytes' = [heldBytes EXCEPT ![r] = dest[r]]
        /\ copied[r] = Cells /\ version[r] # Unread /\ slotSeq[slot[r]] = s1[r]
    BY <1>7 DEF CheckSeq
  <2>2. /\ version[r] \in 0..Sealed /\ version[r] >= from[r]
        /\ dest[r] = log[version[r]]
    <3>1. Sealed \in Nat
      BY <1>1, SlotFacts, VersionAssumption DEF Sealed
    <3>2. QED
      BY <3>1, <2>1, <1>1, BracketHolds, ReaderTypes
  <2>3. CommitLog!Return(r)
    BY <1>3, <1>6, <2>1, <2>2 DEF CommitLog!Return, CommitLog!End
  <2>4. QED
    BY <2>3 DEF CommitLog!Next
<1>8. CASE GiveUp(r)
  <2>1. readerPc[r] = "load" /\ word.version >= from[r] + RetryCap
    BY <1>1, <1>8, ReaderTypes DEF ReaderInv, AttemptInv, GiveUp
  <2>2. CommitLog!Lapped(r)
    BY <1>3, <1>6, <1>8, <2>1 DEF GiveUp, CommitLog!Lapped, CommitLog!End
  <2>3. QED
    BY <2>2 DEF CommitLog!Next
<1>9. QED
  BY <1>4, <1>5, <1>7, <1>8 DEF Sync

\* The transport implements the abstract log of whole commits.
THEOREM Refinement == Spec => ImplementsCommitLog
<1>1. Init => CommitLog!Init
  BY RefinesInit
<1>2. IInv /\ [Next]_vars => [CommitLog!Next]_(CommitLog!vars)
  <2>1. CASE UNCHANGED vars
    BY <2>1 DEF vars, ownerVars, readerVars, CommitLog!vars, Sealed, NextVersion
  <2>2. QED
    BY <2>1, RefinesFlush, RefinesSync DEF Next
<1>3. QED
  BY <1>1, <1>2, Invariance, PTL DEF Spec, ImplementsCommitLog, CommitLog!Spec

=============================================================================
