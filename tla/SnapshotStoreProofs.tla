------------------------- MODULE SnapshotStoreProofs -------------------------
(***************************************************************************)
(* Proofs about SnapshotStore, for any number of commits, saves waiting to *)
(* be written, failures and restarts.                                      *)
(*                                                                         *)
(* The inductive invariant is an order: the file, the write that runs, the *)
(* writes chained behind it and the pending save hold ever later commits.  *)
(***************************************************************************)
EXTENDS SnapshotStore, TLAPS

\* What each step of a write has, and that it is ahead of what was written.
WriteInv ==
  /\ file >= 0
  /\ step = "idle" <=> writing = None
  /\ step = "rename" => temp = writing
  /\ step = "unlink" => failed = writing
  /\ step \notin {"idle", "unlink"} => file < writing /\ failed < writing
  /\ writing <= commits

\* The chained writes are in the order of their commits, behind the one running.
QueueInv ==
  /\ \A i \in 1..Len(queue) :
       /\ file < queue[i] /\ failed < queue[i] /\ writing < queue[i]
       /\ queue[i] <= commits
  /\ \A i, j \in 1..Len(queue) : i < j => queue[i] < queue[j]

\* The pending save is the last commit, and nothing else holds it.
PendingInv ==
  pending # None =>
    /\ pending = commits
    /\ file < pending /\ failed < pending /\ writing < pending
    /\ \A i \in 1..Len(queue) : queue[i] < pending

\* A life that has not committed has nothing to write.
Quiet == /\ pending = None
         /\ queue = <<>>
         /\ step = "idle"

LifeInv ==
  /\ ~Running => Quiet
  /\ Running => state = commits \/ (Quiet /\ state \in {file, failed})

IInv == TypeOK /\ WriteInv /\ QueueInv /\ PendingInv /\ LifeInv /\ LastValueIsCarried

\* Taking the first write off the chain shifts the others.
LEMMA TailShifts ==
  ASSUME NEW s \in Seq(Commits), s # <<>>
  PROVE  /\ Head(s) = s[1] /\ Head(s) \in Commits /\ Len(s) >= 1
         /\ Tail(s) \in Seq(Commits)
         /\ Len(Tail(s)) = Len(s) - 1
         /\ \A i \in 1..Len(Tail(s)) : Tail(s)[i] = s[i+1] /\ i + 1 \in 1..Len(s)
OBVIOUS

\* Chaining a write leaves the others where they are.
LEMMA AppendKeeps ==
  ASSUME NEW s \in Seq(Commits), NEW v \in Commits
  PROVE  /\ Append(s, v) \in Seq(Commits)
         /\ Len(Append(s, v)) = Len(s) + 1
         /\ \A i \in 1..Len(s) : Append(s, v)[i] = s[i]
         /\ Append(s, v)[Len(s) + 1] = v
OBVIOUS

\* No chained write is a chain of writes.
LEMMA NothingChained == <<>> \in Seq(Commits)
OBVIOUS

\* With nothing chained there is no order to keep.
LEMMA EmptyQueue == queue = <<>> => QueueInv
<1>1. queue = <<>> => 1..Len(queue) = {}
  OBVIOUS
<1>2. QED
  BY <1>1 DEF QueueInv

\* At the start nothing is running and nothing is on disk.
LEMMA InitInv == Init => IInv
<1> SUFFICES ASSUME Init PROVE IInv
  OBVIOUS
<1>1. TypeOK /\ WriteInv
  <2>1. WriteInv
    BY DEF Init, WriteInv, None
  <2>2. queue \in Seq(Commits)
    BY NothingChained DEF Init
  <2>3. timer \in BOOLEAN /\ timer = (pending # None)
    BY Zenon DEF Init
  <2>4. TypeOK
    BY CommitsAssumption, <2>2, <2>3 DEF Init, TypeOK, None
  <2>5. QED
    BY <2>1, <2>4
<1>2. QueueInv
  BY EmptyQueue DEF Init
<1>3. PendingInv /\ LifeInv /\ LastValueIsCarried
  BY DEF Init, PendingInv, LifeInv, LastValueIsCarried, Quiet, Running, None
<1>4. QED
  BY <1>1, <1>2, <1>3 DEF IInv

\* flush hands the pending save to the end of the chain.
LEMMA FlushInv ==
  ASSUME IInv, Flush, UNCHANGED <<commits, state, diskVars>>,
         phase' \in {"up", "quitting", "closed"}, quitAt' \in 0..commits,
         Running \/ pending = None, Running
  PROVE  IInv'
<1>1. CASE pending = None
  <2>1. queue' = queue /\ pending' = pending /\ timer' = timer
    BY <1>1 DEF Flush, IInv, TypeOK
  <2>2. QED
    BY <2>1 DEF IInv, TypeOK, WriteInv, QueueInv, PendingInv, LifeInv, Quiet,
       LastValueIsCarried, Running, diskVars
<1>2. CASE pending # None
  <2>1. /\ queue' = Append(queue, pending) /\ pending' = None /\ timer' = FALSE
        /\ pending \in Commits /\ queue \in Seq(Commits) /\ commits \in Nat
    BY <1>2, CommitsAssumption DEF Flush, IInv, TypeOK, Commits
  <2>2. /\ queue' \in Seq(Commits)
        /\ Len(queue') = Len(queue) + 1 /\ Len(queue) \in Nat
        /\ \A i \in 1..Len(queue) : queue'[i] = queue[i]
        /\ queue'[Len(queue) + 1] = pending
    BY <2>1, AppendKeeps
  <2>3. TypeOK' /\ WriteInv' /\ PendingInv'
    BY <2>1, <2>2 DEF IInv, TypeOK, WriteInv, PendingInv, diskVars
  <2>4. QueueInv'
    BY <1>2, <2>1, <2>2 DEF IInv, QueueInv, PendingInv, diskVars
  <2>5. LifeInv'
    BY <1>2, <2>1 DEF IInv, LifeInv, Quiet, diskVars, Running
  <2>6. LastValueIsCarried'
    <3>1. CASE state = pending
      BY <2>1, <2>2, <3>1 DEF LastValueIsCarried
    <3>2. CASE \E i \in DOMAIN queue : queue[i] = state
      BY <2>1, <2>2, <3>2 DEF LastValueIsCarried
    <3>3. CASE state \in {file, failed, writing}
      BY <3>3 DEF LastValueIsCarried, diskVars
    <3>4. QED
      BY <3>1, <3>2, <3>3 DEF IInv, LastValueIsCarried
  <2>7. QED
    BY <2>3, <2>4, <2>5, <2>6 DEF IInv
<1>3. QED
  BY <1>1, <1>2

\* The start, the commits and the end of a life.
LEMMA LifeSteps == IInv /\ (Start \/ Commit \/ Exit \/ Crash) => IInv'
<1> SUFFICES ASSUME IInv, Start \/ Commit \/ Exit \/ Crash PROVE IInv'
  OBVIOUS
<1>1. CASE Start
  BY <1>1 DEF Start, IInv, TypeOK, WriteInv, QueueInv, PendingInv, LifeInv, Quiet,
     LastValueIsCarried, Running, Commits, None, Partial, saveVars
<1>2. CASE Commit
  <2>1. /\ commits \in Nat /\ commits + 1 \in Commits /\ commits' = commits + 1
        /\ state' = commits' /\ pending' = commits' /\ timer' = TRUE
        /\ UNCHANGED <<phase, queue, step, writing, temp, file, failed, quitAt>>
        /\ Running'
    BY <1>2, CommitsAssumption DEF Commit, Save, Running, diskVars, IInv, TypeOK, Commits
  <2>2. timer' \in BOOLEAN /\ timer' = (pending' # None)
    <3>1. pending' # None
      BY <2>1 DEF Commits, None
    <3>2. QED
      BY <2>1, <3>1, Zenon
  <2>3. TypeOK' /\ WriteInv'
    BY <2>1, <2>2, CommitsAssumption DEF IInv, TypeOK, WriteInv, Commits, None, Partial
  <2>4. \A i \in 1..Len(queue) : queue[i] \in Commits
    BY DEF IInv, TypeOK
  <2>5. QueueInv' /\ PendingInv'
    <3>1. /\ commits < commits' /\ commits \in Int /\ commits' \in Int
          /\ file <= commits /\ failed <= commits /\ writing <= commits
          /\ file \in Int /\ failed \in Int /\ writing \in Int
      BY <2>1 DEF IInv, TypeOK, WriteInv, Commits, None, Partial
    <3>2. QueueInv
      BY DEF IInv
    <3>3. ASSUME NEW i \in 1..Len(queue) PROVE queue[i] <= commits /\ queue[i] < commits'
      <4>1. queue[i] \in Int
        BY <2>4 DEF Commits
      <4>2. queue[i] <= commits
        BY <3>2 DEF QueueInv
      <4>3. QED
        BY <3>1, <4>1, <4>2
    <3>4. QueueInv'
      BY <2>1, <2>4, <3>1, <3>2, <3>3 DEF QueueInv, Commits
    <3>5. PendingInv'
      BY <2>1, <3>1, <3>3 DEF PendingInv
    <3>6. QED
      BY <3>4, <3>5
  <2>6. LifeInv' /\ LastValueIsCarried'
    BY <2>1 DEF LifeInv, LastValueIsCarried
  <2>7. QED
    BY <2>3, <2>5, <2>6 DEF IInv
<1>3. CASE Exit \/ Crash
  <2>1. Die /\ quitAt' \in 0..commits
    BY <1>3 DEF Exit, Crash, IInv, TypeOK
  <2>2. TypeOK' /\ WriteInv'
    <3>1. WriteInv'
      BY <2>1, CommitsAssumption DEF Die, IInv, TypeOK, WriteInv, None
    <3>2. queue' \in Seq(Commits)
      BY <2>1, NothingChained DEF Die
    <3>3. timer' \in BOOLEAN /\ timer' = (pending' # None)
      BY <2>1, Zenon DEF Die
    <3>4. TypeOK'
      BY <2>1, <3>2, <3>3, CommitsAssumption DEF Die, IInv, TypeOK, None
    <3>5. QED
      BY <3>1, <3>4
  <2>3. QueueInv'
    <3>1. queue' = <<>> => 1..Len(queue') = {}
      OBVIOUS
    <3>2. QED
      BY <2>1, <3>1 DEF Die, QueueInv
  <2>4. PendingInv' /\ LifeInv' /\ LastValueIsCarried'
    BY <2>1 DEF Die, PendingInv, LifeInv, LastValueIsCarried, Quiet, Running
  <2>5. QED
    BY <2>2, <2>3, <2>4 DEF IInv
<1>4. QED
  BY <1>1, <1>2, <1>3

\* The steps of a write keep the order and drop no value.
LEMMA WriteSteps == IInv /\ WriteStep => IInv'
<1> SUFFICES ASSUME IInv, WriteStep PROVE IInv'
  OBVIOUS
<1>1. CASE StartWrite
  <2>1. /\ queue \in Seq(Commits) /\ queue # <<>> /\ commits \in Nat
        /\ writing' = Head(queue) /\ queue' = Tail(queue) /\ step' = "mkdir"
    BY <1>1, CommitsAssumption DEF StartWrite, IInv, TypeOK
  <2>2. /\ writing' = queue[1] /\ writing' \in Commits /\ Len(queue) >= 1
        /\ queue' \in Seq(Commits)
        /\ \A i \in 1..Len(queue') : queue'[i] = queue[i+1] /\ i + 1 \in 1..Len(queue)
    BY <2>1, TailShifts
  <2>3. TypeOK' /\ WriteInv'
    BY <1>1, <2>1, <2>2 DEF StartWrite, IInv, TypeOK, WriteInv, QueueInv, Commits, None
  <2>4. QueueInv' /\ PendingInv'
    BY <1>1, <2>1, <2>2 DEF StartWrite, IInv, TypeOK, QueueInv, PendingInv
  <2>5. LifeInv'
    BY <1>1 DEF StartWrite, IInv, LifeInv, Quiet, Running
  <2>6. LastValueIsCarried'
    <3>1. CASE \E i \in DOMAIN queue : queue[i] = state
      <4>1. PICK i \in 1..Len(queue) : queue[i] = state
        BY <2>1, <3>1
      <4>2. i = 1 \/ (i - 1 \in 1..Len(queue') /\ queue'[i - 1] = state)
        BY <2>1, <2>2, <4>1, TailShifts
      <4>3. CASE i = 1
        BY <1>1, <2>2, <4>1, <4>3 DEF StartWrite, LastValueIsCarried
      <4>4. CASE i # 1
        <5>1. /\ i - 1 \in DOMAIN queue' /\ queue'[i - 1] = state
              /\ state' = state
          BY <1>1, <2>2, <4>2, <4>4 DEF StartWrite
        <5>2. QED
          BY <5>1 DEF LastValueIsCarried
      <4>5. QED
        BY <4>3, <4>4
    <3>2. CASE state \in {file, failed, pending, writing}
      BY <1>1, <3>2 DEF StartWrite, IInv, WriteInv, LastValueIsCarried, LifeInv, Quiet,
         TypeOK, Running, PendingInv
    <3>3. QED
      BY <1>1, <3>1, <3>2 DEF StartWrite, IInv, LastValueIsCarried, Running
  <2>7. QED
    BY <2>3, <2>4, <2>5, <2>6 DEF IInv
<1>2. CASE Mkdir \/ OpenTemp \/ FillTemp
  BY <1>2 DEF Mkdir, OpenTemp, FillTemp, Write, IInv, TypeOK, WriteInv, QueueInv,
     PendingInv, LifeInv, Quiet, LastValueIsCarried, Running, saveVars
<1>3. CASE Rename
  <2>1. /\ file' = writing /\ temp' = None /\ writing' = None /\ step' = "idle"
        /\ writing \in Commits /\ file < writing /\ failed < writing
        /\ UNCHANGED <<phase, commits, state, timer, pending, queue, failed, quitAt>>
    BY <1>3 DEF Rename, Write, IInv, TypeOK, WriteInv, saveVars
  <2>2. TypeOK' /\ WriteInv'
    BY <2>1 DEF IInv, TypeOK, WriteInv, Commits, None
  <2>3. QueueInv' /\ PendingInv'
    <3>1. \A i \in 1..Len(queue) : queue[i] \in Commits
      BY DEF IInv, TypeOK
    <3>2. QueueInv'
      BY <2>1, <3>1 DEF IInv, QueueInv, Commits, None
    <3>3. PendingInv'
      BY <2>1 DEF IInv, TypeOK, PendingInv, Commits, None
    <3>4. QED
      BY <3>2, <3>3
  <2>4. LifeInv'
    BY <1>3, <2>1 DEF Rename, Write, IInv, LifeInv, Quiet, Running
  <2>5. LastValueIsCarried'
    <3>1. state = file => state = commits /\ Running
      BY <1>3 DEF Rename, Write, IInv, LifeInv, Quiet
    <3>2. state # file
      BY <2>1, <3>1 DEF IInv, TypeOK, WriteInv, Commits, None, Partial
    <3>3. QED
      BY <2>1, <3>2 DEF IInv, LastValueIsCarried, Running
  <2>6. QED
    BY <2>2, <2>3, <2>4, <2>5 DEF IInv
<1>4. CASE Fail
  BY <1>4 DEF Fail, Write, IInv, TypeOK, WriteInv, QueueInv, PendingInv, LifeInv, Quiet,
     LastValueIsCarried, Running, Commits, None, saveVars
<1>5. CASE Unlink
  <2>1. /\ failed = writing /\ writing \in Commits
        /\ temp' = None /\ writing' = None /\ step' = "idle"
        /\ UNCHANGED <<phase, commits, state, timer, pending, queue, file, failed, quitAt>>
    BY <1>5 DEF Unlink, Write, IInv, TypeOK, WriteInv, saveVars
  <2>2. TypeOK' /\ WriteInv'
    BY <2>1, CommitsAssumption DEF IInv, TypeOK, WriteInv, Commits, None
  <2>3. QueueInv' /\ PendingInv'
    <3>1. \A i \in 1..Len(queue) : queue[i] \in Commits
      BY DEF IInv, TypeOK
    <3>2. QueueInv'
      BY <2>1, <3>1 DEF IInv, QueueInv, Commits, None
    <3>3. PendingInv'
      BY <2>1 DEF IInv, TypeOK, PendingInv, Commits, None
    <3>4. QED
      BY <3>2, <3>3
  <2>4. LifeInv' /\ LastValueIsCarried'
    BY <1>5, <2>1 DEF Unlink, Write, IInv, LifeInv, Quiet, LastValueIsCarried, Running
  <2>5. QED
    BY <2>2, <2>3, <2>4 DEF IInv
<1>6. QED
  BY <1>1, <1>2, <1>3, <1>4, <1>5 DEF WriteStep

\* Every step of the app, the timer and the writer keeps the order.
LEMMA NextInv == IInv /\ [Next]_vars => IInv'
<1> SUFFICES ASSUME IInv, [Next]_vars PROVE IInv'
  OBVIOUS
<1>1. CASE Fire \/ Quit \/ Close
  <2>1. Running
    BY <1>1 DEF Fire, Quit, Close, Running, IInv, LifeInv, Quiet, TypeOK
  <2>2. /\ Flush /\ UNCHANGED <<commits, state, diskVars>>
        /\ phase' \in {"up", "quitting", "closed"} /\ quitAt' \in 0..commits
    BY <1>1, <2>1 DEF Fire, Quit, Close, Running, IInv, TypeOK
  <2>3. QED
    BY <2>1, <2>2, FlushInv
<1>2. CASE UNCHANGED vars
  BY <1>2 DEF vars, saveVars, diskVars, IInv, TypeOK, WriteInv, QueueInv, PendingInv,
     LifeInv, Quiet, LastValueIsCarried, Running
<1>3. QED
  BY <1>1, <1>2, LifeSteps, WriteSteps DEF Next

\* A rename puts a later commit in the place of an earlier one, and nothing
\* else touches the file.
LEMMA StepForward == IInv /\ [Next]_vars => file' >= file
<1> SUFFICES ASSUME IInv, [Next]_vars PROVE file' >= file
  OBVIOUS
<1>1. file \in Int /\ (file' = file => file' >= file)
  BY DEF IInv, TypeOK, Partial
<1>2. CASE Rename
  BY <1>1, <1>2 DEF Rename, Write, IInv, WriteInv, TypeOK, Commits, None, Partial
<1>3. CASE ~Rename
  BY <1>1, <1>3 DEF Next, WriteStep, Start, Commit, Fire, Quit, Close, Exit, Crash, Die,
     StartWrite, Mkdir, OpenTemp, FillTemp, Fail, Unlink, diskVars, vars
<1>4. QED
  BY <1>2, <1>3

-----------------------------------------------------------------------------

\* The order of file, running write, chained writes and pending save is kept by
\* every step of every life of the app.
THEOREM Invariance == Spec => []IInv
BY InitInv, NextInv, PTL DEF Spec

\* The values keep their types, and a timer is set exactly when a save waits.
THEOREM TypeCorrect == Spec => []TypeOK
<1>1. IInv => TypeOK
  BY DEF IInv
<1>2. QED
  BY <1>1, Invariance, PTL

\* The target is never a file that is half written, whenever the process dies.
THEOREM WholeFile == Spec => []FileIsWhole
<1>1. IInv => FileIsWhole
  BY DEF IInv, WriteInv, FileIsWhole, Partial
<1>2. QED
  BY <1>1, Invariance, PTL

\* No race of save, flush, timer and write loses the value the store holds.
THEOREM CarriedValue == Spec => []LastValueIsCarried
<1>1. IInv => LastValueIsCarried
  BY DEF IInv
<1>2. QED
  BY <1>1, Invariance, PTL

\* The file only ever goes from a commit to a later one.
THEOREM ForwardFile == Spec => FileNeverGoesBack
<1>1. IInv /\ [Next]_vars => [file' >= file]_vars
  BY StepForward
<1>2. QED
  BY <1>1, Invariance, PTL DEF Spec, FileNeverGoesBack

=============================================================================
