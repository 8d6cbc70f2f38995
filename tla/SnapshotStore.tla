---------------------------- MODULE SnapshotStore ----------------------------
(***************************************************************************)
(* Persistence, packages/electron/src/persistence.ts, and the owner around *)
(* it (native/owner-core.ts, native/owner.ts): every commit is saved, a    *)
(* debounce timer coalesces the saves, the writes are chained one behind   *)
(* the other and each is a temporary file renamed over the target.         *)
(*                                                                         *)
(* A value is named by the commit that made it, so a lost commit and an    *)
(* old file show.  The process may die between any two steps of a write:   *)
(* by a crash, or because nothing waits for the write when the app quits.  *)
(* What the file system does with a rename when the machine loses power is *)
(* not modelled: the code syncs nothing and promises nothing.              *)
(***************************************************************************)
EXTENDS Integers, Sequences

CONSTANT MaxCommits   \* bound: commits over all the lives of the app

ASSUME CommitsAssumption == MaxCommits \in Nat

VARIABLES
  phase,    \* the app: "down", "up", "quitting" after before-quit, or "closed"
  commits,  \* commits made so far
  state,    \* the commit the store holds, 0 for the configured initial state
  timer,    \* SnapshotStore.#timer is set
  pending,  \* SnapshotStore.#pending, or None
  queue,    \* the writes chained behind the one that runs, SnapshotStore.#writing
  step,     \* where the running #write is
  writing,  \* its value, or None
  temp,     \* its temporary file
  file,     \* the target, 0 when there is none
  failed,   \* history: the last value whose write failed in this life
  quitAt    \* history: what the store held at before-quit, when the app went by it

saveVars == <<timer, pending, queue>>
diskVars == <<step, writing, temp, file, failed>>
vars     == <<phase, commits, state, saveVars, diskVars, quitAt>>

None    == 0
Partial == -1    \* a file that is being written
Commits == 1..MaxCommits

Running == phase # "down"

Init ==
  /\ phase = "down"
  /\ commits = 0
  /\ state = 0
  /\ timer = FALSE
  /\ pending = None
  /\ queue = <<>>
  /\ step = "idle"
  /\ writing = None
  /\ temp = None
  /\ file = 0
  /\ failed = 0
  /\ quitAt = 0

-----------------------------------------------------------------------------
(* The app and its commits *)

\* restoreNativeOwner: load, then the first commit of the store, which nobody
\* has subscribed to yet.  A file that cannot be read counts as missing.
Start ==
  /\ phase = "down"
  /\ phase' = "up"
  /\ state' \in {file, 0}
  /\ failed' = 0
  /\ quitAt' = 0
  /\ UNCHANGED <<commits, saveVars, step, writing, temp, file>>

\* Mutant: a save behind a running timer is dropped.
MutantSave(value) ==
  /\ pending' = IF timer THEN pending ELSE value
  /\ timer' = TRUE
  /\ UNCHANGED queue

Save(value) ==
  /\ pending' = value
  /\ timer' = TRUE
  /\ UNCHANGED queue

\* A commit runs the owner's subscriber, which saves it.  Windows can still
\* dispatch between before-quit and the exit.
Commit ==
  /\ phase \in {"up", "quitting"}
  /\ commits < MaxCommits
  /\ commits' = commits + 1
  /\ state' = commits + 1
  /\ Save(commits + 1)
  /\ UNCHANGED <<phase, diskVars, quitAt>>

\* Mutant: flush leaves the value to the write that is running.
MutantFlush ==
  /\ timer' = FALSE
  /\ IF step = "idle"
     THEN /\ queue' = IF pending = None THEN queue ELSE Append(queue, pending)
          /\ pending' = None
     ELSE UNCHANGED <<pending, queue>>

Flush ==
  /\ timer' = FALSE
  /\ pending' = None
  /\ queue' = IF pending = None THEN queue ELSE Append(queue, pending)

\* The debounce timer fires.
Fire ==
  /\ timer
  /\ Flush
  /\ UNCHANGED <<phase, commits, state, diskVars, quitAt>>

\* before-quit: the flush is started and not waited for.
Quit ==
  /\ phase = "up"
  /\ phase' = "quitting"
  /\ quitAt' = state
  /\ Flush
  /\ UNCHANGED <<commits, state, diskVars>>

\* NativeOwner.close, in a process that lives on.
Close ==
  /\ phase \in {"up", "quitting"}
  /\ phase' = "closed"
  /\ Flush
  /\ UNCHANGED <<commits, state, diskVars, quitAt>>

\* The process ends, and with it the timer, the queue and the running write.
Die ==
  /\ phase' = "down"
  /\ state' = 0
  /\ timer' = FALSE
  /\ pending' = None
  /\ queue' = <<>>
  /\ step' = "idle"
  /\ writing' = None
  /\ temp' = None
  /\ UNCHANGED <<commits, file, failed>>

\* Electron ends the process some time after before-quit.
Exit ==
  /\ phase = "quitting"
  /\ Die
  /\ UNCHANGED quitAt

Crash ==
  /\ Running
  /\ Die
  /\ quitAt' = 0

-----------------------------------------------------------------------------
(* The writes *)

\* Mutant: the writes are not chained, and the last one asked for goes first.
MutantStartWrite ==
  /\ step = "idle"
  /\ queue # <<>>
  /\ writing' = queue[Len(queue)]
  /\ queue' = SubSeq(queue, 1, Len(queue) - 1)
  /\ step' = "mkdir"
  /\ UNCHANGED <<phase, commits, state, timer, pending, temp, file, failed, quitAt>>

StartWrite ==
  /\ step = "idle"
  /\ queue # <<>>
  /\ writing' = Head(queue)
  /\ queue' = Tail(queue)
  /\ step' = "mkdir"
  /\ UNCHANGED <<phase, commits, state, timer, pending, temp, file, failed, quitAt>>

Write(from, to) ==
  /\ step = from
  /\ step' = to
  /\ UNCHANGED <<phase, commits, state, saveVars, quitAt>>

Mkdir ==
  /\ Write("mkdir", "open")
  /\ UNCHANGED <<writing, temp, file, failed>>

\* Mutant: writeFile goes straight to the target.
MutantOpenTemp ==
  /\ Write("open", "fill")
  /\ temp' = writing
  /\ file' = Partial
  /\ UNCHANGED <<writing, failed>>

\* writeFile: the file is there long before its last byte is.
OpenTemp ==
  /\ Write("open", "fill")
  /\ temp' = Partial
  /\ UNCHANGED <<writing, file, failed>>

FillTemp ==
  /\ Write("fill", "rename")
  /\ temp' = writing
  /\ UNCHANGED <<writing, file, failed>>

Rename ==
  /\ Write("rename", "idle")
  /\ file' = temp
  /\ temp' = None
  /\ writing' = None
  /\ UNCHANGED failed

\* Any await of #write may reject: the value is given up, not retried.
Fail ==
  /\ \E at \in {"mkdir", "open", "fill", "rename"} : Write(at, "unlink")
  /\ failed' = writing
  /\ UNCHANGED <<writing, temp, file>>

\* unlink may fail too, but the next write has another temporary file.
Unlink ==
  /\ Write("unlink", "idle")
  /\ temp' = None
  /\ writing' = None
  /\ UNCHANGED <<file, failed>>

WriteStep == StartWrite \/ Mkdir \/ OpenTemp \/ FillTemp \/ Rename \/ Fail \/ Unlink

Next == Start \/ Commit \/ Fire \/ Quit \/ Close \/ Exit \/ Crash \/ WriteStep

\* While the process lives its event loop runs: timers fire and the promises of
\* the file system settle.  Nothing makes the app start, commit, quit or exit.
Spec == Init /\ [][Next]_vars /\ WF_vars(Fire) /\ WF_vars(WriteStep)

-----------------------------------------------------------------------------
(* Properties *)

\* Every variable holds a value of its type, and a running timer is what every
\* pending value waits for.
TypeOK ==
  /\ phase \in {"down", "up", "quitting", "closed"}
  /\ commits \in 0..MaxCommits
  /\ state \in 0..commits
  /\ timer \in BOOLEAN
  /\ pending \in Commits \cup {None}
  /\ timer = (pending # None)
  /\ queue \in Seq(Commits)
  /\ step \in {"idle", "mkdir", "open", "fill", "rename", "unlink"}
  /\ writing \in Commits \cup {None}
  /\ temp \in Commits \cup {None, Partial}
  /\ file \in 0..commits \cup {Partial}
  /\ failed \in 0..commits
  /\ quitAt \in 0..commits

\* A crash mid write leaves the old file or the new one, never half of either.
FileIsWhole == file # Partial

\* The file goes from one commit to a later one, whatever the timer, flush, the
\* running write and the restarts do to each other: no old save lands last.
FileNeverGoesBack == [][file' >= file]_vars

\* What the store holds is in the file, or is on its way there, or its write
\* has failed: no race of save, flush and write drops the last value.
LastValueIsCarried ==
  Running =>
    \/ state \in {file, failed, pending, writing}
    \/ \E i \in DOMAIN queue : queue[i] = state

\* Every commit gets into the file, or a later one does, unless the process
\* ends first or the write fails.
CommitsLand ==
  \A n \in Commits :
    (Running /\ state = n) ~> (~Running \/ file >= n \/ failed >= n)

\* An app that quits leaves behind what its store held at before-quit.  The code
\* does not do this.
QuitSavesLastCommit == phase = "down" => file >= quitAt \/ failed >= quitAt

=============================================================================
