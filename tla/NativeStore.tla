---------------------------- MODULE NativeStore ----------------------------
(***************************************************************************)
(* The native topology above the transport: the owner in the main process  *)
(* (core/src/store.ts, electron/src/native/owner-core.ts, owner.ts) and    *)
(* the windows that read its region (renderer.ts, reader-core.ts).         *)
(*                                                                         *)
(* The owner applies queued updates one after the other; each one that is  *)
(* done flushes the arena into the region, and then pings the windows,     *)
(* content free.  A window reads whenever it likes, straight from the      *)
(* region, and its listener reads when a ping tells it to.  The transport  *)
(* is CommitLog, whose bytes are here the number of the state the owner's  *)
(* arena held: state 1 is the initial one.                                 *)
(*                                                                         *)
(* The main process and each window run one turn at a time, but at the     *)
(* same time as each other, so a flush and a read are split at what the    *)
(* other side can see.                                                     *)
(***************************************************************************)
EXTENDS Integers, Sequences, FiniteSets

CONSTANTS
  Windows,
  App,          \* the main process itself, as the author of an update
  MaxUpdates,   \* bound: updates asked for
  RetryCap      \* SYNC_RETRY_CAP

ASSUME AppAssumption     == App \notin Windows
ASSUME UpdatesAssumption == MaxUpdates \in Nat
ASSUME RetryAssumption   == RetryCap \in Nat \ {0}

VARIABLES
  arena,        \* the state the owner's arena holds
  asked,        \* updates asked for so far
  queue,        \* authors of the updates chained in OwnerStore.#queue
  mainPc,       \* the update at the head: "idle", "sealed" or "published"
  ownerOpen,    \* NativeOwner.close has not been called
  subscribers,  \* the windows that commits are announced to
  commits, published, syncing, from, heldVersion, heldBytes,   \* CommitLog
  conn,         \* a window's connectNative: "none", "hello", "answered", "open"
  pings,        \* COMMIT messages on their way to a window
  listening,    \* the page has subscribed
  notified,     \* NativeReaderSource.#notified
  turn,         \* what the window reads for, or "none"
  shown,        \* the state the page's subscription was given last
  since,        \* history: the state its last read had to return at least
  dispatch,     \* a window's last dispatch
  answer,       \* the region version it resolved with
  made          \* history: the state it made

States == 0..(MaxUpdates + 1)

Region == INSTANCE CommitLog
            WITH Readers <- Windows, Cells <- {"state"}, Values <- States, Blank <- 0

regionVars == <<commits, published>>
readVars   == <<syncing, from, heldVersion, heldBytes>>
mainVars   == <<arena, asked, queue, mainPc, ownerOpen, subscribers>>
askVars    == <<dispatch, answer, made>>
viewVars   == <<conn, listening, notified, turn, shown, since>>
vars == <<mainVars, regionVars, readVars, viewVars, pings, askVars>>

\* The state that region version v holds, and the one a window's buffer holds.
StateOf(v) == commits[v]["state"]
HeldState(w) == heldBytes[w]["state"]

\* createNativeOwner has flushed the initial state before a window can connect.
Init ==
  /\ arena = 1
  /\ asked = 0
  /\ queue = <<>>
  /\ mainPc = "idle"
  /\ ownerOpen = TRUE
  /\ subscribers = {}
  /\ commits = [v \in 0..1 |-> [c \in {"state"} |-> v]]
  /\ published = 1
  /\ syncing = [w \in Windows |-> FALSE]
  /\ from = [w \in Windows |-> 0]
  /\ heldVersion = [w \in Windows |-> 0]
  /\ heldBytes = [w \in Windows |-> [c \in {"state"} |-> 0]]
  /\ conn = [w \in Windows |-> "none"]
  /\ pings = [w \in Windows |-> 0]
  /\ listening = [w \in Windows |-> FALSE]
  /\ notified = [w \in Windows |-> 0]
  /\ turn = [w \in Windows |-> "none"]
  /\ shown = [w \in Windows |-> 0]
  /\ since = [w \in Windows |-> 0]
  /\ dispatch = [w \in Windows |-> "none"]
  /\ answer = [w \in Windows |-> 0]
  /\ made = [w \in Windows |-> 0]

-----------------------------------------------------------------------------
(* The owner *)

Enqueue(author) ==
  /\ ownerOpen \/ author = App
  /\ asked < MaxUpdates
  /\ asked' = asked + 1
  /\ queue' = Append(queue, author)

\* Code of the main process calls update: from a turn of its own, or from the
\* continuation of an earlier update, in front of the ones still queued.
AppUpdate ==
  /\ mainPc = "idle"
  /\ Enqueue(App)
  /\ UNCHANGED <<arena, mainPc, ownerOpen, subscribers, regionVars, readVars, viewVars,
                 pings, askVars>>

\* A message is a turn of its own: the updates queued before it are done.
MainIsFree == mainPc = "idle" /\ queue = <<>>

HandleDispatch(w) ==
  /\ MainIsFree
  /\ dispatch[w] = "sent"
  /\ Enqueue(w)
  /\ dispatch' = [dispatch EXCEPT ![w] = "queued"]
  /\ UNCHANGED <<arena, mainPc, ownerOpen, subscribers, regionVars, readVars, viewVars,
                 pings, answer, made>>

\* The operation is unknown, or the handler is gone.
RefuseDispatch(w) ==
  /\ MainIsFree
  /\ dispatch[w] = "sent"
  /\ dispatch' = [dispatch EXCEPT ![w] = "failed"]
  /\ UNCHANGED <<mainVars, regionVars, readVars, viewVars, pings, answer, made>>

\* The promise of the update at the head is settled, if its window still waits.
Settle(outcome) ==
  LET author == Head(queue) IN
  /\ queue' = Tail(queue)
  /\ dispatch' = [w \in Windows |->
                    IF w = author /\ dispatch[w] = "queued" THEN outcome ELSE dispatch[w]]

\* The recipe throws: the update is rolled back and rejected, and the chain
\* goes on.
RecipeThrows ==
  /\ mainPc = "idle"
  /\ queue # <<>>
  /\ Settle("failed")
  /\ UNCHANGED <<arena, asked, mainPc, ownerOpen, subscribers, regionVars, readVars,
                 viewVars, pings, answer, made>>

\* Of a recipe that returns: it made a new state, or it changed nothing.
Applied ==
  /\ mainPc = "idle"
  /\ queue # <<>>
  /\ arena' \in {arena, arena + 1}

\* The store notifies in either case, and its first listener flushes: the slot
\* of the region is sealed...
RunUpdate ==
  /\ Applied
  /\ ownerOpen
  /\ mainPc' = "sealed"
  /\ Region!Seal
  /\ commits'[published + 1]["state"] = arena'
  /\ made' = [w \in Windows |->
                IF w = Head(queue) /\ dispatch[w] = "queued" THEN arena' ELSE made[w]]
  /\ UNCHANGED <<asked, queue, ownerOpen, subscribers, viewVars, pings, dispatch, answer>>

\* Mutant: the word is left to the next flush.
MutantPublishWord ==
  /\ mainPc = "sealed"
  /\ mainPc' = "published"
  /\ UNCHANGED <<arena, asked, queue, ownerOpen, subscribers, regionVars, readVars,
                 viewVars, pings, askVars>>

\* ... and its word is stored.
PublishWord ==
  /\ mainPc = "sealed"
  /\ mainPc' = "published"
  /\ Region!Publish
  /\ UNCHANGED <<arena, asked, queue, ownerOpen, subscribers, viewVars, pings, askVars>>

\* Mutant: the version is taken before the flush.
MutantAnnounce ==
  /\ mainPc = "published"
  /\ mainPc' = "idle"
  /\ pings' = [w \in Windows |-> IF w \in subscribers THEN pings[w] + 1 ELSE pings[w]]
  /\ Settle("done")
  /\ answer' = [w \in Windows |->
                  IF dispatch'[w] # dispatch[w] THEN published - 1 ELSE answer[w]]
  /\ UNCHANGED <<arena, asked, ownerOpen, subscribers, regionVars, readVars, viewVars,
                 made>>

\* Then the second listener pings, and the dispatch resolves with the version.
Announce ==
  /\ mainPc = "published"
  /\ mainPc' = "idle"
  /\ pings' = [w \in Windows |-> IF w \in subscribers THEN pings[w] + 1 ELSE pings[w]]
  /\ Settle("done")
  /\ answer' = [w \in Windows |->
                  IF dispatch'[w] # dispatch[w] THEN published ELSE answer[w]]
  /\ UNCHANGED <<arena, asked, ownerOpen, subscribers, regionVars, readVars, viewVars,
                 made>>

\* After close nobody listens, and version() throws on the closed region.
RunUpdateClosed ==
  /\ Applied
  /\ ~ownerOpen
  /\ Settle("failed")
  /\ UNCHANGED <<asked, mainPc, ownerOpen, subscribers, regionVars, readVars, viewVars,
                 pings, answer, made>>

\* NativeOwner.close, also with updates still queued.
CloseOwner ==
  /\ ownerOpen
  /\ mainPc = "idle"
  /\ ownerOpen' = FALSE
  /\ subscribers' = {}
  /\ UNCHANGED <<arena, asked, queue, mainPc, regionVars, readVars, viewVars, pings,
                 askVars>>

Main ==
  \/ RecipeThrows \/ RunUpdate \/ PublishWord \/ Announce \/ RunUpdateClosed
  \/ \E w \in Windows : HandleDispatch(w) \/ RefuseDispatch(w)

-----------------------------------------------------------------------------
(* A window *)

Connect(w) ==
  /\ conn[w] = "none"
  /\ conn' = [conn EXCEPT ![w] = "hello"]
  /\ UNCHANGED <<mainVars, regionVars, readVars, listening, notified, turn, shown, since,
                 pings, askVars>>

\* The main process answers with the path, and the sender gets pings from here on.
HandleHello(w) ==
  /\ MainIsFree
  /\ ownerOpen
  /\ conn[w] = "hello"
  /\ conn' = [conn EXCEPT ![w] = "answered"]
  /\ subscribers' = subscribers \cup {w}
  /\ UNCHANGED <<arena, asked, queue, mainPc, ownerOpen, regionVars, readVars, listening,
                 notified, turn, shown, since, pings, askVars>>

\* The answer arrives: attach, and listen for pings.
Attach(w) ==
  /\ conn[w] = "answered"
  /\ conn' = [conn EXCEPT ![w] = "open"]
  /\ UNCHANGED <<mainVars, regionVars, readVars, listening, notified, turn, shown, since,
                 pings, askVars>>

\* The page is between two of its turns.
Idle(w) == conn[w] = "open" /\ turn[w] = "none"

MaxOf(a, b) == IF a >= b THEN a ELSE b

\* A window that knows its dispatch is done expects to read its own write.
Expected(w) ==
  MaxOf(StateOf(published), IF dispatch[w] = "acked" THEN made[w] ELSE 0)

\* Mutant: a buffer once filled is good for ever.
MutantEnsure(w) ==
  IF heldVersion[w] # 0 THEN UNCHANGED <<regionVars, readVars>> ELSE Region!Call(w)

\* #ensure: the held buffer serves while the region's version has not moved.
Ensure(w) ==
  IF published = heldVersion[w] THEN UNCHANGED <<regionVars, readVars>> ELSE Region!Call(w)

StartRead(w, purpose) ==
  /\ turn' = [turn EXCEPT ![w] = purpose]
  /\ since' = [since EXCEPT ![w] = Expected(w)]
  /\ Ensure(w)

\* get, select or snapshot, at any time.
Get(w) ==
  /\ Idle(w)
  /\ StartRead(w, "get")
  /\ UNCHANGED <<mainVars, conn, listening, notified, shown, pings, askVars>>

\* A binding reads and subscribes in one turn.
Subscribe(w) ==
  /\ Idle(w)
  /\ ~listening[w]
  /\ StartRead(w, "subscribe")
  /\ UNCHANGED <<mainVars, conn, listening, notified, shown, pings, askVars>>

Unsubscribe(w) ==
  /\ Idle(w)
  /\ listening[w]
  /\ listening' = [listening EXCEPT ![w] = FALSE]
  /\ UNCHANGED <<mainVars, regionVars, readVars, conn, notified, turn, shown, since, pings,
                 askVars>>

TakePing(w) ==
  /\ pings[w] > 0
  /\ pings' = [pings EXCEPT ![w] = @ - 1]

\* A ping for a page that does not listen for it yet.
DropPing(w) ==
  /\ conn[w] # "open"
  /\ TakePing(w)
  /\ UNCHANGED <<mainVars, regionVars, readVars, viewVars, askVars>>

\* Mutant: a page that has read the version need not be told of it.
MutantNotify(w) ==
  /\ Idle(w)
  /\ TakePing(w)
  /\ notified' = [notified EXCEPT ![w] = published]
  /\ IF listening[w] /\ published # heldVersion[w]
     THEN StartRead(w, "listener")
     ELSE UNCHANGED <<regionVars, readVars, turn, since>>
  /\ UNCHANGED <<mainVars, conn, listening, shown, askVars>>

\* notify goes by the region's version, not by the ping's: a ping whose commit
\* has been announced is dropped, and the listener reads when it is called.
Notify(w) ==
  /\ Idle(w)
  /\ TakePing(w)
  /\ notified' = [notified EXCEPT ![w] = published]
  /\ IF listening[w] /\ published # notified[w]
     THEN StartRead(w, "listener")
     ELSE UNCHANGED <<regionVars, readVars, turn, since>>
  /\ UNCHANGED <<mainVars, conn, listening, shown, askVars>>

\* The bytes are in the window's own buffer now, and are decoded.
ReturnRead(w) ==
  /\ IF syncing[w] THEN Region!Return(w) ELSE UNCHANGED <<regionVars, readVars>>
  /\ shown' = [shown EXCEPT ![w] = IF turn[w] = "get" THEN @ ELSE HeldState(w)']
  /\ listening' = [listening EXCEPT ![w] = @ \/ turn[w] = "subscribe"]
  /\ UNCHANGED since

\* ESHM_LIVELOCK: the read throws, out of the listener too, and before the
\* binding has subscribed.
ThrowRead(w) ==
  /\ Region!Lapped(w)
  /\ since' = [since EXCEPT ![w] = 0]
  /\ UNCHANGED <<shown, listening>>

EndRead(w) ==
  /\ turn[w] # "none"
  /\ turn' = [turn EXCEPT ![w] = "none"]
  /\ ReturnRead(w) \/ ThrowRead(w)
  /\ UNCHANGED <<mainVars, conn, notified, pings, askVars>>

SendDispatch(w) ==
  /\ Idle(w)
  /\ dispatch[w] \in {"none", "acked"}
  /\ dispatch' = [dispatch EXCEPT ![w] = "sent"]
  /\ answer' = [answer EXCEPT ![w] = 0]
  /\ made' = [made EXCEPT ![w] = 0]
  /\ UNCHANGED <<mainVars, regionVars, readVars, viewVars, pings>>

ReceiveAnswer(w) ==
  /\ Idle(w)
  /\ dispatch[w] \in {"done", "failed"}
  /\ dispatch' = [dispatch EXCEPT ![w] = IF @ = "done" THEN "acked" ELSE "none"]
  /\ UNCHANGED <<mainVars, regionVars, readVars, viewVars, pings, answer, made>>

\* What the page and its preload knew is gone.  The update of a dispatch is not
\* taken back, but nobody hears of it.
Forget(w) ==
  /\ conn[w] # "none"
  /\ conn' = [conn EXCEPT ![w] = "none"]
  /\ listening' = [listening EXCEPT ![w] = FALSE]
  /\ notified' = [notified EXCEPT ![w] = 0]
  /\ turn' = [turn EXCEPT ![w] = "none"]
  /\ shown' = [shown EXCEPT ![w] = 0]
  /\ since' = [since EXCEPT ![w] = 0]
  /\ dispatch' = [dispatch EXCEPT ![w] = "none"]
  /\ answer' = [answer EXCEPT ![w] = 0]
  /\ made' = [made EXCEPT ![w] = 0]
  /\ syncing' = [syncing EXCEPT ![w] = FALSE]
  /\ from' = [from EXCEPT ![w] = 0]
  /\ heldVersion' = [heldVersion EXCEPT ![w] = 0]
  /\ heldBytes' = [heldBytes EXCEPT ![w] = [c \in {"state"} |-> 0]]
  /\ UNCHANGED <<arena, asked, queue, mainPc, ownerOpen, regionVars>>

\* The page reloads, or its renderer crashes: the sender stays subscribed, and
\* pings on their way meet the old page, the new one, or neither.
Reload(w) ==
  /\ Forget(w)
  /\ \E n \in 0..pings[w] : pings' = [pings EXCEPT ![w] = n]
  /\ UNCHANGED subscribers

\* The window is destroyed; another may be opened in its place.
Destroy(w) ==
  /\ Forget(w)
  /\ pings' = [pings EXCEPT ![w] = 0]
  /\ subscribers' = subscribers \ {w}

Window(w) ==
  \/ Connect(w) \/ HandleHello(w) \/ Attach(w)
  \/ Get(w) \/ Subscribe(w) \/ Unsubscribe(w) \/ Notify(w) \/ DropPing(w) \/ EndRead(w)
  \/ SendDispatch(w) \/ ReceiveAnswer(w)
  \/ Reload(w) \/ Destroy(w)

Next == AppUpdate \/ CloseOwner \/ Main \/ \E w \in Windows : Window(w)

\* The main process goes on with its turn, a read comes to its end, and a ping
\* gets its turn between those of the page.
Fairness ==
  /\ WF_vars(Main)
  /\ \A w \in Windows : WF_vars(EndRead(w)) /\ SF_vars(Notify(w))

Spec == Init /\ [][Next]_vars /\ Fairness

-----------------------------------------------------------------------------
(* Properties *)

\* Every variable holds a value of its type, one commit at most is under way, and
\* a window that is not open reads and hears nothing.
TypeOK ==
  /\ arena \in 1..(asked + 1) /\ asked \in 0..MaxUpdates
  /\ queue \in Seq(Windows \cup {App})
  /\ mainPc \in {"idle", "sealed", "published"} /\ ownerOpen \in BOOLEAN
  /\ subscribers \subseteq Windows
  /\ published \in 1..(MaxUpdates + 1)
  /\ commits \in [0..(IF mainPc = "sealed" THEN published + 1 ELSE published) ->
                    [{"state"} -> States]]
  /\ syncing \in [Windows -> BOOLEAN]
  /\ from \in [Windows -> 0..published]
  /\ heldVersion \in [Windows -> DOMAIN commits]
  /\ heldBytes \in [Windows -> [{"state"} -> States]]
  /\ conn \in [Windows -> {"none", "hello", "answered", "open"}]
  /\ pings \in [Windows -> Nat]
  /\ listening \in [Windows -> BOOLEAN]
  /\ notified \in [Windows -> 0..published]
  /\ turn \in [Windows -> {"none", "get", "subscribe", "listener"}]
  /\ shown \in [Windows -> States] /\ since \in [Windows -> States]
  /\ dispatch \in [Windows -> {"none", "sent", "queued", "done", "failed", "acked"}]
  /\ answer \in [Windows -> 0..published]
  /\ made \in [Windows -> States]
  /\ \A w \in Windows : (listening[w] \/ turn[w] # "none") => conn[w] = "open"
  /\ \A w \in Windows : syncing[w] => turn[w] # "none"

\* A read returns no state older than the one published when it began, and none
\* older than the reader's own dispatch that it knows to be done.
ReadIsCurrent == \A w \in Windows : turn[w] = "none" => HeldState(w) >= since[w]

\* When the pings are through and no update is under way, a page that listens
\* shows the last state: no ping that was dropped, merged with another, sent
\* before the window listened or met by a read that threw was the one needed.
QuietWindowShowsLast ==
  \A w \in Windows :
    mainPc # "published" /\ pings[w] = 0 /\ turn[w] = "none" /\ listening[w] =>
      shown[w] >= StateOf(published)

\* The version a dispatch resolves with is published and holds what it wrote.
AnswerNamesWrite ==
  \A w \in Windows : dispatch[w] \in {"done", "acked"} =>
    answer[w] # 0 /\ StateOf(answer[w]) = made[w]

\* A page that listens gets to show every state that is published, or a later
\* one.
CommitIsShown ==
  \A w \in Windows : \A n \in States :
    (listening[w] /\ StateOf(published) = n) ~> (shown[w] >= n \/ ~listening[w])

\* An update that changes nothing publishes no version and wakes no window.  The
\* code does not do this.
UnchangedPublishesNothing ==
  \A v \in DOMAIN commits \ {0} : commits[v] # commits[v - 1]

=============================================================================
