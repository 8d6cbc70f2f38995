------------------------- MODULE NativeStoreProofs -------------------------
(***************************************************************************)
(* Proofs about NativeStore, for any number of windows and updates: a read *)
(* is current, a dispatch resolves with the version that holds its write,  *)
(* and a page that listens is not left behind by a ping.                   *)
(***************************************************************************)
EXTENDS NativeStore, TLAPS

\* The last version sealed.
Top == IF mainPc = "sealed" THEN published + 1 ELSE published

\* The version published when the read that is going on began.
Started(w) == IF syncing[w] THEN from[w] ELSE heldVersion[w]

\* A ping is on its way to the window, or about to be.
Coming(w) == pings[w] > 0 \/ mainPc = "published"

Reading == {"subscribe", "listener"}

\* Updates in the queue that have made no state yet.
Left == IF mainPc = "idle" THEN Len(queue) ELSE Len(queue) - 1

\* Versions hold ever later states, one state and version an update at most.
OwnerInv ==
  /\ \A u, v \in 0..Top : u <= v => StateOf(u) <= StateOf(v)
  /\ StateOf(0) = 0 /\ StateOf(Top) <= arena
  /\ arena + Left <= asked + 1
  /\ Top + Left <= asked + 1
  /\ mainPc # "idle" => ownerOpen /\ queue # <<>>

\* What a dispatch wrote is in the version it is answered with.
WriteInv(w) ==
  /\ dispatch[w] \in {"done", "acked"} => answer[w] # 0 /\ StateOf(answer[w]) = made[w]
  /\ mainPc # "idle" /\ dispatch[w] = "queued" /\ w = Head(queue) => made[w] = StateOf(Top)

\* The buffer is the one of its version, and late enough for the read.
HeldInv(w) ==
  /\ HeldState(w) = StateOf(heldVersion[w])
  /\ turn[w] = "none" => HeldState(w) >= since[w]
  /\ turn[w] # "none" => Started(w) <= published /\ StateOf(Started(w)) >= since[w]

\* A listening page shows the last state, or will be made to look again.
ShownInv(w) ==
  /\ conn[w] \in {"answered", "open"} => w \in subscribers \/ ~ownerOpen
  /\ turn[w] \in Reading =>
       /\ Started(w) >= notified[w]
       /\ Started(w) = published \/ Coming(w)
  /\ listening[w] /\ turn[w] \notin Reading =>
       /\ shown[w] >= StateOf(published) \/ Coming(w)
       /\ notified[w] = published => shown[w] >= StateOf(published)

WindowInv(w) == WriteInv(w) /\ HeldInv(w) /\ ShownInv(w)

IInv == TypeOK /\ OwnerInv /\ \A w \in Windows : WindowInv(w)

-----------------------------------------------------------------------------
(* Facts the steps share *)

\* The numbers in a state.
LEMMA Numbers ==
  ASSUME TypeOK, NEW w \in Windows
  PROVE  /\ published \in Nat /\ published >= 1 /\ Top \in Nat /\ published <= Top
         /\ DOMAIN commits = 0..Top
         /\ \A v \in 0..Top : StateOf(v) \in States /\ StateOf(v) \in Int
         /\ heldVersion[w] \in 0..Top /\ heldVersion[w] \in Int
         /\ HeldState(w) \in States /\ HeldState(w) \in Int
         /\ from[w] \in 0..published /\ notified[w] \in 0..published
         /\ from[w] \in Int /\ notified[w] \in Int
         /\ shown[w] \in Int /\ since[w] \in Int /\ made[w] \in Int
         /\ answer[w] \in 0..published /\ pings[w] \in Nat
         /\ MaxUpdates \in Nat /\ arena \in Nat /\ asked \in Nat /\ RetryCap \in Nat
         /\ RetryCap >= 1
<1>1. DOMAIN commits = 0..Top /\ commits \in [0..Top -> [{"state"} -> States]]
  BY DEF TypeOK, Top
<1>2. States \subseteq Int
  BY UpdatesAssumption DEF States
<1>3. published \in Nat /\ published >= 1 /\ Top \in Nat /\ published <= Top
  BY UpdatesAssumption DEF TypeOK, Top
<1>4. \A v \in 0..Top : StateOf(v) \in States
  BY <1>1 DEF StateOf
<1>5. HeldState(w) \in States /\ heldVersion[w] \in 0..Top
  BY <1>1 DEF TypeOK, HeldState
<1>6. /\ from[w] \in 0..published /\ notified[w] \in 0..published
      /\ answer[w] \in 0..published /\ pings[w] \in Nat
      /\ shown[w] \in States /\ since[w] \in States /\ made[w] \in States
  BY DEF TypeOK
<1>7. asked \in Nat /\ arena \in Nat
  BY UpdatesAssumption DEF TypeOK
<1>8. \A v \in 0..Top : StateOf(v) \in Int
  BY <1>2, <1>4
<1>9. HeldState(w) \in Int /\ shown[w] \in Int /\ since[w] \in Int /\ made[w] \in Int
  BY <1>2, <1>5, <1>6
<1>10. /\ from[w] \in Int /\ notified[w] \in Int /\ heldVersion[w] \in Int
       /\ RetryCap \in Nat /\ RetryCap >= 1
  BY <1>3, <1>5, <1>6, RetryAssumption
<1>11. QED
  BY <1>1, <1>3, <1>4, <1>5, <1>6, <1>7, <1>8, <1>9, <1>10, UpdatesAssumption

OwnerKept == UNCHANGED <<arena, asked, queue, mainPc, ownerOpen, regionVars>>

\* What window q knows, and what is on its way to it, stays.
KeptFor(q) ==
  /\ syncing'[q] = syncing[q] /\ from'[q] = from[q]
  /\ heldVersion'[q] = heldVersion[q] /\ heldBytes'[q] = heldBytes[q]
  /\ conn'[q] = conn[q] /\ listening'[q] = listening[q] /\ notified'[q] = notified[q]
  /\ turn'[q] = turn[q] /\ shown'[q] = shown[q] /\ since'[q] = since[q]
  /\ pings'[q] = pings[q]
  /\ dispatch'[q] = dispatch[q] /\ answer'[q] = answer[q] /\ made'[q] = made[q]

\* A step of one window disturbs no other window and not the owner.
LEMMA WindowStep ==
  ASSUME IInv, NEW w \in Windows, OwnerKept, TypeOK', WindowInv(w)',
         \A q \in Windows \ {w} : KeptFor(q) /\ (q \in subscribers => q \in subscribers')
  PROVE  IInv'
<1>1. Top' = Top /\ Left' = Left /\ \A v : StateOf(v)' = StateOf(v)
  BY DEF OwnerKept, regionVars, Top, Left, StateOf
<1>2. OwnerInv'
  BY <1>1 DEF IInv, OwnerInv, OwnerKept
<1>3. ASSUME NEW q \in Windows \ {w} PROVE WindowInv(q)'
  <2>1. KeptFor(q) /\ (q \in subscribers => q \in subscribers')
    OBVIOUS
  <2>2. /\ Started(q)' = Started(q) /\ Coming(q)' = Coming(q)
        /\ HeldState(q)' = HeldState(q)
    BY <2>1 DEF Started, Coming, HeldState, KeptFor, OwnerKept
  <2>3. WindowInv(q)
    BY DEF IInv
  <2>4. WriteInv(q)'
    BY <1>1, <2>1, <2>3 DEF WindowInv, WriteInv, KeptFor, OwnerKept
  <2>5. HeldInv(q)'
    BY <1>1, <2>1, <2>2, <2>3 DEF WindowInv, HeldInv, KeptFor, OwnerKept, regionVars,
       StateOf
  <2>6. ShownInv(q)'
    BY <1>1, <2>1, <2>2, <2>3 DEF WindowInv, ShownInv, KeptFor, OwnerKept, regionVars,
       StateOf
  <2>7. QED
    BY <2>4, <2>5, <2>6 DEF WindowInv
<1>4. QED
  BY <1>2, <1>3 DEF IInv

\* The owner's initial state is flushed and no window is there.
LEMMA InitInv == Init => IInv
<1> SUFFICES ASSUME Init PROVE IInv
  OBVIOUS
<1>1. TypeOK
  <2>1. queue \in Seq(Windows \cup {App}) /\ Len(queue) = 0
    BY DEF Init
  <2>2. QED
    BY <2>1, UpdatesAssumption DEF Init, TypeOK, States
<1>2. OwnerInv
  BY UpdatesAssumption DEF Init, OwnerInv, Top, Left, StateOf
<1>3. \A w \in Windows : WindowInv(w)
  BY DEF Init, WindowInv, WriteInv, HeldInv, ShownInv, HeldState, StateOf, Started, Reading
<1>4. QED
  BY <1>1, <1>2, <1>3 DEF IInv

-----------------------------------------------------------------------------
(* The steps of a window that do not read *)

\* The hello is sent.
LEMMA ConnectInv == \A w \in Windows : IInv /\ Connect(w) => IInv'
<1> SUFFICES ASSUME NEW w \in Windows, IInv, Connect(w) PROVE IInv'
  OBVIOUS
<1> USE DEF Connect, mainVars, regionVars, readVars, askVars
<1>1. TypeOK /\ WindowInv(w)
  BY DEF IInv
<1>2. TypeOK'
  BY <1>1 DEF TypeOK
<1>3. WindowInv(w)'
  BY <1>1 DEF TypeOK, WindowInv, WriteInv, HeldInv, ShownInv, Top, StateOf, HeldState,
     Started, Coming
<1>4. \A q \in Windows \ {w} : KeptFor(q) /\ (q \in subscribers => q \in subscribers')
  BY <1>1 DEF TypeOK, KeptFor
<1>5. QED
  BY <1>2, <1>3, <1>4, WindowStep DEF OwnerKept

\* The sender is a subscriber when its hello is answered.
LEMMA HandleHelloInv == \A w \in Windows : IInv /\ HandleHello(w) => IInv'
<1> SUFFICES ASSUME NEW w \in Windows, IInv, HandleHello(w) PROVE IInv'
  OBVIOUS
<1> USE DEF HandleHello, MainIsFree, mainVars, regionVars, readVars, askVars
<1>1. TypeOK /\ WindowInv(w)
  BY DEF IInv
<1>2. TypeOK'
  BY <1>1 DEF TypeOK
<1>3. WindowInv(w)'
  BY <1>1 DEF TypeOK, WindowInv, WriteInv, HeldInv, ShownInv, Top, StateOf, HeldState,
     Started, Coming
<1>4. \A q \in Windows \ {w} : KeptFor(q) /\ (q \in subscribers => q \in subscribers')
  BY <1>1 DEF TypeOK, KeptFor
<1>5. QED
  BY <1>2, <1>3, <1>4, WindowStep DEF OwnerKept

\* A window that attaches has announced nothing.
LEMMA AttachInv == \A w \in Windows : IInv /\ Attach(w) => IInv'
<1> SUFFICES ASSUME NEW w \in Windows, IInv, Attach(w) PROVE IInv'
  OBVIOUS
<1> USE DEF Attach, mainVars, regionVars, readVars, askVars
<1>1. TypeOK /\ WindowInv(w)
  BY DEF IInv
<1>2. TypeOK'
  BY <1>1 DEF TypeOK
<1>3. WindowInv(w)'
  BY <1>1 DEF TypeOK, WindowInv, WriteInv, HeldInv, ShownInv, Top, StateOf, HeldState,
     Started, Coming
<1>4. \A q \in Windows \ {w} : KeptFor(q) /\ (q \in subscribers => q \in subscribers')
  BY <1>1 DEF TypeOK, KeptFor
<1>5. QED
  BY <1>2, <1>3, <1>4, WindowStep DEF OwnerKept

\* A page that does not listen is owed nothing.
LEMMA UnsubscribeInv == \A w \in Windows : IInv /\ Unsubscribe(w) => IInv'
<1> SUFFICES ASSUME NEW w \in Windows, IInv, Unsubscribe(w) PROVE IInv'
  OBVIOUS
<1> USE DEF Unsubscribe, Idle, mainVars, regionVars, readVars, askVars
<1>1. TypeOK /\ WindowInv(w)
  BY DEF IInv
<1>2. TypeOK'
  BY <1>1 DEF TypeOK
<1>3. WindowInv(w)'
  BY <1>1 DEF TypeOK, WindowInv, WriteInv, HeldInv, ShownInv, Top, StateOf, HeldState,
     Started, Coming, Reading
<1>4. \A q \in Windows \ {w} : KeptFor(q) /\ (q \in subscribers => q \in subscribers')
  BY <1>1 DEF TypeOK, KeptFor
<1>5. QED
  BY <1>2, <1>3, <1>4, WindowStep DEF OwnerKept

\* No page listens before its window is open.
LEMMA DropPingInv == \A w \in Windows : IInv /\ DropPing(w) => IInv'
<1> SUFFICES ASSUME NEW w \in Windows, IInv, DropPing(w) PROVE IInv'
  OBVIOUS
<1> USE DEF DropPing, TakePing, mainVars, regionVars, readVars, viewVars, askVars
<1>1. TypeOK /\ WindowInv(w)
  BY DEF IInv
<1>2. TypeOK'
  BY <1>1 DEF TypeOK
<1>3. WindowInv(w)'
  BY <1>1 DEF TypeOK, WindowInv, WriteInv, HeldInv, ShownInv, Top, StateOf, HeldState,
     Started, Coming, Reading
<1>4. \A q \in Windows \ {w} : KeptFor(q) /\ (q \in subscribers => q \in subscribers')
  BY <1>1 DEF TypeOK, KeptFor
<1>5. QED
  BY <1>2, <1>3, <1>4, WindowStep DEF OwnerKept

\* The dispatch before is forgotten.
LEMMA SendDispatchInv == \A w \in Windows : IInv /\ SendDispatch(w) => IInv'
<1> SUFFICES ASSUME NEW w \in Windows, IInv, SendDispatch(w) PROVE IInv'
  OBVIOUS
<1> USE DEF SendDispatch, Idle, mainVars, regionVars, readVars, viewVars
<1>1. TypeOK /\ WindowInv(w)
  BY DEF IInv
<1>2. TypeOK'
  <2>1. 0 \in States /\ 0 \in 0..published
    BY <1>1, UpdatesAssumption DEF TypeOK, States
  <2>2. QED
    BY <1>1, <2>1 DEF TypeOK
<1>3. WindowInv(w)'
  BY <1>1 DEF TypeOK, WindowInv, WriteInv, HeldInv, ShownInv, Top, StateOf, HeldState,
     Started, Coming
<1>4. \A q \in Windows \ {w} : KeptFor(q) /\ (q \in subscribers => q \in subscribers')
  BY <1>1 DEF TypeOK, KeptFor
<1>5. QED
  BY <1>2, <1>3, <1>4, WindowStep DEF OwnerKept

\* The answer is kept.
LEMMA ReceiveAnswerInv == \A w \in Windows : IInv /\ ReceiveAnswer(w) => IInv'
<1> SUFFICES ASSUME NEW w \in Windows, IInv, ReceiveAnswer(w) PROVE IInv'
  OBVIOUS
<1> USE DEF ReceiveAnswer, Idle, mainVars, regionVars, readVars, viewVars
<1>1. TypeOK /\ WindowInv(w)
  BY DEF IInv
<1>2. TypeOK'
  BY <1>1 DEF TypeOK
<1>3. WindowInv(w)'
  BY <1>1 DEF TypeOK, WindowInv, WriteInv, HeldInv, ShownInv, Top, StateOf, HeldState,
     Started, Coming
<1>4. \A q \in Windows \ {w} : KeptFor(q) /\ (q \in subscribers => q \in subscribers')
  BY <1>1 DEF TypeOK, KeptFor
<1>5. QED
  BY <1>2, <1>3, <1>4, WindowStep DEF OwnerKept

\* A page that is gone knows nothing; its pings may outlive it.
LEMMA ForgetInv ==
  ASSUME NEW w \in Windows, IInv, Forget(w), pings' \in [Windows -> Nat],
         \A q \in Windows \ {w} : pings'[q] = pings[q],
         subscribers' \subseteq Windows, subscribers \ {w} \subseteq subscribers'
  PROVE  IInv'
<1> USE DEF Forget, regionVars
<1>1. TypeOK /\ DOMAIN commits = 0..Top /\ Top \in Nat
  BY Numbers DEF IInv
<1>2. conn' \in [Windows -> {"none", "hello", "answered", "open"}]
      /\ listening' \in [Windows -> BOOLEAN]
      /\ turn' \in [Windows -> {"none"} \cup Reading \cup {"get"}]
      /\ syncing' \in [Windows -> BOOLEAN]
  BY <1>1, Zenon DEF TypeOK, Reading
<1>3. 0 \in States /\ 0 \in 0..published /\ 0 \in DOMAIN commits
  BY <1>1, UpdatesAssumption DEF TypeOK, States
<1>4. TypeOK'
  BY <1>1, <1>2, <1>3 DEF TypeOK, Reading
<1>5. StateOf(0) = 0
  BY DEF IInv, OwnerInv
<1>6. WindowInv(w)'
  BY <1>1, <1>5 DEF TypeOK, WindowInv, WriteInv, HeldInv, ShownInv, HeldState, StateOf,
     Reading
<1>7. \A q \in Windows \ {w} : KeptFor(q)
  BY <1>1 DEF TypeOK, KeptFor
<1>8. QED
  BY <1>4, <1>6, <1>7, WindowStep DEF OwnerKept

\* Both ways to go.
LEMMA ReloadInv == \A w \in Windows : IInv /\ Reload(w) => IInv'
<1> SUFFICES ASSUME NEW w \in Windows, IInv, Reload(w) PROVE IInv'
  OBVIOUS
<1>1. pings \in [Windows -> Nat] /\ subscribers \subseteq Windows
  BY DEF IInv, TypeOK
<1>2. PICK n \in 0..pings[w] : pings' = [pings EXCEPT ![w] = n]
  BY DEF Reload
<1>3. pings' \in [Windows -> Nat] /\ \A q \in Windows \ {w} : pings'[q] = pings[q]
  BY <1>1, <1>2
<1>4. QED
  BY <1>1, <1>3, ForgetInv DEF Reload

\* The window is destroyed, and its pings with it.
LEMMA DestroyInv == \A w \in Windows : IInv /\ Destroy(w) => IInv'
<1> SUFFICES ASSUME NEW w \in Windows, IInv, Destroy(w) PROVE IInv'
  OBVIOUS
<1>1. pings \in [Windows -> Nat] /\ subscribers \subseteq Windows
  BY DEF IInv, TypeOK
<1>2. pings' \in [Windows -> Nat] /\ \A q \in Windows \ {w} : pings'[q] = pings[q]
  BY <1>1 DEF Destroy
<1>3. QED
  BY <1>1, <1>2, ForgetInv DEF Destroy

-----------------------------------------------------------------------------
(* Reads *)

\* A read may be asked for what is published, and for nothing later.
LEMMA ExpectedBound ==
  ASSUME IInv, NEW w \in Windows
  PROVE  Expected(w) \in States /\ Expected(w) <= StateOf(published)
<1>1. /\ published \in 0..Top /\ answer[w] \in 0..published /\ made[w] \in States
      /\ made[w] \in Int /\ StateOf(published) \in States /\ StateOf(published) \in Int
      /\ published \in Nat /\ Top \in Nat
  BY Numbers DEF IInv, TypeOK
<1>2. 0 \in States /\ StateOf(published) >= 0
  BY <1>1, UpdatesAssumption DEF States
<1>3. dispatch[w] = "acked" => made[w] = StateOf(answer[w])
  BY DEF IInv, WindowInv, WriteInv
<1>4. StateOf(answer[w]) <= StateOf(published)
  BY <1>1 DEF IInv, OwnerInv
<1>5. QED
  BY <1>1, <1>2, <1>3, <1>4 DEF Expected, MaxOf

\* What a read that begins leaves behind: it is bound to what is published now.
LEMMA StartFacts ==
  ASSUME IInv, NEW w \in Windows, NEW purpose, Idle(w), StartRead(w, purpose)
  PROVE  /\ turn' = [turn EXCEPT ![w] = purpose]
         /\ since' \in [Windows -> States] /\ since'[w] <= StateOf(published)
         /\ syncing' \in [Windows -> BOOLEAN] /\ from' \in [Windows -> 0..published]
         /\ UNCHANGED <<regionVars, heldVersion, heldBytes>>
         /\ Started(w)' = published
         /\ \A q \in Windows \ {w} : /\ syncing'[q] = syncing[q] /\ from'[q] = from[q]
                                   /\ turn'[q] = turn[q] /\ since'[q] = since[q]
<1>1. TypeOK /\ published \in 0..published /\ ~syncing[w]
  <2>1. TypeOK /\ published \in Nat
    BY Numbers DEF IInv
  <2>2. ~syncing[w]
    BY <2>1 DEF TypeOK, Idle
  <2>3. QED
    BY <2>1, <2>2
<1>2. /\ turn' = [turn EXCEPT ![w] = purpose]
      /\ since' = [since EXCEPT ![w] = Expected(w)]
      /\ turn \in [Windows -> {"none", "get", "subscribe", "listener"}]
      /\ since \in [Windows -> States]
  BY <1>1 DEF StartRead, TypeOK
<1>3. since' \in [Windows -> States] /\ since'[w] <= StateOf(published)
  BY <1>2, ExpectedBound
<1>4. CASE published = heldVersion[w]
  <2>1. UNCHANGED <<regionVars, readVars>>
    BY <1>4 DEF StartRead, Ensure
  <2>2. QED
    BY <1>1, <1>2, <1>3, <1>4, <2>1 DEF TypeOK, readVars, Started
<1>5. CASE published # heldVersion[w]
  <2>1. /\ syncing' = [syncing EXCEPT ![w] = TRUE]
        /\ from' = [from EXCEPT ![w] = published]
        /\ UNCHANGED <<regionVars, heldVersion, heldBytes>>
    BY <1>5 DEF StartRead, Ensure, Region!Call, regionVars
  <2>2. QED
    BY <1>1, <1>2, <1>3, <2>1 DEF TypeOK, Started
<1>6. QED
  BY <1>4, <1>5

\* What is common to the three ways to begin a read.
LEMMA StartInv ==
  ASSUME IInv, NEW w \in Windows, NEW purpose \in {"get", "subscribe", "listener"},
         Idle(w), StartRead(w, purpose),
         UNCHANGED <<mainVars, conn, listening, shown, askVars>>,
         pings' \in [Windows -> Nat], notified' \in [Windows -> 0..published],
         \A q \in Windows \ {w} : pings'[q] = pings[q] /\ notified'[q] = notified[q],
         ShownInv(w)'
  PROVE  IInv'
<1> USE DEF mainVars, regionVars, askVars
<1>1. TypeOK /\ WindowInv(w)
  BY DEF IInv
<1>2. TypeOK'
  <2>1. /\ turn' = [turn EXCEPT ![w] = purpose] /\ purpose # "none"
        /\ since' \in [Windows -> States] /\ syncing' \in [Windows -> BOOLEAN]
        /\ from' \in [Windows -> 0..published]
        /\ UNCHANGED <<regionVars, heldVersion, heldBytes>>
        /\ \A q \in Windows \ {w} : syncing'[q] = syncing[q] /\ turn'[q] = turn[q]
    BY StartFacts
  <2>2. turn' \in [Windows -> {"none", "get", "subscribe", "listener"}]
        /\ turn'[w] = purpose
    BY <1>1, <2>1 DEF TypeOK
  <2>3. \A q \in Windows : (listening'[q] \/ turn'[q] # "none") => conn'[q] = "open"
    BY <1>1, <2>1, <2>2 DEF TypeOK, Idle
  <2>4. \A q \in Windows : syncing'[q] => turn'[q] # "none"
    BY <1>1, <2>1, <2>2 DEF TypeOK
  <2>5. QED
    BY <1>1, <2>1, <2>2, <2>3, <2>4 DEF TypeOK
<1>3. WriteInv(w)'
  BY <1>1, StartFacts DEF WindowInv, WriteInv, Top, StateOf
<1>4. HeldInv(w)'
  <2>1. /\ turn'[w] # "none" /\ Started(w)' = published /\ since'[w] <= StateOf(published)
        /\ UNCHANGED <<heldVersion, heldBytes, commits, published>>
    BY <1>1, StartFacts DEF TypeOK
  <2>2. published <= published /\ since'[w] \in Int /\ StateOf(published) \in Int
    BY <1>1, <1>2, Numbers, StartFacts, UpdatesAssumption DEF States
  <2>3. QED
    BY <1>1, <2>1, <2>2 DEF WindowInv, HeldInv, HeldState, StateOf
<1>5. \A q \in Windows \ {w} : KeptFor(q) /\ (q \in subscribers => q \in subscribers')
  BY StartFacts DEF KeptFor
<1>6. QED
  BY <1>2, <1>3, <1>4, <1>5, StartFacts, WindowStep DEF OwnerKept, WindowInv

\* A read of the page.
LEMMA GetInv == \A w \in Windows : IInv /\ Get(w) => IInv'
<1> SUFFICES ASSUME NEW w \in Windows, IInv, Get(w) PROVE IInv'
  OBVIOUS
<1> USE DEF Get, mainVars, regionVars, askVars
<1>1. TypeOK /\ ShownInv(w) /\ Idle(w) /\ StartRead(w, "get")
  BY DEF IInv, WindowInv
<1>2. /\ turn'[w] = "get" /\ turn[w] = "none"
      /\ UNCHANGED <<commits, published, mainPc, conn, listening, shown, pings, notified>>
  BY <1>1, StartFacts DEF TypeOK, Idle
<1>3. ShownInv(w)'
  BY <1>1, <1>2 DEF ShownInv, Reading, Coming, StateOf
<1>4. QED
  BY <1>1, <1>2, <1>3, StartInv DEF TypeOK

\* A page that subscribes starts from the state it reads.
LEMMA SubscribeInv == \A w \in Windows : IInv /\ Subscribe(w) => IInv'
<1> SUFFICES ASSUME NEW w \in Windows, IInv, Subscribe(w) PROVE IInv'
  OBVIOUS
<1> USE DEF Subscribe, mainVars, regionVars, askVars
<1>1. TypeOK /\ ShownInv(w) /\ Idle(w) /\ StartRead(w, "subscribe")
  BY DEF IInv, WindowInv
<1>2. /\ turn'[w] = "subscribe" /\ Started(w)' = published
      /\ UNCHANGED <<commits, published, mainPc, conn, listening, shown, pings, notified>>
  BY <1>1, StartFacts DEF TypeOK
<1>3. notified[w] <= published
  BY <1>1, Numbers
<1>4. ShownInv(w)'
  BY <1>1, <1>2, <1>3 DEF ShownInv, Reading
<1>5. QED
  BY <1>1, <1>2, <1>4, StartInv DEF TypeOK

\* A ping that is dropped announces what the page already has, or what another
\* ping will announce.
LEMMA NotifyInv == \A w \in Windows : IInv /\ Notify(w) => IInv'
<1> SUFFICES ASSUME NEW w \in Windows, IInv, Notify(w) PROVE IInv'
  OBVIOUS
<1> USE DEF mainVars, regionVars, askVars
<1>1. TypeOK /\ WindowInv(w) /\ Idle(w) /\ published \in Nat
  BY Numbers DEF IInv, Notify
<1>2. /\ pings[w] > 0 /\ pings' = [pings EXCEPT ![w] = @ - 1]
      /\ notified' = [notified EXCEPT ![w] = published]
      /\ UNCHANGED <<mainVars, conn, listening, shown, askVars>>
  BY DEF Notify, TakePing
<1>3. /\ pings' \in [Windows -> Nat] /\ notified' \in [Windows -> 0..published]
      /\ notified'[w] = published
      /\ \A q \in Windows \ {w} : pings'[q] = pings[q] /\ notified'[q] = notified[q]
  BY <1>1, <1>2 DEF TypeOK
<1>4. CASE listening[w] /\ published # notified[w]
  <2>1. StartRead(w, "listener")
    BY <1>4 DEF Notify
  <2>2. /\ turn'[w] = "listener" /\ Started(w)' = published
        /\ UNCHANGED <<commits, published, mainPc>>
    BY <1>1, <1>2, <2>1, StartFacts DEF TypeOK
  <2>3. ShownInv(w)'
    BY <1>1, <1>2, <1>3, <2>2 DEF WindowInv, ShownInv, Reading
  <2>4. QED
    BY <1>1, <1>2, <1>3, <2>1, <2>3, StartInv
<1>5. CASE ~(listening[w] /\ published # notified[w])
  <2>1. UNCHANGED <<regionVars, readVars, turn, since>>
    BY <1>5 DEF Notify
  <2>2. TypeOK'
    BY <1>1, <1>2, <1>3, <2>1 DEF TypeOK, readVars
  <2>3. WriteInv(w)' /\ HeldInv(w)'
    BY <1>1, <1>2, <2>1 DEF WindowInv, WriteInv, HeldInv, Top, StateOf, HeldState, Started,
       readVars
  <2>4. ShownInv(w)'
    BY <1>1, <1>2, <1>3, <1>5, <2>1 DEF WindowInv, ShownInv, StateOf, Reading, Idle
  <2>5. \A q \in Windows \ {w} : KeptFor(q) /\ (q \in subscribers => q \in subscribers')
    BY <1>2, <1>3, <2>1 DEF KeptFor, readVars
  <2>6. QED
    BY <1>2, <2>1, <2>2, <2>3, <2>4, <2>5, WindowStep DEF OwnerKept, WindowInv
<1>6. QED
  BY <1>4, <1>5

\* A read that returns gives a version no older than the one it began with, of
\* which the buffer holds the state.
LEMMA ReturnFacts ==
  ASSUME IInv, NEW w \in Windows, turn[w] # "none",
         IF syncing[w] THEN Region!Return(w) ELSE UNCHANGED <<regionVars, readVars>>
  PROVE  /\ UNCHANGED regionVars
         /\ syncing' = [syncing EXCEPT ![w] = FALSE] /\ from' \in [Windows -> 0..published]
         /\ heldVersion' \in [Windows -> DOMAIN commits]
         /\ heldBytes' \in [Windows -> [{"state"} -> States]]
         /\ heldVersion'[w] >= Started(w) /\ HeldState(w)' = StateOf(heldVersion'[w])
         /\ \A q \in Windows \ {w} :
              /\ from'[q] = from[q]
              /\ heldVersion'[q] = heldVersion[q] /\ heldBytes'[q] = heldBytes[q]
<1>1. /\ TypeOK /\ HeldInv(w) /\ DOMAIN commits = 0..Top /\ Top \in Nat
      /\ 0 \in 0..published /\ heldVersion[w] \in Int
      /\ \A v \in DOMAIN commits : commits[v] \in [{"state"} -> States]
  <2>1. TypeOK /\ HeldInv(w)
    BY DEF IInv, WindowInv
  <2>2. /\ 0 \in 0..published /\ DOMAIN commits = 0..Top /\ Top \in Nat
        /\ heldVersion[w] \in Int
    BY <2>1, Numbers
  <2>3. QED
    BY <2>1, <2>2 DEF TypeOK
<1>2. CASE syncing[w]
  <2>1. PICK v \in DOMAIN commits :
          /\ v >= from[w]
          /\ heldVersion' = [heldVersion EXCEPT ![w] = v]
          /\ heldBytes' = [heldBytes EXCEPT ![w] = commits[v]]
    BY <1>2 DEF Region!Return
  <2>2. /\ syncing' = [syncing EXCEPT ![w] = FALSE] /\ from' = [from EXCEPT ![w] = 0]
        /\ UNCHANGED regionVars
    BY <1>2 DEF Region!Return, Region!End, regionVars
  <2>3. QED
    BY <1>1, <1>2, <2>1, <2>2 DEF TypeOK, Started, HeldState, StateOf
<1>3. CASE ~syncing[w]
  <2>1. UNCHANGED <<regionVars, readVars>>
    BY <1>3
  <2>2. syncing' = [syncing EXCEPT ![w] = FALSE]
    BY <1>1, <1>3, <2>1 DEF TypeOK, readVars
  <2>3. /\ UNCHANGED <<regionVars, from, heldVersion, heldBytes>>
        /\ Started(w) = heldVersion[w]
    BY <1>3, <2>1 DEF readVars, Started
  <2>4. HeldState(w)' = StateOf(heldVersion'[w])
    BY <1>1, <2>3 DEF HeldInv, HeldState, StateOf
  <2>5. /\ from \in [Windows -> 0..published] /\ heldVersion \in [Windows -> DOMAIN commits]
        /\ heldBytes \in [Windows -> [{"state"} -> States]]
    BY <1>1 DEF TypeOK
  <2>6. QED
    BY <1>1, <2>2, <2>3, <2>4, <2>5
<1>4. QED
  BY <1>2, <1>3

\* A read that ends with a value, or with an exception after the writer lapped
\* it, when there is a later version to come.
LEMMA EndReadInv == \A w \in Windows : IInv /\ EndRead(w) => IInv'
<1> SUFFICES ASSUME NEW w \in Windows, IInv, EndRead(w) PROVE IInv'
  OBVIOUS
<1> USE DEF mainVars, askVars
<1>1. TypeOK /\ WindowInv(w) /\ OwnerInv
  BY DEF IInv
<1>2. /\ turn[w] # "none" /\ turn' = [turn EXCEPT ![w] = "none"]
      /\ UNCHANGED <<mainVars, conn, notified, pings, askVars>>
  BY DEF EndRead
<1>3. /\ turn' \in [Windows -> {"none", "get", "subscribe", "listener"}]
      /\ turn'[w] = "none" /\ \A q \in Windows \ {w} : turn'[q] = turn[q]
      /\ conn[w] = "open"
  BY <1>1, <1>2 DEF TypeOK
<1>4. /\ published \in 0..Top /\ published \in Nat /\ Top \in Nat
      /\ DOMAIN commits = 0..Top /\ notified[w] \in 0..published
      /\ \A v \in 0..Top : StateOf(v) \in Int
      /\ since[w] \in Int /\ shown[w] \in Int /\ heldVersion[w] \in Int /\ from[w] \in Int
      /\ HeldState(w) \in Int
      /\ pings[w] \in Nat /\ RetryCap \in Nat /\ RetryCap >= 1
  <2>1. TypeOK
    BY <1>1
  <2>2. QED
    BY <2>1, Numbers
<1>5. CASE ReturnRead(w)
  <2>1. /\ UNCHANGED <<since, regionVars>>
        /\ syncing' = [syncing EXCEPT ![w] = FALSE] /\ from' \in [Windows -> 0..published]
        /\ heldVersion' \in [Windows -> DOMAIN commits]
        /\ heldBytes' \in [Windows -> [{"state"} -> States]]
        /\ heldVersion'[w] >= Started(w) /\ HeldState(w)' = StateOf(heldVersion'[w])
        /\ \A q \in Windows \ {w} :
             /\ from'[q] = from[q]
             /\ heldVersion'[q] = heldVersion[q] /\ heldBytes'[q] = heldBytes[q]
    BY <1>2, <1>5, ReturnFacts DEF ReturnRead
  <2>2. /\ shown' = [shown EXCEPT ![w] = IF turn[w] = "get" THEN @ ELSE HeldState(w)']
        /\ listening' = [listening EXCEPT ![w] = @ \/ turn[w] = "subscribe"]
    BY <1>5 DEF ReturnRead
  <2>3. HeldState(w)' \in States
    BY <2>1 DEF HeldState
  <2>4. TypeOK'
    <3>1. shown' \in [Windows -> States]
      BY <1>1, <2>2, <2>3 DEF TypeOK
    <3>2. listening' \in [Windows -> BOOLEAN]
      BY <1>1, <2>2, Zenon DEF TypeOK
    <3>3. syncing' \in [Windows -> BOOLEAN]
      BY <1>1, <2>1, Zenon DEF TypeOK
    <3>4. \A q \in Windows : (listening'[q] \/ turn'[q] # "none") => conn[q] = "open"
      BY <1>1, <1>3, <2>2 DEF TypeOK
    <3>5. \A q \in Windows : syncing'[q] => turn'[q] # "none"
      BY <1>1, <1>3, <2>1 DEF TypeOK
    <3>6. QED
      BY <1>1, <1>2, <1>3, <2>1, <3>1, <3>2, <3>3, <3>4, <3>5 DEF TypeOK, regionVars
  <2>5. WriteInv(w)'
    BY <1>1, <1>2, <2>1 DEF WindowInv, WriteInv, Top, StateOf, regionVars
  <2>6. /\ heldVersion'[w] \in 0..Top /\ Started(w) \in 0..Top
        /\ StateOf(Started(w)) <= StateOf(heldVersion'[w])
    <3>1. heldVersion'[w] \in 0..Top /\ Started(w) \in 0..Top
      BY <1>1, <1>4, <2>1 DEF TypeOK, Started
    <3>2. QED
      BY <1>1, <1>4, <2>1, <3>1 DEF OwnerInv
  <2>7. HeldInv(w)'
    BY <1>1, <1>2, <1>3, <1>4, <2>1, <2>6 DEF WindowInv, HeldInv, StateOf, regionVars
  <2>8. ShownInv(w)'
    <3>1. /\ UNCHANGED <<subscribers, ownerOpen, conn, notified, published, commits>>
          /\ Coming(w)' = Coming(w) /\ turn'[w] \notin Reading
      BY <1>2, <1>3, <2>1 DEF Coming, Reading, regionVars
    <3>2. CASE turn[w] = "get"
      BY <1>1, <1>3, <2>2, <3>1, <3>2 DEF TypeOK, WindowInv, ShownInv, StateOf, Reading
    <3>3. CASE turn[w] # "get"
      <4>1. turn[w] \in Reading
        BY <1>1, <1>2, <3>3 DEF TypeOK, Reading
      <4>2. shown'[w] = StateOf(heldVersion'[w])
        BY <1>1, <2>1, <2>2, <3>3 DEF TypeOK
      <4>3. Started(w) = published => shown'[w] >= StateOf(published)
        BY <1>4, <2>6, <4>2
      <4>4. Started(w) \in Int /\ Started(w) <= published /\ Started(w) >= notified[w]
        BY <1>1, <1>2, <1>4, <2>6, <4>1 DEF WindowInv, HeldInv, ShownInv
      <4>5. notified[w] = published => Started(w) = published
        BY <1>4, <4>4
      <4>6. QED
        BY <1>1, <3>1, <4>1, <4>3, <4>5 DEF WindowInv, ShownInv, StateOf
    <3>4. QED
      BY <3>2, <3>3
  <2>9. \A q \in Windows \ {w} : KeptFor(q) /\ (q \in subscribers => q \in subscribers')
    <3>1. \A q \in Windows \ {w} :
            syncing'[q] = syncing[q] /\ shown'[q] = shown[q] /\ listening'[q] = listening[q]
      BY <1>1, <2>1, <2>2 DEF TypeOK
    <3>2. QED
      BY <1>2, <1>3, <2>1, <3>1 DEF KeptFor
  <2>10. QED
    BY <1>2, <2>1, <2>4, <2>5, <2>7, <2>8, <2>9, WindowStep DEF OwnerKept, WindowInv
<1>6. CASE ThrowRead(w)
  <2>1. /\ syncing[w] /\ syncing' = [syncing EXCEPT ![w] = FALSE]
        /\ from' = [from EXCEPT ![w] = 0] /\ published >= from[w] + RetryCap
        /\ since' = [since EXCEPT ![w] = 0]
        /\ UNCHANGED <<regionVars, heldVersion, heldBytes, shown, listening>>
    BY <1>6 DEF ThrowRead, Region!Lapped, Region!End, regionVars
  <2>2. 0 \in States /\ 0 \in 0..published
    BY <1>4, UpdatesAssumption DEF States
  <2>3. TypeOK'
    <3>1. syncing' \in [Windows -> BOOLEAN]
      BY <1>1, <2>1, Zenon DEF TypeOK
    <3>2. \A q \in Windows : (listening'[q] \/ turn'[q] # "none") => conn[q] = "open"
      BY <1>1, <1>3, <2>1 DEF TypeOK
    <3>3. \A q \in Windows : syncing'[q] => turn'[q] # "none"
      BY <1>1, <1>3, <2>1 DEF TypeOK
    <3>4. QED
      BY <1>1, <1>2, <1>3, <2>1, <2>2, <3>1, <3>2, <3>3 DEF TypeOK, regionVars
  <2>4. WriteInv(w)'
    BY <1>1, <1>2, <2>1 DEF WindowInv, WriteInv, Top, StateOf, regionVars
  <2>5. HeldInv(w)'
    <3>1. since'[w] = 0 /\ HeldState(w)' = HeldState(w) /\ HeldState(w) >= 0
      BY <1>1, <2>1, Numbers, UpdatesAssumption DEF TypeOK, HeldState, States
    <3>2. QED
      BY <1>1, <1>3, <2>1, <3>1 DEF WindowInv, HeldInv, StateOf, regionVars
  <2>6. ShownInv(w)'
    <3>1. /\ UNCHANGED <<subscribers, ownerOpen, conn, notified, published, commits, shown,
                         listening>>
          /\ Coming(w)' = Coming(w) /\ turn'[w] \notin Reading
      BY <1>2, <1>3, <2>1 DEF Coming, Reading, regionVars
    <3>2. CASE turn[w] \in Reading
      <4>1. Started(w) = from[w] /\ published > from[w]
        BY <1>4, <2>1 DEF Started
      <4>2. Started(w) >= notified[w] /\ (Started(w) = published \/ Coming(w))
        BY <1>1, <3>2 DEF WindowInv, ShownInv
      <4>3. notified[w] # published
        BY <1>4, <4>1, <4>2
      <4>4. Coming(w)
        BY <1>4, <4>1, <4>2
      <4>5. QED
        BY <1>1, <3>1, <4>3, <4>4 DEF WindowInv, ShownInv
    <3>3. CASE turn[w] \notin Reading
      BY <1>1, <3>1, <3>3 DEF WindowInv, ShownInv, StateOf
    <3>4. QED
      BY <3>2, <3>3
  <2>7. \A q \in Windows \ {w} : KeptFor(q) /\ (q \in subscribers => q \in subscribers')
    BY <1>1, <1>2, <1>3, <2>1 DEF TypeOK, KeptFor
  <2>8. QED
    BY <1>2, <2>1, <2>3, <2>4, <2>5, <2>6, <2>7, WindowStep DEF OwnerKept, WindowInv
<1>7. QED
  BY <1>5, <1>6 DEF EndRead

-----------------------------------------------------------------------------
(* The steps of the owner *)

\* A step of the owner that leaves region and windows alone, but for the
\* dispatches that are not answered yet.
LEMMA QueueStep ==
  ASSUME IInv, TypeOK', OwnerInv',
         UNCHANGED <<regionVars, readVars, viewVars, pings, answer, made>>,
         mainPc = "idle", mainPc' = "idle",
         subscribers' = subscribers \/ ~ownerOpen', ~ownerOpen => ~ownerOpen',
         \A w \in Windows :
           dispatch'[w] = dispatch[w] \/ dispatch'[w] \in {"queued", "failed"}
  PROVE  IInv'
<1> SUFFICES ASSUME NEW w \in Windows PROVE WindowInv(w)'
  BY DEF IInv
<1> USE DEF regionVars, readVars, viewVars
<1>1. WindowInv(w)
  BY DEF IInv
<1>2. WriteInv(w)'
  BY <1>1 DEF WindowInv, WriteInv, StateOf
<1>3. HeldInv(w)'
  BY <1>1 DEF WindowInv, HeldInv, HeldState, StateOf, Started
<1>4. ShownInv(w)'
  BY <1>1 DEF WindowInv, ShownInv, StateOf, Started, Coming
<1>5. QED
  BY <1>2, <1>3, <1>4 DEF WindowInv

\* One update more, asked for and not applied.
LEMMA EnqueueFacts ==
  ASSUME IInv, NEW author \in Windows \cup {App}, Enqueue(author), mainPc = "idle",
         UNCHANGED <<arena, mainPc, ownerOpen, regionVars>>
  PROVE  /\ asked' \in 0..MaxUpdates /\ asked' = asked + 1
         /\ queue' \in Seq(Windows \cup {App}) /\ OwnerInv'
<1>1. /\ TypeOK /\ OwnerInv /\ asked' = asked + 1 /\ queue' = Append(queue, author)
      /\ queue \in Seq(Windows \cup {App}) /\ asked < MaxUpdates /\ asked \in 0..MaxUpdates
  BY DEF IInv, Enqueue, TypeOK
<1>2. /\ queue' \in Seq(Windows \cup {App})
      /\ Len(queue') = Len(queue) + 1 /\ Len(queue) \in Nat
  BY <1>1
<1>3. Top' = Top /\ \A v : StateOf(v)' = StateOf(v)
  BY DEF Top, StateOf, regionVars
<1>4. Left' = Left + 1 /\ Left \in Int
  BY <1>2 DEF Left
<1>5. arena \in Int /\ asked \in Int /\ Top \in Int
  BY <1>1, UpdatesAssumption DEF TypeOK, Top
<1>6. QED
  BY <1>1, <1>2, <1>3, <1>4, <1>5, UpdatesAssumption DEF OwnerInv

\* An update of the main process is chained.
LEMMA AppUpdateInv == IInv /\ AppUpdate => IInv'
<1> SUFFICES ASSUME IInv, AppUpdate PROVE IInv'
  OBVIOUS
<1> USE DEF AppUpdate, regionVars, readVars, viewVars, askVars
<1>1. TypeOK
  BY DEF IInv
<1>2. asked' \in 0..MaxUpdates /\ asked' = asked + 1
      /\ queue' \in Seq(Windows \cup {App}) /\ OwnerInv'
  BY EnqueueFacts
<1>3. arena \in 1..(asked' + 1)
  BY <1>1, <1>2, UpdatesAssumption DEF TypeOK
<1>4. TypeOK'
  BY <1>1, <1>2, <1>3 DEF TypeOK
<1>5. QED
  BY <1>1, <1>2, <1>4, QueueStep

\* A dispatch is chained.
LEMMA HandleDispatchInv == \A w \in Windows : IInv /\ HandleDispatch(w) => IInv'
<1> SUFFICES ASSUME NEW w \in Windows, IInv, HandleDispatch(w) PROVE IInv'
  OBVIOUS
<1> USE DEF HandleDispatch, MainIsFree, regionVars, readVars, viewVars
<1>1. TypeOK
  BY DEF IInv
<1>2. asked' \in 0..MaxUpdates /\ asked' = asked + 1
      /\ queue' \in Seq(Windows \cup {App}) /\ OwnerInv'
  BY EnqueueFacts
<1>3. arena \in 1..(asked' + 1)
  BY <1>1, <1>2, UpdatesAssumption DEF TypeOK
<1>4. /\ dispatch' \in [Windows -> {"none", "sent", "queued", "done", "failed", "acked"}]
      /\ \A q \in Windows : dispatch'[q] = dispatch[q] \/ dispatch'[q] = "queued"
  BY <1>1 DEF TypeOK
<1>5. TypeOK'
  BY <1>1, <1>2, <1>3, <1>4 DEF TypeOK
<1>6. QED
  BY <1>1, <1>2, <1>4, <1>5, QueueStep

\* A dispatch is refused.
LEMMA RefuseDispatchInv == \A w \in Windows : IInv /\ RefuseDispatch(w) => IInv'
<1> SUFFICES ASSUME NEW w \in Windows, IInv, RefuseDispatch(w) PROVE IInv'
  OBVIOUS
<1> USE DEF RefuseDispatch, MainIsFree, mainVars, regionVars, readVars, viewVars
<1>1. TypeOK /\ OwnerInv
  BY DEF IInv
<1>2. /\ dispatch' \in [Windows -> {"none", "sent", "queued", "done", "failed", "acked"}]
      /\ \A q \in Windows : dispatch'[q] = dispatch[q] \/ dispatch'[q] = "failed"
  BY <1>1 DEF TypeOK
<1>3. TypeOK'
  BY <1>1, <1>2 DEF TypeOK
<1>4. OwnerInv'
  BY <1>1 DEF OwnerInv, Top, Left, StateOf
<1>5. QED
  BY <1>1, <1>2, <1>3, <1>4, QueueStep

\* One update less, and its window told.
LEMMA SettleFacts ==
  ASSUME TypeOK, queue # <<>>, NEW outcome \in {"done", "failed"}, Settle(outcome)
  PROVE  /\ queue' \in Seq(Windows \cup {App})
         /\ Len(queue) \in Nat /\ Len(queue) >= 1 /\ Len(queue') = Len(queue) - 1
         /\ dispatch' \in [Windows -> {"none", "sent", "queued", "done", "failed", "acked"}]
         /\ \A w \in Windows :
              \/ dispatch'[w] = dispatch[w]
              \/ /\ w = Head(queue) /\ dispatch[w] = "queued"
                 /\ dispatch'[w] = outcome /\ dispatch'[w] # dispatch[w]
         /\ \A w \in Windows : w = Head(queue) => dispatch'[w] # "queued"
<1>1. queue' = Tail(queue) /\ queue \in Seq(Windows \cup {App})
  BY DEF Settle, TypeOK
<1>2. /\ queue' \in Seq(Windows \cup {App})
      /\ Len(queue) \in Nat /\ Len(queue) >= 1 /\ Len(queue') = Len(queue) - 1
  BY <1>1
<1>3. \A w \in Windows :
        dispatch'[w] = IF w = Head(queue) /\ dispatch[w] = "queued" THEN outcome
                       ELSE dispatch[w]
  BY DEF Settle
<1>4. dispatch' \in [Windows -> {"none", "sent", "queued", "done", "failed", "acked"}]
  BY DEF Settle, TypeOK
<1>5. QED
  BY <1>2, <1>3, <1>4

\* An update uses up one of those that are left.
LEMMA Sums ==
  ASSUME NEW a \in Int, NEW b \in Int, NEW l \in Int, NEW t \in Int, NEW k \in Int,
         NEW m, b <= a + 1, l >= 1, m = l - 1, a + l <= k, t + l <= k
  PROVE  b + m <= k /\ t + m <= k /\ b <= k
OBVIOUS

\* An update that is settled without a flush.
LEMMA UnpublishedInv ==
  ASSUME IInv, mainPc = "idle", queue # <<>>, Settle("failed"),
         arena' \in {arena, arena + 1},
         UNCHANGED <<asked, mainPc, ownerOpen, subscribers, regionVars, readVars, viewVars,
                     pings, answer, made>>
  PROVE  IInv'
<1> USE DEF regionVars, readVars, viewVars
<1>1. TypeOK /\ OwnerInv
  BY DEF IInv
<1>2. /\ queue' \in Seq(Windows \cup {App})
      /\ Len(queue) \in Nat /\ Len(queue) >= 1 /\ Len(queue') = Len(queue) - 1
      /\ dispatch' \in [Windows -> {"none", "sent", "queued", "done", "failed", "acked"}]
      /\ \A w \in Windows : dispatch'[w] = dispatch[w] \/ dispatch'[w] = "failed"
  BY <1>1, SettleFacts
<1>3. arena \in Int /\ asked \in Int /\ Top \in Int /\ arena >= 1 /\ StateOf(Top) \in Int
  <2>1. arena \in Int /\ asked \in Int /\ Top \in Nat /\ arena >= 1
    BY <1>1, UpdatesAssumption DEF TypeOK, Top
  <2>2. commits \in [0..Top -> [{"state"} -> States]]
    BY <1>1 DEF TypeOK, Top
  <2>3. QED
    BY <2>1, <2>2, UpdatesAssumption DEF StateOf, States
<1>4. Left' = Left - 1 /\ Left \in Int /\ Left >= 1
  BY <1>2 DEF Left
<1>5. Top' = Top /\ \A v : StateOf(v)' = StateOf(v)
  BY DEF Top, StateOf
<1>6. /\ \A u, v \in 0..Top : u <= v => StateOf(u) <= StateOf(v)
      /\ StateOf(0) = 0 /\ StateOf(Top) <= arena
      /\ arena + Left <= asked + 1 /\ Top + Left <= asked + 1
  BY <1>1 DEF OwnerInv
<1>7. /\ arena' \in Int /\ arena' >= arena /\ arena' <= arena + 1
      /\ arena' + Left' <= asked + 1 /\ Top' + Left' <= asked + 1
      /\ arena' <= asked + 1 /\ StateOf(Top) <= arena'
  <2>1. arena' \in Int /\ arena' >= arena /\ arena' <= arena + 1
    BY <1>3
  <2>2. arena' + Left' <= asked + 1 /\ Top' + Left' <= asked + 1 /\ arena' <= asked + 1
    <3>1. /\ arena + Left <= asked + 1 /\ Top + Left <= asked + 1 /\ Top' = Top
          /\ Left' = Left - 1 /\ Left \in Int /\ Left >= 1
      BY <1>4, <1>5, <1>6
    <3>2. arena \in Int /\ asked + 1 \in Int /\ Top \in Int
      BY <1>3
    <3>3. QED
      BY <2>1, <3>1, <3>2, Sums
  <2>3. StateOf(Top) <= arena'
    BY <1>3, <1>6, <2>1
  <2>4. QED
    BY <2>1, <2>2, <2>3
<1>8. OwnerInv'
  <2>1. \A u, v \in 0..Top' : u <= v => StateOf(u)' <= StateOf(v)'
    BY <1>5, <1>6
  <2>2. StateOf(0)' = 0 /\ StateOf(Top)' <= arena'
    BY <1>5, <1>6, <1>7
  <2>3. QED
    BY <1>7, <2>1, <2>2 DEF OwnerInv
<1>9. arena' \in 1..(asked + 1)
  BY <1>1, <1>3, <1>7 DEF TypeOK
<1>10. TypeOK'
  BY <1>1, <1>2, <1>9 DEF TypeOK
<1>11. QED
  BY <1>1, <1>2, <1>8, <1>10, QueueStep

\* A recipe that throws leaves the arena as it was.
LEMMA RecipeThrowsInv == IInv /\ RecipeThrows => IInv'
BY UnpublishedInv DEF RecipeThrows

\* After close the arena goes on and the region does not.
LEMMA RunUpdateClosedInv == IInv /\ RunUpdateClosed => IInv'
BY UnpublishedInv DEF RunUpdateClosed, Applied

\* The owner closes; nobody is subscribed any more.
LEMMA CloseOwnerInv == IInv /\ CloseOwner => IInv'
<1> SUFFICES ASSUME IInv, CloseOwner PROVE IInv'
  OBVIOUS
<1> USE DEF CloseOwner, regionVars, readVars, viewVars, askVars
<1>1. TypeOK /\ OwnerInv
  BY DEF IInv
<1>2. TypeOK'
  BY <1>1 DEF TypeOK
<1>3. OwnerInv'
  BY <1>1 DEF OwnerInv, Top, Left, StateOf
<1>4. QED
  BY <1>2, <1>3, QueueStep

\* The slot is sealed: a version more, that no window is promised yet.
LEMMA RunUpdateInv == IInv /\ RunUpdate => IInv'
<1> SUFFICES ASSUME IInv, RunUpdate PROVE IInv'
  OBVIOUS
<1> USE DEF viewVars
<1>1. TypeOK /\ OwnerInv /\ mainPc = "idle" /\ queue # <<>> /\ Top = published
  BY DEF IInv, RunUpdate, Applied, Top
<1>2. /\ published \in Nat /\ published >= 1 /\ arena \in Nat /\ asked \in Nat
      /\ MaxUpdates \in Nat /\ asked <= MaxUpdates
      /\ commits \in [0..published -> [{"state"} -> States]] /\ States \subseteq Int
  BY <1>1, UpdatesAssumption DEF TypeOK, States
<1>3. /\ Len(queue) \in Nat /\ Len(queue) >= 1
  BY <1>1 DEF TypeOK
<1>4. PICK bytes \in Region!Bytes :
        commits' = [v \in 0..(published + 1) |->
                      IF v = published + 1 THEN bytes ELSE commits[v]]
  BY DEF RunUpdate, Region!Seal
<1>5. /\ UNCHANGED <<published, readVars, viewVars, pings, dispatch, answer, asked, queue,
                     ownerOpen, subscribers>>
      /\ mainPc' = "sealed" /\ ownerOpen /\ arena' \in {arena, arena + 1}
  BY DEF RunUpdate, Applied, Region!Seal, Region!readerVars, readVars
<1>6. /\ StateOf(published + 1)' = arena'
      /\ \A v \in 0..published : StateOf(v)' = StateOf(v) /\ StateOf(v) \in Int
      /\ Top' = published + 1
  <2>1. \A v \in 0..published : commits'[v] = commits[v]
    BY <1>2, <1>4
  <2>2. \A v \in 0..published : StateOf(v)' = StateOf(v) /\ StateOf(v) \in Int
    BY <1>2, <2>1 DEF StateOf
  <2>3. StateOf(published + 1)' = arena'
    BY <1>5 DEF RunUpdate, StateOf
  <2>4. QED
    BY <1>5, <2>2, <2>3 DEF Top
<1>7. /\ arena' \in Nat /\ arena' >= arena /\ arena' <= arena + 1 /\ Left' = Left - 1
      /\ Left = Len(queue)
  BY <1>1, <1>2, <1>3, <1>5 DEF Left
<1>8. /\ \A u, v \in 0..published : u <= v => StateOf(u) <= StateOf(v)
      /\ StateOf(0) = 0 /\ StateOf(published) <= arena
      /\ arena + Left <= asked + 1 /\ published + Left <= asked + 1
  BY <1>1 DEF OwnerInv
<1>9. /\ arena' + Left' <= asked' + 1 /\ Top' + Left' <= asked' + 1
      /\ arena' <= asked + 1 /\ published + 1 <= asked + 1
  <2>1. /\ Left \in Int /\ Left >= 1 /\ Left' = Left - 1
        /\ Top' = published + 1 /\ asked' = asked
    BY <1>3, <1>5, <1>6, <1>7
  <2>2. arena' + Left' <= asked + 1 /\ arena' <= asked + 1
    BY <1>2, <1>7, <1>8, <2>1
  <2>3. Top' + Left' <= asked + 1 /\ published + 1 <= asked + 1
    BY <1>2, <1>8, <2>1
  <2>4. QED
    BY <2>1, <2>2, <2>3
<1>10. OwnerInv'
  <2>1. \A u \in 0..published : StateOf(u)' <= arena'
    <3>1. \A u \in 0..published : StateOf(u) <= arena
      BY <1>2, <1>6, <1>8
    <3>2. \A u \in 0..published : StateOf(u) <= arena'
      BY <1>2, <1>6, <1>7, <3>1
    <3>3. QED
      BY <1>6, <3>2
  <2>2. \A u, v \in 0..(published + 1) : u <= v => StateOf(u)' <= StateOf(v)'
    <3>1. SUFFICES ASSUME NEW u \in 0..(published + 1), NEW v \in 0..(published + 1), u <= v
                   PROVE  StateOf(u)' <= StateOf(v)'
      OBVIOUS
    <3>2. CASE u = published + 1
      <4>1. v = published + 1
        BY <1>2, <3>1, <3>2
      <4>2. QED
        BY <1>2, <1>5, <1>6, <1>7, <3>2, <4>1
    <3>3. CASE u # published + 1 /\ v = published + 1
      <4>1. u \in 0..published
        BY <1>2, <3>3
      <4>2. QED
        BY <1>2, <1>5, <1>6, <2>1, <3>3, <4>1
    <3>4. CASE u # published + 1 /\ v # published + 1
      <4>1. u \in 0..published /\ v \in 0..published
        BY <1>2, <3>4
      <4>2. QED
        BY <1>6, <1>8, <3>1, <4>1
    <3>5. QED
      BY <3>2, <3>3, <3>4
  <2>3. StateOf(0)' = 0 /\ StateOf(Top)' = arena'
    <3>1. 0 \in 0..published
      BY <1>2
    <3>2. QED
      BY <1>2, <1>5, <1>6, <1>8, <3>1
  <2>4. QED
    BY <1>1, <1>5, <1>6, <1>7, <1>9, <2>2, <2>3 DEF OwnerInv
<1>11. arena' \in 1..(asked + 1) /\ arena' \in States /\ published + 1 <= MaxUpdates + 1
  <2>1. arena >= 1
    BY <1>1 DEF TypeOK
  <2>2. QED
    BY <1>2, <1>7, <1>9, <2>1 DEF States
<1>12. made' \in [Windows -> States]
  BY <1>1, <1>11 DEF RunUpdate, TypeOK
<1>13. TypeOK'
  <2>1. commits' \in [0..(published + 1) -> [{"state"} -> States]]
    BY <1>2, <1>4 DEF Region!Bytes
  <2>2. heldVersion \in [Windows -> DOMAIN commits']
    BY <1>1, <1>2, <2>1 DEF TypeOK
  <2>3. QED
    BY <1>1, <1>5, <1>11, <1>12, <2>1, <2>2 DEF TypeOK, readVars
<1>14. ASSUME NEW w \in Windows PROVE WindowInv(w)'
  <2>1. /\ WindowInv(w) /\ heldVersion[w] \in 0..published /\ from[w] \in 0..published
        /\ answer[w] \in 0..published /\ published \in 0..published
    BY <1>1, <1>2 DEF IInv, TypeOK
  <2>2. made'[w] = IF w = Head(queue) /\ dispatch[w] = "queued" THEN arena' ELSE made[w]
    BY DEF RunUpdate
  <2>3. WriteInv(w)'
    BY <1>5, <1>6, <2>1, <2>2 DEF WindowInv, WriteInv
  <2>4. /\ Started(w)' = Started(w) /\ Started(w) \in 0..published
        /\ HeldState(w)' = HeldState(w)
    BY <1>5, <2>1 DEF Started, HeldState, readVars
  <2>5. HeldInv(w)'
    BY <1>5, <1>6, <2>1, <2>4 DEF WindowInv, HeldInv, readVars
  <2>6. ShownInv(w)'
    BY <1>1, <1>5, <1>6, <2>1, <2>4 DEF WindowInv, ShownInv, Coming
  <2>7. QED
    BY <2>3, <2>5, <2>6 DEF WindowInv
<1>15. QED
  BY <1>10, <1>13, <1>14 DEF IInv

\* The word is stored: whoever waits for it has a ping to come.
LEMMA PublishWordInv == IInv /\ PublishWord => IInv'
<1> SUFFICES ASSUME IInv, PublishWord PROVE IInv'
  OBVIOUS
<1>1. TypeOK /\ OwnerInv /\ mainPc = "sealed" /\ mainPc' = "published"
  BY DEF IInv, PublishWord
<1>2. /\ UNCHANGED <<arena, asked, queue, ownerOpen, subscribers, commits, pings>>
      /\ UNCHANGED <<readVars, viewVars, askVars>> /\ published' = published + 1
  BY DEF PublishWord, Region!Publish, Region!readerVars, readVars
<1>3. /\ published \in Nat /\ published >= 1 /\ Top = published + 1 /\ Top' = Top
      /\ commits \in [0..(published + 1) -> [{"state"} -> States]]
  BY <1>1, <1>2, UpdatesAssumption DEF TypeOK, Top
<1>4. \A v : StateOf(v)' = StateOf(v)
  BY <1>2 DEF StateOf
<1>5. OwnerInv'
  <2>1. Left' = Left /\ ownerOpen /\ queue # <<>>
    BY <1>1, <1>2 DEF Left, OwnerInv
  <2>2. QED
    BY <1>1, <1>2, <1>3, <1>4, <2>1 DEF OwnerInv
<1>6. published' \in 1..(MaxUpdates + 1)
  <2>1. /\ Top + Left <= asked + 1 /\ asked <= MaxUpdates /\ asked \in Nat
        /\ Left = Len(queue) - 1 /\ queue # <<>> /\ queue \in Seq(Windows \cup {App})
    BY <1>1, UpdatesAssumption DEF OwnerInv, TypeOK, Left
  <2>2. Left \in Nat
    BY <2>1
  <2>3. QED
    BY <1>2, <1>3, <2>1, <2>2, UpdatesAssumption
<1>7. TypeOK'
  <2>1. 0..published \subseteq 0..(published + 1)
    BY <1>3
  <2>2. /\ from \in [Windows -> 0..published] /\ notified \in [Windows -> 0..published]
        /\ answer \in [Windows -> 0..published]
    BY <1>1 DEF TypeOK
  <2>3. /\ from' \in [Windows -> 0..published'] /\ notified' \in [Windows -> 0..published']
        /\ answer' \in [Windows -> 0..published']
    BY <1>2, <2>1, <2>2 DEF readVars, viewVars, askVars
  <2>4. QED
    BY <1>1, <1>2, <1>3, <1>6, <2>3 DEF TypeOK, readVars, viewVars, askVars
<1>8. ASSUME NEW w \in Windows PROVE WindowInv(w)'
  <2> USE DEF readVars, viewVars, askVars
  <2>1. /\ WindowInv(w) /\ Started(w)' = Started(w) /\ HeldState(w)' = HeldState(w)
        /\ Coming(w)'
    BY <1>1, <1>2 DEF IInv, Started, HeldState, Coming
  <2>2. WriteInv(w)'
    BY <1>1, <1>2, <1>3, <1>4, <2>1 DEF WindowInv, WriteInv
  <2>3. HeldInv(w)'
    <3>1. Started(w) \in Int
      BY <1>1, <1>3 DEF TypeOK, Started
    <3>2. Started(w) <= published => Started(w) <= published + 1
      BY <1>3, <3>1
    <3>3. QED
      BY <1>2, <1>4, <2>1, <3>2 DEF WindowInv, HeldInv
  <2>4. notified[w] # published + 1
    BY <1>1, <1>3 DEF TypeOK
  <2>5. ShownInv(w)'
    BY <1>2, <2>1, <2>4 DEF WindowInv, ShownInv
  <2>6. QED
    BY <2>2, <2>3, <2>5 DEF WindowInv
<1>9. QED
  BY <1>5, <1>7, <1>8 DEF IInv

\* The pings are sent, and the author hears of the version.
LEMMA AnnounceInv == IInv /\ Announce => IInv'
<1> SUFFICES ASSUME IInv, Announce PROVE IInv'
  OBVIOUS
<1>1. /\ TypeOK /\ OwnerInv /\ mainPc = "published" /\ mainPc' = "idle" /\ Settle("done")
      /\ ownerOpen /\ queue # <<>> /\ Top = published
  BY DEF IInv, Announce, OwnerInv, Top
<1>2. /\ UNCHANGED <<arena, asked, ownerOpen, subscribers, made>>
      /\ UNCHANGED <<regionVars, readVars, viewVars>>
  BY DEF Announce
<1>3. /\ queue' \in Seq(Windows \cup {App})
      /\ Len(queue) \in Nat /\ Len(queue) >= 1 /\ Len(queue') = Len(queue) - 1
      /\ dispatch' \in [Windows -> {"none", "sent", "queued", "done", "failed", "acked"}]
      /\ \A w \in Windows :
           \/ dispatch'[w] = dispatch[w]
           \/ /\ w = Head(queue) /\ dispatch[w] = "queued"
              /\ dispatch'[w] = "done" /\ dispatch'[w] # dispatch[w]
  BY <1>1, SettleFacts
<1>4. Left' = Left /\ Top' = Top /\ \A v : StateOf(v)' = StateOf(v)
  BY <1>1, <1>2, <1>3 DEF Left, Top, StateOf, regionVars
<1>5. OwnerInv'
  BY <1>1, <1>2, <1>4 DEF OwnerInv
<1>6. /\ published \in 0..published /\ published # 0
      /\ answer' = [w \in Windows |->
                      IF dispatch'[w] # dispatch[w] THEN published ELSE answer[w]]
      /\ pings' = [w \in Windows |-> IF w \in subscribers THEN pings[w] + 1 ELSE pings[w]]
      /\ answer \in [Windows -> 0..published] /\ pings \in [Windows -> Nat]
  BY <1>1 DEF Announce, TypeOK
<1>7. TypeOK'
  <2>1. answer' \in [Windows -> 0..published] /\ pings' \in [Windows -> Nat]
    BY <1>6
  <2>2. QED
    BY <1>1, <1>2, <1>3, <2>1 DEF TypeOK, regionVars, readVars, viewVars
<1>8. ASSUME NEW w \in Windows PROVE WindowInv(w)'
  <2> USE DEF regionVars, readVars, viewVars
  <2>1. /\ WindowInv(w) /\ Started(w)' = Started(w) /\ HeldState(w)' = HeldState(w)
    BY <1>2 DEF IInv, Started, HeldState
  <2>2. WriteInv(w)'
    <3>1. CASE dispatch'[w] = dispatch[w]
      BY <1>1, <1>2, <1>4, <1>6, <2>1, <3>1 DEF WindowInv, WriteInv
    <3>2. CASE dispatch'[w] # dispatch[w]
      <4>1. w = Head(queue) /\ dispatch[w] = "queued" /\ answer'[w] = published
        BY <1>3, <1>6, <3>2
      <4>2. made[w] = StateOf(published)
        BY <1>1, <2>1, <4>1 DEF WindowInv, WriteInv
      <4>3. QED
        BY <1>1, <1>2, <1>4, <1>6, <4>1, <4>2 DEF WriteInv
    <3>3. QED
      BY <3>1, <3>2
  <2>3. HeldInv(w)'
    BY <1>2, <1>4, <2>1 DEF WindowInv, HeldInv
  <2>4. conn[w] = "open" => Coming(w)'
    <3>1. conn[w] = "open" => w \in subscribers
      BY <1>1, <2>1 DEF WindowInv, ShownInv
    <3>2. w \in subscribers => pings'[w] > 0
      BY <1>6
    <3>3. QED
      BY <3>1, <3>2 DEF Coming
  <2>5. listening[w] \/ turn[w] # "none" => conn[w] = "open"
    BY <1>1 DEF TypeOK
  <2>6. ShownInv(w)'
    BY <1>2, <1>4, <2>1, <2>4, <2>5 DEF WindowInv, ShownInv, Reading
  <2>7. QED
    BY <2>2, <2>3, <2>6 DEF WindowInv
<1>9. QED
  BY <1>5, <1>7, <1>8 DEF IInv

-----------------------------------------------------------------------------
(* The theorems *)

\* No step of the owner or of a window breaks the invariant.
THEOREM Invariance == Spec => []IInv
<1>1. IInv /\ [Next]_vars => IInv'
  <2> SUFFICES ASSUME IInv, [Next]_vars PROVE IInv'
    OBVIOUS
  <2>1. CASE AppUpdate
    BY <2>1, AppUpdateInv
  <2>2. CASE CloseOwner
    BY <2>2, CloseOwnerInv
  <2>3. CASE Main
    BY <2>3, RecipeThrowsInv, RunUpdateInv, PublishWordInv, AnnounceInv, RunUpdateClosedInv,
       HandleDispatchInv, RefuseDispatchInv DEF Main
  <2>4. ASSUME NEW w \in Windows, Window(w) PROVE IInv'
    BY <2>4, ConnectInv, HandleHelloInv, AttachInv, GetInv, SubscribeInv, UnsubscribeInv,
       NotifyInv, DropPingInv, EndReadInv, SendDispatchInv, ReceiveAnswerInv, ReloadInv,
       DestroyInv DEF Window
  <2>5. CASE UNCHANGED vars
    <3> USE <2>5 DEF vars, mainVars, regionVars, readVars, viewVars, askVars
    <3>1. TypeOK'
      BY DEF IInv, TypeOK
    <3>2. OwnerInv'
      BY DEF IInv, OwnerInv, Top, Left, StateOf
    <3>3. \A w \in Windows : WindowInv(w)'
      BY DEF IInv, WindowInv, WriteInv, HeldInv, ShownInv, Top, StateOf, HeldState, Started,
         Coming
    <3>4. QED
      BY <3>1, <3>2, <3>3 DEF IInv
  <2>6. QED
    BY <2>1, <2>2, <2>3, <2>4, <2>5 DEF Next
<1>2. QED
  BY InitInv, <1>1, PTL DEF Spec

\* Every variable of owner and windows keeps its type.
THEOREM TypeCorrect == Spec => []TypeOK
<1>1. IInv => TypeOK
  BY DEF IInv
<1>2. QED
  BY Invariance, <1>1, PTL

\* A read is never older than what was published when it began.
THEOREM CurrentReads == Spec => []ReadIsCurrent
<1>1. IInv => ReadIsCurrent
  BY DEF IInv, WindowInv, HeldInv, ReadIsCurrent
<1>2. QED
  BY Invariance, <1>1, PTL

\* No ping that is needed is lost: a page that listens and is left in peace
\* shows the last state.
THEOREM QuietWindows == Spec => []QuietWindowShowsLast
<1>1. IInv => QuietWindowShowsLast
  <2> SUFFICES ASSUME IInv, NEW w \in Windows, mainPc # "published", pings[w] = 0,
                      turn[w] = "none", listening[w]
               PROVE  shown[w] >= StateOf(published)
    BY DEF QuietWindowShowsLast
  <2>1. ~Coming(w) /\ turn[w] \notin Reading
    BY DEF Coming, Reading
  <2>2. QED
    BY <2>1 DEF IInv, WindowInv, ShownInv
<1>2. QED
  BY Invariance, <1>1, PTL

\* A dispatch resolves with the version that holds what it wrote.
THEOREM AnswersNameWrites == Spec => []AnswerNamesWrite
<1>1. IInv => AnswerNamesWrite
  BY DEF IInv, WindowInv, WriteInv, AnswerNamesWrite
<1>2. QED
  BY Invariance, <1>1, PTL

=============================================================================
