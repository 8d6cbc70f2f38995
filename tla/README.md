# globals in TLA+

A verification project for `globals`, a state store that several processes of an
Electron application, or several threads of a worker topology, read from shared memory
while one owner writes it. Paths are relative to the repository root.

1. [The system](#the-system): its parts, the state each keeps, how they interact
2. [What is modelled](#what-is-modelled): the modules and how they follow the code
3. [What is checked](#what-is-checked): the runs, their bounds, the fairness
4. [What is proved](#what-is-proved): the theorems and the arguments
5. [Where the code and its documents differ](#where-the-code-and-its-documents-differ)
6. [What is not modelled](#what-is-not-modelled)
7. [Plan](#plan)

Check a run with `tlc -config <cfg> <module>.tla`, a proof with
`tlapm <module>.tla`. `PROJECT.json` names, for every definition, the lines it models.

## The system

There are two ways to share a state, and they have one object layer in common.

*Worker topology.* The owner and the readers map one `SharedArrayBuffer`. The owner writes
new versions beside the old ones, publishes each in the header, and frees an old version
when the reader table says that nobody reads it (`packages/core`).

*Native topology.* Renderer processes cannot share such a buffer. The owner keeps its arena
private and flushes it after every commit into a memory-mapped file; each reader copies the
file into a private buffer when its version has moved and reads that copy with the same
reader code (`packages/shm`, `packages/electron`). Nothing is reclaimed across processes.

| Component | State | Operations | Talks to |
|---|---|---|---|
| Arena owner, `core/src/owner.ts` | header words, `#versionId`, `#garbage` | `update`, `commit`, `#install` (`#evictForVersion`, `#publish`, `reclaim`), `adopt` | ring, reader table, allocator, strings, encoders |
| Retained ring, `core/src/retained.ts` | one entry (state, version, root) a retained version | `publish`, `retire`, `isLive`, `read` | written by the owner, read by readers |
| Reader table, `core/src/readers.ts` | per slot: state, epoch, heartbeat, generation | `claim`, `release`, `pin`, `unpin`, `beat`, `minimumPinnedEpoch`, `forceRelease` | stored by readers, scanned by the owner and the monitor |
| Reader and snapshots, `core/src/reader.ts` | `#current`, its slot, snapshots the caller keeps | `acquire`, `acquireVersion`, `readVersion`, `releaseSnapshot`, `detach`; `value`, `toJSON`, `get` | header, ring, table |
| Lazy views and history, `view.ts`, `history.ts` | a context that validates | property reads, `versions`, `read`, `pin` | reader, ring |
| Liveness monitor, `liveness.ts` | samples per slot, a timer | `tick`, `start`, `stop`, `reapSlot` | table, `owner.reclaim` |
| Allocator and arena, `allocator.ts`, `arena.ts`, `layout.ts` | bump pointer, free lists, block headers, the words | `allocate`, `free`, `rewindTo`, growth | owner, encoders |
| Strings, `strings.ts` | the intern map of the owner's process, the records in the arena | `intern`, `forget` | encoders, drafts |
| Map, vector, values, `hamt.ts`, `vector.ts`, `values.ts` | nodes in the arena, the journals of a commit | get, assoc, dissoc, push, encode, decode, what a write retires | allocator |
| Drafts, `draft.ts` | a tree of draft states | the traps, `createDraft`, `finalizeState` | owner, map, vector |
| Verified reads, `verify.ts`, `checksum.ts` | the checksum in the header | `publishChecksum`, `verifyRoot` | owner, reader |
| External tier, `external.ts` | handles, cached promises | `put`, `drop`, `get`, `serve`, `invalidate` | a transport |
| Stores, `store.ts` | write queue, listeners, `#lastSeen` | `update`, `set`, `subscribe`, `notify`, `close` | owner, reader |
| Shared-memory transport, `shm/native/addon.c` | the word (version, slot), two slots with a sequence each, the ranges of the last flush | `Create`, `Attach`, `Flush`, `Sync`, `Version`, `Close` | owner core, reader core |
| Native owner and windows, `electron/src/native` | subscribers, region, held version | hello, dispatch, read, commit pings, quit | IPC, store, transport, persistence |
| Persistence, `electron/src/persistence.ts` | timer, pending value, chain of writes, the file | `load`, `save`, `flush` | native owner |
| Bindings, `react`, `vue`, `svelte` | the last snapshot | subscribe, read | a store |

The behaviours that are hard:

* **Memory without locks.** Publication, pinning, the two scans of a reclaim and the
  eviction of a full ring interleave with readers at every load and store. What keeps a
  reader from freed memory is only the order of these accesses.
* **Copies that are lapped.** `Sync` copies a slot with a `memcpy` while the owner may
  begin to rewrite it two commits later.
* **Snapshots that outlive things**: their pin, the reader they came from, the version.
* **A file that must survive**: saves, timers, chained asynchronous writes, failures,
  crashes and quits.
* **Partial failure**: a commit that throws half way gives back what it took, and an owner
  that dies half way leaves a buffer that another adopts.
* **Memory without a collector.** A version shares most of its blocks with the one before.
  Every path through the encoders and the drafts has to say which blocks the new version no
  longer reaches: each of them once, and none that it still does.
* **Messages**: pings that arrive before anyone listens, or late and merged; dispatches
  after a close.

What makes each component correct:

| Component | Correct when |
|---|---|
| Publication, retention, reclamation | no read returns bytes of freed memory; a snapshot is one version; a pin that was checked is respected until the ring is full; retention is bounded; a reader never goes back |
| Transport | a sync returns one commit as it was declared, no older than the published one, and is retried only when it was really lapped |
| Persistence | the file is whole, only moves forward, and gets every last value |
| Liveness monitor | reaps the dead, spares the living, and reaping the living is harmless |
| Native store | a window that heard of a commit reads it or a later one; every window gets to read the last commit |
| Allocator | blocks in use never overlap; a commit that fails leaves nothing behind and takes nothing away |
| Map, vector, values, drafts | every version decodes to what was written, however it is read; a write retires what the old version alone reached, once |
| Verified reads | a checksum stands as long as its version is the current one |

## What is modelled

| Module | Models |
|---|---|
| `CommitLog` | the promise of the transport, abstractly: commits are sealed, published one at a time, and given to readers whole |
| `ShmRegion` | `Flush` and `Sync` of `packages/shm/native/addon.c` |
| `MCShmRegion` | values and mirrors for TLC |
| `ShmRegionProofs` | the proofs about it, with the refinement of `CommitLog` |
| `VersionRetention` | what publication and reclamation promise, abstractly: when a version is given up, when its garbage is freed, what a pin holds |
| `EpochReclamation` | `owner.ts` (`#install`, `#publish`, `reclaim`, `#evictForVersion`), `retained.ts`, `readers.ts`, `reader.ts` |
| `MCEpochReclamation` | the symmetry for TLC |
| `EpochReclamationProofs` | the proofs about it, with the refinement of `VersionRetention` |
| `SnapshotStore` | `persistence.ts`, and the commit, quit and close of `native/owner-core.ts` and `native/owner.ts` |
| `SnapshotStoreProofs` | the proofs about it |
| `NativeStore` | the write queue of `core/src/store.ts`, `native/owner-core.ts`, `owner.ts`, `renderer.ts`, `reader-core.ts`, over `CommitLog` |
| `NativeStoreProofs` | the proofs about it |
| `Allocator` | `allocator.ts`, and the growth of `owner.ts` |
| `AllocatorProofs` | the proofs about it |
| `EncodeContext` | `strings.ts`, the journals of a commit and `#rollback`; what a write may do to a context |
| `EncodeContextProofs` | the proofs about it |
| `BlockLifetime` | `owner.ts` as it decides who holds a block: the abstract specification of `ArenaOwner` |
| `BlockLifetimeProofs` | the proofs about it |
| `Trie` | what the two have in common: the width of a node, the fragments of a hash or an index |
| `Hamt`, `Vector` | `hamt.ts`, `vector.ts` |
| `VectorEdits` | any sequence of edits of a vector, in the arena of any state of `BlockLifetime` |
| `VectorProofs` | the proofs about `Vector` and `VectorEdits` |
| `Values`, `Verify` | `values.ts` and the reads of `view.ts`; `verify.ts` |
| `Draft` | `draft.ts` |
| `ArenaOwner` | `commit`, `update`, `reclaim` and `adopt` of `owner.ts`, over all of these |
| `MCArenaOwner` | values, hashes and recipes for TLC |

### ShmRegion

A step is one load or store of shared memory; the `memcpy`s of both sides are split into
cells copied in any order, since no fence orders them. `Flush` is the sequence
`EnterSlot` (the arguments are checked, the inactive slot's sequence goes odd),
`ReapplyCell` (the ranges of the commit before, from the published slot), `CopyInCell` (the
declared ranges, from the mirror), `StampSlot`, `LeaveSlot` (the sequence goes even),
`PublishWord`. A reader runs `CallSync`, `LoadWord`, `LoadSeq`, `CopyOutCell`,
`LoadVersion`, `CheckSeq`, and starts over, or gives up at the cap.

The owner's mirror is an arbitrary function of its constant `Mirrors`: it may differ from
the last commit outside the declared ranges, and these differences must not show. The
history variable `log` says what each commit is.

The comment at the head of `addon.c` is older than the code in two places. Lines 15 to 18
have a reader reread the word, and lose its copy only to two whole commits; the code
rereads the sequence of the slot, as lines 24 to 29 say, and one commit and the beginning of
another are enough. Lines 20 to 22 take the ranges of the commit before from the mirror;
`addon.c:433` takes them from the published slot. The model follows the code.

### EpochReclamation

The variables are the words of shared memory (`floor`, `seq`, `root`, `version`, the ring,
the reader table), the owner's `#garbage` and where it is in `#install` or `reclaim`, and
for each reader its call, what the call has loaded, `#current`, and one more snapshot that
the caller holds. A step is one load or store. Exceptions, where steps were joined because
nothing can happen in between: `claim` and `release` of a slot store three words, and
before the first and after the last of them the slot pins nothing; a scan loads the state
of a slot and then its epoch, and a slot claimed in between holds no epoch yet; the root's
tag and payload are one word, since the sequence covers both; the decode of a value is one
step, placed where its last load is, because freed memory stays broken.

Memory is abstracted to the lists of `#garbage`: the list of version `v` is what `v`
reached and `v + 1` does not. Freeing it can break the versions up to `v` and none above.
A root is named by its version, so a snapshot that mixes two versions shows as a root that
is not its version's. Which commits leave garbage is open: `StoreEven` chooses.

`acquire` is modelled with its retries, the pin it leaves behind between two attempts, the
fallback after `MAX_SPIN` of them, and the early return on an unchanged version. A reader
in `Historians` also calls `acquireVersion` and `readVersion`, for any version. A snapshot
may be read, or released, when its pin is gone and after its reader detached: the API
permits all of it.

`VersionRetention` says the same without the words: the next version takes its place in the
ring when the one it displaces was given up (`MakeRoom`), it is published, versions older
than the depth of history are given up, garbage is freed once and late, pins are made and
end. A pin counts from its floor check on, as the history variable `secured` records it,
and while it stands; so the two scans, the order of the stores of `#publish` and what a
reader loads before it pins are gone, and that they are in an order that keeps this promise
is the refinement (`ImplementsRetention`). What the abstract specification does not promise,
the code does not keep: that the floor spares a pin (`epoch_stale`), and that a pin ends
by its reader only (`epoch_own_pin`).

### SnapshotStore

Values are named by the number of the commit that made them, over all lives of the app, so
an old value in the file shows. `Commit` is a commit of the store with the owner's
subscriber, which saves it in the same turn of the event loop. `flush` is part of the
timer, of before-quit and of close. A write is split at its awaits; `OpenTemp` and
`FillTemp` are the two ends of `writeFile`, between which the file is partial, and each
await may reject (`Fail`, then `Unlink`). `Crash` ends the process anywhere, `Exit` after a
before-quit, since nothing waits for the flush it started.

Two histories: `failed`, the last value whose write was given up, and `quitAt`, the commit
the store held at before-quit. Temporary files that dead processes left behind are not
modelled; their names hold the process id. `onError` returns: one that throws would reject
the chain of writes, and with it every later one.

### NativeStore

The level above the transport. It uses `CommitLog` in the place of the region, so that a
flush is two steps (sealed, published) and a `sync` is a call and a return, or the throw of
`ESHM_LIVELOCK`; that `ShmRegion` implements `CommitLog` is proved. A state of the store is
a number, greater for a later one; a version of the region holds the number the arena had.

The main process runs one turn at a time. `AppUpdate` and `HandleDispatch` chain an update
in the queue. The update at the head throws (`RecipeThrows`), or makes a state or changes
nothing (`RunUpdate`), is flushed (`PublishWord`), announced to the subscribers, and its
dispatch resolved with the version (`Announce`). The version is read in a continuation of
the update's own promise, which runs before the next update does, so this is one step.
Messages are tasks, and the queue runs in microtasks: `HandleDispatch` and `HandleHello`
find the queue empty (`MainIsFree`). `CloseOwner` may come with updates queued, which then
still change the arena and are rejected (`RunUpdateClosed`).

A window connects (`Connect`, `HandleHello`, `Attach`), reads (`Get`), reads and subscribes
like a svelte binding (`Subscribe`), takes a ping (`Notify`), or drops one that came before
it listened (`DropPing`). Pings carry a version that nobody looks at, so they are counted.
The version check of `#ensure` and the call of `sync` are one step, as are the version check
of `notify` and that of the read its listener makes: a commit between the two is a commit
before both or after both, to every property here. A read ends in `EndRead`. A window may
reload or be destroyed at any point, and pings of the old page may meet the new one.
Answers and pings are not ordered against one another.

Two histories: `since`, the state a read had to return at least when it began, and `made`,
the state a dispatch made.

### ArenaOwner and the data layer

`EpochReclamation` takes it for granted that the garbage of a version is what this version
reached and the next does not. These modules are about that: the whole path from a value
or a recipe to the blocks of the arena and back. The layers extend one another:
`Allocator`, `EncodeContext`, `Trie`, then `Hamt` beside `Vector`, then `Values`, `Draft` and
`Verify`, then `ArenaOwner`, which also extends `BlockLifetime` and, between the two,
`VectorEdits`: no commit of it calls `vectorPush`, so that scripts of edits are run in the
arena of each of its states. The data layer is
synchronous code of one process, so its operations are operators that take a context and
return one; the actions are those of `ArenaOwner`.

A *context* is the memory together with what the write in progress did to it: the
allocator, the content of each block, the intern map, and the journals of `allocated`,
`retired` and `interned`. An exception is the field `err`: once it is set, no operator
changes the context any more, which is what unwinding does, so that an operator that builds
a structure need not ask after each step. `Then(got, LAMBDA x : ...)` names the result of a
step. A block is a record of what the code keeps in its words; freed blocks keep their
content until they are written again, so that a read of freed memory returns what it would
return. A block read as another kind is `Corrupt`, where the code throws.

* `Allocator` keeps addresses, sizes, classes, the order of the free lists, growth and the
  scavenging of larger classes, since what a stale offset hits depends on them.
* `Hamt` keeps bitmap and collision nodes, the merge of two entries, the collapse of a
  child on delete, path copying, and what is allocated and retired at each step. The rank of
  a fragment in a bitmap is its order here.
* `Vector` keeps the header, the trie, the tail, `vectorPush` and `vectorFromSlots`. The
  recursions of the code go down a path and write on the way back; here the path is read
  (`Path`), and its levels are then written from the leaf up (`WriteUp`). `assocInTrie`,
  `newPath` and `pushLeaf` are this with a new leaf, with no node on the path, and with a
  path that leaves the trie. `Power` is the shift `1 << n`, as a recursive function.
* `Values` keeps every tag of the encoder and decoder. The keys of an object come in the
  order of `KeyOrder` and not of insertion; `Vector` allocates lower nodes first and
  `Draft` finishes children in the order of their keys. Each of these changes addresses only.
* `Draft` keeps the object and array traps, drafts read out and assigned elsewhere, and
  both ways of finishing an array: element by element, and the rebuild. Of the seven
  methods that rebuild, `reverse`, `shift` and `unshift` stand for all.
* `Verify` takes a checksum for the sequence of what is mixed into it, so collisions are
  left out.

In `ArenaOwner` a commit, a reclaim and a reader's acquire are one step each; how their
loads and stores interleave is the subject of `EpochReclamation`. A write has two halves, since an owner may die, or an
encoder throw, between them. The first is `commit`, which encodes a value, or `beginUpdate`,
then reads and writes of drafts in any order, then `finishUpdate`. The second is
`installVersion`, or `keepVersion` for a recipe whose slot did not move, or `rollbackWrite`
for an exception of the encoder or of the recipe. `adopt` is possible before, within and
after each half; the free lists, the garbage and the intern map die with the owner before.
Readers are the versions they pin.

The histories are `content`, the value each version was given, `reach`, the blocks below
its root, `opened`, the context with which a write began, `lost`, the blocks nobody knows of
after an adoption, and `foreign`, whether the current root is another owner's.

`BlockLifetime` is the same owner without values, slots and drafts, and the contract
between `owner.ts` and the encoders is explicit in it:

* `Extends(c, d)` says what a write may do to a context, from any state of it to any later
  one: it takes blocks that nobody uses, puts each on the journal that fits, and writes no
  other. Every step of a write (`encodeWrite`, `continueWrite`) is such a change, and any.
* `Replaces(blocks)` says what a write hands to `#install`: the blocks that the version
  before reaches, with those the write allocated, are split into those of the next version
  and those retired. `publish` asks for it, of any set of blocks.

`rejectWrite`, `Install` with the eviction and the reclaim in it, `reclaim` and
`adoptArena` are the code, in full, and `ArenaOwner` uses the same operators. That
`ArenaOwner` implements `LifetimeSpec`, which is to say that `encodeValue`, the drafts and
the retiring of replaced nodes keep the contract, is checked by TLC. It is a real
obligation: with the recipes of `arena_rebuild`, which retire blocks twice, `Replaces`
fails.

## What is checked

| Run | Instance | Shows |
|---|---|---|
| `shm_region` | 1 reader, 2 cells, 4 commits, cap 2 | `SyncedCopyIsOneCommit`, `RetryPaidByPublish`, `SyncNotOlderThanCall`, `ImplementsCommitLog`, `TypeOK` |
| `shm_monotone` | 1 reader, 1 cell, 4 commits, cap 2 | *violates* `SyncsMonotone` |
| `epoch_reclamation` | 1 reader with history, ring of 3, depth 1, 4 versions, 2 attempts | `ReadsAreIntact`, `SnapshotsAreWhole`, `RetentionIsBounded`, `CurrentMovesForward`, `ImplementsRetention`, `TypeOK` |
| `epoch_table` | 2 readers, 2 slots, ring of 2, 2 versions | `ReclaimSparesPinned`, `ImplementsRetention` |
| `epoch_stale` | 1 reader, ring of 3, 3 versions | *violates* `StaleOnlyPastCap` |
| `epoch_own_pin` | 2 readers, 1 slot | *violates* `PinIsOwn` |
| `snapshot_store` | 4 commits, any number of restarts | `FileIsWhole`, `FileNeverGoesBack`, `LastValueIsCarried`, `CommitsLand`, `TypeOK` |
| `snapshot_quit` | 1 commit | *violates* `QuitSavesLastCommit` |
| `native_store` | 1 window, 2 updates of the window or the main process, cap 1 | `ReadIsCurrent`, `QuietWindowShowsLast`, `AnswerNamesWrite`, `CommitIsShown`, `TypeOK` |
| `native_unchanged` | 1 window, 1 update | *violates* `UnchangedPublishesNothing` |
| `arena_owner` | 4 versions, ring of 2, 3 steps of recipes, rejections and adoptions, 1 reader, nodes 2 wide | `VersionsReadBack`, `BlocksHaveOneOwner`, `NothingLeaks`, `RejectedWriteLeavesNothing`, `VersionsAreRetained`, `RetainedBlocksStand`, `CurrentVersionVerifies`, `LazyReadsAgree`, `VectorFollowsEdits`, `NoEditIsLost`, `LifetimeSpec` (the refinement), `TypeOK`, `LifetimeTypeOK` |
| `arena_rebuild` | one committed array, recipes that edit an element and push | *violates* `VersionsReadBack` |

Why the bounds are enough to see the interesting cases:

* A `Sync` meets the slot it copies again after two commits, so four commits let the owner
  lap a copy twice, which also exhausts a cap of two. Readers do not affect one another in
  the transport, so one is as good as many; with two cells a copy can be a mix.
* In a ring of three with four versions the ring wraps and a version is evicted under its
  reader. One reader exercises all calls of `reader.ts`; two readers on two slots exercise
  the scans (a pin in the slot already scanned, one in the slot to come) and, on one slot,
  the reuse of a slot. The two versions of `epoch_table` do not fill its ring: what
  `ReclaimSparesPinned` says of a pin whose version is evicted is for `epoch_reclamation`,
  where `ImplementsRetention` meets it, and for the theorem `PinnedIsSpared`.
* Four commits are one in the file, one being written, one chained behind it and one
  behind the timer.
* Two updates are one that is being flushed and one queued behind it, or one before and one
  after a window connects, subscribes or begins a read. Windows meet only in the queue and
  in the main process, where to one window the updates of another are those of the main
  process. A cap of one makes a single commit during a copy enough for the throw, the
  weakest the code could promise; reads, pings, reloads and reconnections are not bounded.

* In `arena_owner`, `BITS` and `MAX_SHIFT` are 1, so that two entries meet in a child, three
  keys with two hashes that agree in every bit make a collision node, and three elements
  make a trie of a vector; two bits of hash are all a map ever looks at. The committed values
  hold every kind of block: nested arrays and objects, a map and a set with boxed keys, a
  typed array of an exact size, a regular expression of two strings, and a symbol, which is
  refused after much has been allocated. The buffer starts at 512 bytes, grows, and is full
  in the middle of some commits, where the allocator scavenges or gives up. Four versions
  over a ring of two bring garbage that is held by the reader, given back when it lets go, and
  handed out again: the third is written while the second is pinned, and the fourth evicts
  the second under its pin, with the blocks that went out of use with it. Three steps of
  recipes reach a nested draft, an edit in it, and an assignment of it elsewhere. The script
  of `VectorFollowsEdits` is run in the arena of every state: from a vector of two elements
  seven pushes fill the tail, move it into the trie and raise the root twice, and then an
  element of the tail is replaced and one of the trie.

The proofs take over from there: they hold for every value of these constants.

The words of the code have 32 bits. In the models they are natural numbers, under the named
assumption `WidthAssumption` that the number of commits stays below the point where the
narrowest counter wraps.

Each property of a passing run has a mutant in its module (`Mutant...`, a definition no
specification uses): a plausible wrong version of a step, under which the property fails.

**Fairness.** `SnapshotStore`: weak fairness of the timer and of the writer's steps. The
process's event loop runs its timers and settles the promises of the
file system as long as the process lives. Nothing is assumed of commits, starts, quits and
crashes, and `CommitsLand` is excused by the end of the process and by a failed write.
`NativeStore`: weak fairness of the main process's work on its queue and of the end of a
read, which are synchronous code, and strong fairness of `Notify`: a ping that waits gets
its turn between the turns of the page, however often the page is busy, because a renderer's
event loop serves its tasks. Nothing is assumed of updates, reads and reloads, and
`CommitIsShown` is excused by a page that stops listening. The other specifications state
only safety; `ArenaOwner` has nothing that must happen but what its callers ask for.
Nothing stops anywhere: deadlock is checked in every run.

## What is proved

All proofs are checked by `tlapm` to the last leaf, for every value of the constants that
satisfies the named assumptions (at least one ring entry, a history shallower than the
ring, at least one attempt, `Blank` a value, a level of a trie that consumes a bit or more, scripts of finitely many
edits).

| Theorem | Says |
|---|---|
| `ShmRegionProofs!TypeCorrect`, `NoTornCopy`, `RetriesArePaid`, `NoStaleSync` | the properties of the run `shm_region` |
| `ShmRegionProofs!Refinement` | `ShmRegion` implements `CommitLog` |
| `EpochReclamationProofs!TypeCorrect`, `IntactReads`, `WholeSnapshots`, `BoundedRetention`, `ForwardCurrent` | the properties of `epoch_reclamation` |
| `EpochReclamationProofs!PinnedIsSpared` | the property of `epoch_table` |
| `EpochReclamationProofs!Refinement` | `EpochReclamation` implements `VersionRetention` |
| `NativeStoreProofs!TypeCorrect`, `CurrentReads`, `QuietWindows`, `AnswersNameWrites` | the safety properties of `native_store` |
| `SnapshotStoreProofs!TypeCorrect`, `WholeFile`, `CarriedValue`, `ForwardFile` | the safety properties of `snapshot_store` |
| `AllocatorProofs!AllocateIsSound`, `FreeIsSound` | `allocate` hands out nothing that is in use, nothing too small, nothing that overlaps; `free` gives back one block |
| `AllocatorProofs!FreeAllIsSound`, `RewindIsSound`, `AllocateGrows` | what the loop over a journal, a rewind and an allocation do to every block of the arena |
| `AllocatorProofs!ServingIsWellFormed` | blocks never overlap, and free lists are right, after any requests in any order |
| `EncodeContextProofs!AllocBlockExtends`, `ReplaceExtends`, `InternExtends` | the primitives by which encoders touch the memory keep the contract of a write (and so does any sequence of them: the lemma `ExtendsIsTransitive`) |
| `EncodeContextProofs!RollbackRestores` | `#rollback` undoes whatever extended a context |
| `BlockLifetimeProofs!LifetimeIsTyped`, `BlocksAreHeldOnce`, `NoBlockLeaks`, `RejectionLeavesNothing`, `HeldVersionsAreRetained` | the safety properties of `arena_owner` that are about blocks and versions |
| `BlockLifetimeProofs!BlocksStand` | its action property: nothing a reader may look at is freed or overwritten |
| `BlockLifetimeProofs!FreeBelowIsSound` | the loops of `reclaim` and `#evictForVersion` |
| `VectorProofs!AssocReplacesOne`, `PushAppendsOne`, `FromSlotsCreates` | what the three writers of `vector.ts` make of a vector, out of which blocks, and what they retire |
| `VectorProofs!VectorReads`, `NodesAreBlocks` | a vector reads as its elements, and its walk lists each of its blocks once |
| `VectorProofs!VectorStays` | no write changes a vector that was there before it |
| `VectorProofs!VectorsFollowEdits` | `LifetimeSpec => []VectorFollowsEdits`: every script of edits, in every state of every arena |

**The transport.** The invariant says what each slot holds in each phase of `Flush`: the
published slot is its commit, the inactive one differs from the commit being built only in
the cells still to be copied or reapplied, and before that only in the cells of the last
ranges. A `Sync` under way knows that, as long as its slot's sequence is what it loaded,
the cells it has copied are those of the slot; that the slot's sequence can have moved only
if the word did; and how many publishes its failures have seen. The refinement maps the
commits to those sealed, and the published version to the word.

**Publication and reclamation.** None of the properties is inductive. The invariant is the
conjunction of

* `HeaderInv`: the sequence counts the stores of `#publish` and tells where the owner is;
* `FloorInv`: everything freed, and everything about to be, is below the floor. This is
  what the second validation of a read relies on;
* `GarbageInv`: what is retained is within the ring, which is `RetentionIsBounded`;
* `PinInv`, for each reader whose pin was checked against the floor: the pin bounds what the
  reclaim under way frees. Either its boundary is not above the pin, or its second scan has
  seen the slot, or has yet to reach it. This is the argument of the comment above
  `reclaim`: a pin that is stored too late for the second scan is stored after the floor
  was raised, and the floor check, which follows it, refuses the version;
* `CallInv`: a read that has decoded freed memory has a version below the floor, so that it
  will find out;
* `RingInv`, `SeqlockInv`, `EntryInv`, `HeldInv`: which version each root belongs to. A
  root taken from the header is the version's if the sequence still stands. A root taken
  from a ring entry in the middle of its rewrite may belong to the version that takes the
  entry, but then the floor was already raised past the version asked for, and the floor
  check refuses it: this order, and not the two loads of `isLive`, is what protects
  `acquireVersion`.

A second invariant, `PathInv`, rests on the first. Garbage is freed once, and only of a
version that has been replaced; the floor does not pass what has a place in the ring; what a
call has seen in the header or the ring is there, and what `acquire` has in its hands is no
older than the snapshot it will replace. `ForwardCurrent` is the last of these at work. In
the refinement, `FloorInv` and `PinInv` after a step that frees are the guard of the
abstract `Free`; `BeginInstall` makes room, the store of the version id publishes, and
the floor check of a reader is where the abstract pin is made.

**Persistence.** The invariant is an order: the file, the running write, the chained writes
and the pending value hold ever later commits, the pending one is the last, and a life that
has not committed has nothing to write.

**The native store.** `OwnerInv`: versions hold ever later states, and the updates left in the
queue fit the bound. `WriteInv`: what a dispatch wrote is in the version it is answered
with, also while it is under way. `HeldInv`: a buffer is the one of its version, and the
version a read began with is late enough for it. `ShownInv` is the heart: a page that
listens, and shows less than the last state, has a ping on its way or a commit about to be
announced; and `notify` has not yet taken the last version for announced. A listener whose
read throws was lapped, so the version has moved past the one `notify` remembers, and the
commit that moved it has its ping still to come. The proof needs that a window subscribed
to pings before it could read, which is the order of `connectNative`.

**The allocator.** `WellFormed` says that
blocks lie between the geometry and the bump pointer, aligned, with a header before each
and none inside another, and that the lists name blocks of their class, each once. It is
inductive. What makes it go through: a fresh block begins where the bump pointer stands, a
popped one is on no other list because lists hold their own class only, and scavenging
leaves the block its class. The assumptions are those on the buffer (`BufferAssumption`).
The loops (`FreeAll`, the filter of `rewindTo`, `FreeBelow`) are recursive functions; what
they compute is proved by induction on the set of indices below a bound.

**The context of a write.** `Extends` is written so that it composes, and so that `rollback`
can be computed from it: the blocks in use are those of before and the fresh ones, which
are disjoint from them; the fresh ones are on `allocated`, or are the records of texts on
`interned`; nothing in use before is written. A rollback frees exactly the fresh
blocks, forgets exactly the new texts, and then rewinds below everything that was bumped.
Two things make the proof go: a text is put on the journal before its allocation may fail,
so that `forget` skips a text without a record; and a block above the mark is fresh, because
`bumpBefore` is where the bump pointer stood, so that the rewind cuts off no older block.

**The life of a block.** None of the properties is inductive. The invariant `LifetimeInv` is
the conjunction of

* `LifetimeTypeOK`, with a well-formed allocator and the domains of the maps;
* `Ownership(Owned, lost, Base)`: every block in use has exactly one holder. A block that
  goes out of use with version `v` is in the garbage of `v`; those of the current
  version are held by what it reaches. It is stated of `Base`, the context to which the
  write in progress would go back, since a recipe adds fresh blocks to the holders and
  changes nothing else, and a rollback must find everything as it was;
* `Reached`: a block that a version reaches is held by that version or a later one, or is
  lost with a dead owner. This is why freeing the garbage of the versions below the floor
  frees nothing a version at or above it reaches. `Install` keeps it since `Replaces` lets no
  block of the version before disappear unretired;
* `FloorIsHeld`: the floor passes a version that the history holds never, and a pinned one
  only when the ring has come round to it;
* `WriteExtends`: a write in progress extends the context it began with, from which
  `RollbackRestores` takes it back;
* `RejectedWriteLeavesNothing`, which is inductive with the others.

TLC checked the invariant on the states of `arena_owner` before it was proved. The proof
assumes of the encoders their contract and of nothing else: any readers, any ring, any
history, any number of blocks, any way a write may fail. `BlocksStand` is the invariant put
to use once for each action: a step that frees takes only garbage below the floor it
publishes, a step that writes takes only fresh blocks, and the others leave the heap alone.

**The vector.** `VectorOf(T, c, at, s, B)` says that the block `at` of the context `c` is the
header of a vector of the elements `s`, made of the blocks `B`. Behind it is a function
from a level of the trie, the leaves at 0, to the sequence of the level's blocks
(`Levels`, `TrieIn`): a level has one block for every `WIDTH` blocks below it, rounded up,
each block holds its group of them, and no two places of the trie share a block. Seen like
this a recursion over nodes is arithmetic over places: the walk to an index passes the
places `index \div WIDTH ^ k` (`PathWalks`), a walk that leaves the trie leaves it once
and for good, and `count >>> BITS > 1 << shift` says that the levels are full
(`LevelsFull`), so that the next leaf needs a root of its own.

A writer is followed from one block to the header. `Takes(c, d, A, R)` composes: the
context `d` extends `c`, with the blocks `A` taken and `R` retired. `WriteUpIs` says what
`WriteUp` does to each level; `TrieOfPut` that the result is a trie of the elements with
one group changed, which makes use of the old blocks in every other place. A throw in the
middle is part of each statement: the context still extends the one before, and so
`RollbackRestores` applies. Then `Writes` for a vector that is replaced and `Creates` for a
new one. `Whole`, the invariant of a script of edits (`RunScript`), adds that the blocks
allocated so far are those of the vector and the retired ones, each once. A script can begin
wherever there is a context, and `LifetimeInv` says that there is one between any two writes:
that is how `VectorsFollowEdits` is about every state of the owner. The assumptions are that a level consumes at
least one bit and those on the buffer; an index has as many bits as it needs, where the
code has 32.

The induction theorems of the library take an operator, which no backend instantiates. The
recursive functions (`Power`, `Path`, `WriteUp`, `AllocEach`, `Raise`, `RunScript`, the levels
of `collectTrie`) are therefore shown to exist, and their invariants to hold, by induction
over a set of lengths (`SetInduction`).

Only model-checked:

* in `arena_owner`, what depends on the content of blocks: `VersionsReadBack`,
  `CurrentVersionVerifies`, `LazyReadsAgree`, `NoEditIsLost`, the part of `TypeOK` about
  roots, and that the encoders keep the contract (`LifetimeSpec`). Values are trees of any
  depth, and so the operators of `Hamt`, `Values` and `Draft` that encode, decode and walk
  them are `RECURSIVE`; the provers have neither these nor an induction over such trees.
  Of arrays `VectorProofs` shows the part that is about their blocks;
* `CommitsLand` and `CommitIsShown`, since liveness under fairness is out of the prover's
  reach;
* the violations.

## Where the code and its documents differ

* **A snapshot can go stale below the retention cap** (`epoch_stale`). A reader that pins a
  version and checks the floor between the first scan of a reclaim and the raise of the
  floor holds a snapshot the floor then passes. No memory is freed under it
  (`ReclaimSparesPinned`), but its next read throws. `docs/contract.md` and `errors.ts`
  say that this is for readers past the cap.
* **A detached reader writes to its old slot** (`epoch_own_pin`). Releasing a snapshot after
  `detach` may clear the pin of the reader that has claimed the slot since.
* **Two syncs of one reader may go back in time** (`shm_monotone`). The slot is sealed before
  the word is stored, and `Sync` takes its version from the slot. `reader-core.ts` says that
  a read never observes a stale version.
* **Nothing waits for the last save** (`snapshot_quit`). before-quit starts the write whose
  absence, the comment above it says, means a stale state at the next boot.
* **An update that changes nothing is published** (`native_unchanged`). `ArenaOwner.update`
  returns without a new version, but `OwnerStore` notifies all the same, and the native
  owner flushes and pings. `docs/object-layer.md` says that such a recipe publishes no
  version and wakes no window; this holds of the arena's version, not of the region's.

* **A rebuilt array retires blocks twice, and blocks in use** (`arena_rebuild`). A recipe
  that edits an element of an array in place and changes its length retires the whole
  subtree of the old element, of which the edited one shares all that was not written. The
  comment at `draft.ts:484` says that the rebuilt vector references the carried ones. The
  blocks are handed out again under the current version. `ArenaOwner.cfg` leaves exactly
  these recipes out (`ResizeAfterEdit`).
* **Recipes miss the keys of an adopted root.** `adopt` begins with an empty intern map,
  so the first recipe that assigns to `a` writes a second record of `a`, and a map compares
  keys by record: the root then has two entries for it, and reads by characters find the
  first. `strings.ts` says that equal keys share one record. With `UpdateAfterAdopt` set,
  `LazyReadsAgree` fails in six states: commit an object, adopt, assign a key.
* **A checksum does not survive an adoption.** It covers the owner generation, which
  `adopt` increments without publishing the checksum again, so until the next commit a
  reader that verifies calls the buffer corrupt. `CurrentVersionVerifies` leaves out the
  versions of the owner before.

Met while reading, and not stated as runs:

* A publication cut short by a crash leaves the sequence odd; the two increments of the
  next owner leave it odd after each of its commits, and readers never get through.
* An array that a recipe shortens and lengthens again gets its old elements back, and
  `delete draft.list[i]` on an array does nothing.
* `readPath` looks a number up as an int32, so it misses the entries of a map whose key is
  another number.
* `toJSON` of a view does not validate, and its iterators validate once.
* `sameNode` compares offsets; its comment argues that the block of the value last seen
  cannot have been reused, which holds only while its version is pinned.
* A rollback leaves the buffer at the length it grew to, and statistics of `rewindTo` count
  some freed headers twice.
* `external.ts` deletes the cache entry of a handle when a fetch fails late, also when the
  entry has been replaced; the comment above `forceRelease` says that a live reader whose
  slot is taken will fail its next validity check, which looks at the floor only.

## What is not modelled

Left out for good: opening and mapping files, argument parsing and error objects of
`addon.c`; statistics, `inspect.ts`, `schema.ts`, `paths.ts`, re-exports; collisions of the
checksum; the budgets by which decoders stop in a corrupt arena; the JSON envelope; Electron, React, Vue and Svelte themselves; tests, benchmarks,
spikes, examples and scripts. Weak memory: JavaScript's `Atomics` are sequentially
consistent, and `addon.c` orders its plain copies by fences, which the unordered cells of
`ShmRegion` stand for; other reorderings are not explored. Power loss: the code does not
sync files.

Left out so far: what the plan lists. In `ArenaOwner`: the order of insertion of keys, the
statistics, the cache of a view context, and publication cut short by a crash.

## Plan

In this order, the most important behaviour first.

1. *Done.* `CommitLog`, `ShmRegion`: the only memory two processes share.
2. *Done.* `EpochReclamation`: the protocol of the worker topology.
3. *Done.* `SnapshotStore`: what survives the process.
4. *Done.* `NativeStore`, over `CommitLog`: from an update to what a window shows.
5. *Done.* `Allocator`, `EncodeContext`, `Trie`, `Hamt`, `Vector`, `VectorEdits`, `Values`, `Draft`,
   `Verify`, and `ArenaOwner` over them: what a commit writes, shares, retires and gives back.
6. `LivenessMonitor`: ticks, misses, `forceRelease`, heartbeats that do not move, readers
   reaped alive and slots claimed again, on the reader table of `EpochReclamation`.
   Liveness: a dead pin is reaped.
7. `Adoption`: the publish of `EpochReclamation` cut at any store, then `adopt`.
8. Extensions of what is there: lazy reads in `EpochReclamation` (validated before, and not
   after, the lookup), re-creation of the region and the failed `realloc` in `ShmRegion`,
   a second store of the same process in `SnapshotStore`, and an `onError` that throws; in `NativeStore` the tier of
   windows that read by request (`preload-async.cjs`), several listeners in a window and
   listeners that throw; `ExternalTier`.

Theorems to come: `Hamt` with its levels as functions, like `Vector`, and that `hamtAssoc`
and `hamtDissoc` keep the contract of a write; with a lazy read in `EpochReclamation`, which of its results
`VersionRetention` still vouches for; an abstract specification of `SnapshotStore`, the file
as a register that only moves forward; the invariants of the modules that are still planned.
