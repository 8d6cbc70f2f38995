---------------------------- MODULE BlockLifetime ----------------------------
(***************************************************************************)
(* The life of the blocks of the arena, as owner.ts decides it: when a     *)
(* block is taken, which version holds it, and when it goes back to the    *)
(* allocator.  What the blocks hold is left to ArenaOwner, which extends   *)
(* this module with values, drafts and slots: a write is here any change   *)
(* that the primitives of the encoder can make to the context (Extends),   *)
(* and a version is the set of blocks its root reaches.  ArenaOwner is     *)
(* checked to implement LifetimeSpec; BlockLifetimeProofs proves what      *)
(* follows from it, for every buffer, ring and number of readers.          *)
(*                                                                         *)
(*   ctx       the memory, with what the write in progress did to it       *)
(*   phase     idle; writing, with a recipe running; written, with a slot  *)
(*             or an exception on the way out of the encoder               *)
(*   version   the version published last                                  *)
(*   garbage   the blocks to free once a version cannot be read            *)
(*   floor     the oldest version a reader may use                         *)
(*   depth     how many versions are held when nothing is pinned           *)
(*   pin       the version each reader pinned, NoPin for none              *)
(*                                                                         *)
(* and of the history: reach, the blocks that collectBlocks finds below    *)
(* the root of each version that can be read; opened, the context with     *)
(* which the write in progress began, or the one that has just been        *)
(* rejected; lost, the blocks no owner knows of since the one before died. *)
(***************************************************************************)
EXTENDS EncodeContext

CONSTANTS
  Readers,
  RetainedCapacity,   \* versions the ring holds
  HistoryDepth        \* versions held when nothing is pinned, by the first owner

ASSUME RetentionAssumption ==
  /\ RetainedCapacity \in Nat \ {0}
  /\ HistoryDepth \in 0..(RetainedCapacity - 1)

VARIABLES ctx, phase, version, garbage, floor, depth, pin, reach, opened, lost

retention == <<version, garbage, floor, depth, reach>>
lifetime  == <<ctx, phase, retention, pin, opened, lost>>

NoPin == 0

MaxOf(a, b) == IF a < b THEN b ELSE a
MinOf(a, b) == IF a < b THEN a ELSE b

\* ArenaOwner.create: an empty arena, and commit(undefined).
LifetimeInit ==
  /\ ctx = EmptyContext
  /\ phase = "idle"
  /\ version = 1
  /\ garbage = <<>>
  /\ floor = MaxOf(0, 1 - HistoryDepth)
  /\ depth = HistoryDepth
  /\ pin = [r \in Readers |-> NoPin]
  /\ reach = [v \in {1} |-> <<>>]
  /\ opened = <<>>
  /\ lost = {}

-----------------------------------------------------------------------------
\* Mutant: a reader that is pinned is not seen.
MutantminimumPinnedEpoch == version + 1

\* The smallest pinned version: past every version when there is none.
minimumPinnedEpoch ==
  LET pinned == {pin[r] : r \in Readers} \ {NoPin}
  IN IF pinned = {} THEN version + 1 ELSE Min(pinned)

\* The garbage of the versions below a boundary goes back to the allocator, the oldest
\* version first.
FreeBelow(c, g, boundary) ==
  LET freed[v \in 0..version] ==
        IF v = 0 THEN c.alloc
        ELSE IF v \in DOMAIN g /\ v < boundary THEN FreeAll(freed[v - 1], g[v])
        ELSE freed[v - 1]
  IN [c EXCEPT !.alloc = freed[version]]

KeepFrom(g, boundary) == Restrict(g, {v \in DOMAIN g : boundary <= v})

\* Mutant: what the version before reached is freed at once, pinned or not.
MutantInstall(blocks) ==
  LET next     == version + 1
      boundary == MinOf(minimumPinnedEpoch, next - depth)
      g        == With(garbage, version, ctx.retired)
      raised   == MaxOf(floor, boundary)
  IN /\ ctx' = newContext(FreeBelow(ctx, g, next))
     /\ garbage' = KeepFrom(g, next)
     /\ floor' = raised
     /\ version' = next
     /\ reach' = KeepFrom(With(reach, next, blocks), raised)
     /\ opened' = <<>>
     /\ UNCHANGED <<depth, lost>>

\* #install, of a root that reaches these blocks.  #evictForVersion frees what the ring
\* has no place for, whatever is pinned; the version is published; the garbage of the
\* one before is recorded; reclaim frees what no reader is pinned at or below and the
\* history does not hold.
Install(blocks) ==
  LET next     == version + 1
      evicted  == next - RetainedCapacity
      evictTo  == IF evicted < 1 THEN floor ELSE MaxOf(floor, evicted + 1)
      kept     == KeepFrom(garbage, evicted + 1)
      g        == IF ctx.retired = <<>> THEN kept ELSE With(kept, version, ctx.retired)
      boundary == MinOf(minimumPinnedEpoch, next - depth)
      raised   == MaxOf(evictTo, boundary)
  IN /\ ctx' = newContext(FreeBelow(FreeBelow(ctx, garbage, evicted + 1), g, boundary))
     /\ garbage' = KeepFrom(g, boundary)
     /\ floor' = raised
     /\ version' = next
     /\ reach' = KeepFrom(With(reach, next, blocks), raised)
     /\ opened' = <<>>
     /\ UNCHANGED <<depth, lost>>

-----------------------------------------------------------------------------
\* update: the recipe begins, reads and writes through its drafts, and is finalised.
beginWrite ==
  /\ phase = "idle"
  /\ phase' = "writing"
  /\ ctx' = newContext(ctx)
  /\ opened' = newContext(ctx)
  /\ UNCHANGED <<retention, pin, lost>>

continueWrite ==
  /\ phase = "writing"
  /\ phase' \in {"writing", "written"}
  /\ Extends(ctx, ctx')
  /\ UNCHANGED <<retention, pin, opened, lost>>

\* commit: a value is encoded.
encodeWrite ==
  /\ phase = "idle"
  /\ phase' = "written"
  /\ Extends(newContext(ctx), ctx')
  /\ opened' = newContext(ctx)
  /\ UNCHANGED <<retention, pin, lost>>

\* The encoder or the recipe throws: the owner is left as it was.
rejectWrite ==
  /\ phase # "idle"
  /\ phase' = "idle"
  /\ ctx' = rollback(ctx)
  /\ UNCHANGED <<retention, pin, opened, lost>>

\* A slot that did not move is no version.
dropWrite ==
  /\ phase = "written"
  /\ ctx.err = NoError
  /\ ctx.allocated = <<>> /\ ctx.retired = <<>>
  /\ phase' = "idle"
  /\ ctx' = newContext(ctx)
  /\ opened' = <<>>
  /\ UNCHANGED <<retention, pin, lost>>

\* What a write hands to #install: of the blocks that the version before reaches and the
\* ones it allocated, the next one reaches some, and the others are retired.
Replaces(blocks) ==
  /\ blocks \in Seq(Nat)
  /\ IsInjective(blocks) /\ IsInjective(ctx.retired)
  /\ ToSet(blocks) \cap ToSet(ctx.retired) = {}
  /\ ToSet(blocks) \union ToSet(ctx.retired)
       = ToSet(reach[version]) \union ToSet(ctx.allocated)

publish(blocks) ==
  /\ phase = "written"
  /\ ctx.err = NoError
  /\ Replaces(blocks)
  /\ phase' = "idle"
  /\ Install(blocks)
  /\ UNCHANGED pin

\* A reader acquires the current version, or releases what it held.
acquireVersion(r) ==
  /\ pin[r] = NoPin
  /\ pin' = [pin EXCEPT ![r] = version]
  /\ opened' = IF phase = "idle" THEN <<>> ELSE opened
  /\ UNCHANGED <<ctx, phase, retention, lost>>

releaseVersion(r) ==
  /\ pin[r] # NoPin
  /\ pin' = [pin EXCEPT ![r] = NoPin]
  /\ opened' = IF phase = "idle" THEN <<>> ELSE opened
  /\ UNCHANGED <<ctx, phase, retention, lost>>

\* reclaim between two commits, as a liveness tick asks for.
reclaim ==
  LET boundary == MinOf(minimumPinnedEpoch, version - depth)
      raised   == MaxOf(floor, boundary)
  IN /\ phase = "idle"
     /\ floor # raised \/ \E v \in DOMAIN garbage : v < boundary
     /\ ctx' = FreeBelow(ctx, garbage, boundary)
     /\ garbage' = KeepFrom(garbage, boundary)
     /\ floor' = raised
     /\ reach' = KeepFrom(reach, raised)
     /\ opened' = <<>>
     /\ UNCHANGED <<phase, version, depth, pin, lost>>

\* What is left of the memory in another process: no free lists and no intern map.
TakenOver(c) ==
  newContext([c EXCEPT !.alloc.free = [i \in Classes |-> <<>>], !.strings = <<>>])

\* adopt: the owner died, between two writes or in one, and another takes the version, the
\* root and the floor from the buffer, where the bump pointer is as well.  The garbage
\* went with the owner before it.
adoptArena ==
  /\ phase' = "idle"
  /\ ctx' = TakenOver(ctx)
  /\ lost' = lost \union (DOMAIN ctx.alloc.header \ ToSet(reach[version]))
  /\ garbage' = <<>>
  /\ depth' = 0
  /\ opened' = <<>>
  /\ UNCHANGED <<version, floor, pin, reach>>

LifetimeNext ==
  \/ beginWrite
  \/ continueWrite
  \/ encodeWrite
  \/ rejectWrite
  \/ dropWrite
  \/ publish(reach'[version'])
  \/ \E r \in Readers : acquireVersion(r) \/ releaseVersion(r)
  \/ reclaim
  \/ adoptArena

LifetimeSpec == LifetimeInit /\ [][LifetimeNext]_lifetime

-----------------------------------------------------------------------------
\* The context is one, the versions that can be asked for are those from the floor on, and
\* what is garbage belongs to a version before the current one.
LifetimeTypeOK ==
  /\ Context(ctx)
  /\ phase \in {"idle", "writing", "written"}
  /\ version \in Nat \ {0}
  /\ floor \in 0..version
  /\ depth \in 0..HistoryDepth
  /\ pin \in [Readers -> NoPin..version]
  /\ DOMAIN garbage \subseteq 1..(version - 1)
  /\ garbage \in [DOMAIN garbage -> Seq(Nat)]
  /\ reach \in [MaxOf(floor, 1)..version -> Seq(Nat)]
  /\ lost \subseteq DOMAIN ctx.alloc.header

\* The blocks each version is answerable for: the current one has those it reaches, the
\* ones before have those that went out of use with them.
Owned == With(garbage, version, reach[version])
OwnedBlocks == UNION {ToSet(Owned[v]) : v \in DOMAIN Owned}

\* No block is held twice: it is not handed out while something uses it, and it is not
\* freed or retired a second time.
BlocksHaveOneOwner ==
  /\ \A v \in DOMAIN Owned :
       /\ IsInjective(Owned[v])
       /\ ToSet(Owned[v]) \subseteq InUse(ctx.alloc)
       /\ ToSet(Owned[v]) \cap (ToSet(ctx.allocated) \union StringsOf(ctx)) = {}
  /\ \A v, w \in DOMAIN Owned : v # w => ToSet(Owned[v]) \cap ToSet(Owned[w]) = {}

\* No block is lost by a commit, a recipe, a rejection or a reclamation, but for the
\* ones of an exact size that were freed.  An adoption loses what the root it finds does
\* not reach, and the blocks of the root come back like any others.
NothingLeaks ==
  InUse(ctx.alloc) \subseteq OwnedBlocks \union ToSet(ctx.allocated) \union StringsOf(ctx)
                               \union Stranded(ctx.alloc) \union lost

\* A write that throws, in the encoder or in the recipe, returns the arena to where it
\* was: the bump pointer, the blocks, the free lists and the intern map.
RejectedWriteLeavesNothing ==
  phase = "idle" /\ opened # <<>> => Footprint(ctx) = Footprint(opened)

\* A version that is within the history, or that a reader pinned and the ring has not come
\* round to, can be read.
VersionsAreRetained ==
  \A v \in 1..version :
    \/ version - depth <= v
    \/ (\E r \in Readers : pin[r] = v) /\ version < v + RetainedCapacity
    => v \in DOMAIN reach

\* The records of the strings that were known before the write in progress.
KnownStrings(c) == {c.strings[t] : t \in DOMAIN c.strings \ ToSet(c.interned)}

\* The blocks of a version stay in use, with what was written to them, for as long as the
\* version can be read: nothing is freed or overwritten under a reader.  So do the strings
\* they may refer to, and what an owner that died left behind.
RetainedBlocksStand ==
  [][\A o \in lost \union KnownStrings(ctx)
                \union UNION {ToSet(reach[v]) : v \in DOMAIN reach \cap DOMAIN reach'} :
       o \in InUse(ctx'.alloc) /\ ctx'.heap[o] = ctx.heap[o]]_lifetime
=============================================================================
