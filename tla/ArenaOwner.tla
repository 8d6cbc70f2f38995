----------------------------- MODULE ArenaOwner -----------------------------
(***************************************************************************)
(* The owner as the one writer of the arena (owner.ts): it encodes a value *)
(* or runs a recipe over a draft of the current root, installs the slot    *)
(* that results as the next version, and gives the blocks of the versions  *)
(* no reader can name any more back to the allocator.  The data layer is   *)
(* in full: memory, maps, vectors, values, drafts.  How a publication and  *)
(* a scan interleave with a reader is the subject of EpochReclamation; here *)
(* each is one step, and a reader is the version it pins.                  *)
(*                                                                         *)
(* The memory, its versions and what becomes of its blocks are the state   *)
(* of BlockLifetime, which this module implements.  It adds                *)
(*                                                                         *)
(*   slot      the root of the current version                             *)
(*   ring      the root of each version that can be read                   *)
(*   checksum  published with the version, and generation, the owner the   *)
(*             buffer is with                                              *)
(*   drafts    of the recipe in progress, <<>> outside update              *)
(*   made      what the encoder returned, until it is installed            *)
(*   ops       the steps of recipes, the commits rejected and the          *)
(*             adoptions (for a bound)                                     *)
(*                                                                         *)
(* and of the history, for the properties: content, the value each version *)
(* was given; and foreign, whether the current root was written by an      *)
(* owner before this one.                                                  *)
(***************************************************************************)
EXTENDS VectorEdits, Draft, Verify

CONSTANTS
  Commits,            \* what commit is called with
  Elements,           \* what a recipe assigns
  Properties,         \* the names it uses
  Indices,            \* the indices
  Lengths,            \* the lengths it sets
  Methods,            \* the array methods it calls
  MaxVersion,         \* bound: versions published
  MaxOps,             \* bound: steps of the recipes, commits rejected, adoptions
  ResizeAfterEdit,    \* recipes that edit an element and then resize its array
  UpdateAfterAdopt    \* recipes over a root that another owner wrote

ASSUME OwnerAssumption ==
  /\ Methods \subseteq {"reverse", "shift", "unshift"}
  /\ ResizeAfterEdit \in BOOLEAN
  /\ UpdateAfterAdopt \in BOOLEAN

VARIABLES slot, ring, checksum, generation, drafts, made, ops, content, foreign

memory    == <<lifetime, slot, ring, checksum, generation>>
published == <<slot, ring, checksum, generation, content, foreign>>
vars      == <<memory, drafts, made, ops, content, foreign>>

Root    == 1
NotMade == <<>>
InRecipe == phase = "writing"

Init ==
  /\ LifetimeInit
  /\ slot = Slot("Undefined", 0)
  /\ ring = (1 :> slot)
  /\ generation = 1
  /\ checksum = publishChecksum(ctx.heap, slot, version, generation)
  /\ drafts = <<>>
  /\ made = NotMade
  /\ ops = 0
  /\ content = (1 :> Undefined)
  /\ foreign = FALSE

-----------------------------------------------------------------------------
\* What the encoder returns or throws, on the way to #install or to #rollback.
Encoded(c, s, value) ==
  /\ phase' = "written"
  /\ ctx' = c
  /\ made' = [slot |-> s, value |-> value, recipe |-> InRecipe]
  /\ drafts' = <<>>
  /\ UNCHANGED <<retention, pin, lost, published>>

\* commit: the value is encoded, and nothing of the version before is shared.
commit(v) ==
  /\ phase = "idle"
  /\ version < MaxVersion
  /\ opened' = newContext(ctx)
  /\ \E got \in {encodeValue(newContext(ctx), v)} :
       /\ Encoded(Retire(got.ctx, collectBlocks(got.ctx.heap, slot)), got.slot, v)
       /\ IF got.ctx.err = NoError THEN UNCHANGED ops
          ELSE ops < MaxOps /\ ops' = ops + 1

\* update: a draft of the root, and the recipe runs.  An owner that adopted the buffer
\* does not know the texts of the root it found, so that its recipes miss the keys that
\* are there; these are left out.
beginUpdate ==
  /\ UpdateAfterAdopt \/ ~foreign
  /\ version < MaxVersion
  /\ ops < MaxOps
  /\ slot[1] \in {"Object", "Array"}
  /\ beginWrite
  /\ drafts' = <<createDraft(slot)>>
  /\ UNCHANGED <<published, made, ops>>

KeysUsed(d) == IF IsArray(drafts, d) THEN Indices ELSE Properties

\* A read: there may be no room for the key that it interns.
draftGet(d, k) ==
  /\ InRecipe
  /\ ops < MaxOps
  /\ ops' = ops + 1
  /\ \E got \in {readThrough(ctx, drafts, d, k)} :
       IF got.ctx.err # NoError THEN Encoded(got.ctx, slot, content[version])
       ELSE /\ <<got.ctx, got.drafts>> # <<ctx, drafts>>
            /\ ctx' = got.ctx
            /\ drafts' = got.drafts
            /\ UNCHANGED <<phase, retention, pin, lost, published, made>>
  /\ UNCHANGED opened

\* What a recipe assigns: an element, or a draft it read and did not go into yet
\* (which keeps a draft from holding itself).
Assignable(d) ==
  Elements \union
    {DraftRef(e) : e \in {e \in DOMAIN drafts \ {Root, d} :
                           drafts[e].mods = <<>> /\ drafts[e].children = <<>>}}

\* A write, to a draft that the recipe holds: nothing in the arena moves.
Written(ds) ==
  /\ InRecipe
  /\ ops < MaxOps
  /\ ops' = ops + 1
  /\ drafts' = ds
  /\ UNCHANGED <<memory, made, content, foreign>>

draftSet(d, k, v) ==
  /\ ~IsArray(drafts, d)
  /\ Written(setProperty(drafts, d, k, v))

draftDelete(d, k) ==
  /\ ~IsArray(drafts, d)
  /\ Written(deleteProperty(drafts, d, k))

arraySet(d, i, v) ==
  /\ IsArray(drafts, d)
  /\ Written(setIndex(ctx.heap, drafts, d, i, v))

arraySetLength(d, n) ==
  /\ IsArray(drafts, d)
  /\ Written(setLength(drafts, d, n))

arrayPush(d, v) ==
  /\ IsArray(drafts, d)
  /\ Written(push(ctx.heap, drafts, d, v))

arrayPop(d) ==
  /\ IsArray(drafts, d)
  /\ Written(pop(ctx.heap, drafts, d))

ArrayMethod(name, s) ==
  CASE name = "reverse" -> Reverse(s)
    [] name = "shift"   -> IF s = <<>> THEN s ELSE Tail(s)
    [] name = "unshift" -> <<Undefined>> \o s

arrayRebuild(d, name) ==
  /\ IsArray(drafts, d)
  /\ Written(rebuild(ctx.heap, drafts, d, LAMBDA s : ArrayMethod(name, s)))

\* The recipes that draft.ts:467 mistreats: an element was edited in place, and its
\* array is rebuilt with the element still in it.
EditsThenResizes ==
  \E d \in DOMAIN drafts :
    /\ IsArray(drafts, d)
    /\ draftLength(ctx.heap, drafts, d) # vectorLength(ctx.heap, drafts[d].base[2])
    /\ \E k \in DirtyChildren(drafts, d) : k < draftLength(ctx.heap, drafts, d)

\* The recipe returns, and what it did to the drafts is written.
finishUpdate ==
  /\ InRecipe
  /\ ResizeAfterEdit \/ ~EditsThenResizes
  /\ \E got \in {finalizeState(ctx, drafts, Root)} :
       Encoded(got.ctx, got.slot, materialiseState(ctx.heap, drafts, Root))
  /\ UNCHANGED <<opened, ops>>

\* The recipe throws, or the encoder did.
rollbackWrite ==
  /\ InRecipe \/ ctx.err # NoError
  /\ rejectWrite
  /\ drafts' = <<>>
  /\ made' = NotMade
  /\ UNCHANGED <<published, ops>>

\* update publishes nothing when the slot did not move; commit always does.
SlotMoved == made.slot # slot \/ ~made.recipe

keepVersion ==
  /\ dropWrite
  /\ ~SlotMoved
  /\ made' = NotMade
  /\ UNCHANGED <<published, drafts, ops>>

\* #install and what it publishes; whatever a root names is found below it later on.
installVersion ==
  /\ phase = "written"
  /\ ctx.err = NoError
  /\ SlotMoved
  /\ phase' = "idle"
  /\ Install(collectBlocks(ctx.heap, made.slot))
  /\ slot' = made.slot
  /\ ring' = KeepFrom(With(ring, version', made.slot), floor')
  /\ content' = KeepFrom(With(content, version', made.value), floor')
  /\ checksum' = publishChecksum(ctx.heap, made.slot, version', generation)
  /\ made' = NotMade
  /\ foreign' = (foreign /\ made.recipe)
  /\ UNCHANGED <<pin, drafts, ops, generation>>

-----------------------------------------------------------------------------
\* Readers come and go between two writes (bound: the state of a write is its own).
acquire(r) ==
  /\ phase = "idle"
  /\ acquireVersion(r)
  /\ UNCHANGED <<published, drafts, made, ops>>

release(r) ==
  /\ phase = "idle"
  /\ releaseVersion(r)
  /\ UNCHANGED <<published, drafts, made, ops>>

reclaimVersions ==
  /\ reclaim
  /\ ring' = KeepFrom(ring, floor')
  /\ content' = KeepFrom(content, floor')
  /\ UNCHANGED <<slot, checksum, generation, drafts, made, ops, foreign>>

\* adopt, also of an owner that died in a recipe or with a value encoded.  (Bounds: no
\* owner dies before its first commit, and the next one has a version left to publish.)
adopt ==
  /\ ~foreign
  /\ version < MaxVersion
  /\ ops < MaxOps
  /\ ops' = ops + 1
  /\ adoptArena
  /\ foreign' = TRUE
  /\ generation' = generation + 1
  /\ drafts' = <<>>
  /\ made' = NotMade
  /\ UNCHANGED <<slot, ring, checksum, content>>

RecipeNext ==
  \E d \in DOMAIN drafts :
    \/ \E k \in KeysUsed(d) : draftGet(d, k)
    \/ \E k \in Properties, v \in Assignable(d) : draftSet(d, k, v)
    \/ \E k \in Properties : draftDelete(d, k)
    \/ \E i \in Indices, v \in Assignable(d) : arraySet(d, i, v)
    \/ \E n \in Lengths : arraySetLength(d, n)
    \/ \E v \in Assignable(d) : arrayPush(d, v)
    \/ arrayPop(d)
    \/ \E m \in Methods : arrayRebuild(d, m)

Next ==
  \/ \E v \in Commits : commit(v)
  \/ beginUpdate
  \/ RecipeNext
  \/ finishUpdate
  \/ rollbackWrite
  \/ keepVersion
  \/ installVersion
  \/ \E r \in Readers : acquire(r) \/ release(r)
  \/ reclaimVersions
  \/ adopt

Spec == Init /\ [][Next]_vars

-----------------------------------------------------------------------------
\* The versions of the ring are those that can be read, and the drafts are of containers;
\* the blocks of a version are found below its root for as long as the version stays.
TypeOK ==
  /\ version \in 1..MaxVersion
  /\ foreign \in BOOLEAN
  /\ DOMAIN ring = DOMAIN reach
  /\ DOMAIN content = DOMAIN ring
  /\ slot = ring[version]
  /\ \A v \in DOMAIN ring : collectBlocks(ctx.heap, ring[v]) = reach[v]
  /\ \A d \in DOMAIN drafts : isContainer(drafts[d].base)
  /\ made # NotMade <=> phase = "written"
  /\ ops \in 0..MaxOps

\* A reader that acquires the current version, also in the middle of a recipe, computes
\* the checksum that was published with it: nothing it covers has moved since.  (After an
\* adoption the generation has, until the next commit.)
CurrentVersionVerifies ==
  foreign \/ verifyRoot(ctx.heap, slot, version, generation, checksum)

\* Every version a reader may use decodes to the value it was given: the argument of
\* commit, or what the draft of its recipe showed when the recipe returned.  The blocks
\* it shares with later versions are neither overwritten nor reused.
VersionsReadBack == \A v \in DOMAIN ring : decodeValue(ctx.heap, ring[v]) = content[v]

\* A recipe that returns and publishes nothing changed nothing: the identity of the
\* slot, which update compares, tells every edit of a nested draft.
NoEditIsLost ==
  [][keepVersion => made.value = content[version]]_vars

-----------------------------------------------------------------------------
\* What a step of a path means on a plain value.
PlainStep(value, step) ==
  CASE value[1] = "Object" /\ step[1] = "String" /\ step[2] \in DOMAIN value[2] ->
         value[2][step[2]]
    [] value[1] = "Map" /\ step \in DOMAIN value[2] -> value[2][step]
    [] value[1] = "Array" /\ step[1] = "Int32" /\ step[2] \in 0..(Len(value[2]) - 1) ->
         value[2][step[2] + 1]
    [] OTHER -> Undefined

PlainSize(value) ==
  CASE value[1] \in {"Object", "Map"} -> Cardinality(DOMAIN value[2])
    [] value[1] = "Set"   -> Cardinality(value[2])
    [] value[1] = "Array" -> Len(value[2])
    [] OTHER -> 0

PathSteps == {<<"String", k>> : k \in Properties} \union {<<"Int32", i>> : i \in Indices}
Paths == {<<a>> : a \in PathSteps} \union {<<a, b>> : a, b \in PathSteps}

\* The ways to read a version that decode no more than what is asked for tell what the
\* whole value does: the views, a path (through keys that are not there as well), and
\* the size of a container.  They compare characters where the owner compares offsets.
\* (A recipe in progress writes no version: VersionsReadBack looks there as well.)
LazyReadsAgree ==
  phase = "idle" =>
    \A v \in DOMAIN ring :
      /\ viewValue(ctx.heap, ring[v]) = content[v]
      /\ containerSize(ctx.heap, ring[v]) = PlainSize(content[v])
      /\ \A p \in Paths :
           readPath(ctx.heap, ring[v], p) = FoldLeft(PlainStep, content[v], p)

=============================================================================
