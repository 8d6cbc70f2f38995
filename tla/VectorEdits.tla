---------------------------- MODULE VectorEdits ----------------------------
(***************************************************************************)
(* Vectors under any sequence of edits, in the arena as the owner has left *)
(* it, with its free lists, its garbage and what its blocks held before.   *)
(* The commits of ArenaOwner make every array in one pass and never call   *)
(* vectorPush, which vector.ts exports all the same: a script here goes    *)
(* through all three writers.                                              *)
(***************************************************************************)
EXTENDS Vector, BlockLifetime

CONSTANTS
  EditSlots,   \* the slots that scripts put into vectors
  Scripts      \* a vector to begin with, and the edits of it

ASSUME ScriptAssumption ==
  \A script \in Scripts :
    script \in [from : Seq(EditSlots), edits : Seq([index : Nat, slot : EditSlots])]

\* An edit replaces the element of an index, or appends one past the end.
Edited(v, e) ==
  IF e.index < vectorLength(v.ctx.heap, v.at)
  THEN vectorAssoc(v.ctx, v.at, e.index, e.slot)
  ELSE vectorPush(v.ctx, v.at, e.slot)

EditedSlots(s, e) ==
  IF e.index < Len(s) THEN [s EXCEPT ![e.index + 1] = e.slot] ELSE Append(s, e.slot)

\* A script goes on until it ends or an edit throws.
EditStep(r, e) ==
  IF r.vector.ctx.err # NoError THEN r
  ELSE [vector |-> Edited(r.vector, e), slots |-> EditedSlots(r.slots, e)]

RunScript(c, script) ==
  LET done[k \in 0..Len(script.edits)] ==
        IF k = 0 THEN [vector |-> vectorFromSlots(c, script.from), slots |-> script.from]
        ELSE Then(done[k - 1], LAMBDA r : EditStep(r, script.edits[k]))
  IN done[Len(script.edits)]

\* A vector reads as its slots, and each block allocated on the way to it is either of it
\* or retired, never both.
Holds(v, slots) ==
  LET held == vectorNodes(v.ctx.heap, v.at) \o v.ctx.retired
  IN /\ vectorSlots(v.ctx.heap, v.at) = slots
     /\ IsInjective(held)
     /\ ToSet(held) = ToSet(v.ctx.allocated)

\* What is so of the outcome r of a script that was run in the context c: an arena that is
\* full on the way throws, and the blocks that were in use stay as they were all the same.
Follows(c, r) ==
  /\ Restrict(r.vector.ctx.heap, InUse(c.alloc)) = Restrict(c.heap, InUse(c.alloc))
  /\ r.vector.ctx.err = NoError => Holds(r.vector, r.slots)

\* Whatever the arena has been through, a vector is at the end of a script what the same
\* edits make of a sequence: while the tail fills, when it becomes a leaf, when the root
\* gains a level, and when an element below it is replaced.
VectorFollowsEdits ==
  phase = "idle" =>
    \A script \in Scripts :
      Then(RunScript(newContext(ctx), script), LAMBDA r : Follows(newContext(ctx), r))
=============================================================================
