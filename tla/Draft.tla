-------------------------------- MODULE Draft --------------------------------
(***************************************************************************)
(* The drafts a recipe writes to (draft.ts).  Draft 1 is of the root; one  *)
(* is opened for each container the recipe reads.  A draft holds           *)
(*                                                                         *)
(*   base      the slot it is a draft of                                   *)
(*   mods      what was assigned, by key: a value, DELETED, or another     *)
(*             draft <<"Draft", d>> that was read out of the store         *)
(*   children  the drafts opened below it, by key                          *)
(*   dirty     whether this level was written                              *)
(*   length    of an array, once it was changed (NoLength before)          *)
(*                                                                         *)
(* Keys are the texts of an object or the indices of an array, from 0.     *)
(* Modifications and children are finished in the order of their keys:     *)
(* the code goes in the order of assignment, which tells in the addresses  *)
(* of the blocks and in nothing else.                                      *)
(***************************************************************************)
EXTENDS Values

DELETED  == <<"Deleted">>
NoLength == -1
DraftRef(d) == <<"Draft", d>>

createDraft(base) ==
  [base |-> base, mods |-> <<>>, children |-> <<>>, dirty |-> FALSE, length |-> NoLength]

isContainer(slot) == slot[1] \in {"Object", "Array"}
IsArray(ds, d)    == ds[d].base[1] = "Array"

\* Mutant: an edit below this level is not seen.
MutantIsDirty(ds, d) == ds[d].dirty

RECURSIVE isDirty(_, _)
isDirty(ds, d) ==
  ds[d].dirty \/ \E k \in DOMAIN ds[d].children : isDirty(ds, ds[d].children[k])

draftLength(h, ds, d) ==
  IF ds[d].length # NoLength THEN ds[d].length ELSE vectorLength(h, ds[d].base[2])

\* What the base holds at a key.  An object's key is interned to look it up.
childSlot(c, ds, d, k) ==
  IF IsArray(ds, d) THEN [ctx |-> c, slot |-> vectorGet(c.heap, ds[d].base[2], k)]
  ELSE Then(encodeString(c, k), LAMBDA key :
         [ctx |-> key.ctx, slot |-> hamtGet(key.ctx.heap, ds[d].base[2], key.slot)])

\* What was read from the base: a container becomes a draft of its own.
Opened(ds, d, k, below) ==
  IF isContainer(below.slot)
  THEN [ctx |-> below.ctx, value |-> DraftRef(Len(ds) + 1),
        drafts |-> Append([ds EXCEPT ![d].children = (k :> (Len(ds) + 1)) @@ @],
                          createDraft(below.slot))]
  ELSE [ctx |-> below.ctx, drafts |-> ds,
        value |-> IF below.slot = Absent THEN Undefined
                  ELSE decodeValue(below.ctx.heap, below.slot)]

\* A read: what was assigned, the draft opened there, or what the base holds.
readThrough(c, ds, d, k) ==
  CASE k \in DOMAIN ds[d].mods ->
         [ctx |-> c, drafts |-> ds,
          value |-> IF ds[d].mods[k] = DELETED THEN Undefined ELSE ds[d].mods[k]]
    [] k \in DOMAIN ds[d].children \ DOMAIN ds[d].mods ->
         [ctx |-> c, drafts |-> ds, value |-> DraftRef(ds[d].children[k])]
    [] OTHER -> Opened(ds, d, k, childSlot(c, ds, d, k))

-----------------------------------------------------------------------------
\* The traps of the two proxies that write.
Without(f, k) == Restrict(f, DOMAIN f \ {k})

\* set on an object: the child that was there is no longer of this draft.
setProperty(ds, d, k, v) ==
  [ds EXCEPT ![d].mods = (k :> v) @@ @, ![d].children = Without(@, k), ![d].dirty = TRUE]

deleteProperty(ds, d, k) == setProperty(ds, d, k, DELETED)

\* set on an array: an index past the end makes it longer.
setIndex(h, ds, d, i, v) ==
  [setProperty(ds, d, i, v) EXCEPT
     ![d].length = IF i >= draftLength(h, ds, d) THEN i + 1 ELSE @]

setLength(ds, d, n) == [ds EXCEPT ![d].length = n, ![d].dirty = TRUE]

push(h, ds, d, v) ==
  LET n == draftLength(h, ds, d)
  IN [ds EXCEPT ![d].mods = (n :> v) @@ @, ![d].length = n + 1, ![d].dirty = TRUE]

pop(h, ds, d) ==
  LET n == draftLength(h, ds, d)
  IN IF n = 0 THEN ds
     ELSE [ds EXCEPT ![d].mods = Without(@, n - 1), ![d].children = Without(@, n - 1),
                     ![d].length = n - 1, ![d].dirty = TRUE]

-----------------------------------------------------------------------------
\* Names of an object: those of its base that were not deleted, and those assigned.
draftKeys(h, ds, d) ==
  LET entries == hamtEntries(h, ds[d].base[2])
  IN {k \in {TextAt(h, entries[i].key[2]) : i \in DOMAIN entries} \union DOMAIN ds[d].mods :
        k \in DOMAIN ds[d].mods => ds[d].mods[k] # DELETED}

\* A draft as a plain value.  The drafts it opens on the way stay clean and are
\* not kept: a later read that opens them again sees the same.
RECURSIVE materialiseState(_, _, _)

toPlain(h, ds, v) == IF v[1] = "Draft" THEN materialiseState(h, ds, v[2]) ELSE v

\* What a read gives, materialised.  The key of an object is a text of its base.
PlainAt(h, ds, d, k) ==
  CASE k \in DOMAIN ds[d].mods ->
         IF ds[d].mods[k] = DELETED THEN Undefined ELSE toPlain(h, ds, ds[d].mods[k])
    [] k \in DOMAIN ds[d].children \ DOMAIN ds[d].mods ->
         materialiseState(h, ds, ds[d].children[k])
    [] OTHER -> Read(h, IF IsArray(ds, d) THEN vectorGet(h, ds[d].base[2], k)
                        ELSE hamtGetString(h, ds[d].base[2], k))

materialise(h, ds, d) ==
  [i \in 1..draftLength(h, ds, d) |-> PlainAt(h, ds, d, i - 1)]

materialiseState(h, ds, d) ==
  IF IsArray(ds, d) THEN <<"Array", materialise(h, ds, d)>>
  ELSE <<"Object", [k \in draftKeys(h, ds, d) |-> PlainAt(h, ds, d, k)]>>

\* reverse, sort, splice and the like: the array is materialised, Method is run
\* on it, and every element becomes an assignment.
AllAssigned(ds, d, s) ==
  [ds EXCEPT ![d].mods = [i \in 0..(Len(s) - 1) |-> s[i + 1]], ![d].children = <<>>,
             ![d].length = Len(s), ![d].dirty = TRUE]
rebuild(h, ds, d, Method(_)) == AllAssigned(ds, d, Method(materialise(h, ds, d)))

-----------------------------------------------------------------------------
\* What a slot that is replaced reached: nothing when there was none.
retireSubtree(c, slot) ==
  IF slot = Corrupt THEN Fail(c, "ArenaCorrupt") ELSE Retire(c, collectBlocks(c.heap, slot))

\* The keys in their order.
KeysOf(ds, d, S) == IF IsArray(ds, d) THEN Ascending(S) ELSE NamesInOrder(S)

\* The children to finish: those that were written, and are still of this draft.
DirtyChildren(ds, d) ==
  {k \in DOMAIN ds[d].children :
     k \notin DOMAIN ds[d].mods /\ isDirty(ds, ds[d].children[k])}

RECURSIVE finalizeState(_, _, _)

\* What is assigned at a key, encoded.
encodeAt(c, ds, d, k) == encodeValue(c, toPlain(c.heap, ds, ds[d].mods[k]))

\* The nested drafts first, then the assignments: the trie is copied along the path
\* of each.  A child retires what it replaced itself.
ObjectChild(acc, ds, d, k) ==
  Then(encodeString(acc.ctx, k), LAMBDA key :
    Then(finalizeState(key.ctx, ds, ds[d].children[k]), LAMBDA got :
      PutEntry(got.ctx, acc.at, key.slot, got.slot)))

ObjectAssign(acc, key, ds, d, k) ==
  IF ds[d].mods[k] = DELETED THEN hamtDissoc(key.ctx, acc.at, key.slot, 0)
  ELSE Then(encodeAt(key.ctx, ds, d, k), LAMBDA val :
         PutEntry(val.ctx, acc.at, key.slot, val.slot))

ObjectPut(acc, key, ds, d, k) ==
  Then(ObjectAssign(acc, key, ds, d, k), LAMBDA got :
    [ctx |-> retireSubtree(got.ctx, hamtGet(key.ctx.heap, acc.at, key.slot)),
     at  |-> got.at])

Nested(c, ds, d, Child(_, _)) ==
  FoldLeft(Child, [ctx |-> c, at |-> ds[d].base[2]], KeysOf(ds, d, DirtyChildren(ds, d)))

finalizeObject(c, ds, d) ==
  AsSlot("Object",
    FoldLeft(LAMBDA acc, k : ObjectPut(acc, encodeString(acc.ctx, k), ds, d, k),
             Nested(c, ds, d, LAMBDA acc, k : ObjectChild(acc, ds, d, k)),
             KeysOf(ds, d, DOMAIN ds[d].mods)))

\* Only elements were replaced: the paths to them are copied.
ArrayChild(acc, ds, d, k) ==
  Then(finalizeState(acc.ctx, ds, ds[d].children[k]), LAMBDA got :
    vectorAssoc(got.ctx, acc.at, k, got.slot))

ArrayAssign(acc, ds, d, k) ==
  Then(encodeAt(acc.ctx, ds, d, k), LAMBDA val :
    Then(vectorAssoc(val.ctx, acc.at, k, val.slot), LAMBDA got :
      [ctx |-> retireSubtree(got.ctx, vectorGet(acc.ctx.heap, acc.at, k)), at |-> got.at]))

AssignElements(c, ds, d) ==
  AsSlot("Array",
    FoldLeft(LAMBDA acc, k : ArrayAssign(acc, ds, d, k),
             Nested(c, ds, d, LAMBDA acc, k : ArrayChild(acc, ds, d, k)),
             KeysOf(ds, d, DOMAIN ds[d].mods)))

\* The length changed: every element is carried over, finished or encoded, and what
\* was not carried over is retired with the old spine.
SlotOrUndefined(slot) == IF slot = Absent THEN Slot("Undefined", 0) ELSE slot

Element(c, ds, d, k) ==
  CASE k \in DOMAIN ds[d].mods -> encodeAt(c, ds, d, k)
    [] k \in DirtyChildren(ds, d) -> finalizeState(c, ds, ds[d].children[k])
    [] OTHER -> [ctx |-> c, slot |-> SlotOrUndefined(vectorGet(c.heap, ds[d].base[2], k))]

Rebuilt(c, ds, d, length) ==
  Then(FoldLeft(LAMBDA acc, k : Then(Element(acc.ctx, ds, d, k), LAMBDA got :
                  [ctx |-> got.ctx, slots |-> Append(acc.slots, got.slot)]),
                [ctx |-> c, slots |-> <<>>], [k \in 1..length |-> k - 1]),
       LAMBDA built : AsSlot("Array", vectorFromSlots(built.ctx, built.slots)))

Dropped(ds, d, oldLength, length) ==
  Ascending({k \in 0..(oldLength - 1) :
               k >= length \/ k \in DOMAIN ds[d].mods \union DirtyChildren(ds, d)})

RebuildElements(c, ds, d) ==
  LET length == draftLength(c.heap, ds, d)
      old    == ds[d].base[2]
  IN Then(Rebuilt(c, ds, d, length), LAMBDA got :
       [got EXCEPT !.ctx =
          Retire(FoldLeft(LAMBDA ctx, k : retireSubtree(ctx, vectorGet(ctx.heap, old, k)),
                          @, Dropped(ds, d, vectorLength(c.heap, old), length)),
                 vectorNodes(c.heap, old))])

IndexWritesOnly(h, ds, d) ==
  LET length == vectorLength(h, ds[d].base[2])
  IN draftLength(h, ds, d) = length /\ \A k \in DOMAIN ds[d].mods : k < length

finalizeArray(c, ds, d) ==
  IF IndexWritesOnly(c.heap, ds, d) THEN AssignElements(c, ds, d)
  ELSE RebuildElements(c, ds, d)

\* A draft that was not written keeps its slot.
finalizeState(c, ds, d) ==
  IF ~isDirty(ds, d) THEN [ctx |-> c, slot |-> ds[d].base]
  ELSE IF IsArray(ds, d) THEN finalizeArray(c, ds, d) ELSE finalizeObject(c, ds, d)
=============================================================================
