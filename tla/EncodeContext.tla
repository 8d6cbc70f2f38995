---------------------------- MODULE EncodeContext ----------------------------
(***************************************************************************)
(* What a commit carries through the encoder (EncodeContext in values.ts)  *)
(* together with the memory it writes to.  A context c holds               *)
(*                                                                         *)
(*   alloc      the allocator                                              *)
(*   heap       what was last written to each block, freed ones included   *)
(*   strings    the intern map of the owner, from a text to its record     *)
(*   allocated  the blocks this commit allocated                           *)
(*   retired    the blocks the next version no longer reaches              *)
(*   interned   the texts this commit put in the intern map                *)
(*   bumpBefore where the bump pointer stood                               *)
(*   err        what was thrown                                            *)
(*                                                                         *)
(* An exception leaves the context as it is from there on: once err is     *)
(* set, the three operations that change a context do nothing, so that an  *)
(* operator that builds a structure need not ask after each of its steps.  *)
(***************************************************************************)
EXTENDS Allocator

CONSTANTS
  LengthOf(_),     \* of a text, in UTF-16 code units
  HashOf(_)        \* of a key: hashString of a text, keyHash of another primitive

WORD    == 4
NoError == "none"
Junk    == [kind |-> "Junk"]

EmptyContext ==
  [alloc |-> EmptyArena, heap |-> <<>>, strings |-> <<>>,
   allocated |-> <<>>, retired |-> <<>>, interned |-> <<>>,
   bumpBefore |-> ArenaOffset, err |-> NoError]

\* Mutant: the mark stays where it was for the first commit.
MutantnewContext(c) ==
  [c EXCEPT !.allocated = <<>>, !.retired = <<>>, !.interned = <<>>, !.err = NoError]

newContext(c) ==
  [alloc |-> c.alloc, heap |-> c.heap, strings |-> c.strings,
   allocated |-> <<>>, retired |-> <<>>, interned |-> <<>>,
   bumpBefore |-> c.alloc.bump, err |-> NoError]

\* A read at an offset where no block was ever written fails its block check.
Load(h, at) == IF at \in DOMAIN h THEN h[at] ELSE Junk

Fail(c, error) == IF c.err = NoError THEN [c EXCEPT !.err = error] ELSE c

Retire(c, blocks) == IF c.err = NoError THEN [c EXCEPT !.retired = @ \o blocks] ELSE c

\* A step of a write, and what the code does with what the step returned.
Then(got, After(_)) == After(got)

\* A block of n bytes, written and not yet journaled.
WriteAt(c, got, data) ==
  IF got.at = NoBlock
  THEN [ctx |-> [c EXCEPT !.alloc = got.arena, !.err = "ArenaFull"], at |-> NoBlock]
  ELSE [ctx |-> [c EXCEPT !.alloc = got.arena, !.heap = With(@, got.at, data)],
        at |-> got.at]

Write(c, n, data) ==
  IF c.err # NoError THEN [ctx |-> c, at |-> NoBlock]
  ELSE WriteAt(c, allocate(c.alloc, n), data)

\* A block on the journal of the commit.
Journaled(got) ==
  IF got.at = NoBlock THEN got ELSE [got EXCEPT !.ctx.allocated = Append(@, got.at)]
AllocBlock(c, n, data) == Journaled(Write(c, n, data))

\* A copy of a node that replaces it.
Replace(c, node, n, data) ==
  [AllocBlock(c, n, data) EXCEPT !.ctx = Retire(@, <<node>>)]

stringRecordBytes(length) == align(2 * WORD + 2 * length)

WriteString(c, text) ==
  Then(Write(c, stringRecordBytes(LengthOf(text)), [kind |-> "String", text |-> text]),
       LAMBDA got : IF got.at = NoBlock THEN got
                    ELSE [got EXCEPT !.ctx.strings = With(@, text, got.at)])

\* Mutant: the record of a string is not put on the interning journal.
Mutantintern(c, text) ==
  IF text \in DOMAIN c.strings THEN [ctx |-> c, at |-> c.strings[text]]
  ELSE WriteString(c, text)

\* The offset of a text, written the first time it is seen.  The text goes on the
\* journal before the allocation that may fail.
intern(c, text) ==
  IF text \in DOMAIN c.strings THEN [ctx |-> c, at |-> c.strings[text]]
  ELSE IF c.err # NoError THEN [ctx |-> c, at |-> NoBlock]
  ELSE WriteString([c EXCEPT !.interned = Append(@, text)], text)

\* StringTable.forget: a text on the journal whose record was never written is skipped.
forget(c, texts) ==
  LET written == KeepIn(texts, DOMAIN c.strings)
  IN [c EXCEPT !.alloc   = FreeAll(@, [i \in DOMAIN written |-> c.strings[written[i]]]),
               !.strings = Restrict(@, DOMAIN @ \ ToSet(written))]

\* ArenaOwner.#rollback, and the context is dropped.  What was written above the
\* mark is dropped with it: no block there is referred to.
Rewound(c, arena) ==
  [c EXCEPT !.alloc = arena, !.heap = Restrict(@, DOMAIN @ \cap DOMAIN arena.header)]
Freed(c) == forget([c EXCEPT !.alloc = FreeAll(@, c.allocated)], c.interned)
rollback(c) ==
  Then(Freed(c), LAMBDA d : newContext(Rewound(d, rewindTo(d.alloc, d.bumpBefore))))

\* Mutant: the hash is compared and the characters are not.
MutantStringIs(h, at, text) ==
  /\ Load(h, at).kind = "String"
  /\ HashOf(<<"String", h[at].text>>) = HashOf(<<"String", text>>)

\* stringEquals: the length, the hash and the characters of a record.
StringIs(h, at, text) == Load(h, at) = [kind |-> "String", text |-> text]

\* The records of the strings the owner knows.
StringsOf(c) == {c.strings[t] : t \in DOMAIN c.strings}

\* What a rejected write must leave as it found it.  The free lists may be in another
\* order, and the buffer longer.
Footprint(c) ==
  [bump |-> c.alloc.bump, header |-> c.alloc.header, strings |-> c.strings,
   free |-> [i \in Classes |-> ToSet(c.alloc.free[i])]]

-----------------------------------------------------------------------------
ContextRecord(c) ==
  c = [alloc |-> c.alloc, heap |-> c.heap, strings |-> c.strings,
       allocated |-> c.allocated, retired |-> c.retired, interned |-> c.interned,
       bumpBefore |-> c.bumpBefore, err |-> c.err]

\* The state of a context: what it allocated and the strings it knows are blocks in use,
\* each listed once, and unless something was thrown a text of the journal has its record.
Context(c) ==
  /\ ContextRecord(c)
  /\ WellFormed(c.alloc)
  /\ DOMAIN c.alloc.header \subseteq DOMAIN c.heap
  /\ c.strings \in [DOMAIN c.strings -> InUse(c.alloc)]
  /\ c.allocated \in Seq(InUse(c.alloc) \ StringsOf(c))
  /\ c.retired \in Seq(Nat)
  /\ c.interned \in Seq(ToSet(c.interned))
  /\ IsInjective(c.strings) /\ IsInjective(c.allocated) /\ IsInjective(c.interned)
  /\ c.err = NoError => ToSet(c.interned) \subseteq DOMAIN c.strings

\* What a write has taken from the allocator between c and d.
Fresh(c, d) == (ToSet(d.allocated) \ ToSet(c.allocated)) \union (StringsOf(d) \ StringsOf(c))
NewTexts(c, d) == ToSet(d.interned) \ ToSet(c.interned)

\* What encoding a value, reading through a draft or finalising one may do to a context:
\* it takes blocks nobody uses, puts each on one of its journals, and writes no other.
Extends(c, d) ==
  /\ Context(d)
  /\ Grows(c.alloc, d.alloc)
  /\ d.bumpBefore = c.bumpBefore
  /\ ToSet(c.allocated) \subseteq ToSet(d.allocated)
  /\ ToSet(c.interned) \subseteq ToSet(d.interned)
  /\ \A t \in DOMAIN c.strings : t \in DOMAIN d.strings /\ d.strings[t] = c.strings[t]
  /\ DOMAIN d.strings \subseteq DOMAIN c.strings \union NewTexts(c, d)
  /\ NewTexts(c, d) \cap DOMAIN c.strings = {}
  /\ InUse(d.alloc) = InUse(c.alloc) \union Fresh(c, d)
  /\ InUse(c.alloc) \cap Fresh(c, d) = {}
  /\ \A o \in InUse(c.alloc) : d.heap[o] = c.heap[o]
=============================================================================
