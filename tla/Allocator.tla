------------------------------ MODULE Allocator ------------------------------
(***************************************************************************)
(* The memory of the arena, as allocator.ts hands it out: a bump pointer,  *)
(* one free list for each size class, and the two-word header before every *)
(* block.  Only the owner allocates, in synchronous code, so an operation  *)
(* is an operator on the allocator's state                                 *)
(*                                                                         *)
(*   bump    the header word BumpPointer                                   *)
(*   bytes   the length of the buffer, which grows up to MaxByteLength     *)
(*   free    the free lists, a stack for each class                        *)
(*   header  the block headers: the class and the size of each block       *)
(*                                                                         *)
(* and returns the new state, Allocate with the offset.  The statistics    *)
(* (liveBytes, freeListBytes) are left out.                                *)
(***************************************************************************)
EXTENDS Integers, Sequences, SequencesExt, Functions, FiniteSetsExt, TLC

CONSTANTS
  ArenaOffset,     \* where the geometry of the header leaves off
  ByteLength,      \* of the buffer when it is created
  MaxByteLength    \* what it may grow to

ASSUME BufferAssumption ==
  /\ ArenaOffset \in Nat \ {0}
  /\ ArenaOffset % 8 = 0
  /\ ByteLength \in Nat
  /\ MaxByteLength \in Nat
  /\ ArenaOffset < ByteLength
  /\ ByteLength <= MaxByteLength

BLOCK_HEADER_BYTES == 8
SIZE_CLASSES == <<8, 16, 24, 32, 48, 64, 96, 128, 192, 256, 384, 512,
                  768, 1024, 1536, 2048, 3072, 4096>>
Classes == DOMAIN SIZE_CLASSES
SIZE_CLASS_EXACT == 0

align(n) == 8 * ((n + 7) \div 8)

NoBlock == 0     \* no offset of a block: ArenaFullError

\* The first class that is large enough.
classForSize(n) ==
  IF n > SIZE_CLASSES[Len(SIZE_CLASSES)] THEN SIZE_CLASS_EXACT
  ELSE CHOOSE i \in Classes :
         /\ n <= SIZE_CLASSES[i]
         /\ \A j \in Classes : j < i => SIZE_CLASSES[j] < n

BlockBytes(n, i) == IF i = SIZE_CLASS_EXACT THEN align(n) ELSE SIZE_CLASSES[i]

EmptyArena ==
  [bump |-> ArenaOffset, bytes |-> ByteLength,
   free |-> [i \in Classes |-> <<>>], header |-> <<>>]

\* The list of a class gives up the block that was freed last.  The header the
\* code rewrites in allocate, and leaves alone in #scavenge, is the same.
Pop(a, i) ==
  [arena |-> [a EXCEPT !.free[i] = Front(@)], at |-> Last(a.free[i])]

\* Mutant: a block from a larger class is not taken off its list.
MutantScavenge(a, i) ==
  LET larger == {j \in Classes : i <= j /\ a.free[j] # <<>>}
  IN IF i = SIZE_CLASS_EXACT \/ larger = {} THEN [arena |-> a, at |-> NoBlock]
     ELSE [arena |-> a, at |-> Last(a.free[CHOOSE j \in larger : \A k \in larger : j <= k])]

\* #scavenge: out of fresh arena, a block of a larger class will do.
Scavenge(a, i) ==
  LET larger == {j \in Classes : i <= j /\ a.free[j] # <<>>}
  IN IF i = SIZE_CLASS_EXACT \/ larger = {} THEN [arena |-> a, at |-> NoBlock]
     ELSE Pop(a, CHOOSE j \in larger : \A k \in larger : j <= k)

\* #growBuffer for a block that ends `needed` bytes past the buffer.  It makes
\* room for it or reaches the maximum, so #bumpAllocate asks at most once more
\* and is then refused.
Grown(a, needed) ==
  [a EXCEPT !.bytes = Min({MaxByteLength, Max({2 * @, @ + needed})})]

\* A function with y at x, where it was defined or not: #writeBlockHeader before a new
\* block, what is stored in a block, an entry of a Map.
With(f, x, y) == [o \in DOMAIN f \union {x} |-> IF o = x THEN y ELSE f[o]]

\* A block of `size` bytes at the bump pointer, once there is room for it.
Placed(a, payload, size, i) ==
  IF payload + size > a.bytes THEN Scavenge(a, i)
  ELSE [arena |-> [a EXCEPT !.bump = payload + size,
                            !.header = With(@, payload, [class |-> i, size |-> size])],
        at |-> payload]

BumpAllocate(a, payload, size, i) ==
  Placed(IF payload + size <= a.bytes THEN a ELSE Grown(a, payload + size - a.bytes),
         payload, size, i)

FromClass(a, n, i) ==
  IF i # SIZE_CLASS_EXACT /\ a.free[i] # <<>> THEN Pop(a, i)
  ELSE BumpAllocate(a, a.bump + BLOCK_HEADER_BYTES, BlockBytes(n, i), i)

allocate(a, n) == FromClass(a, n, classForSize(n))

\* A block goes back to the class its header names; one of an exact size is lost.
free(a, at) ==
  LET i == a.header[at].class
  IN IF i = SIZE_CLASS_EXACT THEN a ELSE [a EXCEPT !.free[i] = Append(@, at)]

\* The loop that frees the blocks of a journal, in its order.
FreeAll(a, blocks) ==
  LET freed[k \in 0..Len(blocks)] == IF k = 0 THEN a ELSE free(freed[k - 1], blocks[k])
  IN freed[Len(blocks)]

\* The elements of a sequence that are in a set, in their order.
KeepIn(s, S) ==
  LET kept[k \in 0..Len(s)] ==
        IF k = 0 THEN <<>>
        ELSE IF s[k] \in S THEN Append(kept[k - 1], s[k]) ELSE kept[k - 1]
  IN kept[Len(s)]

\* The blocks below a mark.
Below(a, mark) == {o \in DOMAIN a.header : o - BLOCK_HEADER_BYTES < mark}

\* Mutant: the free lists keep the blocks above the mark.
MutantRewindTo(a, mark) ==
  IF mark >= a.bump THEN a
  ELSE [a EXCEPT !.bump = mark, !.header = Restrict(@, Below(a, mark))]

\* Everything above the mark is discarded, on the free lists too.  The headers
\* there are stale bytes until the bump pointer passes them again.
rewindTo(a, mark) ==
  IF mark >= a.bump THEN a
  ELSE [a EXCEPT !.bump   = mark,
                 !.free   = [i \in Classes |-> KeepIn(@[i], Below(a, mark))],
                 !.header = Restrict(@, Below(a, mark))]

FreeBlocks(a) == UNION {ToSet(a.free[i]) : i \in Classes}
Stranded(a)   == {o \in DOMAIN a.header : a.header[o].class = SIZE_CLASS_EXACT}

-----------------------------------------------------------------------------
Headers == [class : 0..18, size : Nat]

\* The state of an allocator: the blocks lie in the arena, aligned, apart from each other
\* with a header before each, and a free list holds blocks of its class, each one once.
Typed(a) ==
  a \in [bump : Nat, bytes : Nat, free : [Classes -> Seq(Nat)],
         header : [DOMAIN a.header -> Headers]]

Bounded(a) ==
  /\ ArenaOffset <= a.bump /\ a.bump <= a.bytes /\ a.bytes <= MaxByteLength
  /\ a.bump % 8 = 0

Placement(a) ==
  \A o \in DOMAIN a.header :
    /\ o \in Nat /\ o % 8 = 0
    /\ ArenaOffset + BLOCK_HEADER_BYTES <= o
    /\ o + a.header[o].size <= a.bump
    /\ a.header[o].class # SIZE_CLASS_EXACT
         => a.header[o].size = SIZE_CLASSES[a.header[o].class]

Apart(a) ==
  \A o \in DOMAIN a.header :
    LET next == o + a.header[o].size + BLOCK_HEADER_BYTES
    IN \A p \in DOMAIN a.header : o < p => next <= p

Lists(a) ==
  \A i \in Classes : \A k \in 1..Len(a.free[i]) :
    /\ a.free[i][k] \in DOMAIN a.header
    /\ a.header[a.free[i][k]].class = i
    /\ \A l \in 1..Len(a.free[i]) : a.free[i][k] = a.free[i][l] => k = l

WellFormed(a) == Typed(a) /\ Bounded(a) /\ Placement(a) /\ Apart(a) /\ Lists(a)

InUse(a) == DOMAIN a.header \ FreeBlocks(a)

\* What allocating and freeing do to the arena: it is taken further, and a block stays
\* where it is and keeps its header.
Grows(a, b) ==
  /\ a.bump <= b.bump
  /\ \A o \in DOMAIN a.header : o \in DOMAIN b.header /\ b.header[o] = a.header[o]
  /\ \A o \in DOMAIN b.header \ DOMAIN a.header : a.bump + BLOCK_HEADER_BYTES <= o
=============================================================================
