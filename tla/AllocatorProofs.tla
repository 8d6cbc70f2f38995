--------------------------- MODULE AllocatorProofs ---------------------------
(***************************************************************************)
(* What Allocator promises for a buffer of any length: blocks that are     *)
(* aligned, large enough, inside the arena and apart from each other.      *)
(***************************************************************************)
EXTENDS Allocator, NaturalsInduction, WellFoundedInduction, TLAPS

\* There are eighteen size classes.
LEMMA ClassesAre == Classes = 1..18 /\ Len(SIZE_CLASSES) = 18
BY DEF Classes, SIZE_CLASSES

\* A class holds at least eight bytes, and whole words of eight.
LEMMA ClassSizes ==
  ASSUME NEW i \in Classes
  PROVE  /\ SIZE_CLASSES[i] \in Nat
         /\ SIZE_CLASSES[i] >= 8
         /\ SIZE_CLASSES[i] % 8 = 0
BY DEF Classes, SIZE_CLASSES

\* The largest class is of a page.
LEMMA LastClass == SIZE_CLASSES[Len(SIZE_CLASSES)] = 4096
BY DEF SIZE_CLASSES

\* A request of at most a page has a class, which is large enough for it.
LEMMA ClassOfSize ==
  ASSUME NEW n \in Nat
  PROVE  /\ classForSize(n) \in 0..18
         /\ classForSize(n) # SIZE_CLASS_EXACT
              => classForSize(n) \in Classes /\ n <= SIZE_CLASSES[classForSize(n)]
<1>1. CASE n > 4096
  BY <1>1, LastClass DEF classForSize, SIZE_CLASS_EXACT
<1>2. CASE n <= 4096
  <2>1. \E i \in Classes : /\ n <= SIZE_CLASSES[i]
                           /\ \A j \in Classes : j < i => SIZE_CLASSES[j] < n
    BY <1>2, SMTT(60) DEF Classes, SIZE_CLASSES
  <2> QED
    BY <1>2, <2>1, LastClass, ClassesAre DEF classForSize, SIZE_CLASS_EXACT
<1> QED  BY <1>1, <1>2

\* align rounds up to the next multiple of eight.
LEMMA Aligned ==
  ASSUME NEW n \in Nat
  PROVE  align(n) \in Nat /\ align(n) >= n /\ align(n) < n + 8 /\ align(n) % 8 = 0
BY DEF align

\* A block of whole words ends at a whole word.
LEMMA SumAligned ==
  ASSUME NEW x \in Nat, NEW y \in Nat, x % 8 = 0, y % 8 = 0
  PROVE  (x + y) % 8 = 0
OBVIOUS

\* The smaller and the larger of two numbers.
LEMMA SmallerOf ==
  ASSUME NEW x \in Nat, NEW y \in Nat
  PROVE  /\ Min({x, y}) \in {x, y} /\ Min({x, y}) <= x /\ Min({x, y}) <= y
         /\ Max({x, y}) \in {x, y} /\ Max({x, y}) >= x /\ Max({x, y}) >= y
<1>1. \E z \in {x, y} : \A w \in {x, y} : z =< w
  OBVIOUS
<1>2. \E z \in {x, y} : \A w \in {x, y} : z >= w
  OBVIOUS
<1> QED  BY <1>1, <1>2 DEF Min, Max

\* The classes grow.
LEMMA Increasing ==
  ASSUME NEW i \in Classes, NEW j \in Classes, i <= j
  PROVE  SIZE_CLASSES[i] <= SIZE_CLASSES[j]
BY SMTT(60) DEF Classes, SIZE_CLASSES

\* Of some classes one is the smallest.
LEMMA LeastClass ==
  ASSUME NEW S \in SUBSET Classes, S # {}
  PROVE  \E j \in S : \A k \in S : j <= k
<1>1. PICK s \in S : TRUE
  OBVIOUS
<1>2. S \subseteq 1..18
  BY ClassesAre
<1> SUFFICES ASSUME \A j \in S : \E k \in S : k < j
             PROVE  FALSE
  BY <1>2
<1> QED  BY <1>1, <1>2, SMTT(60)

-----------------------------------------------------------------------------
\* What a request for n bytes gets: nothing, or a block nobody uses that is large enough.
Sound(a, got, n) ==
  /\ WellFormed(got.arena)
  /\ got.at = NoBlock => InUse(got.arena) = InUse(a)
  /\ got.at # NoBlock =>
       /\ got.at \notin InUse(a)
       /\ InUse(got.arena) = InUse(a) \union {got.at}
       /\ got.arena.header[got.at].size >= n
  /\ \A o \in InUse(a) : got.arena.header[o] = a.header[o]

\* What is assumed of the buffer, in parts.
LEMMA BufferIs ==
  /\ ArenaOffset \in Nat /\ ArenaOffset > 0 /\ ArenaOffset % 8 = 0
  /\ ByteLength \in Nat /\ MaxByteLength \in Nat
  /\ ArenaOffset <= ByteLength /\ ByteLength <= MaxByteLength
BY BufferAssumption

\* The arena is well formed when the owner creates it.
THEOREM EmptyIsWellFormed == WellFormed(EmptyArena)
<1> DEFINE a == EmptyArena
<1>1. DOMAIN a.header = {}
  BY DEF EmptyArena
<1>2. Typed(a)
  BY <1>1, BufferIs DEF EmptyArena, Typed
<1>3. Bounded(a)
  BY BufferIs DEF EmptyArena, Bounded
<1>4. Lists(a)
  BY DEF EmptyArena, Lists
<1> QED
  BY <1>1, <1>2, <1>3, <1>4 DEF WellFormed, Placement, Apart

\* A block is free when a list names it.
LEMMA FreeBlocksAre ==
  ASSUME NEW a, Typed(a), NEW o
  PROVE  o \in FreeBlocks(a) <=>
           \E i \in Classes : \E k \in 1..Len(a.free[i]) : o = a.free[i][k]
<1>1. ASSUME NEW i \in Classes
      PROVE  ToSet(a.free[i]) = {a.free[i][k] : k \in 1..Len(a.free[i])}
  BY DEF Typed, ToSet
<1> QED  BY <1>1 DEF FreeBlocks

\* Popping takes the last and leaves the others where they are.
LEMMA FrontIs ==
  ASSUME NEW s \in Seq(Nat), s # <<>>
  PROVE  /\ Len(s) \in Nat /\ Len(s) >= 1
         /\ Last(s) = s[Len(s)] /\ Last(s) \in Nat
         /\ Front(s) \in Seq(Nat)
         /\ Len(Front(s)) = Len(s) - 1
         /\ \A k \in 1..(Len(s) - 1) : Front(s)[k] = s[k]
<1>1. /\ Len(s) \in Nat /\ Len(s) >= 1 /\ Len(s) - 1 \in Nat
      /\ Last(s) = s[Len(s)] /\ Last(s) \in Nat
  BY DEF Last
<1>2. \A k \in 1..(Len(s) - 1) : s[k] \in Nat
  OBVIOUS
<1>3. Front(s) = [k \in 1..(Len(s) - 1) |-> s[k]]
  BY <1>1 DEF Front
<1> QED  BY <1>1, <1>2, <1>3

\* A block that is popped was free, and nothing else changes hands.
LEMMA PopIsSound ==
  ASSUME NEW a, WellFormed(a), NEW n \in Nat, NEW i \in Classes,
         a.free[i] # <<>>, n <= SIZE_CLASSES[i]
  PROVE  Sound(a, Pop(a, i), n)
<1> DEFINE s  == a.free[i]
           b  == Pop(a, i).arena
           at == Pop(a, i).at
<1>1. Typed(a) /\ Lists(a) /\ Placement(a)
  BY DEF WellFormed
<1>2. /\ s \in Seq(Nat) /\ s # <<>> /\ s = a.free[i]
      /\ b.bump = a.bump /\ b.bytes = a.bytes /\ b.header = a.header
      /\ b.free = [a.free EXCEPT ![i] = Front(s)]
      /\ at = Last(s)
  BY <1>1 DEF Typed, Pop
<1>3. /\ Len(s) \in Nat /\ Len(s) >= 1 /\ at = s[Len(s)] /\ at \in Nat
      /\ Front(s) \in Seq(Nat) /\ Len(Front(s)) = Len(s) - 1
      /\ \A k \in 1..(Len(s) - 1) : Front(s)[k] = s[k]
  BY <1>2, FrontIs
<1>4. /\ b.free \in [Classes -> Seq(Nat)] /\ b.free[i] = Front(s)
      /\ \A j \in Classes : j # i => b.free[j] = a.free[j]
  BY <1>1, <1>2, <1>3 DEF Typed
<1>5. Typed(b)
  <2>1. b = [a EXCEPT !.free[i] = Front(s)]
    BY DEF Pop
  <2> QED  BY <1>1, <1>2, <1>3, <2>1 DEF Typed
<1> HIDE DEF s, b, at
<1>6. \A k \in 1..Len(s) :
       /\ s[k] \in DOMAIN a.header /\ a.header[s[k]].class = i
       /\ \A l \in 1..Len(s) : s[k] = s[l] => k = l
  BY <1>1, <1>2 DEF Lists
<1>7. Len(s) \in 1..Len(s)
  BY <1>3
<1>8. /\ at \in DOMAIN a.header /\ a.header[at].class = i /\ a.header[at].size >= n
      /\ at # NoBlock
  <2>1. at \in DOMAIN a.header /\ a.header[at].class = i
    BY <1>3, <1>6, <1>7
  <2>2. i # SIZE_CLASS_EXACT
    BY ClassesAre DEF SIZE_CLASS_EXACT
  <2> QED
    BY <1>1, <2>1, <2>2, BufferIs, ClassSizes
    DEF Placement, BLOCK_HEADER_BYTES, NoBlock
<1>9. Lists(b)
  <2> SUFFICES ASSUME NEW j \in Classes, NEW k \in 1..Len(b.free[j])
               PROVE  /\ b.free[j][k] \in DOMAIN a.header
                      /\ a.header[b.free[j][k]].class = j
                      /\ \A l \in 1..Len(b.free[j]) : b.free[j][k] = b.free[j][l] => k = l
    BY <1>2 DEF Lists
  <2>1. CASE j = i
    <3>1. b.free[j] = Front(s) /\ Len(b.free[j]) = Len(s) - 1
      BY <1>3, <1>4, <2>1
    <3>2. ASSUME NEW l \in 1..Len(b.free[j])
          PROVE  l \in 1..(Len(s) - 1) /\ l \in 1..Len(s)
      <4>1. Len(s) \in Nat
        BY <1>3
      <4> QED  BY <3>1, <4>1
    <3>3. \A l \in 1..Len(b.free[j]) : b.free[j][l] = s[l]
      BY <1>3, <3>1, <3>2
    <3> QED  BY <1>6, <2>1, <3>2, <3>3
  <2>2. CASE j # i
    BY <1>1, <1>4, <2>2 DEF Lists
  <2> QED  BY <2>1, <2>2
<1>10. WellFormed(b)
  <2>1. Bounded(b) /\ Placement(b) /\ Apart(b)
    BY <1>2 DEF WellFormed, Bounded, Placement, Apart
  <2> QED  BY <1>5, <1>9, <2>1 DEF WellFormed
<1>11. FreeBlocks(b) = FreeBlocks(a) \ {at}
  <2>1. ASSUME NEW o \in FreeBlocks(b) PROVE o \in FreeBlocks(a) \ {at}
    <3>1. PICK j \in Classes : \E k \in 1..Len(b.free[j]) : o = b.free[j][k]
      BY <1>5, <2>1, FreeBlocksAre
    <3>P. PICK k \in 1..Len(b.free[j]) : o = b.free[j][k]
      BY <3>1
    <3>2. CASE j = i
      <4>1. k \in 1..(Len(s) - 1) /\ o = s[k] /\ k \in 1..Len(s) /\ k # Len(s)
        BY <1>2, <1>3, <1>4, <3>P, <3>2
      <4>2. o # at
        BY <1>3, <1>6, <1>7, <4>1
      <4>3. \E l \in 1..Len(a.free[i]) : o = a.free[i][l]
        BY <1>2, <4>1
      <4> QED  BY <1>1, <4>2, <4>3, FreeBlocksAre
    <3>3. CASE j # i
      <4>1. k \in 1..Len(a.free[j]) /\ o = a.free[j][k]
        BY <1>4, <3>P, <3>3
      <4>2. o # at
        BY <1>1, <1>8, <3>3, <4>1 DEF Lists
      <4> QED  BY <1>1, <4>1, <4>2, FreeBlocksAre
    <3> QED  BY <3>2, <3>3
  <2>2. ASSUME NEW o \in FreeBlocks(a), o # at PROVE o \in FreeBlocks(b)
    <3>1. PICK j \in Classes : \E k \in 1..Len(a.free[j]) : o = a.free[j][k]
      BY <1>1, FreeBlocksAre
    <3>P. PICK k \in 1..Len(a.free[j]) : o = a.free[j][k]
      BY <3>1
    <3>2. k \in 1..Len(b.free[j]) /\ o = b.free[j][k]
      <4>1. CASE j = i
        <5>1. k \in 1..Len(s) /\ o = s[k]
          BY <1>2, <3>P, <4>1
        <5>2. k # Len(s)
          BY <1>3, <2>2, <5>1
        <5>3. k \in 1..(Len(s) - 1)
          BY <1>3, <5>1, <5>2
        <5> QED  BY <1>3, <1>4, <4>1, <5>1, <5>3
      <4>2. CASE j # i
        BY <1>4, <3>P, <4>2
      <4> QED  BY <4>1, <4>2
    <3> QED  BY <1>5, <3>2, FreeBlocksAre
  <2> QED  BY <2>1, <2>2
<1>12. at \in FreeBlocks(a)
  BY <1>1, <1>2, <1>3, FreeBlocksAre
<1>13. Pop(a, i).arena = b /\ Pop(a, i).at = at
  BY DEF b, at
<1> QED
  BY <1>2, <1>8, <1>10, <1>11, <1>12, <1>13 DEF Sound, InUse

\* A block at the bump pointer lies beyond every other.
LEMMA FreshIsSound ==
  ASSUME NEW a, WellFormed(a), NEW n \in Nat, NEW i \in 0..18, NEW size \in Nat,
         size % 8 = 0, n <= size, i # SIZE_CLASS_EXACT => size = SIZE_CLASSES[i],
         a.bump + BLOCK_HEADER_BYTES + size <= a.bytes
  PROVE  LET at == a.bump + BLOCK_HEADER_BYTES
         IN Sound(a, [arena |-> [a EXCEPT !.bump = at + size,
                                          !.header = With(@, at,
                                                       [class |-> i, size |-> size])],
                      at |-> at], n)
<1> DEFINE at == a.bump + BLOCK_HEADER_BYTES
           b  == [a EXCEPT !.bump = at + size,
                           !.header = With(@, at, [class |-> i, size |-> size])]
<1>1. Typed(a) /\ Bounded(a) /\ Placement(a) /\ Apart(a) /\ Lists(a)
  BY DEF WellFormed
<1>2. /\ at = a.bump + 8 /\ at \in Nat /\ at % 8 = 0 /\ at # NoBlock
      /\ at \notin DOMAIN a.header
  BY <1>1, BufferIs DEF Typed, Bounded, Placement, Headers, BLOCK_HEADER_BYTES, NoBlock
<1>3. /\ b.bump = at + size /\ b.bytes = a.bytes /\ b.free = a.free
      /\ b = [bump |-> b.bump, bytes |-> b.bytes, free |-> b.free, header |-> b.header]
  <2> DEFINE h == With(a.header, at, [class |-> i, size |-> size])
             e == at + size
  <2>1. b = [a EXCEPT !.bump = e, !.header = h]
    OBVIOUS
  <2> HIDE DEF h, e, b
  <2> QED  BY <1>1, <2>1 DEF Typed, e
<1>4. b.header = With(a.header, at, [class |-> i, size |-> size])
  BY <1>1 DEF Typed
<1>5. /\ DOMAIN b.header = DOMAIN a.header \union {at}
      /\ b.header[at] = [class |-> i, size |-> size]
      /\ \A o \in DOMAIN a.header : b.header[o] = a.header[o]
      /\ b.header \in [DOMAIN b.header -> Headers]
  <2>1. b.header = [o \in DOMAIN a.header \union {at} |->
                      IF o = at THEN [class |-> i, size |-> size] ELSE a.header[o]]
    BY <1>4 DEF With
  <2> HIDE DEF b
  <2> QED  BY <1>1, <1>2, <2>1 DEF Typed, Headers
<1> HIDE DEF b, at
<1>6. Typed(b)
  BY <1>1, <1>2, <1>3, <1>5 DEF Typed
<1>7. Bounded(b)
  <2>1. b.bump \in Nat /\ b.bump % 8 = 0 /\ ArenaOffset <= b.bump
    <3>1. b.bump = at + size /\ b.bump \in Nat /\ b.bump % 8 = 0
      BY <1>2, <1>3, SumAligned
    <3>2. a.bump \in Nat /\ ArenaOffset <= a.bump
      BY <1>1 DEF Bounded, Typed
    <3> QED  BY <1>2, <3>1, <3>2, BufferIs
  <2>2. b.bump <= b.bytes
    BY <1>1, <1>2, <1>3 DEF BLOCK_HEADER_BYTES
  <2> QED  BY <1>1, <1>3, <2>1, <2>2 DEF Bounded
<1>8. Placement(b)
  <2> SUFFICES ASSUME NEW o \in DOMAIN b.header
               PROVE  /\ o \in Nat /\ o % 8 = 0
                      /\ ArenaOffset + BLOCK_HEADER_BYTES <= o
                      /\ o + b.header[o].size <= b.bump
                      /\ b.header[o].class # SIZE_CLASS_EXACT
                           => b.header[o].size = SIZE_CLASSES[b.header[o].class]
    BY DEF Placement
  <2>1. CASE o = at
    BY <1>1, <1>2, <1>3, <1>5, <2>1, BufferIs DEF Bounded, Typed, BLOCK_HEADER_BYTES
  <2>2. CASE o \in DOMAIN a.header
    <3>1. a.header[o].size \in Nat /\ a.bump \in Nat
      BY <1>1, <2>2 DEF Typed, Headers
    <3> QED  BY <1>1, <1>2, <1>3, <1>5, <2>2, <3>1 DEF Placement
  <2> QED  BY <1>5, <2>1, <2>2
<1>9. Apart(b)
  <2> SUFFICES ASSUME NEW o \in DOMAIN b.header, NEW p \in DOMAIN b.header, o < p
               PROVE  o + b.header[o].size + BLOCK_HEADER_BYTES <= p
    BY DEF Apart
  <2>1. \A q \in DOMAIN a.header :
          q \in Nat /\ a.header[q].size \in Nat /\ q + a.header[q].size <= a.bump
    BY <1>1 DEF Typed, Headers, Placement
  <2>2. a.bump \in Nat
    BY <1>1 DEF Typed
  <2>3. CASE p = at /\ o \in DOMAIN a.header
    BY <1>2, <1>5, <2>1, <2>2, <2>3 DEF BLOCK_HEADER_BYTES
  <2>4. CASE o = at /\ p \in DOMAIN a.header
    BY <1>2, <2>1, <2>2, <2>4
  <2>5. CASE o \in DOMAIN a.header /\ p \in DOMAIN a.header
    BY <1>1, <1>5, <2>5 DEF Apart
  <2>6. CASE o = at /\ p = at
    BY <1>2, <2>6
  <2> QED  BY <1>5, <2>3, <2>4, <2>5, <2>6
<1>10. Lists(b)
  BY <1>1, <1>3, <1>5 DEF Lists
<1>11. FreeBlocks(b) = FreeBlocks(a)
  BY <1>3 DEF FreeBlocks
<1>12. at \notin FreeBlocks(a)
  BY <1>1, <1>2, FreeBlocksAre DEF Lists
<1>13. WellFormed(b)
  BY <1>6, <1>7, <1>8, <1>9, <1>10 DEF WellFormed
<1>14. Sound(a, [arena |-> b, at |-> at], n)
  BY <1>2, <1>5, <1>11, <1>12, <1>13 DEF Sound, InUse
<1> QED  BY <1>14 DEF b, at

\* Growth moves the end of the buffer and nothing else.
LEMMA GrowthIsSound ==
  ASSUME NEW a, WellFormed(a), NEW needed \in Nat
  PROVE  /\ WellFormed(Grown(a, needed))
         /\ Grown(a, needed).bump = a.bump
         /\ Grown(a, needed).free = a.free
         /\ Grown(a, needed).header = a.header
<1> DEFINE b == Grown(a, needed)
<1>1. Typed(a) /\ Bounded(a)
  BY DEF WellFormed
<1>2. /\ b.bump = a.bump /\ b.free = a.free /\ b.header = a.header
      /\ b.bytes = Min({MaxByteLength, Max({2 * a.bytes, a.bytes + needed})})
      /\ b = [bump |-> b.bump, bytes |-> b.bytes, free |-> b.free, header |-> b.header]
  BY <1>1 DEF Typed, Grown
<1>3. a.bytes \in Nat /\ 2 * a.bytes \in Nat /\ a.bytes + needed \in Nat
  BY <1>1 DEF Typed
<1>4. b.bytes \in Nat /\ a.bytes <= b.bytes /\ b.bytes <= MaxByteLength
  <2>1. /\ Max({2 * a.bytes, a.bytes + needed}) \in Nat
        /\ Max({2 * a.bytes, a.bytes + needed}) >= a.bytes
    <3> DEFINE x == 2 * a.bytes
               y == a.bytes + needed
    <3>1. x \in Nat /\ y \in Nat /\ x >= a.bytes
      BY <1>3
    <3> HIDE DEF x, y
    <3>2. Max({x, y}) \in {x, y} /\ Max({x, y}) >= x
      BY <3>1, SmallerOf
    <3>3. Max({x, y}) \in Nat /\ Max({x, y}) >= a.bytes
      BY <1>3, <3>1, <3>2
    <3> QED  BY <3>3 DEF x, y
  <2>2. a.bytes <= MaxByteLength
    BY <1>1 DEF Bounded
  <2> QED  BY <1>2, <1>3, <2>1, <2>2, SmallerOf, BufferIs
<1> HIDE DEF b
<1>5. WellFormed(b)
  <2>1. Typed(b)
    BY <1>1, <1>2, <1>4 DEF Typed
  <2>2. Bounded(b)
    BY <1>1, <1>2, <1>3, <1>4 DEF Bounded, Typed
  <2> QED  BY <1>2, <2>1, <2>2 DEF WellFormed, Placement, Apart, Lists
<1> QED  BY <1>2, <1>5 DEF b

\* Out of fresh arena, a larger block is as good.
LEMMA ScavengeIsSound ==
  ASSUME NEW a, WellFormed(a), NEW n \in Nat, NEW i \in 0..18,
         i # SIZE_CLASS_EXACT => n <= SIZE_CLASSES[i]
  PROVE  Sound(a, Scavenge(a, i), n)
<1> DEFINE larger == {j \in Classes : i <= j /\ a.free[j] # <<>>}
           j      == CHOOSE j \in larger : \A k \in larger : j <= k
<1>1. CASE i = SIZE_CLASS_EXACT \/ larger = {}
  BY <1>1 DEF Scavenge, Sound
<1>2. CASE i # SIZE_CLASS_EXACT /\ larger # {}
  <2>1. j \in larger
    BY <1>2, LeastClass
  <2>2. i \in Classes /\ n <= SIZE_CLASSES[i]
    BY <1>2, ClassesAre DEF SIZE_CLASS_EXACT
  <2>3. Scavenge(a, i) = Pop(a, j)
    BY <1>2 DEF Scavenge
  <2> HIDE DEF j
  <2>4. n <= SIZE_CLASSES[j]
    <3>1. j \in Classes /\ i <= j
      BY <2>1
    <3>2. SIZE_CLASSES[i] <= SIZE_CLASSES[j]
      BY <2>2, <3>1, Increasing
    <3>3. SIZE_CLASSES[i] \in Nat /\ SIZE_CLASSES[j] \in Nat
      BY <2>2, <3>1, ClassSizes
    <3> QED  BY <2>2, <3>2, <3>3
  <2> QED  BY <2>1, <2>3, <2>4, PopIsSound
<1> QED  BY <1>1, <1>2

\* allocate returns a block nobody uses, large enough and apart from every other, or
\* none; whatever of the free lists, the bump pointer, the growth of the buffer and the
\* scavenging it comes from.
THEOREM AllocateIsSound ==
  ASSUME NEW a, WellFormed(a), NEW n \in Nat
  PROVE  Sound(a, allocate(a, n), n)
<1> DEFINE i       == classForSize(n)
           payload == a.bump + BLOCK_HEADER_BYTES
           size    == BlockBytes(n, i)
           b       == IF payload + size <= a.bytes THEN a
                      ELSE Grown(a, payload + size - a.bytes)
<1>1. Typed(a) /\ Bounded(a)
  BY DEF WellFormed
<1>2. /\ i \in 0..18
      /\ i # SIZE_CLASS_EXACT => i \in Classes /\ n <= SIZE_CLASSES[i]
  BY ClassOfSize
<1>3. /\ size \in Nat /\ size % 8 = 0 /\ n <= size
      /\ i # SIZE_CLASS_EXACT => size = SIZE_CLASSES[i]
  <2> HIDE DEF i
  <2>1. CASE i = SIZE_CLASS_EXACT
    BY <2>1, Aligned DEF BlockBytes
  <2>2. CASE i # SIZE_CLASS_EXACT
    <3>1. SIZE_CLASSES[i] \in Nat /\ SIZE_CLASSES[i] % 8 = 0
      BY <1>2, <2>2, ClassSizes
    <3> QED  BY <1>2, <2>2, <3>1 DEF BlockBytes
  <2> QED  BY <2>1, <2>2
<1>4. allocate(a, n) = IF i # SIZE_CLASS_EXACT /\ a.free[i] # <<>> THEN Pop(a, i)
                       ELSE Placed(b, payload, size, i)
  BY DEF allocate, FromClass, BumpAllocate
<1>5. CASE i # SIZE_CLASS_EXACT /\ a.free[i] # <<>>
  <2> HIDE DEF i
  <2> QED  BY <1>2, <1>4, <1>5, PopIsSound
<1>6. CASE ~(i # SIZE_CLASS_EXACT /\ a.free[i] # <<>>)
  <2>1. payload \in Nat /\ a.bytes \in Nat /\ payload = a.bump + BLOCK_HEADER_BYTES
    BY <1>1 DEF Typed, BLOCK_HEADER_BYTES
  <2> HIDE DEF i, payload, size
  <2>2. WellFormed(b) /\ b.bump = a.bump /\ b.free = a.free /\ b.header = a.header
    <3>1. CASE payload + size <= a.bytes
      BY <3>1
    <3>2. CASE ~(payload + size <= a.bytes)
      <4>1. payload + size - a.bytes \in Nat
        BY <1>3, <2>1, <3>2
      <4> QED  BY <3>2, <4>1, GrowthIsSound
    <3> QED  BY <3>1, <3>2
  <2> HIDE DEF b
  <2>3. Sound(b, Placed(b, payload, size, i), n)
    <3>1. CASE payload + size > b.bytes
      <4>1. Placed(b, payload, size, i) = Scavenge(b, i)
        BY <3>1 DEF Placed
      <4> QED  BY <1>2, <2>2, <4>1, ScavengeIsSound
    <3>2. CASE ~(payload + size > b.bytes)
      <4>1. b.bytes \in Nat
        BY <2>2 DEF WellFormed, Typed
      <4>2. payload = b.bump + BLOCK_HEADER_BYTES /\ payload + size <= b.bytes
        BY <1>3, <2>1, <2>2, <3>2, <4>1
      <4>3. Placed(b, payload, size, i)
              = [arena |-> [b EXCEPT !.bump = payload + size,
                                     !.header = With(@, payload,
                                                            [class |-> i, size |-> size])],
                 at |-> payload]
        BY <3>2 DEF Placed
      <4> QED  BY <1>2, <1>3, <2>2, <4>2, <4>3, FreshIsSound
    <3> QED  BY <3>1, <3>2
  <2>4. InUse(b) = InUse(a)
    BY <2>2 DEF InUse, FreeBlocks
  <2> QED  BY <1>4, <1>6, <2>2, <2>3, <2>4 DEF Sound
<1> QED  BY <1>5, <1>6

\* free gives back a block in use, and the arena stays well formed; a block of an exact
\* size stays in use for ever.
THEOREM FreeIsSound ==
  ASSUME NEW a, WellFormed(a), NEW at \in InUse(a)
  PROVE  /\ WellFormed(free(a, at))
         /\ InUse(free(a, at)) = InUse(a) \ ({at} \ Stranded(a))
<1> DEFINE i == a.header[at].class
           s == a.free[i]
           b == free(a, at)
<1>1. /\ Typed(a) /\ Lists(a) /\ Placement(a) /\ at \in DOMAIN a.header
      /\ at \notin FreeBlocks(a)
  BY DEF WellFormed, InUse
<1>2. CASE i = SIZE_CLASS_EXACT
  BY <1>1, <1>2 DEF free, Stranded
<1>3. CASE i # SIZE_CLASS_EXACT
  <2>1. i \in Classes /\ at \in Nat
    <3>1. a.header[at] \in Headers /\ at \in Nat
      BY <1>1 DEF Typed, Placement
    <3> QED  BY <1>3, <3>1, ClassesAre DEF Headers, SIZE_CLASS_EXACT
  <2>2. b = [a EXCEPT !.free[i] = Append(s, at)] /\ s = a.free[i] /\ s \in Seq(Nat)
    BY <1>1, <1>3, <2>1 DEF free, Typed
  <2>3. a.header[at].class = i /\ b = free(a, at)
    OBVIOUS
  <2> HIDE DEF i, s, b
  <2>4. /\ b.bump = a.bump /\ b.bytes = a.bytes /\ b.header = a.header
        /\ b.free = [a.free EXCEPT ![i] = Append(s, at)] /\ Typed(b)
    <3>1. Append(s, at) \in Seq(Nat)
      BY <2>1, <2>2
    <3> QED  BY <1>1, <2>1, <2>2, <3>1 DEF Typed
  <2>5. /\ b.free[i] = Append(s, at)
        /\ \A j \in Classes : j # i => b.free[j] = a.free[j]
    BY <1>1, <2>1, <2>4 DEF Typed
  <2>6. /\ Len(s) \in Nat /\ Len(b.free[i]) = Len(s) + 1
        /\ b.free[i][Len(s) + 1] = at
        /\ \A k \in 1..Len(s) : b.free[i][k] = s[k]
    BY <2>1, <2>2, <2>5
  <2>7. \A k \in 1..Len(s) :
          /\ s[k] \in DOMAIN a.header /\ a.header[s[k]].class = i /\ s[k] # at
          /\ \A l \in 1..Len(s) : s[k] = s[l] => k = l
    BY <1>1, <2>1, <2>2, FreeBlocksAre DEF Lists
  <2>8. Lists(b)
    <3> SUFFICES ASSUME NEW j \in Classes, NEW k \in 1..Len(b.free[j])
                 PROVE  /\ b.free[j][k] \in DOMAIN a.header
                        /\ a.header[b.free[j][k]].class = j
                        /\ \A l \in 1..Len(b.free[j]) :
                             b.free[j][k] = b.free[j][l] => k = l
      BY <2>4 DEF Lists
    <3>1. CASE j = i
      <4>1. \A l \in 1..Len(b.free[i]) : l \in 1..Len(s) \/ l = Len(s) + 1
        BY <2>6
      <4> QED  BY <1>1, <2>3, <2>6, <2>7, <3>1, <4>1
    <3>2. CASE j # i
      BY <1>1, <2>5, <3>2 DEF Lists
    <3> QED  BY <3>1, <3>2
  <2>9. WellFormed(b)
    BY <2>4, <2>8 DEF WellFormed, Bounded, Placement, Apart
  <2>10. Typed(b)
    BY <2>4
  <2>11. FreeBlocks(b) = FreeBlocks(a) \union {at}
    <3>1. ASSUME NEW o \in FreeBlocks(b), o # at PROVE o \in FreeBlocks(a)
      <4>1. PICK j \in Classes : \E k \in 1..Len(b.free[j]) : o = b.free[j][k]
        BY <2>10, <3>1, FreeBlocksAre
      <4>2. \E k \in 1..Len(a.free[j]) : o = a.free[j][k]
        <5>1. CASE j = i
          <6>1. PICK k \in 1..Len(b.free[i]) : o = b.free[i][k]
            BY <4>1, <5>1
          <6>2. k \in 1..Len(s) /\ o = s[k]
            BY <2>6, <3>1, <6>1
          <6> QED  BY <2>2, <5>1, <6>2
        <5>2. CASE j # i
          BY <2>5, <4>1, <5>2
        <5> QED  BY <5>1, <5>2
      <4> QED  BY <1>1, <4>2, FreeBlocksAre
    <3>2. ASSUME NEW o \in FreeBlocks(a) PROVE o \in FreeBlocks(b)
      <4>1. PICK j \in Classes : \E k \in 1..Len(a.free[j]) : o = a.free[j][k]
        BY <1>1, FreeBlocksAre
      <4>2. \E k \in 1..Len(b.free[j]) : o = b.free[j][k]
        <5>1. CASE j = i
          <6>1. PICK k \in 1..Len(s) : o = s[k]
            BY <2>2, <4>1, <5>1
          <6>2. k \in 1..Len(b.free[i]) /\ o = b.free[i][k]
            BY <2>6, <6>1
          <6> QED  BY <5>1, <6>2
        <5>2. CASE j # i
          BY <2>5, <4>1, <5>2
        <5> QED  BY <5>1, <5>2
      <4> QED  BY <2>10, <4>2, FreeBlocksAre
    <3>3. at \in FreeBlocks(b)
      <4>1. Len(s) + 1 \in 1..Len(b.free[i])
        BY <2>6
      <4> QED  BY <2>1, <2>6, <2>10, <4>1, FreeBlocksAre
    <3> QED  BY <3>1, <3>2, <3>3
  <2>12. at \notin Stranded(a)
    BY <1>3, <2>3 DEF Stranded, i
  <2> QED  BY <2>3, <2>4, <2>9, <2>11, <2>12 DEF InUse
<1> QED  BY <1>2, <1>3

-----------------------------------------------------------------------------
\* A set of numbers that is not empty has a least one.
LEMMA LeastElement ==
  ASSUME NEW T, T \subseteq Nat, T # {}
  PROVE  \E m \in T : \A n \in T : m <= n
<1> DEFINE R == OpToRel(<, Nat)
<1>1. \A x, y \in Nat : <<y, x>> \in R <=> y < x
  BY DEF OpToRel
<1>2. IsWellFoundedOn(R, Nat)
  BY NatLessThanWellFounded DEF R
<1> HIDE DEF R
<1>3. PICK m \in T : \A n \in T : ~ (<<n, m>> \in R)
  BY <1>2, WFMin
<1>4. ASSUME NEW n \in T PROVE m <= n
  <2>1. m \in Nat /\ n \in Nat
    OBVIOUS
  <2>2. ~(n < m)
    BY <1>1, <1>3, <2>1
  <2> QED  BY <2>1, <2>2
<1> QED  BY <1>4

\* Induction over a set of numbers.
LEMMA SetInduction ==
  ASSUME NEW S, 0 \in S, \A n \in Nat : n \in S => n + 1 \in S
  PROVE  Nat \subseteq S
<1> DEFINE T == Nat \ S
<1> SUFFICES ASSUME T # {} PROVE FALSE
  OBVIOUS
<1>1. PICK m \in T : \A n \in T : m <= n
  BY LeastElement
<1>2. m - 1 \in Nat /\ m - 1 \notin T
  BY <1>1
<1> QED  BY <1>1, <1>2

\* The loop over a journal has its states, one after each block.
LEMMA FreeAllLoop ==
  ASSUME NEW a, NEW s, NEW n \in Nat
  PROVE  \E F : F = [k \in 0..n |-> IF k = 0 THEN a ELSE free(F[k - 1], s[k])]
<1> DEFINE S == {m \in Nat :
             \E F : F = [k \in 0..m |-> IF k = 0 THEN a ELSE free(F[k - 1], s[k])]}
<1>1. 0 \in S
  <2> DEFINE F == [k \in 0..0 |-> a]
  <2>1. F = [k \in 0..0 |-> IF k = 0 THEN a ELSE free(F[k - 1], s[k])]
    OBVIOUS
  <2> HIDE DEF F
  <2> QED  BY <2>1
<1>2. ASSUME NEW m \in Nat, m \in S PROVE m + 1 \in S
  <2>1. PICK F : F = [k \in 0..m |-> IF k = 0 THEN a ELSE free(F[k - 1], s[k])]
    BY <1>2
  <2> DEFINE G == [k \in 0..(m + 1) |-> IF k = m + 1 THEN free(F[m], s[k]) ELSE F[k]]
  <2>2. ASSUME NEW k \in 0..(m + 1)
        PROVE  G[k] = IF k = 0 THEN a ELSE free(G[k - 1], s[k])
    <3>1. CASE k = m + 1
      BY <3>1
    <3>2. CASE k = 0
      BY <2>1, <3>2
    <3>3. CASE k \in 1..m
      <4>1. k - 1 \in 0..m /\ k \in 0..m /\ k # 0 /\ k # m + 1 /\ k - 1 # m + 1
        BY <3>3
      <4>2. G[k] = F[k] /\ G[k - 1] = F[k - 1]
        BY <4>1
      <4> QED  BY <2>1, <4>1, <4>2
    <3> QED  BY <3>1, <3>2, <3>3
  <2>3. G = [k \in 0..(m + 1) |-> IF k = 0 THEN a ELSE free(G[k - 1], s[k])]
    <3>1. G = [k \in 0..(m + 1) |-> G[k]]
      OBVIOUS
    <3> HIDE DEF G
    <3> QED  BY <2>2, <3>1
  <2> HIDE DEF G
  <2> QED  BY <2>3
<1>3. n \in S
  <2> HIDE DEF S
  <2> QED  BY <1>1, <1>2, SetInduction
<1> QED  BY <1>3

\* The arena after each turn of the loop.
FreedUpTo(a, s) ==
  CHOOSE F : F = [k \in 0..Len(s) |-> IF k = 0 THEN a ELSE free(F[k - 1], s[k])]

LEMMA FreeAllSteps ==
  ASSUME NEW a, NEW s, Len(s) \in Nat
  PROVE  /\ FreeAll(a, s) = FreedUpTo(a, s)[Len(s)]
         /\ FreedUpTo(a, s)[0] = a
         /\ \A k \in 1..Len(s) : FreedUpTo(a, s)[k] = free(FreedUpTo(a, s)[k - 1], s[k])
<1> DEFINE F == FreedUpTo(a, s)
<1>1. FreeAll(a, s) = F[Len(s)]
  BY DEF FreeAll, FreedUpTo
<1>2. F = [k \in 0..Len(s) |-> IF k = 0 THEN a ELSE free(F[k - 1], s[k])]
  BY FreeAllLoop DEF FreedUpTo
<1> HIDE DEF F
<1>3. F[0] = a
  BY <1>2
<1>4. ASSUME NEW k \in 1..Len(s) PROVE F[k] = free(F[k - 1], s[k])
  <2>1. k \in 0..Len(s) /\ k # 0
    OBVIOUS
  <2> QED  BY <1>2, <2>1
<1> QED  BY <1>1, <1>3, <1>4 DEF F

\* Freeing leaves the headers, the bump pointer and the length of the buffer as they are.
LEMMA FreeKeeps ==
  ASSUME NEW a, WellFormed(a), NEW at \in InUse(a)
  PROVE  /\ free(a, at).header = a.header
         /\ free(a, at).bump = a.bump
         /\ free(a, at).bytes = a.bytes
<1>1. Typed(a)
  BY DEF WellFormed
<1> QED  BY <1>1 DEF free, Typed

\* A journal is freed block by block: each one is in use until its turn comes, and the
\* blocks that have a class are free when the loop ends.
THEOREM FreeAllIsSound ==
  ASSUME NEW a, WellFormed(a), NEW s \in Seq(InUse(a)), IsInjective(s)
  PROVE  /\ WellFormed(FreeAll(a, s))
         /\ FreeAll(a, s).header = a.header
         /\ FreeAll(a, s).bump = a.bump
         /\ FreeAll(a, s).bytes = a.bytes
         /\ InUse(FreeAll(a, s)) = InUse(a) \ (ToSet(s) \ Stranded(a))
<1>1. Len(s) \in Nat /\ DOMAIN s = 1..Len(s) /\ \A k \in 1..Len(s) : s[k] \in InUse(a)
  OBVIOUS
<1> DEFINE F == FreedUpTo(a, s)
<1>2. /\ FreeAll(a, s) = F[Len(s)]
      /\ F[0] = a
      /\ \A k \in 1..Len(s) : F[k] = free(F[k - 1], s[k])
  BY <1>1, FreeAllSteps
<1> HIDE DEF F
<1> DEFINE Upto(k) == {s[j] : j \in 1..k}
           Good(k) == /\ WellFormed(F[k])
                      /\ F[k].header = a.header
                      /\ F[k].bump = a.bump
                      /\ F[k].bytes = a.bytes
                      /\ InUse(F[k]) = InUse(a) \ (Upto(k) \ Stranded(a))
           S == {k \in Nat : k <= Len(s) => Good(k)}
<1>3. Good(0)
  <2>1. Upto(0) = {}
    OBVIOUS
  <2> QED  BY <1>2, <2>1
<1>4. ASSUME NEW k \in Nat, k + 1 <= Len(s), Good(k) PROVE Good(k + 1)
  <2>1. /\ k + 1 \in 1..Len(s) /\ F[k + 1] = free(F[k], s[k + 1])
    <3>1. k + 1 \in 1..Len(s) /\ (k + 1) - 1 = k
      BY <1>1, <1>4
    <3> QED  BY <1>2, <3>1
  <2>2. s[k + 1] \notin Upto(k)
    <3>1. \A j \in 1..k : j \in DOMAIN s /\ k + 1 \in DOMAIN s /\ j # k + 1
      BY <1>1, <1>4
    <3> QED  BY <3>1 DEF IsInjective
  <2>3. s[k + 1] \in InUse(F[k])
    BY <1>1, <1>4, <2>1, <2>2
  <2>4. Stranded(F[k]) = Stranded(a)
    BY <1>4 DEF Stranded
  <2>5. Upto(k + 1) = Upto(k) \union {s[k + 1]}
    <3>1. 1..(k + 1) = (1..k) \union {k + 1}
      BY <1>4
    <3> QED  BY <3>1
  <2>6. /\ WellFormed(F[k + 1])
        /\ InUse(F[k + 1]) = InUse(F[k]) \ ({s[k + 1]} \ Stranded(F[k]))
    BY <1>4, <2>1, <2>3, FreeIsSound
  <2>7. /\ F[k + 1].header = a.header
        /\ F[k + 1].bump = a.bump
        /\ F[k + 1].bytes = a.bytes
    BY <1>4, <2>1, <2>3, FreeKeeps
  <2>8. InUse(F[k + 1]) = InUse(a) \ (Upto(k + 1) \ Stranded(a))
    <3> HIDE DEF Upto
    <3> QED  BY <1>4, <2>4, <2>5, <2>6
  <2> QED  BY <2>6, <2>7, <2>8
<1>5. Good(Len(s))
  <2> HIDE DEF Good
  <2>1. 0 \in S
    BY <1>3
  <2>2. \A k \in Nat : k \in S => k + 1 \in S
    BY <1>1, <1>4
  <2> HIDE DEF S
  <2>3. Len(s) \in S
    BY <1>1, <2>1, <2>2, SetInduction
  <2> QED  BY <1>1, <2>3 DEF S
<1>6. Upto(Len(s)) = ToSet(s)
  BY <1>1 DEF ToSet
<1> HIDE DEF Upto
<1> QED  BY <1>2, <1>5, <1>6

\* What KeepIn does with the next element of a sequence.
KeepStep(s, K, F, k) ==
  IF k = 0 THEN <<>> ELSE IF s[k] \in K THEN Append(F[k - 1], s[k]) ELSE F[k - 1]

\* The sequence with the elements of a set has its prefixes.
LEMMA KeepInLoop ==
  ASSUME NEW s, NEW K, NEW n \in Nat
  PROVE  \E F : F = [k \in 0..n |-> KeepStep(s, K, F, k)]
<1> DEFINE Step(F, k) == KeepStep(s, K, F, k)
           S == {m \in Nat : \E F : F = [k \in 0..m |-> Step(F, k)]}
<1>1. 0 \in S
  <2> DEFINE F == [k \in 0..0 |-> <<>>]
  <2>1. F = [k \in 0..0 |-> Step(F, k)]
    BY DEF KeepStep
  <2> HIDE DEF F
  <2> QED  BY <2>1
<1>2. ASSUME NEW m \in Nat, m \in S PROVE m + 1 \in S
  <2>1. PICK F : F = [k \in 0..m |-> Step(F, k)]
    BY <1>2
  <2> DEFINE L == IF s[m + 1] \in K THEN Append(F[m], s[m + 1]) ELSE F[m]
             G == [k \in 0..(m + 1) |-> IF k = m + 1 THEN L ELSE F[k]]
  <2>2. ASSUME NEW k \in 0..(m + 1) PROVE G[k] = Step(G, k)
    <3>1. CASE k = m + 1
      <4>1. G[k] = L /\ G[k - 1] = F[m] /\ k # 0
        BY <3>1
      <4> QED  BY <3>1, <4>1 DEF KeepStep
    <3>2. CASE k = 0
      BY <2>1, <3>2 DEF KeepStep
    <3>3. CASE k \in 1..m
      <4>1. k - 1 \in 0..m /\ k \in 0..m /\ k # 0 /\ k # m + 1 /\ k - 1 # m + 1
        BY <3>3
      <4>2. G[k] = F[k] /\ G[k - 1] = F[k - 1]
        BY <4>1
      <4> QED  BY <2>1, <4>1, <4>2 DEF KeepStep
    <3> QED  BY <3>1, <3>2, <3>3
  <2>3. G = [k \in 0..(m + 1) |-> Step(G, k)]
    <3>1. G = [k \in 0..(m + 1) |-> G[k]]
      OBVIOUS
    <3> HIDE DEF G
    <3> QED  BY <2>2, <3>1
  <2> HIDE DEF G
  <2>4. \E H : H = [k \in 0..(m + 1) |-> Step(H, k)]
    BY <2>3, Zenon
  <2> QED  BY <2>4
<1>3. n \in S
  <2> HIDE DEF S
  <2> QED  BY <1>1, <1>2, SetInduction
<1> QED  BY <1>3

\* The sequence after each turn of the loop.
KeptUpTo(s, K) == CHOOSE F : F = [k \in 0..Len(s) |-> KeepStep(s, K, F, k)]

LEMMA KeepInSteps ==
  ASSUME NEW s, NEW K, Len(s) \in Nat
  PROVE  /\ KeepIn(s, K) = KeptUpTo(s, K)[Len(s)]
         /\ KeptUpTo(s, K)[0] = <<>>
         /\ \A k \in 1..Len(s) :
              KeptUpTo(s, K)[k] = IF s[k] \in K THEN Append(KeptUpTo(s, K)[k - 1], s[k])
                                  ELSE KeptUpTo(s, K)[k - 1]
<1> DEFINE F == KeptUpTo(s, K)
<1>1. KeepIn(s, K) = F[Len(s)]
  BY DEF KeepIn, KeepStep, KeptUpTo
<1>2. F = [k \in 0..Len(s) |-> KeepStep(s, K, F, k)]
  BY KeepInLoop, Zenon DEF KeptUpTo
<1> HIDE DEF F
<1>3. F[0] = <<>>
  BY <1>2 DEF KeepStep
<1>4. ASSUME NEW k \in 1..Len(s)
      PROVE  F[k] = IF s[k] \in K THEN Append(F[k - 1], s[k]) ELSE F[k - 1]
  <2>1. k \in 0..Len(s) /\ k # 0
    OBVIOUS
  <2> QED  BY <1>2, <2>1 DEF KeepStep
<1> QED  BY <1>1, <1>3, <1>4 DEF F

\* One element more: what is in the sequence, and that it is there once.
LEMMA AppendedTo ==
  ASSUME NEW T, NEW q \in Seq(T), NEW x \in T
  PROVE  /\ Append(q, x) \in Seq(T)
         /\ ToSet(Append(q, x)) = ToSet(q) \union {x}
         /\ IsInjective(q) /\ x \notin ToSet(q) => IsInjective(Append(q, x))
<1> DEFINE r == Append(q, x)
<1>1. /\ r \in Seq(T) /\ Len(q) \in Nat /\ Len(r) = Len(q) + 1
      /\ DOMAIN r = 1..(Len(q) + 1) /\ DOMAIN q = 1..Len(q)
      /\ r[Len(q) + 1] = x
      /\ \A k \in 1..Len(q) : r[k] = q[k]
  OBVIOUS
<1> HIDE DEF r
<1>2. ToSet(r) = ToSet(q) \union {x}
  <2>1. ToSet(r) = {r[k] : k \in 1..(Len(q) + 1)}
    BY <1>1 DEF ToSet
  <2>2. ToSet(q) = {q[k] : k \in 1..Len(q)}
    BY <1>1 DEF ToSet
  <2>3. \A k \in 1..(Len(q) + 1) : k \in 1..Len(q) \/ k = Len(q) + 1
    BY <1>1
  <2>4. Len(q) + 1 \in 1..(Len(q) + 1) /\ \A k \in 1..Len(q) : k \in 1..(Len(q) + 1)
    BY <1>1
  <2> QED  BY <1>1, <2>1, <2>2, <2>3, <2>4
<1>3. ASSUME IsInjective(q), x \notin ToSet(q) PROVE IsInjective(r)
  <2>1. \A k \in 1..Len(q) : q[k] # x
    BY <1>1, <1>3 DEF ToSet
  <2>2. \A k \in 1..(Len(q) + 1) : k \in 1..Len(q) \/ k = Len(q) + 1
    BY <1>1
  <2> QED  BY <1>1, <1>3, <2>1, <2>2 DEF IsInjective
<1> QED  BY <1>1, <1>2, <1>3 DEF r

\* KeepIn keeps what is in the set and no more, each as often as it was there once.
LEMMA KeepInIs ==
  ASSUME NEW T, NEW s \in Seq(T), NEW K
  PROVE  /\ KeepIn(s, K) \in Seq(T)
         /\ ToSet(KeepIn(s, K)) = ToSet(s) \cap K
         /\ IsInjective(s) => IsInjective(KeepIn(s, K))
<1>1. Len(s) \in Nat /\ DOMAIN s = 1..Len(s) /\ \A k \in 1..Len(s) : s[k] \in T
  OBVIOUS
<1> DEFINE F == KeptUpTo(s, K)
<1>2. /\ KeepIn(s, K) = F[Len(s)]
      /\ F[0] = <<>>
      /\ \A k \in 1..Len(s) :
           F[k] = IF s[k] \in K THEN Append(F[k - 1], s[k]) ELSE F[k - 1]
  BY <1>1, KeepInSteps
<1> HIDE DEF F
<1> DEFINE Upto(k) == {s[j] : j \in 1..k}
           Good(k) == /\ F[k] \in Seq(T)
                      /\ ToSet(F[k]) = Upto(k) \cap K
                      /\ IsInjective(s) => IsInjective(F[k])
           S == {k \in Nat : k <= Len(s) => Good(k)}
<1>3. Good(0)
  <2>1. Upto(0) = {} /\ ToSet(<<>>) = {} /\ <<>> \in Seq(T) /\ IsInjective(<<>>)
    BY DEF ToSet, IsInjective
  <2> QED  BY <1>2, <2>1
<1>4. ASSUME NEW k \in Nat, k + 1 <= Len(s), Good(k) PROVE Good(k + 1)
  <2> DEFINE x == s[k + 1]
  <2>1. /\ k + 1 \in 1..Len(s) /\ x \in T
        /\ F[k + 1] = IF x \in K THEN Append(F[k], x) ELSE F[k]
    <3>1. k + 1 \in 1..Len(s) /\ (k + 1) - 1 = k
      BY <1>1, <1>4
    <3> QED  BY <1>1, <1>2, <3>1
  <2>2. Upto(k + 1) = Upto(k) \union {x}
    <3>1. 1..(k + 1) = (1..k) \union {k + 1}
      BY <1>4
    <3> QED  BY <3>1
  <2>3. ASSUME IsInjective(s) PROVE x \notin Upto(k)
    <3>1. \A j \in 1..k : j \in DOMAIN s /\ k + 1 \in DOMAIN s /\ j # k + 1
      BY <1>1, <1>4
    <3> QED  BY <2>3, <3>1 DEF IsInjective
  <2> HIDE DEF x, Upto
  <2>4. CASE x \in K
    BY <1>4, <2>1, <2>2, <2>3, <2>4, AppendedTo
  <2>5. CASE x \notin K
    BY <1>4, <2>1, <2>2, <2>5
  <2> QED  BY <2>4, <2>5
<1>5. Good(Len(s))
  <2> HIDE DEF Good
  <2>1. 0 \in S
    BY <1>3
  <2>2. \A k \in Nat : k \in S => k + 1 \in S
    BY <1>1, <1>4
  <2> HIDE DEF S
  <2>3. Len(s) \in S
    BY <1>1, <2>1, <2>2, SetInduction
  <2> QED  BY <1>1, <2>3 DEF S
<1>6. Upto(Len(s)) = ToSet(s)
  BY <1>1 DEF ToSet
<1> HIDE DEF Upto
<1> QED  BY <1>2, <1>5, <1>6

\* A well-formed arena, taken from a to b and then back to where a was: the blocks and the
\* headers of a are there again, and of them those are in use that b had in use.
THEOREM RewindIsSound ==
  ASSUME NEW a, WellFormed(a), NEW b, WellFormed(b), Grows(a, b)
  PROVE  LET d == rewindTo(b, a.bump)
         IN /\ WellFormed(d)
            /\ d.bump = a.bump
            /\ d.header = a.header
            /\ InUse(d) = InUse(b) \cap DOMAIN a.header
<1> DEFINE d == rewindTo(b, a.bump)
<1>1. /\ Typed(a) /\ Bounded(a) /\ Placement(a) /\ Apart(a) /\ Lists(a)
      /\ Typed(b) /\ Bounded(b) /\ Placement(b) /\ Apart(b) /\ Lists(b)
  BY DEF WellFormed
<1>2. /\ a.bump \in Nat /\ b.bump \in Nat /\ a.bump <= b.bump
      /\ b.bytes \in Nat /\ a.bytes \in Nat
      /\ a.header = [o \in DOMAIN a.header |-> a.header[o]]
      /\ b.header = [o \in DOMAIN b.header |-> b.header[o]]
  BY <1>1 DEF Typed, Grows
<1>3. /\ DOMAIN a.header \subseteq DOMAIN b.header
      /\ \A o \in DOMAIN a.header : b.header[o] = a.header[o]
      /\ \A o \in DOMAIN b.header \ DOMAIN a.header : a.bump + 8 <= o
  BY DEF Grows, BLOCK_HEADER_BYTES
<1>4. /\ \A o \in DOMAIN a.header : o \in Nat /\ o <= a.bump
      /\ \A o \in DOMAIN b.header : o \in Nat /\ o <= b.bump
  <2>1. \A o \in DOMAIN a.header : a.header[o].size \in Nat
    BY <1>1 DEF Typed, Headers
  <2>2. \A o \in DOMAIN b.header : b.header[o].size \in Nat
    BY <1>1 DEF Typed, Headers
  <2>3. \A o \in DOMAIN a.header : o \in Nat /\ o + a.header[o].size <= a.bump
    BY <1>1 DEF Placement
  <2>4. \A o \in DOMAIN b.header : o \in Nat /\ o + b.header[o].size <= b.bump
    BY <1>1 DEF Placement
  <2> QED  BY <1>2, <2>1, <2>2, <2>3, <2>4
<1>5. CASE a.bump >= b.bump
  <2>1. a.bump = b.bump /\ d = b
    BY <1>2, <1>5 DEF rewindTo
  <2>2. DOMAIN b.header = DOMAIN a.header
    BY <1>2, <1>3, <1>4, <2>1
  <2>3. b.header = a.header
    BY <1>2, <1>3, <2>2
  <2>4. InUse(b) \subseteq DOMAIN b.header
    BY DEF InUse
  <2> QED  BY <2>1, <2>2, <2>3, <2>4
<1>6. CASE ~(a.bump >= b.bump)
  <2>1. Below(b, a.bump) = DOMAIN a.header
    <3>1. \A o \in DOMAIN a.header : o - 8 < a.bump
      BY <1>2, <1>4
    <3>2. \A o \in DOMAIN b.header \ DOMAIN a.header : ~(o - 8 < a.bump)
      BY <1>2, <1>3, <1>4
    <3> QED  BY <1>3, <3>1, <3>2 DEF Below, BLOCK_HEADER_BYTES
  <2>2. /\ d.bump = a.bump
        /\ d.bytes = b.bytes
        /\ d.free = [i \in Classes |-> KeepIn(b.free[i], DOMAIN a.header)]
        /\ d.header = Restrict(b.header, DOMAIN a.header)
        /\ d = [bump |-> d.bump, bytes |-> d.bytes, free |-> d.free, header |-> d.header]
    BY <1>1, <1>6, <2>1 DEF rewindTo, Typed
  <2> HIDE DEF d
  <2>3. d.header = a.header
    BY <1>2, <1>3, <2>2 DEF Restrict
  <2>4. ASSUME NEW i \in Classes
        PROVE  /\ d.free[i] \in Seq(Nat)
               /\ ToSet(d.free[i]) = ToSet(b.free[i]) \cap DOMAIN a.header
               /\ IsInjective(d.free[i])
    <3>1. b.free[i] \in Seq(Nat) /\ d.free[i] = KeepIn(b.free[i], DOMAIN a.header)
      BY <1>1, <2>2 DEF Typed
    <3>2. IsInjective(b.free[i])
      <4>1. DOMAIN b.free[i] = 1..Len(b.free[i])
        BY <3>1
      <4> QED  BY <1>1, <4>1 DEF Lists, IsInjective
    <3> QED  BY <3>1, <3>2, KeepInIs
  <2>5. Typed(d)
    <3>1. d.free \in [Classes -> Seq(Nat)]
      BY <2>2, <2>4
    <3>2. d.header \in [DOMAIN d.header -> Headers]
      BY <1>1, <2>3 DEF Typed
    <3> QED  BY <1>2, <2>2, <3>1, <3>2 DEF Typed
  <2>6. Bounded(d)
    BY <1>1, <1>2, <2>2, BufferIs DEF Bounded
  <2>7. Placement(d) /\ Apart(d)
    BY <1>1, <2>2, <2>3 DEF Placement, Apart
  <2>8. Lists(d)
    <3> SUFFICES ASSUME NEW i \in Classes, NEW k \in 1..Len(d.free[i])
                 PROVE  /\ d.free[i][k] \in DOMAIN d.header
                        /\ d.header[d.free[i][k]].class = i
                        /\ \A l \in 1..Len(d.free[i]) :
                             d.free[i][k] = d.free[i][l] => k = l
      BY DEF Lists
    <3>1. DOMAIN d.free[i] = 1..Len(d.free[i]) /\ d.free[i][k] \in ToSet(d.free[i])
      BY <2>4 DEF ToSet
    <3>2. d.free[i][k] \in ToSet(b.free[i]) /\ d.free[i][k] \in DOMAIN a.header
      BY <2>4, <3>1
    <3>3. PICK l \in 1..Len(b.free[i]) : d.free[i][k] = b.free[i][l]
      <4>1. DOMAIN b.free[i] = 1..Len(b.free[i])
        BY <1>1 DEF Typed
      <4> QED  BY <3>2, <4>1 DEF ToSet
    <3>4. b.header[b.free[i][l]].class = i
      BY <1>1 DEF Lists
    <3> QED  BY <1>3, <2>3, <2>4, <3>1, <3>2, <3>3, <3>4 DEF IsInjective
  <2>9. FreeBlocks(d) = FreeBlocks(b) \cap DOMAIN a.header
    BY <2>4 DEF FreeBlocks
  <2>10. InUse(d) = InUse(b) \cap DOMAIN a.header
    BY <1>3, <2>3, <2>9 DEF InUse
  <2> QED  BY <2>2, <2>3, <2>5, <2>6, <2>7, <2>8, <2>10 DEF WellFormed, d
<1> QED  BY <1>2, <1>5, <1>6

\* An arena whose blocks are those of another is not taken further.
LEMMA SameBlocksGrow ==
  ASSUME NEW a, NEW b, b.header = a.header, b.bump = a.bump, a.bump \in Nat
  PROVE  Grows(a, b)
BY DEF Grows

LEMMA ScavengeKeeps ==
  ASSUME NEW a, Typed(a), NEW i
  PROVE  /\ Scavenge(a, i).arena.header = a.header
         /\ Scavenge(a, i).arena.bump = a.bump
<1> DEFINE larger == {j \in Classes : i <= j /\ a.free[j] # <<>>}
           j      == CHOOSE j \in larger : \A k \in larger : j <= k
<1>1. \A k : Pop(a, k).arena.header = a.header /\ Pop(a, k).arena.bump = a.bump
  BY DEF Pop, Typed
<1>2. CASE i = SIZE_CLASS_EXACT \/ larger = {}
  BY <1>2 DEF Scavenge
<1>3. CASE ~(i = SIZE_CLASS_EXACT \/ larger = {})
  <2>1. Scavenge(a, i) = Pop(a, j)
    BY <1>3 DEF Scavenge
  <2> HIDE DEF j
  <2> QED  BY <1>1, <2>1
<1> QED  BY <1>2, <1>3

\* A request leaves the blocks there are where they are; a block it adds lies past them all.
THEOREM AllocateGrows ==
  ASSUME NEW a, WellFormed(a), NEW n \in Nat
  PROVE  /\ Grows(a, allocate(a, n).arena)
         /\ DOMAIN allocate(a, n).arena.header
              \subseteq DOMAIN a.header \union {allocate(a, n).at}
<1> DEFINE i       == classForSize(n)
           payload == a.bump + BLOCK_HEADER_BYTES
           size    == BlockBytes(n, i)
           b       == IF payload + size <= a.bytes THEN a
                      ELSE Grown(a, payload + size - a.bytes)
<1>1. Typed(a) /\ a.bump \in Nat /\ a.bytes \in Nat
  BY DEF WellFormed, Typed
<1>2. i \in 0..18 /\ size \in Nat
  <2>1. i \in 0..18 /\ (i # SIZE_CLASS_EXACT => i \in Classes)
    BY ClassOfSize
  <2>2. align(n) \in Nat
    BY Aligned
  <2> HIDE DEF i
  <2> QED  BY <2>1, <2>2, ClassSizes DEF BlockBytes
<1> HIDE DEF i, size
<1>3. CASE i # SIZE_CLASS_EXACT /\ a.free[i] # <<>>
  <2>1. allocate(a, n) = Pop(a, i)
    BY <1>3 DEF allocate, FromClass, i
  <2>2. Pop(a, i).arena.header = a.header /\ Pop(a, i).arena.bump = a.bump
    BY <1>1 DEF Pop, Typed
  <2> QED  BY <1>1, <2>1, <2>2, SameBlocksGrow
<1>4. CASE ~(i # SIZE_CLASS_EXACT /\ a.free[i] # <<>>)
  <2>1. allocate(a, n) = Placed(b, payload, size, i)
    BY <1>4 DEF allocate, FromClass, BumpAllocate, i, size
  <2>2. Typed(b) /\ b.header = a.header /\ b.bump = a.bump
    <3>1. CASE payload + size <= a.bytes
      BY <1>1, <3>1
    <3>2. CASE ~(payload + size <= a.bytes)
      <4>1. payload + size - a.bytes \in Nat
        BY <1>1, <1>2, <3>2 DEF BLOCK_HEADER_BYTES
      <4> QED  BY <3>2, <4>1, GrowthIsSound DEF WellFormed
    <3> QED  BY <3>1, <3>2
  <2> HIDE DEF b
  <2>3. CASE payload + size > b.bytes
    <3>1. allocate(a, n) = Scavenge(b, i)
      BY <2>1, <2>3 DEF Placed
    <3> QED  BY <1>1, <2>2, <3>1, ScavengeKeeps, SameBlocksGrow
  <2>4. CASE ~(payload + size > b.bytes)
    <3> DEFINE words == [class |-> i, size |-> size]
               c     == allocate(a, n).arena
    <3>1. c = [b EXCEPT !.bump = payload + size, !.header = With(@, payload, words)]
      BY <2>1, <2>4 DEF Placed
    <3> HIDE DEF c
    <3>2. c.bump = payload + size /\ c.header = With(a.header, payload, words)
      BY <2>2, <3>1 DEF Typed
    <3>3. allocate(a, n).at = payload
      BY <2>1, <2>4 DEF Placed
    <3>4. payload \notin DOMAIN a.header
      <4>1. \A o \in DOMAIN a.header : o \in Nat /\ a.header[o].size \in Nat
                                         /\ o + a.header[o].size <= a.bump
        BY <1>1 DEF WellFormed, Placement, Typed, Headers
      <4> QED  BY <1>1, <4>1 DEF BLOCK_HEADER_BYTES
    <3>5. /\ DOMAIN c.header = DOMAIN a.header \union {payload}
          /\ \A o \in DOMAIN a.header : c.header[o] = a.header[o]
      BY <3>2, <3>4 DEF With
    <3>6. a.bump <= c.bump
      BY <1>1, <1>2, <3>2 DEF BLOCK_HEADER_BYTES
    <3>7. \A o \in DOMAIN c.header \ DOMAIN a.header : a.bump + BLOCK_HEADER_BYTES <= o
      BY <1>1, <3>5 DEF BLOCK_HEADER_BYTES
    <3> QED  BY <3>3, <3>5, <3>6, <3>7 DEF Grows, c
  <2> QED  BY <2>3, <2>4
<1> QED  BY <1>3, <1>4

\* What is taken further twice is taken further.
LEMMA GrowthIsTransitive ==
  ASSUME NEW a, NEW b, NEW c, Grows(a, b), Grows(b, c),
         a.bump \in Nat, b.bump \in Nat, c.bump \in Nat,
         DOMAIN c.header \subseteq Nat
  PROVE  Grows(a, c)
BY DEF Grows, BLOCK_HEADER_BYTES

\* The list of a class has the blocks of the class that are not in use.
LEMMA FreeOfClass ==
  ASSUME NEW a, WellFormed(a), NEW i \in Classes
  PROVE  ToSet(a.free[i]) = {o \in DOMAIN a.header \ InUse(a) : a.header[o].class = i}
<1>1. Typed(a) /\ Lists(a)
  BY DEF WellFormed
<1>2. \A j \in Classes : \A o : o \in ToSet(a.free[j]) <=>
        \E k \in 1..Len(a.free[j]) : o = a.free[j][k]
  BY <1>1 DEF Typed, ToSet
<1>3. ASSUME NEW o \in ToSet(a.free[i])
      PROVE  o \in DOMAIN a.header /\ o \notin InUse(a) /\ a.header[o].class = i
  <2>1. o \in DOMAIN a.header /\ a.header[o].class = i
    BY <1>1, <1>2 DEF Lists
  <2>2. o \in FreeBlocks(a)
    BY DEF FreeBlocks
  <2> QED  BY <2>1, <2>2 DEF InUse
<1>4. ASSUME NEW o \in DOMAIN a.header, o \notin InUse(a), a.header[o].class = i
      PROVE  o \in ToSet(a.free[i])
  <2>1. o \in FreeBlocks(a)
    BY <1>4 DEF InUse
  <2>2. PICK j \in Classes : \E k \in 1..Len(a.free[j]) : o = a.free[j][k]
    BY <1>1, <2>1, FreeBlocksAre
  <2>3. a.header[o].class = j
    BY <1>1, <2>2 DEF Lists
  <2> QED  BY <1>2, <1>4, <2>2, <2>3
<1> QED  BY <1>3, <1>4

-----------------------------------------------------------------------------
\* An allocator that serves any requests, in any order.
VARIABLE arena

Serving ==
  /\ arena = EmptyArena
  /\ [][\/ \E n \in Nat : arena' = allocate(arena, n).arena
        \/ \E at \in InUse(arena) : arena' = free(arena, at)]_arena

\* The blocks of an arena never overlap, and its free lists name blocks of their class
\* that nobody uses, each once, whatever is allocated and freed and in whatever order.
THEOREM ServingIsWellFormed == Serving => []WellFormed(arena)
<1>1. arena = EmptyArena => WellFormed(arena)
  BY EmptyIsWellFormed
<1>2. ASSUME WellFormed(arena),
             [\/ \E n \in Nat : arena' = allocate(arena, n).arena
              \/ \E at \in InUse(arena) : arena' = free(arena, at)]_arena
      PROVE  WellFormed(arena)'
  <2>1. CASE UNCHANGED arena
    BY <1>2, <2>1 DEF WellFormed, Typed, Bounded, Placement, Apart, Lists
  <2>2. ASSUME NEW n \in Nat, arena' = allocate(arena, n).arena
        PROVE  WellFormed(arena')
    BY <1>2, <2>2, AllocateIsSound DEF Sound
  <2>3. ASSUME NEW at \in InUse(arena), arena' = free(arena, at)
        PROVE  WellFormed(arena')
    BY <1>2, <2>3, FreeIsSound
  <2> QED  BY <1>2, <2>1, <2>2, <2>3
<1> QED  BY <1>1, <1>2, PTL DEF Serving
=============================================================================
