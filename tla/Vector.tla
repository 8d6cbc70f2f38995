------------------------------- MODULE Vector -------------------------------
(***************************************************************************)
(* The persistent vector of vector.ts: the nodes behind arrays.  A header  *)
(* names a trie of full leaves and the tail, the leaf of the last          *)
(* elements; shift counts the bits consumed above the leaves, so that a    *)
(* trie of a single leaf has shift 0.                                      *)
(*                                                                         *)
(* The recursions of the code go down a path and write on the way up.      *)
(* Here the path is read first, a function of the level with the leaf at   *)
(* 0, and then the levels are written, the lowest first.  The code         *)
(* allocates a node before or after the ones below it, which tells in the  *)
(* addresses alone.                                                        *)
(***************************************************************************)
EXTENDS Trie

EMPTY_VECTOR == 0

Header(count, shift, root, tail) ==
  [kind |-> "Vector", count |-> count, shift |-> shift, root |-> root, tail |-> tail]
Leaf(slots)    == [kind |-> "Leaf", slots |-> slots]
Node(children) == [kind |-> "Node", children |-> children]

\* Five words for a header; two, and two for a slot or one for a child.
VectorBytes(n) ==
  CASE n.kind = "Vector" -> 5 * WORD
    [] n.kind = "Leaf"   -> WORD * (2 + 2 * Len(n.slots))
    [] n.kind = "Node"   -> WORD * (2 + Len(n.children))

AllocPart(c, n)         == AllocBlock(c, VectorBytes(n), n)
ReplacePart(c, node, n) == Replace(c, node, VectorBytes(n), n)
emptyVector(c)          == AllocPart(c, Header(0, BITS, 0, 0))

tailOffset(count) == IF count = 0 THEN 0 ELSE count - 1 - ((count - 1) % WIDTH)

\* Where the walk to an index goes on from a node of a level, NoBlock when it leaves it.
ChildOf(n, index, level) ==
  LET place == fragment(index, BITS * level) + 1
  IN IF n.kind # "Node" THEN NoBlock
     ELSE IF place > Len(n.children) THEN NoBlock ELSE n.children[place]

\* The blocks of the walk, by their level.
Path(h, root, top, index) ==
  LET at[k \in 0..top] ==
        IF k = top THEN root
        ELSE Then(at[k + 1], LAMBDA above :
               IF above = NoBlock THEN NoBlock ELSE ChildOf(Load(h, above), index, k + 1))
  IN at

\* The leaf that holds an index of the vector, NoBlock when the walk leaves a node.
leafFor(h, v, index) ==
  IF index >= tailOffset(v.count) THEN v.tail
  ELSE Path(h, v.root, v.shift \div BITS, index)[0]

SlotIn(leaf, within) ==
  IF leaf.kind # "Leaf" THEN Corrupt
  ELSE IF within \notin DOMAIN leaf.slots THEN Corrupt ELSE leaf.slots[within]

vectorGet(h, vector, index) ==
  IF vector = EMPTY_VECTOR THEN Absent
  ELSE Then(Load(h, vector), LAMBDA v :
         IF v.kind # "Vector" THEN Corrupt
         ELSE IF index >= v.count THEN Absent
         ELSE SlotIn(Load(h, leafFor(h, v, index)), fragment(index, 0) + 1))

vectorLength(h, vector) ==
  IF vector # EMPTY_VECTOR /\ Load(h, vector).kind = "Vector" THEN h[vector].count ELSE 0

vectorSlots(h, vector) ==
  IF vector # EMPTY_VECTOR /\ Load(h, vector).kind # "Vector" THEN <<Corrupt>>
  ELSE [i \in 1..vectorLength(h, vector) |-> vectorGet(h, vector, i - 1)]

-----------------------------------------------------------------------------
CopyWith(c, leaf, n, within, elem) ==
  IF n.kind # "Leaf" THEN [ctx |-> Fail(c, "ArenaCorrupt"), at |-> leaf]
  ELSE ReplacePart(c, leaf, Leaf([n.slots EXCEPT ![within + 1] = elem]))
copyLeafWith(c, leaf, within, elem) == CopyWith(c, leaf, Load(c.heap, leaf), within, elem)

\* An element put in a place of a sequence: one it has, or the next.
Put(s, i, x) ==
  [j \in 1..(IF i > Len(s) THEN i ELSE Len(s)) |-> IF j = i THEN x ELSE s[j]]

\* The copy of a node with a child put in its place.
PutChild(below, node, n, i) ==
  IF n.kind # "Node" THEN [ctx |-> Fail(below.ctx, "ArenaCorrupt"), at |-> node]
  ELSE ReplacePart(below.ctx, node, Node(Put(n.children, i, below.at)))

\* The level above a block that was written: the node of the path is copied with the
\* block in its place, and where there is none yet, one is made with this one child.
Above(below, node, i) ==
  IF node = NoBlock THEN AllocPart(below.ctx, Node(<<below.at>>))
  ELSE PutChild(below, node, Load(below.ctx.heap, node), i)

\* The levels of a path, from the lowest up.
WriteUp(got, path, top, index) ==
  LET up[k \in 0..top] ==
        IF k = 0 THEN got
        ELSE Then(up[k - 1], LAMBDA below :
               Above(below, path[k], fragment(index, BITS * k) + 1))
  IN up

assocInTrie(c, node, shift, index, elem) ==
  LET top  == shift \div BITS
      path == Path(c.heap, node, top, index)
  IN WriteUp(copyLeafWith(c, path[0], fragment(index, 0), elem), path, top, index)[top]

\* Mutant: the header that was replaced is not retired.
MutantvectorAssoc(c, vector, index, elem) ==
  LET v == Load(c.heap, vector)
  IN IF index >= tailOffset(v.count)
     THEN Then(copyLeafWith(c, v.tail, index - tailOffset(v.count), elem),
               LAMBDA tail : AllocPart(tail.ctx, [v EXCEPT !.tail = tail.at]))
     ELSE Then(assocInTrie(c, v.root, v.shift, index, elem),
               LAMBDA root : AllocPart(root.ctx, [v EXCEPT !.root = root.at]))

\* One element replaced: the path to it is copied and nothing else.
vectorAssoc(c, vector, index, elem) ==
  Then(Load(c.heap, vector), LAMBDA v :
    IF v.kind # "Vector" THEN [ctx |-> Fail(c, "ArenaCorrupt"), at |-> vector]
    ELSE IF index >= v.count THEN [ctx |-> Fail(c, "RangeError"), at |-> vector]
    ELSE IF index >= tailOffset(v.count)
      THEN Then(copyLeafWith(c, v.tail, index - tailOffset(v.count), elem),
                LAMBDA tail : ReplacePart(tail.ctx, vector, [v EXCEPT !.tail = tail.at]))
    ELSE Then(assocInTrie(c, v.root, v.shift, index, elem),
              LAMBDA root : ReplacePart(root.ctx, vector, [v EXCEPT !.root = root.at])))

-----------------------------------------------------------------------------
\* A chain of nodes with one child each, down to the leaf.
newPath(c, shift, leaf) ==
  LET top == shift \div BITS
  IN WriteUp([ctx |-> c, at |-> leaf], [k \in 0..top |-> NoBlock], top, 0)[top]

\* A leaf gets the place after the last.
pushLeaf(c, node, shift, count, leaf) ==
  LET top == shift \div BITS
  IN WriteUp([ctx |-> c, at |-> leaf], Path(c.heap, node, top, count - 1),
             top, count - 1)[top]

Rooted(got, shift) == [ctx |-> got.ctx, at |-> got.at, shift |-> shift]

\* Mutant: the trie is taken to be full one leaf too late.
MutantGrowTrie(c, v) ==
  IF v.root = 0 THEN [ctx |-> c, at |-> v.tail, shift |-> 0]
  ELSE IF v.count \div WIDTH > Power[v.shift] + 1
    THEN Then(newPath(c, v.shift, v.tail), LAMBDA path :
           Rooted(AllocPart(path.ctx, Node(<<v.root, path.at>>)), v.shift + BITS))
  ELSE Rooted(pushLeaf(c, v.root, v.shift, v.count, v.tail), v.shift)

\* The tail of the longer vector, and the trie when the old tail moves into it: the
\* trie is that leaf, or gains it, under a new root when it is full.
PushTail(c, v, elem, room) ==
  IF room THEN ReplacePart(c, v.tail, Leaf(Append(c.heap[v.tail].slots, elem)))
  ELSE AllocPart(c, Leaf(<<elem>>))

GrowTrie(c, v) ==
  IF v.root = 0 THEN [ctx |-> c, at |-> v.tail, shift |-> 0]
  ELSE IF v.count \div WIDTH > Power[v.shift]
    THEN Then(newPath(c, v.shift, v.tail), LAMBDA path :
           Rooted(AllocPart(path.ctx, Node(<<v.root, path.at>>)), v.shift + BITS))
  ELSE Rooted(pushLeaf(c, v.root, v.shift, v.count, v.tail), v.shift)

\* One element appended: to the tail, or to a new one once it is full.
vectorPush(c, vector, elem) ==
  LET v    == Load(c.heap, vector)
      room == v.kind = "Vector" /\ v.count > 0 /\ v.count - tailOffset(v.count) < WIDTH
  IN IF v.kind # "Vector" THEN [ctx |-> Fail(c, "ArenaCorrupt"), at |-> vector]
     ELSE Then(PushTail(c, v, elem, room), LAMBDA tail :
       IF v.count = 0 THEN ReplacePart(tail.ctx, vector, Header(1, BITS, 0, tail.at))
       ELSE IF room
         THEN ReplacePart(tail.ctx, vector, [v EXCEPT !.count = @ + 1, !.tail = tail.at])
       ELSE Then(GrowTrie(tail.ctx, v), LAMBDA trie :
              ReplacePart(trie.ctx, vector,
                          Header(v.count + 1, trie.shift, trie.at, tail.at))))

-----------------------------------------------------------------------------
\* The consecutive groups of WIDTH elements of a sequence.
Group(s, i) ==
  SubSeq(s, (i - 1) * WIDTH + 1, IF i * WIDTH < Len(s) THEN i * WIDTH ELSE Len(s))
Groups(s) == [i \in 1..((Len(s) + WIDTH - 1) \div WIDTH) |-> Group(s, i)]

AllocEach(c, parts) ==
  LET built[k \in 0..Len(parts)] ==
        IF k = 0 THEN [ctx |-> c, at |-> <<>>]
        ELSE Then(built[k - 1], LAMBDA before :
               Then(AllocPart(before.ctx, parts[k]), LAMBDA got :
                 [ctx |-> got.ctx, at |-> Append(before.at, got.at)]))
  IN built[Len(parts)]

AllocLevel(c, s, Part(_)) == AllocEach(c, [i \in DOMAIN Groups(s) |-> Part(Groups(s)[i])])

\* Parents over a level of the trie, until one node is left: fewer turns than nodes.
Parents(r) ==
  Then(AllocLevel(r.ctx, r.level, Node), LAMBDA parents :
    [ctx |-> parents.ctx, level |-> parents.at, shift |-> r.shift + BITS])

Raise(c, level) ==
  LET raised[k \in 0..Len(level)] ==
        IF k = 0 THEN [ctx |-> c, level |-> level, shift |-> 0]
        ELSE Then(raised[k - 1], LAMBDA r : IF Len(r.level) = 1 THEN r ELSE Parents(r))
  IN raised[Len(level)]

\* The leaves before the tail, and the levels above them.
RaiseLeaves(c, slots) ==
  IF slots = <<>> THEN [ctx |-> c, level |-> <<0>>, shift |-> 0]
  ELSE Then(AllocLevel(c, slots, Leaf), LAMBDA leaves : Raise(leaves.ctx, leaves.at))

\* Built bottom up: the tail, the leaves, the levels above them, the header.
vectorFromSlots(c, slots) ==
  LET full == tailOffset(Len(slots))
  IN IF slots = <<>> THEN emptyVector(c)
     ELSE Then(AllocPart(c, Leaf(SubSeq(slots, full + 1, Len(slots)))), LAMBDA tail :
            Then(RaiseLeaves(tail.ctx, SubSeq(slots, 1, full)), LAMBDA trie :
              AllocPart(trie.ctx, Header(Len(slots), trie.shift, trie.level[1], tail.at))))

-----------------------------------------------------------------------------
\* Every block of a trie, level by level from the root.
Children(h, node) ==
  Then(Load(h, node), LAMBDA n : IF n.kind = "Node" THEN n.children ELSE <<>>)

collectTrie(h, node, shift) ==
  LET top == shift \div BITS
      level[k \in 0..top] ==
        IF k = top THEN <<node>>
        ELSE FlatMap(level[k + 1], LAMBDA at : Children(h, at))
  IN FlattenSeq([k \in 1..(top + 1) |-> level[top + 1 - k]])

\* Every block of a vector: header, tail, trie.
vectorNodes(h, vector) ==
  LET v == Load(h, vector)
  IN IF vector = EMPTY_VECTOR \/ v.kind # "Vector" THEN <<>>
     ELSE <<vector>> \o (IF v.tail = 0 THEN <<>> ELSE <<v.tail>>)
                     \o (IF v.root = 0 THEN <<>> ELSE collectTrie(h, v.root, v.shift))

=============================================================================
