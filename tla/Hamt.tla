-------------------------------- MODULE Hamt --------------------------------
(***************************************************************************)
(* The persistent map of hamt.ts: the nodes behind objects, maps and sets. *)
(* A slot is a pair <<tag, payload>>; a key and a value are slots.  A      *)
(* bitmap node holds entries and children by hash fragment (the popcount   *)
(* of the two bitmaps is the rank of the fragment, so data and nodes are   *)
(* functions of the fragment here); a collision node holds the entries of  *)
(* one whole hash.  An update copies the path to the key and retires the   *)
(* nodes it replaced.                                                      *)
(***************************************************************************)
EXTENDS Trie

MAX_DEPTH == MAX_SHIFT \div BITS + 2
EMPTY_NODE == 0

Ascending(S) == SetToSortSeq(S, LAMBDA a, b : a < b)

Bitmap(data, nodes) == [kind |-> "Bitmap", data |-> data, nodes |-> nodes]
Collision(entries)  == [kind |-> "Collision", entries |-> entries]
IsNode(n)           == n.kind \in {"Bitmap", "Collision"}

\* Three words of header, four for an entry, one for a child.
NodeBytes(n) ==
  IF n.kind = "Bitmap"
  THEN WORD * (3 + 4 * Cardinality(DOMAIN n.data) + Cardinality(DOMAIN n.nodes))
  ELSE WORD * (3 + 4 * Len(n.entries))

AllocNode(c, n)         == AllocBlock(c, NodeBytes(n), n)
ReplaceNode(c, node, n) == Replace(c, node, NodeBytes(n), n)
emptyNode(c)            == AllocNode(c, Bitmap(<<>>, <<>>))

\* The primitive a key slot stands for.
KeyValue(h, key) ==
  CASE key[1] = "String" ->
         <<"String", IF Load(h, key[2]).kind = "String" THEN h[key[2]].text ELSE "">>
    [] key[1] = "Double" ->
         IF Load(h, key[2]).kind = "Boxed" THEN h[key[2]].value ELSE Corrupt
    [] OTHER -> key

keyHash(h, key) == HashOf(KeyValue(h, key))

\* Interned strings are equal when they share their record, doubles by value: two
\* equal ones live in two blocks.  No integer that fits an int32 is held as a double.
keyEquals(h, a, b) ==
  IF a[1] = "Double" /\ b[1] = "Double" THEN KeyValue(h, a) = KeyValue(h, b) ELSE a = b

-----------------------------------------------------------------------------
\* What a lookup compares a candidate with: a slot, or the characters of a text
\* (<<"Text", t>>, for a reader, which cannot intern).
Matches(h, candidate, probe) ==
  IF probe[1] = "Text" THEN candidate[1] = "String" /\ StringIs(h, candidate[2], probe[2])
  ELSE keyEquals(h, candidate, probe)

RECURSIVE Lookup(_, _, _, _, _)
LookupIn(h, n, f, probe, hash, shift) ==
  LET Hit(e) == Matches(h, e.key, probe)
  IN CASE ~IsNode(n) \/ shift > MAX_SHIFT + BITS -> Corrupt
       [] n.kind = "Collision" ->
            IF \E i \in DOMAIN n.entries : Hit(n.entries[i])
            THEN SelectSeq(n.entries, Hit)[1].value ELSE Absent
       [] f \in DOMAIN n.data -> IF Hit(n.data[f]) THEN n.data[f].value ELSE Absent
       [] f \in DOMAIN n.nodes -> Lookup(h, n.nodes[f], probe, hash, shift + BITS)
       [] OTHER -> Absent
Lookup(h, node, probe, hash, shift) ==
  IF node = EMPTY_NODE THEN Absent
  ELSE LookupIn(h, Load(h, node), fragment(hash, shift), probe, hash, shift)

hamtGet(h, node, key) == Lookup(h, node, key, keyHash(h, key), 0)

hamtGetString(h, node, text) ==
  Lookup(h, node, <<"Text", text>>, HashOf(<<"String", text>>), 0)

-----------------------------------------------------------------------------
\* A node with two entries whose hashes differ at or below the shift, or that
\* share every bit of it.
RECURSIVE mergeEntries(_, _, _, _)
MergeAt(c, shift, a, fa, b, fb) ==
  IF fa = fb
  THEN Then(mergeEntries(c, shift + BITS, a, b),
            LAMBDA child : AllocNode(child.ctx, Bitmap(<<>>, fa :> child.at)))
  ELSE AllocNode(c, Bitmap((fa :> a) @@ (fb :> b), <<>>))
FragmentOf(h, e, shift) == fragment(keyHash(h, e.key), shift)
mergeEntries(c, shift, a, b) ==
  IF shift > MAX_SHIFT THEN AllocNode(c, Collision(<<a, b>>))
  ELSE MergeAt(c, shift, a, FragmentOf(c.heap, a, shift), b, FragmentOf(c.heap, b, shift))

\* The entry replaces the one of its key in place, or goes last.
CollisionWith(h, entries, e) ==
  IF \E i \in DOMAIN entries : keyEquals(h, entries[i].key, e.key)
  THEN [i \in DOMAIN entries |->
          IF keyEquals(h, entries[i].key, e.key) THEN e ELSE entries[i]]
  ELSE Append(entries, e)

\* Two different keys want one place: both go down a level.
PushDown(c, node, n, f, e, shift) ==
  Then(mergeEntries(c, shift + BITS, n.data[f], e),
       LAMBDA child : ReplaceNode(child.ctx, node,
                        Bitmap(Restrict(n.data, DOMAIN n.data \ {f}),
                               (f :> child.at) @@ n.nodes)))

\* The copy of a node with what became of its child: none, when that did not move.
WithChild(node, n, f, child) ==
  IF child.at = n.nodes[f] THEN [ctx |-> child.ctx, at |-> node]
  ELSE ReplaceNode(child.ctx, node, [n EXCEPT !.nodes[f] = child.at])

RECURSIVE hamtAssoc(_, _, _, _)
AssocIn(c, node, n, f, e, shift) ==
  CASE ~IsNode(n) -> [ctx |-> Fail(c, "ArenaCorrupt"), at |-> node]
    [] n.kind = "Collision" ->
         ReplaceNode(c, node, Collision(CollisionWith(c.heap, n.entries, e)))
    [] f \in DOMAIN n.nodes ->
         WithChild(node, n, f, hamtAssoc(c, n.nodes[f], e, shift + BITS))
    [] f \in DOMAIN n.data /\ ~keyEquals(c.heap, n.data[f].key, e.key) ->
         PushDown(c, node, n, f, e, shift)
    [] OTHER -> ReplaceNode(c, node, [n EXCEPT !.data = (f :> e) @@ @])
hamtAssoc(c, node, e, shift) ==
  IF node = EMPTY_NODE THEN AllocNode(c, Bitmap(FragmentOf(c.heap, e, shift) :> e, <<>>))
  ELSE AssocIn(c, node, Load(c.heap, node), FragmentOf(c.heap, e, shift), e, shift)

\* The node is returned as it is when the key is not there.
RECURSIVE hamtDissoc(_, _, _, _)
DissocIn(c, node, n, f, key, shift) ==
  LET Other(e) == ~keyEquals(c.heap, e.key, key)
      unchanged == [ctx |-> c, at |-> node]
  IN CASE ~IsNode(n) -> [ctx |-> Fail(c, "ArenaCorrupt"), at |-> node]
       [] n.kind = "Collision" ->
            IF \A i \in DOMAIN n.entries : Other(n.entries[i]) THEN unchanged
            ELSE ReplaceNode(c, node, Collision(SelectSeq(n.entries, Other)))
       [] f \in DOMAIN n.data ->
            IF Other(n.data[f]) THEN unchanged
            ELSE ReplaceNode(c, node,
                             Bitmap(Restrict(n.data, DOMAIN n.data \ {f}), n.nodes))
       [] f \in DOMAIN n.nodes ->
            WithChild(node, n, f, hamtDissoc(c, n.nodes[f], key, shift + BITS))
       [] OTHER -> unchanged
hamtDissoc(c, node, key, shift) ==
  IF node = EMPTY_NODE THEN [ctx |-> c, at |-> node]
  ELSE DissocIn(c, node, Load(c.heap, node), fragment(keyHash(c.heap, key), shift),
                key, shift)

-----------------------------------------------------------------------------
\* The values of a function of fragments, in the order of the fragments.
InFragmentOrder(f) ==
  Then(Ascending(DOMAIN f), LAMBDA order : [i \in DOMAIN order |-> f[order[i]]])

\* The entries in trie order: those of the node, then those of its children.
RECURSIVE EntriesFrom(_, _, _)
EntriesFrom(h, node, depth) ==
  LET n == Load(h, node)
  IN IF node = EMPTY_NODE THEN <<>>
     ELSE IF depth > MAX_DEPTH \/ ~IsNode(n) THEN <<[key |-> Corrupt, value |-> Corrupt]>>
     ELSE IF n.kind = "Collision" THEN n.entries
     ELSE InFragmentOrder(n.data)
            \o FlatMap(InFragmentOrder(n.nodes), LAMBDA at : EntriesFrom(h, at, depth + 1))

hamtEntries(h, node) == EntriesFrom(h, node, 0)

RECURSIVE SizeFrom(_, _, _)
SizeFrom(h, node, depth) ==
  LET n == Load(h, node)
  IN IF node = EMPTY_NODE \/ ~IsNode(n) \/ depth > MAX_DEPTH THEN 0
     ELSE IF n.kind = "Collision" THEN Len(n.entries)
     ELSE FoldLeft(LAMBDA total, child : total + SizeFrom(h, child, depth + 1),
                   Cardinality(DOMAIN n.data), InFragmentOrder(n.nodes))

hamtSize(h, node) == SizeFrom(h, node, 0)

RECURSIVE NodesFrom(_, _, _)
NodesFrom(h, node, depth) ==
  LET n == Load(h, node)
  IN IF node = EMPTY_NODE \/ ~IsNode(n) \/ depth > MAX_DEPTH THEN <<>>
     ELSE IF n.kind = "Collision" THEN <<node>>
     ELSE <<node>>
            \o FlatMap(InFragmentOrder(n.nodes), LAMBDA at : NodesFrom(h, at, depth + 1))

hamtNodes(h, node) == NodesFrom(h, node, 0)
=============================================================================
