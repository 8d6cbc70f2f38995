------------------------------- MODULE Values -------------------------------
(***************************************************************************)
(* Between JavaScript values and slots, as values.ts goes, and the reads   *)
(* of view.ts that decode no more than a path.                             *)
(*                                                                         *)
(* A value is a tuple with its tag first:                                  *)
(*   <<"Undefined">>  <<"Null">>  <<"True">>  <<"False">>                  *)
(*   <<"Int32", n>>                  what isInt32 holds for, but for -0    *)
(*   <<"Double", x>>  <<"Date", x>>  in a block of 8 bytes                 *)
(*   <<"String", text>>              an interned record                    *)
(*   <<"BigInt", x, n>>  <<"TypedArray", x, n>>  in n bytes                *)
(*   <<"RegExp", source, flags>>     of two texts                          *)
(*   <<"External", handle>>          the handle is the payload             *)
(*   <<"Object", f>>  <<"Array", s>>  <<"Map", f>>  <<"Set", S>>           *)
(*   <<"Symbol">>                    and all that encodeValue refuses      *)
(* with f a function of texts for an object and of values for a map.  Own  *)
(* keys are enumerated in an order of their own: that of KeyOrder.         *)
(***************************************************************************)
EXTENDS Hamt, Vector

CONSTANT KeyOrder      \* the primitives used as keys, in a sequence

Inline == {"Undefined", "Null", "True", "False", "Int32", "External"}
Boxed  == {"Double", "Date", "BigInt", "TypedArray"}
Keyable == {"String", "Int32", "Double", "True", "False", "Null", "Undefined"}

Undefined == <<"Undefined">>
Slot(tag, payload) == <<tag, payload>>
InKeyOrder(S) == SelectSeq(KeyOrder, LAMBDA k : k \in S)
NamesInOrder(S) ==
  LET keys == SelectSeq(KeyOrder, LAMBDA k : k[1] = "String" /\ k[2] \in S)
  IN [i \in DOMAIN keys |-> keys[i][2]]

BoxBytes(v) ==
  IF v[1] \in {"Double", "Date"} THEN 8
  ELSE 2 * WORD + (IF v[3] > 1 THEN v[3] ELSE 1)

-----------------------------------------------------------------------------
AsSlot(tag, got) == [ctx |-> got.ctx, slot |-> Slot(tag, got.at)]

encodeString(c, text) == AsSlot("String", intern(c, text))

encodeBoxed(c, v) ==
  AsSlot(v[1], AllocBlock(c, BoxBytes(v), [kind |-> "Boxed", value |-> v]))

encodeRegExp(c, v) ==
  Then(intern(c, v[2]), LAMBDA source :
    Then(intern(source.ctx, v[3]), LAMBDA flags :
      AsSlot("RegExp", AllocBlock(flags.ctx, 2 * WORD,
               [kind |-> "RegExp", source |-> source.at, flags |-> flags.at]))))

\* Map and set keys are compared by their slot: a container cannot be one.
assertKeyable(c, key) == IF key[1] \in Keyable THEN c ELSE Fail(c, "Unencodable")

\* One entry of a map: the trie with a key and a value.
PutEntry(c, node, key, value) == hamtAssoc(c, node, [key |-> key, value |-> value], 0)

RECURSIVE encodeValue(_, _)

encodeArray(c, s) ==
  LET Added(acc, v) == Then(encodeValue(acc.ctx, v), LAMBDA got :
                         [ctx |-> got.ctx, slots |-> Append(acc.slots, got.slot)])
  IN Then(FoldLeft(Added, [ctx |-> c, slots |-> <<>>], s), LAMBDA built :
       AsSlot("Array", vectorFromSlots(built.ctx, built.slots)))

encodeObject(c, f) ==
  LET Added(acc, k) ==
        Then(encodeString(acc.ctx, k), LAMBDA key :
          Then(encodeValue(key.ctx, f[k]), LAMBDA val :
            PutEntry(val.ctx, acc.at, key.slot, val.slot)))
  IN AsSlot("Object", FoldLeft(Added, emptyNode(c), NamesInOrder(DOMAIN f)))

encodeMap(c, f) ==
  LET Added(acc, k) ==
        Then(encodeValue(acc.ctx, k), LAMBDA key :
          Then(encodeValue(assertKeyable(key.ctx, key.slot), f[k]), LAMBDA val :
            PutEntry(val.ctx, acc.at, key.slot, val.slot)))
  IN AsSlot("Map", FoldLeft(Added, emptyNode(c), InKeyOrder(DOMAIN f)))

encodeSet(c, S) ==
  LET Added(acc, k) ==
        Then(encodeValue(acc.ctx, k), LAMBDA key :
          PutEntry(assertKeyable(key.ctx, key.slot), acc.at, key.slot, Slot("True", 0)))
  IN AsSlot("Set", FoldLeft(Added, emptyNode(c), InKeyOrder(S)))

encodeValue(c, v) ==
  CASE v[1] \in {"Int32", "External"} -> [ctx |-> c, slot |-> Slot(v[1], v[2])]
    [] v[1] \in Inline \ {"Int32", "External"} -> [ctx |-> c, slot |-> Slot(v[1], 0)]
    [] v[1] = "String" -> encodeString(c, v[2])
    [] v[1] \in Boxed  -> encodeBoxed(c, v)
    [] v[1] = "RegExp" -> encodeRegExp(c, v)
    [] v[1] = "Array"  -> encodeArray(c, v[2])
    [] v[1] = "Object" -> encodeObject(c, v[2])
    [] v[1] = "Map"    -> encodeMap(c, v[2])
    [] v[1] = "Set"    -> encodeSet(c, v[2])
    [] OTHER -> [ctx |-> Fail(c, "Unencodable"), slot |-> Slot("Undefined", 0)]

-----------------------------------------------------------------------------
CorruptValue == <<"Corrupt">>
TextAt(h, at) == IF Load(h, at).kind = "String" THEN h[at].text ELSE "?"

decodeString(h, at) ==
  IF Load(h, at).kind = "String" THEN <<"String", h[at].text>> ELSE CorruptValue

decodeBoxed(h, at) == IF Load(h, at).kind = "Boxed" THEN h[at].value ELSE CorruptValue

\* The eager decode.  A structure a correct owner wrote nests no deeper than its
\* value; MAX_DECODE_DEPTH stops the one that contains itself.
MAX_DECODE_DEPTH == 8

\* The entries by the texts, or by the values, of their keys: a key set twice holds what
\* was set last.
ByKey(entries, Key(_), Value(_)) ==
  [k \in {Key(entries[i].key) : i \in DOMAIN entries} |->
     Value(entries[Max({i \in DOMAIN entries : Key(entries[i].key) = k})].value)]

RECURSIVE DecodeFrom(_, _, _)

decodeObject(h, entries, depth) ==
  IF \E i \in DOMAIN entries : entries[i].key[1] # "String" THEN CorruptValue
  ELSE <<"Object", ByKey(entries, LAMBDA key : TextAt(h, key[2]),
                         LAMBDA value : DecodeFrom(h, value, depth))>>

decodeMap(h, entries, depth) ==
  <<"Map", ByKey(entries, LAMBDA key : DecodeFrom(h, key, depth),
                 LAMBDA value : DecodeFrom(h, value, depth))>>

decodeSet(h, entries, depth) ==
  <<"Set", {DecodeFrom(h, entries[i].key, depth) : i \in DOMAIN entries}>>

decodeArray(h, slots, depth) ==
  <<"Array", [i \in DOMAIN slots |-> DecodeFrom(h, slots[i], depth)]>>

decodeRegExp(h, at) ==
  IF Load(h, at).kind # "RegExp" THEN CorruptValue
  ELSE <<"RegExp", TextAt(h, h[at].source), TextAt(h, h[at].flags)>>

DecodeFrom(h, slot, depth) ==
  CASE depth > MAX_DECODE_DEPTH -> CorruptValue
    [] slot[1] \in {"Int32", "External"} -> slot
    [] slot[1] \in Inline \ {"Int32", "External"} -> <<slot[1]>>
    [] slot[1] = "String" -> decodeString(h, slot[2])
    [] slot[1] \in Boxed  -> decodeBoxed(h, slot[2])
    [] slot[1] = "RegExp" -> decodeRegExp(h, slot[2])
    [] slot[1] = "Object" -> decodeObject(h, hamtEntries(h, slot[2]), depth + 1)
    [] slot[1] = "Array"  -> decodeArray(h, vectorSlots(h, slot[2]), depth + 1)
    [] slot[1] = "Map"    -> decodeMap(h, hamtEntries(h, slot[2]), depth + 1)
    [] slot[1] = "Set"    -> decodeSet(h, hamtEntries(h, slot[2]), depth + 1)
    [] OTHER -> CorruptValue

decodeValue(h, slot) == DecodeFrom(h, slot, 0)

-----------------------------------------------------------------------------
\* Every block a slot reaches, but for the interned strings: these are shared.
RECURSIVE collectBlocks(_, _)
collectBlocks(h, slot) ==
  CASE slot[1] \in Boxed \union {"RegExp"} -> <<slot[2]>>
    [] slot[1] \in {"Object", "Map", "Set"} ->
         FlatMap(hamtEntries(h, slot[2]),
                 LAMBDA e : collectBlocks(h, e.key) \o collectBlocks(h, e.value))
           \o hamtNodes(h, slot[2])
    [] slot[1] = "Array" ->
         FlatMap(vectorSlots(h, slot[2]), LAMBDA s : collectBlocks(h, s))
           \o vectorNodes(h, slot[2])
    [] OTHER -> <<>>

containerSize(h, slot) ==
  CASE slot[1] \in {"Object", "Map", "Set"} -> hamtSize(h, slot[2])
    [] slot[1] = "Array" -> vectorLength(h, slot[2])
    [] OTHER -> 0

-----------------------------------------------------------------------------
\* The views of a snapshot: an object is asked for a property by its characters,
\* an array for an index, and a map or a set is materialised.  Here the view is
\* read in full, each property and each index through its own trap.
RECURSIVE ViewFrom(_, _, _)

objectView(h, node, depth) ==
  Then(hamtEntries(h, node), LAMBDA entries :
    <<"Object", [k \in {TextAt(h, entries[i].key[2]) : i \in DOMAIN entries} |->
                   ViewFrom(h, hamtGetString(h, node, k), depth + 1)]>>)

arrayView(h, vector, depth) ==
  <<"Array", [i \in 1..vectorLength(h, vector) |->
                ViewFrom(h, vectorGet(h, vector, i - 1), depth + 1)]>>

mapView(h, node, depth) ==
  Then(hamtEntries(h, node), LAMBDA entries :
    <<"Map", ByKey(entries, LAMBDA key : decodeValue(h, key),
                   LAMBDA value : ViewFrom(h, value, depth + 1))>>)

setView(h, node) ==
  Then(hamtEntries(h, node), LAMBDA entries :
    <<"Set", {decodeValue(h, entries[i].key) : i \in DOMAIN entries}>>)

ViewFrom(h, slot, depth) ==
  CASE depth > MAX_DECODE_DEPTH -> CorruptValue
    [] slot[1] = "Object" -> objectView(h, slot[2], depth)
    [] slot[1] = "Array"  -> arrayView(h, slot[2], depth)
    [] slot[1] = "Map"    -> mapView(h, slot[2], depth)
    [] slot[1] = "Set"    -> setView(h, slot[2])
    [] OTHER -> decodeValue(h, slot)

viewValue(h, slot) == ViewFrom(h, slot, 0)

\* One step of readPath: an index into an array; a text or an integer as a key.
Step(h, slot, step) ==
  CASE slot[1] = "Array" /\ step[1] = "Int32" -> vectorGet(h, slot[2], step[2])
    [] slot[1] \in {"Object", "Map"} /\ step[1] = "Int32" -> hamtGet(h, slot[2], step)
    [] slot[1] \in {"Object", "Map"} /\ step[1] = "String" ->
         hamtGetString(h, slot[2], step[2])
    [] OTHER -> Absent

\* readPath: the views along the path are not built.
Read(h, slot) == IF slot = Absent THEN Undefined ELSE decodeValue(h, slot)
readPath(h, root, path) ==
  Read(h, FoldLeft(LAMBDA slot, step : Step(h, slot, step), root, path))
=============================================================================
