------------------------- MODULE EncodeContextProofs -------------------------
(***************************************************************************)
(* What the primitives of the encoder do to a context, for a buffer of any *)
(* length and texts of any lengths: each of them extends it, so that any   *)
(* sequence of them does, and rolling a write back undoes all of it.       *)
(***************************************************************************)
EXTENDS EncodeContext, AllocatorProofs

\* The elements of a sequence, by index.
LEMMA ElementsOf ==
  ASSUME NEW T, NEW s \in Seq(T)
  PROVE  /\ Len(s) \in Nat /\ DOMAIN s = 1..Len(s)
         /\ ToSet(s) \subseteq T
         /\ \A k \in 1..Len(s) : s[k] \in ToSet(s)
         /\ \A x \in ToSet(s) : \E k \in 1..Len(s) : x = s[k]
BY DEF ToSet

\* A sequence is one over any set that has its elements.
LEMMA SeqOver ==
  ASSUME NEW T, NEW s \in Seq(T), NEW U, ToSet(s) \subseteq U
  PROVE  s \in Seq(U)
<1>1. /\ Len(s) \in Nat /\ s = [k \in 1..Len(s) |-> s[k]]
      /\ \A k \in 1..Len(s) : s[k] \in U
  BY DEF ToSet
<1> QED  BY <1>1

LEMMA EmptySequence == \A T : <<>> \in Seq(T) /\ ToSet(<<>>) = {} /\ IsInjective(<<>>)
BY DEF ToSet, IsInjective

\* The strings of a context and what it allocated are in use, apart from each other.
LEMMA ContextIs ==
  ASSUME NEW c, Context(c)
  PROVE  /\ StringsOf(c) \subseteq InUse(c.alloc)
         /\ ToSet(c.allocated) \subseteq InUse(c.alloc)
         /\ ToSet(c.allocated) \cap StringsOf(c) = {}
         /\ c.alloc.bump \in Nat
         /\ DOMAIN c.alloc.header \subseteq Nat
         /\ InUse(c.alloc) \subseteq DOMAIN c.alloc.header
<1>1. StringsOf(c) \subseteq InUse(c.alloc)
  BY DEF Context, StringsOf
<1>2. ToSet(c.allocated) \subseteq InUse(c.alloc) \ StringsOf(c)
  BY ElementsOf DEF Context
<1>3. c.alloc.bump \in Nat /\ DOMAIN c.alloc.header \subseteq Nat
  BY DEF Context, WellFormed, Typed, Placement
<1> QED  BY <1>1, <1>2, <1>3 DEF InUse

\* The fields of the context a write begins with.
LEMMA NewContextIs ==
  ASSUME NEW c, ContextRecord(c)
  PROVE  LET d == newContext(c)
         IN /\ ContextRecord(d)
            /\ d.alloc = c.alloc /\ d.heap = c.heap /\ d.strings = c.strings
            /\ d.allocated = <<>> /\ d.retired = <<>> /\ d.interned = <<>>
            /\ d.bumpBefore = c.alloc.bump /\ d.err = NoError
BY DEF ContextRecord, newContext

\* The fields of a context with another allocator.
LEMMA WithAlloc ==
  ASSUME NEW c, ContextRecord(c), NEW a
  PROVE  LET d == [c EXCEPT !.alloc = a]
         IN /\ ContextRecord(d)
            /\ d.alloc = a /\ d.heap = c.heap /\ d.strings = c.strings
            /\ d.allocated = c.allocated /\ d.retired = c.retired
            /\ d.interned = c.interned /\ d.bumpBefore = c.bumpBefore /\ d.err = c.err
BY DEF ContextRecord

LEMMA ExtendsItself ==
  ASSUME NEW c, Context(c)
  PROVE  Extends(c, c)
<1>1. Fresh(c, c) = {} /\ NewTexts(c, c) = {}
  BY DEF Fresh, NewTexts
<1>2. Grows(c.alloc, c.alloc)
  BY ContextIs DEF Grows
<1> QED  BY <1>1, <1>2 DEF Extends

\* What extends an extension extends the context it began with: a write is any number
\* of steps.
LEMMA ExtendsIsTransitive ==
  ASSUME NEW c, NEW d, NEW e, Context(c), Extends(c, d), Extends(d, e)
  PROVE  Extends(c, e)
<1>1. Context(d) /\ Context(e)
  BY DEF Extends
<1>2. Grows(c.alloc, e.alloc)
  BY <1>1, ContextIs, GrowthIsTransitive DEF Extends
<1>3. /\ ToSet(c.allocated) \subseteq ToSet(d.allocated)
      /\ ToSet(d.allocated) \subseteq ToSet(e.allocated)
      /\ ToSet(c.interned) \subseteq ToSet(d.interned)
      /\ ToSet(d.interned) \subseteq ToSet(e.interned)
  BY DEF Extends
<1>4. \A t \in DOMAIN c.strings : t \in DOMAIN d.strings /\ d.strings[t] = c.strings[t]
  BY DEF Extends
<1>5. \A t \in DOMAIN d.strings : t \in DOMAIN e.strings /\ e.strings[t] = d.strings[t]
  BY DEF Extends
<1>6. StringsOf(c) \subseteq StringsOf(d) /\ StringsOf(d) \subseteq StringsOf(e)
  BY <1>4, <1>5 DEF StringsOf
<1>7. Fresh(c, e) = Fresh(c, d) \union Fresh(d, e)
  BY <1>3, <1>6 DEF Fresh
<1>8. NewTexts(c, e) = NewTexts(c, d) \union NewTexts(d, e)
  BY <1>3 DEF NewTexts
<1>9. /\ InUse(d.alloc) = InUse(c.alloc) \union Fresh(c, d)
      /\ InUse(e.alloc) = InUse(d.alloc) \union Fresh(d, e)
      /\ InUse(c.alloc) \cap Fresh(c, d) = {}
      /\ InUse(d.alloc) \cap Fresh(d, e) = {}
  BY DEF Extends
<1>10. /\ InUse(e.alloc) = InUse(c.alloc) \union Fresh(c, e)
       /\ InUse(c.alloc) \cap Fresh(c, e) = {}
  BY <1>7, <1>9
<1>11. /\ DOMAIN d.strings \subseteq DOMAIN c.strings \union NewTexts(c, d)
       /\ DOMAIN e.strings \subseteq DOMAIN d.strings \union NewTexts(d, e)
       /\ NewTexts(c, d) \cap DOMAIN c.strings = {}
       /\ NewTexts(d, e) \cap DOMAIN d.strings = {}
  BY DEF Extends
<1>12. /\ DOMAIN e.strings \subseteq DOMAIN c.strings \union NewTexts(c, e)
       /\ NewTexts(c, e) \cap DOMAIN c.strings = {}
  BY <1>4, <1>8, <1>11
<1>13. \A o \in InUse(c.alloc) : e.heap[o] = c.heap[o]
  BY <1>9 DEF Extends
<1>14. e.bumpBefore = c.bumpBefore
  BY DEF Extends
<1>15. \A t \in DOMAIN c.strings : t \in DOMAIN e.strings /\ e.strings[t] = c.strings[t]
  BY <1>4, <1>5
<1>16. /\ ToSet(c.allocated) \subseteq ToSet(e.allocated)
       /\ ToSet(c.interned) \subseteq ToSet(e.interned)
  BY <1>3
<1> QED  BY <1>1, <1>2, <1>10, <1>12, <1>13, <1>14, <1>15, <1>16 DEF Extends

-----------------------------------------------------------------------------
\* To throw, and to retire blocks, takes nothing.
LEMMA FailExtends ==
  ASSUME NEW c, Context(c), NEW error, error # NoError
  PROVE  Extends(c, Fail(c, error))
<1>1. CASE c.err # NoError
  BY <1>1, ExtendsItself DEF Fail
<1>2. CASE c.err = NoError
  <2> DEFINE d == Fail(c, error)
  <2>1. /\ d.alloc = c.alloc /\ d.heap = c.heap /\ d.strings = c.strings
        /\ d.allocated = c.allocated /\ d.retired = c.retired
        /\ d.interned = c.interned /\ d.bumpBefore = c.bumpBefore /\ d.err = error
        /\ ContextRecord(d)
    BY <1>2 DEF Fail, Context, ContextRecord
  <2> HIDE DEF d
  <2>2. StringsOf(d) = StringsOf(c)
    BY <2>1 DEF StringsOf
  <2>3. Context(d)
    BY <2>1, <2>2 DEF Context
  <2>4. Fresh(c, d) = {} /\ NewTexts(c, d) = {} /\ Grows(c.alloc, d.alloc)
    BY <2>1, <2>2, ContextIs DEF Fresh, NewTexts, Grows
  <2> QED  BY <2>1, <2>3, <2>4 DEF Extends, d
<1> QED  BY <1>1, <1>2

LEMMA RetireExtends ==
  ASSUME NEW c, Context(c), NEW blocks \in Seq(Nat)
  PROVE  Extends(c, Retire(c, blocks))
<1>1. CASE c.err # NoError
  BY <1>1, ExtendsItself DEF Retire
<1>2. CASE c.err = NoError
  <2> DEFINE d == Retire(c, blocks)
  <2>1. /\ d.alloc = c.alloc /\ d.heap = c.heap /\ d.strings = c.strings
        /\ d.allocated = c.allocated /\ d.retired = c.retired \o blocks
        /\ d.interned = c.interned /\ d.bumpBefore = c.bumpBefore /\ d.err = c.err
        /\ ContextRecord(d)
    BY <1>2 DEF Retire, Context, ContextRecord
  <2> HIDE DEF d
  <2>2. StringsOf(d) = StringsOf(c)
    BY <2>1 DEF StringsOf
  <2>3. d.retired \in Seq(Nat)
    BY <2>1 DEF Context
  <2>4. Context(d)
    BY <2>1, <2>2, <2>3 DEF Context
  <2>5. Fresh(c, d) = {} /\ NewTexts(c, d) = {} /\ Grows(c.alloc, d.alloc)
    BY <2>1, <2>2, ContextIs DEF Fresh, NewTexts, Grows
  <2> QED  BY <2>1, <2>4, <2>5 DEF Extends, d
<1> QED  BY <1>1, <1>2

-----------------------------------------------------------------------------
\* What the allocator answers, and what is written at its answer.
LEMMA RequestRefused ==
  ASSUME NEW c, Context(c), NEW n \in Nat, allocate(c.alloc, n).at = NoBlock
  PROVE  LET a == allocate(c.alloc, n).arena
         IN /\ WellFormed(a) /\ Grows(c.alloc, a) /\ InUse(a) = InUse(c.alloc)
            /\ DOMAIN a.header \subseteq DOMAIN c.heap
<1> DEFINE a == allocate(c.alloc, n).arena
<1>1. WellFormed(a) /\ InUse(a) = InUse(c.alloc)
  BY AllocateIsSound DEF Context, Sound
<1>2. Grows(c.alloc, a) /\ DOMAIN a.header \subseteq DOMAIN c.alloc.header \union {NoBlock}
  BY AllocateGrows DEF Context
<1> HIDE DEF a
<1>3. NoBlock \notin DOMAIN a.header
  BY <1>1, BufferIs DEF WellFormed, Placement, NoBlock, BLOCK_HEADER_BYTES
<1>4. DOMAIN a.header \subseteq DOMAIN c.heap
  BY <1>2, <1>3 DEF Context
<1> QED  BY <1>1, <1>2, <1>4 DEF a

LEMMA RequestServed ==
  ASSUME NEW c, Context(c), NEW n \in Nat, allocate(c.alloc, n).at # NoBlock, NEW content
  PROVE  LET a  == allocate(c.alloc, n).arena
             at == allocate(c.alloc, n).at
             h  == With(c.heap, at, content)
         IN /\ WellFormed(a) /\ Grows(c.alloc, a)
            /\ at \notin InUse(c.alloc)
            /\ InUse(a) = InUse(c.alloc) \union {at}
            /\ DOMAIN a.header \subseteq DOMAIN h
            /\ \A o \in InUse(c.alloc) : h[o] = c.heap[o]
<1> DEFINE a  == allocate(c.alloc, n).arena
           at == allocate(c.alloc, n).at
           h  == With(c.heap, at, content)
<1>1. /\ WellFormed(a) /\ at \notin InUse(c.alloc)
      /\ InUse(a) = InUse(c.alloc) \union {at}
  BY AllocateIsSound DEF Context, Sound
<1>2. Grows(c.alloc, a) /\ DOMAIN a.header \subseteq DOMAIN c.alloc.header \union {at}
  BY AllocateGrows DEF Context
<1> HIDE DEF a, at
<1>3. /\ DOMAIN h = DOMAIN c.heap \union {at}
      /\ \A o \in DOMAIN c.heap : o # at => h[o] = c.heap[o]
  BY DEF With
<1>4. InUse(c.alloc) \subseteq DOMAIN c.heap
  BY ContextIs DEF Context
<1> HIDE DEF h
<1>5. DOMAIN a.header \subseteq DOMAIN h
  BY <1>2, <1>3 DEF Context
<1> QED  BY <1>1, <1>2, <1>3, <1>4, <1>5 DEF a, at, h

\* A block on the journal is one step of a write.
THEOREM AllocBlockExtends ==
  ASSUME NEW c, Context(c), NEW n \in Nat, NEW content
  PROVE  /\ Extends(c, AllocBlock(c, n, content).ctx)
         /\ AllocBlock(c, n, content).ctx.err = NoError
              => AllocBlock(c, n, content).at \in InUse(AllocBlock(c, n, content).ctx.alloc)
<1> DEFINE a  == allocate(c.alloc, n).arena
           at == allocate(c.alloc, n).at
           h  == With(c.heap, at, content)
           d  == AllocBlock(c, n, content).ctx
<1>1. CASE c.err # NoError
  <2>1. AllocBlock(c, n, content) = [ctx |-> c, at |-> NoBlock]
    BY <1>1 DEF AllocBlock, Journaled, Write
  <2> QED  BY <1>1, <2>1, ExtendsItself
<1>2. CASE c.err = NoError /\ at = NoBlock
  <2>1. d = [c EXCEPT !.alloc = a, !.err = "ArenaFull"]
    BY <1>2 DEF AllocBlock, Journaled, Write, WriteAt
  <2>2. /\ WellFormed(a) /\ Grows(c.alloc, a) /\ InUse(a) = InUse(c.alloc)
        /\ DOMAIN a.header \subseteq DOMAIN c.heap
    BY <1>2, RequestRefused
  <2> HIDE DEF a, d
  <2>3. /\ d.alloc = a /\ d.heap = c.heap /\ d.strings = c.strings
        /\ d.allocated = c.allocated /\ d.retired = c.retired
        /\ d.interned = c.interned /\ d.bumpBefore = c.bumpBefore /\ d.err = "ArenaFull"
        /\ ContextRecord(d)
    BY <2>1 DEF Context, ContextRecord
  <2>4. StringsOf(d) = StringsOf(c)
    BY <2>3 DEF StringsOf
  <2>5. Context(d)
    BY <2>2, <2>3, <2>4 DEF Context, NoError
  <2>6. Fresh(c, d) = {} /\ NewTexts(c, d) = {}
    BY <2>3, <2>4 DEF Fresh, NewTexts
  <2>7. Extends(c, d)
    BY <2>2, <2>3, <2>5, <2>6 DEF Extends
  <2> QED  BY <2>3, <2>7 DEF d, NoError
<1>3. CASE c.err = NoError /\ at # NoBlock
  <2>1. /\ d = [c EXCEPT !.alloc = a, !.heap = h, !.allocated = Append(@, at)]
        /\ AllocBlock(c, n, content).at = at
    <3>1. Write(c, n, content)
            = [ctx |-> [c EXCEPT !.alloc = a, !.heap = h], at |-> at]
      BY <1>3 DEF Write, WriteAt
    <3> HIDE DEF a, at, h
    <3> DEFINE w == [c EXCEPT !.alloc = a, !.heap = h]
    <3>2. AllocBlock(c, n, content)
            = [ctx |-> [w EXCEPT !.allocated = Append(@, at)], at |-> at]
      <4>1. at # NoBlock /\ Write(c, n, content) = [ctx |-> w, at |-> at]
        BY <1>3, <3>1
      <4> HIDE DEF w
      <4>2. Journaled([ctx |-> w, at |-> at])
              = [ctx |-> [w EXCEPT !.allocated = Append(@, at)], at |-> at]
        BY <4>1 DEF Journaled
      <4> QED  BY <4>1, <4>2 DEF AllocBlock
    <3>3. [w EXCEPT !.allocated = Append(@, at)]
            = [c EXCEPT !.alloc = a, !.heap = h, !.allocated = Append(@, at)]
      BY DEF Context
    <3> QED  BY <3>2, <3>3
  <2>2. /\ WellFormed(a) /\ Grows(c.alloc, a)
        /\ at \notin InUse(c.alloc)
        /\ InUse(a) = InUse(c.alloc) \union {at}
        /\ DOMAIN a.header \subseteq DOMAIN h
        /\ \A o \in InUse(c.alloc) : h[o] = c.heap[o]
    BY <1>3, RequestServed
  <2> HIDE DEF a, at, h, d
  <2>3. /\ d.alloc = a /\ d.heap = h /\ d.strings = c.strings
        /\ d.allocated = Append(c.allocated, at) /\ d.retired = c.retired
        /\ d.interned = c.interned /\ d.bumpBefore = c.bumpBefore /\ d.err = c.err
        /\ ContextRecord(d)
    BY <2>1 DEF Context, ContextRecord
  <2>4. StringsOf(d) = StringsOf(c)
    BY <2>3 DEF StringsOf
  <2>5. at \notin StringsOf(c) /\ at \notin ToSet(c.allocated)
    BY <2>2, ContextIs
  <2> DEFINE T == InUse(a) \ StringsOf(c)
  <2>6. c.allocated \in Seq(T) /\ at \in T
    <3>1. ToSet(c.allocated) \subseteq T
      BY <2>2, ContextIs
    <3> HIDE DEF T
    <3>2. c.allocated \in Seq(T)
      BY <3>1, SeqOver DEF Context
    <3> QED  BY <2>2, <2>5, <3>2 DEF T
  <2>7. /\ d.allocated \in Seq(T)
        /\ ToSet(d.allocated) = ToSet(c.allocated) \union {at}
        /\ IsInjective(d.allocated)
    <3> HIDE DEF T
    <3> QED  BY <2>3, <2>5, <2>6, AppendedTo DEF Context
  <2>8. d.strings \in [DOMAIN d.strings -> InUse(d.alloc)]
    BY <2>2, <2>3 DEF Context
  <2>9. Context(d)
    BY <2>2, <2>3, <2>4, <2>7, <2>8 DEF Context
  <2>10. Fresh(c, d) = {at} /\ NewTexts(c, d) = {}
    BY <2>3, <2>4, <2>5, <2>7 DEF Fresh, NewTexts
  <2>11. Extends(c, d)
    BY <2>2, <2>3, <2>7, <2>9, <2>10 DEF Extends
  <2> QED  BY <2>1, <2>2, <2>3, <2>11 DEF d
<1> QED  BY <1>1, <1>2, <1>3 DEF at

\* So is the copy of a node, which retires the node.
THEOREM ReplaceExtends ==
  ASSUME NEW c, Context(c), NEW node \in Nat, NEW n \in Nat, NEW content
  PROVE  Extends(c, Replace(c, node, n, content).ctx)
<1> DEFINE got == AllocBlock(c, n, content)
<1>1. Replace(c, node, n, content).ctx = Retire(got.ctx, <<node>>)
  <2>1. got = [ctx |-> got.ctx, at |-> got.at]
    <3>1. Write(c, n, content) = [ctx |-> Write(c, n, content).ctx,
                                  at |-> Write(c, n, content).at]
      BY DEF Write, WriteAt
    <3> QED  BY <3>1 DEF AllocBlock, Journaled
  <2> HIDE DEF got
  <2>2. [got EXCEPT !.ctx = Retire(@, <<node>>)].ctx = Retire(got.ctx, <<node>>)
    BY <2>1
  <2> QED  BY <2>2 DEF Replace, got
<1>2. Extends(c, got.ctx)
  BY AllocBlockExtends
<1> HIDE DEF got
<1>3. Extends(got.ctx, Retire(got.ctx, <<node>>))
  <2>1. <<node>> \in Seq(Nat)
    OBVIOUS
  <2> QED  BY <1>2, <2>1, RetireExtends DEF Extends
<1> QED  BY <1>1, <1>2, <1>3, ExtendsIsTransitive

\* The record of a text is on the interning journal, whether it was written or there was
\* no room for it.
THEOREM InternExtends ==
  ASSUME NEW c, Context(c), NEW text, LengthOf(text) \in Nat
  PROVE  Extends(c, intern(c, text).ctx)
<1> DEFINE n  == stringRecordBytes(LengthOf(text))
           a  == allocate(c.alloc, n).arena
           at == allocate(c.alloc, n).at
           h  == With(c.heap, at, [kind |-> "String", text |-> text])
           j  == [c EXCEPT !.interned = Append(@, text)]
           d  == intern(c, text).ctx
<1>1. n \in Nat
  <2>1. 2 * WORD + 2 * LengthOf(text) \in Nat
    BY DEF WORD
  <2> QED  BY <2>1, Aligned DEF stringRecordBytes
<1>2. CASE text \in DOMAIN c.strings \/ c.err # NoError
  <2>1. d = c
    BY <1>2 DEF intern
  <2> QED  BY <2>1, ExtendsItself
<1> HIDE DEF n
<1>3. ASSUME text \notin DOMAIN c.strings, c.err = NoError
      PROVE  Extends(c, d)
  <2>1. /\ j.alloc = c.alloc /\ j.heap = c.heap /\ j.strings = c.strings
        /\ j.allocated = c.allocated /\ j.retired = c.retired
        /\ j.interned = Append(c.interned, text)
        /\ j.bumpBefore = c.bumpBefore /\ j.err = NoError
        /\ ContextRecord(j)
    <3>1. ContextRecord(c)
      BY DEF Context
    <3> QED  BY <1>3, <3>1 DEF ContextRecord
  <2>2. /\ j.interned \in Seq(ToSet(j.interned))
        /\ ToSet(j.interned) = ToSet(c.interned) \union {text}
        /\ IsInjective(j.interned)
    <3> DEFINE T == ToSet(c.interned) \union {text}
    <3>1. text \notin ToSet(c.interned)
      BY <1>3 DEF Context
    <3>2. c.interned \in Seq(T) /\ text \in T
      <4>1. ToSet(c.interned) \subseteq T
        OBVIOUS
      <4> HIDE DEF T
      <4>2. c.interned \in Seq(T)
        BY <4>1, SeqOver DEF Context
      <4> QED  BY <4>2 DEF T
    <3> HIDE DEF j, T
    <3>3. /\ j.interned \in Seq(T) /\ ToSet(j.interned) = ToSet(c.interned) \union {text}
          /\ IsInjective(j.interned)
      BY <2>1, <3>1, <3>2, AppendedTo DEF Context
    <3> QED  BY <3>3 DEF T
  <2>3. d = WriteString(j, text).ctx
    BY <1>3 DEF intern
  <2> HIDE DEF j
  <2>4. NewTexts(c, j) = {text}
    BY <1>3, <2>2 DEF NewTexts, Context
  <2>5. CASE at = NoBlock
    <3>1. d = [j EXCEPT !.alloc = a, !.err = "ArenaFull"]
      <4>1. Write(j, n, [kind |-> "String", text |-> text])
              = [ctx |-> [j EXCEPT !.alloc = a, !.err = "ArenaFull"], at |-> NoBlock]
        BY <2>1, <2>5 DEF Write, WriteAt
      <4> QED  BY <2>3, <4>1 DEF WriteString, Then, n
    <3>2. /\ WellFormed(a) /\ Grows(c.alloc, a) /\ InUse(a) = InUse(c.alloc)
          /\ DOMAIN a.header \subseteq DOMAIN c.heap
      BY <1>1, <2>5, RequestRefused
    <3> HIDE DEF a, d
    <3>3. /\ d.alloc = a /\ d.heap = c.heap /\ d.strings = c.strings
          /\ d.allocated = c.allocated /\ d.retired = c.retired
          /\ d.interned = j.interned /\ d.bumpBefore = c.bumpBefore /\ d.err = "ArenaFull"
          /\ ContextRecord(d)
      BY <2>1, <3>1 DEF ContextRecord
    <3>4. StringsOf(d) = StringsOf(c)
      BY <3>3 DEF StringsOf
    <3>5. Context(d)
      BY <2>2, <3>2, <3>3, <3>4 DEF Context, NoError
    <3>6. Fresh(c, d) = {} /\ NewTexts(c, d) = {text}
      BY <2>4, <3>3, <3>4 DEF Fresh, NewTexts
    <3> QED  BY <1>3, <2>2, <3>2, <3>3, <3>5, <3>6 DEF Extends
  <2>6. CASE at # NoBlock
    <3> DEFINE st == With(c.strings, text, at)
    <3>1. d = [j EXCEPT !.alloc = a, !.heap = h, !.strings = st]
      <4> DEFINE w == [j EXCEPT !.alloc = a, !.heap = h]
      <4>1. Write(j, n, [kind |-> "String", text |-> text]) = [ctx |-> w, at |-> at]
        BY <2>1, <2>6 DEF Write, WriteAt
      <4>2. w.strings = c.strings
        BY <2>1
      <4>3. [w EXCEPT !.strings = st] = [j EXCEPT !.alloc = a, !.heap = h, !.strings = st]
        BY <2>1
      <4> HIDE DEF w
      <4>4. WriteString(j, text)
              = [[ctx |-> w, at |-> at] EXCEPT !.ctx.strings = With(@, text, at)]
        BY <2>6, <4>1 DEF WriteString, Then, n
      <4>5. WriteString(j, text).ctx = [w EXCEPT !.strings = With(@, text, at)]
        BY <4>4
      <4> QED  BY <2>3, <4>2, <4>3, <4>5
    <3>2. /\ WellFormed(a) /\ Grows(c.alloc, a)
          /\ at \notin InUse(c.alloc)
          /\ InUse(a) = InUse(c.alloc) \union {at}
          /\ DOMAIN a.header \subseteq DOMAIN h
          /\ \A o \in InUse(c.alloc) : h[o] = c.heap[o]
      BY <1>1, <2>6, RequestServed
    <3> HIDE DEF a, at, h, d
    <3>3. /\ DOMAIN st = DOMAIN c.strings \union {text}
          /\ st[text] = at
          /\ \A t \in DOMAIN c.strings : st[t] = c.strings[t]
          /\ st = [t \in DOMAIN st |-> st[t]]
      BY <1>3 DEF With
    <3> HIDE DEF st
    <3>4. /\ d.alloc = a /\ d.heap = h /\ d.strings = st
          /\ d.allocated = c.allocated /\ d.retired = c.retired
          /\ d.interned = j.interned /\ d.bumpBefore = c.bumpBefore /\ d.err = NoError
          /\ ContextRecord(d)
      BY <2>1, <3>1 DEF ContextRecord
    <3>5. at \notin StringsOf(c) /\ at \notin ToSet(c.allocated)
      BY <3>2, ContextIs
    <3>6. StringsOf(d) = StringsOf(c) \union {at}
      BY <3>3, <3>4 DEF StringsOf
    <3>7. d.strings \in [DOMAIN d.strings -> InUse(d.alloc)]
      <4>1. \A t \in DOMAIN c.strings : c.strings[t] \in InUse(c.alloc)
        BY DEF Context
      <4> QED  BY <3>2, <3>3, <3>4, <4>1
    <3>8. IsInjective(d.strings)
      <4>1. \A t \in DOMAIN c.strings : c.strings[t] # at
        BY <3>5 DEF StringsOf
      <4> QED  BY <3>3, <3>4, <4>1 DEF Context, IsInjective
    <3>9. d.allocated \in Seq(InUse(d.alloc) \ StringsOf(d))
      <4>1. ToSet(c.allocated) \subseteq InUse(d.alloc) \ StringsOf(d)
        BY <3>2, <3>4, <3>5, <3>6, ContextIs
      <4> QED  BY <3>4, <4>1, SeqOver DEF Context
    <3>10. Context(d)
      <4>1. ToSet(d.interned) \subseteq DOMAIN d.strings
        <5>1. ToSet(c.interned) \subseteq DOMAIN c.strings
          BY <1>3 DEF Context
        <5> QED  BY <2>2, <3>3, <3>4, <5>1
      <4>2. /\ d.interned \in Seq(ToSet(d.interned)) /\ IsInjective(d.interned)
            /\ d.retired \in Seq(Nat) /\ IsInjective(d.allocated)
        BY <2>2, <3>4 DEF Context
      <4>3. WellFormed(d.alloc) /\ DOMAIN d.alloc.header \subseteq DOMAIN d.heap
        BY <3>2, <3>4
      <4> QED  BY <3>4, <3>7, <3>8, <3>9, <4>1, <4>2, <4>3 DEF Context
    <3>11. Fresh(c, d) = {at} /\ NewTexts(c, d) = {text}
      BY <2>4, <3>4, <3>5, <3>6 DEF Fresh, NewTexts
    <3> QED  BY <1>3, <2>2, <3>2, <3>3, <3>4, <3>10, <3>11 DEF Extends
  <2> QED  BY <2>5, <2>6
<1> QED  BY <1>2, <1>3

-----------------------------------------------------------------------------
\* The blocks that forget frees, in the order of the journal.
Forgotten(c) == [i \in DOMAIN KeepIn(c.interned, DOMAIN c.strings) |->
                   c.strings[KeepIn(c.interned, DOMAIN c.strings)[i]]]

LEMMA ForgottenAre ==
  ASSUME NEW c, Context(c)
  PROVE  /\ IsInjective(Forgotten(c))
         /\ Forgotten(c) \in Seq(StringsOf(c))
         /\ ToSet(Forgotten(c)) = {c.strings[t] : t \in ToSet(c.interned) \cap DOMAIN c.strings}
<1> DEFINE w == KeepIn(c.interned, DOMAIN c.strings)
<1>1. /\ w \in Seq(ToSet(c.interned))
      /\ ToSet(w) = ToSet(c.interned) \cap DOMAIN c.strings
      /\ IsInjective(w)
  BY KeepInIs DEF Context
<1>2. Forgotten(c) = [i \in DOMAIN w |-> c.strings[w[i]]]
  BY DEF Forgotten
<1> HIDE DEF w
<1>3. /\ Len(w) \in Nat /\ DOMAIN w = 1..Len(w)
      /\ \A i \in 1..Len(w) : w[i] \in ToSet(w)
      /\ \A t \in ToSet(w) : \E i \in 1..Len(w) : t = w[i]
  BY <1>1, ElementsOf
<1> DEFINE f == Forgotten(c)
<1>4. f = [i \in 1..Len(w) |-> c.strings[w[i]]]
  BY <1>2, <1>3
<1>5. \A i \in 1..Len(w) : w[i] \in DOMAIN c.strings
  BY <1>1, <1>3
<1> HIDE DEF f
<1>6. f \in Seq(StringsOf(c)) /\ DOMAIN f = 1..Len(w)
  <2>1. \A i \in 1..Len(w) : c.strings[w[i]] \in StringsOf(c)
    BY <1>5 DEF StringsOf
  <2> QED  BY <1>3, <1>4, <2>1
<1>7. IsInjective(f)
  <2>1. IsInjective(c.strings)
    BY DEF Context
  <2> QED  BY <1>1, <1>3, <1>4, <1>5, <1>6, <2>1 DEF IsInjective
<1>8. ToSet(f) = {c.strings[t] : t \in ToSet(w)}
  <2>1. ToSet(f) = {c.strings[w[i]] : i \in 1..Len(w)}
    BY <1>4, <1>6 DEF ToSet
  <2> QED  BY <1>3, <2>1
<1> QED  BY <1>1, <1>6, <1>7, <1>8 DEF f

\* A write that began with the context c and came to d: rolled back, the arena has the
\* blocks, the free blocks and the strings of c again, and what was written to the blocks
\* that were in use is as it was.
THEOREM RollbackRestores ==
  ASSUME NEW c, Context(c), c.allocated = <<>>, c.interned = <<>>,
         c.bumpBefore = c.alloc.bump,
         NEW d, Extends(c, d)
  PROVE  LET r == rollback(d)
         IN /\ Context(r)
            /\ Footprint(r) = Footprint(c)
            /\ r.alloc.header = c.alloc.header
            /\ r.strings = c.strings
            /\ InUse(r.alloc) = InUse(c.alloc)
            /\ r.allocated = <<>>
            /\ \A o \in InUse(c.alloc) : r.heap[o] = c.heap[o]
<1> DEFINE a1 == FreeAll(d.alloc, d.allocated)
           a2 == FreeAll(a1, Forgotten(d))
           a3 == rewindTo(a2, c.alloc.bump)
           r  == rollback(d)
<1>1. /\ Context(d) /\ Grows(c.alloc, d.alloc) /\ d.bumpBefore = c.alloc.bump
      /\ InUse(d.alloc) = InUse(c.alloc) \union Fresh(c, d)
      /\ InUse(c.alloc) \cap Fresh(c, d) = {}
      /\ \A o \in InUse(c.alloc) : d.heap[o] = c.heap[o]
      /\ \A t \in DOMAIN c.strings : t \in DOMAIN d.strings /\ d.strings[t] = c.strings[t]
      /\ DOMAIN d.strings \subseteq DOMAIN c.strings \union ToSet(d.interned)
      /\ ToSet(d.interned) \cap DOMAIN c.strings = {}
  <2>1. NewTexts(c, d) = ToSet(d.interned)
    BY EmptySequence DEF NewTexts
  <2> QED  BY <2>1 DEF Extends
<1>2. /\ WellFormed(c.alloc) /\ WellFormed(d.alloc)
      /\ StringsOf(d) \subseteq InUse(d.alloc)
      /\ ToSet(d.allocated) \subseteq InUse(d.alloc)
      /\ ToSet(d.allocated) \cap StringsOf(d) = {}
  BY <1>1, ContextIs DEF Context
<1>3. /\ WellFormed(a1) /\ a1.header = d.alloc.header /\ a1.bump = d.alloc.bump
      /\ InUse(a1) = InUse(d.alloc) \ (ToSet(d.allocated) \ Stranded(d.alloc))
  <2>1. d.allocated \in Seq(InUse(d.alloc)) /\ IsInjective(d.allocated)
    BY <1>1, <1>2, SeqOver DEF Context
  <2> QED  BY <1>2, <2>1, FreeAllIsSound
<1> HIDE DEF a1
<1>4. /\ WellFormed(a2) /\ a2.header = d.alloc.header /\ a2.bump = d.alloc.bump
      /\ InUse(a2) = InUse(a1) \ (ToSet(Forgotten(d)) \ Stranded(d.alloc))
  <2>1. Stranded(a1) = Stranded(d.alloc)
    BY <1>3 DEF Stranded
  <2>2. Forgotten(d) \in Seq(InUse(a1)) /\ IsInjective(Forgotten(d))
    <3>1. IsInjective(Forgotten(d)) /\ Forgotten(d) \in Seq(StringsOf(d))
      BY <1>1, ForgottenAre
    <3>2. ToSet(Forgotten(d)) \subseteq InUse(a1)
      BY <1>2, <1>3, <3>1, ElementsOf
    <3> QED  BY <3>1, <3>2, SeqOver
  <2> QED  BY <1>3, <2>1, <2>2, FreeAllIsSound
<1> HIDE DEF a2
<1>5. /\ WellFormed(a3) /\ a3.bump = c.alloc.bump /\ a3.header = c.alloc.header
      /\ InUse(a3) = InUse(a2) \cap DOMAIN c.alloc.header
  <2>1. Grows(c.alloc, a2)
    BY <1>1, <1>4 DEF Grows
  <2> QED  BY <1>2, <1>4, <2>1, RewindIsSound
<1> HIDE DEF a3
<1>6. Fresh(c, d) = ToSet(d.allocated) \union ToSet(Forgotten(d))
  <2>1. ToSet(c.allocated) = {}
    BY EmptySequence
  <2>2. ToSet(Forgotten(d))
          = {d.strings[t] : t \in ToSet(d.interned) \cap DOMAIN d.strings}
    BY <1>1, ForgottenAre
  <2>3. StringsOf(d) \ StringsOf(c)
          = {d.strings[t] : t \in ToSet(d.interned) \cap DOMAIN d.strings}
    <3>1. ASSUME NEW t \in DOMAIN d.strings, t \in ToSet(d.interned)
          PROVE  d.strings[t] \notin StringsOf(c)
      <4>1. \A u \in DOMAIN c.strings : d.strings[u] = c.strings[u] /\ u # t
                                          /\ u \in DOMAIN d.strings
        BY <1>1, <3>1
      <4>2. IsInjective(d.strings)
        BY <1>1 DEF Context
      <4> QED  BY <4>1, <4>2 DEF StringsOf, IsInjective
    <3>2. ASSUME NEW t \in DOMAIN d.strings, d.strings[t] \notin StringsOf(c)
          PROVE  t \in ToSet(d.interned)
      BY <1>1, <3>2 DEF StringsOf
    <3> QED  BY <3>1, <3>2 DEF StringsOf
  <2> QED  BY <2>1, <2>2, <2>3 DEF Fresh
<1>7. InUse(a3) = InUse(c.alloc)
  <2>1. InUse(a2) = InUse(c.alloc) \union (Fresh(c, d) \cap Stranded(d.alloc))
    BY <1>1, <1>3, <1>4, <1>6
  <2>2. ASSUME NEW o \in Fresh(c, d), o \in DOMAIN c.alloc.header
        PROVE  o \notin Stranded(d.alloc)
    <3>1. o \in FreeBlocks(c.alloc)
      BY <1>1, <2>2 DEF InUse
    <3>2. PICK i \in Classes : \E k \in 1..Len(c.alloc.free[i]) : o = c.alloc.free[i][k]
      BY <1>2, <3>1, FreeBlocksAre DEF WellFormed
    <3>3. c.alloc.header[o].class = i /\ i # SIZE_CLASS_EXACT
      <4>1. c.alloc.header[o].class = i
        BY <1>2, <3>2 DEF WellFormed, Lists
      <4> QED  BY <4>1, ClassesAre DEF SIZE_CLASS_EXACT
    <3>4. d.alloc.header[o] = c.alloc.header[o]
      BY <1>1, <2>2 DEF Grows
    <3> QED  BY <3>3, <3>4 DEF Stranded
  <2>3. InUse(c.alloc) \subseteq DOMAIN c.alloc.header
    BY DEF InUse
  <2> QED  BY <1>5, <2>1, <2>2, <2>3
<1>8. /\ r.alloc = a3
      /\ r.heap = Restrict(d.heap, DOMAIN d.heap \cap DOMAIN a3.header)
      /\ r.strings = Restrict(d.strings,
                       DOMAIN d.strings \ ToSet(KeepIn(d.interned, DOMAIN d.strings)))
      /\ r.allocated = <<>> /\ r.retired = <<>> /\ r.interned = <<>> /\ r.err = NoError
      /\ r.bumpBefore = a3.bump
      /\ ContextRecord(r)
  <2> DEFINE st == Restrict(d.strings,
                     DOMAIN d.strings \ ToSet(KeepIn(d.interned, DOMAIN d.strings)))
             f1 == [d EXCEPT !.alloc = a1]
             f2 == Freed(d)
             f3 == Rewound(f2, a3)
  <2>1. /\ f1.alloc = a1 /\ f1.strings = d.strings /\ f1.heap = d.heap
        /\ f1.bumpBefore = d.bumpBefore /\ ContextRecord(f1)
    <3>1. ContextRecord(d)
      BY <1>1 DEF Context
    <3> QED  BY <3>1, WithAlloc
  <2>2. f2 = forget(f1, d.interned)
    BY DEF Freed, a1
  <2> HIDE DEF f1
  <2>3. f2 = [f1 EXCEPT !.alloc = a2, !.strings = st]
    BY <2>1, <2>2 DEF forget, a2, Forgotten
  <2> HIDE DEF st, f2
  <2>4. /\ f2.alloc = a2 /\ f2.strings = st /\ f2.heap = d.heap
        /\ f2.bumpBefore = d.bumpBefore /\ ContextRecord(f2)
    BY <2>1, <2>3 DEF ContextRecord
  <2>5. r = newContext(f3)
    BY <1>1, <2>4 DEF rollback, Then, f2, a3
  <2>6. /\ f3.alloc = a3 /\ f3.strings = st /\ ContextRecord(f3)
        /\ f3.heap = Restrict(d.heap, DOMAIN d.heap \cap DOMAIN a3.header)
    <3> DEFINE h == Restrict(d.heap, DOMAIN d.heap \cap DOMAIN a3.header)
    <3>1. f3 = [f2 EXCEPT !.alloc = a3, !.heap = h]
      BY <2>4 DEF Rewound
    <3> HIDE DEF f3, h
    <3>2. /\ ContextRecord(f3)
          /\ f3.alloc = a3 /\ f3.heap = h /\ f3.strings = f2.strings
      BY <2>4, <3>1 DEF ContextRecord
    <3> QED  BY <2>4, <3>2 DEF h
  <2> HIDE DEF r, f3
  <2> QED  BY <2>5, <2>6, NewContextIs DEF st
<1> HIDE DEF r
<1>9. r.strings = c.strings
  <2>1. ToSet(KeepIn(d.interned, DOMAIN d.strings)) = ToSet(d.interned) \cap DOMAIN d.strings
    BY <1>1, KeepInIs DEF Context
  <2>2. DOMAIN d.strings \ ToSet(KeepIn(d.interned, DOMAIN d.strings)) = DOMAIN c.strings
    BY <1>1, <2>1
  <2>3. c.strings = [t \in DOMAIN c.strings |-> c.strings[t]]
    BY DEF Context
  <2> QED  BY <1>1, <1>8, <2>2, <2>3 DEF Restrict
<1>10. /\ DOMAIN c.alloc.header \subseteq DOMAIN r.heap
       /\ \A o \in DOMAIN c.alloc.header : r.heap[o] = d.heap[o]
  <2>1. DOMAIN c.alloc.header \subseteq DOMAIN d.heap
    BY <1>1 DEF Grows, Context
  <2> QED  BY <1>5, <1>8, <2>1 DEF Restrict
<1>11. \A o \in InUse(c.alloc) : r.heap[o] = c.heap[o]
  BY <1>1, <1>10 DEF InUse
<1>12. StringsOf(r) = StringsOf(c)
  BY <1>9 DEF StringsOf
<1>13. Context(r)
  <2>1. r.strings \in [DOMAIN r.strings -> InUse(r.alloc)] /\ IsInjective(r.strings)
    BY <1>7, <1>8, <1>9 DEF Context
  <2>2. WellFormed(r.alloc) /\ DOMAIN r.alloc.header \subseteq DOMAIN r.heap
    BY <1>5, <1>8, <1>10
  <2>3. /\ r.allocated \in Seq(InUse(r.alloc) \ StringsOf(r)) /\ IsInjective(r.allocated)
        /\ r.retired \in Seq(Nat)
        /\ r.interned \in Seq(ToSet(r.interned)) /\ IsInjective(r.interned)
        /\ ToSet(r.interned) \subseteq DOMAIN r.strings
    BY <1>8, EmptySequence
  <2> QED  BY <1>8, <2>1, <2>2, <2>3 DEF Context
<1>14. Footprint(r) = Footprint(c)
  <2>1. ASSUME NEW i \in Classes
        PROVE  ToSet(r.alloc.free[i]) = ToSet(c.alloc.free[i])
    <3>1. ToSet(c.alloc.free[i])
            = {o \in DOMAIN c.alloc.header \ InUse(c.alloc) : c.alloc.header[o].class = i}
      BY <1>2, FreeOfClass
    <3>2. ToSet(a3.free[i])
            = {o \in DOMAIN a3.header \ InUse(a3) : a3.header[o].class = i}
      BY <1>5, FreeOfClass
    <3> QED  BY <1>5, <1>7, <1>8, <3>1, <3>2
  <2> QED  BY <1>5, <1>8, <1>9, <2>1 DEF Footprint
<1> QED  BY <1>5, <1>7, <1>8, <1>9, <1>11, <1>13, <1>14 DEF r
=============================================================================
