------------------------ MODULE BlockLifetimeProofs ------------------------
(***************************************************************************)
(* What becomes of the blocks of the arena, for a buffer of any length, a  *)
(* ring of any capacity, a history of any depth, any readers and any       *)
(* writes: no block has two owners, none is lost, a write that is rejected *)
(* leaves nothing, a version that must be readable is, and while it is its *)
(* blocks stand.                                                           *)
(***************************************************************************)
EXTENDS BlockLifetime, EncodeContextProofs

\* The context the write in progress would go back to.
Base == IF phase = "idle" THEN ctx ELSE opened

\* Who holds the blocks of a context: a version (own), the write in progress, the intern
\* map, or an owner that died (left).  Nobody holds one twice, and what nobody holds is
\* free, or of an exact size and freed.
Ownership(own, left, c) ==
  /\ \A v \in DOMAIN own :
       /\ IsInjective(own[v])
       /\ ToSet(own[v]) \subseteq InUse(c.alloc)
       /\ ToSet(own[v]) \cap (ToSet(c.allocated) \union StringsOf(c) \union left) = {}
  /\ \A v, w \in DOMAIN own : v # w => ToSet(own[v]) \cap ToSet(own[w]) = {}
  /\ left \subseteq InUse(c.alloc)
  /\ left \cap (ToSet(c.allocated) \union StringsOf(c)) = {}
  /\ \A o \in InUse(c.alloc) :
       \/ \E v \in DOMAIN own : o \in ToSet(own[v])
       \/ o \in ToSet(c.allocated) \union StringsOf(c) \union Stranded(c.alloc) \union left

\* A block that a version reaches goes out of use with that version or a later one.
Reached ==
  \A v \in DOMAIN reach : \A o \in ToSet(reach[v]) :
    o \in lost \/ \E w \in DOMAIN Owned : v <= w /\ o \in ToSet(Owned[w])

\* The floor passes a version only when the history does not hold it, and a version that
\* is pinned only when the ring has come round to it.
FloorIsHeld ==
  /\ floor <= MaxOf(0, version - depth)
  /\ \A r \in Readers : pin[r] # NoPin =>
       floor <= MaxOf(pin[r], version - RetainedCapacity + 1)

\* The write in progress, and what it began with.
WriteExtends ==
  /\ phase = "idle" => ctx.allocated = <<>>
  /\ phase # "idle" =>
       /\ Context(opened)
       /\ opened.allocated = <<>> /\ opened.interned = <<>>
       /\ opened.bumpBefore = opened.alloc.bump
       /\ Extends(opened, ctx)

LifetimeInv ==
  /\ LifetimeTypeOK
  /\ FloorIsHeld
  /\ WriteExtends
  /\ Ownership(Owned, lost, Base)
  /\ Reached
  /\ RejectedWriteLeavesNothing

-----------------------------------------------------------------------------
LEMMA RetentionIs ==
  /\ RetainedCapacity \in Nat /\ RetainedCapacity >= 1
  /\ HistoryDepth \in Nat /\ HistoryDepth <= RetainedCapacity - 1
BY RetentionAssumption

\* What is left of the versions that can be read when the floor rises.
LEMMA Window ==
  ASSUME NEW f \in Nat, NEW e \in Nat, f <= e, NEW n \in Nat
  PROVE  \A v : v \in MaxOf(f, 1)..n /\ e <= v <=> v \in MaxOf(e, 1)..n
BY DEF MaxOf

\* The smallest pinned version is one, or past every version.
LEMMA SmallestPinned ==
  ASSUME version \in Nat \ {0}, pin \in [Readers -> NoPin..version]
  PROVE  /\ minimumPinnedEpoch \in 1..(version + 1)
         /\ \A r \in Readers : pin[r] # NoPin => minimumPinnedEpoch <= pin[r]
<1> DEFINE pinned == {pin[r] : r \in Readers} \ {NoPin}
<1>1. \A p \in pinned : p \in 1..version
  BY DEF NoPin
<1>2. \A r \in Readers : pin[r] # NoPin => pin[r] \in pinned
  OBVIOUS
<1>3. CASE pinned = {}
  BY <1>2, <1>3 DEF minimumPinnedEpoch
<1>4. CASE pinned # {}
  <2>1. minimumPinnedEpoch = Min(pinned)
    BY <1>4 DEF minimumPinnedEpoch
  <2> HIDE DEF pinned
  <2>2. \E m \in pinned : \A p \in pinned : m <= p
    BY <1>1, <1>4, LeastElement
  <2>3. Min(pinned) \in pinned /\ \A p \in pinned : Min(pinned) <= p
    BY <2>2 DEF Min
  <2> QED  BY <1>1, <1>2, <2>1, <2>3
<1> QED  BY <1>3, <1>4

LEMMA KeptFrom ==
  ASSUME NEW g, NEW boundary
  PROVE  /\ \A v : v \in DOMAIN KeepFrom(g, boundary) <=> v \in DOMAIN g /\ boundary <= v
         /\ \A v \in DOMAIN g : boundary <= v => KeepFrom(g, boundary)[v] = g[v]
BY DEF KeepFrom, Restrict

LEMMA WithIs ==
  ASSUME NEW f, NEW x, NEW y
  PROVE  /\ \A z : z \in DOMAIN With(f, x, y) <=> z \in DOMAIN f \/ z = x
         /\ With(f, x, y)[x] = y
         /\ \A z \in DOMAIN f : z # x => With(f, x, y)[z] = f[z]
BY DEF With

\* What each version is answerable for.
LEMMA OwnedIs ==
  ASSUME LifetimeTypeOK
  PROVE  /\ DOMAIN Owned = DOMAIN garbage \union {version}
         /\ Owned[version] = reach[version]
         /\ \A v \in DOMAIN garbage : v # version /\ Owned[v] = garbage[v]
         /\ \A v \in DOMAIN Owned : Owned[v] \in Seq(Nat)
         /\ version \in DOMAIN reach
<1>1. version \in DOMAIN reach /\ reach[version] \in Seq(Nat)
  <2>1. version \in MaxOf(floor, 1)..version
    BY DEF LifetimeTypeOK, MaxOf
  <2> QED  BY <2>1 DEF LifetimeTypeOK
<1>2. \A v \in DOMAIN garbage : v # version /\ garbage[v] \in Seq(Nat)
  BY DEF LifetimeTypeOK
<1> DEFINE last == reach[version]
<1> DEFINE o == With(garbage, version, last)
<1>3. /\ \A v : v \in DOMAIN o <=> v \in DOMAIN garbage \/ v = version
      /\ o[version] = last
      /\ \A v \in DOMAIN garbage : v # version => o[v] = garbage[v]
  BY WithIs
<1> HIDE DEF o
<1>4. /\ DOMAIN Owned = DOMAIN garbage \union {version}
      /\ Owned[version] = last
      /\ \A v \in DOMAIN garbage : v # version => Owned[v] = garbage[v]
  BY <1>3 DEF Owned, o
<1>5. ASSUME NEW v \in DOMAIN Owned PROVE Owned[v] \in Seq(Nat)
  BY <1>1, <1>2, <1>4 DEF last
<1>6. \A v \in DOMAIN garbage : v # version /\ Owned[v] = garbage[v]
  BY <1>2, <1>4
<1> QED  BY <1>1, <1>4, <1>5, <1>6 DEF last

-----------------------------------------------------------------------------
\* What the loop over the versions does at one of them.
FreedStep(a, g, boundary, F, v) ==
  IF v = 0 THEN a
  ELSE IF v \in DOMAIN g /\ v < boundary THEN FreeAll(F[v - 1], g[v]) ELSE F[v - 1]

\* The states the loop goes through.
FreedAt(a, g, boundary, n) == CHOOSE F : F = [v \in 0..n |-> FreedStep(a, g, boundary, F, v)]

LEMMA FreeBelowLoop ==
  ASSUME NEW a, NEW g, NEW boundary, NEW n \in Nat
  PROVE  FreedAt(a, g, boundary, n)
           = [v \in 0..n |-> FreedStep(a, g, boundary, FreedAt(a, g, boundary, n), v)]
<1> DEFINE Step(F, v) == FreedStep(a, g, boundary, F, v)
           S == {m \in Nat : \E F : F = [v \in 0..m |-> Step(F, v)]}
<1>1. 0 \in S
  <2> DEFINE F == [v \in 0..0 |-> a]
  <2>1. F = [v \in 0..0 |-> Step(F, v)]
    BY DEF FreedStep
  <2> HIDE DEF F
  <2> QED  BY <2>1
<1>2. ASSUME NEW m \in Nat, m \in S PROVE m + 1 \in S
  <2>1. PICK F : F = [v \in 0..m |-> Step(F, v)]
    BY <1>2
  <2> DEFINE L == IF m + 1 \in DOMAIN g /\ m + 1 < boundary
                  THEN FreeAll(F[m], g[m + 1]) ELSE F[m]
             G == [v \in 0..(m + 1) |-> IF v = m + 1 THEN L ELSE F[v]]
  <2>2. ASSUME NEW v \in 0..(m + 1) PROVE G[v] = Step(G, v)
    <3>1. CASE v = m + 1
      <4>1. G[v] = L /\ G[v - 1] = F[m] /\ v # 0
        BY <3>1
      <4> QED  BY <3>1, <4>1 DEF FreedStep
    <3>2. CASE v = 0
      BY <2>1, <3>2 DEF FreedStep
    <3>3. CASE v \in 1..m
      <4>1. v - 1 \in 0..m /\ v \in 0..m /\ v # 0 /\ v # m + 1 /\ v - 1 # m + 1
        BY <3>3
      <4>2. G[v] = F[v] /\ G[v - 1] = F[v - 1]
        BY <4>1
      <4> QED  BY <2>1, <4>1, <4>2 DEF FreedStep
    <3> QED  BY <3>1, <3>2, <3>3
  <2>3. G = [v \in 0..(m + 1) |-> Step(G, v)]
    <3>1. G = [v \in 0..(m + 1) |-> G[v]]
      OBVIOUS
    <3> HIDE DEF G
    <3> QED  BY <2>2, <3>1
  <2> HIDE DEF G
  <2>4. \E H : H = [v \in 0..(m + 1) |-> Step(H, v)]
    BY <2>3, Zenon
  <2> QED  BY <2>4
<1>3. n \in S
  <2> HIDE DEF S
  <2> QED  BY <1>1, <1>2, SetInduction
<1> DEFINE H == CHOOSE F : F = [v \in 0..n |-> Step(F, v)]
<1>4. \E F : F = [v \in 0..n |-> Step(F, v)]
  BY <1>3
<1>5. H = [v \in 0..n |-> Step(H, v)]
  <2> HIDE DEF Step
  <2> QED  BY <1>4, Zenon
<1>6. FreedAt(a, g, boundary, n) = H
  BY DEF FreedAt
<1> HIDE DEF H
<1> QED  BY <1>5, <1>6

LEMMA FreeBelowSteps ==
  ASSUME NEW c, NEW g, NEW boundary, version \in Nat,
         NEW F, F = FreedAt(c.alloc, g, boundary, version)
  PROVE  /\ FreeBelow(c, g, boundary) = [c EXCEPT !.alloc = F[version]]
         /\ F[0] = c.alloc
         /\ \A v \in 1..version : F[v] = FreedStep(c.alloc, g, boundary, F, v)
<1>1. FreeBelow(c, g, boundary) = [c EXCEPT !.alloc = F[version]]
  BY DEF FreeBelow, FreedStep, FreedAt
<1>2. F = [v \in 0..version |-> FreedStep(c.alloc, g, boundary, F, v)]
  BY FreeBelowLoop
<1>3. F[0] = c.alloc
  BY <1>2 DEF FreedStep
<1>4. \A v \in 1..version : F[v] = FreedStep(c.alloc, g, boundary, F, v)
  BY <1>2
<1> QED  BY <1>1, <1>3, <1>4

\* The blocks that go back to the allocator.
GarbageBelow(g, boundary) == UNION {ToSet(g[v]) : v \in {w \in DOMAIN g : w < boundary}}

\* Freeing the garbage below a boundary frees those of its blocks that have a class, and
\* nothing else changes.
THEOREM FreeBelowIsSound ==
  ASSUME NEW c, ContextRecord(c), WellFormed(c.alloc), version \in Nat,
         NEW g, DOMAIN g \subseteq 1..version, NEW boundary \in Int,
         \A v \in DOMAIN g : v < boundary =>
           g[v] \in Seq(InUse(c.alloc)) /\ IsInjective(g[v]),
         \A v, w \in DOMAIN g : v < boundary /\ w < boundary /\ v # w =>
           ToSet(g[v]) \cap ToSet(g[w]) = {}
  PROVE  LET d == FreeBelow(c, g, boundary)
         IN /\ ContextRecord(d)
            /\ d.heap = c.heap /\ d.strings = c.strings /\ d.allocated = c.allocated
            /\ d.retired = c.retired /\ d.interned = c.interned
            /\ d.bumpBefore = c.bumpBefore /\ d.err = c.err
            /\ WellFormed(d.alloc)
            /\ d.alloc.header = c.alloc.header /\ d.alloc.bump = c.alloc.bump
            /\ InUse(d.alloc) = InUse(c.alloc) \ (GarbageBelow(g, boundary) \ Stranded(c.alloc))
<1>1. PICK F : F = FreedAt(c.alloc, g, boundary, version)
  OBVIOUS
<1>2. /\ FreeBelow(c, g, boundary) = [c EXCEPT !.alloc = F[version]]
      /\ F[0] = c.alloc
      /\ \A v \in 1..version : F[v] = FreedStep(c.alloc, g, boundary, F, v)
  BY <1>1, FreeBelowSteps
<1> DEFINE a == c.alloc
           Due(k)  == {w \in DOMAIN g : w < boundary /\ w <= k}
           Upto(k) == UNION {ToSet(g[w]) : w \in Due(k)}
           Good(k) == /\ WellFormed(F[k])
                      /\ F[k].header = a.header
                      /\ F[k].bump = a.bump
                      /\ InUse(F[k]) = InUse(a) \ (Upto(k) \ Stranded(a))
           S == {k \in Nat : k <= version => Good(k)}
<1>3. Good(0)
  <2>1. Due(0) = {}
    OBVIOUS
  <2>2. Upto(0) = {}
    BY <2>1
  <2> QED  BY <1>2, <2>2
<1>4. ASSUME NEW k \in Nat, k + 1 <= version, Good(k) PROVE Good(k + 1)
  <2>1. k + 1 \in 1..version /\ (k + 1) - 1 = k
    BY <1>4
  <2>2. CASE ~(k + 1 \in DOMAIN g /\ k + 1 < boundary)
    <3>1. F[k + 1] = F[k]
      BY <1>2, <2>1, <2>2 DEF FreedStep
    <3>2. Due(k + 1) = Due(k)
      BY <1>4, <2>2
    <3>3. Upto(k + 1) = Upto(k)
      BY <3>2
    <3> QED  BY <1>4, <3>1, <3>3
  <2>3. CASE k + 1 \in DOMAIN g /\ k + 1 < boundary
    <3>1. F[k + 1] = FreeAll(F[k], g[k + 1])
      BY <1>2, <2>1, <2>3 DEF FreedStep
    <3>2. Due(k + 1) = Due(k) \union {k + 1}
      BY <1>4, <2>3
    <3>3. Upto(k + 1) = Upto(k) \union ToSet(g[k + 1])
      BY <3>2
    <3>4. ToSet(g[k + 1]) \cap Upto(k) = {}
      <4>1. \A w \in Due(k) : ToSet(g[k + 1]) \cap ToSet(g[w]) = {}
        BY <1>4, <2>3
      <4> QED  BY <4>1
    <3>5. g[k + 1] \in Seq(InUse(a)) /\ IsInjective(g[k + 1])
      BY <2>3
    <3> DEFINE s == g[k + 1]
    <3> HIDE DEF s, Upto, Due
    <3>6. s \in Seq(InUse(F[k]))
      <4>1. ToSet(s) \subseteq InUse(a)
        BY <3>5, ElementsOf DEF s
      <4>2. ToSet(s) \subseteq InUse(F[k])
        BY <1>4, <3>4, <4>1 DEF s
      <4> QED  BY <3>5, <4>2, SeqOver DEF s
    <3>7. Stranded(F[k]) = Stranded(a)
      BY <1>4 DEF Stranded
    <3>8. /\ WellFormed(F[k + 1])
          /\ F[k + 1].header = F[k].header
          /\ F[k + 1].bump = F[k].bump
          /\ InUse(F[k + 1]) = InUse(F[k]) \ (ToSet(s) \ Stranded(F[k]))
      BY <1>4, <3>1, <3>5, <3>6, FreeAllIsSound DEF s
    <3>9. InUse(F[k + 1]) = InUse(a) \ (Upto(k + 1) \ Stranded(a))
      BY <1>4, <3>3, <3>7, <3>8 DEF s
    <3> QED  BY <1>4, <3>8, <3>9
  <2> QED  BY <2>2, <2>3
<1>5. Good(version)
  <2> HIDE DEF Good
  <2>1. 0 \in S
    BY <1>3
  <2>2. \A k \in Nat : k \in S => k + 1 \in S
    BY <1>4
  <2> HIDE DEF S
  <2>3. version \in S
    BY <2>1, <2>2, SetInduction
  <2> QED  BY <2>3 DEF S
<1>6. Upto(version) = GarbageBelow(g, boundary)
  <2>1. Due(version) = {w \in DOMAIN g : w < boundary}
    OBVIOUS
  <2> QED  BY <2>1 DEF GarbageBelow
<1> HIDE DEF Upto
<1> DEFINE d == FreeBelow(c, g, boundary)
<1> DEFINE freed == F[version]
<1>7. d = [c EXCEPT !.alloc = freed]
  BY <1>2
<1> HIDE DEF d, freed
<1>8. /\ ContextRecord(d)
      /\ d.alloc = freed
      /\ d.heap = c.heap /\ d.strings = c.strings /\ d.allocated = c.allocated
      /\ d.retired = c.retired /\ d.interned = c.interned
      /\ d.bumpBefore = c.bumpBefore /\ d.err = c.err
  BY <1>7 DEF ContextRecord
<1> HIDE DEF Upto
<1> QED  BY <1>5, <1>6, <1>8 DEF d, freed

-----------------------------------------------------------------------------
\* Who holds the blocks, once a write has taken some.
LEMMA OwnershipExtends ==
  ASSUME NEW own, NEW left, NEW c, NEW d, Context(c), c.allocated = <<>>,
         Ownership(own, left, c), Extends(c, d)
  PROVE  Ownership(own, left, d)
<1>1. /\ InUse(d.alloc) = InUse(c.alloc) \union Fresh(c, d)
      /\ InUse(c.alloc) \cap Fresh(c, d) = {}
      /\ Context(d)
      /\ \A o \in DOMAIN c.alloc.header :
           o \in DOMAIN d.alloc.header /\ d.alloc.header[o] = c.alloc.header[o]
      /\ \A t \in DOMAIN c.strings : t \in DOMAIN d.strings /\ d.strings[t] = c.strings[t]
  BY DEF Extends, Grows
<1>2. Stranded(c.alloc) \subseteq Stranded(d.alloc)
  BY <1>1 DEF Stranded
<1>3. ToSet(c.allocated) = {}
  BY EmptySequence
<1>4. /\ StringsOf(c) \subseteq StringsOf(d)
      /\ ToSet(d.allocated) \union StringsOf(d) = StringsOf(c) \union Fresh(c, d)
  <2>1. StringsOf(c) \subseteq StringsOf(d)
    BY <1>1 DEF StringsOf
  <2> QED  BY <1>3, <2>1 DEF Fresh
<1> DEFINE U == InUse(c.alloc)
           F == Fresh(c, d)
           T == StringsOf(c)
<1>5. /\ \A v \in DOMAIN own : /\ IsInjective(own[v])
                               /\ ToSet(own[v]) \subseteq U
                               /\ ToSet(own[v]) \cap (T \union left) = {}
      /\ \A v, w \in DOMAIN own : v # w => ToSet(own[v]) \cap ToSet(own[w]) = {}
      /\ left \subseteq U /\ left \cap T = {}
      /\ \A o \in U : \/ \E v \in DOMAIN own : o \in ToSet(own[v])
                      \/ o \in T \union Stranded(c.alloc) \union left
  BY <1>3 DEF Ownership
<1>6. InUse(d.alloc) = U \union F /\ U \cap F = {}
      /\ ToSet(d.allocated) \union StringsOf(d) = T \union F
  BY <1>1, <1>4
<1> HIDE DEF U, F, T
<1>7. ASSUME NEW v \in DOMAIN own
      PROVE  /\ IsInjective(own[v])
             /\ ToSet(own[v]) \subseteq InUse(d.alloc)
             /\ ToSet(own[v]) \cap (ToSet(d.allocated) \union StringsOf(d) \union left) = {}
  BY <1>5, <1>6
<1>8. left \subseteq InUse(d.alloc) /\ left \cap (ToSet(d.allocated) \union StringsOf(d)) = {}
  BY <1>5, <1>6
<1>9. ASSUME NEW o \in InUse(d.alloc)
      PROVE  \/ \E v \in DOMAIN own : o \in ToSet(own[v])
             \/ o \in ToSet(d.allocated) \union StringsOf(d) \union Stranded(d.alloc)
                        \union left
  BY <1>2, <1>5, <1>6
<1> QED  BY <1>5, <1>7, <1>8, <1>9 DEF Ownership

\* Some versions go, and the blocks they were answerable for are freed.
LEMMA OwnershipFreed ==
  ASSUME NEW own, NEW left, NEW c, NEW d, Ownership(own, left, c), NEW f,
         \A v \in DOMAIN f : v \in DOMAIN own /\ f[v] = own[v],
         \A o \in InUse(d.alloc) : o \in InUse(c.alloc),
         \A o \in InUse(c.alloc) : o \notin InUse(d.alloc) =>
           \E v \in DOMAIN own \ DOMAIN f : o \in ToSet(own[v]),
         \A v \in DOMAIN own \ DOMAIN f : \A o \in ToSet(own[v]) :
           o \in InUse(d.alloc) => o \in Stranded(c.alloc),
         Stranded(d.alloc) = Stranded(c.alloc),
         StringsOf(d) = StringsOf(c), ToSet(d.allocated) = ToSet(c.allocated)
  PROVE  Ownership(f, left, d)
<1> DEFINE T == ToSet(c.allocated) \union StringsOf(c)
<1>1. /\ \A v \in DOMAIN own : /\ IsInjective(own[v])
                               /\ ToSet(own[v]) \subseteq InUse(c.alloc)
                               /\ ToSet(own[v]) \cap (T \union left) = {}
      /\ \A v, w \in DOMAIN own : v # w => ToSet(own[v]) \cap ToSet(own[w]) = {}
      /\ left \subseteq InUse(c.alloc) /\ left \cap T = {}
      /\ \A o \in InUse(c.alloc) : \/ \E v \in DOMAIN own : o \in ToSet(own[v])
                                   \/ o \in T \union Stranded(c.alloc) \union left
  BY DEF Ownership
<1>2. T = ToSet(d.allocated) \union StringsOf(d)
  OBVIOUS
<1> HIDE DEF T
<1>3. ASSUME NEW v \in DOMAIN f
      PROVE  /\ IsInjective(f[v])
             /\ ToSet(f[v]) \subseteq InUse(d.alloc)
             /\ ToSet(f[v]) \cap (T \union left) = {}
  <2>1. v \in DOMAIN own /\ f[v] = own[v]
    OBVIOUS
  <2>2. ASSUME NEW o \in ToSet(own[v]), o \notin InUse(d.alloc) PROVE FALSE
    <3>1. PICK w \in DOMAIN own \ DOMAIN f : o \in ToSet(own[w])
      BY <1>1, <2>1, <2>2
    <3> QED  BY <1>1, <2>1, <2>2, <3>1
  <2> QED  BY <1>1, <2>1, <2>2
<1>4. \A v, w \in DOMAIN f : v # w => ToSet(f[v]) \cap ToSet(f[w]) = {}
  BY <1>1
<1>5. left \subseteq InUse(d.alloc)
  <2>1. ASSUME NEW o \in left, o \notin InUse(d.alloc) PROVE FALSE
    <3>1. PICK w \in DOMAIN own \ DOMAIN f : o \in ToSet(own[w])
      BY <1>1, <2>1
    <3> QED  BY <1>1, <2>1, <3>1
  <2> QED  BY <2>1
<1>6. ASSUME NEW o \in InUse(d.alloc)
      PROVE  \/ \E v \in DOMAIN f : o \in ToSet(f[v])
             \/ o \in T \union Stranded(d.alloc) \union left
  <2>1. CASE \E v \in DOMAIN own : o \in ToSet(own[v])
    <3>1. PICK v \in DOMAIN own : o \in ToSet(own[v])
      BY <2>1
    <3>2. CASE v \in DOMAIN f
      BY <3>1, <3>2
    <3>3. CASE v \notin DOMAIN f
      BY <3>1, <3>3
    <3> QED  BY <3>2, <3>3
  <2>2. CASE o \in T \union Stranded(c.alloc) \union left
    BY <2>2
  <2> QED  BY <1>1, <2>1, <2>2
<1> QED  BY <1>1, <1>2, <1>3, <1>4, <1>5, <1>6 DEF Ownership

\* Nothing is freed.
LEMMA SameHolders ==
  ASSUME NEW own, NEW left, NEW c, NEW d, Ownership(own, left, c),
         InUse(d.alloc) = InUse(c.alloc), Stranded(d.alloc) = Stranded(c.alloc),
         StringsOf(d) = StringsOf(c), ToSet(d.allocated) = ToSet(c.allocated)
  PROVE  Ownership(own, left, d)
BY DEF Ownership

-----------------------------------------------------------------------------
\* A context with the blocks, the strings and the memory of another, and no journal.
LEMMA ContextLike ==
  ASSUME NEW c, Context(c), NEW d, ContextRecord(d),
         d.heap = c.heap, d.strings = c.strings,
         WellFormed(d.alloc), d.alloc.header = c.alloc.header,
         StringsOf(c) \subseteq InUse(d.alloc)
  PROVE  /\ Context(newContext(d))
         /\ newContext(d).alloc = d.alloc /\ newContext(d).heap = c.heap
         /\ newContext(d).strings = c.strings
         /\ newContext(d).allocated = <<>> /\ newContext(d).interned = <<>>
         /\ newContext(d).bumpBefore = d.alloc.bump
         /\ StringsOf(newContext(d)) = StringsOf(c)
<1> DEFINE e == newContext(d)
<1>1. /\ ContextRecord(e)
      /\ e.alloc = d.alloc /\ e.heap = d.heap /\ e.strings = d.strings
      /\ e.allocated = <<>> /\ e.retired = <<>> /\ e.interned = <<>>
      /\ e.bumpBefore = d.alloc.bump /\ e.err = NoError
  BY NewContextIs
<1> HIDE DEF e
<1>2. StringsOf(e) = StringsOf(c)
  BY <1>1 DEF StringsOf
<1>3. e.strings \in [DOMAIN e.strings -> InUse(e.alloc)]
  <2>1. \A t \in DOMAIN c.strings : c.strings[t] \in InUse(e.alloc)
    BY <1>1 DEF StringsOf
  <2>2. c.strings = [t \in DOMAIN c.strings |-> c.strings[t]]
    BY DEF Context
  <2> QED  BY <1>1, <2>1, <2>2
<1>4. /\ WellFormed(e.alloc) /\ DOMAIN e.alloc.header \subseteq DOMAIN e.heap
      /\ IsInjective(e.strings)
  BY <1>1 DEF Context
<1>5. /\ e.allocated \in Seq(InUse(e.alloc) \ StringsOf(e)) /\ IsInjective(e.allocated)
      /\ e.retired \in Seq(Nat)
      /\ e.interned \in Seq(ToSet(e.interned)) /\ IsInjective(e.interned)
      /\ ToSet(e.interned) \subseteq DOMAIN e.strings
  BY <1>1, EmptySequence
<1>6. Context(e)
  BY <1>1, <1>3, <1>4, <1>5 DEF Context
<1> QED  BY <1>1, <1>2, <1>6 DEF e

\* The next write begins with what there is.
LEMMA NewContextKeeps ==
  ASSUME NEW c, Context(c)
  PROVE  /\ Context(newContext(c))
         /\ newContext(c).alloc = c.alloc /\ newContext(c).heap = c.heap
         /\ newContext(c).strings = c.strings
         /\ newContext(c).allocated = <<>> /\ newContext(c).interned = <<>>
         /\ newContext(c).bumpBefore = c.alloc.bump
         /\ StringsOf(newContext(c)) = StringsOf(c)
<1>1. ContextRecord(c) /\ WellFormed(c.alloc) /\ StringsOf(c) \subseteq InUse(c.alloc)
  BY ContextIs DEF Context
<1> QED  BY <1>1, ContextLike

\* The context a write goes back to is one, with no journal, and what is in use there is
\* in use now.
LEMMA BaseIs ==
  ASSUME LifetimeInv
  PROVE  /\ Context(ctx) /\ Context(Base) /\ Base.allocated = <<>>
         /\ Extends(Base, ctx)
         /\ InUse(Base.alloc) \subseteq InUse(ctx.alloc)
         /\ Ownership(Owned, lost, ctx)
<1>1. Context(ctx) /\ WriteExtends /\ Ownership(Owned, lost, Base)
  BY DEF LifetimeInv, LifetimeTypeOK
<1>2. Context(Base) /\ Base.allocated = <<>> /\ Extends(Base, ctx)
  <2>1. CASE phase = "idle"
    BY <1>1, <2>1, ExtendsItself DEF WriteExtends, Base
  <2>2. CASE phase # "idle"
    BY <1>1, <2>2 DEF WriteExtends, Base
  <2> QED  BY <2>1, <2>2
<1>3. InUse(Base.alloc) \subseteq InUse(ctx.alloc)
  BY <1>2 DEF Extends
<1>4. Ownership(Owned, lost, ctx)
  BY <1>1, <1>2, OwnershipExtends
<1> QED  BY <1>1, <1>2, <1>3, <1>4

\* A step of a write: no version comes or goes, and no reader.
LEMMA WriteStep ==
  ASSUME LifetimeInv, UNCHANGED <<retention, pin, lost>>,
         Context(ctx'), phase' \in {"idle", "writing", "written"},
         WriteExtends', Ownership(Owned, lost, Base'), RejectedWriteLeavesNothing'
  PROVE  LifetimeInv'
<1>1. /\ version' = version /\ garbage' = garbage /\ floor' = floor /\ depth' = depth
      /\ reach' = reach /\ pin' = pin /\ lost' = lost
  BY DEF retention
<1>2. Owned' = Owned
  BY <1>1 DEF Owned
<1>3. Ownership(Owned, lost, Base)'
  BY <1>1, <1>2
<1>4. lost' \subseteq DOMAIN ctx'.alloc.header
  <2>1. lost \subseteq InUse(Base'.alloc)
    BY DEF Ownership
  <2>2. InUse(Base'.alloc) \subseteq InUse(ctx'.alloc)
    <3>1. CASE phase' = "idle"
      BY <3>1 DEF Base
    <3>2. CASE phase' # "idle"
      BY <3>2 DEF Base, WriteExtends, Extends
    <3> QED  BY <3>1, <3>2
  <2> QED  BY <1>1, <2>1, <2>2 DEF InUse
<1>5. LifetimeTypeOK'
  BY <1>1, <1>4 DEF LifetimeInv, LifetimeTypeOK
<1>6. FloorIsHeld' /\ Reached'
  BY <1>1, <1>2 DEF LifetimeInv, FloorIsHeld, Reached
<1> QED  BY <1>3, <1>5, <1>6 DEF LifetimeInv

LEMMA BeginWrite == LifetimeInv /\ beginWrite => LifetimeInv'
<1> SUFFICES ASSUME LifetimeInv, beginWrite PROVE LifetimeInv'
  OBVIOUS
<1>1. /\ phase = "idle" /\ phase' = "writing"
      /\ ctx' = newContext(ctx) /\ opened' = newContext(ctx)
      /\ UNCHANGED <<retention, pin, lost>>
  BY DEF beginWrite
<1>2. Context(ctx) /\ Ownership(Owned, lost, ctx)
  BY BaseIs
<1>3. ctx.allocated = <<>>
  BY <1>1 DEF LifetimeInv, WriteExtends
<1> DEFINE d == newContext(ctx)
<1>4. /\ Context(d) /\ d.alloc = ctx.alloc
      /\ d.allocated = <<>> /\ d.interned = <<>> /\ d.bumpBefore = d.alloc.bump
      /\ StringsOf(d) = StringsOf(ctx)
  BY <1>2, NewContextKeeps
<1>5. ctx' = d /\ opened' = d
  BY <1>1
<1> HIDE DEF d
<1>6. Ownership(Owned, lost, d)
  BY <1>2, <1>3, <1>4, SameHolders
<1>7. Extends(d, d)
  BY <1>4, ExtendsItself
<1>8. WriteExtends'
  BY <1>1, <1>4, <1>5, <1>7 DEF WriteExtends
<1>9. Base' = d
  BY <1>1, <1>5 DEF Base
<1>10. RejectedWriteLeavesNothing'
  BY <1>1 DEF RejectedWriteLeavesNothing
<1> QED  BY <1>1, <1>4, <1>5, <1>6, <1>8, <1>9, <1>10, WriteStep

LEMMA ContinueWrite == LifetimeInv /\ continueWrite => LifetimeInv'
<1> SUFFICES ASSUME LifetimeInv, continueWrite PROVE LifetimeInv'
  OBVIOUS
<1>1. /\ phase # "idle" /\ phase' # "idle" /\ phase' \in {"writing", "written"}
      /\ Extends(ctx, ctx') /\ opened' = opened
      /\ UNCHANGED <<retention, pin, lost>>
  BY DEF continueWrite
<1>2. /\ Context(opened) /\ Extends(opened, ctx)
      /\ opened.allocated = <<>> /\ opened.interned = <<>>
      /\ opened.bumpBefore = opened.alloc.bump
  BY <1>1 DEF LifetimeInv, WriteExtends
<1>3. Extends(opened, ctx')
  BY <1>1, <1>2, ExtendsIsTransitive
<1>4. Context(ctx')
  BY <1>1 DEF Extends
<1>5. WriteExtends'
  BY <1>1, <1>2, <1>3 DEF WriteExtends
<1>6. Base' = Base
  BY <1>1 DEF Base
<1>7. Ownership(Owned, lost, Base')
  BY <1>6 DEF LifetimeInv
<1>8. RejectedWriteLeavesNothing'
  BY <1>1 DEF RejectedWriteLeavesNothing
<1> QED  BY <1>1, <1>4, <1>5, <1>7, <1>8, WriteStep

LEMMA EncodeWrite == LifetimeInv /\ encodeWrite => LifetimeInv'
<1> SUFFICES ASSUME LifetimeInv, encodeWrite PROVE LifetimeInv'
  OBVIOUS
<1> DEFINE d == newContext(ctx)
<1>1. /\ phase = "idle" /\ phase' = "written"
      /\ Extends(d, ctx') /\ opened' = d
      /\ UNCHANGED <<retention, pin, lost>>
  BY DEF encodeWrite
<1>2. Context(ctx) /\ Ownership(Owned, lost, ctx)
  BY BaseIs
<1>3. ctx.allocated = <<>>
  BY <1>1 DEF LifetimeInv, WriteExtends
<1>4. /\ Context(d) /\ d.alloc = ctx.alloc
      /\ d.allocated = <<>> /\ d.interned = <<>> /\ d.bumpBefore = d.alloc.bump
      /\ StringsOf(d) = StringsOf(ctx)
  BY <1>2, NewContextKeeps
<1> HIDE DEF d
<1>5. Ownership(Owned, lost, d)
  BY <1>2, <1>3, <1>4, SameHolders
<1>6. Context(ctx')
  BY <1>1 DEF Extends
<1>7. WriteExtends'
  BY <1>1, <1>4 DEF WriteExtends
<1>8. Base' = d
  BY <1>1 DEF Base
<1>9. RejectedWriteLeavesNothing'
  BY <1>1 DEF RejectedWriteLeavesNothing
<1> QED  BY <1>1, <1>5, <1>6, <1>7, <1>8, <1>9, WriteStep

\* What the write allocated and interned is undone, and nothing else.
LEMMA RejectWrite == LifetimeInv /\ rejectWrite => LifetimeInv'
<1> SUFFICES ASSUME LifetimeInv, rejectWrite PROVE LifetimeInv'
  OBVIOUS
<1> DEFINE r == rollback(ctx)
<1>1. /\ phase # "idle" /\ phase' = "idle"
      /\ ctx' = r /\ opened' = opened
      /\ UNCHANGED <<retention, pin, lost>>
  BY DEF rejectWrite
<1>2. /\ Context(opened) /\ Extends(opened, ctx)
      /\ opened.allocated = <<>> /\ opened.interned = <<>>
      /\ opened.bumpBefore = opened.alloc.bump
      /\ Ownership(Owned, lost, opened)
  BY <1>1 DEF LifetimeInv, WriteExtends, Base
<1>3. /\ Context(r) /\ Footprint(r) = Footprint(opened)
      /\ r.alloc.header = opened.alloc.header /\ r.strings = opened.strings
      /\ InUse(r.alloc) = InUse(opened.alloc) /\ r.allocated = <<>>
  BY <1>2, RollbackRestores
<1> HIDE DEF r
<1>4. Stranded(r.alloc) = Stranded(opened.alloc) /\ StringsOf(r) = StringsOf(opened)
  BY <1>3 DEF Stranded, StringsOf
<1>5. Ownership(Owned, lost, r)
  BY <1>2, <1>3, <1>4, SameHolders
<1>6. Base' = r
  BY <1>1 DEF Base
<1>7. WriteExtends'
  BY <1>1, <1>3 DEF WriteExtends
<1>8. RejectedWriteLeavesNothing'
  BY <1>1, <1>3 DEF RejectedWriteLeavesNothing
<1> QED  BY <1>1, <1>3, <1>5, <1>6, <1>7, <1>8, WriteStep

LEMMA DropWrite == LifetimeInv /\ dropWrite => LifetimeInv'
<1> SUFFICES ASSUME LifetimeInv, dropWrite PROVE LifetimeInv'
  OBVIOUS
<1> DEFINE d == newContext(ctx)
<1>1. /\ phase' = "idle" /\ ctx.allocated = <<>>
      /\ ctx' = d /\ opened' = <<>>
      /\ UNCHANGED <<retention, pin, lost>>
  BY DEF dropWrite
<1>2. Context(ctx) /\ Ownership(Owned, lost, ctx)
  BY BaseIs
<1>3. /\ Context(d) /\ d.alloc = ctx.alloc /\ d.allocated = <<>>
      /\ StringsOf(d) = StringsOf(ctx)
  BY <1>2, NewContextKeeps
<1> HIDE DEF d
<1>4. Ownership(Owned, lost, d)
  BY <1>1, <1>2, <1>3, SameHolders
<1>5. Base' = d
  BY <1>1 DEF Base
<1>6. WriteExtends' /\ RejectedWriteLeavesNothing'
  BY <1>1, <1>3 DEF WriteExtends, RejectedWriteLeavesNothing
<1> QED  BY <1>1, <1>3, <1>4, <1>5, <1>6, WriteStep

-----------------------------------------------------------------------------
\* A reader takes the current version or lets one go: nothing else moves.
LEMMA ReaderStep ==
  ASSUME LifetimeInv, NEW r \in Readers, NEW v \in NoPin..version,
         v # NoPin => v = version,
         pin' = [pin EXCEPT ![r] = v],
         opened' = (IF phase = "idle" THEN <<>> ELSE opened),
         UNCHANGED <<ctx, phase, retention, lost>>
  PROVE  LifetimeInv'
<1>1. /\ version' = version /\ garbage' = garbage /\ floor' = floor /\ depth' = depth
      /\ reach' = reach /\ lost' = lost /\ ctx' = ctx /\ phase' = phase
  BY DEF retention
<1>2. Owned' = Owned
  BY <1>1 DEF Owned
<1>3. Base' = Base
  BY <1>1 DEF Base
<1>4. Ownership(Owned, lost, Base)'
  BY <1>1, <1>2, <1>3 DEF LifetimeInv
<1>5. LifetimeTypeOK'
  BY <1>1 DEF LifetimeInv, LifetimeTypeOK
<1>6. FloorIsHeld'
  <2>1. /\ floor \in 0..version /\ version \in Nat \ {0}
        /\ pin \in [Readers -> NoPin..version]
    BY DEF LifetimeInv, LifetimeTypeOK
  <2>2. ASSUME NEW q \in Readers, pin'[q] # NoPin
        PROVE  floor <= MaxOf(pin'[q], version - RetainedCapacity + 1)
    <3>1. CASE q = r
      <4>1. pin'[q] = version
        BY <2>1, <2>2, <3>1
      <4> QED  BY <2>1, <4>1, RetentionIs DEF MaxOf
    <3>2. CASE q # r
      BY <2>1, <2>2, <3>2 DEF LifetimeInv, FloorIsHeld
    <3> QED  BY <3>1, <3>2
  <2> QED  BY <1>1, <2>2 DEF LifetimeInv, FloorIsHeld
<1>7. WriteExtends' /\ RejectedWriteLeavesNothing'
  BY <1>1 DEF LifetimeInv, WriteExtends, RejectedWriteLeavesNothing
<1>8. Reached'
  BY <1>1, <1>2 DEF LifetimeInv, Reached
<1> QED  BY <1>4, <1>5, <1>6, <1>7, <1>8 DEF LifetimeInv

LEMMA Readings ==
  ASSUME LifetimeInv, NEW r \in Readers, acquireVersion(r) \/ releaseVersion(r)
  PROVE  LifetimeInv'
<1>1. version \in NoPin..version /\ NoPin \in NoPin..version
  BY DEF LifetimeInv, LifetimeTypeOK, NoPin
<1>2. CASE acquireVersion(r)
  BY <1>1, <1>2, ReaderStep DEF acquireVersion
<1>3. CASE releaseVersion(r)
  BY <1>1, <1>3, ReaderStep DEF releaseVersion
<1> QED  BY <1>2, <1>3

-----------------------------------------------------------------------------
\* The garbage below a boundary, and the versions that are answerable for the rest.
LEMMA ReclaimSteps ==
  ASSUME LifetimeInv, reclaim
  PROVE  LET boundary == MinOf(minimumPinnedEpoch, version - depth)
         IN /\ boundary \in Int /\ boundary <= version
            /\ floor' \in 0..version' /\ floor <= floor' /\ boundary <= floor'
            /\ FloorIsHeld'
<1> DEFINE boundary == MinOf(minimumPinnedEpoch, version - depth)
<1>1. /\ version \in Nat \ {0} /\ floor \in 0..version /\ depth \in Nat
      /\ pin \in [Readers -> NoPin..version]
      /\ floor <= MaxOf(0, version - depth)
      /\ \A r \in Readers : pin[r] # NoPin =>
           floor <= MaxOf(pin[r], version - RetainedCapacity + 1)
  BY RetentionIs DEF LifetimeInv, LifetimeTypeOK, FloorIsHeld
<1>2. /\ minimumPinnedEpoch \in Int
      /\ \A r \in Readers : pin[r] # NoPin => minimumPinnedEpoch <= pin[r]
  BY <1>1, SmallestPinned
<1>3. /\ version' = version /\ depth' = depth /\ pin' = pin
      /\ floor' = MaxOf(floor, boundary)
  BY DEF reclaim
<1>4. /\ boundary \in Int /\ boundary <= version - depth
      /\ boundary <= minimumPinnedEpoch
  BY <1>1, <1>2 DEF MinOf
<1> HIDE DEF boundary
<1>5. /\ floor' \in 0..version /\ floor <= floor' /\ boundary <= floor'
      /\ floor' <= MaxOf(0, version - depth)
  BY <1>1, <1>3, <1>4 DEF MaxOf
<1>6. ASSUME NEW r \in Readers, pin[r] # NoPin
      PROVE  floor' <= MaxOf(pin[r], version - RetainedCapacity + 1)
  <2>1. pin[r] \in Int /\ boundary <= pin[r]
    BY <1>1, <1>2, <1>4, <1>6 DEF NoPin
  <2>2. floor <= MaxOf(pin[r], version - RetainedCapacity + 1)
    BY <1>1, <1>6
  <2> QED  BY <1>1, <1>3, <1>4, <2>1, <2>2, RetentionIs DEF MaxOf
<1> QED  BY <1>1, <1>3, <1>4, <1>5, <1>6 DEF boundary, FloorIsHeld

LEMMA Reclaim == LifetimeInv /\ reclaim => LifetimeInv'
<1> SUFFICES ASSUME LifetimeInv, reclaim PROVE LifetimeInv'
  OBVIOUS
<1> DEFINE boundary == MinOf(minimumPinnedEpoch, version - depth)
           d == FreeBelow(ctx, garbage, boundary)
<1>1. /\ boundary \in Int /\ boundary <= version
      /\ floor' \in 0..version' /\ floor <= floor' /\ boundary <= floor'
      /\ FloorIsHeld'
  BY ReclaimSteps
<1>2. /\ phase = "idle" /\ phase' = "idle" /\ ctx' = d
      /\ garbage' = KeepFrom(garbage, boundary)
      /\ reach' = KeepFrom(reach, floor')
      /\ opened' = <<>>
      /\ version' = version /\ depth' = depth /\ pin' = pin /\ lost' = lost
  BY DEF reclaim
<1>3. /\ Context(ctx) /\ ctx.allocated = <<>> /\ Ownership(Owned, lost, ctx)
      /\ LifetimeTypeOK /\ Reached
  BY <1>2, BaseIs DEF LifetimeInv, WriteExtends
<1>4. /\ DOMAIN Owned = DOMAIN garbage \union {version}
      /\ Owned[version] = reach[version]
      /\ \A v \in DOMAIN garbage : v # version /\ Owned[v] = garbage[v]
      /\ \A v \in DOMAIN Owned : Owned[v] \in Seq(Nat)
      /\ version \in DOMAIN reach
  BY <1>3, OwnedIs
<1> HIDE DEF boundary
<1>5. \A v \in DOMAIN garbage :
        garbage[v] \in Seq(InUse(ctx.alloc)) /\ IsInjective(garbage[v])
  <2> SUFFICES ASSUME NEW v \in DOMAIN garbage
               PROVE  garbage[v] \in Seq(InUse(ctx.alloc)) /\ IsInjective(garbage[v])
    OBVIOUS
  <2>1. ToSet(garbage[v]) \subseteq InUse(ctx.alloc) /\ IsInjective(garbage[v])
    BY <1>3, <1>4 DEF Ownership
  <2> QED  BY <1>4, <2>1, SeqOver
<1>6. \A v, w \in DOMAIN garbage : v # w => ToSet(garbage[v]) \cap ToSet(garbage[w]) = {}
  BY <1>3, <1>4 DEF Ownership
<1>7. /\ ContextRecord(d)
      /\ d.heap = ctx.heap /\ d.strings = ctx.strings /\ d.allocated = ctx.allocated
      /\ d.retired = ctx.retired /\ d.interned = ctx.interned /\ d.err = ctx.err
      /\ WellFormed(d.alloc)
      /\ d.alloc.header = ctx.alloc.header
      /\ InUse(d.alloc) = InUse(ctx.alloc)
                            \ (GarbageBelow(garbage, boundary) \ Stranded(ctx.alloc))
  <2>1. /\ ContextRecord(ctx) /\ WellFormed(ctx.alloc) /\ version \in Nat
        /\ DOMAIN garbage \subseteq 1..version
    BY <1>3 DEF Context, LifetimeTypeOK
  <2> QED  BY <1>1, <1>5, <1>6, <2>1, FreeBelowIsSound
<1> HIDE DEF d
<1>8. /\ \A v : v \in DOMAIN garbage' <=> v \in DOMAIN garbage /\ boundary <= v
      /\ \A v \in DOMAIN garbage' : garbage'[v] = garbage[v]
  BY <1>2, KeptFrom
<1>9. /\ \A v : v \in DOMAIN reach' <=> v \in DOMAIN reach /\ floor' <= v
      /\ \A v \in DOMAIN reach' : reach'[v] = reach[v]
  BY <1>2, KeptFrom
<1>10. /\ \A v : v \in DOMAIN Owned' <=> v \in DOMAIN garbage' \/ v = version
       /\ Owned'[version] = reach[version]
       /\ \A v \in DOMAIN garbage' : v # version => Owned'[v] = garbage'[v]
  <2> DEFINE last == reach'[version']
  <2>1. Owned' = With(garbage', version, last)
    BY <1>2 DEF Owned
  <2>2. last = reach[version]
    BY <1>1, <1>2, <1>4, <1>9
  <2> HIDE DEF last
  <2>3. /\ \A v : v \in DOMAIN With(garbage', version, last)
                    <=> v \in DOMAIN garbage' \/ v = version
        /\ With(garbage', version, last)[version] = last
        /\ \A v \in DOMAIN garbage' :
             v # version => With(garbage', version, last)[v] = garbage'[v]
    BY WithIs
  <2> QED  BY <2>1, <2>2, <2>3
<1>11. Ownership(Owned', lost, d)
  <2> DEFINE f == Owned'
  <2>1. \A v \in DOMAIN f : v \in DOMAIN Owned /\ f[v] = Owned[v]
    BY <1>4, <1>8, <1>10
  <2>2. \A v \in DOMAIN Owned \ DOMAIN f :
          v \in DOMAIN garbage /\ v < boundary /\ Owned[v] = garbage[v]
    <3>1. \A v \in DOMAIN garbage : v \in Int
      BY <1>3 DEF LifetimeTypeOK
    <3> QED  BY <1>1, <1>4, <1>8, <1>10, <3>1
  <2>3. \A v \in DOMAIN garbage : v < boundary => v \in DOMAIN Owned \ DOMAIN f
    <3>1. \A v \in DOMAIN garbage : v \in Int
      BY <1>3 DEF LifetimeTypeOK
    <3> QED  BY <1>1, <1>4, <1>8, <1>10, <3>1
  <2> HIDE DEF f
  <2>4. \A o \in InUse(ctx.alloc) : o \notin InUse(d.alloc) =>
          \E v \in DOMAIN Owned \ DOMAIN f : o \in ToSet(Owned[v])
    BY <1>4, <1>7, <2>3 DEF GarbageBelow
  <2>5. \A v \in DOMAIN Owned \ DOMAIN f : \A o \in ToSet(Owned[v]) :
          o \in InUse(d.alloc) => o \in Stranded(ctx.alloc)
    BY <1>7, <2>2 DEF GarbageBelow
  <2>6. Stranded(d.alloc) = Stranded(ctx.alloc) /\ StringsOf(d) = StringsOf(ctx)
    BY <1>7 DEF Stranded, StringsOf
  <2>7. Ownership(f, lost, d)
    BY <1>3, <1>7, <2>1, <2>4, <2>5, <2>6, OwnershipFreed
  <2> QED  BY <2>7 DEF f
<1>12. Context(d)
  <2>1. StringsOf(d) = StringsOf(ctx)
    BY <1>7 DEF StringsOf
  <2>2. StringsOf(ctx) \subseteq InUse(d.alloc)
    <3>1. \A v \in DOMAIN garbage : ToSet(garbage[v]) \cap StringsOf(ctx) = {}
      BY <1>3, <1>4 DEF Ownership
    <3>2. GarbageBelow(garbage, boundary) \cap StringsOf(ctx) = {}
      BY <3>1 DEF GarbageBelow
    <3> QED  BY <1>3, <1>7, <3>2, ContextIs
  <2>3. d.strings \in [DOMAIN d.strings -> InUse(d.alloc)]
    <3>1. \A t \in DOMAIN ctx.strings : ctx.strings[t] \in InUse(d.alloc)
      BY <2>2 DEF StringsOf
    <3>2. ctx.strings = [t \in DOMAIN ctx.strings |-> ctx.strings[t]]
      BY <1>3 DEF Context
    <3> QED  BY <1>7, <3>1, <3>2
  <2>4. d.allocated \in Seq(InUse(d.alloc) \ StringsOf(d))
    BY <1>3, <1>7, EmptySequence
  <2> QED  BY <1>3, <1>7, <2>3, <2>4 DEF Context
<1>13. LifetimeTypeOK'
  <2>1. /\ DOMAIN garbage' \subseteq 1..(version' - 1)
        /\ garbage' \in [DOMAIN garbage' -> Seq(Nat)]
    <3>1. garbage' = [v \in DOMAIN garbage' |-> garbage'[v]]
      BY <1>2 DEF KeepFrom, Restrict
    <3> QED  BY <1>2, <1>3, <1>4, <1>8, <3>1 DEF LifetimeTypeOK
  <2>2. reach' \in [MaxOf(floor', 1)..version' -> Seq(Nat)]
    <3>1. reach' = [v \in DOMAIN reach' |-> reach'[v]]
      BY <1>2 DEF KeepFrom, Restrict
    <3>2. /\ DOMAIN reach = MaxOf(floor, 1)..version
          /\ \A v \in DOMAIN reach : reach[v] \in Seq(Nat)
          /\ floor \in 0..version /\ version \in Nat
      BY <1>3 DEF LifetimeTypeOK
    <3>3. DOMAIN reach' = MaxOf(floor', 1)..version'
      <4>1. floor' \in Nat /\ floor \in Nat /\ floor <= floor'
        BY <1>1, <1>2, <3>2
      <4>2. \A v : v \in MaxOf(floor, 1)..version /\ floor' <= v
                     <=> v \in MaxOf(floor', 1)..version
        BY <3>2, <4>1, Window
      <4> QED  BY <1>2, <1>9, <3>2, <4>2
    <3> QED  BY <1>9, <3>1, <3>2, <3>3
  <2>3. lost' \subseteq DOMAIN ctx'.alloc.header
    BY <1>2, <1>3, <1>7 DEF LifetimeTypeOK
  <2> QED  BY <1>1, <1>2, <1>3, <1>12, <2>1, <2>2, <2>3 DEF LifetimeTypeOK
<1>14. Reached'
  <2> SUFFICES ASSUME NEW v \in DOMAIN reach', NEW o \in ToSet(reach'[v]), o \notin lost'
               PROVE  \E w \in DOMAIN Owned' : v <= w /\ o \in ToSet(Owned'[w])
    BY DEF Reached
  <2>1. v \in DOMAIN reach /\ floor' <= v /\ reach'[v] = reach[v]
    BY <1>9
  <2>2. PICK w \in DOMAIN Owned : v <= w /\ o \in ToSet(Owned[w])
    BY <1>2, <1>3, <2>1 DEF Reached
  <2>3. boundary <= w
    <3>1. v \in Int
      BY <1>3, <2>1 DEF LifetimeTypeOK, MaxOf
    <3>2. w \in Int
      BY <1>3, <1>4, <2>2 DEF LifetimeTypeOK
    <3>3. floor' \in Int
      BY <1>1, <1>2, <1>3 DEF LifetimeTypeOK
    <3> QED  BY <1>1, <2>1, <2>2, <3>1, <3>2, <3>3
  <2>4. w \in DOMAIN Owned' /\ Owned'[w] = Owned[w]
    BY <1>4, <1>8, <1>10, <2>3
  <2> QED  BY <2>2, <2>4
<1>15. WriteExtends' /\ RejectedWriteLeavesNothing'
  BY <1>2, <1>3, <1>7 DEF WriteExtends, RejectedWriteLeavesNothing
<1>16. Base' = d
  BY <1>2 DEF Base
<1>17. Ownership(Owned, lost, Base)'
  BY <1>2, <1>11, <1>16
<1> QED  BY <1>1, <1>13, <1>14, <1>15, <1>17 DEF LifetimeInv

-----------------------------------------------------------------------------
\* The context the next owner has: the blocks are where they were, all of them in use.
LEMMA TakenOverIs ==
  ASSUME NEW c, Context(c)
  PROVE  LET d == TakenOver(c)
         IN /\ Context(d)
            /\ d.allocated = <<>> /\ d.heap = c.heap
            /\ d.alloc.header = c.alloc.header
            /\ InUse(d.alloc) = DOMAIN c.alloc.header
            /\ StringsOf(d) = {}
<1> DEFINE none == [i \in Classes |-> <<>>]
           a    == [c.alloc EXCEPT !.free = none]
           e    == [c EXCEPT !.alloc.free = none, !.strings = <<>>]
           d    == TakenOver(c)
<1>1. /\ Typed(c.alloc) /\ Bounded(c.alloc) /\ Placement(c.alloc) /\ Apart(c.alloc)
      /\ ContextRecord(c)
  BY DEF Context, WellFormed
<1>2. /\ a.bump = c.alloc.bump /\ a.bytes = c.alloc.bytes /\ a.header = c.alloc.header
      /\ a.free = none
      /\ a = [bump |-> a.bump, bytes |-> a.bytes, free |-> a.free, header |-> a.header]
  BY <1>1 DEF Typed
<1>3. e = [c EXCEPT !.alloc = a, !.strings = <<>>]
  BY <1>1 DEF ContextRecord
<1> HIDE DEF a, e
<1>4. /\ ContextRecord(e) /\ e.alloc = a /\ e.heap = c.heap /\ e.strings = <<>>
  BY <1>1, <1>3 DEF ContextRecord
<1>5. d = newContext(e)
  BY DEF TakenOver, e
<1> HIDE DEF d
<1>6. /\ ContextRecord(d)
      /\ d.alloc = a /\ d.heap = c.heap /\ d.strings = <<>>
      /\ d.allocated = <<>> /\ d.retired = <<>> /\ d.interned = <<>>
      /\ d.err = NoError
  BY <1>4, <1>5, NewContextIs
<1>7. none \in [Classes -> Seq(Nat)] /\ \A i \in Classes : none[i] = <<>>
  OBVIOUS
<1>8. FreeBlocks(a) = {}
  BY <1>2, <1>7, EmptySequence DEF FreeBlocks
<1> HIDE DEF none
<1>9. InUse(a) = DOMAIN c.alloc.header
  BY <1>2, <1>8 DEF InUse
<1>10. WellFormed(a)
  <2>1. Typed(a)
    BY <1>1, <1>2, <1>7 DEF Typed
  <2>2. Bounded(a) /\ Placement(a) /\ Apart(a)
    BY <1>1, <1>2 DEF Bounded, Placement, Apart
  <2>3. Lists(a)
    BY <1>2, <1>7 DEF Lists
  <2> QED  BY <2>1, <2>2, <2>3 DEF WellFormed
<1>11. /\ DOMAIN d.strings = {}
       /\ d.strings \in [DOMAIN d.strings -> InUse(d.alloc)] /\ IsInjective(d.strings)
  BY <1>6 DEF IsInjective
<1>12. StringsOf(d) = {}
  BY <1>11 DEF StringsOf
<1>13. /\ d.allocated \in Seq(InUse(d.alloc) \ StringsOf(d)) /\ IsInjective(d.allocated)
       /\ d.retired \in Seq(Nat)
       /\ d.interned \in Seq(ToSet(d.interned)) /\ IsInjective(d.interned)
       /\ ToSet(d.interned) \subseteq DOMAIN d.strings
  BY <1>6, EmptySequence
<1>14. WellFormed(d.alloc) /\ DOMAIN d.alloc.header \subseteq DOMAIN d.heap
  BY <1>2, <1>6, <1>10 DEF Context
<1>15. Context(d)
  BY <1>6, <1>11, <1>13, <1>14 DEF Context
<1> QED  BY <1>2, <1>6, <1>9, <1>12, <1>15 DEF d

\* The next owner holds what the version reaches; the rest is nobody's.
LEMMA AdoptArena == LifetimeInv /\ adoptArena => LifetimeInv'
<1> SUFFICES ASSUME LifetimeInv, adoptArena PROVE LifetimeInv'
  OBVIOUS
<1> DEFINE d    == TakenOver(ctx)
           last == reach[version]
           left == lost \union (DOMAIN ctx.alloc.header \ ToSet(last))
<1>1. /\ phase' = "idle" /\ ctx' = d /\ lost' = left
      /\ garbage' = <<>> /\ depth' = 0 /\ opened' = <<>>
      /\ version' = version /\ floor' = floor /\ pin' = pin /\ reach' = reach
  BY DEF adoptArena
<1>2. /\ Context(ctx) /\ Ownership(Owned, lost, ctx) /\ LifetimeTypeOK /\ Reached
  BY BaseIs DEF LifetimeInv
<1>3. /\ Context(d)
      /\ d.allocated = <<>> /\ d.heap = ctx.heap
      /\ d.alloc.header = ctx.alloc.header
      /\ InUse(d.alloc) = DOMAIN ctx.alloc.header
      /\ StringsOf(d) = {}
  BY <1>2, TakenOverIs
<1> HIDE DEF d
<1>4. /\ DOMAIN Owned = DOMAIN garbage \union {version}
      /\ Owned[version] = last
      /\ last \in Seq(Nat)
  BY <1>2, OwnedIs
<1>5. /\ \A v \in DOMAIN Owned : /\ ToSet(Owned[v]) \subseteq InUse(ctx.alloc)
                                 /\ ToSet(Owned[v]) \cap lost = {}
      /\ IsInjective(last)
      /\ lost \subseteq InUse(ctx.alloc)
  BY <1>2, <1>4 DEF Ownership
<1>6. InUse(ctx.alloc) \subseteq DOMAIN ctx.alloc.header
  BY DEF InUse
<1>7. /\ \A v : v \in DOMAIN Owned' <=> v = version
      /\ Owned'[version] = last
  <2>1. Owned' = With(<<>>, version, last)
    BY <1>1 DEF Owned
  <2> HIDE DEF last
  <2>2. /\ \A v : v \in DOMAIN With(<<>>, version, last) <=> v \in DOMAIN <<>> \/ v = version
        /\ With(<<>>, version, last)[version] = last
    BY WithIs
  <2>3. DOMAIN <<>> = {}
    OBVIOUS
  <2> QED  BY <2>1, <2>2, <2>3
<1> DEFINE f == Owned'
<1>8. Ownership(f, left, d)
  <2>1. ToSet(d.allocated) = {} /\ StringsOf(d) = {}
    BY <1>3, EmptySequence
  <2>2. ToSet(last) \subseteq InUse(d.alloc) /\ left \subseteq InUse(d.alloc)
    BY <1>3, <1>4, <1>5, <1>6
  <2>3. ToSet(last) \cap left = {}
    BY <1>4, <1>5
  <2>4. \A o \in InUse(d.alloc) : o \in ToSet(last) \/ o \in left
    BY <1>3
  <2>5. /\ \A v \in DOMAIN f : v = version /\ f[v] = last
        /\ version \in DOMAIN f
    BY <1>7
  <2> HIDE DEF f, last, left
  <2> QED  BY <1>5, <2>1, <2>2, <2>3, <2>4, <2>5 DEF Ownership
<1>9. Reached'
  <2> SUFFICES ASSUME NEW v \in DOMAIN reach, NEW o \in ToSet(reach[v]), o \notin left
               PROVE  \E w \in DOMAIN Owned' : v <= w /\ o \in ToSet(Owned'[w])
    BY <1>1 DEF Reached
  <2>1. PICK w \in DOMAIN Owned : o \in ToSet(Owned[w])
    BY <1>2 DEF Reached
  <2>2. o \in ToSet(last)
    BY <1>5, <1>6, <2>1
  <2>3. v <= version
    BY <1>2 DEF LifetimeTypeOK, MaxOf
  <2> QED  BY <1>7, <2>2, <2>3
<1>10. LifetimeTypeOK'
  <2>1. /\ DOMAIN garbage' \subseteq 1..(version' - 1)
        /\ garbage' \in [DOMAIN garbage' -> Seq(Nat)]
    BY <1>1
  <2>2. lost' \subseteq DOMAIN ctx'.alloc.header
    BY <1>1, <1>3, <1>5, <1>6
  <2>3. depth' \in 0..HistoryDepth
    BY <1>1, RetentionIs
  <2> HIDE DEF left
  <2> QED  BY <1>1, <1>2, <1>3, <2>1, <2>2, <2>3 DEF LifetimeTypeOK
<1>11. FloorIsHeld'
  <2>1. floor \in 0..version /\ version \in Nat
    BY <1>2 DEF LifetimeTypeOK
  <2>2. floor' <= MaxOf(0, version' - depth')
    BY <1>1, <2>1 DEF MaxOf
  <2> HIDE DEF left
  <2> QED  BY <1>1, <2>2 DEF LifetimeInv, FloorIsHeld
<1>12. WriteExtends' /\ RejectedWriteLeavesNothing'
  BY <1>1, <1>3 DEF WriteExtends, RejectedWriteLeavesNothing
<1>13. Ownership(Owned, lost, Base)'
  <2>1. Base' = d
    BY <1>1 DEF Base
  <2> HIDE DEF left
  <2> QED  BY <1>1, <1>8, <2>1
<1> QED  BY <1>9, <1>10, <1>11, <1>12, <1>13 DEF LifetimeInv

-----------------------------------------------------------------------------
\* The first version that the ring has a place for once the next one is published, and the
\* first that a reader or the history holds.
Spared == version + 1 - RetainedCapacity + 1
Boundary == MinOf(minimumPinnedEpoch, version + 1 - depth)

\* Where #install leaves the floor.
LEMMA PublishWindow ==
  ASSUME LifetimeInv, NEW blocks, publish(blocks)
  PROVE  /\ Spared \in Int /\ Boundary \in Int
         /\ Spared <= version + 1 /\ Boundary <= version + 1
         /\ floor \in Nat /\ floor' \in 0..(version + 1) /\ floor <= floor'
         /\ Boundary <= floor' /\ (2 <= Spared => Spared <= floor')
         /\ FloorIsHeld'
<1> DEFINE next     == version + 1
           evicted  == next - RetainedCapacity
           evictTo  == IF evicted < 1 THEN floor ELSE MaxOf(floor, evicted + 1)
           boundary == MinOf(minimumPinnedEpoch, next - depth)
<1>1. /\ version \in Nat \ {0} /\ floor \in 0..version
      /\ depth \in Nat /\ depth <= RetainedCapacity - 1
      /\ pin \in [Readers -> NoPin..version]
      /\ floor <= MaxOf(0, version - depth)
      /\ \A r \in Readers : pin[r] # NoPin =>
           floor <= MaxOf(pin[r], version - RetainedCapacity + 1)
  BY RetentionIs DEF LifetimeInv, LifetimeTypeOK, FloorIsHeld
<1>2. /\ minimumPinnedEpoch \in Int
      /\ \A r \in Readers : pin[r] # NoPin => minimumPinnedEpoch <= pin[r]
  BY <1>1, SmallestPinned
<1>3. /\ version' = next /\ depth' = depth /\ pin' = pin
      /\ floor' = MaxOf(evictTo, boundary)
  BY DEF publish, Install
<1>4. /\ boundary \in Int /\ boundary <= next - depth
      /\ boundary <= minimumPinnedEpoch
  BY <1>1, <1>2 DEF MinOf
<1> HIDE DEF boundary
<1>5. /\ evictTo \in Nat /\ floor <= evictTo /\ evictTo <= next
      /\ (1 <= evicted => evicted + 1 <= evictTo)
      /\ (evictTo = floor \/ evictTo = evicted + 1)
  BY <1>1, RetentionIs DEF MaxOf
<1> HIDE DEF evictTo
<1>6. /\ floor' \in 0..next /\ floor <= floor' /\ boundary <= floor'
      /\ (1 <= evicted => evicted + 1 <= floor')
      /\ (floor' = floor \/ floor' = evicted + 1 \/ floor' = boundary)
  BY <1>1, <1>3, <1>4, <1>5, RetentionIs DEF MaxOf
<1>7. floor' <= MaxOf(0, next - depth)
  BY <1>1, <1>4, <1>6, RetentionIs DEF MaxOf
<1>8. ASSUME NEW r \in Readers, pin[r] # NoPin
      PROVE  floor' <= MaxOf(pin[r], next - RetainedCapacity + 1)
  <2>1. pin[r] \in Int /\ boundary <= pin[r]
    BY <1>1, <1>2, <1>4, <1>8 DEF NoPin
  <2>2. floor <= MaxOf(pin[r], version - RetainedCapacity + 1)
    BY <1>1, <1>8
  <2> QED  BY <1>1, <1>6, <2>1, <2>2, RetentionIs DEF MaxOf
<1>9. FloorIsHeld'
  BY <1>3, <1>7, <1>8 DEF FloorIsHeld
<1> QED  BY <1>1, <1>4, <1>6, <1>9, RetentionIs DEF boundary, Boundary, Spared

\* Every block of the version before and of the write belongs to the next version or is
\* retired with the one before.
HandedOver(blocks) == With(With(garbage, version, ctx.retired), version + 1, blocks)

LEMMA HandedOverIs ==
  ASSUME LifetimeTypeOK, NEW blocks
  PROVE  /\ \A v : v \in DOMAIN HandedOver(blocks)
                     <=> v \in DOMAIN garbage \/ v = version \/ v = version + 1
         /\ HandedOver(blocks)[version + 1] = blocks
         /\ HandedOver(blocks)[version] = ctx.retired
         /\ \A v \in DOMAIN garbage : HandedOver(blocks)[v] = garbage[v]
<1> DEFINE retired == ctx.retired
           g == With(garbage, version, retired)
           h == With(g, version + 1, blocks)
<1>1. /\ version \in Nat \ {0}
      /\ \A v \in DOMAIN garbage : v \in 1..(version - 1)
  BY DEF LifetimeTypeOK
<1>2. HandedOver(blocks) = h
  BY DEF HandedOver
<1> HIDE DEF retired
<1>3. /\ \A v : v \in DOMAIN g <=> v \in DOMAIN garbage \/ v = version
      /\ g[version] = retired
      /\ \A v \in DOMAIN garbage : v # version => g[v] = garbage[v]
  BY WithIs
<1> HIDE DEF g
<1>4. /\ \A v : v \in DOMAIN h <=> v \in DOMAIN g \/ v = version + 1
      /\ h[version + 1] = blocks
      /\ \A v \in DOMAIN g : v # version + 1 => h[v] = g[v]
  BY WithIs
<1> HIDE DEF h
<1>5. \A v \in DOMAIN garbage : v # version /\ v # version + 1
  BY <1>1
<1>6. version # version + 1
  BY <1>1
<1> QED  BY <1>2, <1>3, <1>4, <1>5, <1>6 DEF retired

LEMMA HandOver ==
  ASSUME LifetimeInv, NEW blocks, Replaces(blocks)
  PROVE  Ownership(HandedOver(blocks), lost, newContext(ctx))
<1> DEFINE h == HandedOver(blocks)
           A == ToSet(ctx.allocated)
           T == StringsOf(ctx)
           V == ToSet(reach[version])
           n == newContext(ctx)
<1>1. Context(ctx) /\ Ownership(Owned, lost, ctx) /\ LifetimeTypeOK
  BY BaseIs DEF LifetimeInv
<1>2. /\ n.alloc = ctx.alloc /\ ToSet(n.allocated) = {} /\ StringsOf(n) = T
  BY <1>1, NewContextKeeps, EmptySequence
<1> HIDE DEF n
<1>3. /\ DOMAIN Owned = DOMAIN garbage \union {version}
      /\ Owned[version] = reach[version]
      /\ \A v \in DOMAIN garbage : v # version /\ Owned[v] = garbage[v]
  BY <1>1, OwnedIs
<1>4. /\ \A v : v \in DOMAIN h <=> v \in DOMAIN garbage \/ v = version \/ v = version + 1
      /\ h[version + 1] = blocks
      /\ h[version] = ctx.retired
      /\ \A v \in DOMAIN garbage : h[v] = garbage[v]
  BY <1>1, HandedOverIs
<1> HIDE DEF h
<1> DEFINE G(v) == ToSet(garbage[v])
<1>5. /\ \A v \in DOMAIN garbage : /\ IsInjective(garbage[v])
                                   /\ G(v) \subseteq InUse(ctx.alloc)
                                   /\ G(v) \cap (A \union T \union lost) = {}
                                   /\ G(v) \cap V = {}
      /\ V \subseteq InUse(ctx.alloc)
      /\ V \cap (A \union T \union lost) = {}
      /\ \A v, w \in DOMAIN garbage : v # w => G(v) \cap G(w) = {}
      /\ lost \subseteq InUse(ctx.alloc) /\ lost \cap (A \union T) = {}
      /\ \A o \in InUse(ctx.alloc) :
           \/ \E v \in DOMAIN garbage : o \in G(v)
           \/ o \in V \union A \union T \union Stranded(ctx.alloc) \union lost
  <2>1. \A v \in DOMAIN Owned : v = version \/ v \in DOMAIN garbage
    BY <1>3
  <2> QED  BY <1>1, <1>3, <2>1 DEF Ownership
<1>6. A \subseteq InUse(ctx.alloc) /\ A \cap T = {}
  BY <1>1, ContextIs
<1> DEFINE B == ToSet(blocks)
           R == ToSet(ctx.retired)
<1>7. /\ IsInjective(blocks) /\ IsInjective(ctx.retired)
      /\ B \cap R = {} /\ B \union R = V \union A
  BY DEF Replaces
<1> HIDE DEF A, T, V, B, R, G
<1>8. ASSUME NEW v \in DOMAIN h
      PROVE  /\ IsInjective(h[v])
             /\ ToSet(h[v]) \subseteq InUse(ctx.alloc)
             /\ ToSet(h[v]) \cap (T \union lost) = {}
  <2>1. CASE v = version + 1
    BY <1>4, <1>5, <1>6, <1>7, <2>1 DEF B
  <2>2. CASE v = version
    BY <1>4, <1>5, <1>6, <1>7, <2>2 DEF R
  <2>3. CASE v \in DOMAIN garbage
    BY <1>4, <1>5, <2>3 DEF G
  <2> QED  BY <1>4, <2>1, <2>2, <2>3
<1>9. ASSUME NEW v \in DOMAIN h, NEW w \in DOMAIN h, v # w
      PROVE  ToSet(h[v]) \cap ToSet(h[w]) = {}
  <2>1. \A u \in DOMAIN garbage : G(u) \cap B = {} /\ G(u) \cap R = {}
    BY <1>5, <1>7
  <2>2. \A u \in DOMAIN garbage : ToSet(h[u]) = G(u)
    BY <1>4 DEF G
  <2>3. ToSet(h[version]) = R /\ ToSet(h[version + 1]) = B
    BY <1>4 DEF R, B
  <2> QED  BY <1>4, <1>5, <1>7, <1>9, <2>1, <2>2, <2>3
<1>10. ASSUME NEW o \in InUse(ctx.alloc)
       PROVE  \/ \E v \in DOMAIN h : o \in ToSet(h[v])
              \/ o \in T \union Stranded(ctx.alloc) \union lost
  <2>1. CASE \E v \in DOMAIN garbage : o \in G(v)
    BY <1>4, <2>1 DEF G
  <2>2. CASE o \in V \union A
    <3>1. o \in B \/ o \in R
      BY <1>7, <2>2
    <3> QED  BY <1>4, <3>1 DEF B, R
  <2> QED  BY <1>5, <2>1, <2>2
<1>11. lost \subseteq InUse(ctx.alloc) /\ lost \cap T = {}
  BY <1>5
<1> QED  BY <1>2, <1>8, <1>9, <1>10, <1>11 DEF Ownership, h, n

\* The garbage that #install frees, and what it leaves for later: of the versions that held
\* blocks, those that the ring has a place for and that are not below the boundary stay
\* answerable for them.
LEMMA InstallFrees ==
  ASSUME LifetimeInv, NEW blocks, publish(blocks)
  PROVE  \E d :
    /\ ctx' = newContext(d)
    /\ ContextRecord(d) /\ WellFormed(d.alloc)
    /\ d.heap = ctx.heap /\ d.strings = ctx.strings
    /\ d.alloc.header = ctx.alloc.header
    /\ \A o \in InUse(d.alloc) : o \in InUse(ctx.alloc)
    /\ \A o \in InUse(ctx.alloc) : o \notin InUse(d.alloc) =>
         \E v \in DOMAIN HandedOver(blocks) \ (DOMAIN garbage' \union {version + 1}) :
           o \in ToSet(HandedOver(blocks)[v])
    /\ \A v \in DOMAIN HandedOver(blocks) \ (DOMAIN garbage' \union {version + 1}) :
         \A o \in ToSet(HandedOver(blocks)[v]) :
           o \in InUse(d.alloc) => o \in Stranded(ctx.alloc)
    /\ \A v : v \in DOMAIN garbage' <=>
                \/ v \in DOMAIN garbage /\ Spared <= v /\ Boundary <= v
                \/ v = version /\ ctx.retired # <<>> /\ Boundary <= v
    /\ \A v \in DOMAIN garbage' : garbage'[v] = HandedOver(blocks)[v]
    /\ garbage' = [v \in DOMAIN garbage' |-> garbage'[v]]
<1> DEFINE h    == HandedOver(blocks)
           kept == KeepFrom(garbage, Spared)
           g    == IF ctx.retired = <<>> THEN kept ELSE With(kept, version, ctx.retired)
           c1   == FreeBelow(ctx, garbage, Spared)
           d    == FreeBelow(c1, g, Boundary)
           U    == InUse(ctx.alloc)
           X    == Stranded(ctx.alloc)
<1>1. Spared \in Int /\ Boundary \in Int /\ Spared <= version + 1 /\ Boundary <= version + 1
  BY PublishWindow
<1>2. /\ Context(ctx) /\ LifetimeTypeOK
      /\ ContextRecord(ctx) /\ WellFormed(ctx.alloc)
      /\ version \in Nat \ {0}
      /\ \A v \in DOMAIN garbage : v \in 1..(version - 1)
      /\ \A v \in DOMAIN garbage : garbage[v] \in Seq(Nat)
      /\ ctx.retired \in Seq(Nat)
  BY BaseIs DEF LifetimeInv, LifetimeTypeOK, Context
<1>3. ctx' = newContext(d) /\ garbage' = KeepFrom(g, Boundary)
  <2>1. depth \in Nat /\ minimumPinnedEpoch \in Int
    BY <1>2, SmallestPinned DEF LifetimeTypeOK
  <2>2. Install(blocks)
    BY DEF publish
  <2> QED  BY <1>2, <2>1, <2>2, RetentionIs DEF Install, Spared, Boundary
<1>4. /\ \A v : v \in DOMAIN h <=> v \in DOMAIN garbage \/ v = version \/ v = version + 1
      /\ h[version + 1] = blocks
      /\ h[version] = ctx.retired
      /\ \A v \in DOMAIN garbage : h[v] = garbage[v]
  BY <1>2, HandedOverIs
<1>5. /\ \A v \in DOMAIN h : IsInjective(h[v]) /\ ToSet(h[v]) \subseteq U
      /\ \A v, w \in DOMAIN h : v # w => ToSet(h[v]) \cap ToSet(h[w]) = {}
  <2>1. newContext(ctx).alloc = ctx.alloc
    BY <1>2, NewContextIs
  <2>2. Replaces(blocks)
    BY DEF publish
  <2> QED  BY <2>1, <2>2, HandOver DEF Ownership
<1> HIDE DEF h
<1>6. /\ \A v : v \in DOMAIN kept <=> v \in DOMAIN garbage /\ Spared <= v
      /\ \A v \in DOMAIN kept : kept[v] = h[v]
  BY <1>4, KeptFrom
<1>7. /\ \A v : v \in DOMAIN g <=> v \in DOMAIN kept \/ (v = version /\ ctx.retired # <<>>)
      /\ \A v \in DOMAIN g : g[v] = h[v]
  <2>1. CASE ctx.retired = <<>>
    BY <1>6, <2>1
  <2>2. CASE ctx.retired # <<>>
    <3> DEFINE retired == ctx.retired
               w == With(kept, version, retired)
    <3>1. g = w
      BY <2>2
    <3> HIDE DEF kept, g, retired
    <3>2. /\ \A v : v \in DOMAIN w <=> v \in DOMAIN kept \/ v = version
          /\ w[version] = retired
          /\ \A v \in DOMAIN kept : v # version => w[v] = kept[v]
      BY WithIs
    <3> HIDE DEF w
    <3> QED  BY <1>4, <1>6, <2>2, <3>1, <3>2 DEF retired
  <2> QED  BY <2>1, <2>2
<1> HIDE DEF kept, g
<1>8. \A v \in DOMAIN g : v \in DOMAIN h /\ v \in 1..version
  BY <1>2, <1>4, <1>6, <1>7
<1>9. /\ ContextRecord(c1) /\ WellFormed(c1.alloc)
      /\ c1.heap = ctx.heap /\ c1.strings = ctx.strings
      /\ c1.alloc.header = ctx.alloc.header
      /\ InUse(c1.alloc) = U \ (GarbageBelow(garbage, Spared) \ X)
  <2>1. ASSUME NEW v \in DOMAIN garbage
        PROVE  garbage[v] \in Seq(U) /\ IsInjective(garbage[v])
    <3>1. ToSet(garbage[v]) \subseteq U /\ IsInjective(garbage[v])
      BY <1>4, <1>5
    <3> QED  BY <1>2, <3>1, SeqOver
  <2>2. \A v, w \in DOMAIN garbage : v # w => ToSet(garbage[v]) \cap ToSet(garbage[w]) = {}
    BY <1>4, <1>5
  <2>3. version \in Nat /\ DOMAIN garbage \subseteq 1..version /\ Spared \in Int
    BY <1>1, <1>2
  <2> QED  BY <1>2, <2>1, <2>2, <2>3, FreeBelowIsSound
<1> HIDE DEF c1
<1>10. ASSUME NEW v \in DOMAIN h, \A w \in DOMAIN garbage : w < Spared => w # v
       PROVE  ToSet(h[v]) \cap GarbageBelow(garbage, Spared) = {}
  BY <1>4, <1>5, <1>10 DEF GarbageBelow
<1>11. /\ ContextRecord(d) /\ WellFormed(d.alloc)
       /\ d.heap = ctx.heap /\ d.strings = ctx.strings
       /\ d.alloc.header = ctx.alloc.header
       /\ InUse(d.alloc) = InUse(c1.alloc) \ (GarbageBelow(g, Boundary) \ X)
  <2>1. ASSUME NEW v \in DOMAIN g
        PROVE  g[v] \in Seq(InUse(c1.alloc)) /\ IsInjective(g[v])
    <3>1. v \in DOMAIN h /\ g[v] = h[v]
      BY <1>7, <1>8
    <3>2. \A w \in DOMAIN garbage : w < Spared => w # v
      BY <1>1, <1>2, <1>6, <1>7
    <3>3. ToSet(g[v]) \subseteq InUse(c1.alloc) /\ IsInjective(g[v])
      BY <1>5, <1>9, <1>10, <3>1, <3>2
    <3>4. g[v] \in Seq(Nat)
      BY <1>2, <1>4, <1>6, <1>7
    <3> QED  BY <3>3, <3>4, SeqOver
  <2>2. \A v, w \in DOMAIN g : v # w => ToSet(g[v]) \cap ToSet(g[w]) = {}
    BY <1>5, <1>7, <1>8
  <2>3. version \in Nat /\ DOMAIN g \subseteq 1..version /\ Boundary \in Int
    BY <1>1, <1>2, <1>8
  <2>4. Stranded(c1.alloc) = X
    BY <1>9 DEF Stranded
  <2> QED  BY <1>9, <2>1, <2>2, <2>3, <2>4, FreeBelowIsSound
<1> HIDE DEF d, U, X
<1>12. /\ \A v : v \in DOMAIN garbage' <=> v \in DOMAIN g /\ Boundary <= v
       /\ \A v \in DOMAIN garbage' : garbage'[v] = g[v]
       /\ garbage' = [v \in DOMAIN garbage' |-> garbage'[v]]
  <2>1. garbage' = [v \in DOMAIN garbage' |-> garbage'[v]]
    BY <1>3 DEF KeepFrom, Restrict
  <2> QED  BY <1>3, <2>1, KeptFrom
<1>13. /\ \A v : v \in DOMAIN garbage' <=>
                   \/ v \in DOMAIN garbage /\ Spared <= v /\ Boundary <= v
                   \/ v = version /\ ctx.retired # <<>> /\ Boundary <= v
       /\ \A v \in DOMAIN garbage' : garbage'[v] = h[v]
  BY <1>6, <1>7, <1>12
<1> DEFINE Gone == DOMAIN h \ (DOMAIN garbage' \union {version + 1})
<1>14. ASSUME NEW o \in U, o \notin InUse(d.alloc)
       PROVE  \E v \in Gone : o \in ToSet(h[v])
  <2>1. CASE o \in GarbageBelow(garbage, Spared)
    <3>1. PICK v \in DOMAIN garbage : v < Spared /\ o \in ToSet(garbage[v])
      BY <2>1 DEF GarbageBelow
    <3>2. v \in Gone
      <4>1. v \in Int /\ v # version /\ v # version + 1
        BY <1>2, <3>1
      <4>2. ~(Spared <= v)
        BY <1>1, <3>1, <4>1
      <4>3. v \notin DOMAIN garbage'
        BY <1>13, <4>1, <4>2
      <4> QED  BY <1>4, <4>1, <4>3
    <3> QED  BY <1>4, <3>1, <3>2
  <2>2. CASE o \in GarbageBelow(g, Boundary)
    <3>1. PICK v \in DOMAIN g : v < Boundary /\ o \in ToSet(g[v])
      BY <2>2 DEF GarbageBelow
    <3>2. v \in Gone
      BY <1>1, <1>2, <1>8, <1>13, <1>4, <3>1
    <3> QED  BY <1>7, <3>1, <3>2
  <2> QED  BY <1>9, <1>11, <1>14, <2>1, <2>2
<1>15. ASSUME NEW v \in Gone, NEW o \in ToSet(h[v]), o \in InUse(d.alloc)
       PROVE  o \in X
  <2>1. CASE v \in DOMAIN garbage /\ v < Spared
    <3>1. o \in GarbageBelow(garbage, Spared)
      BY <1>4, <1>15, <2>1 DEF GarbageBelow
    <3> QED  BY <1>9, <1>11, <1>15, <3>1
  <2>2. CASE v \in DOMAIN g /\ v < Boundary
    <3>1. o \in GarbageBelow(g, Boundary)
      BY <1>7, <1>15, <2>2 DEF GarbageBelow
    <3> QED  BY <1>11, <1>15, <3>1
  <2>3. CASE v = version /\ ctx.retired = <<>>
    BY <1>4, <1>15, <2>3, EmptySequence
  <2>4. \/ v \in DOMAIN garbage /\ v < Spared
        \/ v \in DOMAIN g /\ v < Boundary
        \/ v = version /\ ctx.retired = <<>>
    BY <1>1, <1>2, <1>4, <1>6, <1>7, <1>13
  <2> QED  BY <2>1, <2>2, <2>3, <2>4
<1>16. \A o \in InUse(d.alloc) : o \in U
  BY <1>9, <1>11
<1> HIDE DEF Gone
<1> QED  BY <1>3, <1>11, <1>12, <1>13, <1>14, <1>15, <1>16 DEF Gone, h, U, X

\* The next version is installed: each block it took over, each that went out of use with
\* the one before, and each that was freed, is where it belongs.
LEMMA Publish ==
  ASSUME LifetimeInv, NEW blocks, publish(blocks)
  PROVE  LifetimeInv'
<1> DEFINE h    == HandedOver(blocks)
           next == version + 1
           n    == newContext(ctx)
<1>1. /\ Context(ctx) /\ LifetimeTypeOK /\ Reached
      /\ version \in Nat \ {0}
      /\ \A v \in DOMAIN garbage : v \in 1..(version - 1)
      /\ DOMAIN reach = MaxOf(floor, 1)..version
      /\ blocks \in Seq(Nat) /\ ctx.retired \in Seq(Nat)
      /\ ToSet(blocks) \union ToSet(ctx.retired)
           = ToSet(reach[version]) \union ToSet(ctx.allocated)
  BY BaseIs DEF LifetimeInv, LifetimeTypeOK, Context, publish, Replaces
<1>2. /\ Spared \in Int /\ Boundary \in Int
      /\ Spared <= next /\ Boundary <= next
      /\ floor \in Nat /\ floor' \in 0..next /\ floor <= floor'
      /\ Boundary <= floor' /\ (2 <= Spared => Spared <= floor')
      /\ FloorIsHeld'
  BY PublishWindow
<1>3. /\ phase' = "idle" /\ opened' = <<>>
      /\ version' = next /\ depth' = depth /\ pin' = pin /\ lost' = lost
      /\ reach' = KeepFrom(With(reach, next, blocks), floor')
  BY DEF publish, Install
<1>4. PICK d :
        /\ ctx' = newContext(d)
        /\ ContextRecord(d) /\ WellFormed(d.alloc)
        /\ d.heap = ctx.heap /\ d.strings = ctx.strings
        /\ d.alloc.header = ctx.alloc.header
        /\ \A o \in InUse(d.alloc) : o \in InUse(ctx.alloc)
        /\ \A o \in InUse(ctx.alloc) : o \notin InUse(d.alloc) =>
             \E v \in DOMAIN h \ (DOMAIN garbage' \union {version + 1}) : o \in ToSet(h[v])
        /\ \A v \in DOMAIN h \ (DOMAIN garbage' \union {version + 1}) :
             \A o \in ToSet(h[v]) : o \in InUse(d.alloc) => o \in Stranded(ctx.alloc)
        /\ \A v : v \in DOMAIN garbage' <=>
                    \/ v \in DOMAIN garbage /\ Spared <= v /\ Boundary <= v
                    \/ v = version /\ ctx.retired # <<>> /\ Boundary <= v
        /\ \A v \in DOMAIN garbage' : garbage'[v] = h[v]
        /\ garbage' = [v \in DOMAIN garbage' |-> garbage'[v]]
  BY InstallFrees
<1>5. /\ \A v : v \in DOMAIN h <=> v \in DOMAIN garbage \/ v = version \/ v = next
      /\ h[next] = blocks
      /\ h[version] = ctx.retired
      /\ \A v \in DOMAIN garbage : h[v] = garbage[v]
  BY <1>1, HandedOverIs
<1>6. Ownership(h, lost, n)
  BY HandOver DEF publish
<1>7. n.alloc = ctx.alloc /\ n.allocated = <<>> /\ StringsOf(n) = StringsOf(ctx)
  BY <1>1, NewContextKeeps
<1> HIDE DEF h, n
<1> DEFINE w == With(reach, next, blocks)
<1>8. /\ \A v : v \in DOMAIN w <=> v \in DOMAIN reach \/ v = next
      /\ w[next] = blocks
      /\ \A v \in DOMAIN reach : v # next => w[v] = reach[v]
  BY WithIs
<1>9. /\ \A v : v \in DOMAIN reach' <=> v \in DOMAIN w /\ floor' <= v
      /\ \A v \in DOMAIN reach' : reach'[v] = w[v]
      /\ reach' = [v \in DOMAIN reach' |-> reach'[v]]
  <2>1. reach' = [v \in DOMAIN reach' |-> reach'[v]]
    BY <1>3 DEF KeepFrom, Restrict
  <2> HIDE DEF w
  <2>2. reach' = KeepFrom(w, floor')
    BY <1>3 DEF w
  <2> QED  BY <2>1, <2>2, KeptFrom
<1> HIDE DEF w
<1>10. \A v \in DOMAIN reach : v \in 1..version
  BY <1>1, <1>2 DEF MaxOf
<1>11. /\ \A v : v \in DOMAIN reach' <=> (v \in DOMAIN reach \/ v = next) /\ floor' <= v
       /\ reach'[next] = blocks
       /\ \A v \in DOMAIN reach' : v # next => v \in DOMAIN reach /\ reach'[v] = reach[v]
  BY <1>1, <1>2, <1>8, <1>9, <1>10
<1> DEFINE f == Owned'
<1>12. /\ \A v : v \in DOMAIN f <=> v \in DOMAIN garbage' \/ v = next
       /\ \A v \in DOMAIN f : f[v] = h[v]
  <2>1. Owned' = With(garbage', next, blocks)
    BY <1>3, <1>11 DEF Owned
  <2>2. next \notin DOMAIN garbage'
    BY <1>1, <1>4
  <2>3. /\ \A v : v \in DOMAIN With(garbage', next, blocks)
                    <=> v \in DOMAIN garbage' \/ v = next
        /\ With(garbage', next, blocks)[next] = blocks
        /\ \A v \in DOMAIN garbage' :
             v # next => With(garbage', next, blocks)[v] = garbage'[v]
    BY WithIs
  <2> QED  BY <1>4, <1>5, <2>1, <2>2, <2>3
<1> HIDE DEF f
<1>13. StringsOf(ctx) \subseteq InUse(d.alloc)
  <2>1. ASSUME NEW o \in StringsOf(ctx), o \notin InUse(d.alloc) PROVE FALSE
    <3>1. o \in InUse(ctx.alloc)
      BY <1>1, ContextIs
    <3>2. PICK v \in DOMAIN h : o \in ToSet(h[v])
      BY <1>4, <2>1, <3>1
    <3>3. ToSet(h[v]) \cap StringsOf(ctx) = {}
      BY <1>6, <1>7 DEF Ownership
    <3> QED  BY <3>2, <3>3
  <2> QED  BY <2>1
<1> DEFINE e == newContext(d)
<1>14. /\ Context(e) /\ e.alloc = d.alloc /\ e.heap = ctx.heap
       /\ e.allocated = <<>> /\ StringsOf(e) = StringsOf(ctx)
  BY <1>1, <1>4, <1>13, ContextLike
<1>15. ctx' = e
  BY <1>4
<1> HIDE DEF e
<1>16. Ownership(f, lost, e)
  <2>1. \A v \in DOMAIN f : v \in DOMAIN h /\ f[v] = h[v]
    BY <1>4, <1>5, <1>12
  <2>2. \A o \in InUse(e.alloc) : o \in InUse(n.alloc)
    BY <1>4, <1>7, <1>14
  <2>3. DOMAIN h \ DOMAIN f = DOMAIN h \ (DOMAIN garbage' \union {version + 1})
    BY <1>12
  <2>4. \A o \in InUse(n.alloc) : o \notin InUse(e.alloc) =>
          \E v \in DOMAIN h \ DOMAIN f : o \in ToSet(h[v])
    BY <1>4, <1>7, <1>14, <2>3
  <2>5. \A v \in DOMAIN h \ DOMAIN f : \A o \in ToSet(h[v]) :
          o \in InUse(e.alloc) => o \in Stranded(n.alloc)
    BY <1>4, <1>7, <1>14, <2>3
  <2>6. /\ Stranded(e.alloc) = Stranded(n.alloc)
        /\ StringsOf(e) = StringsOf(n) /\ ToSet(e.allocated) = ToSet(n.allocated)
    BY <1>4, <1>7, <1>14 DEF Stranded
  <2> QED  BY <1>6, <2>1, <2>2, <2>4, <2>5, <2>6, OwnershipFreed
<1>17. Ownership(Owned, lost, Base)'
  <2>1. Base' = e
    BY <1>3, <1>15 DEF Base
  <2> QED  BY <1>3, <1>16, <2>1 DEF f
<1>18. Reached'
  <2> SUFFICES ASSUME NEW v \in DOMAIN reach', NEW o \in ToSet(reach'[v]), o \notin lost
               PROVE  \E u \in DOMAIN f : v <= u /\ o \in ToSet(f[u])
    BY <1>3 DEF Reached, f
  <2>1. CASE v = next
    <3>1. next \in DOMAIN f /\ f[next] = blocks
      BY <1>5, <1>12
    <3> QED  BY <1>1, <1>11, <2>1, <3>1
  <2>2. CASE v # next
    <3>1. v \in DOMAIN reach /\ floor' <= v /\ reach'[v] = reach[v] /\ v \in 1..version
      BY <1>10, <1>11, <2>2
    <3>2. PICK u \in DOMAIN Owned : v <= u /\ o \in ToSet(Owned[u])
      BY <1>1, <3>1 DEF Reached
    <3>3. /\ DOMAIN Owned = DOMAIN garbage \union {version}
          /\ Owned[version] = reach[version]
          /\ \A x \in DOMAIN garbage : Owned[x] = garbage[x]
      BY <1>1, OwnedIs
    <3>4. CASE u = version
      <4>1. o \in ToSet(blocks) \/ o \in ToSet(ctx.retired)
        BY <1>1, <3>2, <3>3, <3>4
      <4>2. CASE o \in ToSet(blocks)
        <5>1. next \in DOMAIN f /\ f[next] = blocks
          BY <1>5, <1>12
        <5>2. v <= next
          BY <1>1, <3>1
        <5> QED  BY <4>2, <5>1, <5>2
      <4>3. CASE o \in ToSet(ctx.retired)
        <5>1. ctx.retired # <<>>
          BY <4>3, EmptySequence
        <5>2. Boundary <= version /\ v <= version
          BY <1>1, <1>2, <3>1
        <5>3. version \in DOMAIN f /\ f[version] = ctx.retired
          BY <1>4, <1>5, <1>12, <5>1, <5>2
        <5> QED  BY <4>3, <5>2, <5>3
      <4> QED  BY <4>1, <4>2, <4>3
    <3>5. CASE u \in DOMAIN garbage
      <4>1. u \in 1..(version - 1) /\ v <= u
        BY <1>1, <3>2, <3>5
      <4>2. Boundary <= u /\ Spared <= u
        BY <1>1, <1>2, <3>1, <4>1
      <4>3. u \in DOMAIN f /\ f[u] = garbage[u]
        BY <1>4, <1>5, <1>12, <3>5, <4>2
      <4> QED  BY <3>2, <3>3, <3>5, <4>1, <4>3
    <3> QED  BY <3>3, <3>4, <3>5
  <2> QED  BY <2>1, <2>2
<1>19. LifetimeTypeOK'
  <2>1. /\ DOMAIN garbage' \subseteq 1..(version' - 1)
        /\ garbage' \in [DOMAIN garbage' -> Seq(Nat)]
    <3>1. \A v \in DOMAIN garbage' : v \in 1..version /\ garbage'[v] \in Seq(Nat)
      <4>1. \A v \in DOMAIN garbage : garbage[v] \in Seq(Nat)
        BY <1>1 DEF LifetimeTypeOK
      <4> QED  BY <1>1, <1>4, <1>5, <4>1
    <3> QED  BY <1>1, <1>3, <1>4, <3>1
  <2>2. reach' \in [MaxOf(floor', 1)..version' -> Seq(Nat)]
    <3>1. \A v \in DOMAIN reach' : reach'[v] \in Seq(Nat)
      BY <1>1, <1>11 DEF LifetimeTypeOK
    <3>2. DOMAIN reach' = MaxOf(floor', 1)..next
      <4>1. floor' \in Nat /\ next \in Nat
        BY <1>1, <1>2
      <4>2. \A v : v \in MaxOf(floor, 1)..next /\ floor' <= v <=> v \in MaxOf(floor', 1)..next
        BY <1>2, <4>1, Window
      <4>3. \A v : v \in MaxOf(floor, 1)..next <=> v \in MaxOf(floor, 1)..version \/ v = next
        <5>1. floor \in 0..version
          BY <1>1 DEF LifetimeTypeOK
        <5> QED  BY <1>1, <1>2, <5>1 DEF MaxOf
      <4> HIDE DEF next
      <4> QED  BY <1>1, <1>11, <4>2, <4>3
    <3> QED  BY <1>3, <1>9, <3>1, <3>2
  <2>3. lost' \subseteq DOMAIN ctx'.alloc.header
    BY <1>1, <1>3, <1>4, <1>14, <1>15 DEF LifetimeTypeOK
  <2>4. version' \in Nat \ {0} /\ floor' \in 0..version' /\ pin' \in [Readers -> NoPin..version']
    BY <1>1, <1>2, <1>3 DEF LifetimeTypeOK, NoPin
  <2> QED  BY <1>1, <1>3, <1>14, <1>15, <2>1, <2>2, <2>3, <2>4 DEF LifetimeTypeOK
<1>20. WriteExtends' /\ RejectedWriteLeavesNothing'
  BY <1>3, <1>14, <1>15 DEF WriteExtends, RejectedWriteLeavesNothing
<1> QED  BY <1>2, <1>17, <1>18, <1>19, <1>20 DEF LifetimeInv

-----------------------------------------------------------------------------
LEMMA EmptyContextIs ==
  /\ Context(EmptyContext)
  /\ EmptyContext.allocated = <<>> /\ StringsOf(EmptyContext) = {}
  /\ InUse(EmptyContext.alloc) = {}
<1> DEFINE c == EmptyContext
<1>1. /\ c.alloc = EmptyArena /\ c.heap = <<>> /\ c.strings = <<>>
      /\ c.allocated = <<>> /\ c.retired = <<>> /\ c.interned = <<>>
      /\ c.err = NoError
      /\ ContextRecord(c)
  BY DEF EmptyContext, ContextRecord
<1> HIDE DEF c
<1>2. DOMAIN EmptyArena.header = {}
  BY DEF EmptyArena
<1>3. InUse(c.alloc) = {}
  BY <1>1, <1>2 DEF InUse
<1>4. /\ DOMAIN c.strings = {}
      /\ c.strings \in [DOMAIN c.strings -> InUse(c.alloc)] /\ IsInjective(c.strings)
  BY <1>1 DEF IsInjective
<1>5. StringsOf(c) = {}
  BY <1>4 DEF StringsOf
<1>6. /\ c.allocated \in Seq(InUse(c.alloc) \ StringsOf(c)) /\ IsInjective(c.allocated)
      /\ c.retired \in Seq(Nat)
      /\ c.interned \in Seq(ToSet(c.interned)) /\ IsInjective(c.interned)
      /\ ToSet(c.interned) \subseteq DOMAIN c.strings
  BY <1>1, EmptySequence
<1>7. WellFormed(c.alloc) /\ DOMAIN c.alloc.header \subseteq DOMAIN c.heap
  BY <1>1, <1>2, EmptyIsWellFormed
<1>8. Context(c)
  BY <1>1, <1>4, <1>6, <1>7 DEF Context
<1> QED  BY <1>1, <1>3, <1>5, <1>8 DEF c

LEMMA LifetimeBegins == LifetimeInit => LifetimeInv
<1> SUFFICES ASSUME LifetimeInit PROVE LifetimeInv
  OBVIOUS
<1>1. /\ ctx = EmptyContext /\ phase = "idle" /\ version = 1 /\ garbage = <<>>
      /\ floor = MaxOf(0, 1 - HistoryDepth) /\ depth = HistoryDepth
      /\ pin = [r \in Readers |-> NoPin]
      /\ reach = [v \in {1} |-> <<>>] /\ opened = <<>> /\ lost = {}
  BY DEF LifetimeInit
<1>2. /\ Context(ctx) /\ ctx.allocated = <<>> /\ StringsOf(ctx) = {}
      /\ InUse(ctx.alloc) = {}
  BY <1>1, EmptyContextIs
<1>3. floor \in 0..1 /\ MaxOf(floor, 1) = 1
  BY <1>1, RetentionIs DEF MaxOf
<1>4. DOMAIN reach = 1..1 /\ reach[1] = <<>> /\ reach \in [1..1 -> Seq(Nat)]
  <2>1. 1..1 = {1}
    OBVIOUS
  <2> QED  BY <1>1, <2>1, EmptySequence
<1>5. LifetimeTypeOK
  <2>1. /\ DOMAIN garbage \subseteq 1..(version - 1)
        /\ garbage \in [DOMAIN garbage -> Seq(Nat)]
    BY <1>1
  <2>2. depth \in 0..HistoryDepth
    BY <1>1, RetentionIs
  <2>3. pin \in [Readers -> NoPin..version]
    BY <1>1 DEF NoPin
  <2> QED  BY <1>1, <1>2, <1>3, <1>4, <2>1, <2>2, <2>3 DEF LifetimeTypeOK
<1>6. FloorIsHeld
  BY <1>1, <1>3, RetentionIs DEF FloorIsHeld, MaxOf
<1>7. WriteExtends /\ RejectedWriteLeavesNothing
  BY <1>1, <1>2 DEF WriteExtends, RejectedWriteLeavesNothing
<1>8. Base = ctx
  BY <1>1 DEF Base
<1>9. /\ DOMAIN Owned = {1} /\ Owned[1] = <<>>
  <2>1. DOMAIN garbage = {} /\ version = 1
    BY <1>1
  <2> QED  BY <1>4, <1>5, <2>1, OwnedIs
<1>10. Ownership(Owned, lost, Base)
  BY <1>1, <1>2, <1>8, <1>9, EmptySequence DEF Ownership
<1>11. Reached
  BY <1>4, EmptySequence DEF Reached
<1> QED  BY <1>5, <1>6, <1>7, <1>10, <1>11 DEF LifetimeInv

LEMMA LifetimeStep == LifetimeInv /\ [LifetimeNext]_lifetime => LifetimeInv'
<1> SUFFICES ASSUME LifetimeInv, [LifetimeNext]_lifetime PROVE LifetimeInv'
  OBVIOUS
<1>1. CASE beginWrite
  BY <1>1, BeginWrite
<1>2. CASE continueWrite
  BY <1>2, ContinueWrite
<1>3. CASE encodeWrite
  BY <1>3, EncodeWrite
<1>4. CASE rejectWrite
  BY <1>4, RejectWrite
<1>5. CASE dropWrite
  BY <1>5, DropWrite
<1>6. CASE publish(reach'[version'])
  BY <1>6, Publish
<1>7. ASSUME NEW r \in Readers, acquireVersion(r) \/ releaseVersion(r)
      PROVE  LifetimeInv'
  BY <1>7, Readings
<1>8. CASE reclaim
  BY <1>8, Reclaim
<1>9. CASE adoptArena
  BY <1>9, AdoptArena
<1>10. CASE UNCHANGED lifetime
  <2>1. /\ UNCHANGED <<ctx, phase, version, garbage, floor, depth, reach, pin, opened, lost>>
    BY <1>10 DEF lifetime, retention
  <2>2. Owned' = Owned /\ Base' = Base
    BY <2>1 DEF Owned, Base
  <2>3. Ownership(Owned, lost, Base)'
    BY <2>1, <2>2 DEF LifetimeInv
  <2>4. LifetimeTypeOK' /\ FloorIsHeld' /\ RejectedWriteLeavesNothing'
    BY <2>1 DEF LifetimeInv, LifetimeTypeOK, FloorIsHeld, RejectedWriteLeavesNothing
  <2>5. WriteExtends' /\ Reached'
    BY <2>1, <2>2 DEF LifetimeInv, WriteExtends, Reached
  <2> QED  BY <2>3, <2>4, <2>5 DEF LifetimeInv
<1> QED  BY <1>1, <1>2, <1>3, <1>4, <1>5, <1>6, <1>7, <1>8, <1>9, <1>10 DEF LifetimeNext

THEOREM LifetimeInvariant == LifetimeSpec => []LifetimeInv
BY LifetimeBegins, LifetimeStep, PTL DEF LifetimeSpec

\* The context, the versions and the garbage are what they should be, for all of them.
THEOREM LifetimeIsTyped == LifetimeSpec => []LifetimeTypeOK
<1>1. LifetimeInv => LifetimeTypeOK
  BY DEF LifetimeInv
<1> QED  BY <1>1, LifetimeInvariant, PTL

\* No block is held by two versions, or by a version and the write in progress or the
\* intern map, and none of them is free.
THEOREM BlocksAreHeldOnce == LifetimeSpec => []BlocksHaveOneOwner
<1>1. LifetimeInv => BlocksHaveOneOwner
  BY BaseIs DEF Ownership, BlocksHaveOneOwner
<1> QED  BY <1>1, LifetimeInvariant, PTL

\* Every block in use is held by someone, but for the freed ones of an exact size.
THEOREM NoBlockLeaks == LifetimeSpec => []NothingLeaks
<1>1. LifetimeInv => NothingLeaks
  BY BaseIs DEF Ownership, NothingLeaks, OwnedBlocks
<1> QED  BY <1>1, LifetimeInvariant, PTL

\* A write that is rejected leaves the arena as it found it.
THEOREM RejectionLeavesNothing == LifetimeSpec => []RejectedWriteLeavesNothing
<1>1. LifetimeInv => RejectedWriteLeavesNothing
  BY DEF LifetimeInv
<1> QED  BY <1>1, LifetimeInvariant, PTL

\* What the history holds or a reader pinned can be read, unless the ring came round.
THEOREM HeldVersionsAreRetained == LifetimeSpec => []VersionsAreRetained
<1>1. LifetimeInv => VersionsAreRetained
  <2> SUFFICES ASSUME LifetimeInv, NEW v \in 1..version,
                      \/ version - depth <= v
                      \/ (\E r \in Readers : pin[r] = v) /\ version < v + RetainedCapacity
               PROVE  v \in DOMAIN reach
    BY DEF VersionsAreRetained
  <2>1. /\ version \in Nat /\ floor \in Nat /\ depth \in Nat
        /\ DOMAIN reach = MaxOf(floor, 1)..version
        /\ floor <= MaxOf(0, version - depth)
        /\ \A r \in Readers : pin[r] # NoPin =>
             floor <= MaxOf(pin[r], version - RetainedCapacity + 1)
    BY RetentionIs DEF LifetimeInv, LifetimeTypeOK, FloorIsHeld
  <2>2. floor <= v
    <3>1. CASE version - depth <= v
      BY <2>1, <3>1 DEF MaxOf
    <3>2. CASE (\E r \in Readers : pin[r] = v) /\ version < v + RetainedCapacity
      <4>1. PICK r \in Readers : pin[r] = v
        BY <3>2
      <4>2. pin[r] # NoPin
        BY <4>1 DEF NoPin
      <4>3. floor <= MaxOf(v, version - RetainedCapacity + 1)
        BY <2>1, <4>1, <4>2
      <4> QED  BY <2>1, <3>2, <4>3, RetentionIs DEF MaxOf
    <3> QED  BY <3>1, <3>2
  <2> QED  BY <2>1, <2>2 DEF MaxOf
<1> QED  BY <1>1, LifetimeInvariant, PTL

-----------------------------------------------------------------------------
\* What a step must leave alone: the blocks that a version which can be read before and
\* after it reaches, those of the strings it may refer to, and what is nobody's.
Standing ==
  lost \union KnownStrings(ctx)
       \union UNION {ToSet(reach[v]) : v \in DOMAIN reach \cap DOMAIN reach'}

\* All of them are in use in the context the write began with.
LEMMA StandingIsInUse ==
  ASSUME LifetimeInv
  PROVE  Standing \subseteq InUse(Base.alloc)
<1>1. Context(Base) /\ Ownership(Owned, lost, Base) /\ Reached
  BY BaseIs DEF LifetimeInv
<1>2. lost \subseteq InUse(Base.alloc)
  BY <1>1 DEF Ownership
<1>3. KnownStrings(ctx) \subseteq InUse(Base.alloc)
  <2>1. StringsOf(Base) \subseteq InUse(Base.alloc)
    BY <1>1, ContextIs
  <2>2. CASE phase = "idle"
    <3>1. KnownStrings(ctx) \subseteq StringsOf(ctx)
      BY DEF KnownStrings, StringsOf
    <3> QED  BY <2>1, <2>2, <3>1 DEF Base
  <2>3. CASE phase # "idle"
    <3>1. opened.interned = <<>> /\ Extends(opened, ctx)
      BY <2>3 DEF LifetimeInv, WriteExtends
    <3>2. NewTexts(opened, ctx) = ToSet(ctx.interned)
      BY <3>1, EmptySequence DEF NewTexts
    <3>3. \A t \in DOMAIN ctx.strings \ ToSet(ctx.interned) :
            t \in DOMAIN opened.strings /\ ctx.strings[t] = opened.strings[t]
      BY <3>1, <3>2 DEF Extends
    <3>4. KnownStrings(ctx) \subseteq StringsOf(opened)
      BY <3>3 DEF KnownStrings, StringsOf
    <3> QED  BY <2>1, <2>3, <3>4 DEF Base
  <2> QED  BY <2>2, <2>3
<1>4. ASSUME NEW v \in DOMAIN reach
      PROVE  ToSet(reach[v]) \subseteq InUse(Base.alloc)
  BY <1>1, <1>2 DEF Reached, Ownership
<1>5. UNION {ToSet(reach[v]) : v \in DOMAIN reach \cap DOMAIN reach'} \subseteq InUse(Base.alloc)
  BY <1>4
<1> QED  BY <1>2, <1>3, <1>5 DEF Standing

\* A step that takes no version away and frees nothing.
LEMMA StandsWithBase ==
  ASSUME LifetimeInv,
         InUse(Base.alloc) \subseteq InUse(ctx'.alloc),
         \A o \in InUse(Base.alloc) : ctx'.heap[o] = ctx.heap[o]
  PROVE  \A o \in Standing : o \in InUse(ctx'.alloc) /\ ctx'.heap[o] = ctx.heap[o]
BY StandingIsInUse

\* A step that does: what it takes away is not what stands.
LEMMA StandsAcrossVersions ==
  ASSUME LifetimeInv, LifetimeInv', lost' = lost, ctx'.heap = ctx.heap,
         ctx'.strings = ctx.strings, phase' = "idle",
         \A v \in DOMAIN reach \cap DOMAIN reach' : reach'[v] = reach[v]
  PROVE  \A o \in Standing : o \in InUse(ctx'.alloc) /\ ctx'.heap[o] = ctx.heap[o]
<1>1. /\ Ownership(Owned', lost', Base') /\ Context(ctx') /\ Base' = ctx'
  BY DEF LifetimeInv, LifetimeTypeOK, Base
<1>2. lost \subseteq InUse(ctx'.alloc)
  BY <1>1 DEF Ownership
<1>3. KnownStrings(ctx) \subseteq InUse(ctx'.alloc)
  <2>1. KnownStrings(ctx) \subseteq StringsOf(ctx')
    BY DEF KnownStrings, StringsOf
  <2> QED  BY <1>1, <2>1, ContextIs
<1>4. ASSUME NEW v \in DOMAIN reach \cap DOMAIN reach'
      PROVE  ToSet(reach[v]) \subseteq InUse(ctx'.alloc)
  <2>1. \A o \in ToSet(reach'[v]) :
          o \in lost' \/ \E w \in DOMAIN Owned' : v <= w /\ o \in ToSet(Owned'[w])
    BY DEF LifetimeInv, Reached
  <2>2. \A w \in DOMAIN Owned' : ToSet(Owned'[w]) \subseteq InUse(ctx'.alloc)
    BY <1>1 DEF Ownership
  <2> QED  BY <1>2, <2>1, <2>2
<1>5. UNION {ToSet(reach[v]) : v \in DOMAIN reach \cap DOMAIN reach'} \subseteq InUse(ctx'.alloc)
  BY <1>4
<1> QED  BY <1>2, <1>3, <1>5 DEF Standing

\* The memory after the garbage below a boundary was freed.
LEMMA FreeBelowKeeps ==
  ASSUME NEW c, ContextRecord(c), NEW g, NEW boundary
  PROVE  /\ ContextRecord(FreeBelow(c, g, boundary))
         /\ FreeBelow(c, g, boundary).heap = c.heap
         /\ FreeBelow(c, g, boundary).strings = c.strings
<1> DEFINE freed[v \in 0..version] ==
             IF v = 0 THEN c.alloc
             ELSE IF v \in DOMAIN g /\ v < boundary THEN FreeAll(freed[v - 1], g[v])
             ELSE freed[v - 1]
           a == freed[version]
           d == [c EXCEPT !.alloc = a]
<1>1. FreeBelow(c, g, boundary) = d
  BY DEF FreeBelow
<1> HIDE DEF a
<1>2. ContextRecord(d) /\ d.heap = c.heap /\ d.strings = c.strings
  BY DEF ContextRecord
<1> QED  BY <1>1, <1>2

LEMMA StepStands ==
  ASSUME LifetimeInv, [LifetimeNext]_lifetime
  PROVE  \A o \in Standing : o \in InUse(ctx'.alloc) /\ ctx'.heap[o] = ctx.heap[o]
<1> DEFINE Stands == \A o \in Standing : o \in InUse(ctx'.alloc) /\ ctx'.heap[o] = ctx.heap[o]
<1>1. /\ Context(ctx) /\ Context(Base) /\ InUse(Base.alloc) \subseteq InUse(ctx.alloc)
      /\ ContextRecord(ctx) /\ version \in Nat \ {0}
      /\ DOMAIN reach = MaxOf(floor, 1)..version
  BY BaseIs DEF LifetimeInv, LifetimeTypeOK, Context
<1>2. LifetimeInv'
  BY LifetimeStep
<1>3. ASSUME ctx'.alloc = ctx.alloc, ctx'.heap = ctx.heap
      PROVE  Stands
  BY <1>1, <1>3, StandsWithBase
<1>4. newContext(ctx).alloc = ctx.alloc /\ newContext(ctx).heap = ctx.heap
  BY <1>1, NewContextIs
<1>5. CASE beginWrite \/ dropWrite
  BY <1>3, <1>4, <1>5 DEF beginWrite, dropWrite
<1>6. CASE continueWrite
  <2>1. Extends(ctx, ctx')
    BY <1>6 DEF continueWrite
  <2> QED  BY <1>1, <2>1, StandsWithBase DEF Extends
<1>7. CASE encodeWrite
  <2>1. Extends(newContext(ctx), ctx')
    BY <1>7 DEF encodeWrite
  <2> QED  BY <1>1, <1>4, <2>1, StandsWithBase DEF Extends
<1>8. CASE rejectWrite
  <2>1. /\ Base = opened /\ ctx' = rollback(ctx)
        /\ Context(opened) /\ Extends(opened, ctx)
        /\ opened.allocated = <<>> /\ opened.interned = <<>>
        /\ opened.bumpBefore = opened.alloc.bump
    BY <1>8 DEF rejectWrite, LifetimeInv, WriteExtends, Base
  <2>2. /\ InUse(ctx'.alloc) = InUse(opened.alloc)
        /\ \A o \in InUse(opened.alloc) : ctx'.heap[o] = opened.heap[o]
    BY <2>1, RollbackRestores
  <2>3. \A o \in InUse(opened.alloc) : ctx.heap[o] = opened.heap[o]
    BY <2>1 DEF Extends
  <2> QED  BY <2>1, <2>2, <2>3, StandsWithBase
<1>9. CASE publish(reach'[version'])
  <2> DEFINE d == FreeBelow(FreeBelow(ctx, garbage, Spared),
                     IF ctx.retired = <<>> THEN KeepFrom(garbage, Spared)
                     ELSE With(KeepFrom(garbage, Spared), version, ctx.retired), Boundary)
             blocks == reach'[version']
             next == version + 1
  <2>1. Install(blocks) /\ phase' = "idle" /\ version' = next /\ lost' = lost
    BY <1>9 DEF publish, Install
  <2>2. ctx' = newContext(d)
    <3>1. depth \in Nat /\ minimumPinnedEpoch \in Int
      BY <1>1, SmallestPinned, RetentionIs DEF LifetimeInv, LifetimeTypeOK
    <3> QED  BY <1>1, <2>1, <3>1, RetentionIs DEF Install, Spared, Boundary
  <2>3. ContextRecord(d) /\ d.heap = ctx.heap /\ d.strings = ctx.strings
    BY <1>1, FreeBelowKeeps
  <2> HIDE DEF d
  <2>4. ctx'.heap = ctx.heap /\ ctx'.strings = ctx.strings
    BY <2>2, <2>3, NewContextIs
  <2>5. reach' = KeepFrom(With(reach, next, blocks), floor')
    BY <2>1 DEF Install
  <2>6. \A v \in DOMAIN reach : v # next
    BY <1>1
  <2> HIDE DEF blocks, next
  <2>7. \A v \in DOMAIN reach : v # next => With(reach, next, blocks)[v] = reach[v]
    BY WithIs
  <2>8. \A v \in DOMAIN reach' : reach'[v] = With(reach, next, blocks)[v]
    BY <2>5, KeptFrom
  <2>9. \A v \in DOMAIN reach \cap DOMAIN reach' : reach'[v] = reach[v]
    BY <2>6, <2>7, <2>8
  <2> QED  BY <1>2, <2>1, <2>4, <2>9, StandsAcrossVersions
<1>10. ASSUME NEW r \in Readers, acquireVersion(r) \/ releaseVersion(r)
       PROVE  Stands
  BY <1>3, <1>10 DEF acquireVersion, releaseVersion
<1>11. CASE reclaim
  <2> DEFINE boundary == MinOf(minimumPinnedEpoch, version - depth)
             d == FreeBelow(ctx, garbage, boundary)
  <2>1. /\ ctx' = d /\ phase' = "idle" /\ lost' = lost
        /\ reach' = KeepFrom(reach, floor')
    BY <1>11 DEF reclaim
  <2>2. d.heap = ctx.heap /\ d.strings = ctx.strings
    BY <1>1, FreeBelowKeeps
  <2> HIDE DEF d
  <2>3. \A v \in DOMAIN reach' : reach'[v] = reach[v]
    BY <2>1, KeptFrom
  <2> QED  BY <1>2, <2>1, <2>2, <2>3, StandsAcrossVersions
<1>12. CASE adoptArena
  <2>1. ctx' = TakenOver(ctx)
    BY <1>12 DEF adoptArena
  <2>2. ctx'.heap = ctx.heap /\ InUse(ctx'.alloc) = DOMAIN ctx.alloc.header
    BY <1>1, <2>1, TakenOverIs
  <2> QED  BY <1>1, <2>2, StandsWithBase DEF InUse
<1>13. CASE UNCHANGED lifetime
  BY <1>3, <1>13 DEF lifetime
<1> QED  BY <1>5, <1>6, <1>7, <1>8, <1>9, <1>10, <1>11, <1>12, <1>13 DEF LifetimeNext

\* No step frees or overwrites a block of a version that can be read before and after it,
\* the record of a string such a version may refer to, or what an owner that died left.
THEOREM BlocksStand == LifetimeSpec => RetainedBlocksStand
<1>1. LifetimeInv /\ [LifetimeNext]_lifetime =>
        [\A o \in lost \union KnownStrings(ctx)
                  \union UNION {ToSet(reach[v]) : v \in DOMAIN reach \cap DOMAIN reach'} :
           o \in InUse(ctx'.alloc) /\ ctx'.heap[o] = ctx.heap[o]]_lifetime
  BY StepStands DEF Standing
<1> QED  BY <1>1, LifetimeInvariant, PTL DEF LifetimeSpec, RetainedBlocksStand
=============================================================================
