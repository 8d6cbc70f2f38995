---------------------------- MODULE VectorProofs ----------------------------
(***************************************************************************)
(* The operations of vector.ts on vectors of any length, for nodes of any  *)
(* width, an arena of any size and slots of any kind.                      *)
(*                                                                         *)
(* A vector is described by the levels of its trie: a function from a      *)
(* level, the leaves at 0, to the sequence of its blocks.  Each level has  *)
(* one block for every WIDTH blocks or elements below it, and a block      *)
(* holds its group of them (Levels, Held, TrieIn, Parts, VectorOf).  With  *)
(* it go the blocks the vector is made of.                                 *)
(*                                                                         *)
(* An operation is then followed from the allocation of one block (Takes,  *)
(* Wrote) to the levels of a path (WriteUpIs, TriePut) and to the header   *)
(* (Rewritten): what it leaves is a vector of the new elements, made of    *)
(* the blocks it did not retire and of the ones it allocated (Writes).     *)
(*                                                                         *)
(* The library's induction theorems take an operator, which no backend     *)
(* instantiates: a recursion is unrolled here by the set of the lengths    *)
(* for which its function exists, with SetInduction, and so is every       *)
(* invariant of one.                                                       *)
(***************************************************************************)
EXTENDS VectorEdits, BlockLifetimeProofs

-----------------------------------------------------------------------------
\* The powers of two, one exponent after the other.
PowerStep(F, k) == IF k = 0 THEN 1 ELSE 2 * F[k - 1]

\* Powers of two exist, up to any exponent.
LEMMA PowersUpTo ==
  ASSUME NEW n \in Nat
  PROVE  \E F : F = [k \in 0..n |-> PowerStep(F, k)]
<1> DEFINE Step(F, k) == PowerStep(F, k)
           S == {m \in Nat : \E F : F = [k \in 0..m |-> Step(F, k)]}
<1>1. \A F, G, k : (k = 0 \/ F[k - 1] = G[k - 1]) => Step(F, k) = Step(G, k)
  BY DEF PowerStep
<1> HIDE DEF Step
<1>2. 0 \in S
  <2> DEFINE F == [k \in 0..0 |-> Step(<<>>, 0)]
  <2>1. F = [k \in 0..0 |-> Step(F, k)]
    <3>1. Step(<<>>, 0) = Step(F, 0)
      BY <1>1
    <3> HIDE DEF Step
    <3> QED  BY <3>1
  <2> HIDE DEF F
  <2>2. \E H : H = [k \in 0..0 |-> Step(H, k)]
    BY <2>1, Zenon
  <2> QED  BY <2>2
<1>3. ASSUME NEW m \in Nat, m \in S PROVE m + 1 \in S
  <2>1. PICK F : F = [k \in 0..m |-> Step(F, k)]
    BY <1>3
  <2> DEFINE G == [k \in 0..(m + 1) |-> IF k = m + 1 THEN Step(F, k) ELSE F[k]]
  <2>2. ASSUME NEW k \in 0..(m + 1) PROVE G[k] = Step(G, k)
    <3>1. k = 0 \/ (k - 1 \in 0..m /\ k - 1 \in 0..(m + 1) /\ k - 1 # m + 1)
      OBVIOUS
    <3>2. k = 0 \/ G[k - 1] = F[k - 1]
      BY <3>1
    <3>3. Step(F, k) = Step(G, k)
      BY <1>1, <3>2
    <3>4. k # m + 1 => k \in 0..m
      OBVIOUS
    <3>5. k # m + 1 => F[k] = Step(F, k)
      BY <2>1, <3>4
    <3>6. G[k] = IF k = m + 1 THEN Step(F, k) ELSE F[k]
      OBVIOUS
    <3> QED  BY <3>3, <3>5, <3>6
  <2>3. G = [k \in 0..(m + 1) |-> Step(G, k)]
    <3>1. G = [k \in 0..(m + 1) |-> G[k]]
      OBVIOUS
    <3> HIDE DEF G
    <3> QED  BY <2>2, <3>1
  <2> HIDE DEF G
  <2>4. \E H : H = [k \in 0..(m + 1) |-> Step(H, k)]
    BY <2>3, Zenon
  <2> QED  BY <2>4
<1>4. n \in S
  <2> HIDE DEF S
  <2> QED  BY <1>2, <1>3, SetInduction
<1> QED  BY <1>4 DEF Step

\* The powers below an exponent, whatever the exponent.
PowersTo(n) == CHOOSE F : F = [k \in 0..n |-> PowerStep(F, k)]

\* What a power is, below an exponent.
LEMMA PowersToIs ==
  ASSUME NEW n \in Nat
  PROVE  /\ PowersTo(n)[0] = 1
         /\ \A k \in 1..n : PowersTo(n)[k] = 2 * PowersTo(n)[k - 1]
<1> DEFINE F == PowersTo(n)
<1>1. F = [k \in 0..n |-> PowerStep(F, k)]
  BY PowersUpTo, Zenon DEF PowersTo
<1> HIDE DEF F
<1>2. ASSUME NEW k \in 1..n PROVE F[k] = 2 * F[k - 1]
  <2>1. k \in 0..n /\ k # 0
    OBVIOUS
  <2> QED  BY <1>1, <2>1 DEF PowerStep
<1>3. F[0] = 1
  BY <1>1 DEF PowerStep
<1> QED  BY <1>2, <1>3 DEF F

\* The powers are the same whatever exponent they go up to.
LEMMA PowersAgree ==
  ASSUME NEW n \in Nat, NEW m \in Nat
  PROVE  \A k \in Nat : k <= n /\ k <= m => PowersTo(n)[k] = PowersTo(m)[k]
<1> DEFINE S == {k \in Nat : k <= n /\ k <= m => PowersTo(n)[k] = PowersTo(m)[k]}
<1>1. 0 \in S
  BY PowersToIs
<1>2. ASSUME NEW k \in Nat, k \in S PROVE k + 1 \in S
  <2> SUFFICES ASSUME k + 1 <= n, k + 1 <= m
               PROVE  PowersTo(n)[k + 1] = PowersTo(m)[k + 1]
    OBVIOUS
  <2>1. k + 1 \in 1..n /\ k + 1 \in 1..m /\ (k + 1) - 1 = k
    OBVIOUS
  <2>2. PowersTo(n)[k] = PowersTo(m)[k]
    BY <1>2
  <2>3. PowersTo(n)[k + 1] = 2 * PowersTo(n)[k]
    BY <2>1, PowersToIs
  <2>4. PowersTo(m)[k + 1] = 2 * PowersTo(m)[k]
    BY <2>1, PowersToIs
  <2> QED  BY <2>2, <2>3, <2>4
<1> HIDE DEF S
<1>3. Nat \subseteq S
  BY <1>1, <1>2, SetInduction
<1> QED  BY <1>3 DEF S

\* Power[n] is 1 << n.
LEMMA PowerIs ==
  /\ Power[0] = 1
  /\ \A n \in Nat : Power[n + 1] = 2 * Power[n]
<1> DEFINE G == [n \in Nat |-> PowersTo(n)[n]]
<1>1. ASSUME NEW n \in Nat PROVE G[n] = IF n = 0 THEN 1 ELSE 2 * G[n - 1]
  <2>1. CASE n = 0
    BY <2>1, PowersToIs
  <2>2. CASE n # 0
    <3>1. n - 1 \in Nat /\ n \in 1..n /\ n - 1 <= n /\ n - 1 <= n - 1
      BY <2>2
    <3>2. PowersTo(n)[n] = 2 * PowersTo(n)[n - 1]
      BY <3>1, PowersToIs
    <3>3. PowersTo(n)[n - 1] = PowersTo(n - 1)[n - 1]
      BY <3>1, PowersAgree
    <3> QED  BY <2>2, <3>1, <3>2, <3>3
  <2> QED  BY <2>1, <2>2
<1>2. G = [n \in Nat |-> IF n = 0 THEN 1 ELSE 2 * G[n - 1]]
  <2>1. G = [n \in Nat |-> G[n]]
    OBVIOUS
  <2> HIDE DEF G
  <2> QED  BY <1>1, <2>1
<1> HIDE DEF G
<1>3. \E F : F = [n \in Nat |-> IF n = 0 THEN 1 ELSE 2 * F[n - 1]]
  BY <1>2
<1>4. Power = [n \in Nat |-> IF n = 0 THEN 1 ELSE 2 * Power[n - 1]]
  BY <1>3, Zenon DEF Power
<1>5. Power[0] = 1
  BY <1>4
<1>6. ASSUME NEW n \in Nat PROVE Power[n + 1] = 2 * Power[n]
  <2>1. n + 1 \in Nat /\ n + 1 # 0 /\ (n + 1) - 1 = n
    OBVIOUS
  <2> QED  BY <1>4, <2>1
<1> QED  BY <1>5, <1>6

\* A power of two is a natural number, and not 0.
LEMMA PowerIsNat == \A n \in Nat : Power[n] \in Nat \ {0}
<1> DEFINE S == {n \in Nat : Power[n] \in Nat \ {0}}
<1>1. 0 \in S
  BY PowerIs
<1>2. \A n \in Nat : n \in S => n + 1 \in S
  BY PowerIs
<1> HIDE DEF S
<1>3. Nat \subseteq S
  BY <1>1, <1>2, SetInduction
<1> QED  BY <1>3 DEF S

\* The power of a sum is the product of the powers.
LEMMA PowerOfSum ==
  ASSUME NEW m \in Nat, NEW n \in Nat
  PROVE  Power[m + n] = Power[m] * Power[n]
<1> DEFINE S == {k \in Nat : Power[m + k] = Power[m] * Power[k]}
<1>1. 0 \in S
  BY PowerIs, PowerIsNat
<1>2. ASSUME NEW k \in Nat, k \in S PROVE k + 1 \in S
  <2>1. Power[m + (k + 1)] = 2 * Power[m + k]
    <3>1. m + (k + 1) = (m + k) + 1 /\ m + k \in Nat
      OBVIOUS
    <3> QED  BY <3>1, PowerIs
  <2>2. Power[k + 1] = 2 * Power[k] /\ Power[m + k] = Power[m] * Power[k]
    BY <1>2, PowerIs
  <2>3. \A a, b \in Nat : 2 * (a * b) = a * (2 * b)
    OBVIOUS
  <2> QED  BY <2>1, <2>2, <2>3, PowerIsNat
<1> HIDE DEF S
<1>3. Nat \subseteq S
  BY <1>1, <1>2, SetInduction
<1> QED  BY <1>3 DEF S

\* A division in two steps, and what division is.
LEMMA DivTwice ==
  ASSUME NEW x \in Nat, NEW a \in Nat \ {0}, NEW b \in Nat \ {0}
  PROVE  (x \div a) \div b = x \div (a * b)
OBVIOUS

\* A division and its remainder.
LEMMA DivIs ==
  ASSUME NEW x \in Nat, NEW w \in Nat \ {0}
  PROVE  /\ x \div w \in Nat /\ x % w \in 0..(w - 1)
         /\ x = w * (x \div w) + (x % w)
OBVIOUS

\* There is one of each.
LEMMA DivUnique ==
  ASSUME NEW x \in Nat, NEW q \in Nat, NEW r \in Nat, NEW w \in Nat \ {0}, r < w, x = w * q + r
  PROVE  x \div w = q /\ x % w = r
OBVIOUS

\* A node has at least two places.
LEMMA WidthIs == WIDTH \in Nat /\ 2 <= WIDTH /\ Power[BITS] = WIDTH
<1>1. BITS \in Nat /\ BITS - 1 \in Nat /\ BITS = (BITS - 1) + 1
  BY TrieAssumption
<1>2. Power[BITS] = 2 * Power[BITS - 1]
  BY <1>1, PowerIs
<1>3. Power[BITS - 1] \in Nat \ {0}
  BY <1>1, PowerIsNat
<1> QED  BY <1>2, <1>3 DEF WIDTH

\* The place in its level, from 0, of the block on the way to an index.
Pos(index, k) == index \div Power[BITS * (k + 1)]

\* A place tells the one a level above, and the fragment is where it is below that.
LEMMA PosIs ==
  ASSUME NEW index \in Nat
  PROVE  /\ Pos(index, 0) = index \div WIDTH
         /\ fragment(index, 0) = index % WIDTH
         /\ \A k \in Nat :
              /\ Pos(index, k) \in Nat
              /\ Pos(index, k + 1) = Pos(index, k) \div WIDTH
              /\ fragment(index, BITS * (k + 1)) = Pos(index, k) % WIDTH
<1>1. BITS \in Nat
  BY TrieAssumption
<1>2. Pos(index, 0) = index \div WIDTH
  <2>1. BITS * (0 + 1) = BITS
    BY <1>1
  <2> QED  BY <2>1, WidthIs DEF Pos
<1>3. fragment(index, 0) = index % WIDTH
  <2>1. index \div 1 = index
    OBVIOUS
  <2> QED  BY <2>1, PowerIs DEF fragment
<1>4. ASSUME NEW k \in Nat
      PROVE  /\ Pos(index, k) \in Nat
             /\ Pos(index, k + 1) = Pos(index, k) \div WIDTH
             /\ fragment(index, BITS * (k + 1)) = Pos(index, k) % WIDTH
  <2> DEFINE m == BITS * (k + 1)
  <2>1. m \in Nat /\ BITS * ((k + 1) + 1) = m + BITS
    <3>1. \A a, b \in Nat : a * (b + 1) \in Nat /\ a * ((b + 1) + 1) = a * (b + 1) + a
      OBVIOUS
    <3> QED  BY <1>1, <3>1
  <2>2. Power[m] \in Nat \ {0}
    BY <2>1, PowerIsNat
  <2>3. Power[BITS * ((k + 1) + 1)] = Power[m] * WIDTH
    BY <1>1, <2>1, PowerOfSum, WidthIs
  <2>4. Pos(index, k) = index \div Power[m] /\ Pos(index, k + 1) = index \div (Power[m] * WIDTH)
    BY <2>3 DEF Pos
  <2> HIDE DEF m
  <2>5. (index \div Power[m]) \div WIDTH = index \div (Power[m] * WIDTH)
    BY <2>2, WidthIs, DivTwice
  <2>6. Pos(index, k) \in Nat
    BY <2>2, <2>4, DivIs
  <2>7. fragment(index, m) = Pos(index, k) % WIDTH
    BY <2>4 DEF fragment
  <2> QED  BY <2>4, <2>5, <2>6, <2>7 DEF m
<1> QED  BY <1>2, <1>3, <1>4

\* Two sequences are equal when their elements are.
LEMMA SequencesEqual ==
  ASSUME NEW T, NEW s \in Seq(T), NEW t \in Seq(T), Len(s) = Len(t),
         \A j \in 1..Len(s) : s[j] = t[j]
  PROVE  s = t
<1>1. s = [j \in 1..Len(s) |-> s[j]] /\ t = [j \in 1..Len(t) |-> t[j]]
  OBVIOUS
<1> QED  BY <1>1

\* As many groups as it takes to hold so many elements.
Covers(n, m) == m <= n * WIDTH /\ n * WIDTH < m + WIDTH

\* The number of its groups covers a sequence.
LEMMA GroupCount ==
  ASSUME NEW m \in Nat
  PROVE  /\ (m + WIDTH - 1) \div WIDTH \in Nat
         /\ Covers((m + WIDTH - 1) \div WIDTH, m)
<1> DEFINE x == m + WIDTH - 1
           n == x \div WIDTH
<1>1. x \in Nat /\ WIDTH \in Nat \ {0}
  BY WidthIs
<1>2. n \in Nat /\ x % WIDTH \in 0..(WIDTH - 1) /\ x = WIDTH * n + (x % WIDTH)
  BY <1>1, DivIs
<1>3. WIDTH * n = n * WIDTH /\ n * WIDTH \in Nat
  BY <1>1, <1>2
<1>4. x = m + WIDTH - 1
  OBVIOUS
<1>5. m <= n * WIDTH /\ n * WIDTH < m + WIDTH
  <2> HIDE DEF x, n
  <2> QED  BY <1>1, <1>2, <1>3, <1>4
<1> QED  BY <1>2, <1>5 DEF Covers

\* Multiples of WIDTH lie WIDTH apart.
LEMMA ProductsApart ==
  ASSUME NEW a \in Nat, NEW b \in Nat, a < b
  PROVE  a * WIDTH \in Nat /\ b * WIDTH \in Nat /\ a * WIDTH + WIDTH <= b * WIDTH
<1>1. WIDTH \in Nat
  BY WidthIs
<1>2. b = a + 1 + (b - a - 1) /\ b - a - 1 \in Nat
  OBVIOUS
<1>3. \A d, w \in Nat : (a + 1 + d) * w = a * w + w + d * w /\ d * w \in Nat /\ a * w \in Nat
  OBVIOUS
<1> QED  BY <1>1, <1>2, <1>3

\* There is one such number.
LEMMA CoversOnce ==
  ASSUME NEW m \in Nat, NEW n \in Nat, NEW k \in Nat, Covers(n, m), Covers(k, m)
  PROVE  n = k
<1>1. WIDTH \in Nat /\ 2 <= WIDTH
  BY WidthIs
<1>2. n < k => n * WIDTH + WIDTH <= k * WIDTH
  BY ProductsApart
<1>3. k < n => k * WIDTH + WIDTH <= n * WIDTH
  BY ProductsApart
<1>4. n * WIDTH \in Nat /\ k * WIDTH \in Nat
  BY <1>1
<1> QED  BY <1>1, <1>2, <1>3, <1>4 DEF Covers

\* A group begins where the ones before it end, and has WIDTH elements or all that are left.
LEMMA GroupIs ==
  ASSUME NEW T, NEW q \in Seq(T), NEW p \in Nat, p * WIDTH < Len(q)
  PROVE  LET g == Group(q, p + 1)
         IN /\ g \in Seq(T)
            /\ Len(g) = IF (p + 1) * WIDTH < Len(q) THEN WIDTH ELSE Len(q) - p * WIDTH
            /\ 1 <= Len(g) /\ Len(g) <= WIDTH
            /\ \A j \in 1..Len(g) : p * WIDTH + j \in 1..Len(q) /\ g[j] = q[p * WIDTH + j]
<1> DEFINE b == p * WIDTH
           e == IF (p + 1) * WIDTH < Len(q) THEN (p + 1) * WIDTH ELSE Len(q)
<1>1. WIDTH \in Nat /\ 2 <= WIDTH /\ Len(q) \in Nat /\ b \in Nat
  BY WidthIs
<1>2. (p + 1) * WIDTH = b + WIDTH /\ (p + 1) - 1 = p
  BY <1>1
<1>3. Group(q, p + 1) = SubSeq(q, b + 1, e)
  BY <1>2 DEF Group
<1>4. e \in Nat /\ b < e /\ e <= Len(q) /\ e <= b + WIDTH
      /\ e = IF b + WIDTH < Len(q) THEN b + WIDTH ELSE Len(q)
  BY <1>1, <1>2
<1> HIDE DEF b, e
<1>5. /\ SubSeq(q, b + 1, e) \in Seq(T) /\ Len(SubSeq(q, b + 1, e)) = e - b
      /\ \A j \in 1..(e - b) : SubSeq(q, b + 1, e)[j] = q[b + j]
  BY <1>1, <1>4
<1>6. \A j \in 1..(e - b) : b + j \in 1..Len(q)
  BY <1>1, <1>4
<1> DEFINE g == Group(q, p + 1)
<1>7. g \in Seq(T) /\ Len(g) = e - b /\ \A j \in 1..(e - b) : g[j] = q[b + j]
  BY <1>3, <1>5
<1> HIDE DEF g
<1>8. /\ Len(g) = IF b + WIDTH < Len(q) THEN WIDTH ELSE Len(q) - b
      /\ 1 <= Len(g) /\ Len(g) <= WIDTH
  BY <1>1, <1>4, <1>7
<1>9. \A j \in 1..Len(g) : b + j \in 1..Len(q) /\ g[j] = q[b + j]
  BY <1>6, <1>7
<1>10. (p + 1) * WIDTH = b + WIDTH /\ b = p * WIDTH
  BY <1>2 DEF b
<1> QED  BY <1>7, <1>8, <1>9, <1>10 DEF g

\* An element put in a place of a sequence, or after the last.
IsPut(T, q, i, x, m) ==
  /\ m \in Seq(T)
  /\ Len(m) = IF i > Len(q) THEN i ELSE Len(q)
  /\ m[i] = x
  /\ \A j \in 1..Len(q) : j # i => m[j] = q[j]

\* What putting an element gives.
LEMMA PutIs ==
  ASSUME NEW T, NEW q \in Seq(T), NEW i \in Nat, 1 <= i, i <= Len(q) + 1, NEW x \in T
  PROVE  IsPut(T, q, i, x, Put(q, i, x))
<1> DEFINE n == IF i > Len(q) THEN i ELSE Len(q)
<1>1. n \in Nat /\ Put(q, i, x) = [j \in 1..n |-> IF j = i THEN x ELSE q[j]]
  BY DEF Put
<1>2. i \in 1..n /\ (\A j \in 1..Len(q) : j \in 1..n) /\ \A j \in 1..n : j # i => j \in 1..Len(q)
  OBVIOUS
<1>3. \A j \in 1..n : (IF j = i THEN x ELSE q[j]) \in T
  BY <1>2
<1> HIDE DEF n
<1>4. [j \in 1..n |-> IF j = i THEN x ELSE q[j]] \in Seq(T)
  BY <1>1, <1>3
<1>5. Len(Put(q, i, x)) = n
  BY <1>1, <1>4
<1> QED  BY <1>1, <1>2, <1>4, <1>5 DEF n, IsPut

\* What putting an element in a place, or after the last, does to the groups.
LEMMA GroupsOfPut ==
  ASSUME NEW T, NEW q \in Seq(T), NEW i \in 0..Len(q), NEW x \in T
  PROVE  LET r == Put(q, i + 1, x)
             a == i \div WIDTH
         IN /\ a \in Nat /\ a * WIDTH < Len(r)
            /\ \A p \in Nat : p * WIDTH < Len(r) /\ p # a =>
                 p * WIDTH < Len(q) /\ Group(r, p + 1) = Group(q, p + 1)
            /\ a * WIDTH < Len(q) =>
                 /\ (i % WIDTH) + 1 \in 1..(Len(Group(q, a + 1)) + 1)
                 /\ Group(r, a + 1) = Put(Group(q, a + 1), (i % WIDTH) + 1, x)
            /\ ~(a * WIDTH < Len(q)) => i = Len(q) /\ Group(r, a + 1) = <<x>>
<1> DEFINE r == Put(q, i + 1, x)
           a == i \div WIDTH
           f == i % WIDTH
<1>1. WIDTH \in Nat /\ 2 <= WIDTH /\ Len(q) \in Nat
  BY WidthIs
<1>2. a \in Nat /\ f \in 0..(WIDTH - 1) /\ i = WIDTH * a + f
  <2>1. i \in Nat /\ WIDTH \in Nat \ {0}
    BY <1>1
  <2> QED  BY <2>1, DivIs
<1>3. /\ r \in Seq(T) /\ Len(r) \in Nat
      /\ Len(r) = IF i + 1 > Len(q) THEN i + 1 ELSE Len(q)
      /\ r[i + 1] = x
      /\ \A j \in 1..Len(q) : j # i + 1 => r[j] = q[j]
  <2> DEFINE k == i + 1
  <2>1. k \in Nat /\ 1 <= k /\ k <= Len(q) + 1
    BY <1>1
  <2>2. r = Put(q, k, x)
    OBVIOUS
  <2> HIDE DEF r, k
  <2>3. IsPut(T, q, k, x, Put(q, k, x))
    BY <2>1, PutIs
  <2>4. /\ Put(q, k, x) \in Seq(T)
        /\ Len(Put(q, k, x)) = IF k > Len(q) THEN k ELSE Len(q)
        /\ Put(q, k, x)[k] = x
        /\ \A j \in 1..Len(q) : j # k => Put(q, k, x)[j] = q[j]
    BY <2>3 DEF IsPut
  <2>5. Len(r) \in Nat
    BY <2>2, <2>4
  <2> QED  BY <2>2, <2>4, <2>5 DEF k
<1> HIDE DEF r, a, f
<1>4. a * WIDTH \in Nat /\ i = a * WIDTH + f
  BY <1>1, <1>2
<1>5. a * WIDTH < Len(r)
  BY <1>1, <1>2, <1>3, <1>4
<1>6. ASSUME NEW p \in Nat, p * WIDTH < Len(r), p # a
      PROVE  p * WIDTH < Len(q) /\ Group(r, p + 1) = Group(q, p + 1)
  <2> DEFINE b == p * WIDTH
  <2>1. /\ b \in Nat /\ (p + 1) * WIDTH = b + WIDTH
        /\ p < a => b + WIDTH <= a * WIDTH
        /\ a < p => a * WIDTH + WIDTH <= b
    BY <1>1, <1>2, ProductsApart
  <2>2. b < Len(r)
    BY <1>6
  <2>3. p < a \/ a < p
    BY <1>2, <1>6
  <2>4. /\ Group(r, p + 1) \in Seq(T)
        /\ Len(Group(r, p + 1)) = IF (p + 1) * WIDTH < Len(r) THEN WIDTH ELSE Len(r) - b
        /\ \A j \in 1..Len(Group(r, p + 1)) :
             b + j \in 1..Len(r) /\ Group(r, p + 1)[j] = r[b + j]
    BY <1>3, <1>6, GroupIs
  <2>5. b < Len(q)
    <3> HIDE DEF b
    <3> QED  BY <1>1, <1>2, <1>3, <1>4, <2>1, <2>2, <2>3
  <2>6. /\ Group(q, p + 1) \in Seq(T)
        /\ Len(Group(q, p + 1)) = IF (p + 1) * WIDTH < Len(q) THEN WIDTH ELSE Len(q) - b
        /\ \A j \in 1..Len(Group(q, p + 1)) :
             b + j \in 1..Len(q) /\ Group(q, p + 1)[j] = q[b + j]
    BY <2>5, GroupIs
  <2> HIDE DEF b
  <2>7. Len(Group(r, p + 1)) = Len(Group(q, p + 1))
    BY <1>1, <1>2, <1>3, <1>4, <2>1, <2>2, <2>3, <2>4, <2>5, <2>6
  <2>8. ASSUME NEW j \in 1..Len(Group(r, p + 1))
        PROVE  Group(r, p + 1)[j] = Group(q, p + 1)[j]
    <3>1. j \in Nat /\ 1 <= j /\ j <= WIDTH /\ b + j # i + 1
      <4>1. Len(Group(r, p + 1)) \in Nat /\ Len(Group(r, p + 1)) <= WIDTH
        BY <1>1, <1>3, <2>1, <2>2, <2>4
      <4>2. j \in Nat /\ 1 <= j /\ j <= WIDTH
        BY <4>1, <1>1
      <4>3. CASE p < a
        BY <1>1, <1>2, <1>4, <2>1, <4>2, <4>3
      <4>4. CASE a < p
        BY <1>1, <1>2, <1>4, <2>1, <4>2, <4>4
      <4> QED  BY <2>3, <4>2, <4>3, <4>4
    <3>2. b + j \in 1..Len(q) /\ Group(q, p + 1)[j] = q[b + j]
      BY <2>6, <2>7
    <3>3. Group(r, p + 1)[j] = r[b + j]
      BY <2>4
    <3> QED  BY <1>3, <3>1, <3>2, <3>3
  <2>9. Group(r, p + 1) = Group(q, p + 1)
    BY <2>4, <2>6, <2>7, <2>8, SequencesEqual
  <2> QED  BY <2>5, <2>9 DEF b
<1>7. /\ Group(r, a + 1) \in Seq(T)
      /\ Len(Group(r, a + 1)) = IF (a + 1) * WIDTH < Len(r) THEN WIDTH ELSE Len(r) - a * WIDTH
      /\ Len(Group(r, a + 1)) \in Nat
      /\ \A j \in 1..Len(Group(r, a + 1)) : Group(r, a + 1)[j] = r[a * WIDTH + j]
  <2> DEFINE g == Group(r, a + 1)
  <2>1. /\ g \in Seq(T)
        /\ Len(g) = IF (a + 1) * WIDTH < Len(r) THEN WIDTH ELSE Len(r) - a * WIDTH
        /\ \A j \in 1..Len(g) : g[j] = r[a * WIDTH + j]
    BY <1>2, <1>3, <1>5, GroupIs
  <2> HIDE DEF g
  <2>2. Len(g) \in Nat
    BY <2>1
  <2> QED  BY <2>1, <2>2 DEF g
<1>8. (a + 1) * WIDTH = a * WIDTH + WIDTH
  BY <1>1, <1>2
<1>9. ASSUME a * WIDTH < Len(q)
      PROVE  /\ f + 1 \in 1..(Len(Group(q, a + 1)) + 1)
             /\ Group(r, a + 1) = Put(Group(q, a + 1), f + 1, x)
  <2> DEFINE g == Group(q, a + 1)
             b == a * WIDTH
  <2>1. /\ g \in Seq(T) /\ Len(g) \in Nat
        /\ Len(g) = IF b + WIDTH < Len(q) THEN WIDTH ELSE Len(q) - b
        /\ \A j \in 1..Len(g) : b + j \in 1..Len(q) /\ g[j] = q[b + j]
    BY <1>2, <1>8, <1>9, GroupIs
  <2>2. b \in Nat /\ i = b + f /\ b < Len(q)
    BY <1>4, <1>9
  <2>3. Len(Group(r, a + 1)) = IF b + WIDTH < Len(r) THEN WIDTH ELSE Len(r) - b
    BY <1>7, <1>8
  <2> HIDE DEF g, b
  <2>4. f + 1 \in 1..(Len(g) + 1)
    BY <1>1, <1>2, <2>1, <2>2
  <2>5. /\ Put(g, f + 1, x) \in Seq(T)
        /\ Len(Put(g, f + 1, x)) = IF f + 1 > Len(g) THEN f + 1 ELSE Len(g)
        /\ Put(g, f + 1, x)[f + 1] = x
        /\ \A j \in 1..Len(g) : j # f + 1 => Put(g, f + 1, x)[j] = g[j]
    <3> DEFINE k == f + 1
    <3>1. k \in Nat /\ 1 <= k /\ k <= Len(g) + 1
      BY <1>2, <2>4
    <3> HIDE DEF k
    <3>2. IsPut(T, g, k, x, Put(g, k, x))
      BY <2>1, <3>1, PutIs
    <3> QED  BY <3>2 DEF k, IsPut
  <2>6. Len(Group(r, a + 1)) = Len(Put(g, f + 1, x))
    BY <1>1, <1>2, <1>3, <2>1, <2>2, <2>3, <2>5
  <2>7. ASSUME NEW j \in 1..Len(Group(r, a + 1))
        PROVE  Group(r, a + 1)[j] = Put(g, f + 1, x)[j]
    <3>1. Group(r, a + 1)[j] = r[b + j]
      BY <1>7 DEF b
    <3>2. CASE j = f + 1
      BY <1>3, <2>2, <2>5, <3>1, <3>2, <1>2
    <3>3. CASE j # f + 1
      <4>1. j \in 1..Len(g)
        BY <1>2, <1>7, <2>1, <2>4, <2>5, <2>6, <3>3
      <4>2. b + j \in 1..Len(q) /\ b + j # i + 1 /\ g[j] = q[b + j]
        BY <1>2, <2>1, <2>2, <3>3, <4>1
      <4> QED  BY <1>3, <2>5, <3>1, <3>3, <4>1, <4>2
    <3> QED  BY <3>2, <3>3
  <2>8. Group(r, a + 1) = Put(g, f + 1, x)
    BY <1>7, <2>5, <2>6, <2>7, SequencesEqual
  <2> QED  BY <2>4, <2>8 DEF g
<1>10. ASSUME ~(a * WIDTH < Len(q))
       PROVE  i = Len(q) /\ Group(r, a + 1) = <<x>>
  <2>1. i = Len(q) /\ a * WIDTH = i /\ Len(r) = i + 1
    BY <1>1, <1>2, <1>3, <1>4, <1>10
  <2>2. Len(Group(r, a + 1)) = 1
    <3> DEFINE b == a * WIDTH
               n == Len(Group(r, a + 1))
    <3>1. n = IF b + WIDTH < Len(r) THEN WIDTH ELSE Len(r) - b
      BY <1>7, <1>8
    <3>2. b = i /\ Len(r) = i + 1 /\ i \in Nat
      BY <2>1, <1>1
    <3> HIDE DEF b, n
    <3>3. n = 1
      BY <1>1, <3>1, <3>2
    <3> QED  BY <3>3 DEF n
  <2>3. Group(r, a + 1)[1] = x
    BY <1>3, <1>7, <2>1, <2>2
  <2>4. <<x>> \in Seq(T) /\ Len(<<x>>) = 1 /\ <<x>>[1] = x
    OBVIOUS
  <2>5. Group(r, a + 1) = <<x>>
    <3>1. \A j \in 1..1 : j = 1
      OBVIOUS
    <3> QED  BY <1>7, <2>2, <2>3, <2>4, <3>1, SequencesEqual
  <2> QED  BY <2>1, <2>5
<1> QED  BY <1>2, <1>5, <1>6, <1>9, <1>10 DEF r, a, f

-----------------------------------------------------------------------------
\* What a write takes from the arena and what it retires, from one context to another
\* that threw nothing: the blocks of A are new, and with those of R on the list of the
\* retired ones no block is on it twice.
Takes(c, d, A, R) ==
  /\ Extends(c, d)
  /\ NoBlock \notin DOMAIN c.heap => NoBlock \notin DOMAIN d.heap
  /\ d.err = NoError =>
       /\ c.err = NoError
       /\ A \subseteq InUse(d.alloc) \ InUse(c.alloc)
       /\ ToSet(d.allocated) = ToSet(c.allocated) \union A
       /\ ToSet(d.retired) = ToSet(c.retired) \union R
       /\ IsInjective(c.retired) /\ R \cap ToSet(c.retired) = {} => IsInjective(d.retired)

\* The blocks in use before are in use after, and hold what they held.
LEMMA ExtendsKeeps ==
  ASSUME NEW c, NEW d, Extends(c, d)
  PROVE  /\ Context(d)
         /\ InUse(c.alloc) \subseteq InUse(d.alloc)
         /\ \A o \in InUse(c.alloc) : d.heap[o] = c.heap[o]
BY DEF Extends

\* A context takes nothing to become itself.
LEMMA TakesNothing ==
  ASSUME NEW c, Context(c)
  PROVE  Takes(c, c, {}, {})
BY ExtendsItself DEF Takes

\* Two writes after each other take what both take.
LEMMA TakesTwice ==
  ASSUME NEW c, NEW d, NEW e, NEW A, NEW B, NEW R, NEW Q, Context(c),
         Takes(c, d, A, R), Takes(d, e, B, Q), R \cap Q = {}
  PROVE  Takes(c, e, A \union B, R \union Q)
<1>1. Extends(c, d) /\ Extends(d, e)
  BY DEF Takes
<1>2. Extends(c, e) /\ (NoBlock \notin DOMAIN c.heap => NoBlock \notin DOMAIN e.heap)
  BY <1>1, ExtendsIsTransitive DEF Takes
<1>3. InUse(c.alloc) \subseteq InUse(d.alloc) /\ InUse(d.alloc) \subseteq InUse(e.alloc)
  BY <1>1, ExtendsKeeps
<1>4. ASSUME e.err = NoError
      PROVE  /\ c.err = NoError
             /\ A \union B \subseteq InUse(e.alloc) \ InUse(c.alloc)
             /\ ToSet(e.allocated) = ToSet(c.allocated) \union (A \union B)
             /\ ToSet(e.retired) = ToSet(c.retired) \union (R \union Q)
             /\ IsInjective(c.retired) /\ (R \union Q) \cap ToSet(c.retired) = {}
                  => IsInjective(e.retired)
  <2>1. /\ d.err = NoError
        /\ B \subseteq InUse(e.alloc) \ InUse(d.alloc)
        /\ ToSet(e.allocated) = ToSet(d.allocated) \union B
        /\ ToSet(e.retired) = ToSet(d.retired) \union Q
        /\ IsInjective(d.retired) /\ Q \cap ToSet(d.retired) = {} => IsInjective(e.retired)
    BY <1>4 DEF Takes
  <2>2. /\ c.err = NoError
        /\ A \subseteq InUse(d.alloc) \ InUse(c.alloc)
        /\ ToSet(d.allocated) = ToSet(c.allocated) \union A
        /\ ToSet(d.retired) = ToSet(c.retired) \union R
        /\ IsInjective(c.retired) /\ R \cap ToSet(c.retired) = {} => IsInjective(d.retired)
    BY <2>1 DEF Takes
  <2> QED  BY <1>3, <2>1, <2>2
<1> QED  BY <1>2, <1>4 DEF Takes

\* A block of the journal: the context is extended by that block, which holds what was
\* written to it.
LEMMA AllocBlockTakes ==
  ASSUME NEW c, Context(c), NEW n \in Nat, NEW data
  PROVE  LET got == AllocBlock(c, n, data)
         IN /\ Takes(c, got.ctx, {got.at}, {})
            /\ got.ctx.err = NoError => got.ctx.heap[got.at] = data
            /\ got.ctx.err # NoError => got.at = NoBlock
            /\ got.at \in Nat
            /\ got = [ctx |-> got.ctx, at |-> got.at]
<1> DEFINE a   == allocate(c.alloc, n).arena
           at  == allocate(c.alloc, n).at
           h   == With(c.heap, at, data)
           got == AllocBlock(c, n, data)
           d   == got.ctx
<1>1. Extends(c, d) /\ (d.err = NoError => got.at \in InUse(d.alloc))
  BY AllocBlockExtends
<1>2. CASE c.err # NoError
  <2>1. got = [ctx |-> c, at |-> NoBlock]
    BY <1>2 DEF AllocBlock, Journaled, Write
  <2> QED  BY <1>1, <1>2, <2>1 DEF Takes, NoBlock
<1>3. CASE c.err = NoError /\ at = NoBlock
  <2>1. got = [ctx |-> [c EXCEPT !.alloc = a, !.err = "ArenaFull"], at |-> NoBlock]
    BY <1>3 DEF AllocBlock, Journaled, Write, WriteAt
  <2>2. d.err = "ArenaFull" /\ d.heap = c.heap
    <3> HIDE DEF a, got
    <3>1. d = [c EXCEPT !.alloc = a, !.err = "ArenaFull"]
      BY <2>1
    <3>2. ContextRecord(c)
      BY DEF Context
    <3> HIDE DEF d
    <3> QED  BY <3>1, <3>2 DEF ContextRecord
  <2> QED  BY <1>1, <2>1, <2>2 DEF Takes, NoBlock, NoError
<1>4. CASE c.err = NoError /\ at # NoBlock
  <2>1. got = [ctx |-> [c EXCEPT !.alloc = a, !.heap = h, !.allocated = Append(@, at)],
               at |-> at]
    <3>1. Write(c, n, data)
            = [ctx |-> [c EXCEPT !.alloc = a, !.heap = h], at |-> at]
      BY <1>4 DEF Write, WriteAt
    <3> HIDE DEF a, at, h
    <3> DEFINE w == [c EXCEPT !.alloc = a, !.heap = h]
    <3>2. AllocBlock(c, n, data)
            = [ctx |-> [w EXCEPT !.allocated = Append(@, at)], at |-> at]
      <4>1. at # NoBlock /\ Write(c, n, data) = [ctx |-> w, at |-> at]
        BY <1>4, <3>1
      <4> HIDE DEF w
      <4>2. Journaled([ctx |-> w, at |-> at])
              = [ctx |-> [w EXCEPT !.allocated = Append(@, at)], at |-> at]
        BY <4>1 DEF Journaled
      <4> QED  BY <4>1, <4>2 DEF AllocBlock
    <3>3. [w EXCEPT !.allocated = Append(@, at)]
            = [c EXCEPT !.alloc = a, !.heap = h, !.allocated = Append(@, at)]
      BY DEF Context
    <3> QED  BY <3>2, <3>3
  <2>2. at \notin InUse(c.alloc) /\ InUse(a) = InUse(c.alloc) \union {at}
    BY <1>4, RequestServed
  <2> HIDE DEF a, at
  <2>3. h[at] = data /\ (NoBlock \notin DOMAIN c.heap => NoBlock \notin DOMAIN h)
    BY <1>4 DEF With
  <2> HIDE DEF h, got
  <2>4. /\ d.alloc = a /\ d.heap = h /\ d.err = c.err /\ d.retired = c.retired
        /\ d.allocated = Append(c.allocated, at) /\ got.at = at
    BY <2>1 DEF Context, ContextRecord
  <2>5. at \in Nat
    <3>1. InUse(a) \subseteq Nat
      BY <1>1, <2>4, ContextIs DEF Extends
    <3> QED  BY <2>2, <3>1
  <2>6. ToSet(d.allocated) = ToSet(c.allocated) \union {at}
    <3>1. c.allocated \in Seq(Nat)
      <4>1. ToSet(c.allocated) \subseteq Nat
        BY ContextIs
      <4> QED  BY <4>1, SeqOver DEF Context
    <3>2. at \notin ToSet(c.allocated) /\ IsInjective(c.allocated)
      BY <2>2, ContextIs DEF Context
    <3> QED  BY <2>4, <2>5, <3>1, <3>2, AppendedTo
  <2>7. Takes(c, d, {at}, {})
    BY <1>1, <1>4, <2>2, <2>3, <2>4, <2>6 DEF Takes
  <2>8. got = [ctx |-> got.ctx, at |-> got.at]
    BY <2>1
  <2> QED  BY <1>4, <2>3, <2>4, <2>5, <2>7, <2>8 DEF got
<1> QED  BY <1>2, <1>3, <1>4 DEF at

\* A copy that replaces a node.
LEMMA ReplaceTakes ==
  ASSUME NEW c, Context(c), NEW node \in Nat, NEW n \in Nat, NEW data
  PROVE  LET got == Replace(c, node, n, data)
         IN /\ Takes(c, got.ctx, {got.at}, {node})
            /\ got.ctx.err = NoError => got.ctx.heap[got.at] = data
            /\ got.ctx.err # NoError => got.at = NoBlock
            /\ got.at \in Nat
<1> DEFINE g   == AllocBlock(c, n, data)
           d   == Retire(g.ctx, <<node>>)
<1>1. /\ Takes(c, g.ctx, {g.at}, {}) /\ g.at \in Nat
      /\ g.ctx.err = NoError => g.ctx.heap[g.at] = data
      /\ g.ctx.err # NoError => g.at = NoBlock
      /\ g = [ctx |-> g.ctx, at |-> g.at]
  BY AllocBlockTakes
<1>2. Replace(c, node, n, data).ctx = d /\ Replace(c, node, n, data).at = g.at
  <2> HIDE DEF g
  <2>1. [g EXCEPT !.ctx = Retire(@, <<node>>)] = [ctx |-> d, at |-> g.at]
    BY <1>1
  <2> QED  BY <2>1 DEF Replace, g
<1> HIDE DEF g
<1>3. Context(g.ctx)
  BY <1>1 DEF Takes, Extends
<1>4. <<node>> \in Seq(Nat) /\ ToSet(<<node>>) = {node}
  BY DEF ToSet
<1>5. Extends(g.ctx, d)
  BY <1>3, <1>4, RetireExtends
<1>6. d.err = g.ctx.err /\ d.heap = g.ctx.heap /\ d.alloc = g.ctx.alloc
      /\ d.allocated = g.ctx.allocated
      /\ (d.err = NoError => d.retired = Append(g.ctx.retired, node))
  BY <1>3 DEF Retire, Context, ContextRecord
<1>7. g.ctx.retired \in Seq(Nat)
  BY <1>3 DEF Context
<1> HIDE DEF d
<1>8. Takes(g.ctx, d, {}, {node})
  <2>1. ToSet(Append(g.ctx.retired, node)) = ToSet(g.ctx.retired) \union {node}
    BY <1>7, AppendedTo
  <2>2. ASSUME node \notin ToSet(g.ctx.retired), IsInjective(g.ctx.retired)
        PROVE  IsInjective(Append(g.ctx.retired, node))
    BY <1>7, <2>2, AppendedTo
  <2> QED  BY <1>5, <1>6, <2>1, <2>2 DEF Takes
<1>9. Takes(c, d, {g.at} \union {}, {} \union {node})
  BY <1>1, <1>8, TakesTwice
<1> QED  BY <1>1, <1>2, <1>6, <1>9

-----------------------------------------------------------------------------
\* The parts of a vector have a size.
LEMMA PartBytes ==
  /\ \A T : \A s \in Seq(T) : VectorBytes(Leaf(s)) \in Nat /\ VectorBytes(Node(s)) \in Nat
  /\ \A n : n.kind = "Vector" => VectorBytes(n) \in Nat
BY DEF VectorBytes, Leaf, Node, WORD

\* The level above a block that was written: a node with this one child, or the copy of a
\* node with the block in one of its places.
LEMMA AboveTakes ==
  ASSUME NEW below, Context(below.ctx), below.at \in Nat, NEW node, NEW i, NEW children,
         node # NoBlock => /\ node \in InUse(below.ctx.alloc)
                           /\ below.ctx.heap[node] = Node(children)
                           /\ children \in Seq(Nat) /\ i \in 1..(Len(children) + 1)
  PROVE  LET got == Above(below, node, i)
         IN /\ Takes(below.ctx, got.ctx, {got.at}, {node} \ {NoBlock})
            /\ got.ctx.err = NoError =>
                 got.ctx.heap[got.at]
                   = Node(IF node = NoBlock THEN <<below.at>> ELSE Put(children, i, below.at))
            /\ got.at \in Nat
<1> DEFINE c == below.ctx
<1>1. CASE node = NoBlock
  <2> DEFINE n == VectorBytes(Node(<<below.at>>))
             data == Node(<<below.at>>)
             got == AllocBlock(c, n, data)
  <2>1. n \in Nat
    <3>1. <<below.at>> \in Seq(Nat)
      OBVIOUS
    <3> QED  BY <3>1, PartBytes
  <2> HIDE DEF n
  <2>2. /\ Takes(c, got.ctx, {got.at}, {}) /\ got.at \in Nat
        /\ got.ctx.err = NoError => got.ctx.heap[got.at] = data
    BY <2>1, AllocBlockTakes
  <2>3. Above(below, node, i) = got
    BY <1>1 DEF Above, AllocPart, n
  <2>4. {node} \ {NoBlock} = {}
    BY <1>1
  <2> HIDE DEF got
  <2> QED  BY <1>1, <2>2, <2>3, <2>4
<1>2. CASE node # NoBlock
  <2> DEFINE s == Put(children, i, below.at)
             n == VectorBytes(Node(s))
             data == Node(s)
             got == Replace(c, node, n, data)
  <2>1. s \in Seq(Nat)
    <3>1. children \in Seq(Nat) /\ i \in Nat /\ 1 <= i /\ i <= Len(children) + 1
      BY <1>2
    <3>2. IsPut(Nat, children, i, below.at, s)
      BY <3>1, PutIs
    <3> QED  BY <3>2 DEF IsPut
  <2>2. n \in Nat
    <3> HIDE DEF s
    <3> QED  BY <2>1, PartBytes
  <2> HIDE DEF n
  <2>3. node \in Nat /\ node \in DOMAIN c.heap
    <3>1. InUse(c.alloc) \subseteq DOMAIN c.heap /\ InUse(c.alloc) \subseteq Nat
      BY ContextIs DEF Context
    <3> QED  BY <1>2, <3>1
  <2>4. /\ Takes(c, got.ctx, {got.at}, {node}) /\ got.at \in Nat
        /\ got.ctx.err = NoError => got.ctx.heap[got.at] = data
    BY <2>2, <2>3, ReplaceTakes
  <2>5. Above(below, node, i) = got
    <3>1. Load(c.heap, node) = Node(children)
      BY <1>2, <2>3 DEF Load
    <3>2. Node(children).kind = "Node" /\ Node(children).children = children
      BY DEF Node
    <3>3. PutChild(below, node, Node(children), i) = got
      BY <3>2 DEF PutChild, ReplacePart, n
    <3> QED  BY <1>2, <3>1, <3>3 DEF Above
  <2>6. {node} \ {NoBlock} = {node}
    BY <1>2
  <2> HIDE DEF got
  <2> QED  BY <1>2, <2>4, <2>5, <2>6
<1> QED  BY <1>1, <1>2

-----------------------------------------------------------------------------
UpStep(got, path, index, F, k) ==
  IF k = 0 THEN got ELSE Above(F[k - 1], path[k], fragment(index, BITS * k) + 1)

IsUp(got, path, index, n, F) == F = [k \in 0..n |-> UpStep(got, path, index, F, k)]

\* The levels of a path are written one after the other.
LEMMA UpsTo ==
  ASSUME NEW got, NEW path, NEW index, NEW n \in Nat
  PROVE  \E F : IsUp(got, path, index, n, F)
<1> DEFINE Step(F, k) == UpStep(got, path, index, F, k)
           S == {m \in Nat : \E F : F = [k \in 0..m |-> Step(F, k)]}
<1>1. \A F, G, k : (k = 0 \/ F[k - 1] = G[k - 1]) => Step(F, k) = Step(G, k)
  BY DEF UpStep
<1> HIDE DEF Step
<1>2. 0 \in S
  <2> DEFINE F == [k \in 0..0 |-> Step(<<>>, 0)]
  <2>1. F = [k \in 0..0 |-> Step(F, k)]
    <3>1. Step(<<>>, 0) = Step(F, 0)
      BY <1>1
    <3> HIDE DEF Step
    <3> QED  BY <3>1
  <2> HIDE DEF F
  <2>2. \E H : H = [k \in 0..0 |-> Step(H, k)]
    BY <2>1, Zenon
  <2> QED  BY <2>2
<1>3. ASSUME NEW m \in Nat, m \in S PROVE m + 1 \in S
  <2>1. PICK F : F = [k \in 0..m |-> Step(F, k)]
    BY <1>3
  <2> DEFINE G == [k \in 0..(m + 1) |-> IF k = m + 1 THEN Step(F, k) ELSE F[k]]
  <2>2. ASSUME NEW k \in 0..(m + 1) PROVE G[k] = Step(G, k)
    <3>1. k = 0 \/ (k - 1 \in 0..m /\ k - 1 \in 0..(m + 1) /\ k - 1 # m + 1)
      OBVIOUS
    <3>2. k = 0 \/ G[k - 1] = F[k - 1]
      BY <3>1
    <3>3. Step(F, k) = Step(G, k)
      BY <1>1, <3>2
    <3>4. k # m + 1 => k \in 0..m
      OBVIOUS
    <3>5. k # m + 1 => F[k] = Step(F, k)
      BY <2>1, <3>4
    <3>6. G[k] = IF k = m + 1 THEN Step(F, k) ELSE F[k]
      OBVIOUS
    <3> QED  BY <3>3, <3>5, <3>6
  <2>3. G = [k \in 0..(m + 1) |-> Step(G, k)]
    <3>1. G = [k \in 0..(m + 1) |-> G[k]]
      OBVIOUS
    <3> HIDE DEF G
    <3> QED  BY <2>2, <3>1
  <2> HIDE DEF G
  <2>4. \E H : H = [k \in 0..(m + 1) |-> Step(H, k)]
    BY <2>3, Zenon
  <2> QED  BY <2>4
<1>4. n \in S
  <2> HIDE DEF S
  <2> QED  BY <1>2, <1>3, SetInduction
<1> QED  BY <1>4 DEF Step, IsUp

\* What was written after so many levels.
UpTo(got, path, index, n) ==
  CHOOSE F : IsUp(got, path, index, n, F)

\* WriteUp, one level after the other.
LEMMA WriteUpSteps ==
  ASSUME NEW got, NEW path, NEW index, NEW top \in Nat
  PROVE  LET F == UpTo(got, path, index, top)
         IN /\ WriteUp(got, path, top, index) = F
            /\ F[0] = got
            /\ \A k \in 1..top : F[k] = Above(F[k - 1], path[k], fragment(index, BITS * k) + 1)
<1> DEFINE F == UpTo(got, path, index, top)
<1>1. WriteUp(got, path, top, index) = F
  BY DEF WriteUp, UpStep, UpTo, IsUp, Then
<1>2. F = [k \in 0..top |-> UpStep(got, path, index, F, k)]
  BY UpsTo DEF UpTo, IsUp
<1> HIDE DEF F
<1>3. F[0] = got
  BY <1>2 DEF UpStep
<1>4. ASSUME NEW k \in 1..top
      PROVE  F[k] = Above(F[k - 1], path[k], fragment(index, BITS * k) + 1)
  <2>1. k \in 0..top /\ k # 0
    OBVIOUS
  <2> QED  BY <1>2, <2>1 DEF UpStep
<1> QED  BY <1>1, <1>3, <1>4 DEF F

\* A place of a level and the place above it, when the levels cover each other: so they do
\* when the place, or the next one, is filled.
LEMMA PlaceAbove ==
  ASSUME NEW m \in Nat, NEW n \in Nat, Covers(n, m), NEW i \in Nat, i <= m
  PROVE  /\ i \div WIDTH \in Nat /\ i \div WIDTH <= n
         /\ i < m => i \div WIDTH < n
         /\ Covers(IF (i \div WIDTH) + 1 > n THEN (i \div WIDTH) + 1 ELSE n,
                   IF i + 1 > m THEN i + 1 ELSE m)
<1> DEFINE a == i \div WIDTH
           f == i % WIDTH
<1>1. WIDTH \in Nat /\ 2 <= WIDTH /\ WIDTH \in Nat \ {0}
  BY WidthIs
<1>2. a \in Nat /\ f \in 0..(WIDTH - 1) /\ i = WIDTH * a + f
  BY <1>1, DivIs
<1> HIDE DEF a, f
<1>3. a * WIDTH \in Nat /\ n * WIDTH \in Nat /\ i = a * WIDTH + f
  BY <1>1, <1>2
<1>4. n < a => n * WIDTH + WIDTH <= a * WIDTH
  BY <1>2, ProductsApart
<1>5. a <= n
  <2>1. m <= n * WIDTH
    BY DEF Covers
  <2> QED  BY <1>1, <1>2, <1>3, <1>4, <2>1
<1>6. i < m => a < n
  BY <1>1, <1>2, <1>3, <1>5 DEF Covers
<1>7. a + 1 > n <=> a = n
  BY <1>2, <1>5
<1>8. CASE a = n
  <2>1. (a + 1) * WIDTH = a * WIDTH + WIDTH /\ a * WIDTH = n * WIDTH
    BY <1>1, <1>2, <1>8
  <2>2. i = m
    BY <1>6, <1>8
  <2>3. f = 0
    BY <1>1, <1>2, <1>3, <2>1, <2>2 DEF Covers
  <2>4. Covers(a + 1, m + 1)
    BY <1>1, <1>3, <2>1, <2>2, <2>3 DEF Covers
  <2> QED  BY <1>2, <1>5, <1>6, <1>8, <2>2, <2>4 DEF a
<1>9. CASE a < n
  <2>1. a * WIDTH + WIDTH <= n * WIDTH
    BY <1>2, <1>9, ProductsApart
  <2>2. i + 1 <= n * WIDTH
    BY <1>1, <1>2, <1>3, <2>1
  <2>3. Covers(n, IF i + 1 > m THEN i + 1 ELSE m)
    BY <1>1, <1>3, <2>2 DEF Covers
  <2>4. ~(a + 1 > n)
    BY <1>2, <1>9
  <2> QED  BY <1>2, <1>5, <1>6, <2>3, <2>4 DEF a
<1> QED  BY <1>2, <1>5, <1>8, <1>9

\* The buffer begins above the offset that stands for no block.
LEMMA NoBlockInUse ==
  ASSUME NEW c, Context(c)
  PROVE  NoBlock \notin InUse(c.alloc)
BY BufferIs DEF Context, WellFormed, Placement, InUse, NoBlock, BLOCK_HEADER_BYTES

-----------------------------------------------------------------------------
\* A trie as a function N from a level, the leaves at 0, to the blocks of that level.
\* Places are counted from 0.  A block of the leaves holds a group of the elements q, one
\* above them a group of the blocks below it; and every block is there once.
Places(s)        == {p \in Nat : p < Len(s)}
Block(N, k, p)   == N[k][p + 1]
Under(N, q, k)   == IF k = 0 THEN q ELSE N[k - 1]
Part(k, s)       == IF k = 0 THEN Leaf(s) ELSE Node(s)
Held(N, q, k, p) == Part(k, Group(Under(N, q, k), p + 1))
Blocks(N, top)   == UNION {{Block(N, k, p) : p \in Places(N[k])} : k \in 0..top}

Levels(N, top, q) ==
  /\ top \in Nat
  /\ \A k \in 0..top : N[k] \in Seq(Nat) /\ Covers(Len(N[k]), Len(Under(N, q, k)))
  /\ \A j, k \in 0..top : \A a \in Places(N[j]), b \in Places(N[k]) :
       Block(N, j, a) = Block(N, k, b) => j = k /\ a = b

TrieIn(c, N, top, q) ==
  /\ Levels(N, top, q)
  /\ \A k \in 0..top : \A p \in Places(N[k]) :
       /\ Block(N, k, p) \in InUse(c.alloc)
       /\ c.heap[Block(N, k, p)] = Held(N, q, k, p)

\* A trie stays where it is while a write goes on.
LEMMA TrieStays ==
  ASSUME NEW c, NEW d, Extends(c, d), NEW N, NEW top, NEW q, TrieIn(c, N, top, q)
  PROVE  TrieIn(d, N, top, q)
BY ExtendsKeeps DEF TrieIn

\* The walk to a place of the leaves: the places it goes through and the blocks there, none
\* past the last block of a level.
Walk(N, top, P, path, index) ==
  /\ \A k \in 0..top : P[k] \in Nat /\ P[k] <= Len(N[k])
  /\ \A k \in 1..top :
       /\ P[k] = P[k - 1] \div WIDTH
       /\ path[k] = IF P[k] < Len(N[k]) THEN Block(N, k, P[k]) ELSE NoBlock
       /\ path[k] # NoBlock => fragment(index, BITS * k) = P[k - 1] % WIDTH

\* The groups of a level after a block was put in one of its places, as the level above
\* has them: the group of that place has it too, the others are as they were.
GroupsPut(T, q, n, i, x) ==
  LET r == Put(q, i + 1, x)
      a == i \div WIDTH
  IN /\ \A p \in Nat : p < n /\ p # a => Group(r, p + 1) = Group(q, p + 1)
     /\ Group(r, a + 1) = IF a < n THEN Put(Group(q, a + 1), (i % WIDTH) + 1, x) ELSE <<x>>
     /\ a < n => /\ Group(q, a + 1) \in Seq(T)
                 /\ (i % WIDTH) + 1 \in 1..(Len(Group(q, a + 1)) + 1)

\* Putting a block changes the group of its place and no other.
LEMMA GroupsAbove ==
  ASSUME NEW T, NEW q \in Seq(T), NEW n \in Nat, Covers(n, Len(q)),
         NEW i \in Nat, i <= Len(q), NEW x \in T
  PROVE  GroupsPut(T, q, n, i, x)
<1> DEFINE r == Put(q, i + 1, x)
           a == i \div WIDTH
           m == Len(q)
<1>1. WIDTH \in Nat /\ 2 <= WIDTH /\ m \in Nat
  BY WidthIs
<1>2. i \in 0..Len(q)
  BY <1>1
<1>3. /\ a \in Nat /\ a * WIDTH < Len(r)
      /\ \A p \in Nat : p * WIDTH < Len(r) /\ p # a =>
           p * WIDTH < Len(q) /\ Group(r, p + 1) = Group(q, p + 1)
      /\ a * WIDTH < Len(q) =>
           /\ (i % WIDTH) + 1 \in 1..(Len(Group(q, a + 1)) + 1)
           /\ Group(r, a + 1) = Put(Group(q, a + 1), (i % WIDTH) + 1, x)
      /\ ~(a * WIDTH < Len(q)) => i = Len(q) /\ Group(r, a + 1) = <<x>>
  BY <1>2, GroupsOfPut
<1>4. m <= Len(r) /\ Len(r) \in Nat
  <2> DEFINE k == i + 1
  <2>1. k \in Nat /\ 1 <= k /\ k <= Len(q) + 1
    BY <1>1
  <2> HIDE DEF k
  <2>2. IsPut(T, q, k, x, Put(q, k, x))
    BY <2>1, PutIs
  <2>3. Len(Put(q, k, x)) = IF k > Len(q) THEN k ELSE Len(q)
    BY <2>2 DEF IsPut
  <2> QED  BY <1>1, <2>3 DEF k
<1> HIDE DEF r
<1>5. \A p \in Nat : p < n => p * WIDTH \in Nat /\ p * WIDTH < m
  <2> TAKE p \in Nat
  <2> HAVE p < n
  <2>1. p * WIDTH \in Nat /\ n * WIDTH \in Nat /\ p * WIDTH + WIDTH <= n * WIDTH
    BY ProductsApart
  <2> QED  BY <1>1, <2>1 DEF Covers
<1>6. a * WIDTH < m => a < n
  <2> SUFFICES ASSUME a * WIDTH < m, n <= a PROVE FALSE
    BY <1>3
  <2>1. n < a => n * WIDTH + WIDTH <= a * WIDTH
    BY <1>3, ProductsApart
  <2>2. n * WIDTH \in Nat /\ a * WIDTH \in Nat
    BY <1>1, <1>3
  <2> HIDE DEF a
  <2> QED  BY <1>1, <1>3, <2>1, <2>2 DEF Covers
<1> HIDE DEF a
<1>7. ASSUME NEW p \in Nat, p < n, p # a PROVE Group(r, p + 1) = Group(q, p + 1)
  <2>1. p * WIDTH < Len(r)
    BY <1>1, <1>4, <1>5, <1>7
  <2> QED  BY <1>3, <1>7, <2>1
<1>8. CASE a < n
  <2>1. a * WIDTH < Len(q)
    BY <1>3, <1>5, <1>8
  <2>2. Group(q, a + 1) \in Seq(T)
    BY <1>3, <2>1, GroupIs
  <2> QED  BY <1>3, <1>7, <1>8, <2>1, <2>2 DEF r, a, GroupsPut
<1>9. CASE ~(a < n)
  <2>1. ~(a * WIDTH < Len(q))
    BY <1>6, <1>9
  <2> QED  BY <1>3, <1>7, <1>9, <2>1 DEF r, a, GroupsPut
<1> QED  BY <1>8, <1>9

-----------------------------------------------------------------------------
\* What is written over a block of the leaves that was written: in each level above, one
\* block, that holds what the level is to have there.
WalkedOver(path, top) == {path[k] : k \in 1..top} \ {NoBlock}

WroteUp(got, N, top, P, path, F) ==
  LET d == F[top].ctx
  IN /\ Takes(got.ctx, d, {F[k].at : k \in 1..top}, WalkedOver(path, top))
     /\ \A k \in 0..top : F[k].at \in Nat
     /\ d.err = NoError =>
          \A k \in 1..top :
            /\ d.heap[F[k].at] = Node(Group(Put(N[k - 1], P[k - 1] + 1, F[k - 1].at), P[k] + 1))
            /\ \A j \in 1..top : F[j].at = F[k].at => j = k

\* WriteUp writes, in each level above the leaves, the node that has the block below.
LEMMA WriteUpIs ==
  ASSUME NEW c, Context(c), NEW N, NEW top, NEW q, TrieIn(c, N, top, q),
         NEW got, Extends(c, got.ctx), got.at \in Nat,
         NEW P, NEW path, NEW index, Walk(N, top, P, path, index)
  PROVE  WroteUp(got, N, top, P, path, UpTo(got, path, index, top))
<1> DEFINE F == UpTo(got, path, index, top)
           M(k) == Put(N[k], P[k] + 1, F[k].at)
           A(k) == {F[j].at : j \in 1..k}
           R(k) == {path[j] : j \in 1..k} \ {NoBlock}
           Good(k) == /\ Takes(got.ctx, F[k].ctx, A(k), R(k))
                      /\ \A j \in 0..k : F[j].at \in Nat
                      /\ F[k].ctx.err = NoError =>
                           \A j \in 1..k :
                             /\ F[k].ctx.heap[F[j].at] = Node(Group(M(j - 1), P[j] + 1))
                             /\ \A i \in 1..k : F[i].at = F[j].at => i = j
           S == {k \in Nat : k <= top => Good(k)}
<1>1. top \in Nat /\ Levels(N, top, q)
  BY DEF TrieIn, Levels
<1>2. F[0] = got /\ \A k \in 1..top : F[k] = Above(F[k - 1], path[k], fragment(index, BITS * k) + 1)
  BY <1>1, WriteUpSteps
<1> HIDE DEF F
<1>3. Good(0)
  <2>1. 1..0 = {}
    OBVIOUS
  <2>2. A(0) = {} /\ R(0) = {}
    BY <2>1
  <2>3. Takes(got.ctx, F[0].ctx, A(0), R(0))
    <3>1. Context(got.ctx)
      BY DEF Extends
    <3> QED  BY <1>2, <2>2, <3>1, TakesNothing
  <2>4. \A j \in 0..0 : F[j].at \in Nat
    BY <1>2
  <2> QED  BY <2>1, <2>3, <2>4
<1>4. ASSUME NEW k \in Nat, k + 1 <= top, Good(k) PROVE Good(k + 1)
  <2> DEFINE g == F[k]
             e == F[k + 1]
             node == path[k + 1]
             i == fragment(index, BITS * (k + 1)) + 1
             children == Group(N[k], P[k + 1] + 1)
  <2>1. /\ k + 1 \in 1..top /\ k \in 0..top /\ k + 1 \in 0..top /\ (k + 1) - 1 = k /\ k + 1 # 0
        /\ 0..(k + 1) = (0..k) \union {k + 1} /\ 1..(k + 1) = (1..k) \union {k + 1}
        /\ k \in 0..k
    BY <1>1, <1>4
  <2>2. e = Above(g, node, i)
    BY <1>2, <2>1
  <2>3. /\ P[k] \in Nat /\ P[k] <= Len(N[k]) /\ P[k + 1] = P[k] \div WIDTH /\ P[k + 1] \in Nat
        /\ node = IF P[k + 1] < Len(N[k + 1]) THEN Block(N, k + 1, P[k + 1]) ELSE NoBlock
        /\ node # NoBlock => i = (P[k] % WIDTH) + 1
    BY <2>1 DEF Walk
  <2>4. /\ N[k] \in Seq(Nat) /\ N[k + 1] \in Seq(Nat) /\ Len(N[k + 1]) \in Nat
        /\ Covers(Len(N[k + 1]), Len(N[k]))
    <3>1. N[k] \in Seq(Nat) /\ N[k + 1] \in Seq(Nat)
      BY <1>1, <2>1 DEF Levels
    <3>2. Under(N, q, k + 1) = N[k]
      BY <2>1 DEF Under
    <3>3. Covers(Len(N[k + 1]), Len(Under(N, q, k + 1)))
      BY <1>1, <2>1 DEF Levels
    <3> QED  BY <3>1, <3>2, <3>3
  <2>5. g.at \in Nat
    BY <1>4, <2>1
  <2>6. /\ Group(M(k), P[k + 1] + 1) = IF P[k + 1] < Len(N[k + 1])
                                       THEN Put(children, (P[k] % WIDTH) + 1, g.at) ELSE <<g.at>>
        /\ P[k + 1] < Len(N[k + 1]) => /\ children \in Seq(Nat)
                                       /\ (P[k] % WIDTH) + 1 \in 1..(Len(children) + 1)
    <3> DEFINE n == Len(N[k + 1])
               x == g.at
               s == N[k]
               a == P[k]
    <3>1. s \in Seq(Nat) /\ n \in Nat /\ Covers(n, Len(s)) /\ a \in Nat /\ a <= Len(s) /\ x \in Nat
      BY <2>3, <2>4, <2>5
    <3>2. M(k) = Put(s, a + 1, x) /\ P[k + 1] = a \div WIDTH
      BY <2>3
    <3> HIDE DEF n, x, s, a, M
    <3>3. GroupsPut(Nat, s, n, a, x)
      BY <3>1, GroupsAbove
    <3>4. children = Group(s, (a \div WIDTH) + 1)
      BY <3>2 DEF s
    <3> QED  BY <3>2, <3>3, <3>4 DEF n, x, a, GroupsPut
  <2>7. Extends(c, g.ctx) /\ Context(g.ctx)
    <3>1. Extends(got.ctx, g.ctx)
      BY <1>4 DEF Takes
    <3>2. Extends(c, g.ctx)
      BY <3>1, ExtendsIsTransitive
    <3> QED  BY <3>2, ExtendsKeeps
  <2>8. node # NoBlock => /\ P[k + 1] < Len(N[k + 1])
                          /\ node \in InUse(c.alloc)
                          /\ node \in InUse(g.ctx.alloc)
                          /\ g.ctx.heap[node] = Node(children)
    <3> SUFFICES ASSUME node # NoBlock
                 PROVE  /\ P[k + 1] < Len(N[k + 1])
                        /\ node \in InUse(c.alloc)
                        /\ node \in InUse(g.ctx.alloc)
                        /\ g.ctx.heap[node] = Node(children)
      OBVIOUS
    <3>1. P[k + 1] < Len(N[k + 1]) /\ node = Block(N, k + 1, P[k + 1])
      BY <2>3
    <3>2. P[k + 1] \in Places(N[k + 1])
      BY <2>3, <3>1 DEF Places
    <3>3. node \in InUse(c.alloc) /\ c.heap[node] = Held(N, q, k + 1, P[k + 1])
      BY <2>1, <3>1, <3>2 DEF TrieIn
    <3>4. Held(N, q, k + 1, P[k + 1]) = Node(children)
      BY <2>1 DEF Held, Part, Under
    <3> QED  BY <2>7, <3>1, <3>3, <3>4, ExtendsKeeps
  <2>9. P[k + 1] < Len(N[k + 1]) => node # NoBlock
    <3>1. P[k + 1] < Len(N[k + 1]) => P[k + 1] \in Places(N[k + 1])
      BY <2>3 DEF Places
    <3>2. P[k + 1] < Len(N[k + 1]) => Block(N, k + 1, P[k + 1]) \in InUse(c.alloc)
      BY <2>1, <3>1 DEF TrieIn
    <3> QED  BY <2>3, <3>2, NoBlockInUse
  <2> HIDE DEF g, node, i, children, M
  <2>10. /\ Takes(g.ctx, e.ctx, {e.at}, {node} \ {NoBlock})
         /\ e.ctx.err = NoError => e.ctx.heap[e.at] = Node(Group(M(k), P[k + 1] + 1))
         /\ e.at \in Nat
    <3>1. node # NoBlock => /\ node \in InUse(g.ctx.alloc) /\ g.ctx.heap[node] = Node(children)
                            /\ children \in Seq(Nat) /\ i \in 1..(Len(children) + 1)
      BY <2>3, <2>6, <2>8
    <3> HIDE DEF e
    <3>2. LET h == Above(g, node, i)
          IN /\ Takes(g.ctx, h.ctx, {h.at}, {node} \ {NoBlock})
             /\ h.ctx.err = NoError =>
                  h.ctx.heap[h.at] =
                    Node(IF node = NoBlock THEN <<g.at>> ELSE Put(children, i, g.at))
             /\ h.at \in Nat
      BY <2>5, <2>7, <3>1, AboveTakes
    <3>3. Group(M(k), P[k + 1] + 1) = IF node = NoBlock THEN <<g.at>> ELSE Put(children, i, g.at)
      BY <2>3, <2>6, <2>8, <2>9
    <3> QED  BY <2>2, <3>2, <3>3
  <2>11. A(k + 1) = A(k) \union {e.at} /\ R(k + 1) = R(k) \union ({node} \ {NoBlock})
    BY <2>1 DEF e, node
  <2>12. R(k) \cap ({node} \ {NoBlock}) = {}
    <3> SUFFICES ASSUME NEW j \in 1..k, path[j] = node, node # NoBlock PROVE FALSE
      OBVIOUS
    <3>1. j \in 1..top /\ j \in 0..top /\ j # k + 1
      BY <1>1, <1>4
    <3>2. /\ P[j] \in Nat
          /\ path[j] = IF P[j] < Len(N[j]) THEN Block(N, j, P[j]) ELSE NoBlock
      BY <3>1 DEF Walk
    <3>3. P[j] \in Places(N[j]) /\ node = Block(N, j, P[j])
      BY <3>2 DEF Places
    <3>4. P[k + 1] \in Places(N[k + 1]) /\ node = Block(N, k + 1, P[k + 1])
      BY <2>3, <2>8 DEF Places
    <3>5. \A a \in Places(N[j]), b \in Places(N[k + 1]) :
            Block(N, j, a) = Block(N, k + 1, b) => j = k + 1
      BY <1>1, <2>1, <3>1 DEF Levels
    <3> QED  BY <3>1, <3>3, <3>4, <3>5
  <2> HIDE DEF A, R
  <2>13. Takes(got.ctx, e.ctx, A(k + 1), R(k + 1))
    <3>1. Takes(got.ctx, g.ctx, A(k), R(k)) /\ Context(got.ctx)
      BY <1>4 DEF g, Extends
    <3> QED  BY <2>10, <2>11, <2>12, <3>1, TakesTwice
  <2>14. \A j \in 0..(k + 1) : F[j].at \in Nat
    BY <1>4, <2>1, <2>10 DEF e
  <2>15. ASSUME e.ctx.err = NoError, NEW j \in 1..(k + 1)
         PROVE  /\ e.ctx.heap[F[j].at] = Node(Group(M(j - 1), P[j] + 1))
                /\ \A l \in 1..(k + 1) : F[l].at = F[j].at => l = j
    <3>1. /\ g.ctx.err = NoError /\ e.at \notin InUse(g.ctx.alloc)
      BY <2>10, <2>15 DEF Takes
    <3>2. \A l \in 1..k : /\ F[l].at \in InUse(g.ctx.alloc)
                          /\ g.ctx.heap[F[l].at] = Node(Group(M(l - 1), P[l] + 1))
                          /\ \A m \in 1..k : F[m].at = F[l].at => m = l
      <4>1. A(k) \subseteq InUse(g.ctx.alloc)
        BY <1>4, <3>1 DEF Takes, g
      <4> QED  BY <1>4, <3>1, <4>1 DEF g, A
    <3>3. \A l \in 1..k : e.ctx.heap[F[l].at] = g.ctx.heap[F[l].at]
      BY <2>10, <3>2, ExtendsKeeps DEF Takes
    <3>4. \A l \in 1..k : F[l].at # e.at
      BY <3>1, <3>2
    <3>5. CASE j \in 1..k
      BY <2>1, <3>2, <3>3, <3>4, <3>5 DEF e
    <3>6. CASE j = k + 1
      BY <2>1, <2>10, <2>15, <3>4, <3>6 DEF e
    <3> QED  BY <2>1, <3>5, <3>6
  <2> QED  BY <2>13, <2>14, <2>15 DEF e
<1>5. Good(top)
  <2> HIDE DEF Good
  <2>1. 0 \in S
    BY <1>3
  <2>2. \A k \in Nat : k \in S => k + 1 \in S
    BY <1>1, <1>4
  <2> HIDE DEF S
  <2>3. top \in S
    BY <1>1, <2>1, <2>2, SetInduction
  <2> QED  BY <1>1, <2>3 DEF S
<1> QED  BY <1>5 DEF F, WroteUp, WalkedOver

\* The levels with one block put in each: y[k] in place P[k] of level k.
PutIn(N, top, P, y) == [k \in 0..top |-> Put(N[k], P[k] + 1, y[k])]

\* The blocks that are in those places before.
Displaced(N, top, P) == {Block(N, k, P[k]) : k \in {j \in 0..top : P[j] < Len(N[j])}}

\* An element put in one of the places of a sequence, counted from 0, or after the last.
PutFrom0(T, s, p, x, m) ==
  /\ m \in Seq(T)
  /\ Len(m) = IF p + 1 > Len(s) THEN p + 1 ELSE Len(s)
  /\ m[p + 1] = x
  /\ \A l : l \in Places(m) <=> l \in Places(s) \/ l = p
  /\ \A l \in Places(s) : l # p => m[l + 1] = s[l + 1]

\* What putting a block in a place of a level gives.
LEMMA PutPlace ==
  ASSUME NEW T, NEW s \in Seq(T), NEW p \in Nat, p <= Len(s), NEW x \in T
  PROVE  PutFrom0(T, s, p, x, Put(s, p + 1, x))
<1> DEFINE i == p + 1
           m == Put(s, i, x)
           n == IF i > Len(s) THEN i ELSE Len(s)
<1>1. i \in Nat /\ i = p + 1 /\ Len(s) \in Nat /\ n \in Nat /\ n = IF i > Len(s) THEN i ELSE Len(s)
  OBVIOUS
<1>2. m = [j \in 1..n |-> IF j = i THEN x ELSE s[j]]
  BY DEF Put
<1> HIDE DEF i, n, m
<1>3. i \in 1..n /\ (\A j \in 1..Len(s) : j \in 1..n) /\ \A j \in 1..n : j # i => j \in 1..Len(s)
  BY <1>1
<1>4. \A j \in 1..n : (IF j = i THEN x ELSE s[j]) \in T
  BY <1>3
<1>5. m \in Seq(T) /\ Len(m) = n
  BY <1>1, <1>2, <1>4
<1>6. m[i] = x /\ \A j \in 1..Len(s) : j # i => m[j] = s[j]
  BY <1>2, <1>3
<1>7. \A l : l \in Places(m) <=> l \in Places(s) \/ l = p
  BY <1>1, <1>5 DEF Places
<1>8. \A l \in Places(s) : l # p => m[l + 1] = s[l + 1]
  <2> TAKE l \in Places(s)
  <2> HAVE l # p
  <2>1. l + 1 \in 1..Len(s) /\ l + 1 # i
    BY <1>1 DEF Places
  <2> QED  BY <1>6, <2>1
<1>9. PutFrom0(T, s, p, x, m)
  BY <1>1, <1>5, <1>6, <1>7, <1>8 DEF PutFrom0
<1> QED  BY <1>9 DEF m, i

\* Each level of a trie with a block put in it.
LevelPut(N, M, P, y, k) ==
  /\ M[k] = Put(N[k], P[k] + 1, y[k])
  /\ M[k] \in Seq(Nat)
  /\ Len(M[k]) = IF P[k] + 1 > Len(N[k]) THEN P[k] + 1 ELSE Len(N[k])
  /\ \A p : p \in Places(M[k]) <=> p \in Places(N[k]) \/ p = P[k]
  /\ Block(M, k, P[k]) = y[k]
  /\ \A p \in Places(N[k]) : p # P[k] => Block(M, k, p) = Block(N, k, p)

\* The same of a whole path.
LEMMA PutInIs ==
  ASSUME NEW N, NEW top, NEW P, NEW y, NEW k \in 0..top,
         N[k] \in Seq(Nat), P[k] \in Nat, P[k] <= Len(N[k]), y[k] \in Nat
  PROVE  LevelPut(N, PutIn(N, top, P, y), P, y, k)
<1> DEFINE M == PutIn(N, top, P, y)
           s == N[k]
           p == P[k]
           x == y[k]
<1>1. s \in Seq(Nat) /\ p \in Nat /\ p <= Len(s) /\ x \in Nat
  OBVIOUS
<1>2. M[k] = Put(s, p + 1, x)
  BY DEF PutIn
<1> HIDE DEF s, p, x, M
<1>3. PutFrom0(Nat, s, p, x, Put(s, p + 1, x))
  BY <1>1, PutPlace
<1>4. PutFrom0(Nat, s, p, x, M[k])
  BY <1>2, <1>3
<1>5. LevelPut(N, M, P, y, k)
  BY <1>2, <1>4 DEF s, p, x, Block, PutFrom0, LevelPut
<1> QED  BY <1>5 DEF M

\* What was written up a path is a trie of the new elements.
LEMMA TrieOfPut ==
  ASSUME NEW c, Context(c), NEW d, Extends(c, d),
         NEW N, NEW top, NEW q, TrieIn(c, N, top, q), NEW T, NEW r \in Seq(T), NEW P, NEW y,
         \A k \in 0..top : P[k] \in Nat /\ P[k] <= Len(N[k]) /\ y[k] \in InUse(d.alloc),
         \A k \in 1..top : P[k] = P[k - 1] \div WIDTH,
         \A k \in 0..top : y[k] \notin Blocks(N, top),
         \A j, k \in 0..top : y[j] = y[k] => j = k,
         d.heap[y[0]] = Leaf(Group(r, P[0] + 1)),
         \A k \in 1..top :
           d.heap[y[k]] = Node(Group(Put(N[k - 1], P[k - 1] + 1, y[k - 1]), P[k] + 1)),
         Covers(IF P[0] + 1 > Len(N[0]) THEN P[0] + 1 ELSE Len(N[0]), Len(r)),
         \A p \in Places(N[0]) : p # P[0] => Group(r, p + 1) = Group(q, p + 1)
  PROVE  TrieIn(d, PutIn(N, top, P, y), top, r)
<1> DEFINE M == PutIn(N, top, P, y)
<1>1. top \in Nat /\ Levels(N, top, q)
  BY DEF TrieIn, Levels
<1>2. Context(d) /\ InUse(d.alloc) \subseteq Nat
  <2>1. Context(d)
    BY ExtendsKeeps
  <2> QED  BY <2>1, ContextIs
<1>3. \A k \in 0..top : LevelPut(N, M, P, y, k)
  <2> TAKE k \in 0..top
  <2>1. N[k] \in Seq(Nat) /\ P[k] \in Nat /\ P[k] <= Len(N[k]) /\ y[k] \in Nat
    BY <1>1, <1>2 DEF Levels
  <2> QED  BY <2>1, PutInIs
<1> HIDE DEF M
<1>4. ASSUME NEW k \in 0..top PROVE Covers(Len(M[k]), Len(Under(M, r, k)))
  <2>1. CASE k = 0
    BY <1>1, <1>3, <2>1 DEF Under, LevelPut
  <2>2. CASE k # 0
    <3>1. k - 1 \in 0..top /\ k \in 1..top
      BY <1>1, <2>2
    <3> DEFINE n == Len(N[k])
               m == Len(N[k - 1])
               a == P[k - 1]
    <3>2. n \in Nat /\ m \in Nat /\ a \in Nat /\ a <= m /\ Covers(n, m)
      BY <1>1, <2>2, <3>1 DEF Levels, Under
    <3>3. P[k] = a \div WIDTH
      BY <3>1
    <3> HIDE DEF n, m, a
    <3>4. Covers(IF (a \div WIDTH) + 1 > n THEN (a \div WIDTH) + 1 ELSE n,
                 IF a + 1 > m THEN a + 1 ELSE m)
      BY <3>2, PlaceAbove
    <3>5. Len(M[k]) = IF P[k] + 1 > n THEN P[k] + 1 ELSE n
      BY <1>3 DEF n, LevelPut
    <3>6. Len(M[k - 1]) = IF a + 1 > m THEN a + 1 ELSE m
      BY <1>3, <3>1 DEF m, a, LevelPut
    <3> QED  BY <2>2, <3>3, <3>4, <3>5, <3>6 DEF Under
  <2> QED  BY <2>1, <2>2
<1>5. ASSUME NEW k \in 0..top, NEW p \in Places(N[k])
      PROVE  Block(N, k, p) \in Blocks(N, top)
  BY DEF Blocks
<1>6. ASSUME NEW j \in 0..top, NEW k \in 0..top, NEW a \in Places(M[j]), NEW b \in Places(M[k]),
             Block(M, j, a) = Block(M, k, b)
      PROVE  j = k /\ a = b
  <2>1. (a = P[j] /\ Block(M, j, a) = y[j])
        \/ (a # P[j] /\ a \in Places(N[j]) /\ Block(M, j, a) = Block(N, j, a))
    BY <1>3 DEF LevelPut
  <2>2. (b = P[k] /\ Block(M, k, b) = y[k])
        \/ (b # P[k] /\ b \in Places(N[k]) /\ Block(M, k, b) = Block(N, k, b))
    BY <1>3 DEF LevelPut
  <2>3. a \in Places(N[j]) => Block(N, j, a) # y[k]
    BY <1>5
  <2>4. b \in Places(N[k]) => Block(N, k, b) # y[j]
    BY <1>5
  <2>5. a \in Places(N[j]) /\ b \in Places(N[k]) /\ Block(N, j, a) = Block(N, k, b) =>
          j = k /\ a = b
    BY <1>1 DEF Levels
  <2>6. y[j] = y[k] => j = k
    OBVIOUS
  <2> QED  BY <1>6, <2>1, <2>2, <2>3, <2>4, <2>5, <2>6
<1>7. Levels(M, top, r)
  BY <1>1, <1>3, <1>4, <1>6 DEF Levels, LevelPut
<1>8. ASSUME NEW k \in 0..top, NEW p \in Places(N[k]), p # P[k]
      PROVE  Held(M, r, k, p) = Held(N, q, k, p)
  <2>1. CASE k = 0
    BY <1>8, <2>1 DEF Held, Under
  <2>2. CASE k # 0
    <3>1. k - 1 \in 0..top /\ k \in 1..top
      BY <1>1, <2>2
    <3> DEFINE n == Len(N[k])
               s == N[k - 1]
               a == P[k - 1]
               x == y[k - 1]
    <3>2. n \in Nat /\ s \in Seq(Nat) /\ a \in Nat /\ a <= Len(s) /\ Covers(n, Len(s)) /\ x \in Nat
      <4>1. Under(N, q, k) = N[k - 1]
        BY <2>2 DEF Under
      <4>2. N[k] \in Seq(Nat) /\ N[k - 1] \in Seq(Nat) /\ Covers(Len(N[k]), Len(Under(N, q, k)))
        BY <1>1, <3>1 DEF Levels
      <4> QED  BY <1>2, <3>1, <4>1, <4>2
    <3>3. P[k] = a \div WIDTH /\ M[k - 1] = Put(s, a + 1, x) /\ p \in Nat /\ p < n
      BY <1>3, <3>1 DEF Places, LevelPut
    <3> HIDE DEF n, s, a, x
    <3>4. GroupsPut(Nat, s, n, a, x)
      BY <3>2, GroupsAbove
    <3>5. Group(M[k - 1], p + 1) = Group(s, p + 1)
      BY <1>8, <3>3, <3>4 DEF GroupsPut
    <3> QED  BY <2>2, <3>5 DEF Held, Under, s
  <2> QED  BY <2>1, <2>2
<1>9. ASSUME NEW k \in 0..top PROVE d.heap[y[k]] = Held(M, r, k, P[k])
  <2>1. CASE k = 0
    BY <2>1 DEF Held, Under, Part
  <2>2. CASE k # 0
    <3>1. k - 1 \in 0..top /\ k \in 1..top
      BY <1>1, <2>2
    <3>2. M[k - 1] = Put(N[k - 1], P[k - 1] + 1, y[k - 1])
      BY <1>3, <3>1 DEF LevelPut
    <3> QED  BY <2>2, <3>1, <3>2 DEF Held, Under, Part
  <2> QED  BY <2>1, <2>2
<1>10. ASSUME NEW k \in 0..top, NEW p \in Places(M[k])
       PROVE  Block(M, k, p) \in InUse(d.alloc) /\ d.heap[Block(M, k, p)] = Held(M, r, k, p)
  <2>1. CASE p = P[k]
    BY <1>3, <1>9, <2>1 DEF LevelPut
  <2>2. CASE p # P[k]
    <3>1. p \in Places(N[k]) /\ Block(M, k, p) = Block(N, k, p)
      BY <1>3, <2>2 DEF LevelPut
    <3>2. Block(N, k, p) \in InUse(c.alloc) /\ c.heap[Block(N, k, p)] = Held(N, q, k, p)
      BY <3>1 DEF TrieIn
    <3> QED  BY <1>8, <2>2, <3>1, <3>2, ExtendsKeeps
  <2> QED  BY <2>1, <2>2
<1> QED  BY <1>7, <1>10 DEF TrieIn, M

\* The blocks of a trie are then the ones put there and the ones that were not displaced.
LEMMA BlocksOfPut ==
  ASSUME NEW N, NEW top, NEW q, Levels(N, top, q), NEW P, NEW y,
         \A k \in 0..top : P[k] \in Nat /\ P[k] <= Len(N[k]) /\ y[k] \in Nat
  PROVE  Blocks(PutIn(N, top, P, y), top)
           = (Blocks(N, top) \ Displaced(N, top, P)) \union {y[k] : k \in 0..top}
<1> DEFINE M == PutIn(N, top, P, y)
<1>1. \A k \in 0..top : LevelPut(N, M, P, y, k)
  <2> TAKE k \in 0..top
  <2>1. N[k] \in Seq(Nat)
    BY DEF Levels
  <2> QED  BY <2>1, PutInIs
<1> HIDE DEF M
<1>2. ASSUME NEW x \in Blocks(M, top)
      PROVE  x \in (Blocks(N, top) \ Displaced(N, top, P)) \union {y[k] : k \in 0..top}
  <2>1. PICK k \in 0..top : \E p \in Places(M[k]) : x = Block(M, k, p)
    BY DEF Blocks
  <2>2. PICK p \in Places(M[k]) : x = Block(M, k, p)
    BY <2>1
  <2>3. CASE p = P[k]
    BY <1>1, <2>2, <2>3 DEF LevelPut
  <2>4. CASE p # P[k]
    <3>1. p \in Places(N[k]) /\ x = Block(N, k, p)
      BY <1>1, <2>2, <2>4 DEF LevelPut
    <3>2. x \in Blocks(N, top)
      BY <3>1 DEF Blocks
    <3>3. x \notin Displaced(N, top, P)
      <4> SUFFICES ASSUME NEW j \in 0..top, P[j] < Len(N[j]), x = Block(N, j, P[j]) PROVE FALSE
        BY DEF Displaced
      <4>1. P[j] \in Places(N[j])
        BY DEF Places
      <4>2. \A a \in Places(N[j]), b \in Places(N[k]) :
              Block(N, j, a) = Block(N, k, b) => j = k /\ a = b
        BY DEF Levels
      <4>3. j = k /\ P[j] = p
        BY <3>1, <4>1, <4>2
      <4> QED  BY <2>4, <4>3
    <3> QED  BY <3>2, <3>3
  <2> QED  BY <2>3, <2>4
<1>3. ASSUME NEW x \in Blocks(N, top) \ Displaced(N, top, P) PROVE x \in Blocks(M, top)
  <2>1. PICK k \in 0..top : \E p \in Places(N[k]) : x = Block(N, k, p)
    BY DEF Blocks
  <2>2. PICK p \in Places(N[k]) : x = Block(N, k, p)
    BY <2>1
  <2>3. p # P[k]
    BY <1>3, <2>2 DEF Displaced, Places
  <2>4. p \in Places(M[k]) /\ x = Block(M, k, p)
    BY <1>1, <2>2, <2>3 DEF LevelPut
  <2> QED  BY <2>4 DEF Blocks
<1>4. ASSUME NEW k \in 0..top PROVE y[k] \in Blocks(M, top)
  <2>1. P[k] \in Places(M[k]) /\ y[k] = Block(M, k, P[k])
    BY <1>1 DEF LevelPut
  <2> QED  BY <2>1 DEF Blocks
<1> QED  BY <1>2, <1>3, <1>4 DEF M

-----------------------------------------------------------------------------
PathStep(h, root, index, top, F, k) ==
  IF k = top THEN root
  ELSE IF F[k + 1] = NoBlock THEN NoBlock ELSE ChildOf(Load(h, F[k + 1]), index, k + 1)

IsPath(h, root, index, top, F) == F = [k \in 0..top |-> PathStep(h, root, index, top, F, k)]

\* The walk exists, from any root.
LEMMA PathsDown ==
  ASSUME NEW h, NEW root, NEW index, NEW top \in Nat
  PROVE  \E F : IsPath(h, root, index, top, F)
<1> DEFINE Step(F, k) == PathStep(h, root, index, top, F, k)
           S == {m \in Nat : m <= top => \E F : F = [k \in (top - m)..top |-> Step(F, k)]}
<1>1. \A F, G, k : (k = top \/ F[k + 1] = G[k + 1]) => Step(F, k) = Step(G, k)
  BY DEF PathStep
<1> HIDE DEF Step
<1>2. 0 \in S
  <2> DEFINE F == [k \in (top - 0)..top |-> Step(<<>>, top)]
  <2>1. F = [k \in (top - 0)..top |-> Step(F, k)]
    <3>1. Step(<<>>, top) = Step(F, top)
      BY <1>1
    <3>2. \A k \in (top - 0)..top : k = top
      OBVIOUS
    <3> HIDE DEF Step
    <3> QED  BY <3>1, <3>2
  <2> HIDE DEF F
  <2>2. \E H : H = [k \in (top - 0)..top |-> Step(H, k)]
    BY <2>1, Zenon
  <2> QED  BY <2>2
<1>3. ASSUME NEW m \in Nat, m \in S PROVE m + 1 \in S
  <2> SUFFICES ASSUME m + 1 <= top
               PROVE  \E F : F = [k \in (top - (m + 1))..top |-> Step(F, k)]
    OBVIOUS
  <2> DEFINE l == top - (m + 1)
  <2>1. PICK F : F = [k \in (top - m)..top |-> Step(F, k)]
    BY <1>3
  <2>2. l \in Nat /\ l # top /\ \A k \in l..top : k # l => k \in (top - m)..top
    OBVIOUS
  <2>3. \A k \in l..top : k = top \/ (k + 1 \in l..top /\ k + 1 # l)
    OBVIOUS
  <2> HIDE DEF l
  <2> DEFINE G == [k \in l..top |-> IF k = l THEN Step(F, k) ELSE F[k]]
  <2>4. ASSUME NEW k \in l..top PROVE G[k] = Step(G, k)
    <3>1. k = top \/ G[k + 1] = F[k + 1]
      BY <2>3
    <3>2. Step(F, k) = Step(G, k)
      BY <1>1, <3>1
    <3>3. k # l => F[k] = Step(F, k)
      BY <2>1, <2>2
    <3>4. G[k] = IF k = l THEN Step(F, k) ELSE F[k]
      OBVIOUS
    <3> QED  BY <3>2, <3>3, <3>4
  <2>5. G = [k \in l..top |-> Step(G, k)]
    <3>1. G = [k \in l..top |-> G[k]]
      OBVIOUS
    <3> HIDE DEF G
    <3> QED  BY <2>4, <3>1
  <2> HIDE DEF G
  <2>6. \E H : H = [k \in l..top |-> Step(H, k)]
    BY <2>5, Zenon
  <2> QED  BY <2>6 DEF l
<1>4. top \in S
  <2> HIDE DEF S
  <2> QED  BY <1>2, <1>3, SetInduction
<1>5. top - top = 0
  OBVIOUS
<1> QED  BY <1>4, <1>5 DEF Step, IsPath

\* Path, one level after the other, from the root.
LEMMA PathSteps ==
  ASSUME NEW h, NEW root, NEW index, NEW top \in Nat
  PROVE  IsPath(h, root, index, top, Path(h, root, top, index))
<1> DEFINE F == CHOOSE G : IsPath(h, root, index, top, G)
<1>1. Path(h, root, top, index) = F
  BY DEF Path, IsPath, PathStep, Then
<1>2. IsPath(h, root, index, top, F)
  BY PathsDown
<1> QED  BY <1>1, <1>2

\* The block in a place of a level.
BlockIn(N, k, p) == IF p < Len(N[k]) THEN Block(N, k, p) ELSE NoBlock

\* From a node to the next: the child is the block of the level below in the next place.
ChildIs(N, n, k, p, index) ==
  ChildOf(n, index, k + 1) = BlockIn(N, k, p)

\* The walk goes on in the block that has the next place.
LEMMA ChildFound ==
  ASSUME NEW N, NEW top, NEW q, Levels(N, top, q), NEW k \in Nat, k + 1 <= top,
         NEW index \in Nat, Pos(index, k) <= Len(N[k]), Pos(index, k + 1) < Len(N[k + 1])
  PROVE  ChildIs(N, Held(N, q, k + 1, Pos(index, k + 1)), k, Pos(index, k), index)
<1> DEFINE p == Pos(index, k)
           a == Pos(index, k + 1)
           s == N[k]
           f == p % WIDTH
           g == Group(s, a + 1)
<1>1. /\ k \in 0..top /\ k + 1 \in 0..top /\ k + 1 # 0 /\ (k + 1) - 1 = k /\ top \in Nat
  BY DEF Levels
<1>2. /\ p \in Nat /\ a = p \div WIDTH /\ fragment(index, BITS * (k + 1)) = f
  BY PosIs
<1>3. WIDTH \in Nat /\ 2 <= WIDTH /\ WIDTH \in Nat \ {0}
  BY WidthIs
<1>4. s \in Seq(Nat) /\ Covers(Len(N[k + 1]), Len(s)) /\ Len(N[k + 1]) \in Nat /\ Len(s) \in Nat
  <2>1. N[k] \in Seq(Nat) /\ N[k + 1] \in Seq(Nat)
    BY <1>1 DEF Levels
  <2>2. Under(N, q, k + 1) = N[k]
    BY <1>1 DEF Under
  <2>3. Covers(Len(N[k + 1]), Len(Under(N, q, k + 1)))
    BY <1>1 DEF Levels
  <2> QED  BY <2>1, <2>2, <2>3
<1>5. Held(N, q, k + 1, a) = Node(g)
  BY <1>1 DEF Held, Under, Part
<1>6. a \in Nat /\ f \in 0..(WIDTH - 1) /\ p = WIDTH * a + f /\ a < Len(N[k + 1]) /\ p <= Len(s)
  BY <1>2, <1>3, DivIs
<1> DEFINE b == a * WIDTH
<1>7. b \in Nat /\ p = b + f /\ (a + 1) * WIDTH = b + WIDTH
  <2>1. \A x, w \in Nat : x * w \in Nat /\ (x + 1) * w = x * w + w /\ w * x = x * w
    OBVIOUS
  <2>2. p = WIDTH * a + f /\ a \in Nat /\ WIDTH \in Nat
    BY <1>3, <1>6
  <2> HIDE DEF p, a, f
  <2> QED  BY <2>1, <2>2
<1>8. b < Len(s)
  <2> DEFINE n == Len(N[k + 1])
  <2>1. n \in Nat /\ a < n /\ Covers(n, Len(s))
    BY <1>4, <1>6
  <2> HIDE DEF n, a, b, s
  <2>2. a * WIDTH + WIDTH <= n * WIDTH /\ n * WIDTH \in Nat
    BY <1>6, <2>1, ProductsApart
  <2> QED  BY <1>3, <1>4, <1>7, <2>1, <2>2 DEF Covers, b
<1> HIDE DEF p, a, s, f
<1>9. /\ g \in Seq(Nat)
      /\ Len(g) = IF (a + 1) * WIDTH < Len(s) THEN WIDTH ELSE Len(s) - a * WIDTH
      /\ \A j \in 1..Len(g) : a * WIDTH + j \in 1..Len(s) /\ g[j] = s[a * WIDTH + j]
  BY <1>4, <1>6, <1>8, GroupIs
<1> HIDE DEF b, g
<1>10. Len(g) = (IF b + WIDTH < Len(s) THEN WIDTH ELSE Len(s) - b) /\ Len(g) \in Nat
       /\ \A j \in 1..Len(g) : g[j] = s[b + j]
  BY <1>7, <1>9 DEF b
<1>11. (f + 1 > Len(g) <=> ~(p < Len(s))) /\ f \in Nat
  <2>1. f \in Nat /\ f < WIDTH /\ WIDTH \in Nat /\ Len(s) \in Nat /\ b \in Nat /\ p = b + f
        /\ b < Len(s) /\ p <= Len(s)
    BY <1>3, <1>4, <1>6, <1>7, <1>8
  <2>2. Len(g) = (IF b + WIDTH < Len(s) THEN WIDTH ELSE Len(s) - b)
    BY <1>10
  <2> QED  BY <2>1, <2>2
<1>12. p < Len(s) => g[f + 1] = s[p + 1]
  <2> SUFFICES ASSUME p < Len(s) PROVE g[f + 1] = s[p + 1]
    OBVIOUS
  <2>1. f \in Nat /\ Len(g) \in Nat /\ b \in Nat /\ p = b + f /\ ~(f + 1 > Len(g))
    BY <1>7, <1>10, <1>11
  <2>2. f + 1 \in 1..Len(g) /\ b + (f + 1) = p + 1
    BY <2>1
  <2> QED  BY <1>10, <2>2
<1>13. ChildOf(Node(g), index, k + 1) = IF f + 1 > Len(g) THEN NoBlock ELSE g[f + 1]
  BY <1>2 DEF ChildOf, Node
<1>14. ChildOf(Node(g), index, k + 1) = IF p < Len(s) THEN s[p + 1] ELSE NoBlock
  BY <1>11, <1>12, <1>13
<1> QED  BY <1>5, <1>14 DEF ChildIs, BlockIn, Block, p, a, s

-----------------------------------------------------------------------------
\* The places an index goes through are places of the levels, or the next ones; and they
\* are filled when the one of the leaves is.
OnLevel(N, index, k) ==
  /\ Pos(index, k) \in Nat
  /\ Pos(index, k) <= Len(N[k])
  /\ Pos(index, 0) < Len(N[0]) => Pos(index, k) < Len(N[k])

\* An index stays within the levels, on the way up from its leaf.
LEMMA OnLevels ==
  ASSUME NEW N, NEW top, NEW q, Levels(N, top, q), NEW index \in Nat,
         Pos(index, 0) <= Len(N[0])
  PROVE  \A k \in 0..top : OnLevel(N, index, k)
<1> DEFINE S == {k \in Nat : k <= top => OnLevel(N, index, k)}
<1>1. top \in Nat
  BY DEF Levels
<1>2. 0 \in S
  BY PosIs DEF OnLevel
<1>3. ASSUME NEW k \in Nat, k \in S PROVE k + 1 \in S
  <2> SUFFICES ASSUME k + 1 <= top PROVE OnLevel(N, index, k + 1)
    OBVIOUS
  <2> DEFINE m == Len(N[k])
             n == Len(N[k + 1])
             i == Pos(index, k)
  <2>1. k \in Nat /\ k <= top
    BY <1>1
  <2>2. k \in 0..top /\ k + 1 \in 0..top /\ k + 1 # 0 /\ (k + 1) - 1 = k
    BY <1>1
  <2>3. OnLevel(N, index, k)
    BY <1>3, <2>1
  <2>4. N[k] \in Seq(Nat) /\ N[k + 1] \in Seq(Nat) /\ Covers(Len(N[k + 1]), Len(Under(N, q, k + 1)))
    BY <2>2 DEF Levels
  <2>5. Under(N, q, k + 1) = N[k]
    BY <2>2 DEF Under
  <2>6. m \in Nat /\ n \in Nat /\ Covers(n, m) /\ i \in Nat /\ i <= m
    BY <2>3, <2>4, <2>5 DEF OnLevel
  <2>7. Pos(index, k + 1) = i \div WIDTH /\ Pos(index, k + 1) \in Nat
    <3>1. Pos(index, k + 1) = Pos(index, k) \div WIDTH
      BY PosIs
    <3>2. k + 1 \in Nat
      OBVIOUS
    <3>3. Pos(index, k + 1) \in Nat
      <4> DEFINE l == k + 1
      <4>1. l \in Nat
        BY <3>2
      <4> HIDE DEF l
      <4> QED  BY <4>1, PosIs DEF l
    <3> QED  BY <3>1, <3>3
  <2>8. Pos(index, 0) < Len(N[0]) => i < m
    BY <2>3 DEF OnLevel
  <2> HIDE DEF m, n, i
  <2>9. i \div WIDTH <= n /\ (i < m => i \div WIDTH < n)
    BY <2>6, PlaceAbove
  <2> QED  BY <2>7, <2>8, <2>9 DEF OnLevel, n
<1>4. \A k \in Nat : k \in S
  <2> HIDE DEF S
  <2> QED  BY <1>2, <1>3, SetInduction
<1> QED  BY <1>1, <1>4

\* The walk goes through the blocks in those places.
OnPath(N, F, index, k) == F[k] = BlockIn(N, k, Pos(index, k))

\* Path gives the blocks in the places of the index.
LEMMA PathIs ==
  ASSUME NEW c, Context(c), NEW N, NEW top, NEW q, TrieIn(c, N, top, q), NEW index \in Nat,
         Pos(index, 0) <= Len(N[0]), Len(N[top]) = 1, Pos(index, top) = 0
  PROVE  \A k \in 0..top : OnPath(N, Path(c.heap, Block(N, top, 0), top, index), index, k)
<1> DEFINE root == Block(N, top, 0)
           F == Path(c.heap, root, top, index)
           S == {j \in Nat : j <= top => OnPath(N, F, index, top - j)}
<1>1. top \in Nat /\ Levels(N, top, q)
  BY DEF TrieIn, Levels
<1>2. \A k \in 0..top : OnLevel(N, index, k)
  BY <1>1, OnLevels
<1>3. \A k \in 0..top : F[k] = PathStep(c.heap, root, index, top, F, k)
  <2> HIDE DEF F, root
  <2>1. IsPath(c.heap, root, index, top, F)
    BY <1>1, PathSteps DEF F
  <2> QED  BY <2>1 DEF IsPath
<1> HIDE DEF F
<1>4. 0 \in S
  <2>1. F[top] = root
    BY <1>1, <1>3 DEF PathStep
  <2>2. BlockIn(N, top, 0) = root
    BY DEF BlockIn
  <2>3. top - 0 = top
    BY <1>1
  <2> QED  BY <2>1, <2>2, <2>3 DEF OnPath
<1>5. ASSUME NEW j \in Nat, j \in S PROVE j + 1 \in S
  <2> SUFFICES ASSUME j + 1 <= top PROVE OnPath(N, F, index, top - (j + 1))
    OBVIOUS
  <2> DEFINE k == top - (j + 1)
  <2>1. k \in Nat /\ k + 1 <= top /\ k # top /\ k + 1 = top - j /\ j <= top
    BY <1>1
  <2> HIDE DEF k
  <2>2. OnPath(N, F, index, k + 1)
    BY <1>5, <2>1
  <2>3. k \in 0..top /\ k + 1 \in 0..top
    BY <1>1, <2>1
  <2>4. F[k] = IF F[k + 1] = NoBlock THEN NoBlock ELSE ChildOf(Load(c.heap, F[k + 1]), index, k + 1)
    BY <1>3, <2>1, <2>3 DEF PathStep
  <2>5. OnLevel(N, index, k) /\ OnLevel(N, index, k + 1)
    BY <1>2, <2>3
  <2> DEFINE p == Pos(index, k)
             a == Pos(index, k + 1)
  <2>6. OnPath(N, F, index, k)
    <3>1. CASE a < Len(N[k + 1])
      <4>1. a \in Places(N[k + 1])
        BY <2>5, <3>1 DEF OnLevel, Places
      <4>2. /\ Block(N, k + 1, a) \in InUse(c.alloc)
            /\ c.heap[Block(N, k + 1, a)] = Held(N, q, k + 1, a)
        BY <2>3, <4>1 DEF TrieIn
      <4>3. F[k + 1] = Block(N, k + 1, a)
        BY <2>2, <3>1 DEF OnPath, BlockIn
      <4>4. F[k + 1] # NoBlock /\ F[k + 1] \in DOMAIN c.heap
        <5>1. InUse(c.alloc) \subseteq DOMAIN c.heap
          BY ContextIs DEF Context
        <5> QED  BY <4>2, <4>3, <5>1, NoBlockInUse
      <4>5. Load(c.heap, F[k + 1]) = Held(N, q, k + 1, a)
        BY <4>2, <4>3, <4>4 DEF Load
      <4>6. ChildIs(N, Held(N, q, k + 1, a), k, p, index)
        BY <1>1, <2>1, <2>5, <3>1, ChildFound DEF OnLevel
      <4> QED  BY <2>4, <4>4, <4>5, <4>6 DEF ChildIs, OnPath
    <3>2. CASE ~(a < Len(N[k + 1]))
      <4>1. F[k + 1] = NoBlock
        BY <2>2, <3>2 DEF OnPath, BlockIn
      <4>2. ~(p < Len(N[k]))
        <5> DEFINE m == Len(N[k])
                   n == Len(N[k + 1])
        <5>1. /\ N[k] \in Seq(Nat) /\ N[k + 1] \in Seq(Nat)
              /\ Covers(Len(N[k + 1]), Len(Under(N, q, k + 1)))
          BY <1>1, <2>3 DEF Levels
        <5>2. Under(N, q, k + 1) = N[k]
          BY <2>1 DEF Under
        <5>3. m \in Nat /\ n \in Nat /\ Covers(n, m) /\ p \in Nat /\ p <= m
          BY <2>5, <5>1, <5>2 DEF OnLevel
        <5>4. a = p \div WIDTH
          BY <2>1, PosIs
        <5> HIDE DEF m, n, p
        <5>5. p < m => p \div WIDTH < n
          BY <5>3, PlaceAbove
        <5> QED  BY <3>2, <5>4, <5>5 DEF m, n
      <4> QED  BY <2>4, <4>1, <4>2 DEF OnPath, BlockIn
    <3> QED  BY <3>1, <3>2
  <2> QED  BY <2>6 DEF k
<1>6. \A j \in Nat : j \in S
  <2> HIDE DEF S
  <2> QED  BY <1>4, <1>5, SetInduction
<1>7. ASSUME NEW k \in 0..top PROVE OnPath(N, F, index, k)
  <2>1. top - k \in Nat /\ top - k <= top /\ top - (top - k) = k
    BY <1>1
  <2> QED  BY <1>6, <2>1
<1> QED  BY <1>7 DEF F

\* So that it is a walk in the sense of WriteUpIs.
PlacesOf(index, top) == [k \in 0..top |-> Pos(index, k)]

\* Path is a walk down the trie.
LEMMA PathWalks ==
  ASSUME NEW c, Context(c), NEW N, NEW top, NEW q, TrieIn(c, N, top, q), NEW index \in Nat,
         Pos(index, 0) <= Len(N[0]), Len(N[top]) = 1, Pos(index, top) = 0
  PROVE  Walk(N, top, PlacesOf(index, top), Path(c.heap, Block(N, top, 0), top, index), index)
<1> DEFINE F == Path(c.heap, Block(N, top, 0), top, index)
           P == PlacesOf(index, top)
<1>1. top \in Nat /\ Levels(N, top, q)
  BY DEF TrieIn, Levels
<1>2. \A k \in 0..top : OnLevel(N, index, k)
  BY <1>1, OnLevels
<1>3. \A k \in 0..top : OnPath(N, F, index, k)
  BY PathIs
<1> HIDE DEF F
<1>4. \A k \in 0..top : P[k] = Pos(index, k)
  BY DEF PlacesOf
<1> HIDE DEF P
<1>5. \A k \in 0..top : P[k] \in Nat /\ P[k] <= Len(N[k])
  BY <1>2, <1>4 DEF OnLevel
<1>6. ASSUME NEW k \in 1..top
      PROVE  /\ P[k] = P[k - 1] \div WIDTH
             /\ F[k] = IF P[k] < Len(N[k]) THEN Block(N, k, P[k]) ELSE NoBlock
             /\ fragment(index, BITS * k) = P[k - 1] % WIDTH
  <2> DEFINE j == k - 1
  <2>1. j \in Nat /\ k = j + 1 /\ k \in 0..top /\ j \in 0..top
    BY <1>1
  <2> HIDE DEF j
  <2>2. Pos(index, j + 1) = Pos(index, j) \div WIDTH
        /\ fragment(index, BITS * (j + 1)) = Pos(index, j) % WIDTH
    BY <2>1, PosIs
  <2>3. P[k] = Pos(index, j + 1) /\ P[j] = Pos(index, j)
    BY <1>4, <2>1
  <2>4. F[k] = BlockIn(N, k, P[k])
    BY <1>3, <1>4, <2>1 DEF OnPath
  <2> QED  BY <2>1, <2>2, <2>3, <2>4 DEF BlockIn, j
<1> QED  BY <1>5, <1>6 DEF Walk, F, P

-----------------------------------------------------------------------------
\* A block was written in place of those of R: the context took it, and it holds what was
\* written to it.
Wrote(c, got, R, data) ==
  /\ Takes(c, got.ctx, {got.at}, R)
  /\ got.at \in Nat
  /\ got.ctx.err = NoError => /\ got.ctx.heap[got.at] = data
                              /\ got.at \in InUse(got.ctx.alloc) \ InUse(c.alloc)
  /\ got.ctx.err # NoError => got.at = NoBlock

\* A part that is new.
LEMMA PartAllocated ==
  ASSUME NEW c, Context(c), NEW data, VectorBytes(data) \in Nat
  PROVE  Wrote(c, AllocPart(c, data), {}, data)
<1> DEFINE n == VectorBytes(data)
           got == AllocBlock(c, n, data)
<1>1. /\ Takes(c, got.ctx, {got.at}, {}) /\ got.at \in Nat
      /\ got.ctx.err = NoError => got.ctx.heap[got.at] = data
      /\ got.ctx.err # NoError => got.at = NoBlock
  BY AllocBlockTakes
<1>2. AllocPart(c, data) = got
  BY DEF AllocPart
<1> HIDE DEF got
<1> QED  BY <1>1, <1>2 DEF Wrote, Takes

\* A part that takes the place of another.
LEMMA PartReplaced ==
  ASSUME NEW c, Context(c), NEW node \in Nat, NEW data, VectorBytes(data) \in Nat
  PROVE  Wrote(c, ReplacePart(c, node, data), {node}, data)
<1> DEFINE n == VectorBytes(data)
           got == Replace(c, node, n, data)
<1>1. /\ Takes(c, got.ctx, {got.at}, {node}) /\ got.at \in Nat
      /\ got.ctx.err = NoError => got.ctx.heap[got.at] = data
      /\ got.ctx.err # NoError => got.at = NoBlock
  BY ReplaceTakes
<1>2. ReplacePart(c, node, data) = got
  BY DEF ReplacePart
<1> HIDE DEF got
<1> QED  BY <1>1, <1>2 DEF Wrote, Takes

\* The parts of a vector have a size.
LEMMA LeafBytes ==
  ASSUME NEW T, NEW s \in Seq(T)
  PROVE  VectorBytes(Leaf(s)) \in Nat
BY PartBytes

\* So has a node.
LEMMA NodeBytes ==
  ASSUME NEW s \in Seq(Nat)
  PROVE  VectorBytes(Node(s)) \in Nat
BY PartBytes

\* And a header.
LEMMA HeaderBytes ==
  ASSUME NEW count, NEW shift, NEW root, NEW tail
  PROVE  VectorBytes(Header(count, shift, root, tail)) \in Nat
BY PartBytes DEF Header

\* A block in use is found by its offset.
LEMMA Loaded ==
  ASSUME NEW c, Context(c), NEW at \in InUse(c.alloc)
  PROVE  Load(c.heap, at) = c.heap[at] /\ at \in Nat /\ at # NoBlock
<1>1. InUse(c.alloc) \subseteq DOMAIN c.heap /\ InUse(c.alloc) \subseteq Nat
  BY ContextIs DEF Context
<1> QED  BY <1>1, NoBlockInUse DEF Load

\* A leaf copied with one of its elements replaced.
LEMMA LeafCopied ==
  ASSUME NEW c, Context(c), NEW T, NEW t \in Seq(T), NEW leaf \in InUse(c.alloc),
         c.heap[leaf] = Leaf(t), NEW p \in Nat, p < Len(t), NEW x \in T
  PROVE  Wrote(c, copyLeafWith(c, leaf, p, x), {leaf}, Leaf(Put(t, p + 1, x)))
<1> DEFINE s == [t EXCEPT ![p + 1] = x]
<1>1. Load(c.heap, leaf) = Leaf(t) /\ leaf \in Nat
  BY Loaded
<1>2. Leaf(t).kind = "Leaf" /\ Leaf(t).slots = t
  BY DEF Leaf
<1>3. copyLeafWith(c, leaf, p, x) = ReplacePart(c, leaf, Leaf(s))
  BY <1>1, <1>2 DEF copyLeafWith, CopyWith
<1>4. s = Put(t, p + 1, x) /\ s \in Seq(T)
  <2>1. p + 1 \in 1..Len(t) /\ ~(p + 1 > Len(t)) /\ DOMAIN t = 1..Len(t)
    OBVIOUS
  <2>2. s \in Seq(T)
    BY <2>1
  <2>3. t = [j \in 1..Len(t) |-> t[j]]
    OBVIOUS
  <2>4. s = [j \in 1..Len(t) |-> IF j = p + 1 THEN x ELSE t[j]]
    BY <2>1, <2>3
  <2> QED  BY <2>1, <2>2, <2>4 DEF Put
<1> HIDE DEF s
<1>5. VectorBytes(Leaf(s)) \in Nat
  BY <1>4, LeafBytes
<1>6. Wrote(c, ReplacePart(c, leaf, Leaf(s)), {leaf}, Leaf(s))
  BY <1>1, <1>5, PartReplaced
<1> QED  BY <1>3, <1>4, <1>6

-----------------------------------------------------------------------------
\* A block written for a place of the leaves, and for every level above one: the trie of the
\* elements r.  It gains the blocks of A and loses those of R and, at the leaves, of D.
TrieWrote(got, w, N, M, top, r, D, A, R) ==
  /\ Takes(got.ctx, w.ctx, A, R)
  /\ w.at \in Nat
  /\ R \subseteq Blocks(N, top) /\ R \cap D = {}
  /\ w.ctx.err = NoError =>
       /\ TrieIn(w.ctx, M, top, r)
       /\ Len(M[top]) = 1 /\ w.at = Block(M, top, 0)
       /\ Blocks(M, top) = (Blocks(N, top) \ (D \union R)) \union (A \union {got.at})

TrieWritten(got, w, N, top, r, D) ==
  \E M, A, R : TrieWrote(got, w, N, M, top, r, D, A, R)

-----------------------------------------------------------------------------
BlocksInUse(c, N, top) == Blocks(N, top) \subseteq InUse(c.alloc)

\* The blocks of a trie are in use.
LEMMA TrieBlocks ==
  ASSUME NEW c, NEW N, NEW top, NEW q, TrieIn(c, N, top, q)
  PROVE  BlocksInUse(c, N, top)
BY DEF TrieIn, Blocks, BlocksInUse

\* The block a place of the leaves has, if it has one.
LeafAt(N, p) == IF p < Len(N[0]) THEN {Block(N, 0, p)} ELSE {}

\* The blocks a walk goes through above the leaves.
OverBlocks(N, top, P, R) ==
  /\ R \subseteq Blocks(N, top)
  /\ R \cap LeafAt(N, P[0]) = {}
  /\ Displaced(N, top, P) = LeafAt(N, P[0]) \union R

\* What a write up a path displaces is the path.
LEMMA WalkDisplaces ==
  ASSUME NEW c, Context(c), NEW N, NEW top, NEW q, TrieIn(c, N, top, q),
         NEW P, NEW path, NEW index, Walk(N, top, P, path, index)
  PROVE  OverBlocks(N, top, P, WalkedOver(path, top))
<1> DEFINE R == {path[k] : k \in 1..top} \ {NoBlock}
<1>1. top \in Nat /\ Levels(N, top, q)
  BY DEF TrieIn, Levels
<1>2. \A k \in 0..top : P[k] \in Nat /\ (P[k] < Len(N[k]) => P[k] \in Places(N[k]))
  BY DEF Walk, Places
<1>3. ASSUME NEW k \in 1..top
      PROVE  /\ k \in 0..top
             /\ P[k] < Len(N[k]) => path[k] = Block(N, k, P[k]) /\ path[k] # NoBlock
             /\ path[k] # NoBlock => P[k] < Len(N[k])
  <2>1. k \in 0..top
    BY <1>1
  <2>2. path[k] = IF P[k] < Len(N[k]) THEN Block(N, k, P[k]) ELSE NoBlock
    BY DEF Walk
  <2>3. P[k] < Len(N[k]) => Block(N, k, P[k]) \in InUse(c.alloc)
    BY <1>2, <2>1 DEF TrieIn
  <2> QED  BY <2>1, <2>2, <2>3, NoBlockInUse
<1>4. R \subseteq Blocks(N, top)
  BY <1>2, <1>3 DEF Blocks
<1>5. R \cap LeafAt(N, P[0]) = {}
  <2> SUFFICES ASSUME NEW k \in 1..top, path[k] # NoBlock, P[0] < Len(N[0]),
                      path[k] = Block(N, 0, P[0])
               PROVE  FALSE
    BY DEF LeafAt
  <2>1. k \in 0..top /\ k # 0 /\ 0 \in 0..top
    BY <1>1
  <2>2. P[k] \in Places(N[k]) /\ P[0] \in Places(N[0]) /\ Block(N, k, P[k]) = Block(N, 0, P[0])
    BY <1>2, <1>3, <2>1
  <2>3. \A a \in Places(N[k]), b \in Places(N[0]) : Block(N, k, a) = Block(N, 0, b) => k = 0
    BY <1>1, <2>1 DEF Levels
  <2> QED  BY <2>1, <2>2, <2>3
<1>6. Displaced(N, top, P) = LeafAt(N, P[0]) \union R
  <2>1. 0..top = {0} \union (1..top)
    BY <1>1
  <2>2. ASSUME NEW x \in Displaced(N, top, P) PROVE x \in LeafAt(N, P[0]) \union R
    <3>1. PICK k \in 0..top : P[k] < Len(N[k]) /\ x = Block(N, k, P[k])
      BY DEF Displaced
    <3>2. CASE k = 0
      BY <3>1, <3>2 DEF LeafAt
    <3>3. CASE k \in 1..top
      BY <1>3, <3>1, <3>3
    <3> QED  BY <2>1, <3>2, <3>3
  <2>3. ASSUME NEW x \in R PROVE x \in Displaced(N, top, P)
    BY <1>3 DEF Displaced
  <2>4. LeafAt(N, P[0]) \subseteq Displaced(N, top, P)
    BY <2>1 DEF LeafAt, Displaced
  <2> QED  BY <2>2, <2>3, <2>4
<1> QED  BY <1>4, <1>5, <1>6 DEF OverBlocks, WalkedOver

\* A block written for a place of the leaves and one for every level above, the last of them
\* in place p of its level: the trie of the elements r.
PathWrote(got, w, N, M, top, p, r, D, A, R) ==
  /\ Takes(got.ctx, w.ctx, A, R)
  /\ w.at \in Nat
  /\ R \subseteq Blocks(N, top) /\ R \cap D = {}
  /\ w.ctx.err = NoError =>
       /\ TrieIn(w.ctx, M, top, r)
       /\ M[top] = Put(N[top], p + 1, w.at) /\ Block(M, top, p) = w.at
       /\ Blocks(M, top) = (Blocks(N, top) \ (D \union R)) \union (A \union {got.at})

PathWritten(got, w, N, top, p, r, D) ==
  \E M, A, R : PathWrote(got, w, N, M, top, p, r, D, A, R)

\* The trie after a write to a place of its leaves.
LEMMA PathPut ==
  ASSUME NEW c, Context(c), NEW N, NEW top, NEW q, TrieIn(c, N, top, q),
         NEW P, NEW path, NEW index, Walk(N, top, P, path, index), NEW T, NEW r \in Seq(T),
         NEW got, Extends(c, got.ctx), got.at \in Nat,
         got.ctx.err = NoError =>
           /\ got.at \in InUse(got.ctx.alloc) \ Blocks(N, top)
           /\ got.ctx.heap[got.at] = Leaf(Group(r, P[0] + 1)),
         Covers(IF P[0] + 1 > Len(N[0]) THEN P[0] + 1 ELSE Len(N[0]), Len(r)),
         \A p \in Places(N[0]) : p # P[0] => Group(r, p + 1) = Group(q, p + 1)
  PROVE  PathWritten(got, WriteUp(got, path, top, index)[top], N, top, P[top], r, LeafAt(N, P[0]))
<1> DEFINE F    == UpTo(got, path, index, top)
           w    == F[top]
           d    == F[top].ctx
           y    == [k \in 0..top |-> F[k].at]
           M    == PutIn(N, top, P, y)
           A    == {F[k].at : k \in 1..top}
           R    == WalkedOver(path, top)
           D    == LeafAt(N, P[0])
<1>1. top \in Nat /\ Levels(N, top, q)
  BY DEF TrieIn, Levels
<1>2. WriteUp(got, path, top, index) = F /\ F[0] = got
  BY <1>1, WriteUpSteps
<1>3. /\ Takes(got.ctx, d, A, R)
      /\ \A k \in 0..top : F[k].at \in Nat
      /\ d.err = NoError =>
           \A k \in 1..top :
             /\ d.heap[F[k].at] = Node(Group(Put(N[k - 1], P[k - 1] + 1, F[k - 1].at), P[k] + 1))
             /\ \A j \in 1..top : F[j].at = F[k].at => j = k
  <2>1. WroteUp(got, N, top, P, path, F)
    <3> HIDE DEF F
    <3> QED  BY WriteUpIs DEF F
  <2> QED  BY <2>1 DEF WroteUp
<1> HIDE DEF F
<1>4. \A k \in 0..top : y[k] = F[k].at
  OBVIOUS
<1> HIDE DEF y
<1>5. /\ R \subseteq Blocks(N, top) /\ R \cap D = {}
      /\ Displaced(N, top, P) = D \union R
  <2>1. OverBlocks(N, top, P, WalkedOver(path, top))
    BY WalkDisplaces
  <2> QED  BY <2>1 DEF OverBlocks
<1>6. w.at \in Nat
  BY <1>1, <1>3
<1>7. ASSUME d.err = NoError
      PROVE  /\ TrieIn(d, M, top, r)
             /\ M[top] = Put(N[top], P[top] + 1, w.at) /\ Block(M, top, P[top]) = w.at
             /\ Blocks(M, top) = (Blocks(N, top) \ (D \union R)) \union (A \union {got.at})
  <2>1. got.ctx.err = NoError /\ A \subseteq InUse(d.alloc) \ InUse(got.ctx.alloc)
    BY <1>3, <1>7 DEF Takes
  <2>2. /\ got.at \in InUse(got.ctx.alloc) /\ got.at \notin Blocks(N, top)
        /\ got.ctx.heap[got.at] = Leaf(Group(r, P[0] + 1))
    BY <2>1
  <2>3. /\ Extends(got.ctx, d) /\ Extends(c, d) /\ InUse(c.alloc) \subseteq InUse(got.ctx.alloc)
        /\ InUse(got.ctx.alloc) \subseteq InUse(d.alloc)
        /\ d.heap[got.at] = got.ctx.heap[got.at]
    <3>1. Extends(got.ctx, d)
      BY <1>3 DEF Takes
    <3>2. Extends(c, d)
      BY <3>1, ExtendsIsTransitive
    <3> QED  BY <2>2, <3>1, <3>2, ExtendsKeeps
  <2>4. Blocks(N, top) \subseteq InUse(got.ctx.alloc)
    BY <2>3, TrieBlocks DEF BlocksInUse
  <2>5. y[0] = got.at /\ \A k \in 1..top : y[k] \in A /\ k \in 0..top
    BY <1>1, <1>2, <1>4
  <2>6. 0..top = {0} \union (1..top)
    BY <1>1
  <2>7. \A k \in 0..top : y[k] \in InUse(d.alloc) /\ y[k] \notin Blocks(N, top)
    BY <2>1, <2>2, <2>3, <2>4, <2>5, <2>6
  <2>8. ASSUME NEW j \in 0..top, NEW k \in 0..top, y[j] = y[k] PROVE j = k
    <3>1. j \in 1..top /\ k \in 1..top => j = k
      BY <1>3, <1>4, <1>7, <2>8
    <3> QED  BY <2>1, <2>2, <2>5, <2>6, <2>8, <3>1
  <2>9. d.heap[y[0]] = Leaf(Group(r, P[0] + 1))
    BY <2>2, <2>3, <2>5
  <2>10. ASSUME NEW k \in 1..top
         PROVE  d.heap[y[k]] = Node(Group(Put(N[k - 1], P[k - 1] + 1, y[k - 1]), P[k] + 1))
    <3>1. k \in 0..top /\ k - 1 \in 0..top
      BY <1>1
    <3>2. y[k] = F[k].at /\ y[k - 1] = F[k - 1].at
      BY <1>4, <3>1
    <3> QED  BY <1>3, <1>7, <3>2
  <2>11. \A k \in 0..top : P[k] \in Nat /\ P[k] <= Len(N[k])
    BY DEF Walk
  <2>12. \A k \in 1..top : P[k] = P[k - 1] \div WIDTH
    BY DEF Walk
  <2>13. Covers(IF P[0] + 1 > Len(N[0]) THEN P[0] + 1 ELSE Len(N[0]), Len(r))
    OBVIOUS
  <2>14. \A p \in Places(N[0]) : p # P[0] => Group(r, p + 1) = Group(q, p + 1)
    OBVIOUS
  <2>15. Context(d) /\ InUse(d.alloc) \subseteq Nat
    <3>1. Context(d)
      BY <2>3, ExtendsKeeps
    <3> QED  BY <3>1, ContextIs
  <2> HIDE DEF d, A, R, D, M
  <2>16. TrieIn(d, M, top, r)
    BY <2>3, <2>7, <2>8, <2>9, <2>10, <2>11, <2>12, <2>13, <2>14, TrieOfPut DEF M
  <2>17. Blocks(M, top) = (Blocks(N, top) \ Displaced(N, top, P)) \union {y[k] : k \in 0..top}
    BY <1>1, <2>7, <2>11, <2>15, BlocksOfPut DEF M
  <2>18. {y[k] : k \in 0..top} = A \union {got.at}
    BY <1>4, <2>5, <2>6 DEF A
  <2>19. LevelPut(N, M, P, y, top)
    <3>1. top \in 0..top
      BY <1>1
    <3>2. N[top] \in Seq(Nat)
      BY <1>1, <3>1 DEF Levels
    <3>3. P[top] \in Nat /\ P[top] <= Len(N[top]) /\ y[top] \in Nat
      BY <2>7, <2>11, <2>15, <3>1
    <3> QED  BY <3>1, <3>2, <3>3, PutInIs DEF M
  <2>20. M[top] = Put(N[top], P[top] + 1, w.at) /\ Block(M, top, P[top]) = w.at
    <3>1. top \in 0..top
      BY <1>1
    <3> QED  BY <1>4, <2>19, <3>1 DEF LevelPut
  <2> QED  BY <1>5, <2>16, <2>17, <2>18, <2>20
<1> HIDE DEF M, A, R, D
<1>8. PathWrote(got, w, N, M, top, P[top], r, D, A, R)
  BY <1>3, <1>5, <1>6, <1>7 DEF PathWrote
<1>9. PathWritten(got, w, N, top, P[top], r, D)
  BY <1>8 DEF PathWritten
<1> QED  BY <1>2, <1>9 DEF D

\* The trie after a write to a place of its leaves.
LEMMA TriePut ==
  ASSUME NEW c, Context(c), NEW N, NEW top, NEW q, TrieIn(c, N, top, q), Len(N[top]) = 1,
         NEW index \in Nat, Pos(index, 0) <= Len(N[0]), Pos(index, top) = 0,
         NEW T, NEW r \in Seq(T),
         NEW got, Extends(c, got.ctx), got.at \in Nat,
         got.ctx.err = NoError =>
           /\ got.at \in InUse(got.ctx.alloc) \ Blocks(N, top)
           /\ got.ctx.heap[got.at] = Leaf(Group(r, Pos(index, 0) + 1)),
         Covers(IF Pos(index, 0) + 1 > Len(N[0]) THEN Pos(index, 0) + 1 ELSE Len(N[0]), Len(r)),
         \A p \in Places(N[0]) : p # Pos(index, 0) => Group(r, p + 1) = Group(q, p + 1)
  PROVE  TrieWritten(got, WriteUp(got, Path(c.heap, Block(N, top, 0), top, index), top, index)[top],
                     N, top, r, LeafAt(N, Pos(index, 0)))
<1> DEFINE P    == PlacesOf(index, top)
           path == Path(c.heap, Block(N, top, 0), top, index)
           w    == WriteUp(got, path, top, index)[top]
<1>1. top \in Nat /\ Levels(N, top, q)
  BY DEF TrieIn, Levels
<1>2. Walk(N, top, P, path, index)
  BY PathWalks
<1>3. P[0] = Pos(index, 0) /\ P[top] = 0
  BY <1>1 DEF PlacesOf
<1> HIDE DEF P, path
<1>4. PathWritten(got, w, N, top, P[top], r, LeafAt(N, P[0]))
  BY <1>2, <1>3, PathPut
<1> HIDE DEF w
<1>5. PathWritten(got, w, N, top, 0, r, LeafAt(N, Pos(index, 0)))
  BY <1>3, <1>4
<1> DEFINE D == LeafAt(N, Pos(index, 0))
<1> HIDE DEF D
<1>6. PICK M, A, R : PathWrote(got, w, N, M, top, 0, r, D, A, R)
  BY <1>5 DEF PathWritten, D
<1>7. ASSUME w.ctx.err = NoError
      PROVE  Len(M[top]) = 1 /\ w.at = Block(M, top, 0)
  <2>1. M[top] = Put(N[top], 0 + 1, w.at) /\ Block(M, top, 0) = w.at /\ w.at \in Nat
    BY <1>6, <1>7 DEF PathWrote
  <2>2. N[top] \in Seq(Nat)
    <3>1. top \in 0..top
      BY <1>1
    <3> QED  BY <1>1, <3>1 DEF Levels
  <2> DEFINE s == N[top]
             k == 0 + 1
             y == w.at
  <2>3. s \in Seq(Nat) /\ k \in Nat /\ 1 <= k /\ k <= Len(s) + 1 /\ ~(k > Len(s)) /\ y \in Nat
    BY <2>1, <2>2
  <2> HIDE DEF s, k, y
  <2>4. IsPut(Nat, s, k, y, Put(s, k, y))
    BY <2>3, PutIs
  <2>5. Len(M[top]) = Len(s)
    BY <2>1, <2>3, <2>4 DEF IsPut, s, k, y
  <2> QED  BY <2>1, <2>5 DEF s
<1>8. TrieWrote(got, w, N, M, top, r, D, A, R)
  BY <1>6, <1>7 DEF PathWrote, TrieWrote
<1>9. TrieWritten(got, w, N, top, r, D)
  BY <1>8 DEF TrieWritten
<1> QED  BY <1>9 DEF D, w, path

-----------------------------------------------------------------------------
\* A vector: the elements q in the trie, in leaves that are all full, and the elements t of
\* the tail, with the fields of the header that say where they are.
Parts(T, c, q, t, N, top, shift, root, tail) ==
  /\ q \in Seq(T) /\ t \in Seq(T)
  /\ TrieIn(c, N, top, q)
  /\ Len(q) = Len(N[0]) * WIDTH
  /\ IF q = <<>> THEN root = 0 /\ top = 0
     ELSE root = Block(N, top, 0) /\ shift = BITS * top /\ Len(N[top]) = 1
  /\ IF t = <<>> THEN q = <<>> /\ tail = 0
     ELSE /\ Len(t) <= WIDTH
          /\ tail \in InUse(c.alloc) \ Blocks(N, top)
          /\ c.heap[tail] = Leaf(t)

PartBlocks(t, N, top, tail) == Blocks(N, top) \union (IF t = <<>> THEN {} ELSE {tail})

VectorIn(T, c, at, q, t, N, top, shift, root, tail) ==
  /\ Parts(T, c, q, t, N, top, shift, root, tail)
  /\ at \in InUse(c.alloc) \ PartBlocks(t, N, top, tail)
  /\ c.heap[at] = Header(Len(q) + Len(t), shift, root, tail)

\* The header at an offset is the one of a vector of these elements, made of these blocks.
VectorOf(T, c, at, s, B) ==
  \E q, t, N, top, shift, root, tail :
    /\ VectorIn(T, c, at, q, t, N, top, shift, root, tail)
    /\ s = q \o t
    /\ B = {at} \union PartBlocks(t, N, top, tail)

\* What an operation on a vector promises: it retires blocks of the vector alone, and what
\* is left of them is with the new ones a vector of these elements.
Writes(T, c, B, got, s) ==
  \E A, R :
    /\ Takes(c, got.ctx, A, R)
    /\ R \subseteq B
    /\ got.at \in Nat
    /\ got.ctx.err = NoError => VectorOf(T, got.ctx, got.at, s, (B \ R) \union A)
    /\ got.ctx.err # NoError => got.at = NoBlock

\* The parts of a vector stay what they are, and so does a vector, when something is written.
LEMMA PartsStay ==
  ASSUME NEW T, NEW c, NEW d, Extends(c, d), NEW q, NEW t, NEW N, NEW top,
         NEW shift, NEW root, NEW tail, Parts(T, c, q, t, N, top, shift, root, tail)
  PROVE  Parts(T, d, q, t, N, top, shift, root, tail)
<1>1. TrieIn(d, N, top, q)
  BY TrieStays DEF Parts
<1>2. t # <<>> => /\ tail \in InUse(d.alloc) \ Blocks(N, top)
                  /\ d.heap[tail] = Leaf(t)
  BY ExtendsKeeps DEF Parts
<1> QED  BY <1>1, <1>2 DEF Parts

\* The blocks of the parts are in use.
LEMMA PartsInUse ==
  ASSUME NEW T, NEW c, NEW q, NEW t, NEW N, NEW top, NEW shift, NEW root, NEW tail,
         Parts(T, c, q, t, N, top, shift, root, tail)
  PROVE  PartBlocks(t, N, top, tail) \subseteq InUse(c.alloc)
<1>1. BlocksInUse(c, N, top)
  BY TrieBlocks DEF Parts
<1> QED  BY <1>1 DEF Parts, PartBlocks, BlocksInUse

\* A vector is not changed by any write, so that a version that was published reads on.
THEOREM VectorStays ==
  ASSUME NEW T, NEW c, NEW d, Extends(c, d), NEW at, NEW s, NEW B, VectorOf(T, c, at, s, B)
  PROVE  VectorOf(T, d, at, s, B)
<1>1. PICK q, t, N, top, shift, root, tail :
        /\ VectorIn(T, c, at, q, t, N, top, shift, root, tail)
        /\ s = q \o t
        /\ B = {at} \union PartBlocks(t, N, top, tail)
  BY DEF VectorOf
<1>2. Parts(T, d, q, t, N, top, shift, root, tail)
  BY <1>1, PartsStay DEF VectorIn
<1>3. /\ at \in InUse(d.alloc) \ PartBlocks(t, N, top, tail)
      /\ d.heap[at] = Header(Len(q) + Len(t), shift, root, tail)
  BY <1>1, ExtendsKeeps DEF VectorIn
<1>4. VectorIn(T, d, at, q, t, N, top, shift, root, tail)
  BY <1>2, <1>3 DEF VectorIn
<1> QED  BY <1>1, <1>4 DEF VectorOf

\* A header written for parts that are there makes them a vector.
LEMMA HeaderWritten ==
  ASSUME NEW c, Context(c), NEW T, NEW q, NEW t, NEW N, NEW top, NEW shift, NEW root, NEW tail,
         c.err = NoError => Parts(T, c, q, t, N, top, shift, root, tail),
         NEW got, NEW R, Wrote(c, got, R, Header(Len(q) + Len(t), shift, root, tail)),
         got.ctx.err = NoError
  PROVE  VectorIn(T, got.ctx, got.at, q, t, N, top, shift, root, tail)
<1>1. /\ Takes(c, got.ctx, {got.at}, R)
      /\ got.ctx.heap[got.at] = Header(Len(q) + Len(t), shift, root, tail)
      /\ got.at \in InUse(got.ctx.alloc) \ InUse(c.alloc)
  BY DEF Wrote
<1>2. Extends(c, got.ctx) /\ c.err = NoError
  BY <1>1 DEF Takes
<1>3. Parts(T, c, q, t, N, top, shift, root, tail)
  BY <1>2
<1>4. PartBlocks(t, N, top, tail) \subseteq InUse(c.alloc)
  BY <1>3, PartsInUse
<1>5. Parts(T, got.ctx, q, t, N, top, shift, root, tail)
  BY <1>2, <1>3, PartsStay
<1> QED  BY <1>1, <1>4, <1>5 DEF VectorIn

\* How an operation keeps its promise: the new parts are there, made of the ones of the
\* vector and of new ones, and the header is replaced last.
LEMMA Rewritten ==
  ASSUME NEW c, Context(c), NEW T, NEW at, NEW q, NEW t, NEW N, NEW top,
         NEW shift, NEW root, NEW tail,
         VectorIn(T, c, at, q, t, N, top, shift, root, tail),
         NEW d, NEW A, NEW R, Takes(c, d, A, R), R \subseteq PartBlocks(t, N, top, tail),
         NEW r, NEW u, NEW M, NEW high, NEW bits, NEW node, NEW last,
         d.err = NoError =>
           /\ Parts(T, d, r, u, M, high, bits, node, last)
           /\ PartBlocks(u, M, high, last) = (PartBlocks(t, N, top, tail) \ R) \union A,
         NEW got, Wrote(d, got, {at}, Header(Len(r) + Len(u), bits, node, last))
  PROVE  Writes(T, c, {at} \union PartBlocks(t, N, top, tail), got, r \o u)
<1> DEFINE O == PartBlocks(t, N, top, tail)
           B == {at} \union O
<1>1. at \in InUse(c.alloc) \ O
  BY DEF VectorIn
<1> HIDE DEF O
<1>2. /\ Takes(d, got.ctx, {got.at}, {at}) /\ got.at \in Nat
      /\ got.ctx.err # NoError => got.at = NoBlock
  BY DEF Wrote
<1>3. R \cap {at} = {}
  BY <1>1 DEF O
<1>4. Takes(c, got.ctx, A \union {got.at}, R \union {at})
  BY <1>2, <1>3, TakesTwice
<1>5. R \union {at} \subseteq B
  BY DEF O
<1>6. ASSUME got.ctx.err = NoError
      PROVE  VectorOf(T, got.ctx, got.at, r \o u, (B \ (R \union {at})) \union (A \union {got.at}))
  <2>1. d.err = NoError
    BY <1>2, <1>6 DEF Takes
  <2>2. Context(d)
    BY DEF Takes, Extends
  <2>3. VectorIn(T, got.ctx, got.at, r, u, M, high, bits, node, last)
    BY <1>6, <2>2, HeaderWritten
  <2>4. PartBlocks(u, M, high, last) = (O \ R) \union A
    BY <2>1 DEF O
  <2>5. (B \ (R \union {at})) \union (A \union {got.at})
          = {got.at} \union PartBlocks(u, M, high, last)
    BY <1>1, <2>4
  <2> QED  BY <2>3, <2>5 DEF VectorOf
<1> HIDE DEF B
<1>7. Writes(T, c, B, got, r \o u)
  BY <1>2, <1>4, <1>5, <1>6 DEF Writes
<1> QED  BY <1>7 DEF B, O

-----------------------------------------------------------------------------
\* What the tail begins at: the leaves of the trie are full.
LEMMA TailOffsetIs ==
  ASSUME NEW n \in Nat, NEW l \in Nat, 1 <= l, l <= WIDTH
  PROVE  tailOffset(n * WIDTH + l) = n * WIDTH
<1> DEFINE b == n * WIDTH
           m == b + l
<1>1. WIDTH \in Nat /\ WIDTH \in Nat \ {0} /\ b \in Nat /\ b = WIDTH * n
  BY WidthIs
<1> HIDE DEF b
<1>2. m \in Nat /\ m - 1 \in Nat /\ l - 1 \in Nat /\ l - 1 < WIDTH /\ m # 0
      /\ m - 1 = WIDTH * n + (l - 1) /\ (m - 1) - (l - 1) = b
  BY <1>1
<1> HIDE DEF m
<1>3. (m - 1) % WIDTH = l - 1
  BY <1>1, <1>2, DivUnique
<1>4. tailOffset(m) = m - 1 - ((m - 1) % WIDTH)
  BY <1>2 DEF tailOffset
<1>5. tailOffset(m) = b
  BY <1>2, <1>3, <1>4
<1> QED  BY <1>5 DEF b, m

\* One sequence after the other.
IsJoin(T, q, t, s) ==
  /\ s \in Seq(T)
  /\ Len(s) = Len(q) + Len(t)
  /\ \A j \in 1..Len(q) : s[j] = q[j]
  /\ \A j \in 1..Len(t) : s[Len(q) + j] = t[j]

\* Joining two sequences gives it.
LEMMA JoinIs ==
  ASSUME NEW T, NEW q \in Seq(T), NEW t \in Seq(T)
  PROVE  IsJoin(T, q, t, q \o t)
BY DEF IsJoin

\* There is one such sequence.
LEMMA JoinsEqual ==
  ASSUME NEW T, NEW q \in Seq(T), NEW t \in Seq(T), NEW s, IsJoin(T, q, t, s)
  PROVE  s = q \o t
<1> DEFINE r == q \o t
<1>1. IsJoin(T, q, t, r)
  BY JoinIs
<1> HIDE DEF r
<1>2. s \in Seq(T) /\ r \in Seq(T) /\ Len(s) = Len(r) /\ Len(s) = Len(q) + Len(t)
      /\ Len(q) \in Nat /\ Len(t) \in Nat
  BY <1>1 DEF IsJoin
<1>3. ASSUME NEW j \in 1..Len(s) PROVE s[j] = r[j]
  <2>1. CASE j <= Len(q)
    <3>1. j \in 1..Len(q)
      BY <1>2, <2>1
    <3> QED  BY <1>1, <3>1 DEF IsJoin
  <2>2. CASE j > Len(q)
    <3> DEFINE k == j - Len(q)
    <3>1. k \in 1..Len(t) /\ j = Len(q) + k
      BY <1>2, <2>2
    <3> HIDE DEF k
    <3> QED  BY <1>1, <3>1 DEF IsJoin
  <2> QED  BY <1>2, <2>1, <2>2
<1>4. s = r
  BY <1>2, <1>3, SequencesEqual
<1> QED  BY <1>4 DEF r

\* An element put in the trie or in the tail.
ElementAt(s, i, x) == [s EXCEPT ![i + 1] = x]

\* It is an element of the one or of the other.
LEMMA ElementPut ==
  ASSUME NEW T, NEW q \in Seq(T), NEW t \in Seq(T), NEW i \in Nat, i < Len(q) + Len(t), NEW x \in T
  PROVE  /\ i < Len(q) => ElementAt(q \o t, i, x) = Put(q, i + 1, x) \o t
         /\ ~(i < Len(q)) => ElementAt(q \o t, i, x) = q \o Put(t, (i - Len(q)) + 1, x)
<1> DEFINE s == q \o t
           e == ElementAt(s, i, x)
<1>1. IsJoin(T, q, t, s)
  BY JoinIs
<1> HIDE DEF s
<1>2. /\ Len(q) \in Nat /\ Len(t) \in Nat /\ Len(s) = Len(q) + Len(t)
      /\ s \in Seq(T) /\ i + 1 \in 1..Len(s)
  BY <1>1 DEF IsJoin
<1>3. e \in Seq(T) /\ Len(e) = Len(s) /\ e[i + 1] = x
      /\ \A j \in 1..Len(s) : j # i + 1 => e[j] = s[j]
  BY <1>2 DEF ElementAt
<1> HIDE DEF e
<1>4. ASSUME i < Len(q)
      PROVE  e = Put(q, i + 1, x) \o t
  <2> DEFINE k == i + 1
             r == Put(q, k, x)
  <2>1. k \in Nat /\ 1 <= k /\ k <= Len(q) + 1 /\ ~(k > Len(q)) /\ k = i + 1
    BY <1>2, <1>4
  <2> HIDE DEF k
  <2>2. IsPut(T, q, k, x, Put(q, k, x))
    BY <2>1, PutIs
  <2>3. r \in Seq(T) /\ Len(r) = Len(q) /\ r[k] = x /\ \A j \in 1..Len(q) : j # k => r[j] = q[j]
    BY <2>1, <2>2 DEF IsPut
  <2> HIDE DEF r
  <2>4. ASSUME NEW j \in 1..Len(r) PROVE e[j] = r[j]
    <3>1. j \in 1..Len(q) /\ j \in 1..Len(s)
      BY <1>2, <2>3
    <3>2. s[j] = q[j]
      BY <1>1, <3>1 DEF IsJoin
    <3> QED  BY <1>3, <2>1, <2>3, <3>1, <3>2
  <2>5. ASSUME NEW j \in 1..Len(t) PROVE e[Len(r) + j] = t[j]
    <3>1. Len(q) + j \in 1..Len(s) /\ Len(q) + j # i + 1
      BY <1>2, <1>4
    <3>2. s[Len(q) + j] = t[j]
      BY <1>1 DEF IsJoin
    <3> QED  BY <1>3, <2>3, <3>1, <3>2
  <2>6. IsJoin(T, r, t, e)
    BY <1>2, <1>3, <2>3, <2>4, <2>5 DEF IsJoin
  <2>7. e = r \o t
    BY <2>3, <2>6, JoinsEqual
  <2> QED  BY <2>7 DEF r, k
<1>5. ASSUME ~(i < Len(q))
      PROVE  e = q \o Put(t, (i - Len(q)) + 1, x)
  <2> DEFINE k == (i - Len(q)) + 1
             r == Put(t, k, x)
  <2>1. k \in Nat /\ 1 <= k /\ k <= Len(t) + 1 /\ ~(k > Len(t)) /\ i + 1 = Len(q) + k
    BY <1>2, <1>5
  <2> HIDE DEF k
  <2>2. IsPut(T, t, k, x, Put(t, k, x))
    BY <2>1, PutIs
  <2>3. r \in Seq(T) /\ Len(r) = Len(t) /\ r[k] = x /\ \A j \in 1..Len(t) : j # k => r[j] = t[j]
    BY <2>1, <2>2 DEF IsPut
  <2> HIDE DEF r
  <2>4. ASSUME NEW j \in 1..Len(q) PROVE e[j] = q[j]
    <3>1. j \in 1..Len(s) /\ j # i + 1
      BY <1>2, <1>5
    <3>2. s[j] = q[j]
      BY <1>1 DEF IsJoin
    <3> QED  BY <1>3, <3>1, <3>2
  <2>5. ASSUME NEW j \in 1..Len(r) PROVE e[Len(q) + j] = r[j]
    <3>1. j \in 1..Len(t) /\ Len(q) + j \in 1..Len(s) /\ (Len(q) + j = i + 1 <=> j = k)
      <4> DEFINE a == Len(q)
                 b == Len(t)
      <4>1. a \in Nat /\ b \in Nat /\ Len(s) = a + b /\ j \in 1..b /\ i + 1 = a + k /\ k \in Nat
        BY <1>2, <2>1, <2>3
      <4> HIDE DEF a, b, k
      <4>2. a + j \in 1..(a + b)
        BY <4>1
      <4>3. a + j = a + k <=> j = k
        BY <4>1
      <4> QED  BY <4>1, <4>2, <4>3 DEF a, b
    <3>2. s[Len(q) + j] = t[j]
      BY <1>1, <3>1 DEF IsJoin
    <3> QED  BY <1>3, <2>1, <2>3, <3>1, <3>2
  <2>6. IsJoin(T, q, r, e)
    BY <1>2, <1>3, <2>3, <2>4, <2>5 DEF IsJoin
  <2>7. e = q \o r
    BY <2>3, <2>6, JoinsEqual
  <2> QED  BY <2>7 DEF r, k
<1> QED  BY <1>4, <1>5 DEF e, s

-----------------------------------------------------------------------------
\* What a header that was found says.
LEMMA HeaderIs ==
  ASSUME NEW count, NEW shift, NEW root, NEW tail
  PROVE  LET v == Header(count, shift, root, tail)
         IN /\ v.kind = "Vector" /\ v.count = count /\ v.shift = shift
            /\ v.root = root /\ v.tail = tail
            /\ \A y : [v EXCEPT !.tail = y] = Header(count, shift, root, y)
            /\ \A y : [v EXCEPT !.root = y] = Header(count, shift, y, tail)
BY DEF Header

\* As many full leaves as there are.
LEMMA FullLeaves ==
  ASSUME NEW n \in Nat, NEW k \in Nat, Covers(k, n * WIDTH)
  PROVE  k = n
<1> DEFINE m == n * WIDTH
<1>1. m \in Nat /\ WIDTH \in Nat /\ 2 <= WIDTH /\ m = n * WIDTH
  BY WidthIs
<1> HIDE DEF m
<1>2. Covers(n, m)
  BY <1>1 DEF Covers
<1>3. Covers(k, m)
  BY <1>1
<1> QED  BY <1>1, <1>2, <1>3, CoversOnce

\* The shift of a header says how many levels are above the leaves.
LEMMA ShiftIsTop ==
  ASSUME NEW top \in Nat
  PROVE  (BITS * top) \div BITS = top /\ BITS * top \in Nat
<1>1. BITS \in Nat \ {0}
  BY TrieAssumption
<1> DEFINE x == BITS * top
<1>2. x \in Nat /\ x = BITS * top + 0
  BY <1>1
<1> HIDE DEF x
<1>3. x \div BITS = top
  BY <1>1, <1>2, DivUnique
<1> QED  BY <1>2, <1>3 DEF x

\* A leaf u is written in the place of the tail.
TailWritten(T, c, q, t, N, top, shift, root, tail, got, u) ==
  /\ Takes(c, got.ctx, {got.at}, {tail}) /\ {tail} \subseteq PartBlocks(t, N, top, tail)
  /\ got.ctx.err = NoError =>
       /\ Parts(T, got.ctx, q, u, N, top, shift, root, got.at)
       /\ PartBlocks(u, N, top, got.at) = (PartBlocks(t, N, top, tail) \ {tail}) \union {got.at}

\* A new leaf takes the place of the tail.
LEMMA TailReplaced ==
  ASSUME NEW c, Context(c), NEW T, NEW q, NEW t, NEW N, NEW top, NEW shift, NEW root, NEW tail,
         Parts(T, c, q, t, N, top, shift, root, tail), t # <<>>,
         NEW u \in Seq(T), u # <<>>, Len(u) <= WIDTH, NEW got, Wrote(c, got, {tail}, Leaf(u))
  PROVE  TailWritten(T, c, q, t, N, top, shift, root, tail, got, u)
<1>1. /\ t \in Seq(T) /\ Len(t) <= WIDTH
      /\ tail \in InUse(c.alloc) \ Blocks(N, top) /\ c.heap[tail] = Leaf(t)
  BY DEF Parts
<1>2. Takes(c, got.ctx, {got.at}, {tail})
  BY DEF Wrote
<1>3. ASSUME got.ctx.err = NoError
      PROVE  /\ Parts(T, got.ctx, q, u, N, top, shift, root, got.at)
             /\ PartBlocks(u, N, top, got.at)
                  = (PartBlocks(t, N, top, tail) \ {tail}) \union {got.at}
  <2>1. got.at \in InUse(got.ctx.alloc) \ InUse(c.alloc) /\ got.ctx.heap[got.at] = Leaf(u)
    BY <1>3 DEF Wrote
  <2>2. Parts(T, got.ctx, q, t, N, top, shift, root, tail)
    BY <1>2, PartsStay DEF Takes
  <2>3. Blocks(N, top) \subseteq InUse(c.alloc)
    BY TrieBlocks DEF BlocksInUse, Parts
  <2>4. Parts(T, got.ctx, q, u, N, top, shift, root, got.at)
    BY <2>1, <2>2, <2>3 DEF Parts
  <2>5. PartBlocks(u, N, top, got.at) = Blocks(N, top) \union {got.at}
    BY DEF PartBlocks
  <2>6. PartBlocks(t, N, top, tail) = Blocks(N, top) \union {tail}
    BY DEF PartBlocks
  <2> QED  BY <1>1, <2>4, <2>5, <2>6
<1>4. {tail} \subseteq PartBlocks(t, N, top, tail)
  BY DEF PartBlocks
<1> QED  BY <1>2, <1>3, <1>4 DEF TailWritten

\* The element of an index in the tail is replaced in a copy of the tail.
TailAssoc(T, c, q, t, N, top, shift, root, tail, got, u) ==
  /\ TailWritten(T, c, q, t, N, top, shift, root, tail, got, u)
  /\ Len(u) = Len(t)

\* vectorAssoc of an element of the tail.
LEMMA AssocInTail ==
  ASSUME NEW c, Context(c), NEW T, NEW q, NEW t, NEW N, NEW top, NEW shift, NEW root, NEW tail,
         Parts(T, c, q, t, N, top, shift, root, tail), t # <<>>,
         NEW p \in Nat, p < Len(t), NEW x \in T
  PROVE  TailAssoc(T, c, q, t, N, top, shift, root, tail,
                   copyLeafWith(c, tail, p, x), Put(t, p + 1, x))
<1> DEFINE got == copyLeafWith(c, tail, p, x)
           u   == Put(t, p + 1, x)
<1>1. /\ t \in Seq(T) /\ Len(t) <= WIDTH
      /\ tail \in InUse(c.alloc) /\ c.heap[tail] = Leaf(t)
  BY DEF Parts
<1>2. Wrote(c, got, {tail}, Leaf(u))
  BY <1>1, LeafCopied
<1> HIDE DEF got
<1>3. u \in Seq(T) /\ Len(u) = Len(t)
  <2> DEFINE k == p + 1
  <2>1. k \in Nat /\ 1 <= k /\ k <= Len(t) + 1 /\ ~(k > Len(t))
    BY <1>1
  <2> HIDE DEF k
  <2>2. IsPut(T, t, k, x, Put(t, k, x))
    BY <1>1, <2>1, PutIs
  <2> QED  BY <2>1, <2>2 DEF IsPut, k
<1> HIDE DEF u
<1>4. u # <<>> /\ Len(u) <= WIDTH
  BY <1>1, <1>3
<1>5. TailWritten(T, c, q, t, N, top, shift, root, tail, got, u)
  BY <1>2, <1>3, <1>4, TailReplaced
<1> QED  BY <1>3, <1>5 DEF got, u, TailAssoc

\* The walk to an index of the trie ends at the leaf that holds it.
LeafOnPath(T, c, q, N, top, shift, root, i, p, leaf, g) ==
  /\ p \in Nat /\ p < Len(N[0]) /\ p = i \div WIDTH /\ shift \div BITS = top
  /\ \A k \in 0..top : OnLevel(N, i, k)
  /\ Pos(i, top) = 0
  /\ leaf = Block(N, 0, p) /\ leaf \in Blocks(N, top)
  /\ leaf \in InUse(c.alloc) /\ c.heap[leaf] = Leaf(g)
  /\ Path(c.heap, root, top, i)[0] = leaf
  /\ g = Group(q, p + 1) /\ g \in Seq(T) /\ Len(g) = WIDTH
  /\ fragment(i, 0) = i % WIDTH /\ fragment(i, 0) \in Nat /\ fragment(i, 0) < Len(g)

\* The leaf of an index is on its path.
LEMMA LeafFound ==
  ASSUME NEW c, Context(c), NEW T, NEW q, NEW t, NEW N, NEW top, NEW shift, NEW root, NEW tail,
         Parts(T, c, q, t, N, top, shift, root, tail), NEW i \in Nat, i < Len(q)
  PROVE  LeafOnPath(T, c, q, N, top, shift, root, i, Pos(i, 0), Block(N, 0, Pos(i, 0)),
                    Group(q, Pos(i, 0) + 1))
<1> DEFINE p    == Pos(i, 0)
           n    == Len(N[0])
           path == Path(c.heap, Block(N, top, 0), top, i)
           leaf == Block(N, 0, p)
           g    == Group(q, p + 1)
<1>1. /\ q \in Seq(T) /\ TrieIn(c, N, top, q) /\ Len(q) = n * WIDTH
      /\ q # <<>> /\ root = Block(N, top, 0) /\ shift = BITS * top /\ Len(N[top]) = 1
  <2>1. q \in Seq(T) /\ q # <<>>
    BY DEF Parts
  <2> QED  BY <2>1 DEF Parts
<1>2. top \in Nat /\ Levels(N, top, q)
  BY <1>1 DEF TrieIn, Levels
<1>3. 0 \in 0..top /\ top \in 0..top
  BY <1>2
<1>4. n \in Nat /\ Covers(n, Len(q)) /\ N[0] \in Seq(Nat)
  <2>1. N[0] \in Seq(Nat) /\ Covers(Len(N[0]), Len(Under(N, q, 0))) /\ Under(N, q, 0) = q
    BY <1>2, <1>3 DEF Levels, Under
  <2> QED  BY <2>1
<1>5. WIDTH \in Nat /\ 2 <= WIDTH
  BY WidthIs
<1>6. p = i \div WIDTH /\ fragment(i, 0) = i % WIDTH /\ p \in Nat
  BY PosIs
<1>7. p < n /\ p <= n
  <2> DEFINE m == Len(q)
  <2>1. m \in Nat /\ i <= m /\ i < m /\ Covers(n, m)
    BY <1>1, <1>4
  <2> HIDE DEF m, n
  <2>2. i \div WIDTH < n
    BY <1>4, <2>1, PlaceAbove
  <2> QED  BY <1>4, <1>6, <2>2
<1>8. Pos(i, top) = 0 /\ \A k \in 0..top : OnLevel(N, i, k)
  <2>1. \A k \in 0..top : OnLevel(N, i, k)
    BY <1>2, <1>7, OnLevels
  <2>2. Pos(i, top) \in Nat /\ Pos(i, top) < 1
    BY <1>1, <1>3, <1>7, <2>1 DEF OnLevel
  <2> QED  BY <2>1, <2>2
<1>9. shift \div BITS = top
  BY <1>1, <1>2, ShiftIsTop
<1>10. path[0] = leaf
  <2> HIDE DEF path
  <2>1. \A k \in 0..top : OnPath(N, path, i, k)
    BY <1>1, <1>7, <1>8, PathIs DEF path
  <2> QED  BY <1>3, <1>7, <2>1 DEF OnPath, BlockIn
<1>11. /\ leaf \in InUse(c.alloc) /\ c.heap[leaf] = Leaf(g) /\ leaf \in Blocks(N, top)
       /\ p \in Places(N[0])
  <2>1. p \in Places(N[0])
    BY <1>6, <1>7 DEF Places
  <2>2. leaf \in InUse(c.alloc) /\ c.heap[leaf] = Held(N, q, 0, p)
    BY <1>1, <1>3, <2>1 DEF TrieIn
  <2>3. Held(N, q, 0, p) = Leaf(g)
    BY DEF Held, Part, Under
  <2> QED  BY <1>3, <2>1, <2>2, <2>3 DEF Blocks
<1>12. g \in Seq(T) /\ Len(g) = WIDTH
  <2>1. p * WIDTH \in Nat /\ n * WIDTH \in Nat /\ p * WIDTH + WIDTH <= n * WIDTH
    BY <1>4, <1>6, <1>7, ProductsApart
  <2>2. (p + 1) * WIDTH = p * WIDTH + WIDTH
    BY <1>5, <1>6
  <2> DEFINE b == p * WIDTH
  <2>3. b < Len(q) /\ b + WIDTH <= Len(q) /\ b \in Nat
    BY <1>1, <1>5, <2>1
  <2> HIDE DEF g, p, n
  <2>4. g \in Seq(T) /\ Len(g) = IF (p + 1) * WIDTH < Len(q) THEN WIDTH ELSE Len(q) - b
    BY <1>1, <1>6, <2>3, GroupIs DEF g
  <2> HIDE DEF b
  <2>5. Len(q) \in Nat
    BY <1>1
  <2> QED  BY <1>5, <2>2, <2>3, <2>4, <2>5 DEF b
<1>13. fragment(i, 0) \in Nat /\ fragment(i, 0) < Len(g)
  <2>1. WIDTH \in Nat \ {0}
    BY <1>5
  <2>2. i % WIDTH \in 0..(WIDTH - 1)
    BY <2>1, DivIs
  <2> QED  BY <1>5, <1>6, <1>12, <2>2
<1> HIDE DEF path, leaf, g, p, n
<1>14. Path(c.heap, root, top, i)[0] = leaf
  BY <1>1, <1>10 DEF path
<1>15. fragment(i, 0) = i % WIDTH /\ p = i \div WIDTH /\ p \in Nat
  BY <1>6
<1> QED
  BY <1>7, <1>8, <1>9, <1>11, <1>12, <1>13, <1>14, <1>15 DEF LeafOnPath, leaf, g, p, n

\* The element of an index in the trie is replaced in copies of the blocks on the way to it.
TrieAssoc(T, c, q, t, N, top, tail, w, r, M, A, R) ==
  /\ Takes(c, w.ctx, A, R) /\ R \subseteq PartBlocks(t, N, top, tail)
  /\ Len(r) = Len(q)
  /\ w.ctx.err = NoError =>
       /\ Parts(T, w.ctx, r, t, M, top, BITS * top, w.at, tail)
       /\ PartBlocks(t, M, top, tail) = (PartBlocks(t, N, top, tail) \ R) \union A

AssocedInTrie(T, c, q, t, N, top, tail, w, r) ==
  \E M, A, R : TrieAssoc(T, c, q, t, N, top, tail, w, r, M, A, R)

\* assocInTrie replaces the element, and writes the path to it alone.
LEMMA AssocInTrieIs ==
  ASSUME NEW c, Context(c), NEW T, NEW q, NEW t, NEW N, NEW top, NEW shift, NEW root, NEW tail,
         Parts(T, c, q, t, N, top, shift, root, tail), t # <<>>,
         NEW i \in Nat, i < Len(q), NEW x \in T
  PROVE  AssocedInTrie(T, c, q, t, N, top, tail,
                       assocInTrie(c, root, shift, i, x), Put(q, i + 1, x))
<1> DEFINE r    == Put(q, i + 1, x)
           p    == Pos(i, 0)
           n    == Len(N[0])
           path == Path(c.heap, Block(N, top, 0), top, i)
           leaf == Block(N, 0, p)
           g    == Group(q, p + 1)
           got  == copyLeafWith(c, path[0], fragment(i, 0), x)
           w    == WriteUp(got, path, top, i)[top]
<1>1. /\ q \in Seq(T) /\ t \in Seq(T) /\ TrieIn(c, N, top, q) /\ Len(q) = n * WIDTH
      /\ q # <<>> /\ root = Block(N, top, 0) /\ shift = BITS * top /\ Len(N[top]) = 1
      /\ Len(t) <= WIDTH /\ tail \in InUse(c.alloc) \ Blocks(N, top) /\ c.heap[tail] = Leaf(t)
  <2>1. q \in Seq(T) /\ q # <<>>
    BY DEF Parts
  <2> QED  BY <2>1 DEF Parts
<1>2. top \in Nat /\ Levels(N, top, q)
  BY <1>1 DEF TrieIn, Levels
<1>3. 0 \in 0..top /\ top \in 0..top
  BY <1>2
<1>4. n \in Nat /\ Covers(n, Len(q)) /\ N[0] \in Seq(Nat)
  <2>1. N[0] \in Seq(Nat) /\ Covers(Len(N[0]), Len(Under(N, q, 0))) /\ Under(N, q, 0) = q
    BY <1>2, <1>3 DEF Levels, Under
  <2> QED  BY <2>1
<1>5. WIDTH \in Nat /\ 2 <= WIDTH
  BY WidthIs
<1>6. /\ p \in Nat /\ p < n /\ p = i \div WIDTH /\ shift \div BITS = top
      /\ \A k \in 0..top : OnLevel(N, i, k)
      /\ Pos(i, top) = 0
      /\ leaf \in InUse(c.alloc) /\ c.heap[leaf] = Leaf(g) /\ leaf \in Blocks(N, top)
      /\ path[0] = leaf
      /\ g \in Seq(T) /\ Len(g) = WIDTH
      /\ fragment(i, 0) = i % WIDTH /\ fragment(i, 0) \in Nat /\ fragment(i, 0) < Len(g)
  <2>1. LeafOnPath(T, c, q, N, top, shift, root, i, p, leaf, g)
    BY LeafFound
  <2> HIDE DEF p, leaf, g, path
  <2>2. path = Path(c.heap, root, top, i)
    BY <1>1 DEF path
  <2> QED  BY <2>1, <2>2 DEF LeafOnPath
<1>7. p < n /\ p <= n
  BY <1>4, <1>6
<1>8. Pos(i, top) = 0 /\ \A k \in 0..top : OnLevel(N, i, k)
  BY <1>6
<1>9. assocInTrie(c, root, shift, i, x) = w
  BY <1>1, <1>6 DEF assocInTrie
<1>10. path[0] = leaf
  BY <1>6
<1>11. leaf \in InUse(c.alloc) /\ c.heap[leaf] = Leaf(g) /\ leaf \in Blocks(N, top)
  BY <1>6
<1>12. g \in Seq(T) /\ Len(g) = WIDTH
  BY <1>6
<1>13. fragment(i, 0) \in Nat /\ fragment(i, 0) < Len(g)
  BY <1>6
<1>14. GroupsPut(T, q, n, i, x)
  <2>1. i <= Len(q)
    BY <1>1
  <2> HIDE DEF n
  <2> QED  BY <1>1, <1>4, <2>1, GroupsAbove
<1>15. /\ Group(r, p + 1) = Put(g, fragment(i, 0) + 1, x)
       /\ \A l \in Places(N[0]) : l # p => Group(r, l + 1) = Group(q, l + 1)
  BY <1>6, <1>7, <1>14 DEF GroupsPut, Places
<1>16. r \in Seq(T) /\ Len(r) = Len(q)
  <2> DEFINE k == i + 1
  <2>1. k \in Nat /\ 1 <= k /\ k <= Len(q) + 1 /\ ~(k > Len(q))
    BY <1>1
  <2> HIDE DEF k
  <2>2. IsPut(T, q, k, x, Put(q, k, x))
    BY <1>1, <2>1, PutIs
  <2> QED  BY <2>1, <2>2 DEF IsPut, k
<1>17. Wrote(c, got, {leaf}, Leaf(Group(r, p + 1)))
  <2>1. Wrote(c, copyLeafWith(c, leaf, fragment(i, 0), x), {leaf},
              Leaf(Put(g, fragment(i, 0) + 1, x)))
    <3> DEFINE f == fragment(i, 0)
    <3> HIDE DEF f, leaf, g
    <3>1. f \in Nat /\ f < Len(g)
      BY <1>13 DEF f
    <3>2. Wrote(c, copyLeafWith(c, leaf, f, x), {leaf}, Leaf(Put(g, f + 1, x)))
      BY <1>11, <1>12, <3>1, LeafCopied
    <3> QED  BY <3>2 DEF f
  <2> QED  BY <1>10, <1>15, <2>1
<1> HIDE DEF got, path, leaf, g, r
<1>18. Takes(c, got.ctx, {got.at}, {leaf}) /\ got.at \in Nat /\ Extends(c, got.ctx)
  BY <1>17 DEF Wrote, Takes
<1>19. got.ctx.err = NoError => /\ got.at \in InUse(got.ctx.alloc) \ InUse(c.alloc)
                                /\ got.ctx.heap[got.at] = Leaf(Group(r, p + 1))
  BY <1>17 DEF Wrote
<1>20. Blocks(N, top) \subseteq InUse(c.alloc)
  BY <1>1, TrieBlocks DEF BlocksInUse
<1>21. Covers(IF p + 1 > n THEN p + 1 ELSE n, Len(r))
  <2>1. ~(p + 1 > n)
    BY <1>4, <1>6, <1>7
  <2> QED  BY <1>4, <1>16, <2>1
<1>22. TrieWritten(got, w, N, top, r, LeafAt(N, p))
  BY <1>1, <1>7, <1>8, <1>15, <1>16, <1>18, <1>19, <1>20, <1>21, TriePut DEF path
<1> HIDE DEF w
<1>23. LeafAt(N, p) = {leaf}
  BY <1>7 DEF LeafAt, leaf
<1>24. PICK M, A, R : TrieWrote(got, w, N, M, top, r, {leaf}, A, R)
  BY <1>22, <1>23 DEF TrieWritten
<1>25. /\ Takes(got.ctx, w.ctx, A, R) /\ w.at \in Nat
       /\ R \subseteq Blocks(N, top) /\ R \cap {leaf} = {}
       /\ w.ctx.err = NoError =>
            /\ TrieIn(w.ctx, M, top, r)
            /\ Len(M[top]) = 1 /\ w.at = Block(M, top, 0)
            /\ Blocks(M, top) = (Blocks(N, top) \ ({leaf} \union R)) \union (A \union {got.at})
  BY <1>24 DEF TrieWrote
<1>26. Takes(c, w.ctx, {got.at} \union A, {leaf} \union R)
  BY <1>18, <1>25, TakesTwice
<1>27. ASSUME w.ctx.err = NoError
       PROVE  /\ Parts(T, w.ctx, r, t, M, top, BITS * top, w.at, tail)
              /\ PartBlocks(t, M, top, tail)
                   = (PartBlocks(t, N, top, tail) \ ({leaf} \union R)) \union ({got.at} \union A)
  <2>1. /\ got.ctx.err = NoError /\ A \subseteq InUse(w.ctx.alloc) \ InUse(got.ctx.alloc)
        /\ InUse(c.alloc) \subseteq InUse(got.ctx.alloc)
    BY <1>18, <1>25, <1>27, ExtendsKeeps DEF Takes
  <2>2. tail \in InUse(w.ctx.alloc) /\ w.ctx.heap[tail] = Leaf(t)
    BY <1>1, <1>26, ExtendsKeeps DEF Takes
  <2>3. tail \notin Blocks(M, top)
    BY <1>1, <1>19, <1>25, <1>27, <2>1
  <2>4. Len(M[0]) = n
    <3>1. Levels(M, top, r)
      BY <1>25, <1>27 DEF TrieIn
    <3>2. M[0] \in Seq(Nat) /\ Covers(Len(M[0]), Len(Under(M, r, 0))) /\ Under(M, r, 0) = r
      BY <1>3, <3>1 DEF Levels, Under
    <3> DEFINE k == Len(M[0])
    <3>3. k \in Nat /\ Covers(k, n * WIDTH)
      BY <1>1, <1>16, <3>2
    <3> HIDE DEF k, n
    <3>4. k = n
      BY <1>4, <3>3, FullLeaves
    <3> QED  BY <3>4 DEF k
  <2>5. r # <<>>
    BY <1>1, <1>16
  <2>6. Parts(T, w.ctx, r, t, M, top, BITS * top, w.at, tail)
    <3>1. Len(r) = Len(M[0]) * WIDTH
      BY <1>1, <1>16, <2>4
    <3> HIDE DEF n
    <3> QED  BY <1>1, <1>16, <1>25, <1>27, <2>2, <2>3, <2>5, <3>1 DEF Parts
  <2>7. PartBlocks(t, M, top, tail) = Blocks(M, top) \union {tail}
        /\ PartBlocks(t, N, top, tail) = Blocks(N, top) \union {tail}
    BY DEF PartBlocks
  <2> QED  BY <1>1, <1>11, <1>25, <1>27, <2>6, <2>7
<1>28. {leaf} \union R \subseteq PartBlocks(t, N, top, tail)
  BY <1>11, <1>25 DEF PartBlocks
<1>29. TrieAssoc(T, c, q, t, N, top, tail, w, r, M, {got.at} \union A, {leaf} \union R)
  BY <1>16, <1>26, <1>27, <1>28 DEF TrieAssoc
<1>30. AssocedInTrie(T, c, q, t, N, top, tail, w, r)
  BY <1>29 DEF AssocedInTrie
<1> QED  BY <1>9, <1>30 DEF r

-----------------------------------------------------------------------------
\* Where the tail begins, and how long it is.
LEMMA TailIs ==
  ASSUME NEW T, NEW c, NEW q, NEW t, NEW N, NEW top, NEW shift, NEW root, NEW tail,
         Parts(T, c, q, t, N, top, shift, root, tail)
  PROVE  /\ q \in Seq(T) /\ t \in Seq(T) /\ Len(N[0]) \in Nat
         /\ t = <<>> => q = <<>>
         /\ t # <<>> => 1 <= Len(t) /\ Len(t) <= WIDTH
         /\ tailOffset(Len(q) + Len(t)) = Len(q)
<1>1. q \in Seq(T) /\ t \in Seq(T) /\ Len(q) = Len(N[0]) * WIDTH
  BY DEF Parts
<1>2. Len(N[0]) \in Nat
  <2>1. top \in Nat /\ Levels(N, top, q)
    BY DEF Parts, TrieIn, Levels
  <2>2. 0 \in 0..top
    BY <2>1
  <2>3. N[0] \in Seq(Nat)
    BY <2>1, <2>2 DEF Levels
  <2> QED  BY <2>3
<1>3. t = <<>> => q = <<>>
  BY DEF Parts
<1>4. t # <<>> => 1 <= Len(t) /\ Len(t) <= WIDTH
  <2>1. t # <<>> => Len(t) <= WIDTH
    BY DEF Parts
  <2>2. Len(t) \in Nat /\ (t # <<>> => Len(t) # 0)
    BY <1>1
  <2> QED  BY <2>1, <2>2
<1>5. CASE t = <<>>
  <2>1. Len(q) + Len(t) = 0 /\ Len(q) = 0
    BY <1>3, <1>5
  <2>2. tailOffset(0) = 0
    BY DEF tailOffset
  <2> QED  BY <1>1, <1>2, <1>3, <1>4, <2>1, <2>2
<1>6. CASE t # <<>>
  <2> DEFINE n == Len(N[0])
             l == Len(t)
  <2>1. n \in Nat /\ l \in Nat /\ 1 <= l /\ l <= WIDTH /\ Len(q) = n * WIDTH
    BY <1>1, <1>2, <1>4, <1>6
  <2> HIDE DEF n, l
  <2>2. tailOffset(n * WIDTH + l) = n * WIDTH
    BY <2>1, TailOffsetIs
  <2>3. tailOffset(Len(q) + Len(t)) = Len(q)
    BY <2>1, <2>2 DEF l
  <2> QED  BY <1>1, <1>2, <1>3, <1>4, <2>3
<1> QED  BY <1>5, <1>6

\* vectorAssoc replaces the element of an index and no other.
THEOREM AssocReplacesOne ==
  ASSUME NEW T, NEW c, Context(c), NEW at, NEW s, NEW B, VectorOf(T, c, at, s, B),
         NEW i \in Nat, i < Len(s), NEW x \in T
  PROVE  Writes(T, c, B, vectorAssoc(c, at, i, x), ElementAt(s, i, x))
<1>1. PICK q, t, N, top, shift, root, tail :
        /\ VectorIn(T, c, at, q, t, N, top, shift, root, tail)
        /\ s = q \o t
        /\ B = {at} \union PartBlocks(t, N, top, tail)
  BY DEF VectorOf
<1> DEFINE m == Len(q) + Len(t)
           v == Header(m, shift, root, tail)
<1>2. /\ Parts(T, c, q, t, N, top, shift, root, tail)
      /\ at \in InUse(c.alloc) \ PartBlocks(t, N, top, tail)
      /\ c.heap[at] = v
  BY <1>1 DEF VectorIn
<1>3. Load(c.heap, at) = v /\ at \in Nat
  BY <1>2, Loaded
<1>4. q \in Seq(T) /\ t \in Seq(T) /\ Len(s) = m /\ m \in Nat /\ Len(q) \in Nat /\ Len(t) \in Nat
  <2>1. q \in Seq(T) /\ t \in Seq(T)
    BY <1>2, TailIs
  <2>2. IsJoin(T, q, t, s)
    BY <1>1, <2>1, JoinIs
  <2> QED  BY <2>1, <2>2 DEF IsJoin
<1>5. t # <<>>
  <2> SUFFICES ASSUME t = <<>> PROVE FALSE
    OBVIOUS
  <2>1. q = <<>>
    BY <1>2 DEF Parts
  <2>2. m = 0
    BY <2>1
  <2> QED  BY <1>4, <2>2
<1>6. tailOffset(m) = Len(q)
  BY <1>2, TailIs
<1> HIDE DEF v, m
<1>7. /\ v.kind = "Vector" /\ v.count = m /\ v.shift = shift /\ v.root = root /\ v.tail = tail
      /\ \A y : [v EXCEPT !.tail = y] = Header(m, shift, root, y)
      /\ \A y : [v EXCEPT !.root = y] = Header(m, shift, y, tail)
  BY HeaderIs DEF v
<1>8. ~(i >= m)
  BY <1>4
<1>9. CASE i >= Len(q)
  <2> DEFINE p   == i - Len(q)
             g   == copyLeafWith(c, tail, p, x)
             u   == Put(t, p + 1, x)
             h   == ReplacePart(g.ctx, at, Header(m, shift, root, g.at))
  <2>1. vectorAssoc(c, at, i, x) = h
    BY <1>3, <1>6, <1>7, <1>8, <1>9 DEF vectorAssoc, Then
  <2>2. p \in Nat /\ p < Len(t)
    BY <1>4, <1>9 DEF m
  <2>3. ElementAt(s, i, x) = q \o u
    BY <1>1, <1>4, <1>9, ElementPut DEF m
  <2> HIDE DEF p
  <2>4. TailAssoc(T, c, q, t, N, top, shift, root, tail, g, u)
    BY <1>2, <1>5, <2>2, AssocInTail
  <2>5. /\ Takes(c, g.ctx, {g.at}, {tail}) /\ {tail} \subseteq PartBlocks(t, N, top, tail)
        /\ Len(u) = Len(t)
        /\ g.ctx.err = NoError =>
             /\ Parts(T, g.ctx, q, u, N, top, shift, root, g.at)
             /\ PartBlocks(u, N, top, g.at) = (PartBlocks(t, N, top, tail) \ {tail}) \union {g.at}
    BY <2>4 DEF TailAssoc, TailWritten
  <2> HIDE DEF g, u
  <2>6. Wrote(g.ctx, h, {at}, Header(Len(q) + Len(u), shift, root, g.at))
    <3>1. Context(g.ctx)
      BY <2>5 DEF Takes, Extends
    <3>2. m = Len(q) + Len(u)
      BY <2>5 DEF m
    <3>3. Wrote(g.ctx, h, {at}, Header(m, shift, root, g.at))
      <4> DEFINE data == Header(m, shift, root, g.at)
      <4>1. VectorBytes(data) \in Nat
        BY HeaderBytes
      <4> HIDE DEF data
      <4> QED  BY <1>3, <3>1, <4>1, PartReplaced DEF data
    <3> QED  BY <3>2, <3>3
  <2> HIDE DEF h
  <2>7. Writes(T, c, {at} \union PartBlocks(t, N, top, tail), h, q \o u)
    BY <1>1, <2>5, <2>6, Rewritten
  <2> QED  BY <1>1, <2>1, <2>3, <2>7
<1>10. CASE ~(i >= Len(q))
  <2> DEFINE w == assocInTrie(c, root, shift, i, x)
             r == Put(q, i + 1, x)
             h == ReplacePart(w.ctx, at, Header(m, shift, w.at, tail))
  <2>1. vectorAssoc(c, at, i, x) = h
    BY <1>3, <1>6, <1>7, <1>8, <1>10 DEF vectorAssoc, Then
  <2>2. i < Len(q)
    BY <1>4, <1>10
  <2>3. ElementAt(s, i, x) = r \o t
    BY <1>1, <1>4, <2>2, ElementPut DEF m
  <2>4. AssocedInTrie(T, c, q, t, N, top, tail, w, r)
    BY <1>2, <1>5, <2>2, AssocInTrieIs
  <2> HIDE DEF w, r
  <2>5. PICK M, A, R : TrieAssoc(T, c, q, t, N, top, tail, w, r, M, A, R)
    BY <2>4 DEF AssocedInTrie
  <2>6. /\ Takes(c, w.ctx, A, R) /\ R \subseteq PartBlocks(t, N, top, tail)
        /\ Len(r) = Len(q)
        /\ w.ctx.err = NoError =>
             /\ Parts(T, w.ctx, r, t, M, top, BITS * top, w.at, tail)
             /\ PartBlocks(t, M, top, tail) = (PartBlocks(t, N, top, tail) \ R) \union A
    BY <2>5 DEF TrieAssoc
  <2>7. shift = BITS * top
    BY <1>2, <2>2, <1>4 DEF Parts
  <2>8. Wrote(w.ctx, h, {at}, Header(Len(r) + Len(t), BITS * top, w.at, tail))
    <3>1. Context(w.ctx)
      BY <2>6 DEF Takes, Extends
    <3>2. m = Len(r) + Len(t)
      BY <2>6 DEF m
    <3>3. Wrote(w.ctx, h, {at}, Header(m, shift, w.at, tail))
      <4> DEFINE data == Header(m, shift, w.at, tail)
      <4>1. VectorBytes(data) \in Nat
        BY HeaderBytes
      <4> HIDE DEF data
      <4> QED  BY <1>3, <3>1, <4>1, PartReplaced DEF data
    <3> QED  BY <2>7, <3>2, <3>3
  <2> HIDE DEF h
  <2>9. Writes(T, c, {at} \union PartBlocks(t, N, top, tail), h, r \o t)
    BY <1>1, <2>6, <2>8, Rewritten
  <2> QED  BY <1>1, <2>1, <2>3, <2>9
<1> QED  BY <1>9, <1>10

-----------------------------------------------------------------------------
\* A leaf joined to leaves that are full is the last group of their elements.
LeavesJoined(q, t, n, r) ==
  /\ Covers(n + 1, Len(r))
  /\ Group(r, n + 1) = t
  /\ \A p \in Nat : p < n => Group(r, p + 1) = Group(q, p + 1)

\* Full leaves and one more.
LEMMA JoinedLeaf ==
  ASSUME NEW T, NEW q \in Seq(T), NEW t \in Seq(T), NEW n \in Nat, Len(q) = n * WIDTH,
         1 <= Len(t), Len(t) <= WIDTH
  PROVE  LeavesJoined(q, t, n, q \o t)
<1> DEFINE r == q \o t
           b == n * WIDTH
<1>1. IsJoin(T, q, t, r)
  BY JoinIs
<1> HIDE DEF r
<1>2. /\ r \in Seq(T) /\ b \in Nat /\ Len(t) \in Nat /\ Len(q) = b /\ Len(r) = b + Len(t)
      /\ \A j \in 1..b : r[j] = q[j]
      /\ \A j \in 1..Len(t) : r[b + j] = t[j]
  BY <1>1 DEF IsJoin
<1>3. WIDTH \in Nat /\ 2 <= WIDTH /\ (n + 1) * WIDTH = b + WIDTH
  <2>1. WIDTH \in Nat /\ 2 <= WIDTH
    BY WidthIs
  <2> QED  BY <2>1
<1>4. b = n * WIDTH
  OBVIOUS
<1> HIDE DEF b
<1>5. Covers(n + 1, Len(r))
  BY <1>2, <1>3 DEF Covers
<1>6. Group(r, n + 1) = t
  <2> DEFINE g == Group(r, n + 1)
  <2>1. n * WIDTH < Len(r)
    BY <1>2, <1>4
  <2>2. /\ g \in Seq(T)
        /\ Len(g) = IF (n + 1) * WIDTH < Len(r) THEN WIDTH ELSE Len(r) - n * WIDTH
        /\ \A j \in 1..Len(g) : g[j] = r[n * WIDTH + j]
    BY <1>2, <2>1, GroupIs
  <2> HIDE DEF g
  <2>3. Len(g) = Len(t)
    BY <1>2, <1>3, <1>4, <2>2
  <2>4. \A j \in 1..Len(g) : g[j] = t[j]
    BY <1>2, <1>4, <2>2, <2>3
  <2>5. g = t
    BY <2>2, <2>3, <2>4, SequencesEqual
  <2> QED  BY <2>5 DEF g
<1>7. ASSUME NEW p \in Nat, p < n
      PROVE  Group(r, p + 1) = Group(q, p + 1)
  <2> DEFINE a == p * WIDTH
             g == Group(r, p + 1)
             h == Group(q, p + 1)
  <2>1. a \in Nat /\ a + WIDTH <= b /\ (p + 1) * WIDTH = a + WIDTH
    <3>1. p * WIDTH \in Nat /\ p * WIDTH + WIDTH <= n * WIDTH
      BY <1>7, ProductsApart
    <3> QED  BY <1>3, <1>4, <3>1
  <2>2. a < Len(r) /\ a < Len(q)
    <3> HIDE DEF a
    <3> QED  BY <1>2, <1>3, <2>1
  <2>3. /\ g \in Seq(T)
        /\ Len(g) = IF (p + 1) * WIDTH < Len(r) THEN WIDTH ELSE Len(r) - a
        /\ \A j \in 1..Len(g) : a + j \in 1..Len(r) /\ g[j] = r[a + j]
    BY <1>2, <2>2, GroupIs
  <2>4. /\ h \in Seq(T)
        /\ Len(h) = IF (p + 1) * WIDTH < Len(q) THEN WIDTH ELSE Len(q) - a
        /\ \A j \in 1..Len(h) : a + j \in 1..Len(q) /\ h[j] = q[a + j]
    BY <1>2, <2>2, GroupIs
  <2> HIDE DEF g, h, a
  <2>5. Len(g) = WIDTH /\ Len(h) = WIDTH
    BY <1>2, <1>3, <2>1, <2>3, <2>4
  <2>6. ASSUME NEW j \in 1..Len(g) PROVE g[j] = h[j]
    <3>1. g[j] = r[a + j] /\ h[j] = q[a + j] /\ a + j \in 1..Len(q)
      BY <2>3, <2>4, <2>5
    <3>2. a + j \in 1..b
      BY <1>2, <3>1
    <3> QED  BY <1>2, <3>1, <3>2
  <2>7. g = h
    BY <2>3, <2>4, <2>5, <2>6, SequencesEqual
  <2> QED  BY <2>7 DEF g, h
<1>8. LeavesJoined(q, t, n, r)
  BY <1>5, <1>6, <1>7 DEF LeavesJoined
<1> QED  BY <1>8 DEF r

\* A sequence that fits is a group by itself.
LEMMA WholeGroup ==
  ASSUME NEW T, NEW s \in Seq(T), 1 <= Len(s), Len(s) <= WIDTH
  PROVE  Group(s, 1) = s /\ Covers(1, Len(s))
<1>1. WIDTH \in Nat /\ 2 <= WIDTH /\ 0 * WIDTH = 0 /\ 1 * WIDTH = WIDTH /\ Len(s) \in Nat
  BY WidthIs
<1>2. Covers(1, Len(s))
  BY <1>1 DEF Covers
<1> DEFINE g == Group(s, 0 + 1)
<1>3. /\ g \in Seq(T)
      /\ Len(g) = IF (0 + 1) * WIDTH < Len(s) THEN WIDTH ELSE Len(s) - 0 * WIDTH
      /\ \A j \in 1..Len(g) : g[j] = s[0 * WIDTH + j]
  <2>1. 0 \in Nat /\ 0 * WIDTH < Len(s)
    BY <1>1
  <2> QED  BY <2>1, GroupIs
<1> HIDE DEF g
<1>4. Len(g) = Len(s)
  BY <1>1, <1>3
<1>5. \A j \in 1..Len(g) : g[j] = s[j]
  BY <1>1, <1>3, <1>4
<1>6. g = s
  BY <1>3, <1>4, <1>5, SequencesEqual
<1>7. 0 + 1 = 1
  OBVIOUS
<1> QED  BY <1>2, <1>6, <1>7 DEF g

-----------------------------------------------------------------------------
\* A level put on a trie, of one node for every group of the blocks that were the highest.
AddLevel(N, top, L) == [k \in 0..(top + 1) |-> IF k = top + 1 THEN L ELSE N[k]]

LevelIsAdded(c, N, top, q, L) ==
  /\ TrieIn(c, AddLevel(N, top, L), top + 1, q)
  /\ Blocks(AddLevel(N, top, L), top + 1) = Blocks(N, top) \union {L[p + 1] : p \in Places(L)}

\* The trie is one level higher.
LEMMA LevelAdded ==
  ASSUME NEW c, NEW N, NEW top, NEW q, TrieIn(c, N, top, q),
         NEW L \in Seq(Nat), Covers(Len(L), Len(N[top])),
         \A p \in Places(L) : /\ L[p + 1] \in InUse(c.alloc) \ Blocks(N, top)
                              /\ c.heap[L[p + 1]] = Node(Group(N[top], p + 1)),
         \A a, b \in Places(L) : L[a + 1] = L[b + 1] => a = b
  PROVE  LevelIsAdded(c, N, top, q, L)
<1> DEFINE M == AddLevel(N, top, L)
           high == top + 1
<1>1. top \in Nat /\ Levels(N, top, q)
  BY DEF TrieIn, Levels
<1>2. /\ high \in Nat /\ high = top + 1 /\ high - 1 = top /\ high # 0
      /\ 0..high = (0..top) \union {high} /\ high \notin 0..top /\ top \in 0..top
  BY <1>1
<1>3. M[high] = L /\ \A k \in 0..top : M[k] = N[k]
  BY <1>2 DEF AddLevel
<1> HIDE DEF M, high
<1>4. /\ \A p : Block(M, high, p) = L[p + 1]
      /\ \A k \in 0..top : \A p : Block(M, k, p) = Block(N, k, p)
  BY <1>3 DEF Block
<1>5. /\ Under(M, q, high) = N[top]
      /\ \A k \in 0..top : Under(M, q, k) = Under(N, q, k)
  <2>1. Under(M, q, high) = M[high - 1]
    BY <1>2 DEF Under
  <2>2. ASSUME NEW k \in 0..top PROVE Under(M, q, k) = Under(N, q, k)
    <3>1. k # 0 => k - 1 \in 0..top
      BY <1>1
    <3> QED  BY <1>3, <3>1 DEF Under
  <2> QED  BY <1>2, <1>3, <2>1, <2>2
<1>6. ASSUME NEW k \in 0..high
      PROVE  M[k] \in Seq(Nat) /\ Covers(Len(M[k]), Len(Under(M, q, k)))
  <2>1. CASE k = high
    BY <1>3, <1>5, <2>1
  <2>2. CASE k \in 0..top
    BY <1>1, <1>3, <1>5, <2>2 DEF Levels
  <2> QED  BY <1>2, <2>1, <2>2
<1>7. \A k \in 0..top : \A p \in Places(N[k]) : Block(N, k, p) \in Blocks(N, top)
  BY DEF Blocks
<1>8. ASSUME NEW j \in 0..high, NEW k \in 0..high, NEW a \in Places(M[j]), NEW b \in Places(M[k]),
             Block(M, j, a) = Block(M, k, b)
      PROVE  j = k /\ a = b
  <2>1. CASE j = high /\ k = high
    BY <1>3, <1>4, <1>8, <2>1
  <2>2. CASE j = high /\ k \in 0..top
    BY <1>3, <1>4, <1>7, <1>8, <2>2
  <2>3. CASE j \in 0..top /\ k = high
    BY <1>3, <1>4, <1>7, <1>8, <2>3
  <2>4. CASE j \in 0..top /\ k \in 0..top
    BY <1>1, <1>3, <1>4, <1>8, <2>4 DEF Levels
  <2> QED  BY <1>2, <2>1, <2>2, <2>3, <2>4
<1>9. Levels(M, high, q)
  BY <1>2, <1>6, <1>8 DEF Levels
<1>10. ASSUME NEW k \in 0..high, NEW p \in Places(M[k])
       PROVE  Block(M, k, p) \in InUse(c.alloc) /\ c.heap[Block(M, k, p)] = Held(M, q, k, p)
  <2>1. CASE k = high
    <3>1. Held(M, q, k, p) = Node(Group(N[top], p + 1))
      BY <1>2, <1>5, <2>1 DEF Held, Part
    <3> QED  BY <1>3, <1>4, <2>1, <3>1
  <2>2. CASE k \in 0..top
    <3>1. Held(M, q, k, p) = Held(N, q, k, p)
      BY <1>5, <2>2 DEF Held
    <3> QED  BY <1>3, <1>4, <2>2, <3>1 DEF TrieIn
  <2> QED  BY <1>2, <2>1, <2>2
<1>11. TrieIn(c, M, high, q)
  BY <1>9, <1>10 DEF TrieIn
<1>12. Blocks(M, high) = Blocks(N, top) \union {L[p + 1] : p \in Places(L)}
  <2>1. ASSUME NEW x \in Blocks(M, high)
        PROVE  x \in Blocks(N, top) \union {L[p + 1] : p \in Places(L)}
    <3>1. PICK k \in 0..high : \E p \in Places(M[k]) : x = Block(M, k, p)
      BY DEF Blocks
    <3>2. CASE k = high
      BY <1>3, <1>4, <3>1, <3>2
    <3>3. CASE k \in 0..top
      BY <1>3, <1>4, <1>7, <3>1, <3>3
    <3> QED  BY <1>2, <3>2, <3>3
  <2>2. ASSUME NEW x \in Blocks(N, top) PROVE x \in Blocks(M, high)
    <3>1. PICK k \in 0..top : \E p \in Places(N[k]) : x = Block(N, k, p)
      BY DEF Blocks
    <3>2. k \in 0..high
      BY <1>2
    <3> QED  BY <1>3, <1>4, <3>1, <3>2 DEF Blocks
  <2>3. ASSUME NEW p \in Places(L) PROVE L[p + 1] \in Blocks(M, high)
    <3>1. high \in 0..high /\ p \in Places(M[high])
      BY <1>2, <1>3
    <3> QED  BY <1>4, <3>1 DEF Blocks
  <2> QED  BY <2>1, <2>2, <2>3
<1> QED  BY <1>11, <1>12 DEF LevelIsAdded, M, high

-----------------------------------------------------------------------------
\* How many leaves a trie of so many levels can have.
LEMMA LevelPower ==
  /\ Power[BITS * 0] = 1
  /\ \A k \in Nat : /\ BITS * k \in Nat
                    /\ Power[BITS * k] \in Nat \ {0}
                    /\ Power[BITS * (k + 1)] = Power[BITS * k] * WIDTH
<1>1. BITS \in Nat
  BY TrieAssumption
<1>2. Power[BITS * 0] = 1
  <2>1. BITS * 0 = 0
    BY <1>1
  <2> QED  BY <2>1, PowerIs
<1>3. ASSUME NEW k \in Nat
      PROVE  /\ BITS * k \in Nat
             /\ Power[BITS * k] \in Nat \ {0}
             /\ Power[BITS * (k + 1)] = Power[BITS * k] * WIDTH
  <2> DEFINE m == BITS * k
  <2>1. m \in Nat /\ BITS * (k + 1) = m + BITS
    BY <1>1
  <2> HIDE DEF m
  <2>2. Power[m + BITS] = Power[m] * Power[BITS]
    BY <1>1, <2>1, PowerOfSum
  <2>3. Power[m] \in Nat \ {0}
    BY <2>1, PowerIsNat
  <2> QED  BY <2>1, <2>2, <2>3, WidthIs DEF m
<1> QED  BY <1>2, <1>3

\* Two levels, one above the other.
LEMMA LevelAbove ==
  ASSUME NEW N, NEW top, NEW q, Levels(N, top, q), NEW k \in Nat, k + 1 <= top
  PROVE  Len(N[k]) \in Nat /\ Len(N[k + 1]) \in Nat /\ Covers(Len(N[k + 1]), Len(N[k]))
<1>1. k \in 0..top /\ k + 1 \in 0..top /\ k + 1 # 0 /\ (k + 1) - 1 = k
  BY DEF Levels
<1>2. N[k] \in Seq(Nat) /\ N[k + 1] \in Seq(Nat) /\ Covers(Len(N[k + 1]), Len(Under(N, q, k + 1)))
  BY <1>1 DEF Levels
<1>3. Under(N, q, k + 1) = N[k]
  BY <1>1 DEF Under
<1> QED  BY <1>2, <1>3

Fits(N, top, j) == Len(N[top - j]) \in Nat /\ Len(N[top - j]) <= Power[BITS * j]

\* A level has no more blocks than fit below the root.
LEMMA LevelsFit ==
  ASSUME NEW N, NEW top, NEW q, Levels(N, top, q), Len(N[top]) = 1
  PROVE  \A j \in 0..top : Fits(N, top, j)
<1> DEFINE S == {j \in Nat : j <= top => Fits(N, top, j)}
<1>1. top \in Nat
  BY DEF Levels
<1>2. 0 \in S
  <2>1. top - 0 = top
    BY <1>1
  <2>2. Len(N[top - 0]) = 1
    BY <2>1
  <2>3. Power[BITS * 0] = 1
    BY LevelPower
  <2>4. Fits(N, top, 0)
    BY <2>2, <2>3 DEF Fits
  <2> QED  BY <2>4
<1>3. ASSUME NEW j \in Nat, j \in S PROVE j + 1 \in S
  <2> SUFFICES ASSUME j + 1 <= top PROVE Fits(N, top, j + 1)
    OBVIOUS
  <2> DEFINE k == top - (j + 1)
             n == Len(N[k + 1])
             m == Len(N[k])
             b == Power[BITS * j]
  <2>1. k \in Nat /\ k + 1 <= top /\ k + 1 = top - j
    BY <1>1
  <2>2. Fits(N, top, j)
    BY <1>1, <1>3
  <2>3. n \in Nat /\ n <= b
    BY <2>1, <2>2 DEF Fits
  <2>4. m \in Nat /\ Covers(n, m)
    <3> HIDE DEF k
    <3> QED  BY <2>1, LevelAbove
  <2>5. b \in Nat /\ Power[BITS * (j + 1)] = b * WIDTH
    BY LevelPower
  <2> HIDE DEF n, m, b
  <2>6. n * WIDTH <= b * WIDTH /\ n * WIDTH \in Nat /\ b * WIDTH \in Nat
    <3>1. n < b => n * WIDTH + WIDTH <= b * WIDTH
      BY <2>3, <2>5, ProductsApart
    <3>2. WIDTH \in Nat
      BY WidthIs
    <3>3. n * WIDTH \in Nat /\ b * WIDTH \in Nat
      BY <2>3, <2>5, <3>2
    <3>4. n = b \/ n < b
      BY <2>3, <2>5
    <3> QED  BY <3>1, <3>2, <3>3, <3>4
  <2>7. m <= b * WIDTH
    BY <2>4, <2>6 DEF Covers
  <2> QED  BY <2>4, <2>5, <2>7 DEF m, Fits
<1>4. \A j \in Nat : j \in S
  <2> HIDE DEF S
  <2> QED  BY <1>2, <1>3, SetInduction
<1> QED  BY <1>1, <1>4

\* In a trie that is full, every level is.
Full(N, top, k) == Len(N[k]) = Power[BITS * (top - k)]

\* When the leaves are as many as fit, every level is full.
LEMMA LevelsFull ==
  ASSUME NEW N, NEW top, NEW q, Levels(N, top, q), Len(N[top]) = 1,
         Power[BITS * top] <= Len(N[0])
  PROVE  \A k \in 0..top : Full(N, top, k)
<1> DEFINE S == {k \in Nat : k <= top => Full(N, top, k)}
<1>1. top \in Nat
  BY DEF Levels
<1>2. 0 \in S
  <2>1. top \in 0..top /\ top - top = 0 /\ top - 0 = top
    BY <1>1
  <2>2. Fits(N, top, top)
    BY <2>1, LevelsFit
  <2>3. Len(N[0]) \in Nat /\ Len(N[0]) <= Power[BITS * top] /\ Power[BITS * top] \in Nat
    BY <1>1, <2>1, <2>2, LevelPower DEF Fits
  <2>4. Len(N[0]) = Power[BITS * top]
    BY <2>3
  <2> QED  BY <2>1, <2>4 DEF Full
<1>3. ASSUME NEW k \in Nat, k \in S PROVE k + 1 \in S
  <2> SUFFICES ASSUME k + 1 <= top PROVE Full(N, top, k + 1)
    OBVIOUS
  <2> DEFINE j == top - (k + 1)
             n == Len(N[k + 1])
             m == Len(N[k])
             b == Power[BITS * j]
  <2>1. j \in Nat /\ top - k = j + 1 /\ k <= top
    BY <1>1
  <2>2. n \in Nat /\ m \in Nat /\ Covers(n, m)
    BY LevelAbove
  <2>3. m = Power[BITS * (top - k)]
    BY <1>3, <2>1 DEF Full
  <2>4. b \in Nat /\ m = b * WIDTH
    <3> HIDE DEF j
    <3> QED  BY <2>1, <2>3, LevelPower
  <2> HIDE DEF n, m, b
  <2>5. n = b
    <3>1. Covers(n, b * WIDTH)
      BY <2>2, <2>4
    <3> QED  BY <2>2, <2>4, <3>1, FullLeaves
  <2> QED  BY <2>5 DEF n, b, Full
<1>4. \A k \in Nat : k \in S
  <2> HIDE DEF S
  <2> QED  BY <1>2, <1>3, SetInduction
<1> QED  BY <1>1, <1>4

\* The walk past the last leaf of a full trie meets no block above it.
NextPlaces(N, top) == [k \in 0..top |-> Len(N[k])]

\* The walk to the place after the last leaf.
LEMMA WalkPastFull ==
  ASSUME NEW N, NEW top, NEW q, Levels(N, top, q), Len(N[top]) = 1,
         Power[BITS * top] <= Len(N[0]), NEW index
  PROVE  Walk(N, top, NextPlaces(N, top), [k \in 0..top |-> NoBlock], index)
<1> DEFINE P    == NextPlaces(N, top)
           path == [k \in 0..top |-> NoBlock]
<1>1. top \in Nat
  BY DEF Levels
<1>2. \A k \in 0..top : P[k] = Len(N[k]) /\ P[k] \in Nat /\ path[k] = NoBlock
  BY DEF NextPlaces, Levels
<1> HIDE DEF P, path
<1>3. ASSUME NEW k \in 1..top
      PROVE  P[k] = P[k - 1] \div WIDTH
  <2> DEFINE j == k - 1
             i == top - k
  <2>1. j \in Nat /\ k = j + 1 /\ j \in 0..top /\ k \in 0..top /\ i \in Nat /\ top - j = i + 1
    BY <1>1
  <2>2. Full(N, top, k) /\ Full(N, top, j)
    BY <2>1, LevelsFull
  <2>3. P[k] = Power[BITS * i] /\ P[j] = Power[BITS * (i + 1)]
    BY <1>2, <2>1, <2>2 DEF Full
  <2> HIDE DEF j, i
  <2> DEFINE b == Power[BITS * i]
             x == P[j]
  <2>4. b \in Nat /\ x = b * WIDTH
    BY <2>1, <2>3, LevelPower
  <2>5. WIDTH \in Nat /\ WIDTH \in Nat \ {0} /\ 0 < WIDTH
    BY WidthIs
  <2>6. P[k] = b
    BY <2>3
  <2> HIDE DEF b, x
  <2>7. x \in Nat /\ x = WIDTH * b + 0
    BY <2>4, <2>5
  <2>8. x \div WIDTH = b
    BY <2>4, <2>5, <2>7, DivUnique
  <2> QED  BY <2>6, <2>8 DEF x, j
<1>4. ASSUME NEW k \in 1..top
      PROVE  path[k] = IF P[k] < Len(N[k]) THEN Block(N, k, P[k]) ELSE NoBlock
  <2>1. k \in 0..top
    BY <1>1
  <2> QED  BY <1>2, <2>1
<1>5. \A k \in 1..top : path[k] = NoBlock
  BY <1>1, <1>2
<1>6. Walk(N, top, P, path, index)
  BY <1>2, <1>3, <1>4, <1>5 DEF Walk
<1> QED  BY <1>6 DEF P, path

-----------------------------------------------------------------------------
\* A trie of leaves alone.
OneLevel(L) == [k \in 0..0 |-> L]

LeavesAreTrie(c, L, q) ==
  /\ TrieIn(c, OneLevel(L), 0, q)
  /\ Blocks(OneLevel(L), 0) = {L[p + 1] : p \in Places(L)}

\* Leaves that were written are a trie by themselves.
LEMMA LeavesAre ==
  ASSUME NEW c, NEW L \in Seq(Nat), NEW q, Covers(Len(L), Len(q)),
         \A p \in Places(L) :
           L[p + 1] \in InUse(c.alloc) /\ c.heap[L[p + 1]] = Leaf(Group(q, p + 1)),
         \A a, b \in Places(L) : L[a + 1] = L[b + 1] => a = b
  PROVE  LeavesAreTrie(c, L, q)
<1> DEFINE N == OneLevel(L)
<1>1. 0..0 = {0} /\ N[0] = L /\ 0 \in Nat
  BY DEF OneLevel
<1> HIDE DEF N
<1>2. (\A p : Block(N, 0, p) = L[p + 1]) /\ Under(N, q, 0) = q
      /\ \A p : Held(N, q, 0, p) = Leaf(Group(q, p + 1))
  BY <1>1 DEF Block, Under, Held, Part
<1>3. Levels(N, 0, q)
  BY <1>1, <1>2 DEF Levels
<1>4. TrieIn(c, N, 0, q)
  BY <1>1, <1>2, <1>3 DEF TrieIn
<1>5. Blocks(N, 0) = {L[p + 1] : p \in Places(L)}
  BY <1>1, <1>2 DEF Blocks
<1> QED  BY <1>4, <1>5 DEF LeavesAreTrie, N

-----------------------------------------------------------------------------
\* The old tail moves into the trie: the trie of q and then t, in one root.
TrieGrew(c, g, N, top, tail, r, M, high, A, R) ==
  /\ Takes(c, g.ctx, A, R) /\ R \subseteq Blocks(N, top)
  /\ g.ctx.err = NoError =>
       /\ TrieIn(g.ctx, M, high, r)
       /\ Len(M[high]) = 1 /\ g.at = Block(M, high, 0) /\ g.shift = BITS * high
       /\ Blocks(M, high) = ((Blocks(N, top) \union {tail}) \ R) \union A

TrieGrows(c, g, N, top, tail, r) ==
  \E M, high, A, R : TrieGrew(c, g, N, top, tail, r, M, high, A, R)

\* It is the first leaf of the trie.
LEMMA FirstLeaf ==
  ASSUME NEW c, Context(c), NEW T, NEW q, NEW t, NEW N, NEW top, NEW shift, NEW root, NEW tail,
         Parts(T, c, q, t, N, top, shift, root, tail), Len(t) = WIDTH, q = <<>>
  PROVE  TrieGrows(c, [ctx |-> c, at |-> tail, shift |-> 0], N, top, tail, q \o t)
<1> DEFINE g == [ctx |-> c, at |-> tail, shift |-> 0]
           L == <<tail>>
           M == OneLevel(L)
<1>1. WIDTH \in Nat /\ 2 <= WIDTH
  BY WidthIs
<1>2. /\ t \in Seq(T) /\ tail \in InUse(c.alloc) /\ c.heap[tail] = Leaf(t) /\ tail \in Nat
      /\ top = 0 /\ Len(q) = Len(N[0]) * WIDTH /\ TrieIn(c, N, top, q)
  <2>1. t \in Seq(T) /\ t # <<>>
    <3>1. t \in Seq(T)
      BY DEF Parts
    <3> QED  BY <1>1, <3>1
  <2>2. tail \in InUse(c.alloc) /\ c.heap[tail] = Leaf(t)
    BY <2>1 DEF Parts
  <2>3. tail \in Nat
    BY <2>2, Loaded
  <2> QED  BY <2>1, <2>2, <2>3 DEF Parts
<1>3. q \o t = t
  BY <1>2
<1>4. Blocks(N, top) = {}
  <2> DEFINE n == Len(N[0])
  <2>1. N[0] \in Seq(Nat)
    BY <1>2 DEF TrieIn, Levels
  <2>2. n \in Nat /\ n * WIDTH = 0
    BY <1>2, <2>1
  <2> HIDE DEF n
  <2>3. n = 0
    BY <1>1, <2>2
  <2>4. Places(N[0]) = {}
    BY <2>3 DEF Places, n
  <2>5. 0..0 = {0}
    OBVIOUS
  <2> QED  BY <1>2, <2>4, <2>5 DEF Blocks
<1>5. L \in Seq(Nat) /\ Len(L) = 1 /\ L[1] = tail /\ Places(L) = {0} /\ 0 + 1 = 1
  BY <1>2 DEF Places
<1> HIDE DEF L
<1>6. Group(t, 1) = t /\ Covers(1, Len(t))
  BY <1>1, <1>2, WholeGroup
<1>7. LeavesAreTrie(c, L, t)
  <2>1. Covers(Len(L), Len(t))
    BY <1>5, <1>6
  <2>2. \A p \in Places(L) : L[p + 1] \in InUse(c.alloc) /\ c.heap[L[p + 1]] = Leaf(Group(t, p + 1))
    BY <1>2, <1>5, <1>6
  <2>3. \A a, b \in Places(L) : L[a + 1] = L[b + 1] => a = b
    BY <1>5
  <2> QED  BY <1>5, <2>1, <2>2, <2>3, LeavesAre
<1>8. M[0] = L /\ BITS * 0 = 0
  BY TrieAssumption DEF OneLevel
<1>9. TrieIn(c, M, 0, t) /\ Blocks(M, 0) = {tail}
  BY <1>5, <1>7 DEF LeavesAreTrie
<1>10. g.ctx = c /\ g.at = tail /\ g.shift = 0
  OBVIOUS
<1> HIDE DEF g, M
<1>11. Takes(c, g.ctx, {}, {})
  BY <1>10, TakesNothing
<1>12. Len(M[0]) = 1 /\ g.at = Block(M, 0, 0)
  BY <1>5, <1>8, <1>10 DEF Block
<1>13. TrieGrew(c, g, N, top, tail, q \o t, M, 0, {}, {})
  BY <1>3, <1>4, <1>8, <1>9, <1>10, <1>11, <1>12 DEF TrieGrew
<1> QED  BY <1>13 DEF TrieGrows, g

\* It gets the place after the last leaf.
LEMMA NextLeaf ==
  ASSUME NEW c, Context(c), NEW T, NEW q, NEW t, NEW N, NEW top, NEW shift, NEW root, NEW tail,
         Parts(T, c, q, t, N, top, shift, root, tail), Len(t) = WIDTH, q # <<>>,
         Len(N[0]) + 1 <= Power[shift]
  PROVE  TrieGrows(c, Rooted(pushLeaf(c, root, shift, Len(q) + Len(t), tail), shift),
                   N, top, tail, q \o t)
<1> DEFINE r     == q \o t
           n     == Len(N[0])
           m     == Len(q) + Len(t)
           index == m - 1
           path  == Path(c.heap, Block(N, top, 0), top, index)
           got   == [ctx |-> c, at |-> tail]
           w     == WriteUp(got, path, top, index)[top]
           g     == Rooted(w, shift)
<1>1. WIDTH \in Nat /\ 2 <= WIDTH /\ WIDTH \in Nat \ {0}
  BY WidthIs
<1>2. /\ q \in Seq(T) /\ t \in Seq(T) /\ TrieIn(c, N, top, q) /\ Len(q) = n * WIDTH
      /\ root = Block(N, top, 0) /\ shift = BITS * top /\ Len(N[top]) = 1
      /\ tail \in InUse(c.alloc) \ Blocks(N, top) /\ c.heap[tail] = Leaf(t)
  <2>1. t \in Seq(T) /\ t # <<>>
    <3>1. t \in Seq(T)
      BY DEF Parts
    <3> QED  BY <1>1, <3>1
  <2> QED  BY <2>1 DEF Parts
<1>3. top \in Nat /\ Levels(N, top, q) /\ 0 \in 0..top
  <2>1. top \in Nat /\ Levels(N, top, q)
    BY <1>2 DEF TrieIn, Levels
  <2> QED  BY <2>1
<1>4. n \in Nat
  BY <1>3 DEF Levels
<1>5. tail \in Nat
  BY <1>2, Loaded
<1>6. index \in Nat /\ index = WIDTH * n + (WIDTH - 1) /\ index < (n + 1) * WIDTH
      /\ (n + 1) * WIDTH \in Nat
  <2>1. \A a, b \in Nat : /\ a * b \in Nat /\ b * a = a * b
                          /\ (a + 1) * b = a * b + b /\ (a + 1) * b \in Nat
    OBVIOUS
  <2> DEFINE b == n * WIDTH
  <2>2. b \in Nat /\ b = WIDTH * n /\ (n + 1) * WIDTH = b + WIDTH /\ (n + 1) * WIDTH \in Nat
    BY <1>1, <1>4, <2>1
  <2>3. m = b + WIDTH
    BY <1>2
  <2> HIDE DEF b, m
  <2>4. index = b + (WIDTH - 1) /\ index \in Nat /\ index < b + WIDTH
    BY <1>1, <2>2, <2>3
  <2> QED  BY <2>2, <2>4
<1> HIDE DEF index
<1>7. Pos(index, 0) = n
  <2> HIDE DEF n
  <2>1. WIDTH - 1 \in Nat /\ WIDTH - 1 < WIDTH
    BY <1>1
  <2>2. index \div WIDTH = n
    BY <1>1, <1>4, <1>6, <2>1, DivUnique
  <2> QED  BY <1>6, <2>2, PosIs
<1>8. Pos(index, top) = 0
  <2> DEFINE b == Power[BITS * top]
             e == Power[BITS * (top + 1)]
  <2>1. b \in Nat /\ e = b * WIDTH /\ e \in Nat \ {0}
    <3>1. b \in Nat /\ e = b * WIDTH
      BY <1>3, LevelPower
    <3>2. top + 1 \in Nat
      BY <1>3
    <3>3. \A k \in Nat : Power[BITS * k] \in Nat \ {0}
      BY LevelPower
    <3>4. e \in Nat \ {0}
      BY <3>2, <3>3
    <3> QED  BY <3>1, <3>4
  <2>2. n + 1 <= b
    BY <1>2
  <2> HIDE DEF b, e
  <2>3. (n + 1) * WIDTH <= b * WIDTH /\ b * WIDTH \in Nat
    <3> DEFINE k == n + 1
    <3>1. k \in Nat /\ k <= b
      BY <1>4, <2>2
    <3> HIDE DEF k, n
    <3>2. k < b => k * WIDTH + WIDTH <= b * WIDTH
      BY <2>1, <3>1, ProductsApart
    <3>3. k = b \/ k < b
      BY <2>1, <3>1
    <3>4. k * WIDTH \in Nat /\ b * WIDTH \in Nat
      BY <1>1, <2>1, <3>1
    <3>5. k * WIDTH <= b * WIDTH
      BY <1>1, <3>2, <3>3, <3>4
    <3> QED  BY <3>4, <3>5 DEF k
  <2>4. index < e
    BY <1>6, <2>1, <2>3
  <2>5. e * 0 = 0
    BY <2>1
  <2>6. index = e * 0 + index
    BY <1>6, <2>5
  <2>7. index \div e = 0
    BY <1>6, <2>1, <2>4, <2>6, DivUnique
  <2> QED  BY <2>7 DEF Pos, e
<1>9. LeavesJoined(q, t, n, r)
  <2>1. 1 <= Len(t) /\ Len(t) <= WIDTH
    BY <1>1
  <2> HIDE DEF n
  <2> QED  BY <1>2, <1>4, <2>1, JoinedLeaf
<1>10. r \in Seq(T)
  BY <1>2
<1>11. got.ctx = c /\ got.at = tail
  OBVIOUS
<1>12. pushLeaf(c, root, shift, m, tail) = w
  <2>1. shift \div BITS = top
    BY <1>2, <1>3, ShiftIsTop
  <2> QED  BY <1>2, <2>1 DEF pushLeaf, index
<1> HIDE DEF r, got, path
<1>13. TrieWritten(got, w, N, top, r, LeafAt(N, n))
  <2>1. Extends(c, got.ctx)
    BY <1>11, ExtendsItself
  <2>2. got.at \in InUse(got.ctx.alloc) \ Blocks(N, top)
        /\ got.ctx.heap[got.at] = Leaf(Group(r, Pos(index, 0) + 1))
    BY <1>2, <1>7, <1>9, <1>11 DEF LeavesJoined
  <2>3. Covers(IF Pos(index, 0) + 1 > n THEN Pos(index, 0) + 1 ELSE n, Len(r))
    <3>1. n + 1 > n
      BY <1>4
    <3>2. Covers(n + 1, Len(r))
      BY <1>9 DEF LeavesJoined
    <3> HIDE DEF n
    <3> QED  BY <1>7, <3>1, <3>2
  <2>4. \A p \in Places(N[0]) : p # Pos(index, 0) => Group(r, p + 1) = Group(q, p + 1)
    BY <1>9 DEF LeavesJoined, Places
  <2>5. Pos(index, 0) <= Len(N[0])
    BY <1>4, <1>7
  <2>6. got.at \in Nat
    BY <1>5, <1>11
  <2>7. TrieWritten(got, w, N, top, r, LeafAt(N, Pos(index, 0)))
    BY <1>2, <1>6, <1>8, <1>10, <2>1, <2>2, <2>3, <2>4, <2>5, <2>6, TriePut DEF path
  <2> QED  BY <1>7, <2>7
<1> HIDE DEF w
<1>14. LeafAt(N, n) = {}
  BY <1>4 DEF LeafAt
<1>15. PICK M, A, R : TrieWrote(got, w, N, M, top, r, {}, A, R)
  BY <1>13, <1>14 DEF TrieWritten
<1>16. g.ctx = w.ctx /\ g.at = w.at /\ g.shift = shift
  BY DEF Rooted
<1> HIDE DEF g
<1>17. Takes(c, g.ctx, A, R) /\ R \subseteq Blocks(N, top)
  BY <1>11, <1>15, <1>16 DEF TrieWrote
<1>18. ASSUME g.ctx.err = NoError
       PROVE  /\ TrieIn(g.ctx, M, top, r)
              /\ Len(M[top]) = 1 /\ g.at = Block(M, top, 0) /\ g.shift = BITS * top
              /\ Blocks(M, top) = ((Blocks(N, top) \union {tail}) \ R) \union A
  <2>1. /\ TrieIn(w.ctx, M, top, r)
        /\ Len(M[top]) = 1 /\ w.at = Block(M, top, 0)
        /\ Blocks(M, top) = (Blocks(N, top) \ ({} \union R)) \union (A \union {tail})
    BY <1>11, <1>15, <1>16, <1>18 DEF TrieWrote
  <2>2. tail \notin R
    BY <1>2, <1>17
  <2>3. Blocks(M, top) = ((Blocks(N, top) \union {tail}) \ R) \union A
    BY <2>1, <2>2
  <2> QED  BY <1>2, <1>16, <2>1, <2>3
<1>19. TrieGrew(c, g, N, top, tail, r, M, top, A, R)
  BY <1>17, <1>18 DEF TrieGrew
<1>20. TrieGrows(c, g, N, top, tail, r)
  BY <1>19 DEF TrieGrows
<1> QED  BY <1>12, <1>20 DEF g, r

-----------------------------------------------------------------------------
\* The trie is full: a root is put above it, with a path to the leaf beside it.
LEMMA NextRoot ==
  ASSUME NEW c, Context(c), NEW T, NEW q, NEW t, NEW N, NEW top, NEW shift, NEW root, NEW tail,
         Parts(T, c, q, t, N, top, shift, root, tail), Len(t) = WIDTH, q # <<>>,
         Len(N[0]) + 1 > Power[shift],
         NEW w, w = newPath(c, shift, tail)
  PROVE  TrieGrows(c, Rooted(AllocPart(w.ctx, Node(<<root, w.at>>)), shift + BITS),
                   N, top, tail, q \o t)
<1> DEFINE r    == q \o t
           n    == Len(N[0])
           P    == NextPlaces(N, top)
           path == [k \in 0..top |-> NoBlock]
           got  == [ctx |-> c, at |-> tail]
           h    == AllocPart(w.ctx, Node(<<root, w.at>>))
           g    == Rooted(h, shift + BITS)
           L    == <<h.at>>
           high == top + 1
<1>1. WIDTH \in Nat /\ 2 <= WIDTH
  BY WidthIs
<1>2. /\ q \in Seq(T) /\ t \in Seq(T) /\ TrieIn(c, N, top, q) /\ Len(q) = n * WIDTH
      /\ root = Block(N, top, 0) /\ shift = BITS * top /\ Len(N[top]) = 1
      /\ tail \in InUse(c.alloc) \ Blocks(N, top) /\ c.heap[tail] = Leaf(t)
  <2>1. t \in Seq(T) /\ t # <<>>
    <3>1. t \in Seq(T)
      BY DEF Parts
    <3> QED  BY <1>1, <3>1
  <2> QED  BY <2>1 DEF Parts
<1>3. top \in Nat /\ Levels(N, top, q) /\ 0 \in 0..top /\ top \in 0..top
  <2>1. top \in Nat /\ Levels(N, top, q)
    BY <1>2 DEF TrieIn, Levels
  <2> QED  BY <2>1
<1>4. n \in Nat /\ N[top] \in Seq(Nat)
  BY <1>3 DEF Levels
<1>5. tail \in Nat
  BY <1>2, Loaded
<1>6. Power[BITS * top] <= Len(N[0])
  <2>1. Power[BITS * top] \in Nat
    BY <1>3, LevelPower
  <2> QED  BY <1>2, <1>4, <2>1
<1>7. Walk(N, top, P, path, 0)
  BY <1>2, <1>3, <1>6, WalkPastFull
<1>8. P[0] = n /\ P[top] = 1
  BY <1>2, <1>3 DEF NextPlaces
<1>9. LeavesJoined(q, t, n, r)
  <2>1. 1 <= Len(t) /\ Len(t) <= WIDTH
    BY <1>1
  <2> HIDE DEF n
  <2> QED  BY <1>2, <1>4, <2>1, JoinedLeaf
<1>10. r \in Seq(T)
  BY <1>2
<1>11. got.ctx = c /\ got.at = tail
  OBVIOUS
<1>12. w = WriteUp(got, path, top, 0)[top]
  <2>1. shift \div BITS = top
    BY <1>2, <1>3, ShiftIsTop
  <2> QED  BY <2>1 DEF newPath
<1> HIDE DEF r, got, path, P
<1>13. PathWritten(got, w, N, top, 1, r, LeafAt(N, n))
  <2>1. Extends(c, got.ctx)
    BY <1>11, ExtendsItself
  <2>2. got.at \in InUse(got.ctx.alloc) \ Blocks(N, top)
        /\ got.ctx.heap[got.at] = Leaf(Group(r, P[0] + 1))
    BY <1>2, <1>8, <1>9, <1>11 DEF LeavesJoined
  <2>3. Covers(IF P[0] + 1 > n THEN P[0] + 1 ELSE n, Len(r))
    <3>1. n + 1 > n
      BY <1>4
    <3>2. Covers(n + 1, Len(r))
      BY <1>9 DEF LeavesJoined
    <3> HIDE DEF n
    <3> QED  BY <1>8, <3>1, <3>2
  <2>4. \A p \in Places(N[0]) : p # P[0] => Group(r, p + 1) = Group(q, p + 1)
    BY <1>8, <1>9 DEF LeavesJoined, Places
  <2>5. got.at \in Nat
    BY <1>5, <1>11
  <2>6. PathWritten(got, WriteUp(got, path, top, 0)[top], N, top, P[top], r, LeafAt(N, P[0]))
    BY <1>2, <1>7, <1>10, <2>1, <2>2, <2>3, <2>4, <2>5, PathPut
  <2> QED  BY <1>8, <1>12, <2>6
<1>14. LeafAt(N, n) = {}
  BY <1>4 DEF LeafAt
<1>15. PICK M, A, R : PathWrote(got, w, N, M, top, 1, r, {}, A, R)
  BY <1>13, <1>14 DEF PathWritten
<1>16. /\ Takes(c, w.ctx, A, R) /\ w.at \in Nat /\ R \subseteq Blocks(N, top)
       /\ w.ctx.err = NoError =>
            /\ TrieIn(w.ctx, M, top, r)
            /\ M[top] = Put(N[top], 2, w.at)
            /\ Blocks(M, top) = (Blocks(N, top) \ R) \union (A \union {tail})
  <2>1. 1 + 1 = 2
    OBVIOUS
  <2> QED  BY <1>11, <1>15, <2>1 DEF PathWrote
<1>17. Context(w.ctx)
  BY <1>16 DEF Takes, Extends
<1>18. root \in Nat
  BY <1>2, <1>4 DEF Block
<1>19. w.ctx.err = NoError => M[top] = <<root, w.at>>
  <2> DEFINE s == N[top]
             k == 2
             y == w.at
  <2>1. s \in Seq(Nat) /\ k \in Nat /\ 1 <= k /\ k <= Len(s) + 1 /\ k > Len(s) /\ y \in Nat
        /\ Len(s) = 1 /\ k = 2
    BY <1>2, <1>4, <1>16
  <2> HIDE DEF s, k, y
  <2>2. IsPut(Nat, s, k, y, Put(s, k, y))
    BY <2>1, PutIs
  <2> DEFINE m == Put(s, k, y)
  <2>3. m \in Seq(Nat) /\ Len(m) = 2 /\ m[2] = y /\ m[1] = s[1]
    BY <2>1, <2>2 DEF IsPut
  <2> HIDE DEF m
  <2>4. m = <<s[1], y>>
    BY <2>3
  <2>5. s[1] = root
    <3>1. 0 + 1 = 1
      OBVIOUS
    <3> QED  BY <1>2, <3>1 DEF Block, s
  <2> QED  BY <1>16, <2>4, <2>5 DEF m, s, k, y
<1>20. Wrote(w.ctx, h, {}, Node(<<root, w.at>>))
  <2> DEFINE data == Node(<<root, w.at>>)
  <2>1. VectorBytes(data) \in Nat
    <3> DEFINE s == <<root, w.at>>
    <3>1. s \in Seq(Nat)
      BY <1>16, <1>18
    <3> HIDE DEF s
    <3>2. VectorBytes(Node(s)) \in Nat
      BY <3>1, NodeBytes
    <3> QED  BY <3>2 DEF s
  <2> HIDE DEF data
  <2> QED  BY <1>17, <2>1, PartAllocated DEF data
<1> HIDE DEF h
<1>21. Takes(w.ctx, h.ctx, {h.at}, {}) /\ h.at \in Nat
  BY <1>20 DEF Wrote
<1>22. Takes(c, h.ctx, A \union {h.at}, R)
  <2>1. Takes(c, h.ctx, A \union {h.at}, R \union {})
    BY <1>16, <1>21, TakesTwice
  <2> QED  BY <2>1
<1>23. g.ctx = h.ctx /\ g.at = h.at /\ g.shift = shift + BITS
  BY DEF Rooted
<1> HIDE DEF g
<1>24. L \in Seq(Nat) /\ Len(L) = 1 /\ L[1] = h.at /\ Places(L) = {0} /\ 0 + 1 = 1
  BY <1>21 DEF Places
<1> HIDE DEF L
<1>25. shift + BITS = BITS * high /\ high \in Nat
  <2>1. BITS \in Nat
    BY TrieAssumption
  <2> QED  BY <1>2, <1>3, <2>1
<1>26. ASSUME h.ctx.err = NoError
       PROVE  /\ TrieIn(h.ctx, AddLevel(M, top, L), high, r)
              /\ Blocks(AddLevel(M, top, L), high)
                   = ((Blocks(N, top) \union {tail}) \ R) \union (A \union {h.at})
  <2>1. w.ctx.err = NoError /\ h.at \in InUse(h.ctx.alloc) \ InUse(w.ctx.alloc)
        /\ h.ctx.heap[h.at] = Node(<<root, w.at>>)
    BY <1>20, <1>26 DEF Wrote, Takes
  <2>2. TrieIn(w.ctx, M, top, r) /\ M[top] = <<root, w.at>>
        /\ Blocks(M, top) = (Blocks(N, top) \ R) \union (A \union {tail})
    BY <1>16, <1>19, <2>1
  <2>3. TrieIn(h.ctx, M, top, r)
    BY <1>21, <2>2, TrieStays DEF Takes
  <2>4. h.at \notin Blocks(M, top)
    <3>1. Blocks(M, top) \subseteq InUse(w.ctx.alloc)
      BY <2>2, TrieBlocks DEF BlocksInUse
    <3> QED  BY <2>1, <3>1
  <2>5. Group(M[top], 1) = M[top] /\ Covers(1, Len(M[top]))
    <3> DEFINE s == <<root, w.at>>
    <3>1. s \in Seq(Nat) /\ 1 <= Len(s) /\ Len(s) <= WIDTH
      BY <1>1, <1>16, <1>18
    <3> HIDE DEF s
    <3>2. Group(s, 1) = s /\ Covers(1, Len(s))
      BY <3>1, WholeGroup
    <3> QED  BY <2>2, <3>2 DEF s
  <2>6. LevelIsAdded(h.ctx, M, top, r, L)
    <3>1. Covers(Len(L), Len(M[top]))
      BY <1>24, <2>5
    <3>2. \A p \in Places(L) : /\ L[p + 1] \in InUse(h.ctx.alloc) \ Blocks(M, top)
                               /\ h.ctx.heap[L[p + 1]] = Node(Group(M[top], p + 1))
      BY <1>24, <2>1, <2>2, <2>4, <2>5
    <3>3. \A a, b \in Places(L) : L[a + 1] = L[b + 1] => a = b
      BY <1>24
    <3> QED  BY <1>24, <2>3, <3>1, <3>2, <3>3, LevelAdded
  <2>7. Blocks(AddLevel(M, top, L), high) = Blocks(M, top) \union {h.at}
    BY <1>24, <2>6 DEF LevelIsAdded
  <2>8. tail \notin R
    BY <1>2, <1>16
  <2> QED  BY <2>2, <2>6, <2>7, <2>8 DEF LevelIsAdded
<1>27. AddLevel(M, top, L)[high] = L
  BY <1>25 DEF AddLevel
<1> DEFINE K == AddLevel(M, top, L)
<1> HIDE DEF K, high
<1>28. Len(K[high]) = 1 /\ Block(K, high, 0) = h.at
  BY <1>24, <1>27 DEF Block, K
<1>29. TrieGrew(c, g, N, top, tail, r, K, high, A \union {h.at}, R)
  BY <1>16, <1>22, <1>23, <1>25, <1>26, <1>28 DEF TrieGrew, K
<1>30. TrieGrows(c, g, N, top, tail, r)
  BY <1>29 DEF TrieGrows
<1> QED  BY <1>30 DEF g, h, r

\* Whichever it is, the old tail is in the trie then.
LEMMA GrowTrieIs ==
  ASSUME NEW c, Context(c), NEW T, NEW q, NEW t, NEW N, NEW top, NEW shift, NEW root, NEW tail,
         Parts(T, c, q, t, N, top, shift, root, tail), Len(t) = WIDTH
  PROVE  TrieGrows(c, GrowTrie(c, Header(Len(q) + Len(t), shift, root, tail)),
                   N, top, tail, q \o t)
<1> DEFINE m == Len(q) + Len(t)
           v == Header(m, shift, root, tail)
           n == Len(N[0])
<1>1. v.count = m /\ v.shift = shift /\ v.root = root /\ v.tail = tail
  BY HeaderIs
<1> HIDE DEF v
<1>2. WIDTH \in Nat /\ WIDTH \in Nat \ {0} /\ 0 < WIDTH
  BY WidthIs
<1>3. TrieIn(c, N, top, q) /\ Len(q) = n * WIDTH
  BY DEF Parts
<1>4. n \in Nat
  <2>1. top \in Nat /\ Levels(N, top, q)
    BY <1>3 DEF TrieIn, Levels
  <2>2. 0 \in 0..top
    BY <2>1
  <2> QED  BY <2>1, <2>2 DEF Levels
<1>5. v.count \div WIDTH = n + 1
  <2> DEFINE k == n + 1
  <2>1. m \in Nat /\ m = WIDTH * k + 0 /\ k \in Nat
    <3>1. \A a, b \in Nat : a * b \in Nat /\ b * (a + 1) = a * b + b
      OBVIOUS
    <3>2. n * WIDTH \in Nat /\ WIDTH * (n + 1) = n * WIDTH + WIDTH
      BY <1>2, <1>4, <3>1
    <3> QED  BY <1>3, <1>4, <3>2
  <2> HIDE DEF m, k
  <2>2. m \div WIDTH = k
    BY <1>2, <2>1, DivUnique
  <2> QED  BY <1>1, <2>2 DEF k
<1>6. CASE q = <<>>
  <2>1. root = 0
    BY <1>6 DEF Parts
  <2>2. GrowTrie(c, v) = [ctx |-> c, at |-> tail, shift |-> 0]
    BY <1>1, <2>1 DEF GrowTrie
  <2>3. TrieGrows(c, [ctx |-> c, at |-> tail, shift |-> 0], N, top, tail, q \o t)
    BY <1>6, FirstLeaf
  <2> QED  BY <2>2, <2>3 DEF v
<1>7. CASE q # <<>>
  <2>1. root # 0
    <3>1. root = Block(N, top, 0) /\ Len(N[top]) = 1
      BY <1>7 DEF Parts
    <3>2. top \in 0..top
      BY <1>3 DEF TrieIn, Levels
    <3>3. 0 \in Places(N[top])
      BY <3>1 DEF Places
    <3>4. root \in InUse(c.alloc)
      BY <1>3, <3>1, <3>2, <3>3 DEF TrieIn
    <3> QED  BY <3>4, NoBlockInUse DEF NoBlock
  <2>2. CASE n + 1 > Power[shift]
    <3> DEFINE w == newPath(c, shift, tail)
    <3>1. GrowTrie(c, v) = Rooted(AllocPart(w.ctx, Node(<<root, w.at>>)), shift + BITS)
      BY <1>1, <1>5, <2>1, <2>2 DEF GrowTrie, Then
    <3> HIDE DEF w
    <3>2. TrieGrows(c, Rooted(AllocPart(w.ctx, Node(<<root, w.at>>)), shift + BITS),
                    N, top, tail, q \o t)
      BY <1>7, <2>2, NextRoot DEF w
    <3> QED  BY <3>1, <3>2 DEF v
  <2>3. CASE ~(n + 1 > Power[shift])
    <3>1. GrowTrie(c, v) = Rooted(pushLeaf(c, root, shift, m, tail), shift)
      BY <1>1, <1>5, <2>1, <2>3 DEF GrowTrie
    <3>2. n + 1 <= Power[shift]
      <4>1. shift = BITS * top /\ top \in Nat
        BY <1>3, <1>7 DEF Parts, TrieIn, Levels
      <4>2. Power[shift] \in Nat
        BY <4>1, LevelPower
      <4> QED  BY <1>4, <2>3, <4>2
    <3>3. TrieGrows(c, Rooted(pushLeaf(c, root, shift, m, tail), shift), N, top, tail, q \o t)
      BY <1>7, <3>2, NextLeaf
    <3> QED  BY <3>1, <3>3 DEF v
  <2> QED  BY <2>2, <2>3
<1> QED  BY <1>6, <1>7

-----------------------------------------------------------------------------
\* One element appended to a sequence.
LEMMA SingleIs ==
  ASSUME NEW T, NEW x \in T
  PROVE  <<x>> \in Seq(T) /\ Len(<<x>>) = 1 /\ <<x>> # <<>> /\ VectorBytes(Leaf(<<x>>)) \in Nat
<1>1. <<x>> \in Seq(T) /\ Len(<<x>>) = 1 /\ <<x>> # <<>>
  OBVIOUS
<1> QED  BY <1>1, LeafBytes

IsAppend(T, q, t, x) ==
  /\ Append(q \o t, x) = q \o Append(t, x)
  /\ Append(t, x) \in Seq(T) /\ Len(Append(t, x)) = Len(t) + 1

\* What appending to the tail gives.
LEMMA AppendedIs ==
  ASSUME NEW T, NEW q \in Seq(T), NEW t \in Seq(T), NEW x \in T
  PROVE  IsAppend(T, q, t, x)
<1> DEFINE s == q \o t
           u == Append(t, x)
           e == Append(s, x)
<1>1. IsJoin(T, q, t, s)
  BY JoinIs
<1>2. u \in Seq(T) /\ Len(u) = Len(t) + 1 /\ u[Len(t) + 1] = x
      /\ \A j \in 1..Len(t) : u[j] = t[j]
  OBVIOUS
<1> HIDE DEF s, u
<1>3. s \in Seq(T) /\ Len(s) = Len(q) + Len(t) /\ Len(q) \in Nat /\ Len(t) \in Nat
  BY <1>1 DEF IsJoin
<1>4. e \in Seq(T) /\ Len(e) = Len(s) + 1 /\ e[Len(s) + 1] = x
      /\ \A j \in 1..Len(s) : e[j] = s[j]
  BY <1>3
<1> HIDE DEF e
<1>5. ASSUME NEW j \in 1..Len(q) PROVE e[j] = q[j]
  <2>1. j \in 1..Len(s)
    BY <1>3
  <2> QED  BY <1>1, <1>4, <2>1 DEF IsJoin
<1>6. ASSUME NEW j \in 1..Len(u) PROVE e[Len(q) + j] = u[j]
  <2>1. CASE j = Len(t) + 1
    <3>1. Len(q) + j = Len(s) + 1
      BY <1>3, <2>1
    <3> QED  BY <1>2, <1>4, <2>1, <3>1
  <2>2. CASE j # Len(t) + 1
    <3>1. j \in 1..Len(t)
      BY <1>2, <1>3, <2>2
    <3>2. Len(q) + j \in 1..Len(s)
      BY <1>3, <3>1
    <3>3. s[Len(q) + j] = t[j]
      BY <1>1, <3>1 DEF IsJoin
    <3> QED  BY <1>2, <1>4, <3>1, <3>2, <3>3
  <2> QED  BY <2>1, <2>2
<1>7. IsJoin(T, q, u, e)
  BY <1>2, <1>3, <1>4, <1>5, <1>6 DEF IsJoin
<1>8. e = q \o u
  BY <1>2, <1>7, JoinsEqual
<1> QED  BY <1>2, <1>8 DEF e, u, s, IsAppend

-----------------------------------------------------------------------------
\* What a push writes: the parts with a longer tail, or with the old tail in the trie and a
\* new one.  The blocks of A are new, and the header goes over the parts that are there.
PushWrote(T, c, t, N, top, tail, d, A, R, r, u, M, high, bits, node, last) ==
  /\ Takes(c, d, A, R) /\ R \subseteq PartBlocks(t, N, top, tail)
  /\ d.err = NoError =>
       /\ Parts(T, d, r, u, M, high, bits, node, last)
       /\ PartBlocks(u, M, high, last) = (PartBlocks(t, N, top, tail) \ R) \union A

\* The first element of a vector is its tail.
LEMMA FirstTail ==
  ASSUME NEW c, Context(c), NEW T, NEW q, NEW t, NEW N, NEW top, NEW shift, NEW root, NEW tail,
         Parts(T, c, q, t, N, top, shift, root, tail), t = <<>>,
         NEW x \in T, NEW g, Wrote(c, g, {}, Leaf(<<x>>))
  PROVE  PushWrote(T, c, t, N, top, tail, g.ctx, {g.at}, {}, q, <<x>>, N, top, BITS, 0, g.at)
<1> DEFINE u == <<x>>
<1>1. u \in Seq(T) /\ Len(u) = 1 /\ u # <<>> /\ WIDTH \in Nat /\ 2 <= WIDTH
  BY SingleIs, WidthIs
<1> HIDE DEF u
<1>2. Takes(c, g.ctx, {g.at}, {})
  BY DEF Wrote
<1>3. q = <<>> /\ root = 0
  BY DEF Parts
<1>4. Blocks(N, top) \subseteq InUse(c.alloc)
  BY TrieBlocks DEF BlocksInUse, Parts
<1>5. /\ PartBlocks(t, N, top, tail) = Blocks(N, top)
      /\ PartBlocks(u, N, top, g.at) = Blocks(N, top) \union {g.at}
  BY <1>1 DEF PartBlocks
<1>6. ASSUME g.ctx.err = NoError
      PROVE  Parts(T, g.ctx, q, u, N, top, BITS, 0, g.at)
  <2>1. g.at \in InUse(g.ctx.alloc) \ InUse(c.alloc) /\ g.ctx.heap[g.at] = Leaf(u)
    BY <1>6 DEF Wrote, u
  <2>2. Parts(T, g.ctx, q, t, N, top, shift, root, tail)
    BY <1>2, PartsStay DEF Takes
  <2>3. Len(u) <= WIDTH
    BY <1>1
  <2> QED  BY <1>1, <1>3, <1>4, <2>1, <2>2, <2>3 DEF Parts
<1> QED  BY <1>2, <1>5, <1>6 DEF PushWrote, u

\* The old tail is full: it has moved into the trie, and the element is the new tail.
LEMMA NextTail ==
  ASSUME NEW c, Context(c), NEW T, NEW q, NEW t, NEW N, NEW top, NEW shift, NEW root, NEW tail,
         Parts(T, c, q, t, N, top, shift, root, tail), Len(t) = WIDTH,
         NEW x \in T, NEW h, Wrote(c, h, {}, Leaf(<<x>>)),
         NEW g, NEW M, NEW high, NEW A, NEW R,
         TrieGrew(h.ctx, g, N, top, tail, q \o t, M, high, A, R)
  PROVE  PushWrote(T, c, t, N, top, tail, g.ctx, {h.at} \union A, R, q \o t, <<x>>,
                   M, high, g.shift, g.at, h.at)
<1> DEFINE u == <<x>>
           r == q \o t
           n == Len(N[0])
<1>1. u \in Seq(T) /\ Len(u) = 1 /\ u # <<>> /\ WIDTH \in Nat /\ 2 <= WIDTH
  BY SingleIs, WidthIs
<1>2. t # <<>> /\ t \in Seq(T) /\ q \in Seq(T) /\ n \in Nat /\ Len(q) = n * WIDTH
  <2>1. t \in Seq(T) /\ q \in Seq(T) /\ n \in Nat
    BY TailIs
  <2>2. Len(q) = n * WIDTH
    BY DEF Parts
  <2>3. t # <<>>
    BY <1>1
  <2> QED  BY <2>1, <2>2, <2>3
<1>3. r \in Seq(T) /\ Len(r) = Len(q) + WIDTH
  <2>1. IsJoin(T, q, t, r)
    BY <1>2, JoinIs
  <2> QED  BY <2>1 DEF IsJoin
<1>4. Len(r) = (n + 1) * WIDTH /\ r # <<>>
  <2>1. \A a, b \in Nat : a * b \in Nat /\ (a + 1) * b = a * b + b
    OBVIOUS
  <2>2. (n + 1) * WIDTH = n * WIDTH + WIDTH
    BY <1>1, <1>2, <2>1
  <2>3. Len(r) = n * WIDTH + WIDTH /\ n * WIDTH \in Nat
    BY <1>1, <1>2, <1>3, <2>1
  <2> HIDE DEF r, n
  <2>4. Len(r) # 0
    BY <1>1, <2>3
  <2> QED  BY <2>2, <2>3, <2>4
<1>5. tail \in InUse(c.alloc) \ Blocks(N, top) /\ Blocks(N, top) \subseteq InUse(c.alloc)
  <2>1. Blocks(N, top) \subseteq InUse(c.alloc)
    BY TrieBlocks DEF BlocksInUse, Parts
  <2> QED  BY <1>2, <2>1 DEF Parts
<1> HIDE DEF u, r, n
<1>6. Takes(c, h.ctx, {h.at}, {})
  BY DEF Wrote
<1>7. /\ Takes(h.ctx, g.ctx, A, R) /\ R \subseteq Blocks(N, top)
      /\ g.ctx.err = NoError =>
           /\ TrieIn(g.ctx, M, high, r)
           /\ Len(M[high]) = 1 /\ g.at = Block(M, high, 0) /\ g.shift = BITS * high
           /\ Blocks(M, high) = ((Blocks(N, top) \union {tail}) \ R) \union A
  BY DEF TrieGrew, r
<1>8. Takes(c, g.ctx, {h.at} \union A, R)
  <2>1. {} \cap R = {} /\ {} \union R = R
    OBVIOUS
  <2>2. Takes(c, g.ctx, {h.at} \union A, {} \union R)
    BY <1>6, <1>7, <2>1, TakesTwice
  <2> QED  BY <2>1, <2>2
<1>9. PartBlocks(t, N, top, tail) = Blocks(N, top) \union {tail}
      /\ PartBlocks(u, M, high, h.at) = Blocks(M, high) \union {h.at}
  BY <1>1, <1>2 DEF PartBlocks
<1>10. ASSUME g.ctx.err = NoError
       PROVE  Parts(T, g.ctx, r, u, M, high, g.shift, g.at, h.at)
  <2>1. h.ctx.err = NoError /\ A \cap InUse(h.ctx.alloc) = {} /\ Extends(h.ctx, g.ctx)
    BY <1>7, <1>10 DEF Takes
  <2>2. h.at \in InUse(h.ctx.alloc) \ InUse(c.alloc) /\ h.ctx.heap[h.at] = Leaf(u)
    BY <2>1 DEF Wrote, u
  <2>3. h.at \in InUse(g.ctx.alloc) /\ g.ctx.heap[h.at] = Leaf(u)
    BY <2>1, <2>2, ExtendsKeeps
  <2>4. h.at \notin Blocks(M, high)
    BY <1>5, <1>7, <1>10, <2>1, <2>2
  <2>5. Len(r) = Len(M[0]) * WIDTH
    <3>1. Levels(M, high, r) /\ high \in Nat
      BY <1>7, <1>10 DEF TrieIn, Levels
    <3>2. 0 \in 0..high
      BY <3>1
    <3>3. M[0] \in Seq(Nat) /\ Covers(Len(M[0]), Len(Under(M, r, 0))) /\ Under(M, r, 0) = r
      BY <3>1, <3>2 DEF Levels, Under
    <3> DEFINE k == Len(M[0])
    <3>4. k \in Nat /\ Covers(k, (n + 1) * WIDTH) /\ n + 1 \in Nat
      BY <1>2, <1>4, <3>3
    <3> HIDE DEF k
    <3>5. k = n + 1
      BY <3>4, FullLeaves
    <3> QED  BY <1>4, <3>5 DEF k
  <2>6. Len(u) <= WIDTH
    BY <1>1
  <2> QED  BY <1>1, <1>3, <1>4, <1>7, <1>10, <2>3, <2>4, <2>5, <2>6 DEF Parts
<1>11. ASSUME g.ctx.err = NoError
       PROVE  PartBlocks(u, M, high, h.at)
                = (PartBlocks(t, N, top, tail) \ R) \union ({h.at} \union A)
  BY <1>7, <1>9, <1>11
<1>12. R \subseteq PartBlocks(t, N, top, tail)
  BY <1>7, <1>9
<1> QED  BY <1>8, <1>10, <1>11, <1>12 DEF PushWrote, u, r

-----------------------------------------------------------------------------
\* The header of one element more.
Longer(v, y) == [v EXCEPT !.count = @ + 1, !.tail = y]

\* The header that vectorPush writes when the tail has room.
LEMMA HeaderPushed ==
  ASSUME NEW m \in Nat, NEW shift, NEW root, NEW tail,
         NEW v, v = Header(m, shift, root, tail), NEW y
  PROVE  Longer(v, y) = Header(m + 1, shift, root, y)
<1> DEFINE k == m + 1
           w == [v EXCEPT !.count = k]
<1>1. v.count = m
  BY HeaderIs
<1>2. [v EXCEPT !.count = @ + 1, !.tail = y] = [w EXCEPT !.tail = y]
  BY <1>1
<1> HIDE DEF k
<1>3. w = Header(k, shift, root, tail)
  BY DEF Header
<1> HIDE DEF w
<1>4. [w EXCEPT !.tail = y] = Header(k, shift, root, y)
  BY <1>3, HeaderIs
<1> QED  BY <1>2, <1>4 DEF k, Longer

\* What a push does, by what the header says.
PushDoes(c, at, x, v, m, l, got) ==
  /\ m = 0 =>
       LET g == AllocPart(c, Leaf(<<x>>))
       IN got = ReplacePart(g.ctx, at, Header(1, BITS, 0, g.at))
  /\ m # 0 /\ l < WIDTH =>
       LET g == ReplacePart(c, v.tail, Leaf(Append(c.heap[v.tail].slots, x)))
       IN got = ReplacePart(g.ctx, at, Longer(v, g.at))
  /\ m # 0 /\ ~(l < WIDTH) =>
       LET h == AllocPart(c, Leaf(<<x>>))
           g == GrowTrie(h.ctx, v)
       IN got = ReplacePart(g.ctx, at, Header(v.count + 1, g.shift, g.at, h.at))

\* vectorPush, by its three cases.
LEMMA PushIs ==
  ASSUME NEW c, NEW at, NEW x, NEW v, Load(c.heap, at) = v, v.kind = "Vector",
         NEW m \in Nat, v.count = m, NEW l \in Nat, m - tailOffset(m) = l
  PROVE  PushDoes(c, at, x, v, m, l, vectorPush(c, at, x))
<1>1. (m > 0 <=> m # 0) /\ v.count - tailOffset(v.count) = l
  OBVIOUS
<1> DEFINE room == v.kind = "Vector" /\ v.count > 0 /\ v.count - tailOffset(v.count) < WIDTH
<1>2. room <=> m # 0 /\ l < WIDTH
  BY <1>1
<1>3. vectorPush(c, at, x) =
        Then(PushTail(c, v, x, room), LAMBDA tail :
          IF v.count = 0 THEN ReplacePart(tail.ctx, at, Header(1, BITS, 0, tail.at))
          ELSE IF room
            THEN ReplacePart(tail.ctx, at, [v EXCEPT !.count = @ + 1, !.tail = tail.at])
          ELSE Then(GrowTrie(tail.ctx, v), LAMBDA trie :
                 ReplacePart(trie.ctx, at, Header(v.count + 1, trie.shift, trie.at, tail.at))))
  BY DEF vectorPush
<1> HIDE DEF room
<1> DEFINE h == AllocPart(c, Leaf(<<x>>))
           e == ReplacePart(c, v.tail, Leaf(Append(c.heap[v.tail].slots, x)))
           got == vectorPush(c, at, x)
<1>4. PushTail(c, v, x, room) = IF room THEN e ELSE h
  BY DEF PushTail
<1> HIDE DEF h, e, got
<1>5. got = Then(IF room THEN e ELSE h, LAMBDA tail :
          IF v.count = 0 THEN ReplacePart(tail.ctx, at, Header(1, BITS, 0, tail.at))
          ELSE IF room
            THEN ReplacePart(tail.ctx, at, [v EXCEPT !.count = @ + 1, !.tail = tail.at])
          ELSE Then(GrowTrie(tail.ctx, v), LAMBDA trie :
                 ReplacePart(trie.ctx, at, Header(v.count + 1, trie.shift, trie.at, tail.at))))
  BY <1>3, <1>4 DEF got
<1>6. m = 0 => got = ReplacePart(h.ctx, at, Header(1, BITS, 0, h.at))
  BY <1>2, <1>5 DEF Then
<1>7. m # 0 /\ l < WIDTH => got = ReplacePart(e.ctx, at, Longer(v, e.at))
  BY <1>2, <1>5 DEF Then, Longer
<1> DEFINE g == GrowTrie(h.ctx, v)
<1>8. m # 0 /\ ~(l < WIDTH)
        => got = ReplacePart(g.ctx, at, Header(v.count + 1, g.shift, g.at, h.at))
  BY <1>2, <1>5 DEF Then
<1> QED  BY <1>6, <1>7, <1>8 DEF got, h, e, PushDoes

\* vectorPush appends the element.
THEOREM PushAppendsOne ==
  ASSUME NEW T, NEW c, Context(c), NEW at, NEW s, NEW B, VectorOf(T, c, at, s, B), NEW x \in T
  PROVE  Writes(T, c, B, vectorPush(c, at, x), Append(s, x))
<1>1. PICK q, t, N, top, shift, root, tail :
        /\ VectorIn(T, c, at, q, t, N, top, shift, root, tail)
        /\ s = q \o t
        /\ B = {at} \union PartBlocks(t, N, top, tail)
  BY DEF VectorOf
<1> DEFINE m == Len(q) + Len(t)
           v == Header(m, shift, root, tail)
           O == PartBlocks(t, N, top, tail)
           u == <<x>>
           got == vectorPush(c, at, x)
<1>2. /\ Parts(T, c, q, t, N, top, shift, root, tail)
      /\ at \in InUse(c.alloc) \ PartBlocks(t, N, top, tail)
      /\ c.heap[at] = v
  BY <1>1 DEF VectorIn
<1>3. Load(c.heap, at) = v /\ at \in Nat
  BY <1>2, Loaded
<1>4. /\ q \in Seq(T) /\ t \in Seq(T) /\ Len(N[0]) \in Nat
      /\ t = <<>> => q = <<>>
      /\ t # <<>> => 1 <= Len(t) /\ Len(t) <= WIDTH
      /\ tailOffset(m) = Len(q)
  BY <1>2, TailIs
<1>5. m \in Nat /\ Len(q) \in Nat /\ Len(t) \in Nat /\ WIDTH \in Nat /\ 2 <= WIDTH
  BY <1>4, WidthIs
<1>6. m = 0 <=> t = <<>>
  <2>1. t = <<>> => m = 0
    BY <1>4
  <2>2. t # <<>> => m # 0
    BY <1>4, <1>5
  <2> QED  BY <2>1, <2>2
<1>7. m - tailOffset(m) = Len(t)
  <2>1. \A a, b \in Nat : (a + b) - a = b
    OBVIOUS
  <2> QED  BY <1>4, <1>5, <2>1
<1>8. u \in Seq(T) /\ Len(u) = 1 /\ VectorBytes(Leaf(u)) \in Nat
  BY SingleIs
<1>9. /\ Append(s, x) = q \o Append(t, x) /\ Append(t, x) \in Seq(T)
      /\ Len(Append(t, x)) = Len(t) + 1 /\ Append(q \o t, x) = (q \o t) \o u
  <2>1. /\ Append(s, x) = q \o Append(t, x)
        /\ Append(t, x) \in Seq(T) /\ Len(Append(t, x)) = Len(t) + 1
    <3>1. IsAppend(T, q, t, x)
      BY <1>4, AppendedIs
    <3> QED  BY <1>1, <3>1 DEF IsAppend
  <2>2. Append(q \o t, x) = (q \o t) \o u
    <3> DEFINE r == q \o t
    <3>1. r \in Seq(T) /\ <<>> \in Seq(T)
      BY <1>4
    <3> HIDE DEF r
    <3>2. Append(r \o <<>>, x) = r \o Append(<<>>, x)
      <4>1. IsAppend(T, r, <<>>, x)
        BY <3>1, AppendedIs
      <4> QED  BY <4>1 DEF IsAppend
    <3>3. r \o <<>> = r /\ Append(<<>>, x) = u
      BY <3>1
    <3>4. Append(r, x) = r \o u
      BY <3>2, <3>3
    <3> QED  BY <3>4 DEF r
  <2> QED  BY <2>1, <2>2
<1> HIDE DEF v, m
<1>10. /\ v.kind = "Vector" /\ v.count = m /\ v.shift = shift /\ v.root = root /\ v.tail = tail
       /\ \A y : Longer(v, y) = Header(m + 1, shift, root, y)
  <2>1. v.kind = "Vector" /\ v.count = m /\ v.shift = shift /\ v.root = root /\ v.tail = tail
    BY HeaderIs DEF v
  <2>2. v = Header(m, shift, root, tail)
    BY DEF v
  <2>3. ASSUME NEW y
        PROVE  Longer(v, y) = Header(m + 1, shift, root, y)
    BY <1>5, <2>2, HeaderPushed
  <2> QED  BY <2>1, <2>3
<1>11. PushDoes(c, at, x, v, m, Len(t), got)
  BY <1>3, <1>5, <1>7, <1>10, PushIs
<1> HIDE DEF got
<1>12. ASSUME NEW d, NEW A, NEW R, NEW r, NEW w, NEW M, NEW high, NEW bits, NEW node, NEW last,
              PushWrote(T, c, t, N, top, tail, d, A, R, r, w, M, high, bits, node, last),
              NEW y, y = Header(m + 1, bits, node, last), Len(r) + Len(w) = m + 1,
              got = ReplacePart(d, at, y), Append(s, x) = r \o w
       PROVE  Writes(T, c, B, got, Append(s, x))
  <2>1. /\ Takes(c, d, A, R) /\ R \subseteq O
        /\ d.err = NoError =>
             /\ Parts(T, d, r, w, M, high, bits, node, last)
             /\ PartBlocks(w, M, high, last) = (O \ R) \union A
    BY <1>12 DEF PushWrote
  <2>2. Wrote(d, got, {at}, Header(Len(r) + Len(w), bits, node, last))
    <3>1. Context(d)
      BY <2>1 DEF Takes, Extends
    <3>2. VectorBytes(y) \in Nat
      BY <1>12, HeaderBytes
    <3>3. Wrote(d, ReplacePart(d, at, y), {at}, y)
      BY <1>3, <3>1, <3>2, PartReplaced
    <3> QED  BY <1>12, <3>3
  <2>3. Writes(T, c, {at} \union O, got, r \o w)
    <3>1. VectorIn(T, c, at, q, t, N, top, shift, root, tail)
      BY <1>1
    <3>2. R \subseteq PartBlocks(t, N, top, tail) /\ Takes(c, d, A, R)
      BY <2>1
    <3>3. d.err = NoError =>
            /\ Parts(T, d, r, w, M, high, bits, node, last)
            /\ PartBlocks(w, M, high, last) = (PartBlocks(t, N, top, tail) \ R) \union A
      BY <2>1
    <3> QED  BY <2>2, <3>1, <3>2, <3>3, Rewritten
  <2> QED  BY <1>1, <1>12, <2>3
<1>13. Writes(T, c, B, got, Append(s, x))
  <2>1. CASE t = <<>>
    <3> DEFINE g == AllocPart(c, Leaf(u))
    <3>1. got = ReplacePart(g.ctx, at, Header(1, BITS, 0, g.at))
      BY <1>6, <1>11, <2>1 DEF PushDoes
    <3>2. Wrote(c, g, {}, Leaf(u))
      BY <1>8, PartAllocated
    <3> HIDE DEF g
    <3>3. PushWrote(T, c, t, N, top, tail, g.ctx, {g.at}, {}, q, u, N, top, BITS, 0, g.at)
      BY <1>2, <2>1, <3>2, FirstTail
    <3>4. m = 0 /\ m + 1 = 1 /\ Len(q) + Len(u) = m + 1
      BY <1>4, <1>5, <1>6, <1>8, <2>1
    <3>5. Append(s, x) = q \o u
      <4>1. s = q
        BY <1>1, <1>4, <2>1
      <4>2. Append(q, x) = q \o <<x>>
        BY <1>4
      <4> QED  BY <4>1, <4>2
    <3> QED  BY <1>12, <3>1, <3>3, <3>4, <3>5
  <2>2. CASE t # <<>> /\ Len(t) < WIDTH
    <3> DEFINE w == Append(t, x)
               g == ReplacePart(c, tail, Leaf(w))
    <3>1. m > 0 /\ m # 0
      BY <1>5, <1>6, <2>2
    <3>2. tail \in InUse(c.alloc) /\ c.heap[tail] = Leaf(t) /\ tail \in Nat
      <4>1. tail \in InUse(c.alloc) /\ c.heap[tail] = Leaf(t)
        BY <1>2, <2>2 DEF Parts
      <4> QED  BY <4>1, Loaded
    <3>3. c.heap[v.tail].slots = t
      <4>1. Leaf(t).slots = t
        BY DEF Leaf
      <4> QED  BY <1>10, <3>2, <4>1
    <3>4. got = ReplacePart(g.ctx, at, Header(m + 1, shift, root, g.at))
      <4>1. got = ReplacePart(g.ctx, at, Longer(v, g.at))
        BY <1>10, <1>11, <2>2, <3>1, <3>3 DEF PushDoes
      <4> HIDE DEF g
      <4> QED  BY <1>10, <4>1
    <3> HIDE DEF w
    <3>5. w \in Seq(T) /\ Len(w) = Len(t) + 1 /\ Append(s, x) = q \o w
      BY <1>9 DEF w
    <3>6. w # <<>> /\ Len(w) <= WIDTH /\ Len(q) + Len(w) = m + 1
      BY <1>5, <2>2, <3>5 DEF m
    <3>7. Wrote(c, g, {tail}, Leaf(w))
      <4>1. VectorBytes(Leaf(w)) \in Nat
        BY <3>5, LeafBytes
      <4> QED  BY <3>2, <4>1, PartReplaced
    <3> HIDE DEF g
    <3>8. TailWritten(T, c, q, t, N, top, shift, root, tail, g, w)
      BY <1>2, <2>2, <3>5, <3>6, <3>7, TailReplaced
    <3>9. PushWrote(T, c, t, N, top, tail, g.ctx, {g.at}, {tail}, q, w, N, top, shift, root, g.at)
      BY <3>8 DEF TailWritten, PushWrote
    <3> QED  BY <1>12, <3>4, <3>5, <3>6, <3>9
  <2>3. CASE t # <<>> /\ ~(Len(t) < WIDTH)
    <3> DEFINE r == q \o t
               h == AllocPart(c, Leaf(u))
               g == GrowTrie(h.ctx, v)
    <3>1. m > 0 /\ m # 0 /\ Len(t) = WIDTH
      BY <1>4, <1>5, <1>6, <2>3
    <3>2. got = ReplacePart(g.ctx, at, Header(m + 1, g.shift, g.at, h.at))
      BY <1>10, <1>11, <2>3, <3>1 DEF PushDoes
    <3>3. Wrote(c, h, {}, Leaf(u))
      BY <1>8, PartAllocated
    <3> HIDE DEF h
    <3>4. Context(h.ctx) /\ Extends(c, h.ctx)
      BY <3>3 DEF Wrote, Takes, Extends
    <3>5. Parts(T, h.ctx, q, t, N, top, shift, root, tail)
      BY <1>2, <3>4, PartsStay
    <3>6. TrieGrows(h.ctx, g, N, top, tail, r)
      BY <3>1, <3>4, <3>5, GrowTrieIs DEF v, m
    <3> HIDE DEF g
    <3>7. PICK M, high, A, R : TrieGrew(h.ctx, g, N, top, tail, r, M, high, A, R)
      BY <3>6 DEF TrieGrows
    <3>8. PushWrote(T, c, t, N, top, tail, g.ctx, {h.at} \union A, R, r, u, M, high,
                    g.shift, g.at, h.at)
      BY <1>2, <3>1, <3>3, <3>7, NextTail
    <3>9. Len(r) + Len(u) = m + 1
      BY <1>4, <1>8 DEF m
    <3>10. Append(s, x) = r \o u
      BY <1>1, <1>9
    <3> QED  BY <1>12, <3>2, <3>8, <3>9, <3>10
  <2> QED  BY <2>1, <2>2, <2>3
<1> QED  BY <1>13 DEF got

-----------------------------------------------------------------------------
\* The header of a vector that is there.
HeaderFound(c, at, count, shift, root, tail) ==
  LET v == Load(c.heap, at)
  IN /\ at # EMPTY_VECTOR /\ at \in Nat /\ at \in InUse(c.alloc) /\ c.heap[at] = v
     /\ v.kind = "Vector" /\ v.count = count /\ v.shift = shift
     /\ v.root = root /\ v.tail = tail

\* The header of a vector is found.
LEMMA HeaderLoaded ==
  ASSUME NEW c, Context(c), NEW T, NEW at, NEW q, NEW t, NEW N, NEW top,
         NEW shift, NEW root, NEW tail, VectorIn(T, c, at, q, t, N, top, shift, root, tail)
  PROVE  HeaderFound(c, at, Len(q) + Len(t), shift, root, tail)
<1> DEFINE m == Len(q) + Len(t)
           v == Header(m, shift, root, tail)
<1>1. at \in InUse(c.alloc) /\ c.heap[at] = v
  BY DEF VectorIn
<1> HIDE DEF m, v
<1>2. Load(c.heap, at) = v /\ at \in Nat /\ at # EMPTY_VECTOR
  BY <1>1, Loaded DEF NoBlock, EMPTY_VECTOR
<1>3. v.kind = "Vector" /\ v.count = m /\ v.shift = shift /\ v.root = root /\ v.tail = tail
  BY HeaderIs DEF v
<1> QED  BY <1>1, <1>2, <1>3 DEF HeaderFound, m

\* A place of a leaf reads as its element.
LEMMA SlotRead ==
  ASSUME NEW T, NEW g \in Seq(T), NEW f \in Nat, f < Len(g)
  PROVE  SlotIn(Leaf(g), f + 1) = g[f + 1]
<1>1. Leaf(g).kind = "Leaf" /\ Leaf(g).slots = g
  BY DEF Leaf
<1>2. f + 1 \in DOMAIN g
  OBVIOUS
<1> QED  BY <1>1, <1>2 DEF SlotIn

\* vectorGet gives the element of an index.
LEMMA GetIs ==
  ASSUME NEW c, Context(c), NEW T, NEW at, NEW q, NEW t, NEW N, NEW top,
         NEW shift, NEW root, NEW tail, VectorIn(T, c, at, q, t, N, top, shift, root, tail),
         NEW i \in Nat, i < Len(q) + Len(t), NEW s, IsJoin(T, q, t, s)
  PROVE  vectorGet(c.heap, at, i) = s[i + 1]
<1> DEFINE m == Len(q) + Len(t)
           v == Load(c.heap, at)
           f == fragment(i, 0)
<1>1. Parts(T, c, q, t, N, top, shift, root, tail)
  BY DEF VectorIn
<1>2. /\ q \in Seq(T) /\ t \in Seq(T) /\ Len(N[0]) \in Nat
      /\ t # <<>> => 1 <= Len(t) /\ Len(t) <= WIDTH
      /\ t = <<>> => q = <<>>
      /\ tailOffset(m) = Len(q)
  BY <1>1, TailIs
<1>3. Len(q) \in Nat /\ Len(t) \in Nat /\ m \in Nat /\ Len(q) = Len(N[0]) * WIDTH
      /\ WIDTH \in Nat /\ 2 <= WIDTH
  BY <1>1, <1>2, WidthIs DEF Parts
<1>4. HeaderFound(c, at, m, shift, root, tail)
  BY HeaderLoaded
<1> HIDE DEF m
<1>5. /\ at # EMPTY_VECTOR
      /\ v.kind = "Vector" /\ v.count = m /\ v.shift = shift /\ v.root = root /\ v.tail = tail
  BY <1>4 DEF HeaderFound
<1> HIDE DEF v
<1>6. vectorGet(c.heap, at, i) = SlotIn(Load(c.heap, leafFor(c.heap, v, i)), f + 1)
  <2>1. ~(i >= v.count)
    BY <1>3, <1>5 DEF m
  <2> QED  BY <1>5, <2>1 DEF vectorGet, Then, v
<1>7. CASE i < Len(q)
  <2> DEFINE p == Pos(i, 0)
             leaf == Block(N, 0, p)
             g == Group(q, p + 1)
  <2>1. LeafOnPath(T, c, q, N, top, shift, root, i, p, leaf, g)
    BY <1>1, <1>7, LeafFound
  <2> HIDE DEF p, leaf, g, f
  <2>2. /\ p \in Nat /\ p < Len(N[0]) /\ p = i \div WIDTH /\ shift \div BITS = top
        /\ leaf \in InUse(c.alloc) /\ c.heap[leaf] = Leaf(g)
        /\ Path(c.heap, root, top, i)[0] = leaf
        /\ g = Group(q, p + 1) /\ g \in Seq(T) /\ Len(g) = WIDTH
        /\ f = i % WIDTH /\ f \in Nat /\ f < Len(g)
    BY <2>1 DEF LeafOnPath, f
  <2>3. leafFor(c.heap, v, i) = leaf
    <3>1. ~(i >= tailOffset(v.count))
      BY <1>2, <1>3, <1>5, <1>7
    <3> QED  BY <1>5, <2>2, <3>1 DEF leafFor
  <2>4. Load(c.heap, leaf) = Leaf(g)
    BY <2>2, Loaded
  <2>5. vectorGet(c.heap, at, i) = g[f + 1]
    BY <1>6, <2>2, <2>3, <2>4, SlotRead
  <2> DEFINE b == p * WIDTH
  <2>6. b \in Nat /\ i = b + f
    <3>1. WIDTH \in Nat \ {0}
      BY <1>3
    <3>2. i = WIDTH * (i \div WIDTH) + (i % WIDTH)
      BY <3>1, DivIs
    <3>3. \A x, w \in Nat : x * w \in Nat /\ w * x = x * w
      OBVIOUS
    <3> QED  BY <1>3, <2>2, <3>2, <3>3
  <2>7. b < Len(q)
    <3> HIDE DEF b
    <3> QED  BY <1>3, <1>7, <2>2, <2>6
  <2>8. g[f + 1] = q[i + 1]
    <3>1. \A j \in 1..Len(g) : g[j] = q[b + j]
      BY <1>2, <2>2, <2>7, GroupIs
    <3>2. f + 1 \in 1..Len(g)
      BY <1>3, <2>2
    <3> HIDE DEF b
    <3>3. b + (f + 1) = i + 1
      BY <2>2, <2>6
    <3> QED  BY <3>1, <3>2, <3>3
  <2>9. s[i + 1] = q[i + 1]
    <3>1. i + 1 \in 1..Len(q)
      BY <1>3, <1>7
    <3> QED  BY <3>1 DEF IsJoin
  <2> QED  BY <2>5, <2>8, <2>9
<1>8. CASE ~(i < Len(q))
  <2> DEFINE l == i - Len(q)
  <2>1. l \in Nat /\ i = Len(q) + l /\ l < Len(t) /\ t # <<>>
    BY <1>2, <1>3, <1>8
  <2> HIDE DEF l
  <2>2. l < WIDTH
    BY <1>2, <1>3, <2>1
  <2>3. leafFor(c.heap, v, i) = tail
    <3>1. i >= tailOffset(v.count)
      BY <1>2, <1>3, <1>5, <1>8
    <3> QED  BY <1>5, <3>1 DEF leafFor
  <2>4. tail \in InUse(c.alloc) /\ c.heap[tail] = Leaf(t)
    BY <1>1, <2>1 DEF Parts
  <2>5. Load(c.heap, tail) = Leaf(t)
    BY <2>4, Loaded
  <2>6. f = l
    <3> DEFINE n == Len(N[0])
    <3>1. n \in Nat /\ WIDTH \in Nat \ {0} /\ Len(q) = WIDTH * n
      <4>1. \A x, w \in Nat : w * x = x * w
        OBVIOUS
      <4> QED  BY <1>2, <1>3, <4>1
    <3> HIDE DEF n
    <3>2. i = WIDTH * n + l
      BY <2>1, <3>1
    <3>3. l \in Nat /\ l < WIDTH
      BY <2>1, <2>2
    <3> HIDE DEF f
    <3>4. i % WIDTH = l
      BY <3>1, <3>2, <3>3, DivUnique
    <3>5. f = i % WIDTH
      BY PosIs DEF f
    <3> QED  BY <3>4, <3>5
  <2> HIDE DEF f
  <2>7. vectorGet(c.heap, at, i) = t[l + 1]
    <3>1. SlotIn(Leaf(t), l + 1) = t[l + 1]
      BY <1>2, <2>1, SlotRead
    <3> QED  BY <1>6, <2>3, <2>5, <2>6, <3>1
  <2>8. l + 1 \in 1..Len(t) /\ i + 1 = Len(q) + (l + 1)
    <3> DEFINE a == Len(q)
               b == Len(t)
    <3>1. a \in Nat /\ b \in Nat /\ l \in Nat /\ i = a + l /\ l < b
      BY <1>3, <2>1
    <3> HIDE DEF a, b
    <3>2. l + 1 \in 1..b /\ i + 1 = a + (l + 1)
      BY <3>1
    <3> QED  BY <3>2 DEF a, b
  <2>9. s[Len(q) + (l + 1)] = t[l + 1]
    BY <2>8 DEF IsJoin
  <2> QED  BY <2>7, <2>8, <2>9
<1> QED  BY <1>7, <1>8

\* A vector reads as its elements.
THEOREM VectorReads ==
  ASSUME NEW T, NEW c, Context(c), NEW at, NEW s, NEW B, VectorOf(T, c, at, s, B)
  PROVE  vectorSlots(c.heap, at) = s
<1>1. PICK q, t, N, top, shift, root, tail :
        /\ VectorIn(T, c, at, q, t, N, top, shift, root, tail)
        /\ s = q \o t
        /\ B = {at} \union PartBlocks(t, N, top, tail)
  BY DEF VectorOf
<1> DEFINE m == Len(q) + Len(t)
           r == [i \in 1..m |-> vectorGet(c.heap, at, i - 1)]
<1>2. q \in Seq(T) /\ t \in Seq(T)
  BY <1>1, TailIs DEF VectorIn
<1>3. IsJoin(T, q, t, s)
  BY <1>1, <1>2, JoinIs
<1>4. HeaderFound(c, at, m, shift, root, tail)
  BY <1>1, HeaderLoaded
<1>5. vectorSlots(c.heap, at) = r
  <2> HIDE DEF m
  <2>1. vectorLength(c.heap, at) = m
    BY <1>4 DEF HeaderFound, vectorLength
  <2>2. ~(at # EMPTY_VECTOR /\ Load(c.heap, at).kind # "Vector")
    BY <1>4 DEF HeaderFound
  <2> QED  BY <2>1, <2>2 DEF vectorSlots
<1>6. s \in Seq(T) /\ Len(s) = m /\ m \in Nat
  BY <1>2, <1>3 DEF IsJoin
<1>7. ASSUME NEW k \in 1..m PROVE r[k] = s[k]
  <2> DEFINE i == k - 1
  <2>1. i \in Nat /\ i < m /\ i + 1 = k
    BY <1>6
  <2> HIDE DEF i
  <2>2. vectorGet(c.heap, at, i) = s[i + 1]
    <3>1. VectorIn(T, c, at, q, t, N, top, shift, root, tail)
      BY <1>1
    <3> HIDE DEF r
    <3> QED  BY <1>3, <2>1, <3>1, GetIs
  <2>3. r[k] = vectorGet(c.heap, at, i)
    BY DEF i
  <2> QED  BY <2>1, <2>2, <2>3
<1>8. s = [k \in 1..m |-> s[k]]
  BY <1>6
<1>9. r = s
  <2>1. r = [k \in 1..m |-> r[k]]
    OBVIOUS
  <2> HIDE DEF r
  <2> QED  BY <1>7, <1>8, <2>1
<1> QED  BY <1>5, <1>9

-----------------------------------------------------------------------------
\* FlattenSeq, one sequence after the other.
FlatStep(ss, F, k) == IF k = 1 THEN ss[k] ELSE F[k - 1] \o ss[k]

IsFlat(ss, n, F) == F = [k \in 1..n |-> FlatStep(ss, F, k)]

\* It exists, for every number of sequences.
LEMMA FlatUpTo ==
  ASSUME NEW ss, NEW n \in Nat, 1 <= n
  PROVE  \E F : IsFlat(ss, n, F)
<1> DEFINE Step(F, k) == FlatStep(ss, F, k)
           S == {m \in Nat : \E F : F = [k \in 1..(m + 1) |-> Step(F, k)]}
<1>1. \A F, G, k : (k = 1 \/ F[k - 1] = G[k - 1]) => Step(F, k) = Step(G, k)
  BY DEF FlatStep
<1> HIDE DEF Step
<1>2. 0 \in S
  <2> DEFINE F == [k \in 1..1 |-> Step(<<>>, 1)]
  <2>1. F = [k \in 1..1 |-> Step(F, k)]
    <3>1. Step(<<>>, 1) = Step(F, 1)
      BY <1>1
    <3> HIDE DEF Step
    <3> QED  BY <3>1
  <2> HIDE DEF F
  <2>2. \E H : H = [k \in 1..1 |-> Step(H, k)]
    BY <2>1, Zenon
  <2>3. 0 + 1 = 1
    OBVIOUS
  <2> QED  BY <2>2, <2>3
<1>3. ASSUME NEW m \in Nat, m \in S PROVE m + 1 \in S
  <2> DEFINE l == m + 1
  <2>1. PICK F : F = [k \in 1..l |-> Step(F, k)]
    BY <1>3
  <2> DEFINE G == [k \in 1..(l + 1) |-> IF k = l + 1 THEN Step(F, k) ELSE F[k]]
  <2>2. ASSUME NEW k \in 1..(l + 1) PROVE G[k] = Step(G, k)
    <3>1. k = 1 \/ (k - 1 \in 1..l /\ k - 1 \in 1..(l + 1) /\ k - 1 # l + 1)
      OBVIOUS
    <3>2. k = 1 \/ G[k - 1] = F[k - 1]
      BY <3>1
    <3>3. Step(F, k) = Step(G, k)
      BY <1>1, <3>2
    <3>4. k # l + 1 => k \in 1..l
      OBVIOUS
    <3>5. k # l + 1 => F[k] = Step(F, k)
      BY <2>1, <3>4
    <3>6. G[k] = IF k = l + 1 THEN Step(F, k) ELSE F[k]
      OBVIOUS
    <3> QED  BY <3>3, <3>5, <3>6
  <2>3. G = [k \in 1..(l + 1) |-> Step(G, k)]
    <3>1. G = [k \in 1..(l + 1) |-> G[k]]
      OBVIOUS
    <3> HIDE DEF G, l
    <3> QED  BY <2>2, <3>1
  <2> HIDE DEF G
  <2>4. \E H : H = [k \in 1..(l + 1) |-> Step(H, k)]
    BY <2>3, Zenon
  <2> QED  BY <2>4
<1>4. n - 1 \in S
  <2> HIDE DEF S
  <2>1. n - 1 \in Nat
    OBVIOUS
  <2> QED  BY <1>2, <1>3, <2>1, SetInduction
<1>5. (n - 1) + 1 = n
  OBVIOUS
<1> QED  BY <1>4, <1>5 DEF Step, IsFlat

\* What it has joined so far.
Flat(ss, n) == CHOOSE F : IsFlat(ss, n, F)

FlatSteps(ss, n, F) ==
  /\ F[1] = ss[1]
  /\ \A k \in 1..n : k # 1 => F[k] = F[k - 1] \o ss[k]
  /\ FlattenSeq(ss) = F[n]

\* FlattenSeq, one sequence after the other.
LEMMA FlatIs ==
  ASSUME NEW S, NEW ss \in Seq(S), NEW n, n = Len(ss), 1 <= n
  PROVE  FlatSteps(ss, n, Flat(ss, n))
<1> DEFINE F == Flat(ss, n)
<1>1. n \in Nat /\ n # 0 /\ 1 \in 1..n
  OBVIOUS
<1>2. IsFlat(ss, n, F)
  BY <1>1, FlatUpTo DEF Flat
<1>3. FlattenSeq(ss) = F[n]
  BY <1>1 DEF FlattenSeq, Flat, IsFlat, FlatStep
<1> HIDE DEF F
<1>4. F[1] = ss[1]
  BY <1>1, <1>2 DEF IsFlat, FlatStep
<1>5. ASSUME NEW k \in 1..n, k # 1 PROVE F[k] = F[k - 1] \o ss[k]
  BY <1>2, <1>5 DEF IsFlat, FlatStep
<1> QED  BY <1>3, <1>4, <1>5 DEF FlatSteps, F

-----------------------------------------------------------------------------
\* A sequence of the elements of a set, each once.
Enumerates(S, x, A) == x \in Seq(S) /\ IsInjective(x) /\ ToSet(x) = A

\* Two of them, of sets that have nothing in common.
LEMMA ListsJoined ==
  ASSUME NEW S, NEW x, NEW y, NEW A, NEW B, Enumerates(S, x, A), Enumerates(S, y, B), A \cap B = {}
  PROVE  Enumerates(S, x \o y, A \union B)
<1> DEFINE z == x \o y
           m == Len(x)
           n == Len(y)
<1>1. x \in Seq(S) /\ y \in Seq(S)
  BY DEF Enumerates
<1>2. IsJoin(S, x, y, z)
  BY <1>1, JoinIs
<1> HIDE DEF z
<1>3. m \in Nat /\ n \in Nat /\ DOMAIN x = 1..m /\ DOMAIN y = 1..n
  BY <1>1
<1> HIDE DEF m, n
<1>4. /\ z \in Seq(S) /\ Len(z) = m + n
      /\ \A j \in 1..m : z[j] = x[j]
      /\ \A j \in 1..n : z[m + j] = y[j]
  BY <1>2 DEF IsJoin, m, n
<1>5. DOMAIN z = 1..(m + n)
  BY <1>4
<1>6. ASSUME NEW j \in 1..(m + n)
      PROVE  \/ j \in 1..m /\ z[j] = x[j] /\ z[j] \in A
             \/ \E k \in 1..n : j = m + k /\ z[j] = y[k] /\ z[j] \in B
  <2>1. CASE j <= m
    <3>1. j \in 1..m
      BY <1>3, <2>1
    <3> QED  BY <1>3, <1>4, <3>1 DEF Enumerates, ToSet
  <2>2. CASE j > m
    <3> DEFINE k == j - m
    <3>1. k \in 1..n /\ j = m + k
      BY <1>3, <2>2
    <3> HIDE DEF k
    <3>2. z[j] = y[k] /\ z[j] \in B
      BY <1>3, <1>4, <3>1 DEF Enumerates, ToSet
    <3> QED  BY <3>1, <3>2
  <2> QED  BY <1>3, <2>1, <2>2
<1>7. IsInjective(z)
  <2> SUFFICES ASSUME NEW a \in 1..(m + n), NEW b \in 1..(m + n), z[a] = z[b] PROVE a = b
    BY <1>5 DEF IsInjective
  <2>1. \A i, j \in 1..m : x[i] = x[j] => i = j
    BY <1>3 DEF Enumerates, IsInjective
  <2>2. \A i, j \in 1..n : y[i] = y[j] => i = j
    BY <1>3 DEF Enumerates, IsInjective
  <2> QED  BY <1>6, <2>1, <2>2
<1>8. ToSet(z) = A \union B
  <2>1. ToSet(z) \subseteq A \union B
    BY <1>5, <1>6 DEF ToSet
  <2>2. ASSUME NEW a \in A PROVE a \in ToSet(z)
    <3>1. PICK j \in 1..m : a = x[j]
      BY <1>3 DEF Enumerates, ToSet
    <3>2. j \in 1..(m + n)
      BY <1>3
    <3> QED  BY <1>4, <1>5, <3>1, <3>2 DEF ToSet
  <2>3. ASSUME NEW b \in B PROVE b \in ToSet(z)
    <3>1. PICK k \in 1..n : b = y[k]
      BY <1>3 DEF Enumerates, ToSet
    <3>2. m + k \in 1..(m + n)
      BY <1>3
    <3> QED  BY <1>4, <1>5, <3>1, <3>2 DEF ToSet
  <2> QED  BY <2>1, <2>2, <2>3
<1> QED  BY <1>4, <1>7, <1>8 DEF Enumerates, z

\* Sequences of different elements, flattened: they list the elements of all of them.
UpToLast(P, k) == UNION {P[j] : j \in 1..k}

\* Any number of them.
LEMMA ListsFlattened ==
  ASSUME NEW S, NEW Q, NEW ss \in Seq(Q), NEW n, n = Len(ss), 1 <= n, NEW P,
         \A k \in 1..n : Enumerates(S, ss[k], P[k]),
         \A j, k \in 1..n : j # k => P[j] \cap P[k] = {}
  PROVE  Enumerates(S, FlattenSeq(ss), UpToLast(P, n))
<1> DEFINE F == Flat(ss, n)
           R == {k \in Nat : k + 1 <= n => Enumerates(S, F[k + 1], UpToLast(P, k + 1))}
<1>1. FlatSteps(ss, n, F)
  BY FlatIs
<1> HIDE DEF F
<1>2. /\ F[1] = ss[1]
      /\ \A k \in 1..n : k # 1 => F[k] = F[k - 1] \o ss[k]
      /\ FlattenSeq(ss) = F[n]
  BY <1>1 DEF FlatSteps
<1>3. n \in Nat /\ 1 \in 1..n
  OBVIOUS
<1>4. 0 \in R
  <2>1. 0 + 1 = 1
    OBVIOUS
  <2>2. UpToLast(P, 1) = P[1]
    <3>1. 1..1 = {1}
      OBVIOUS
    <3> QED  BY <3>1 DEF UpToLast
  <2>3. Enumerates(S, F[1], UpToLast(P, 1))
    BY <1>2, <1>3, <2>2
  <2> QED  BY <2>1, <2>3
<1>5. ASSUME NEW k \in Nat, k \in R PROVE k + 1 \in R
  <2> SUFFICES ASSUME (k + 1) + 1 <= n PROVE Enumerates(S, F[(k + 1) + 1], UpToLast(P, (k + 1) + 1))
    OBVIOUS
  <2> DEFINE i == k + 1
             l == i + 1
  <2>1. /\ i \in Nat /\ i \in 1..n /\ l \in 1..n /\ l # 1 /\ l - 1 = i
        /\ 1..l = 1..i \union {l} /\ \A j \in 1..i : j \in 1..n /\ j # l
    BY <1>3
  <2>2. Enumerates(S, F[i], UpToLast(P, i))
    BY <1>3, <1>5, <2>1
  <2> HIDE DEF i, l
  <2>3. F[l] = F[i] \o ss[l]
    BY <1>2, <2>1
  <2>4. UpToLast(P, i) \cap P[l] = {}
    BY <2>1 DEF UpToLast
  <2>5. Enumerates(S, ss[l], P[l])
    BY <2>1
  <2>6. Enumerates(S, F[i] \o ss[l], UpToLast(P, i) \union P[l])
    BY <2>2, <2>4, <2>5, ListsJoined
  <2>7. UpToLast(P, l) = UpToLast(P, i) \union P[l]
    BY <2>1 DEF UpToLast
  <2>8. Enumerates(S, F[l], UpToLast(P, l))
    BY <2>3, <2>6, <2>7
  <2> QED  BY <2>8 DEF i, l
<1>6. n - 1 \in R
  <2> HIDE DEF R
  <2>1. n - 1 \in Nat
    BY <1>3
  <2> QED  BY <1>4, <1>5, <2>1, SetInduction
<1>7. (n - 1) + 1 = n
  BY <1>3
<1>8. Enumerates(S, F[n], UpToLast(P, n))
  BY <1>3, <1>6, <1>7
<1> QED  BY <1>2, <1>8

\* The groups of a sequence, one after the other, are the sequence.
LEMMA GroupsFlattened ==
  ASSUME NEW T, NEW s \in Seq(T), NEW n \in Nat, Covers(n, Len(s)), NEW ss,
         ss = [i \in 1..n |-> Group(s, i)]
  PROVE  FlattenSeq(ss) = s
<1> DEFINE m == Len(s)
           End(k) == IF k * WIDTH < m THEN k * WIDTH ELSE m
           Begins(f, k) == f \in Seq(T) /\ Len(f) = End(k) /\ \A j \in 1..Len(f) : f[j] = s[j]
<1>1. m \in Nat /\ WIDTH \in Nat /\ 2 <= WIDTH /\ m <= n * WIDTH /\ n * WIDTH < m + WIDTH
  BY WidthIs DEF Covers
<1>2. Len(ss) = n
  OBVIOUS
<1>3. CASE n = 0
  <2>1. m = 0
    BY <1>1, <1>3
  <2>2. s = <<>> /\ ss = <<>>
    BY <1>2, <1>3, <2>1
  <2>3. FlattenSeq(ss) = ss
    BY <1>2, <1>3 DEF FlattenSeq
  <2> QED  BY <2>2, <2>3
<1>4. CASE n # 0
  <2>1. 1 <= n
    BY <1>4
  <2>2. ASSUME NEW k \in 1..n
        PROVE  LET g == Group(s, k)
                   b == (k - 1) * WIDTH
               IN /\ b \in Nat /\ b < m /\ k * WIDTH = b + WIDTH
                  /\ g \in Seq(T) /\ Len(g) = End(k) - b
                  /\ \A j \in 1..Len(g) : b + j \in 1..m /\ g[j] = s[b + j]
    <3> DEFINE p == k - 1
               b == p * WIDTH
               g == Group(s, k)
    <3>1. p \in Nat /\ p < n /\ p + 1 = k
      OBVIOUS
    <3>2. b \in Nat /\ k * WIDTH = b + WIDTH
      <4>1. \A x, w \in Nat : x * w \in Nat /\ (x + 1) * w = x * w + w
        OBVIOUS
      <4> HIDE DEF p
      <4> QED  BY <1>1, <3>1, <4>1
    <3>3. b + WIDTH <= n * WIDTH /\ n * WIDTH \in Nat
      <4> HIDE DEF p
      <4> QED  BY <3>1, ProductsApart
    <3>4. b < m
      <4> HIDE DEF b
      <4> QED  BY <1>1, <3>2, <3>3
    <3>5. /\ g \in Seq(T)
          /\ Len(g) = IF k * WIDTH < m THEN WIDTH ELSE m - b
          /\ \A j \in 1..Len(g) : b + j \in 1..m /\ g[j] = s[b + j]
      <4> HIDE DEF p
      <4>1. /\ Group(s, p + 1) \in Seq(T)
            /\ Len(Group(s, p + 1)) = IF (p + 1) * WIDTH < Len(s) THEN WIDTH ELSE Len(s) - p * WIDTH
            /\ \A j \in 1..Len(Group(s, p + 1)) :
                 p * WIDTH + j \in 1..Len(s) /\ Group(s, p + 1)[j] = s[p * WIDTH + j]
        BY <3>1, <3>4, GroupIs
      <4> QED  BY <3>1, <4>1
    <3> HIDE DEF b, g
    <3>6. Len(g) = End(k) - b
      <4>1. End(k) = IF k * WIDTH < m THEN k * WIDTH ELSE m
        OBVIOUS
      <4> DEFINE e == k * WIDTH
      <4>2. e = b + WIDTH /\ b \in Nat /\ m \in Nat /\ WIDTH \in Nat
            /\ Len(g) = (IF e < m THEN WIDTH ELSE m - b) /\ End(k) = IF e < m THEN e ELSE m
        BY <1>1, <3>2, <3>5, <4>1
      <4> HIDE DEF e, End, m
      <4> QED  BY <4>2
    <3> QED  BY <3>2, <3>4, <3>5, <3>6 DEF b, g
  <2> DEFINE F == Flat(ss, n)
             R == {k \in Nat : k + 1 <= n => Begins(F[k + 1], k + 1)}
  <2>3. FlatSteps(ss, n, F)
    <3>1. ss \in Seq({Group(s, i) : i \in 1..n})
      OBVIOUS
    <3> HIDE DEF F
    <3> QED  BY <1>2, <2>1, <3>1, FlatIs DEF F
  <2> HIDE DEF F
  <2>4. /\ F[1] = ss[1]
        /\ \A k \in 1..n : k # 1 => F[k] = F[k - 1] \o ss[k]
        /\ FlattenSeq(ss) = F[n]
    BY <2>3 DEF FlatSteps
  <2>5. \A k \in 1..n : ss[k] = Group(s, k)
    OBVIOUS
  <2>6. 0 \in R
    <3>1. 0 + 1 = 1 /\ 1 \in 1..n /\ 1 - 1 = 0
      BY <2>1
    <3> DEFINE g == Group(s, 1)
               b == (1 - 1) * WIDTH
    <3>2. /\ g \in Seq(T) /\ Len(g) = End(1) - b
          /\ \A j \in 1..Len(g) : b + j \in 1..m /\ g[j] = s[b + j]
      BY <2>2, <3>1
    <3>3. b = 0
      BY <1>1
    <3>4. End(1) \in Nat
      BY <1>1
    <3> HIDE DEF b, g, End
    <3>5. g \in Seq(T) /\ Len(g) = End(1) /\ \A j \in 1..Len(g) : g[j] = s[j]
      BY <1>1, <3>2, <3>3, <3>4
    <3>6. F[1] = g
      BY <2>4, <2>5, <3>1 DEF g
    <3> QED  BY <3>1, <3>5, <3>6
  <2>7. ASSUME NEW k \in Nat, k \in R PROVE k + 1 \in R
    <3> SUFFICES ASSUME (k + 1) + 1 <= n PROVE Begins(F[(k + 1) + 1], (k + 1) + 1)
      OBVIOUS
    <3> DEFINE i == k + 1
               l == i + 1
               f == F[i]
               b == (l - 1) * WIDTH
               g == Group(s, l)
    <3>1. i \in Nat /\ i \in 1..n /\ l \in 1..n /\ l # 1 /\ l - 1 = i
      OBVIOUS
    <3>2. Begins(f, i)
      BY <2>7, <3>1
    <3> HIDE DEF i, l, f
    <3>3. /\ b \in Nat /\ b < m /\ l * WIDTH = b + WIDTH
          /\ g \in Seq(T) /\ Len(g) = End(l) - b
          /\ \A j \in 1..Len(g) : b + j \in 1..m /\ g[j] = s[b + j]
      BY <2>2, <3>1
    <3>4. End(i) = b
      BY <3>1, <3>3
    <3>5. End(l) \in Nat /\ b <= End(l)
      <4> HIDE DEF b
      <4> QED  BY <1>1, <3>3
    <3> HIDE DEF b, g, End
    <3>6. f \in Seq(T) /\ Len(f) = b /\ \A j \in 1..b : f[j] = s[j]
      BY <3>2, <3>4
    <3> DEFINE h == f \o g
    <3>7. IsJoin(T, f, g, h)
      BY <3>3, <3>6, JoinIs
    <3> HIDE DEF h
    <3>8. h \in Seq(T) /\ Len(h) = b + Len(g) /\ Len(g) \in Nat
          /\ (\A j \in 1..b : h[j] = f[j]) /\ (\A j \in 1..Len(g) : h[b + j] = g[j])
      BY <3>3, <3>6, <3>7 DEF IsJoin
    <3>9. Len(h) = End(l)
      BY <3>3, <3>5, <3>8
    <3>10. ASSUME NEW j \in 1..Len(h) PROVE h[j] = s[j]
      <4>1. CASE j <= b
        <5>1. j \in 1..b
          BY <3>3, <4>1
        <5> QED  BY <3>6, <3>8, <5>1
      <4>2. CASE j > b
        <5> DEFINE a == j - b
        <5>1. a \in 1..Len(g) /\ j = b + a
          BY <3>3, <3>8, <4>2
        <5> HIDE DEF a
        <5> QED  BY <3>3, <3>8, <5>1
      <4> QED  BY <3>3, <3>8, <4>1, <4>2
    <3>11. F[l] = h
      BY <2>4, <2>5, <3>1 DEF h, f, g
    <3>12. Begins(F[l], l)
      BY <3>8, <3>9, <3>10, <3>11
    <3> QED  BY <3>12 DEF i, l
  <2>8. n - 1 \in R
    <3> HIDE DEF R
    <3>1. n - 1 \in Nat
      BY <2>1
    <3> QED  BY <2>6, <2>7, <3>1, SetInduction
  <2>9. (n - 1) + 1 = n
    OBVIOUS
  <2>10. Begins(F[n], n)
    <3> HIDE DEF Begins
    <3> QED  BY <2>8, <2>9
  <2>11. End(n) = m
    BY <1>1
  <2>12. F[n] = s
    <3> DEFINE f == F[n]
    <3>1. f \in Seq(T) /\ Len(f) = m /\ \A j \in 1..Len(f) : f[j] = s[j]
      BY <2>10, <2>11
    <3> HIDE DEF f
    <3>2. f = s
      BY <3>1, SequencesEqual
    <3> QED  BY <3>2 DEF f
  <2> QED  BY <2>4, <2>12
<1> QED  BY <1>3, <1>4

-----------------------------------------------------------------------------
\* The levels of a trie as they are collected, from the root down.
CollectStep(h, node, top, F, k) ==
  IF k = top THEN <<node>>
  ELSE FlattenSeq([i \in DOMAIN F[k + 1] |-> Children(h, F[k + 1][i])])

IsCollected(h, node, top, F) == F = [k \in 0..top |-> CollectStep(h, node, top, F, k)]

\* They exist, from any root.
LEMMA CollectedDown ==
  ASSUME NEW h, NEW node, NEW top \in Nat
  PROVE  \E F : IsCollected(h, node, top, F)
<1> DEFINE Step(F, k) == CollectStep(h, node, top, F, k)
           S == {m \in Nat : m <= top => \E F : F = [k \in (top - m)..top |-> Step(F, k)]}
<1>1. \A F, G, k : (k = top \/ F[k + 1] = G[k + 1]) => Step(F, k) = Step(G, k)
  BY DEF CollectStep
<1> HIDE DEF Step
<1>2. 0 \in S
  <2> DEFINE F == [k \in (top - 0)..top |-> Step(<<>>, top)]
  <2>1. F = [k \in (top - 0)..top |-> Step(F, k)]
    <3>1. Step(<<>>, top) = Step(F, top)
      BY <1>1
    <3>2. \A k \in (top - 0)..top : k = top
      OBVIOUS
    <3> HIDE DEF Step
    <3> QED  BY <3>1, <3>2
  <2> HIDE DEF F
  <2>2. \E H : H = [k \in (top - 0)..top |-> Step(H, k)]
    BY <2>1, Zenon
  <2> QED  BY <2>2
<1>3. ASSUME NEW m \in Nat, m \in S PROVE m + 1 \in S
  <2> SUFFICES ASSUME m + 1 <= top
               PROVE  \E F : F = [k \in (top - (m + 1))..top |-> Step(F, k)]
    OBVIOUS
  <2> DEFINE l == top - (m + 1)
  <2>1. PICK F : F = [k \in (top - m)..top |-> Step(F, k)]
    BY <1>3
  <2>2. l \in Nat /\ l # top /\ \A k \in l..top : k # l => k \in (top - m)..top
    OBVIOUS
  <2>3. \A k \in l..top : k = top \/ (k + 1 \in l..top /\ k + 1 # l)
    OBVIOUS
  <2> HIDE DEF l
  <2> DEFINE G == [k \in l..top |-> IF k = l THEN Step(F, k) ELSE F[k]]
  <2>4. ASSUME NEW k \in l..top PROVE G[k] = Step(G, k)
    <3>1. k = top \/ G[k + 1] = F[k + 1]
      BY <2>3
    <3>2. Step(F, k) = Step(G, k)
      BY <1>1, <3>1
    <3>3. k # l => F[k] = Step(F, k)
      BY <2>1, <2>2
    <3>4. G[k] = IF k = l THEN Step(F, k) ELSE F[k]
      OBVIOUS
    <3> QED  BY <3>2, <3>3, <3>4
  <2>5. G = [k \in l..top |-> Step(G, k)]
    <3>1. G = [k \in l..top |-> G[k]]
      OBVIOUS
    <3> HIDE DEF G
    <3> QED  BY <2>4, <3>1
  <2> HIDE DEF G
  <2>6. \E H : H = [k \in l..top |-> Step(H, k)]
    BY <2>5, Zenon
  <2> QED  BY <2>6 DEF l
<1>4. top \in S
  <2> HIDE DEF S
  <2> QED  BY <1>2, <1>3, SetInduction
<1>5. top - top = 0
  OBVIOUS
<1> QED  BY <1>4, <1>5 DEF Step, IsCollected

Collected(h, node, top) == CHOOSE F : IsCollected(h, node, top, F)

\* collectTrie, one level after the other.
LEMMA CollectSteps ==
  ASSUME NEW h, NEW node, NEW shift, NEW top \in Nat, shift \div BITS = top
  PROVE  /\ IsCollected(h, node, top, Collected(h, node, top))
         /\ collectTrie(h, node, shift)
              = FlattenSeq([k \in 1..(top + 1) |-> Collected(h, node, top)[top + 1 - k]])
<1> DEFINE F == Collected(h, node, top)
<1>1. IsCollected(h, node, top, F)
  BY CollectedDown DEF Collected
<1>2. collectTrie(h, node, shift) = FlattenSeq([k \in 1..(top + 1) |-> F[top + 1 - k]])
  <2>1. collectTrie(h, node, shift)
          = FlattenSeq([k \in 1..((shift \div BITS) + 1) |->
                         Collected(h, node, shift \div BITS)[(shift \div BITS) + 1 - k]])
    BY DEF collectTrie, FlatMap, Collected, IsCollected, CollectStep
  <2> QED  BY <2>1
<1> QED  BY <1>1, <1>2

\* They are the levels of the trie.
LEMMA CollectedIs ==
  ASSUME NEW c, Context(c), NEW N, NEW top, NEW q, TrieIn(c, N, top, q), Len(N[top]) = 1
  PROVE  \A k \in 0..top : Collected(c.heap, Block(N, top, 0), top)[k] = N[k]
<1> DEFINE root == Block(N, top, 0)
           F == Collected(c.heap, root, top)
           S == {j \in Nat : j <= top => F[top - j] = N[top - j]}
<1>1. top \in Nat /\ Levels(N, top, q)
  BY DEF TrieIn, Levels
<1>2. IsCollected(c.heap, root, top, F)
  BY <1>1, CollectedDown DEF Collected
<1> HIDE DEF F
<1>3. \A k \in 0..top : F[k] = CollectStep(c.heap, root, top, F, k)
  BY <1>2 DEF IsCollected
<1>4. top \in 0..top /\ top - 0 = top
  BY <1>1
<1>5. 0 \in S
  <2>1. F[top] = <<root>>
    BY <1>3, <1>4 DEF CollectStep
  <2>2. N[top] \in Seq(Nat)
    BY <1>1, <1>4 DEF Levels
  <2>3. N[top] = <<root>>
    <3> DEFINE s == N[top]
    <3>1. s \in Seq(Nat) /\ Len(s) = 1 /\ root = s[0 + 1]
      BY <2>2 DEF Block
    <3> HIDE DEF s, root
    <3>2. s = <<s[1]>> /\ s[0 + 1] = s[1]
      BY <3>1
    <3>3. s = <<root>>
      BY <3>1, <3>2
    <3> QED  BY <3>3 DEF s
  <2> QED  BY <1>4, <2>1, <2>3
<1>6. ASSUME NEW j \in Nat, j \in S PROVE j + 1 \in S
  <2> SUFFICES ASSUME j + 1 <= top PROVE F[top - (j + 1)] = N[top - (j + 1)]
    OBVIOUS
  <2> DEFINE k == top - (j + 1)
             l == k + 1
  <2>1. k \in 0..top /\ k # top /\ l \in 0..top /\ l # 0 /\ l - 1 = k /\ l = top - j /\ l = k + 1
    BY <1>1
  <2>2. F[l] = N[l]
    BY <1>1, <1>6, <2>1
  <2> HIDE DEF k, l
  <2> DEFINE n == Len(N[l])
             ss == [i \in DOMAIN N[l] |-> Children(c.heap, N[l][i])]
  <2>3. F[k] = FlattenSeq(ss)
    BY <1>3, <2>1, <2>2 DEF CollectStep
  <2>4. N[l] \in Seq(Nat) /\ N[k] \in Seq(Nat) /\ Covers(n, Len(N[k]))
    <3>1. N[l] \in Seq(Nat) /\ N[k] \in Seq(Nat) /\ Covers(Len(N[l]), Len(Under(N, q, l)))
      BY <1>1, <2>1 DEF Levels
    <3>2. Under(N, q, l) = N[l - 1]
      BY <2>1 DEF Under
    <3> QED  BY <2>1, <3>1, <3>2
  <2>5. n \in Nat /\ DOMAIN N[l] = 1..n
    BY <2>4
  <2>6. ASSUME NEW i \in 1..n PROVE Children(c.heap, N[l][i]) = Group(N[k], i)
    <3> DEFINE p == i - 1
               b == N[l][i]
    <3>1. p \in Places(N[l]) /\ p + 1 = i
      BY <2>5 DEF Places
    <3> HIDE DEF p
    <3>2. Block(N, l, p) = b
      BY <3>1 DEF Block
    <3>3. b \in InUse(c.alloc) /\ c.heap[b] = Held(N, q, l, p)
      BY <2>1, <3>1, <3>2 DEF TrieIn
    <3> HIDE DEF b
    <3>4. Held(N, q, l, p) = Node(Group(N[k], i))
      BY <2>1, <3>1 DEF Held, Under, Part
    <3>5. Load(c.heap, b) = Node(Group(N[k], i))
      BY <3>3, <3>4, Loaded
    <3>6. Node(Group(N[k], i)).kind = "Node" /\ Node(Group(N[k], i)).children = Group(N[k], i)
      BY DEF Node
    <3>7. Children(c.heap, b) = Group(N[k], i)
      BY <3>5, <3>6 DEF Children, Then
    <3> QED  BY <3>7 DEF b
  <2>7. ss = [i \in 1..n |-> Group(N[k], i)]
    <3> HIDE DEF n
    <3> QED  BY <2>5, <2>6
  <2> HIDE DEF ss, n
  <2>8. FlattenSeq(ss) = N[k]
    BY <2>4, <2>5, <2>7, GroupsFlattened
  <2> QED  BY <2>3, <2>8 DEF k
<1>7. ASSUME NEW k \in 0..top PROVE F[k] = N[k]
  <2> HIDE DEF S
  <2> DEFINE j == top - k
  <2>1. j \in Nat /\ j <= top /\ top - j = k
    BY <1>1
  <2> HIDE DEF j
  <2>2. j \in S
    BY <1>5, <1>6, <2>1, SetInduction
  <2> QED  BY <2>1, <2>2 DEF S
<1> QED  BY <1>7 DEF F

\* collectTrie gives every block of a trie once.
LEMMA CollectTrieIs ==
  ASSUME NEW c, Context(c), NEW N, NEW top, NEW q, TrieIn(c, N, top, q), Len(N[top]) = 1,
         NEW shift, shift = BITS * top
  PROVE  Enumerates(Nat, collectTrie(c.heap, Block(N, top, 0), shift), Blocks(N, top))
<1> DEFINE root == Block(N, top, 0)
           n == top + 1
           F == Collected(c.heap, root, top)
           ss == [k \in 1..n |-> F[n - k]]
           P == [k \in 1..n |-> ToSet(N[n - k])]
<1>1. top \in Nat /\ Levels(N, top, q)
  BY DEF TrieIn, Levels
<1>2. collectTrie(c.heap, root, shift) = FlattenSeq(ss)
  <2>1. shift \div BITS = top
    BY <1>1, ShiftIsTop
  <2> HIDE DEF root
  <2> QED  BY <1>1, <2>1, CollectSteps
<1>3. \A k \in 0..top : F[k] = N[k]
  BY CollectedIs
<1> HIDE DEF F, root
<1>4. n \in Nat /\ 1 <= n /\ \A k \in 1..n : n - k \in 0..top
  BY <1>1
<1>5. Len(ss) = n /\ ss \in Seq({F[n - k] : k \in 1..n})
  BY <1>4
<1>6. ASSUME NEW k \in 0..top
      PROVE  /\ Enumerates(Nat, N[k], ToSet(N[k]))
             /\ ToSet(N[k]) = {Block(N, k, p) : p \in Places(N[k])}
  <2> DEFINE s == N[k]
  <2>1. s \in Seq(Nat)
    BY <1>1 DEF Levels
  <2>2. \A a, b \in Places(s) : Block(N, k, a) = Block(N, k, b) => a = b
    BY <1>1 DEF Levels
  <2>3. \A p : Block(N, k, p) = s[p + 1]
    BY DEF Block
  <2> HIDE DEF s
  <2>4. DOMAIN s = 1..Len(s) /\ Len(s) \in Nat
    BY <2>1
  <2>5. \A i \in DOMAIN s : i - 1 \in Places(s) /\ (i - 1) + 1 = i
    BY <2>4 DEF Places
  <2>6. \A p \in Places(s) : p + 1 \in DOMAIN s
    BY <2>4 DEF Places
  <2>7. IsInjective(s)
    <3> SUFFICES ASSUME NEW a \in DOMAIN s, NEW b \in DOMAIN s, s[a] = s[b] PROVE a = b
      BY DEF IsInjective
    <3>1. a - 1 = b - 1
      BY <2>2, <2>3, <2>5
    <3> QED  BY <2>4, <3>1
  <2>8. ToSet(s) = {Block(N, k, p) : p \in Places(s)}
    BY <2>3, <2>5, <2>6 DEF ToSet
  <2> QED  BY <2>1, <2>7, <2>8 DEF Enumerates, s
<1>7. ASSUME NEW k \in 1..n PROVE Enumerates(Nat, ss[k], P[k])
  <2>1. ss[k] = N[n - k] /\ P[k] = ToSet(N[n - k])
    BY <1>3, <1>4
  <2> HIDE DEF ss, P, n
  <2> QED  BY <1>4, <1>6, <2>1
<1>8. ASSUME NEW j \in 1..n, NEW k \in 1..n, j # k PROVE P[j] \cap P[k] = {}
  <2>1. n - j # n - k /\ n - j \in 0..top /\ n - k \in 0..top
    BY <1>4, <1>8
  <2>2. P[j] = ToSet(N[n - j]) /\ P[k] = ToSet(N[n - k])
    OBVIOUS
  <2> HIDE DEF n, P
  <2>3. /\ P[j] = {Block(N, n - j, p) : p \in Places(N[n - j])}
        /\ P[k] = {Block(N, n - k, p) : p \in Places(N[n - k])}
    BY <1>6, <2>1, <2>2
  <2>4. \A a \in Places(N[n - j]), b \in Places(N[n - k]) : Block(N, n - j, a) # Block(N, n - k, b)
    BY <1>1, <2>1 DEF Levels
  <2> QED  BY <2>3, <2>4
<1>9. UpToLast(P, n) = Blocks(N, top)
  <2>1. \A k \in 1..n : P[k] = {Block(N, n - k, p) : p \in Places(N[n - k])}
    <3> SUFFICES ASSUME NEW k \in 1..n PROVE P[k] = {Block(N, n - k, p) : p \in Places(N[n - k])}
      OBVIOUS
    <3>1. P[k] = ToSet(N[n - k])
      OBVIOUS
    <3> HIDE DEF P, n
    <3> QED  BY <1>4, <1>6, <3>1
  <2>2. \A k \in 0..top : n - k \in 1..n /\ n - (n - k) = k
    BY <1>1
  <2>3. UpToLast(P, n) \subseteq Blocks(N, top)
    <3> HIDE DEF P, n
    <3> QED  BY <1>4, <2>1 DEF UpToLast, Blocks
  <2>4. ASSUME NEW x \in Blocks(N, top) PROVE x \in UpToLast(P, n)
    <3>1. PICK k \in 0..top : x \in {Block(N, k, p) : p \in Places(N[k])}
      BY DEF Blocks
    <3> DEFINE j == n - k
    <3>2. j \in 1..n /\ n - j = k
      BY <2>2
    <3> HIDE DEF P, n, j
    <3>3. x \in P[j]
      BY <2>1, <3>1, <3>2
    <3> QED  BY <3>2, <3>3 DEF UpToLast
  <2> HIDE DEF P, n
  <2> QED  BY <2>3, <2>4
<1> HIDE DEF ss, P, n
<1>10. Enumerates(Nat, FlattenSeq(ss), UpToLast(P, n))
  BY <1>4, <1>5, <1>7, <1>8, ListsFlattened
<1> QED  BY <1>2, <1>9, <1>10 DEF root

-----------------------------------------------------------------------------
\* A vector without a trie has no blocks of one.
LEMMA NoTrie ==
  ASSUME NEW c, NEW T, NEW q, NEW t, NEW N, NEW top, NEW shift, NEW root, NEW tail,
         Parts(T, c, q, t, N, top, shift, root, tail), q = <<>>
  PROVE  Blocks(N, top) = {} /\ root = 0
<1> DEFINE n == Len(N[0])
<1>1. top = 0 /\ root = 0 /\ Len(q) = n * WIDTH /\ TrieIn(c, N, top, q)
  BY DEF Parts
<1>2. n \in Nat
  <2>1. N[0] \in Seq(Nat)
    BY <1>1 DEF TrieIn, Levels
  <2> QED  BY <2>1
<1>3. WIDTH \in Nat /\ 2 <= WIDTH /\ n * WIDTH = 0
  BY <1>1, WidthIs
<1> HIDE DEF n
<1>4. n = 0
  BY <1>2, <1>3
<1>5. Places(N[0]) = {}
  BY <1>4 DEF Places, n
<1>6. 0..0 = {0}
  OBVIOUS
<1> QED  BY <1>1, <1>5, <1>6 DEF Blocks

\* A single block.
LEMMA OneEnumerated ==
  ASSUME NEW a \in Nat
  PROVE  Enumerates(Nat, <<a>>, {a})
<1>1. <<a>> \in Seq(Nat) /\ DOMAIN <<a>> = {1} /\ <<a>>[1] = a
  OBVIOUS
<1> QED  BY <1>1 DEF Enumerates, IsInjective, ToSet

\* No block.
LEMMA NoneEnumerated == Enumerates(Nat, <<>>, {})
BY EmptySequence DEF Enumerates

\* vectorNodes gives every block of a vector once.
THEOREM NodesAreBlocks ==
  ASSUME NEW T, NEW c, Context(c), NEW at, NEW s, NEW B, VectorOf(T, c, at, s, B)
  PROVE  Enumerates(Nat, vectorNodes(c.heap, at), B)
<1>1. PICK q, t, N, top, shift, root, tail :
        /\ VectorIn(T, c, at, q, t, N, top, shift, root, tail)
        /\ s = q \o t
        /\ B = {at} \union PartBlocks(t, N, top, tail)
  BY DEF VectorOf
<1>2. /\ Parts(T, c, q, t, N, top, shift, root, tail)
      /\ at \in InUse(c.alloc) \ PartBlocks(t, N, top, tail)
  BY <1>1 DEF VectorIn
<1>3. HeaderFound(c, at, Len(q) + Len(t), shift, root, tail)
  BY <1>1, HeaderLoaded
<1> DEFINE x == IF tail = 0 THEN <<>> ELSE <<tail>>
           y == IF root = 0 THEN <<>> ELSE collectTrie(c.heap, root, shift)
           X == IF t = <<>> THEN {} ELSE {tail}
           Y == Blocks(N, top)
<1>4. vectorNodes(c.heap, at) = <<at>> \o x \o y
  BY <1>3 DEF HeaderFound, vectorNodes
<1>5. at \in Nat /\ B = {at} \union (X \union Y) /\ at \notin X /\ at \notin Y
  BY <1>1, <1>2, <1>3 DEF HeaderFound, PartBlocks
<1>6. Enumerates(Nat, x, X) /\ X \cap Y = {}
  <2>1. CASE t = <<>>
    <3>1. tail = 0
      BY <1>2, <2>1 DEF Parts
    <3> QED  BY <2>1, <3>1, NoneEnumerated
  <2>2. CASE t # <<>>
    <3>1. tail \in InUse(c.alloc) \ Blocks(N, top)
      BY <1>2, <2>2 DEF Parts
    <3>2. tail \in Nat /\ tail # 0
      BY <3>1, Loaded DEF NoBlock
    <3> QED  BY <2>2, <3>1, <3>2, OneEnumerated
  <2> QED  BY <2>1, <2>2
<1>7. Enumerates(Nat, y, Y)
  <2>1. CASE q = <<>>
    <3>1. Blocks(N, top) = {} /\ root = 0
      BY <1>2, <2>1, NoTrie
    <3> QED  BY <3>1, NoneEnumerated
  <2>2. CASE q # <<>>
    <3>1. TrieIn(c, N, top, q) /\ root = Block(N, top, 0) /\ shift = BITS * top /\ Len(N[top]) = 1
      BY <1>2, <2>2 DEF Parts
    <3>2. root # 0
      <4>1. top \in Nat /\ top \in 0..top /\ 0 \in Places(N[top])
        BY <3>1 DEF TrieIn, Levels, Places
      <4>2. root \in InUse(c.alloc)
        BY <3>1, <4>1 DEF TrieIn
      <4> QED  BY <4>2, Loaded DEF NoBlock
    <3>3. Enumerates(Nat, collectTrie(c.heap, Block(N, top, 0), shift), Blocks(N, top))
      BY <3>1, CollectTrieIs
    <3> QED  BY <3>1, <3>2, <3>3
  <2> QED  BY <2>1, <2>2
<1> HIDE DEF x, y, X, Y
<1>8. Enumerates(Nat, <<at>>, {at})
  BY <1>5, OneEnumerated
<1>9. Enumerates(Nat, <<at>> \o x, {at} \union X)
  BY <1>5, <1>6, <1>8, ListsJoined
<1>10. Enumerates(Nat, (<<at>> \o x) \o y, ({at} \union X) \union Y)
  BY <1>5, <1>6, <1>7, <1>9, ListsJoined
<1>11. ({at} \union X) \union Y = B
  BY <1>5
<1> QED  BY <1>4, <1>10, <1>11

-----------------------------------------------------------------------------
\* A vector that was built from the context b, whose journal is empty: what was done to the
\* context keeps the contract of a write, and each block that was allocated on the way is
\* of the vector or retired, never both.
Whole(T, b, v, s) ==
  /\ Context(b) /\ Extends(b, v.ctx)
  /\ v.ctx.err = NoError =>
       \E B : /\ VectorOf(T, v.ctx, v.at, s, B)
              /\ IsInjective(v.ctx.retired)
              /\ B \cap ToSet(v.ctx.retired) = {}
              /\ B \union ToSet(v.ctx.retired) = ToSet(v.ctx.allocated)

\* It holds what it should.
LEMMA WholeHolds ==
  ASSUME NEW T, NEW b, NEW v, NEW s, Whole(T, b, v, s), v.ctx.err = NoError
  PROVE  Holds(v, s)
<1> DEFINE c == v.ctx
           at == v.at
<1>1. Context(c) /\ c.retired \in Seq(Nat)
  BY DEF Whole, Extends, Context
<1>2. PICK B : /\ VectorOf(T, c, at, s, B)
               /\ IsInjective(c.retired)
               /\ B \cap ToSet(c.retired) = {}
               /\ B \union ToSet(c.retired) = ToSet(c.allocated)
  BY DEF Whole
<1> HIDE DEF c, at
<1>3. vectorSlots(c.heap, at) = s
  BY <1>1, <1>2, VectorReads
<1>4. Enumerates(Nat, vectorNodes(c.heap, at), B)
  BY <1>1, <1>2, NodesAreBlocks
<1>5. Enumerates(Nat, c.retired, ToSet(c.retired))
  BY <1>1, <1>2 DEF Enumerates
<1>6. Enumerates(Nat, vectorNodes(c.heap, at) \o c.retired, B \union ToSet(c.retired))
  BY <1>2, <1>4, <1>5, ListsJoined
<1> QED  BY <1>2, <1>3, <1>6 DEF Enumerates, Holds, c, at

\* What a write leaves is whole again.
LEMMA WritesWhole ==
  ASSUME NEW T, NEW b, NEW v, NEW s, Whole(T, b, v, s), v.ctx.err = NoError,
         NEW got, NEW r,
         \A B : VectorOf(T, v.ctx, v.at, s, B) => Writes(T, v.ctx, B, got, r)
  PROVE  Whole(T, b, got, r)
<1> DEFINE c == v.ctx
           d == got.ctx
<1>1. Context(b) /\ Context(c) /\ Extends(b, c)
  BY DEF Whole, Extends
<1>2. PICK B : /\ VectorOf(T, c, v.at, s, B)
               /\ IsInjective(c.retired)
               /\ B \cap ToSet(c.retired) = {}
               /\ B \union ToSet(c.retired) = ToSet(c.allocated)
  BY DEF Whole
<1>3. Writes(T, c, B, got, r)
  BY <1>2
<1> HIDE DEF c
<1>4. PICK A, R : /\ Takes(c, d, A, R)
                  /\ R \subseteq B
                  /\ d.err = NoError => VectorOf(T, d, got.at, r, (B \ R) \union A)
                  /\ d.err # NoError => got.at = NoBlock
  BY <1>3 DEF Writes
<1>5. ToSet(c.allocated) \subseteq InUse(c.alloc)
  BY <1>1, ContextIs
<1> HIDE DEF d
<1>6. Extends(b, d)
  <2>1. Extends(c, d)
    BY <1>4 DEF Takes
  <2> QED  BY <1>1, <2>1, ExtendsIsTransitive
<1>7. ASSUME d.err = NoError
      PROVE  LET C == (B \ R) \union A
             IN /\ VectorOf(T, d, got.at, r, C)
                /\ IsInjective(d.retired)
                /\ C \cap ToSet(d.retired) = {}
                /\ C \union ToSet(d.retired) = ToSet(d.allocated)
  <2>1. /\ A \subseteq InUse(d.alloc) \ InUse(c.alloc)
        /\ ToSet(d.allocated) = ToSet(c.allocated) \union A
        /\ ToSet(d.retired) = ToSet(c.retired) \union R
        /\ IsInjective(c.retired) /\ R \cap ToSet(c.retired) = {} => IsInjective(d.retired)
    BY <1>4, <1>7 DEF Takes
  <2>2. R \cap ToSet(c.retired) = {} /\ A \cap (B \union ToSet(c.retired)) = {}
    BY <1>2, <1>4, <1>5, <2>1
  <2> QED  BY <1>2, <1>4, <1>7, <2>1, <2>2
<1>8. d.err = NoError =>
        \E C : /\ VectorOf(T, d, got.at, r, C)
               /\ IsInjective(d.retired)
               /\ C \cap ToSet(d.retired) = {}
               /\ C \union ToSet(d.retired) = ToSet(d.allocated)
  BY <1>7
<1> QED  BY <1>6, <1>8 DEF Whole, d

\* vectorLength is the number of the elements.
LEMMA LengthIs ==
  ASSUME NEW T, NEW c, Context(c), NEW at, NEW s, NEW B, VectorOf(T, c, at, s, B)
  PROVE  s \in Seq(T) /\ vectorLength(c.heap, at) = Len(s)
<1>1. PICK q, t, N, top, shift, root, tail :
        /\ VectorIn(T, c, at, q, t, N, top, shift, root, tail)
        /\ s = q \o t
  BY DEF VectorOf
<1>2. HeaderFound(c, at, Len(q) + Len(t), shift, root, tail)
  BY <1>1, HeaderLoaded
<1>3. q \in Seq(T) /\ t \in Seq(T)
  BY <1>1, TailIs DEF VectorIn
<1>4. IsJoin(T, q, t, s)
  BY <1>1, <1>3, JoinIs
<1>5. vectorLength(c.heap, at) = Len(q) + Len(t)
  BY <1>2 DEF HeaderFound, vectorLength
<1> QED  BY <1>4, <1>5 DEF IsJoin

\* An edit leaves the vector whole, with the elements that it says.
LEMMA EditedWhole ==
  ASSUME NEW T, NEW b, NEW v, NEW s, Whole(T, b, v, s), v.ctx.err = NoError,
         NEW e, e.index \in Nat, e.slot \in T
  PROVE  Whole(T, b, Edited(v, e), EditedSlots(s, e))
<1> DEFINE i == e.index
           x == e.slot
<1>1. Context(v.ctx) /\ i \in Nat /\ x \in T
  BY DEF Whole, Extends
<1>2. s \in Seq(T) /\ vectorLength(v.ctx.heap, v.at) = Len(s)
  BY <1>1, LengthIs DEF Whole
<1>3. CASE i < Len(s)
  <2> DEFINE got == vectorAssoc(v.ctx, v.at, i, x)
             r == ElementAt(s, i, x)
  <2>1. Edited(v, e) = got /\ EditedSlots(s, e) = r
    BY <1>2, <1>3 DEF Edited, EditedSlots, ElementAt
  <2>2. \A B : VectorOf(T, v.ctx, v.at, s, B) => Writes(T, v.ctx, B, got, r)
    BY <1>1, <1>3, AssocReplacesOne
  <2> HIDE DEF got, r
  <2> QED  BY <2>1, <2>2, WritesWhole
<1>4. CASE ~(i < Len(s))
  <2> DEFINE got == vectorPush(v.ctx, v.at, x)
             r == Append(s, x)
  <2>1. Edited(v, e) = got /\ EditedSlots(s, e) = r
    BY <1>2, <1>4 DEF Edited, EditedSlots
  <2>2. \A B : VectorOf(T, v.ctx, v.at, s, B) => Writes(T, v.ctx, B, got, r)
    BY <1>1, PushAppendsOne
  <2> HIDE DEF got, r
  <2> QED  BY <2>1, <2>2, WritesWhole
<1> QED  BY <1>3, <1>4

-----------------------------------------------------------------------------
\* What building a vector promises: the blocks it takes are the ones of the vector.
Creates(T, c, got, s) ==
  \E A :
    /\ Takes(c, got.ctx, A, {})
    /\ got.ctx.err = NoError => VectorOf(T, got.ctx, got.at, s, A)
    /\ got.ctx.err # NoError => got.at = NoBlock

\* How that is kept: the parts are there, and the header is written last.
LEMMA VectorMade ==
  ASSUME NEW c, Context(c), NEW T, NEW d, NEW A, Takes(c, d, A, {}),
         NEW q, NEW t, NEW N, NEW top, NEW shift, NEW root, NEW tail,
         d.err = NoError => /\ Parts(T, d, q, t, N, top, shift, root, tail)
                            /\ PartBlocks(t, N, top, tail) = A,
         NEW m, m = Len(q) + Len(t)
  PROVE  Creates(T, c, AllocPart(d, Header(m, shift, root, tail)), q \o t)
<1> DEFINE h == Header(m, shift, root, tail)
           got == AllocPart(d, h)
<1>1. Context(d)
  BY DEF Takes, Extends
<1>2. Wrote(d, got, {}, h)
  <2>1. VectorBytes(h) \in Nat
    BY HeaderBytes
  <2> HIDE DEF h
  <2> QED  BY <1>1, <2>1, PartAllocated
<1> HIDE DEF got
<1>3. Takes(d, got.ctx, {got.at}, {}) /\ (got.ctx.err # NoError => got.at = NoBlock)
  BY <1>2 DEF Wrote
<1>4. Takes(c, got.ctx, A \union {got.at}, {} \union {})
  BY <1>3, TakesTwice
<1>5. ASSUME got.ctx.err = NoError
      PROVE  VectorOf(T, got.ctx, got.at, q \o t, A \union {got.at})
  <2>1. d.err = NoError
    BY <1>3, <1>5 DEF Takes
  <2>2. VectorIn(T, got.ctx, got.at, q, t, N, top, shift, root, tail)
    <3>1. Wrote(d, got, {}, Header(Len(q) + Len(t), shift, root, tail))
      BY <1>2
    <3> HIDE DEF h
    <3> QED  BY <1>1, <1>5, <3>1, HeaderWritten
  <2>3. A \union {got.at} = {got.at} \union PartBlocks(t, N, top, tail)
    BY <2>1
  <2> QED  BY <2>2, <2>3 DEF VectorOf
<1>6. Takes(c, got.ctx, A \union {got.at}, {})
  BY <1>4
<1> QED  BY <1>3, <1>5, <1>6 DEF Creates, got

\* emptyVector creates the empty vector.
LEMMA EmptyVectorIs ==
  ASSUME NEW c, Context(c), NEW T
  PROVE  Creates(T, c, emptyVector(c), <<>>)
<1> DEFINE q == <<>>
           N == OneLevel(<<>>)
<1>1. q \in Seq(T) /\ Len(q) = 0 /\ <<>> \in Seq(Nat) /\ Len(q) + Len(q) = 0 /\ Places(q) = {}
  BY DEF Places
<1>2. WIDTH \in Nat /\ 2 <= WIDTH /\ 0 * WIDTH = 0 /\ Covers(0, 0)
  BY WidthIs DEF Covers
<1>3. LeavesAreTrie(c, <<>>, q)
  BY <1>1, <1>2, LeavesAre
<1>4. TrieIn(c, N, 0, q) /\ Blocks(N, 0) = {} /\ Len(N[0]) = 0
  BY <1>1, <1>3 DEF LeavesAreTrie, OneLevel
<1> HIDE DEF N
<1>5. Parts(T, c, q, q, N, 0, BITS, 0, 0) /\ PartBlocks(q, N, 0, 0) = {}
  BY <1>1, <1>2, <1>4 DEF Parts, PartBlocks
<1>6. Takes(c, c, {}, {})
  BY TakesNothing
<1> HIDE DEF q
<1>7. Creates(T, c, AllocPart(c, Header(0, BITS, 0, 0)), q \o q)
  BY <1>1, <1>5, <1>6, VectorMade
<1>8. q \o q = <<>>
  BY DEF q
<1> QED  BY <1>7, <1>8 DEF emptyVector

\* A vector that is created in a context without a journal is whole.
LEMMA CreatedWhole ==
  ASSUME NEW c, Context(c), c.allocated = <<>>, c.retired = <<>>,
         NEW T, NEW got, NEW s, Creates(T, c, got, s)
  PROVE  Whole(T, c, got, s)
<1> DEFINE d == got.ctx
<1>1. ToSet(c.allocated) = {} /\ ToSet(c.retired) = {} /\ IsInjective(c.retired)
  BY EmptySequence
<1>2. PICK A :
        /\ Takes(c, d, A, {})
        /\ d.err = NoError => VectorOf(T, d, got.at, s, A)
  BY DEF Creates
<1> HIDE DEF d
<1>3. Extends(c, d)
  BY <1>2 DEF Takes
<1>4. ASSUME d.err = NoError
      PROVE  /\ VectorOf(T, d, got.at, s, A) /\ IsInjective(d.retired)
             /\ A \cap ToSet(d.retired) = {} /\ A \union ToSet(d.retired) = ToSet(d.allocated)
  BY <1>1, <1>2, <1>4 DEF Takes
<1> QED  BY <1>3, <1>4 DEF Whole, d

-----------------------------------------------------------------------------
\* A list of blocks, one after the other.
EachStep(c, parts, F, k) ==
  IF k = 0 THEN [ctx |-> c, at |-> <<>>]
  ELSE [ctx |-> AllocPart(F[k - 1].ctx, parts[k]).ctx,
        at |-> Append(F[k - 1].at, AllocPart(F[k - 1].ctx, parts[k]).at)]

IsEach(c, parts, n, F) == F = [k \in 0..n |-> EachStep(c, parts, F, k)]

\* It exists, for every length.
LEMMA EachUp ==
  ASSUME NEW c, NEW parts, NEW n \in Nat
  PROVE  \E F : IsEach(c, parts, n, F)
<1> DEFINE Step(F, k) == EachStep(c, parts, F, k)
           S == {m \in Nat : \E F : F = [k \in 0..m |-> Step(F, k)]}
<1>1. \A F, G, k : (k = 0 \/ F[k - 1] = G[k - 1]) => Step(F, k) = Step(G, k)
  BY DEF EachStep
<1> HIDE DEF Step
<1>2. 0 \in S
  <2> DEFINE F == [k \in 0..0 |-> Step(<<>>, 0)]
  <2>1. F = [k \in 0..0 |-> Step(F, k)]
    <3>1. Step(<<>>, 0) = Step(F, 0)
      BY <1>1
    <3> HIDE DEF Step
    <3> QED  BY <3>1
  <2> HIDE DEF F
  <2>2. \E H : H = [k \in 0..0 |-> Step(H, k)]
    BY <2>1, Zenon
  <2> QED  BY <2>2
<1>3. ASSUME NEW m \in Nat, m \in S PROVE m + 1 \in S
  <2>1. PICK F : F = [k \in 0..m |-> Step(F, k)]
    BY <1>3
  <2> DEFINE G == [k \in 0..(m + 1) |-> IF k = m + 1 THEN Step(F, k) ELSE F[k]]
  <2>2. ASSUME NEW k \in 0..(m + 1) PROVE G[k] = Step(G, k)
    <3>1. k = 0 \/ (k - 1 \in 0..m /\ k - 1 \in 0..(m + 1) /\ k - 1 # m + 1)
      OBVIOUS
    <3>2. k = 0 \/ G[k - 1] = F[k - 1]
      BY <3>1
    <3>3. Step(F, k) = Step(G, k)
      BY <1>1, <3>2
    <3>4. k # m + 1 => k \in 0..m
      OBVIOUS
    <3>5. k # m + 1 => F[k] = Step(F, k)
      BY <2>1, <3>4
    <3>6. G[k] = IF k = m + 1 THEN Step(F, k) ELSE F[k]
      OBVIOUS
    <3> QED  BY <3>3, <3>5, <3>6
  <2>3. G = [k \in 0..(m + 1) |-> Step(G, k)]
    <3>1. G = [k \in 0..(m + 1) |-> G[k]]
      OBVIOUS
    <3> HIDE DEF G
    <3> QED  BY <2>2, <3>1
  <2> HIDE DEF G
  <2>4. \E H : H = [k \in 0..(m + 1) |-> Step(H, k)]
    BY <2>3, Zenon
  <2> QED  BY <2>4
<1>4. n \in S
  <2> HIDE DEF S
  <2> QED  BY <1>2, <1>3, SetInduction
<1> QED  BY <1>4 DEF Step, IsEach

\* What was allocated after so many blocks.
Each(c, parts, n) == CHOOSE F : IsEach(c, parts, n, F)

EachRuns(c, parts, F) ==
  /\ AllocEach(c, parts) = F[Len(parts)]
  /\ F[0] = [ctx |-> c, at |-> <<>>]
  /\ \A k \in 1..Len(parts) :
       F[k] = [ctx |-> AllocPart(F[k - 1].ctx, parts[k]).ctx,
               at |-> Append(F[k - 1].at, AllocPart(F[k - 1].ctx, parts[k]).at)]

\* AllocEach, one block after the other.
LEMMA EachSteps ==
  ASSUME NEW T, NEW c, NEW parts \in Seq(T)
  PROVE  EachRuns(c, parts, Each(c, parts, Len(parts)))
<1> DEFINE n == Len(parts)
           F == Each(c, parts, n)
<1>1. AllocEach(c, parts) = F[n]
  BY DEF AllocEach, Each, IsEach, EachStep, Then
<1>2. n \in Nat
  OBVIOUS
<1> HIDE DEF n
<1>3. F = [k \in 0..n |-> EachStep(c, parts, F, k)]
  BY <1>2, EachUp DEF Each, IsEach
<1> HIDE DEF F
<1>4. F[0] = [ctx |-> c, at |-> <<>>]
  BY <1>2, <1>3 DEF EachStep
<1>5. ASSUME NEW k \in 1..n
      PROVE  F[k] = [ctx |-> AllocPart(F[k - 1].ctx, parts[k]).ctx,
                     at |-> Append(F[k - 1].at, AllocPart(F[k - 1].ctx, parts[k]).at)]
  <2>1. k \in 0..n /\ k # 0
    BY <1>2
  <2> QED  BY <1>3, <2>1 DEF EachStep
<1> QED  BY <1>1, <1>4, <1>5 DEF F, n, EachRuns

\* Each block is new, and holds its part.
EachWrote(c, parts, n, got) ==
  /\ Takes(c, got.ctx, ToSet(got.at), {})
  /\ got.at \in Seq(Nat) /\ Len(got.at) = n
  /\ got.ctx.err = NoError =>
       /\ IsInjective(got.at)
       /\ \A j \in 1..n : /\ got.at[j] \in InUse(got.ctx.alloc) \ InUse(c.alloc)
                          /\ got.ctx.heap[got.at[j]] = parts[j]

\* AllocEach writes every part to a new block.
LEMMA EachIs ==
  ASSUME NEW c, Context(c), NEW T, NEW parts \in Seq(T),
         \A j \in 1..Len(parts) : VectorBytes(parts[j]) \in Nat
  PROVE  EachWrote(c, parts, Len(parts), AllocEach(c, parts))
<1> DEFINE n == Len(parts)
           F == Each(c, parts, n)
           S == {k \in Nat : k <= n => EachWrote(c, parts, k, F[k])}
<1>1. /\ AllocEach(c, parts) = F[n]
      /\ F[0] = [ctx |-> c, at |-> <<>>]
      /\ \A k \in 1..n : F[k] = [ctx |-> AllocPart(F[k - 1].ctx, parts[k]).ctx,
                                 at |-> Append(F[k - 1].at, AllocPart(F[k - 1].ctx, parts[k]).at)]
  <2>1. EachRuns(c, parts, F)
    BY EachSteps
  <2> HIDE DEF F
  <2> QED  BY <2>1 DEF EachRuns
<1>2. n \in Nat /\ \A j \in 1..n : VectorBytes(parts[j]) \in Nat
  OBVIOUS
<1> HIDE DEF F, n
<1>3. 0 \in S
  <2>1. F[0].ctx = c /\ F[0].at = <<>>
    BY <1>1
  <2>2. Takes(c, c, {}, {}) /\ ToSet(<<>>) = {} /\ IsInjective(<<>>)
    BY TakesNothing, EmptySequence
  <2>3. <<>> \in Seq(Nat) /\ Len(<<>>) = 0 /\ 1..0 = {}
    OBVIOUS
  <2>4. EachWrote(c, parts, 0, F[0])
    BY <2>1, <2>2, <2>3 DEF EachWrote
  <2> QED  BY <2>4
<1>4. ASSUME NEW k \in Nat, k \in S PROVE k + 1 \in S
  <2> SUFFICES ASSUME k + 1 <= n PROVE EachWrote(c, parts, k + 1, F[k + 1])
    OBVIOUS
  <2> DEFINE l == k + 1
             p == F[k]
             got == AllocPart(p.ctx, parts[l])
             f == F[l]
  <2>1. l \in 1..n /\ l - 1 = k /\ l \in Nat /\ 1..l = (1..k) \union {l} /\ l \notin 1..k
    OBVIOUS
  <2>2. EachWrote(c, parts, k, p)
    BY <1>2, <1>4
  <2>3. f = [ctx |-> got.ctx, at |-> Append(p.at, got.at)]
    BY <1>1, <2>1
  <2> HIDE DEF p, f, l
  <2>4. Context(p.ctx) /\ Takes(c, p.ctx, ToSet(p.at), {}) /\ p.at \in Seq(Nat) /\ Len(p.at) = k
    BY <2>2 DEF EachWrote, Takes, Extends
  <2>5. Wrote(p.ctx, got, {}, parts[l])
    BY <1>2, <2>1, <2>4, PartAllocated
  <2> HIDE DEF got
  <2>6. Takes(p.ctx, got.ctx, {got.at}, {}) /\ got.at \in Nat
    BY <2>5 DEF Wrote
  <2>7. f.ctx = got.ctx /\ f.at = Append(p.at, got.at)
    BY <2>3
  <2>8. Append(p.at, got.at) \in Seq(Nat)
        /\ ToSet(Append(p.at, got.at)) = ToSet(p.at) \union {got.at}
        /\ (IsInjective(p.at) /\ got.at \notin ToSet(p.at) => IsInjective(Append(p.at, got.at)))
    <3> DEFINE x == p.at
               y == got.at
    <3>1. x \in Seq(Nat) /\ y \in Nat
      BY <2>4, <2>6
    <3> HIDE DEF x, y
    <3>2. Append(x, y) \in Seq(Nat)
          /\ ToSet(Append(x, y)) = ToSet(x) \union {y}
          /\ (IsInjective(x) /\ y \notin ToSet(x) => IsInjective(Append(x, y)))
      BY <3>1, AppendedTo
    <3> QED  BY <3>2 DEF x, y
  <2>9. /\ Len(f.at) = l /\ f.at[l] = got.at /\ \A j \in 1..k : f.at[j] = p.at[j]
    BY <2>1, <2>4, <2>6, <2>7
  <2>10. Takes(c, f.ctx, ToSet(f.at), {})
    <3>1. Takes(c, got.ctx, ToSet(p.at) \union {got.at}, {} \union {})
      BY <2>4, <2>6, TakesTwice
    <3>2. {} \union {} = {}
      OBVIOUS
    <3> QED  BY <2>7, <2>8, <3>1, <3>2
  <2>11. ASSUME f.ctx.err = NoError
         PROVE  /\ IsInjective(f.at)
                /\ \A j \in 1..l : /\ f.at[j] \in InUse(f.ctx.alloc) \ InUse(c.alloc)
                                   /\ f.ctx.heap[f.at[j]] = parts[j]
    <3>1. p.ctx.err = NoError
      BY <2>6, <2>7, <2>11 DEF Takes
    <3>2. /\ IsInjective(p.at)
          /\ \A j \in 1..k : /\ p.at[j] \in InUse(p.ctx.alloc) \ InUse(c.alloc)
                             /\ p.ctx.heap[p.at[j]] = parts[j]
      BY <2>2, <3>1 DEF EachWrote
    <3>3. /\ got.at \in InUse(got.ctx.alloc) \ InUse(p.ctx.alloc)
          /\ got.ctx.heap[got.at] = parts[l]
      BY <2>5, <2>7, <2>11 DEF Wrote
    <3>4. Extends(p.ctx, got.ctx) /\ Extends(c, p.ctx)
      BY <2>4, <2>6 DEF Takes
    <3>5. /\ InUse(p.ctx.alloc) \subseteq InUse(got.ctx.alloc)
          /\ InUse(c.alloc) \subseteq InUse(p.ctx.alloc)
          /\ \A o \in InUse(p.ctx.alloc) : got.ctx.heap[o] = p.ctx.heap[o]
      BY <3>4, ExtendsKeeps
    <3>6. got.at \notin ToSet(p.at)
      <4>1. DOMAIN p.at = 1..k
        BY <2>4
      <4> QED  BY <3>2, <3>3, <4>1 DEF ToSet
    <3>7. IsInjective(f.at)
      BY <2>7, <2>8, <3>2, <3>6
    <3>8. ASSUME NEW j \in 1..l
          PROVE  /\ f.at[j] \in InUse(f.ctx.alloc) \ InUse(c.alloc)
                 /\ f.ctx.heap[f.at[j]] = parts[j]
      <4>1. CASE j \in 1..k
        BY <2>7, <2>9, <3>2, <3>5, <4>1
      <4>2. CASE j = l
        BY <2>7, <2>9, <3>3, <3>5, <4>2
      <4> QED  BY <2>1, <4>1, <4>2
    <3> QED  BY <3>7, <3>8
  <2>12. EachWrote(c, parts, l, f)
    BY <2>7, <2>8, <2>9, <2>10, <2>11 DEF EachWrote
  <2> QED  BY <2>12 DEF l, f
<1>5. EachWrote(c, parts, n, F[n])
  <2>1. n \in S
    <3> HIDE DEF S
    <3> QED  BY <1>2, <1>3, <1>4, SetInduction
  <2> QED  BY <1>2, <2>1
<1> QED  BY <1>1, <1>5 DEF n

-----------------------------------------------------------------------------
\* A level of a trie that was written over a sequence of m elements or blocks, of one block
\* for each group of them.
LevelMade(c, m, parts, got) ==
  /\ Takes(c, got.ctx, ToSet(got.at), {})
  /\ got.at \in Seq(Nat) /\ Covers(Len(got.at), m)
  /\ {got.at[p + 1] : p \in Places(got.at)} = ToSet(got.at)
  /\ got.ctx.err = NoError =>
       /\ \A p \in Places(got.at) :
            /\ got.at[p + 1] \in InUse(got.ctx.alloc) \ InUse(c.alloc)
            /\ got.ctx.heap[got.at[p + 1]] = parts[p + 1]
       /\ \A a, b \in Places(got.at) : got.at[a + 1] = got.at[b + 1] => a = b

\* AllocEach writes a level.
LEMMA LevelWritten ==
  ASSUME NEW c, Context(c), NEW T, NEW parts \in Seq(T),
         \A j \in 1..Len(parts) : VectorBytes(parts[j]) \in Nat,
         NEW m, Covers(Len(parts), m)
  PROVE  LevelMade(c, m, parts, AllocEach(c, parts))
<1> DEFINE got == AllocEach(c, parts)
           n == Len(parts)
           s == got.at
<1>1. EachWrote(c, parts, n, got)
  BY EachIs
<1>2. n \in Nat /\ Covers(n, m)
  OBVIOUS
<1> HIDE DEF got, n
<1>3. /\ Takes(c, got.ctx, ToSet(s), {}) /\ s \in Seq(Nat) /\ Len(s) = n
      /\ got.ctx.err = NoError =>
           /\ IsInjective(s)
           /\ \A j \in 1..n : /\ s[j] \in InUse(got.ctx.alloc) \ InUse(c.alloc)
                              /\ got.ctx.heap[s[j]] = parts[j]
  BY <1>1 DEF EachWrote
<1> HIDE DEF s
<1>4. DOMAIN s = 1..n /\ (\A p \in Places(s) : p + 1 \in 1..n) /\ Places(s) \subseteq Nat
      /\ \A j \in 1..n : j - 1 \in Places(s) /\ (j - 1) + 1 = j
  BY <1>2, <1>3 DEF Places
<1>5. {s[p + 1] : p \in Places(s)} = ToSet(s)
  BY <1>4 DEF ToSet
<1>6. ASSUME got.ctx.err = NoError
      PROVE  /\ \A p \in Places(s) : /\ s[p + 1] \in InUse(got.ctx.alloc) \ InUse(c.alloc)
                                     /\ got.ctx.heap[s[p + 1]] = parts[p + 1]
             /\ \A a, b \in Places(s) : s[a + 1] = s[b + 1] => a = b
  <2>1. \A a, b \in 1..n : s[a] = s[b] => a = b
    BY <1>3, <1>4, <1>6 DEF IsInjective
  <2>2. ASSUME NEW a \in Places(s), NEW b \in Places(s), s[a + 1] = s[b + 1] PROVE a = b
    <3>1. a + 1 = b + 1 /\ a \in Nat /\ b \in Nat
      BY <1>4, <2>1, <2>2
    <3> QED  BY <3>1
  <2> QED  BY <1>3, <1>4, <1>6, <2>2
<1> QED  BY <1>2, <1>3, <1>5, <1>6 DEF LevelMade, s, got

\* The groups of a sequence, and the parts that are made of them.
GroupsAre(T, s) ==
  /\ Len(Groups(s)) \in Nat /\ DOMAIN Groups(s) = 1..Len(Groups(s))
  /\ Covers(Len(Groups(s)), Len(s))
  /\ \A i \in DOMAIN Groups(s) : Groups(s)[i] = Group(s, i) /\ Group(s, i) \in Seq(T)

\* Every element is in one of the groups.
LEMMA GroupsOf ==
  ASSUME NEW T, NEW s \in Seq(T)
  PROVE  GroupsAre(T, s)
<1> DEFINE m == Len(s)
           n == (m + WIDTH - 1) \div WIDTH
           g == Groups(s)
<1>1. m \in Nat /\ n \in Nat /\ Covers(n, m)
  BY GroupCount
<1>2. g = [i \in 1..n |-> Group(s, i)]
  BY DEF Groups
<1> HIDE DEF n, g
<1>3. DOMAIN g = 1..n /\ Len(g) = n /\ \A i \in 1..n : g[i] = Group(s, i)
  BY <1>1, <1>2
<1>4. ASSUME NEW i \in 1..n PROVE Group(s, i) \in Seq(T)
  <2> DEFINE p == i - 1
  <2>1. p \in Nat /\ p < n /\ p + 1 = i
    BY <1>1
  <2> HIDE DEF p
  <2>2. p * WIDTH + WIDTH <= n * WIDTH /\ p * WIDTH \in Nat /\ n * WIDTH \in Nat
    BY <1>1, <2>1, ProductsApart
  <2>3. WIDTH \in Nat
    BY WidthIs
  <2>4. p * WIDTH < m
    <3> DEFINE a == p * WIDTH
               b == n * WIDTH
    <3>1. a \in Nat /\ b \in Nat /\ a + WIDTH <= b /\ b < m + WIDTH
      BY <1>1, <2>2 DEF Covers
    <3> HIDE DEF a, b, m
    <3>2. a < m
      BY <1>1, <2>3, <3>1
    <3> QED  BY <3>2 DEF a
  <2>5. Group(s, p + 1) \in Seq(T)
    BY <2>1, <2>4, GroupIs
  <2> QED  BY <2>1, <2>5
<1> QED  BY <1>1, <1>3, <1>4 DEF GroupsAre, g

LeafParts(s) == [i \in DOMAIN Groups(s) |-> Leaf(Groups(s)[i])]
NodeParts(s) == [i \in DOMAIN Groups(s) |-> Node(Groups(s)[i])]

\* The level of the leaves.
LEMMA LeafLevel ==
  ASSUME NEW c, Context(c), NEW T, NEW s \in Seq(T)
  PROVE  LevelMade(c, Len(s), LeafParts(s), AllocLevel(c, s, Leaf))
<1> DEFINE parts == LeafParts(s)
           n == Len(Groups(s))
<1>1. GroupsAre(T, s)
  BY GroupsOf
<1>2. /\ n \in Nat /\ DOMAIN Groups(s) = 1..n /\ Covers(n, Len(s))
      /\ \A i \in 1..n : Groups(s)[i] \in Seq(T)
  BY <1>1 DEF GroupsAre
<1>3. AllocLevel(c, s, Leaf) = AllocEach(c, parts)
  BY DEF AllocLevel, LeafParts
<1> HIDE DEF n
<1>4. parts = [i \in 1..n |-> Leaf(Groups(s)[i])]
  BY <1>2 DEF LeafParts
<1> HIDE DEF parts
<1> DEFINE P == {Leaf(Groups(s)[i]) : i \in 1..n}
<1>5. parts \in Seq(P) /\ Len(parts) = n /\ \A j \in 1..n : parts[j] = Leaf(Groups(s)[j])
  <2>1. \A i \in 1..n : Leaf(Groups(s)[i]) \in P
    OBVIOUS
  <2> HIDE DEF P
  <2>2. parts \in [1..n -> P]
    BY <1>4, <2>1
  <2>3. parts \in Seq(P) /\ Len(parts) = n
    BY <1>2, <2>2
  <2> QED  BY <1>4, <2>3
<1> HIDE DEF P
<1>6. \A j \in 1..Len(parts) : VectorBytes(parts[j]) \in Nat
  BY <1>2, <1>5, LeafBytes
<1>7. LevelMade(c, Len(s), parts, AllocEach(c, parts))
  BY <1>2, <1>5, <1>6, LevelWritten
<1> QED  BY <1>3, <1>7 DEF parts

\* The level of the parents of a level.
LEMMA NodeLevel ==
  ASSUME NEW c, Context(c), NEW s \in Seq(Nat)
  PROVE  LevelMade(c, Len(s), NodeParts(s), AllocLevel(c, s, Node))
<1> DEFINE parts == NodeParts(s)
           n == Len(Groups(s))
<1>1. GroupsAre(Nat, s)
  BY GroupsOf
<1>2. /\ n \in Nat /\ DOMAIN Groups(s) = 1..n /\ Covers(n, Len(s))
      /\ \A i \in 1..n : Groups(s)[i] \in Seq(Nat)
  BY <1>1 DEF GroupsAre
<1>3. AllocLevel(c, s, Node) = AllocEach(c, parts)
  BY DEF AllocLevel, NodeParts
<1> HIDE DEF n
<1>4. parts = [i \in 1..n |-> Node(Groups(s)[i])]
  BY <1>2 DEF NodeParts
<1> HIDE DEF parts
<1> DEFINE P == {Node(Groups(s)[i]) : i \in 1..n}
<1>5. parts \in Seq(P) /\ Len(parts) = n /\ \A j \in 1..n : parts[j] = Node(Groups(s)[j])
  <2>1. \A i \in 1..n : Node(Groups(s)[i]) \in P
    OBVIOUS
  <2> HIDE DEF P
  <2>2. parts \in [1..n -> P]
    BY <1>4, <2>1
  <2>3. parts \in Seq(P) /\ Len(parts) = n
    BY <1>2, <2>2
  <2> QED  BY <1>4, <2>3
<1> HIDE DEF P
<1>6. \A j \in 1..Len(parts) : VectorBytes(parts[j]) \in Nat
  BY <1>2, <1>5, NodeBytes
<1>7. LevelMade(c, Len(s), parts, AllocEach(c, parts))
  BY <1>2, <1>5, <1>6, LevelWritten
<1> QED  BY <1>3, <1>7 DEF parts

\* A place of a level has the group of its number.
LEMMA PartsOfPlaces ==
  ASSUME NEW T, NEW s \in Seq(T), NEW L \in Seq(Nat), Covers(Len(L), Len(s)), NEW p \in Places(L)
  PROVE  LeafParts(s)[p + 1] = Leaf(Group(s, p + 1)) /\ NodeParts(s)[p + 1] = Node(Group(s, p + 1))
<1> DEFINE n == Len(Groups(s))
<1>1. GroupsAre(T, s)
  BY GroupsOf
<1>2. n \in Nat /\ Len(L) \in Nat /\ Len(s) \in Nat /\ Covers(n, Len(s))
  BY <1>1 DEF GroupsAre
<1>3. Len(L) = n
  BY <1>2, CoversOnce
<1>4. p + 1 \in DOMAIN Groups(s)
  BY <1>1, <1>2, <1>3 DEF GroupsAre, Places
<1> QED  BY <1>1, <1>4 DEF GroupsAre, LeafParts, NodeParts

\* A level that covers more than one is shorter, and no level is empty.
LEMMA CoverShrinks ==
  ASSUME NEW n \in Nat, NEW m \in Nat, Covers(n, m)
  PROVE  (1 <= m => 1 <= n) /\ (2 <= m => n < m)
<1>1. WIDTH \in Nat /\ 2 <= WIDTH /\ 0 * WIDTH = 0
  BY WidthIs
<1>2. 1 <= m => 1 <= n
  BY <1>1 DEF Covers
<1>3. ASSUME 2 <= m, m <= n PROVE FALSE
  <2> DEFINE p == m - 1
             a == p * WIDTH
             b == n * WIDTH
  <2>1. p \in Nat /\ p < n /\ 1 <= p
    BY <1>3
  <2> HIDE DEF p
  <2>2. a \in Nat /\ b \in Nat /\ a + WIDTH <= b /\ b < m + WIDTH
    BY <2>1, ProductsApart DEF Covers
  <2>3. 2 * p <= a
    <3>1. \A x, w \in Nat : 2 <= w => 2 * x <= x * w
      <4> TAKE x, w \in Nat
      <4> HAVE 2 <= w
      <4>1. w = 2 + (w - 2) /\ w - 2 \in Nat
        OBVIOUS
      <4>2. \A y, z \in Nat : y * (2 + z) = 2 * y + y * z /\ y * z \in Nat
        OBVIOUS
      <4>3. x * w = 2 * x + x * (w - 2) /\ x * (w - 2) \in Nat
        BY <4>1, <4>2
      <4> QED  BY <4>3
    <3> QED  BY <1>1, <2>1, <3>1
  <2> HIDE DEF a, b
  <2>4. a < m
    BY <1>1, <2>2
  <2>5. m = p + 1
    BY DEF p
  <2> QED  BY <2>1, <2>2, <2>3, <2>4, <2>5
<1> QED  BY <1>2, <1>3

-----------------------------------------------------------------------------
\* A trie of the elements q under a level that may have to be raised further, of new blocks.
RaisedTo(c, q, r, N, top, A) ==
  /\ top \in Nat
  /\ Takes(c, r.ctx, A, {})
  /\ r.level \in Seq(Nat) /\ 1 <= Len(r.level)
  /\ r.ctx.err = NoError =>
       /\ TrieIn(r.ctx, N, top, q)
       /\ N[top] = r.level /\ r.shift = BITS * top
       /\ Blocks(N, top) = A

IsRaised(c, q, r) == \E N, top, A : RaisedTo(c, q, r, N, top, A)

\* The leaves are such a level.
LEMMA LeavesRaised ==
  ASSUME NEW c, Context(c), NEW T, NEW s \in Seq(T), s # <<>>,
         NEW got, got = AllocLevel(c, s, Leaf)
  PROVE  IsRaised(c, s, [ctx |-> got.ctx, level |-> got.at, shift |-> 0])
<1> DEFINE L == got.at
           N == OneLevel(L)
           r == [ctx |-> got.ctx, level |-> L, shift |-> 0]
<1>1. LevelMade(c, Len(s), LeafParts(s), got)
  BY LeafLevel
<1>2. r.ctx = got.ctx /\ r.level = L /\ r.shift = 0 /\ BITS * 0 = 0 /\ 0 \in Nat /\ N[0] = L
  BY TrieAssumption DEF OneLevel
<1> HIDE DEF r, N, L
<1>3. /\ Takes(c, got.ctx, ToSet(L), {})
      /\ L \in Seq(Nat) /\ Covers(Len(L), Len(s))
      /\ {L[p + 1] : p \in Places(L)} = ToSet(L)
      /\ got.ctx.err = NoError =>
           /\ \A p \in Places(L) : /\ L[p + 1] \in InUse(got.ctx.alloc) \ InUse(c.alloc)
                                   /\ got.ctx.heap[L[p + 1]] = LeafParts(s)[p + 1]
           /\ \A a, b \in Places(L) : L[a + 1] = L[b + 1] => a = b
  BY <1>1 DEF LevelMade, L
<1>4. 1 <= Len(L)
  <2>1. Len(s) \in Nat /\ 1 <= Len(s) /\ Len(L) \in Nat
    BY <1>3
  <2> QED  BY <1>3, <2>1, CoverShrinks
<1>5. ASSUME got.ctx.err = NoError
      PROVE  TrieIn(got.ctx, N, 0, s) /\ Blocks(N, 0) = ToSet(L)
  <2>1. \A p \in Places(L) : /\ L[p + 1] \in InUse(got.ctx.alloc)
                             /\ got.ctx.heap[L[p + 1]] = Leaf(Group(s, p + 1))
    BY <1>3, <1>5, PartsOfPlaces
  <2>2. LeavesAreTrie(got.ctx, L, s)
    BY <1>3, <1>5, <2>1, LeavesAre
  <2> QED  BY <1>3, <2>2 DEF LeavesAreTrie, N
<1>6. RaisedTo(c, s, r, N, 0, ToSet(L))
  BY <1>2, <1>3, <1>4, <1>5 DEF RaisedTo
<1>7. IsRaised(c, s, r)
  BY <1>6 DEF IsRaised
<1> QED  BY <1>7 DEF r, L

\* And so is the level of their parents, which is shorter.
ParentsRaise(c, q, r, u) == IsRaised(c, q, u) /\ Len(u.level) < Len(r.level)

\* Parents puts a shorter level on a trie.
LEMMA ParentsAre ==
  ASSUME NEW c, Context(c), NEW q, NEW r, IsRaised(c, q, r), Len(r.level) # 1
  PROVE  ParentsRaise(c, q, r, Parents(r))
<1>1. PICK N, top, A : RaisedTo(c, q, r, N, top, A)
  BY DEF IsRaised
<1>2. /\ top \in Nat /\ Takes(c, r.ctx, A, {})
      /\ r.level \in Seq(Nat) /\ 1 <= Len(r.level)
      /\ r.ctx.err = NoError =>
           /\ TrieIn(r.ctx, N, top, q)
           /\ N[top] = r.level /\ r.shift = BITS * top
           /\ Blocks(N, top) = A
  BY <1>1 DEF RaisedTo
<1> DEFINE got == AllocLevel(r.ctx, r.level, Node)
           L == got.at
           M == AddLevel(N, top, L)
           u == Parents(r)
<1>3. u = [ctx |-> got.ctx, level |-> L, shift |-> r.shift + BITS]
  BY DEF Parents, Then
<1>4. Context(r.ctx)
  BY <1>2 DEF Takes, Extends
<1>5. LevelMade(r.ctx, Len(r.level), NodeParts(r.level), got)
  BY <1>2, <1>4, NodeLevel
<1> HIDE DEF u, got
<1>6. u.ctx = got.ctx /\ u.level = L /\ u.shift = r.shift + BITS
  BY <1>3
<1> HIDE DEF M, L
<1>7. /\ Takes(r.ctx, got.ctx, ToSet(L), {})
      /\ L \in Seq(Nat) /\ Covers(Len(L), Len(r.level))
      /\ {L[p + 1] : p \in Places(L)} = ToSet(L)
      /\ got.ctx.err = NoError =>
           /\ \A p \in Places(L) :
                /\ L[p + 1] \in InUse(got.ctx.alloc) \ InUse(r.ctx.alloc)
                /\ got.ctx.heap[L[p + 1]] = NodeParts(r.level)[p + 1]
           /\ \A a, b \in Places(L) : L[a + 1] = L[b + 1] => a = b
  BY <1>5 DEF LevelMade, L
<1>8. 1 <= Len(L) /\ Len(L) < Len(r.level)
  <2> DEFINE m == Len(r.level)
             n == Len(L)
  <2>1. m \in Nat /\ 1 <= m /\ m # 1 /\ n \in Nat /\ Covers(n, m)
    BY <1>2, <1>7
  <2> HIDE DEF m, n
  <2>2. 2 <= m
    BY <2>1
  <2>3. 1 <= n /\ n < m
    BY <2>1, <2>2, CoverShrinks
  <2> QED  BY <2>3 DEF m, n
<1>9. Takes(c, got.ctx, A \union ToSet(L), {})
  <2>1. Takes(c, got.ctx, A \union ToSet(L), {} \union {})
    BY <1>2, <1>7, TakesTwice
  <2>2. {} \union {} = {}
    OBVIOUS
  <2> QED  BY <2>1, <2>2
<1>10. ASSUME got.ctx.err = NoError
       PROVE  /\ TrieIn(got.ctx, M, top + 1, q)
              /\ M[top + 1] = L /\ u.shift = BITS * (top + 1)
              /\ Blocks(M, top + 1) = A \union ToSet(L)
  <2>1. r.ctx.err = NoError /\ Extends(r.ctx, got.ctx)
    BY <1>7, <1>10 DEF Takes
  <2>2. /\ TrieIn(r.ctx, N, top, q) /\ N[top] = r.level /\ r.shift = BITS * top
        /\ Blocks(N, top) = A
    BY <1>2, <2>1
  <2>3. TrieIn(got.ctx, N, top, q)
    BY <2>1, <2>2, TrieStays
  <2>4. BlocksInUse(r.ctx, N, top)
    BY <2>2, TrieBlocks
  <2>5. ASSUME NEW p \in Places(L)
        PROVE  /\ L[p + 1] \in InUse(got.ctx.alloc) \ Blocks(N, top)
               /\ got.ctx.heap[L[p + 1]] = Node(Group(N[top], p + 1))
    <3>1. NodeParts(r.level)[p + 1] = Node(Group(r.level, p + 1))
      BY <1>2, <1>7, PartsOfPlaces
    <3> QED  BY <1>7, <1>10, <2>2, <2>4, <3>1 DEF BlocksInUse
  <2>6. LevelIsAdded(got.ctx, N, top, q, L)
    <3>1. Covers(Len(L), Len(N[top]))
      BY <1>7, <2>2
    <3>2. \A a, b \in Places(L) : L[a + 1] = L[b + 1] => a = b
      BY <1>7, <1>10
    <3> QED  BY <1>7, <2>3, <2>5, <3>1, <3>2, LevelAdded
  <2>7. M[top + 1] = L
    BY <1>2 DEF M, AddLevel
  <2>8. u.shift = BITS * (top + 1)
    <3>1. BITS \in Nat
      BY TrieAssumption
    <3>2. \A x, w \in Nat : w * (x + 1) = w * x + w
      OBVIOUS
    <3> QED  BY <1>2, <1>6, <2>2, <3>1, <3>2
  <2> QED  BY <1>7, <2>2, <2>6, <2>7, <2>8 DEF LevelIsAdded, M
<1>11. RaisedTo(c, q, u, M, top + 1, A \union ToSet(L))
  <2>1. top + 1 \in Nat
    BY <1>2
  <2> QED  BY <1>6, <1>7, <1>8, <1>9, <1>10, <2>1 DEF RaisedTo
<1>12. IsRaised(c, q, u)
  BY <1>11 DEF IsRaised
<1> QED  BY <1>6, <1>8, <1>12 DEF ParentsRaise, u

-----------------------------------------------------------------------------
RaiseStep(c, level, F, k) ==
  IF k = 0 THEN [ctx |-> c, level |-> level, shift |-> 0]
  ELSE IF Len(F[k - 1].level) = 1 THEN F[k - 1] ELSE Parents(F[k - 1])

IsRaise(c, level, n, F) == F = [k \in 0..n |-> RaiseStep(c, level, F, k)]

\* The levels exist, for any number of turns.
LEMMA RaiseUp ==
  ASSUME NEW c, NEW level, NEW n \in Nat
  PROVE  \E F : IsRaise(c, level, n, F)
<1> DEFINE Step(F, k) == RaiseStep(c, level, F, k)
           S == {m \in Nat : \E F : F = [k \in 0..m |-> Step(F, k)]}
<1>1. \A F, G, k : (k = 0 \/ F[k - 1] = G[k - 1]) => Step(F, k) = Step(G, k)
  BY DEF RaiseStep
<1> HIDE DEF Step
<1>2. 0 \in S
  <2> DEFINE F == [k \in 0..0 |-> Step(<<>>, 0)]
  <2>1. F = [k \in 0..0 |-> Step(F, k)]
    <3>1. Step(<<>>, 0) = Step(F, 0)
      BY <1>1
    <3> HIDE DEF Step
    <3> QED  BY <3>1
  <2> HIDE DEF F
  <2>2. \E H : H = [k \in 0..0 |-> Step(H, k)]
    BY <2>1, Zenon
  <2> QED  BY <2>2
<1>3. ASSUME NEW m \in Nat, m \in S PROVE m + 1 \in S
  <2>1. PICK F : F = [k \in 0..m |-> Step(F, k)]
    BY <1>3
  <2> DEFINE G == [k \in 0..(m + 1) |-> IF k = m + 1 THEN Step(F, k) ELSE F[k]]
  <2>2. ASSUME NEW k \in 0..(m + 1) PROVE G[k] = Step(G, k)
    <3>1. k = 0 \/ (k - 1 \in 0..m /\ k - 1 \in 0..(m + 1) /\ k - 1 # m + 1)
      OBVIOUS
    <3>2. k = 0 \/ G[k - 1] = F[k - 1]
      BY <3>1
    <3>3. Step(F, k) = Step(G, k)
      BY <1>1, <3>2
    <3>4. k # m + 1 => k \in 0..m
      OBVIOUS
    <3>5. k # m + 1 => F[k] = Step(F, k)
      BY <2>1, <3>4
    <3>6. G[k] = IF k = m + 1 THEN Step(F, k) ELSE F[k]
      OBVIOUS
    <3> QED  BY <3>3, <3>5, <3>6
  <2>3. G = [k \in 0..(m + 1) |-> Step(G, k)]
    <3>1. G = [k \in 0..(m + 1) |-> G[k]]
      OBVIOUS
    <3> HIDE DEF G
    <3> QED  BY <2>2, <3>1
  <2> HIDE DEF G
  <2>4. \E H : H = [k \in 0..(m + 1) |-> Step(H, k)]
    BY <2>3, Zenon
  <2> QED  BY <2>4
<1>4. n \in S
  <2> HIDE DEF S
  <2> QED  BY <1>2, <1>3, SetInduction
<1> QED  BY <1>4 DEF Step, IsRaise

\* What was raised after so many turns.
RaisedAfter(c, level, n) == CHOOSE F : IsRaise(c, level, n, F)

RaiseRuns(c, level, F) ==
  /\ Raise(c, level) = F[Len(level)]
  /\ F[0] = [ctx |-> c, level |-> level, shift |-> 0]
  /\ \A k \in 1..Len(level) :
       F[k] = IF Len(F[k - 1].level) = 1 THEN F[k - 1] ELSE Parents(F[k - 1])

\* Raise, one turn after the other.
LEMMA RaiseSteps ==
  ASSUME NEW c, NEW level \in Seq(Nat)
  PROVE  RaiseRuns(c, level, RaisedAfter(c, level, Len(level)))
<1> DEFINE n == Len(level)
           F == RaisedAfter(c, level, n)
<1>1. Raise(c, level) = F[n]
  BY DEF Raise, RaisedAfter, IsRaise, RaiseStep, Then
<1>2. n \in Nat
  OBVIOUS
<1> HIDE DEF n
<1>3. F = [k \in 0..n |-> RaiseStep(c, level, F, k)]
  BY <1>2, RaiseUp DEF RaisedAfter, IsRaise
<1> HIDE DEF F
<1>4. F[0] = [ctx |-> c, level |-> level, shift |-> 0]
  BY <1>2, <1>3 DEF RaiseStep
<1>5. ASSUME NEW k \in 1..n
      PROVE  F[k] = IF Len(F[k - 1].level) = 1 THEN F[k - 1] ELSE Parents(F[k - 1])
  <2>1. k \in 0..n /\ k # 0
    BY <1>2
  <2> QED  BY <1>3, <2>1 DEF RaiseStep
<1> QED  BY <1>1, <1>4, <1>5 DEF F, n, RaiseRuns

\* As many turns as the level has blocks are enough.
RaisedFully(c, q, r) == IsRaised(c, q, r) /\ Len(r.level) = 1

\* Raise ends with a root.
LEMMA RaiseIs ==
  ASSUME NEW c, Context(c), NEW q, NEW d, NEW level \in Seq(Nat),
         IsRaised(c, q, [ctx |-> d, level |-> level, shift |-> 0])
  PROVE  RaisedFully(c, q, Raise(d, level))
<1> DEFINE n == Len(level)
           F == RaisedAfter(d, level, n)
           Good(k) == /\ IsRaised(c, q, F[k])
                      /\ Len(F[k].level) = 1 \/ Len(F[k].level) + k <= n
           S == {k \in Nat : k <= n => Good(k)}
<1>1. /\ Raise(d, level) = F[n]
      /\ F[0] = [ctx |-> d, level |-> level, shift |-> 0]
      /\ \A k \in 1..n : F[k] = IF Len(F[k - 1].level) = 1 THEN F[k - 1] ELSE Parents(F[k - 1])
  <2>1. RaiseRuns(d, level, F)
    BY RaiseSteps
  <2> HIDE DEF F
  <2> QED  BY <2>1 DEF RaiseRuns
<1>2. n \in Nat
  OBVIOUS
<1> HIDE DEF F
<1>3. ASSUME NEW r, IsRaised(c, q, r) PROVE Len(r.level) \in Nat /\ 1 <= Len(r.level)
  BY <1>3 DEF IsRaised, RaisedTo
<1>4. 0 \in S
  <2>1. F[0].level = level /\ n + 0 <= n
    BY <1>1, <1>2
  <2>2. IsRaised(c, q, F[0])
    BY <1>1
  <2> QED  BY <2>1, <2>2
<1> HIDE DEF n, Good
<1>5. ASSUME NEW k \in Nat, k \in S PROVE k + 1 \in S
  <2> SUFFICES ASSUME k + 1 <= n PROVE Good(k + 1)
    OBVIOUS
  <2> DEFINE l == k + 1
             p == F[k]
             f == F[l]
  <2>1. l \in 1..n /\ l - 1 = k /\ k <= n /\ l \in Nat
    BY <1>2
  <2>2. IsRaised(c, q, p) /\ (Len(p.level) = 1 \/ Len(p.level) + k <= n)
    BY <1>5, <2>1 DEF Good
  <2>3. f = IF Len(p.level) = 1 THEN p ELSE Parents(p)
    BY <1>1, <2>1
  <2>4. l = k + 1
    OBVIOUS
  <2> HIDE DEF l, p, f
  <2>5. CASE Len(p.level) = 1
    <3>1. f = p
      BY <2>3, <2>5
    <3>2. IsRaised(c, q, f) /\ (Len(f.level) = 1 \/ Len(f.level) + l <= n)
      BY <2>2, <2>5, <3>1
    <3> QED  BY <3>2 DEF f, l, Good
  <2>6. CASE Len(p.level) # 1
    <3>1. ParentsRaise(c, q, p, f)
      BY <2>2, <2>3, <2>6, ParentsAre
    <3>2. IsRaised(c, q, f) /\ Len(f.level) < Len(p.level)
      BY <3>1 DEF ParentsRaise
    <3> DEFINE a == Len(p.level)
               b == Len(f.level)
    <3>3. a \in Nat /\ b \in Nat /\ a + k <= n /\ b < a
      BY <1>3, <2>2, <2>6, <3>2
    <3> HIDE DEF a, b
    <3>4. b + l <= n
      BY <1>2, <2>4, <3>3
    <3> QED  BY <3>2, <3>4 DEF f, l, Good, b
  <2> QED  BY <2>5, <2>6
<1>6. n \in S
  <2> HIDE DEF S
  <2> QED  BY <1>2, <1>4, <1>5, SetInduction
<1>7. Good(n)
  BY <1>2, <1>6
<1>8. Len(F[n].level) = 1
  <2>1. Len(F[n].level) \in Nat /\ 1 <= Len(F[n].level)
    BY <1>3, <1>7 DEF Good
  <2> QED  BY <1>2, <1>7, <2>1 DEF Good
<1> QED  BY <1>1, <1>7, <1>8 DEF RaisedFully, Good

-----------------------------------------------------------------------------
\* The elements of a vector that is built in a pass: full leaves, and the tail.
Split(T, slots, n, q, t) ==
  /\ n \in Nat /\ tailOffset(Len(slots)) = n * WIDTH
  /\ q \in Seq(T) /\ t \in Seq(T)
  /\ Len(q) = n * WIDTH /\ 1 <= Len(t) /\ Len(t) <= WIDTH
  /\ Len(q) + Len(t) = Len(slots) /\ slots = q \o t

SplitAt(T, slots) ==
  \E n : Split(T, slots, n, SubSeq(slots, 1, tailOffset(Len(slots))),
               SubSeq(slots, tailOffset(Len(slots)) + 1, Len(slots)))

\* The slots before the tail fill their leaves.
LEMMA SlotsSplit ==
  ASSUME NEW T, NEW slots \in Seq(T), slots # <<>>
  PROVE  SplitAt(T, slots)
<1> DEFINE m == Len(slots)
           full == tailOffset(m)
           n == (m - 1) \div WIDTH
           f == (m - 1) % WIDTH
           q == SubSeq(slots, 1, full)
           t == SubSeq(slots, full + 1, m)
<1>1. m \in Nat /\ 1 <= m /\ m - 1 \in Nat /\ m # 0
  OBVIOUS
<1>2. WIDTH \in Nat \ {0}
  BY WidthIs
<1>3. n \in Nat /\ f \in 0..(WIDTH - 1) /\ m - 1 = WIDTH * n + f
  <2> DEFINE x == m - 1
  <2>1. x \in Nat
    BY <1>1
  <2> HIDE DEF x
  <2>2. x \div WIDTH \in Nat /\ x % WIDTH \in 0..(WIDTH - 1)
        /\ x = WIDTH * (x \div WIDTH) + (x % WIDTH)
    BY <1>2, <2>1, DivIs
  <2> QED  BY <2>2 DEF x
<1>4. full = m - 1 - f
  BY <1>1 DEF tailOffset
<1>5. WIDTH * n = n * WIDTH /\ n * WIDTH \in Nat
  <2>1. \A x, w \in Nat : w * x = x * w /\ x * w \in Nat
    OBVIOUS
  <2> HIDE DEF n
  <2> QED  BY <1>2, <1>3, <2>1
<1> DEFINE b == n * WIDTH
<1>6. b \in Nat /\ f \in Nat /\ f < WIDTH /\ m - 1 = b + f
  <2> HIDE DEF n, f, m
  <2>1. m - 1 = b + f
    BY <1>3, <1>5
  <2> HIDE DEF b
  <2> QED  BY <1>2, <1>3, <1>5, <2>1 DEF b
<1> HIDE DEF n, f, b, full
<1>7. full = b /\ full \in Nat /\ full + 1 <= m /\ m - full = f + 1 /\ full <= m
  <2> HIDE DEF m
  <2> QED  BY <1>1, <1>4, <1>6
<1>8. q \in Seq(T) /\ Len(q) = full /\ \A j \in 1..full : q[j] = slots[j]
  BY <1>1, <1>7
<1>9. t \in Seq(T) /\ Len(t) = m - full /\ \A j \in 1..(m - full) : t[j] = slots[full + j]
  BY <1>1, <1>7
<1> HIDE DEF q, t
<1>10. slots = q \o t
  <2>1. IsJoin(T, q, t, slots)
    <3>1. Len(slots) = Len(q) + Len(t)
      <4> HIDE DEF m
      <4>1. m = Len(q) + Len(t)
        BY <1>1, <1>7, <1>8, <1>9
      <4> QED  BY <4>1 DEF m
    <3> QED  BY <1>8, <1>9, <3>1 DEF IsJoin
  <2> QED  BY <1>8, <1>9, <2>1, JoinsEqual
<1>11. 1 <= Len(t) /\ Len(t) <= WIDTH /\ Len(q) + Len(t) = m
  <2> HIDE DEF m
  <2> QED  BY <1>1, <1>2, <1>6, <1>7, <1>8, <1>9
<1>12. Split(T, slots, n, q, t)
  BY <1>3, <1>7, <1>8, <1>9, <1>10, <1>11 DEF Split, b, full
<1>13. SplitAt(T, slots)
  BY <1>12 DEF SplitAt, q, t, full
<1> QED  BY <1>13

\* The trie of a vector that is built in a pass.
TrieMadeOf(c, q, r, N, top, A) ==
  /\ Takes(c, r.ctx, A, {})
  /\ r.ctx.err = NoError =>
       /\ TrieIn(r.ctx, N, top, q)
       /\ Blocks(N, top) = A
       /\ IF q = <<>> THEN r.level[1] = 0 /\ top = 0
          ELSE r.level[1] = Block(N, top, 0) /\ r.shift = BITS * top /\ Len(N[top]) = 1

TrieMade(c, q, r) == \E N, top, A : TrieMadeOf(c, q, r, N, top, A)

\* RaiseLeaves makes the trie.
LEMMA RaiseLeavesIs ==
  ASSUME NEW c, Context(c), NEW T, NEW q \in Seq(T)
  PROVE  TrieMade(c, q, RaiseLeaves(c, q))
<1>1. CASE q = <<>>
  <2> DEFINE r == [ctx |-> c, level |-> <<0>>, shift |-> 0]
             N == OneLevel(<<>>)
  <2>1. RaiseLeaves(c, q) = r
    BY <1>1 DEF RaiseLeaves
  <2>2. r.ctx = c /\ r.level[1] = 0
    OBVIOUS
  <2> HIDE DEF r, N
  <2>3. <<>> \in Seq(Nat) /\ Len(<<>>) = 0 /\ Places(<<>>) = {} /\ Len(q) = 0
    BY <1>1 DEF Places
  <2>4. Covers(0, 0)
    <3>1. WIDTH \in Nat /\ 2 <= WIDTH /\ 0 * WIDTH = 0
      BY WidthIs
    <3> QED  BY <3>1 DEF Covers
  <2>5. LeavesAreTrie(c, <<>>, q)
    BY <2>3, <2>4, LeavesAre
  <2>6. TrieIn(c, N, 0, q) /\ Blocks(N, 0) = {}
    BY <2>3, <2>5 DEF LeavesAreTrie, N
  <2>7. TrieMadeOf(c, q, r, N, 0, {})
    BY <1>1, <2>2, <2>6, TakesNothing DEF TrieMadeOf
  <2>8. TrieMade(c, q, r)
    BY <2>7 DEF TrieMade
  <2> QED  BY <2>1, <2>8
<1>2. CASE q # <<>>
  <2> DEFINE got == AllocLevel(c, q, Leaf)
             r == Raise(got.ctx, got.at)
  <2>1. RaiseLeaves(c, q) = r
    BY <1>2 DEF RaiseLeaves, Then
  <2>2. IsRaised(c, q, [ctx |-> got.ctx, level |-> got.at, shift |-> 0])
    BY <1>2, LeavesRaised
  <2>3. got.at \in Seq(Nat)
    <3>1. LevelMade(c, Len(q), LeafParts(q), got)
      BY LeafLevel
    <3> HIDE DEF got
    <3> QED  BY <3>1 DEF LevelMade
  <2> HIDE DEF got
  <2>4. RaisedFully(c, q, r)
    BY <2>2, <2>3, RaiseIs
  <2> HIDE DEF r
  <2>5. PICK N, top, A : RaisedTo(c, q, r, N, top, A)
    BY <2>4 DEF RaisedFully, IsRaised
  <2>6. /\ Takes(c, r.ctx, A, {})
        /\ r.ctx.err = NoError =>
             /\ TrieIn(r.ctx, N, top, q)
             /\ N[top] = r.level /\ r.shift = BITS * top
             /\ Blocks(N, top) = A
    BY <2>5 DEF RaisedTo
  <2>7. Len(r.level) = 1
    BY <2>4 DEF RaisedFully
  <2>8. r.ctx.err = NoError => r.level[1] = Block(N, top, 0) /\ Len(N[top]) = 1
    <3>1. 0 + 1 = 1
      OBVIOUS
    <3> QED  BY <2>6, <2>7, <3>1 DEF Block
  <2>9. TrieMadeOf(c, q, r, N, top, A)
    BY <1>2, <2>6, <2>8 DEF TrieMadeOf
  <2>10. TrieMade(c, q, r)
    BY <2>9 DEF TrieMade
  <2> QED  BY <2>1, <2>10
<1> QED  BY <1>1, <1>2

\* The leaves of a trie that is built in a pass are as many as the elements fill.
LEMMA LeavesCounted ==
  ASSUME NEW T, NEW q \in Seq(T), NEW n \in Nat, Len(q) = n * WIDTH,
         NEW c, NEW N, NEW top, TrieIn(c, N, top, q)
  PROVE  Len(q) = Len(N[0]) * WIDTH
<1> DEFINE m == Len(q)
           k == Len(N[0])
<1>1. top \in Nat /\ Levels(N, top, q) /\ 0 \in 0..top
  BY DEF TrieIn, Levels
<1>2. k \in Nat /\ Covers(k, m)
  <2>1. N[0] \in Seq(Nat) /\ Covers(Len(N[0]), Len(Under(N, q, 0)))
    BY <1>1 DEF Levels
  <2>2. Under(N, q, 0) = q
    BY DEF Under
  <2> QED  BY <2>1, <2>2
<1>3. m \in Nat /\ m = n * WIDTH
  OBVIOUS
<1>4. WIDTH \in Nat /\ 2 <= WIDTH
  BY WidthIs
<1> HIDE DEF m, k
<1>5. Covers(n, m)
  BY <1>3, <1>4 DEF Covers
<1>6. k = n
  BY <1>2, <1>3, <1>5, CoversOnce
<1> QED  BY <1>3, <1>6 DEF m, k

\* vectorFromSlots creates the vector of its slots.
THEOREM FromSlotsCreates ==
  ASSUME NEW c, Context(c), NEW T, NEW slots \in Seq(T)
  PROVE  Creates(T, c, vectorFromSlots(c, slots), slots)
<1>1. CASE slots = <<>>
  <2>1. vectorFromSlots(c, slots) = emptyVector(c)
    BY <1>1 DEF vectorFromSlots
  <2> QED  BY <1>1, <2>1, EmptyVectorIs
<1>2. CASE slots # <<>>
  <2> DEFINE full == tailOffset(Len(slots))
             q == SubSeq(slots, 1, full)
             t == SubSeq(slots, full + 1, Len(slots))
             g == AllocPart(c, Leaf(t))
             r == RaiseLeaves(g.ctx, q)
             m == Len(slots)
  <2>1. vectorFromSlots(c, slots) = AllocPart(r.ctx, Header(m, r.shift, r.level[1], g.at))
    BY <1>2 DEF vectorFromSlots, Then
  <2>2. PICK n : Split(T, slots, n, q, t)
    BY <1>2, SlotsSplit DEF SplitAt
  <2> HIDE DEF q, t
  <2>3. /\ n \in Nat
        /\ q \in Seq(T) /\ t \in Seq(T)
        /\ Len(q) = n * WIDTH /\ 1 <= Len(t) /\ Len(t) <= WIDTH
        /\ Len(q) + Len(t) = m /\ slots = q \o t
    BY <2>2 DEF Split
  <2>4. Wrote(c, g, {}, Leaf(t))
    BY <2>3, LeafBytes, PartAllocated
  <2> HIDE DEF g
  <2>5. /\ Takes(c, g.ctx, {g.at}, {}) /\ Context(g.ctx)
        /\ g.ctx.err = NoError => g.at \in InUse(g.ctx.alloc) /\ g.ctx.heap[g.at] = Leaf(t)
    BY <2>4 DEF Wrote, Takes, Extends
  <2>6. TrieMade(g.ctx, q, r)
    BY <2>3, <2>5, RaiseLeavesIs
  <2> HIDE DEF r
  <2>7. PICK N, top, A : TrieMadeOf(g.ctx, q, r, N, top, A)
    BY <2>6 DEF TrieMade
  <2>8. /\ Takes(g.ctx, r.ctx, A, {})
        /\ r.ctx.err = NoError =>
             /\ TrieIn(r.ctx, N, top, q)
             /\ Blocks(N, top) = A
             /\ IF q = <<>> THEN r.level[1] = 0 /\ top = 0
                ELSE r.level[1] = Block(N, top, 0) /\ r.shift = BITS * top /\ Len(N[top]) = 1
    BY <2>7 DEF TrieMadeOf
  <2>9. Takes(c, r.ctx, {g.at} \union A, {})
    <3>1. Takes(c, r.ctx, {g.at} \union A, {} \union {})
      BY <2>5, <2>8, TakesTwice
    <3>2. {} \union {} = {}
      OBVIOUS
    <3> QED  BY <3>1, <3>2
  <2>10. ASSUME r.ctx.err = NoError
         PROVE  /\ Parts(T, r.ctx, q, t, N, top, r.shift, r.level[1], g.at)
                /\ PartBlocks(t, N, top, g.at) = {g.at} \union A
    <3>1. /\ g.ctx.err = NoError /\ Extends(g.ctx, r.ctx)
          /\ A \subseteq InUse(r.ctx.alloc) \ InUse(g.ctx.alloc)
      BY <2>8, <2>10 DEF Takes
    <3>2. g.at \in InUse(g.ctx.alloc) /\ g.ctx.heap[g.at] = Leaf(t)
      BY <2>5, <3>1
    <3>3. g.at \in InUse(r.ctx.alloc) /\ r.ctx.heap[g.at] = Leaf(t)
      <4>1. /\ InUse(g.ctx.alloc) \subseteq InUse(r.ctx.alloc)
            /\ \A o \in InUse(g.ctx.alloc) : r.ctx.heap[o] = g.ctx.heap[o]
        BY <3>1, ExtendsKeeps
      <4> QED  BY <3>2, <4>1
    <3>4. g.at \in InUse(r.ctx.alloc) \ Blocks(N, top)
      BY <2>8, <2>10, <3>1, <3>2, <3>3
    <3>5. t # <<>>
      BY <2>3
    <3>6. Len(q) = Len(N[0]) * WIDTH
      BY <2>3, <2>8, <2>10, LeavesCounted
    <3>7. PartBlocks(t, N, top, g.at) = {g.at} \union A
      BY <2>8, <2>10, <3>5 DEF PartBlocks
    <3> QED  BY <2>3, <2>8, <2>10, <3>3, <3>4, <3>5, <3>6, <3>7 DEF Parts
  <2> HIDE DEF m
  <2>11. Creates(T, c, AllocPart(r.ctx, Header(m, r.shift, r.level[1], g.at)), q \o t)
    BY <2>3, <2>9, <2>10, VectorMade
  <2> QED  BY <2>1, <2>3, <2>11
<1> QED  BY <1>1, <1>2

-----------------------------------------------------------------------------
\* A script, one edit after the other.
RunStep(c, script, F, k) ==
  IF k = 0 THEN [vector |-> vectorFromSlots(c, script.from), slots |-> script.from]
  ELSE EditStep(F[k - 1], script.edits[k])

IsRun(c, script, n, F) == F = [k \in 0..n |-> RunStep(c, script, F, k)]

\* Scripts can be run, of every length.
LEMMA RunsUp ==
  ASSUME NEW c, NEW script, NEW n \in Nat
  PROVE  \E F : IsRun(c, script, n, F)
<1> DEFINE Step(F, k) == RunStep(c, script, F, k)
           S == {m \in Nat : \E F : F = [k \in 0..m |-> Step(F, k)]}
<1>1. \A F, G, k : (k = 0 \/ F[k - 1] = G[k - 1]) => Step(F, k) = Step(G, k)
  BY DEF RunStep
<1> HIDE DEF Step
<1>2. 0 \in S
  <2> DEFINE F == [k \in 0..0 |-> Step(<<>>, 0)]
  <2>1. F = [k \in 0..0 |-> Step(F, k)]
    <3>1. Step(<<>>, 0) = Step(F, 0)
      BY <1>1
    <3> HIDE DEF Step
    <3> QED  BY <3>1
  <2> HIDE DEF F
  <2>2. \E H : H = [k \in 0..0 |-> Step(H, k)]
    BY <2>1, Zenon
  <2> QED  BY <2>2
<1>3. ASSUME NEW m \in Nat, m \in S PROVE m + 1 \in S
  <2>1. PICK F : F = [k \in 0..m |-> Step(F, k)]
    BY <1>3
  <2> DEFINE G == [k \in 0..(m + 1) |-> IF k = m + 1 THEN Step(F, k) ELSE F[k]]
  <2>2. ASSUME NEW k \in 0..(m + 1) PROVE G[k] = Step(G, k)
    <3>1. k = 0 \/ (k - 1 \in 0..m /\ k - 1 \in 0..(m + 1) /\ k - 1 # m + 1)
      OBVIOUS
    <3>2. k = 0 \/ G[k - 1] = F[k - 1]
      BY <3>1
    <3>3. Step(F, k) = Step(G, k)
      BY <1>1, <3>2
    <3>4. k # m + 1 => k \in 0..m
      OBVIOUS
    <3>5. k # m + 1 => F[k] = Step(F, k)
      BY <2>1, <3>4
    <3>6. G[k] = IF k = m + 1 THEN Step(F, k) ELSE F[k]
      OBVIOUS
    <3> QED  BY <3>3, <3>5, <3>6
  <2>3. G = [k \in 0..(m + 1) |-> Step(G, k)]
    <3>1. G = [k \in 0..(m + 1) |-> G[k]]
      OBVIOUS
    <3> HIDE DEF G
    <3> QED  BY <2>2, <3>1
  <2> HIDE DEF G
  <2>4. \E H : H = [k \in 0..(m + 1) |-> Step(H, k)]
    BY <2>3, Zenon
  <2> QED  BY <2>4
<1>4. n \in S
  <2> HIDE DEF S
  <2> QED  BY <1>2, <1>3, SetInduction
<1> QED  BY <1>4 DEF Step, IsRun

\* What there is after so many edits.
RunTo(c, script, n) == CHOOSE F : IsRun(c, script, n, F)

ScriptRuns(c, script, n, F) ==
  /\ RunScript(c, script) = F[n]
  /\ F[0] = [vector |-> vectorFromSlots(c, script.from), slots |-> script.from]
  /\ \A k \in 1..n : F[k] = EditStep(F[k - 1], script.edits[k])

\* RunScript, one edit after the other.
LEMMA RunSteps ==
  ASSUME NEW c, NEW script, Len(script.edits) \in Nat
  PROVE  ScriptRuns(c, script, Len(script.edits), RunTo(c, script, Len(script.edits)))
<1> DEFINE n == Len(script.edits)
           F == RunTo(c, script, n)
<1>1. RunScript(c, script) = F[n]
  BY DEF RunScript, RunTo, IsRun, RunStep, Then
<1>2. n \in Nat
  OBVIOUS
<1> HIDE DEF n
<1>3. F = [k \in 0..n |-> RunStep(c, script, F, k)]
  BY <1>2, RunsUp DEF RunTo, IsRun
<1> HIDE DEF F
<1>4. F[0] = [vector |-> vectorFromSlots(c, script.from), slots |-> script.from]
  BY <1>2, <1>3 DEF RunStep
<1>5. ASSUME NEW k \in 1..n
      PROVE  F[k] = EditStep(F[k - 1], script.edits[k])
  <2>1. k \in 0..n /\ k # 0
    BY <1>2
  <2> QED  BY <1>3, <2>1 DEF RunStep
<1> QED  BY <1>1, <1>4, <1>5 DEF F, n, ScriptRuns

\* At the end of a script the vector is whole.
LEMMA RunIs ==
  ASSUME NEW c, Context(c), c.allocated = <<>>, c.retired = <<>>, NEW T, NEW script,
         script \in [from : Seq(T), edits : Seq([index : Nat, slot : T])]
  PROVE  LET r == RunScript(c, script) IN Whole(T, c, r.vector, r.slots)
<1> DEFINE n == Len(script.edits)
           F == RunTo(c, script, n)
           S == {k \in Nat : k <= n => Whole(T, c, F[k].vector, F[k].slots)}
<1>1. /\ script.from \in Seq(T) /\ n \in Nat
      /\ \A k \in 1..n : script.edits[k].index \in Nat /\ script.edits[k].slot \in T
  <2>1. script.from \in Seq(T) /\ script.edits \in Seq([index : Nat, slot : T])
    OBVIOUS
  <2> DEFINE edits == script.edits
             E == [index : Nat, slot : T]
  <2>2. edits \in Seq(E)
    BY <2>1
  <2> HIDE DEF edits, E
  <2>3. Len(edits) \in Nat /\ \A k \in 1..Len(edits) : edits[k] \in E
    BY <2>2
  <2>4. \A e \in E : e.index \in Nat /\ e.slot \in T
    BY DEF E
  <2> QED  BY <2>1, <2>3, <2>4 DEF edits
<1>2. ScriptRuns(c, script, n, F)
  BY <1>1, RunSteps
<1> HIDE DEF n, F
<1>3. 0 \in S
  <2> DEFINE v == vectorFromSlots(c, script.from)
  <2>1. Creates(T, c, v, script.from)
    BY <1>1, FromSlotsCreates
  <2>2. F[0] = [vector |-> v, slots |-> script.from]
    BY <1>2 DEF ScriptRuns
  <2> HIDE DEF v
  <2>3. Whole(T, c, v, script.from)
    BY <2>1, CreatedWhole
  <2> QED  BY <2>2, <2>3
<1>4. ASSUME NEW k \in Nat, k \in S PROVE k + 1 \in S
  <2> SUFFICES ASSUME k + 1 <= n
               PROVE  Whole(T, c, F[k + 1].vector, F[k + 1].slots)
    OBVIOUS
  <2> DEFINE l == k + 1
             r == F[k]
             e == script.edits[l]
  <2>1. l \in 1..n /\ l - 1 = k /\ k <= n
    BY <1>1
  <2>2. Whole(T, c, r.vector, r.slots)
    BY <1>4, <2>1
  <2>3. F[l] = EditStep(r, e) /\ e.index \in Nat /\ e.slot \in T
    BY <1>1, <1>2, <2>1 DEF ScriptRuns
  <2> HIDE DEF r, e, l
  <2>4. CASE r.vector.ctx.err = NoError
    <3>1. Whole(T, c, Edited(r.vector, e), EditedSlots(r.slots, e))
      BY <2>2, <2>3, <2>4, EditedWhole
    <3>2. F[l].vector = Edited(r.vector, e) /\ F[l].slots = EditedSlots(r.slots, e)
      BY <2>3, <2>4 DEF EditStep
    <3> QED  BY <3>1, <3>2 DEF l
  <2>5. CASE r.vector.ctx.err # NoError
    <3>1. F[l] = r
      BY <2>3, <2>5 DEF EditStep
    <3> QED  BY <2>2, <3>1 DEF l
  <2> QED  BY <2>4, <2>5
<1>5. Whole(T, c, F[n].vector, F[n].slots)
  <2>1. n \in S
    <3> HIDE DEF S
    <3> QED  BY <1>1, <1>3, <1>4, SetInduction
  <2> QED  BY <1>1, <2>1
<1> QED  BY <1>2, <1>5 DEF ScriptRuns

\* A script that runs between two writes leaves what was in use as it was, and makes the
\* vector its edits say.
LEMMA ScriptFollows ==
  ASSUME NEW c, Context(c), c.allocated = <<>>, c.retired = <<>>, NEW script \in Scripts
  PROVE  Follows(c, RunScript(c, script))
<1> DEFINE r == RunScript(c, script)
<1>1. Whole(EditSlots, c, r.vector, r.slots)
  BY ScriptAssumption, RunIs
<1> HIDE DEF r
<1>2. \A o \in InUse(c.alloc) : r.vector.ctx.heap[o] = c.heap[o]
  BY <1>1 DEF Whole, Extends
<1>3. Restrict(r.vector.ctx.heap, InUse(c.alloc)) = Restrict(c.heap, InUse(c.alloc))
  BY <1>2 DEF Restrict
<1>4. r.vector.ctx.err = NoError => Holds(r.vector, r.slots)
  BY <1>1, WholeHolds
<1> QED  BY <1>3, <1>4 DEF Follows, r

\* In every state of every arena, and for every script: a vector is what its edits make of
\* a sequence, whatever of it is in the tail or in the trie, and no block of it is lost, used
\* twice, or taken from another.
THEOREM VectorsFollowEdits == LifetimeSpec => []VectorFollowsEdits
<1>1. ASSUME LifetimeInv PROVE VectorFollowsEdits
  <2> DEFINE c == newContext(ctx)
  <2>1. Context(ctx)
    BY <1>1, BaseIs
  <2>2. Context(c) /\ c.allocated = <<>>
    BY <2>1, NewContextKeeps
  <2>3. c.retired = <<>>
    BY DEF newContext
  <2> HIDE DEF c
  <2>4. \A script \in Scripts : Follows(c, RunScript(c, script))
    BY <2>2, <2>3, ScriptFollows
  <2> QED  BY <2>4 DEF VectorFollowsEdits, Then, c
<1> QED  BY <1>1, LifetimeInvariant, PTL
=============================================================================
