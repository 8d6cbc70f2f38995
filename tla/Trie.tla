-------------------------------- MODULE Trie --------------------------------
(***************************************************************************)
(* What hamt.ts and vector.ts have in common: nodes 2^BITS wide, one level *)
(* for every BITS bits of a hash or of an index, and what a lookup gives   *)
(* that finds nothing, or a block of another kind.                         *)
(*                                                                         *)
(* A reader that finds such a block throws ArenaCorruptError, here the     *)
(* slot Corrupt; a writer stops with that error in its context.            *)
(***************************************************************************)
EXTENDS EncodeContext

CONSTANTS
  BITS,            \* of the hash or of the index that a level consumes: 5
  MAX_SHIFT        \* of the last level of bitmap nodes: 30

ASSUME TrieAssumption ==
  /\ BITS \in Nat \ {0}
  /\ MAX_SHIFT \in {BITS * n : n \in 0..MAX_SHIFT}

\* 1 << n
Power[n \in Nat] == IF n = 0 THEN 1 ELSE 2 * Power[n - 1]

WIDTH == Power[BITS]

\* (hash >>> shift) & MASK
fragment(hash, shift) == (hash \div Power[shift]) % WIDTH

Absent  == <<"Absent", 0>>
Corrupt == <<"Corrupt", 0>>

FlatMap(s, F(_)) == FlattenSeq([i \in DOMAIN s |-> F(s[i])])
=============================================================================
