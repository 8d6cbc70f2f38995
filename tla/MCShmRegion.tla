---------------------------- MODULE MCShmRegion ----------------------------
(***************************************************************************)
(* Instances of ShmRegion for TLC.  A cell's value names the commit whose  *)
(* mirror it was taken from, so that any mix of commits shows.             *)
(***************************************************************************)
EXTENDS ShmRegion, TLC

MCValues == 0..MaxVersion

\* The owner's mirror differs from the last commit in every cell, declared or
\* not: the harshest mirror for the ranges it does not declare.
MCMirrors == [v \in 1..MaxVersion |-> {[c \in Cells |-> v]}]

\* Nothing tells one cell from another.
MCSymmetry == Permutations(Cells)

=============================================================================
