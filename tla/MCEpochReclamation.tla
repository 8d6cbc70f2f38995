-------------------------- MODULE MCEpochReclamation --------------------------
(* EpochReclamation for TLC: readers are interchangeable. *)
EXTENDS EpochReclamation, TLC

MCSymmetry == Permutations(Readers)

=============================================================================
