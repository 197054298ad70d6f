----------------------------- MODULE MCSharing -----------------------------
(***************************************************************************)
(* Sharing for TLC: one file, two browsers of its owner and a visitor, a   *)
(* clock with two ticks to the second.                                     *)
(***************************************************************************)
EXTENDS Sharing, TLC

Symmetry ==
    Permutations(Sessions) \cup Permutations(Requests)
=============================================================================
