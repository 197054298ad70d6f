----------------------------- MODULE MCTransfer -----------------------------
(***************************************************************************)
(* Transfer for TLC.                                                       *)
(***************************************************************************)
EXTENDS Transfer, TLC

\* Downloads are only compared.
DownloadSymmetry == Permutations(Downloads)
=============================================================================
