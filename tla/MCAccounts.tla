----------------------------- MODULE MCAccounts -----------------------------
(***************************************************************************)
(* Accounts for TLC.                                                       *)
(***************************************************************************)
EXTENDS Accounts, TLC

\* Requests and secrets are only compared.
RequestSymmetry == Permutations(Logins) \cup Permutations(Settings)
                   \cup Permutations(Secrets) \cup Permutations(Signups)
=============================================================================
