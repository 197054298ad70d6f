---------------------------- MODULE MCForcePurge ----------------------------
(***************************************************************************)
(* ForcePurge for TLC: two paths in different folders with one bare name.  *)
(***************************************************************************)
EXTENDS ForcePurgeHistory, TLC

TwoPaths == {"/a/x", "/b/x"}

OwnHash == [p \in Paths |-> p]
SameName == [p \in Paths |-> "x"]
CopyAtB == [p \in Paths |-> "/b/x"]
=============================================================================
