---------------------------- MODULE MCFileStore ----------------------------
(***************************************************************************)
(* FileStore for TLC: uploads to one path.                                 *)
(***************************************************************************)
EXTENDS FileStoreHistory, TLC

\* One path; its conflict copies share it, so that they meet a taken name.
OnePath == {"/a/x"}

OwnHash == [p \in Paths |-> p]
OwnName == [p \in Paths |-> p]
SameCopy == [p \in Paths |-> p]

\* The names of uploads are only compared, never ordered.
UploadSymmetry == Permutations(Uploads)
=============================================================================
