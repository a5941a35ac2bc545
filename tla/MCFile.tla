------------------------------- MODULE MCFile -------------------------------
(* FileTransfer for TLC. *)
EXTENDS FileTransfer, TLC
=============================================================================
