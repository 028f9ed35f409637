---------------------------- MODULE MCFilePaths ----------------------------
(***************************************************************************)
(* Small instances of FilePaths: threads on a CPU each, or on one.         *)
(***************************************************************************)
EXTENDS FilePaths

OwnCpu == [t \in Threads |-> t]
OneCpu == [t \in Threads |-> "cpu0"]
=============================================================================
