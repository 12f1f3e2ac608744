------------------------------ MODULE BuilderMC ------------------------------
(***************************************************************************)
(* Traces of programs that synchronise, and of programs that do I/O.       *)
(***************************************************************************)
EXTENDS BuilderSyncMC, BuilderIoMC

MCPrograms == SyncPrograms \cup IoPrograms
=============================================================================
