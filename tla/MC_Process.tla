----------------------------- MODULE MC_Process -----------------------------
(* Instances of Process: the files and command lines of MC_Reload.         *)
EXTENDS Process, MC_Reload
=============================================================================
