-------------------------- MODULE MCDataDirectory --------------------------
(* Instances of DataDirectory for TLC.                                     *)
EXTENDS DataDirectory
=============================================================================
