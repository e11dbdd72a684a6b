---------------------------- MODULE MCLogImport -----------------------------
(* The instance of LogImport that TLC checks; the bounds are in the .cfg   *)
(* files.                                                                  *)
EXTENDS LogImport
=============================================================================
