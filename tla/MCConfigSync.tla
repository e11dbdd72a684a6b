---------------------------- MODULE MCConfigSync ----------------------------
(* Instances of ConfigSync for TLC.                                        *)
EXTENDS ConfigSync

(* One site of each server.                                                    *)
MCSites == {"a", "b"}
MCKind(s) == IF s = "a" THEN "nginx" ELSE "apache"
=============================================================================
