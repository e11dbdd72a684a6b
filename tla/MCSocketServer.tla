--------------------------- MODULE MCSocketServer ---------------------------
(* Instances of SocketServer for TLC.                                      *)
EXTENDS SocketServer

CONSTANTS s1, s2

MCSites == {s1, s2}
MCOneSite == {s1}

(* No definition of the specification tells the sites apart.               *)
SiteSymmetry == Permutations(MCSites)
=============================================================================
