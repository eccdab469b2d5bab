---------------------------- MODULE MCStatusRequest ---------------------------
(* Instances of StatusRequest for TLC.                                     *)
EXTENDS StatusRequest

CONSTANTS s1, s2

MCSurls == {s1, s2}

(* every list of at most two SURLs *)
MCAtMostTwo == UNION {[1 .. k -> MCSurls] : k \in 0 .. 2}

MCNone == {<<>>}
==============================================================================
