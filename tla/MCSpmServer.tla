---------------------------- MODULE MCSpmServer ----------------------------
(* Small instances of SpmServer for TLC: values for its constants. *)
EXTENDS SpmServer

CONSTANTS p1, p2, p3

TwoPids   == {p1, p2}
ThreePids == {p1, p2, p3}
=============================================================================
