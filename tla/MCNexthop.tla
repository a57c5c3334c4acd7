----------------------------- MODULE MCNexthop -----------------------------
(***************************************************************************)
(* Nexthop for TLC: two recipients, two hosts and a file, two messages.    *)
(***************************************************************************)
EXTENDS Nexthop

MCRcpts == {"a@x", "b@y"}
MCHosts == {"h1", "h2"}
=============================================================================
