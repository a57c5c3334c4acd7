------------------------------ MODULE MCLookup ------------------------------
(* Small instances of Lookup for TLC. *)
EXTENDS Lookup

CONSTANTS k1, k2

TwoChildren == {k1, k2}
Eight       == 1..8

\* A pool of one connection is as large as it starts with, like one of the default three; one of
\* two may grow beyond that, like one of more than five.
Of(b, m) == [backend : {b}, persistent : BOOLEAN, balance : {FALSE}, max : m]
              \cup [backend : {b}, persistent : {FALSE}, balance : {TRUE}, max : m]
Several  == Of("sql", {1, 2}) \cup Of("ldap", {1})
=============================================================================
