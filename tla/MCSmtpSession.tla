---------------------------- MODULE MCSmtpSession ----------------------------
(***************************************************************************)
(* SmtpSession for TLC: two recipients, messages of one size, and a limit  *)
(* that the second message of a session passes.                            *)
(***************************************************************************)
EXTENDS SmtpSession

CONSTANTS r1, r2
TwoRcpts == {r1, r2}
OneRcpt  == {r1}
OneSize  == {2}

Set(n, add, fail, nexthop) ==
  [engine |-> "smtpd", modules |-> n, add_header |-> add, module_fail |-> fail, nexthop |-> nexthop]
Default   == Set(2, TRUE, 3, TRUE)
Several   == {Default, Set(2, FALSE, 1, TRUE), Set(1, TRUE, 2, FALSE), Set(0, FALSE, 3, TRUE)}
JustOne   == {Default}
=============================================================================
