---------------------------- MODULE MCPipeEngine ----------------------------
(* PipeEngine for TLC: the ways to handle a failing module, with and without a nexthop. *)
EXTENDS PipeEngine

Set(n, add, fail, nexthop) ==
  [engine |-> "pipe", modules |-> n, add_header |-> add, module_fail |-> fail,
   nexthop |-> nexthop]

Several == {Set(2, TRUE, 3, TRUE), Set(2, FALSE, 1, TRUE), Set(2, TRUE, 1, FALSE),
            Set(0, TRUE, 2, TRUE)}
=============================================================================
