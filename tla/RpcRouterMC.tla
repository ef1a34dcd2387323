---------------------------- MODULE RpcRouterMC ----------------------------
(* Three calls, two of them ordered, over two connections of the daemon.   *)
EXTENDS RpcRouter

MCCalls == 1 .. 3
MCOrdered == {1, 2}
MCConns == 1 .. 2
=============================================================================
