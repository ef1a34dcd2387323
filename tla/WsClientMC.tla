----------------------------- MODULE WsClientMC -----------------------------
(* Two screens and two calls on one cloud connection.                      *)
EXTENDS WsClient
=============================================================================
