-------------------------- MODULE SessionStreamMC --------------------------
(* TLC instances of SessionStream.                                          *)
EXTENDS SessionStream

=============================================================================
