---------------------------- MODULE TerminalsMC ----------------------------
(* TLC instances of Terminals.                                             *)
EXTENDS Terminals

=============================================================================
