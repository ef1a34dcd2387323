---------------------------- MODULE UserDelivery ----------------------------
(***************************************************************************)
(* What the message path promises to the person who types: a message that  *)
(* was sent is handed on at most once, and nothing is handed on that was   *)
(* not sent.  Several messages may be handed on together, in any order,    *)
(* and a message may be lost.  MessageQueue implements it.                 *)
(***************************************************************************)
EXTENDS Naturals

CONSTANT Messages

VARIABLES sent,         \* messages whose row was committed
          deliveries    \* how often each was handed on

Init ==
    /\ sent = {}
    /\ deliveries = [m \in Messages |-> 0]

Send(m) ==
    /\ m \notin sent
    /\ sent' = sent \cup {m}
    /\ UNCHANGED deliveries

Give(S) ==
    /\ \A m \in S : deliveries[m] = 0
    /\ deliveries' = [m \in Messages |-> IF m \in S THEN 1 ELSE deliveries[m]]
    /\ UNCHANGED sent

Next ==
    \/ \E m \in Messages : Send(m)
    \/ \E S \in SUBSET sent : Give(S)

Spec == Init /\ [][Next]_<<sent, deliveries>>

=============================================================================
