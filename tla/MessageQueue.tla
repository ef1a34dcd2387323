---------------------------- MODULE MessageQueue ----------------------------
(***************************************************************************)
(* The life of a user message of one agent session, from the row the       *)
(* backend commits to the input the agent receives:                        *)
(*                                                                         *)
(*   rows     the user creates, cancels or steers a message; the runner    *)
(*            stamps it consumed or requeues it (guarded UPDATEs)          *)
(*   runner   the headless Claude runner: one asyncio loop (WebSocket      *)
(*            callbacks, steer tasks, run loop, stream reader) around an   *)
(*            in-memory queue                                              *)
(*                                                                         *)
(* Between them is a bridge that loses, delays and reorders frames, and    *)
(* catch-up fetches that send rows again.  So a created row may reach the  *)
(* runner at any time and any number of times, and so may the cancellation *)
(* of a cancelled row (cancelling again broadcasts again); a Steer request *)
(* is broadcast once.  A frame that is lost is one that never arrives.     *)
(*                                                                         *)
(* A step of the loop between two awaits is one action.  The run loop      *)
(* drains its queue without an await in between: while pc = "drain" no     *)
(* other callback of the loop runs (LoopFree), though rows may change.     *)
(***************************************************************************)
EXTENDS Naturals, Sequences, FiniteSets

CONSTANT Messages       \* the user messages of the session

None == "none"

ASSUME NoneAssumption == None \notin Messages

VARIABLES
    row,            \* message_metadata.queue.status of each message
    steerSent,      \* steer frames on their way to the runner
    inbox,          \* _user_message_queue
    seen,           \* _seen_user_message_ids (1024 recent ids; all of them here)
    pending,        \* keys of _pending_by_id
    cancelled,      \* _cancelled_message_ids
    steerRequested, \* _steer_requested_ids
    inFlight,       \* keys of _steer_in_flight
    outcome,        \* the future of the latest steer attempt of a message
    patches,        \* settlements of steer attempts on their way to the server
    pc,             \* where the run loop is
    batch,          \* messages accepted for the next turn
    primary,        \* the first of them, whose id the turn carries
    toStamp,        \* merged messages not yet marked consumed
    cur,            \* message whose steer outcome the run loop awaits
    open,           \* _open_turns
    deliveries      \* how often the agent was given the message

callbackVars == <<inbox, seen, pending>>
steerVars    == <<steerRequested, inFlight, outcome>>
loopVars     == <<pc, batch, primary, toStamp, cur>>
vars == <<row, steerSent, callbackVars, cancelled, steerVars, patches, loopVars,
          open, deliveries>>

RowStatus == {"absent", "none", "queued", "steer", "consumed", "cancelled"}
Turns == {"foreground", "autonomous"}
Patch == [op : {"consumed", "requeue"}, id : Messages]

InInbox(m) == \E i \in DOMAIN inbox : inbox[i] = m

TypeOK ==
    /\ row \in [Messages -> RowStatus]
    /\ steerSent \subseteq Messages
    /\ inbox \in Seq(Messages)
    /\ seen \subseteq Messages
    /\ pending \subseteq Messages
    /\ cancelled \subseteq Messages
    /\ steerRequested \subseteq Messages
    /\ inFlight \subseteq Messages
    /\ outcome \in [Messages -> {None, "open", "hit", "miss"}]
    /\ patches \subseteq Patch
    /\ pc \in {"wait", "drain", "outcome", "merge", "mark", "activate",
               "query", "turn"}
    /\ batch \subseteq Messages
    /\ toStamp \subseteq Messages
    /\ primary \in Messages \cup {None}
    /\ cur \in Messages \cup {None}
    /\ open \in Seq(Turns)
    /\ deliveries \in [Messages -> Nat]

Init ==
    /\ row = [m \in Messages |-> "absent"]
    /\ steerSent = {}
    /\ inbox = <<>> /\ seen = {} /\ pending = {} /\ cancelled = {}
    /\ steerRequested = {} /\ inFlight = {}
    /\ outcome = [m \in Messages |-> None]
    /\ patches = {}
    /\ pc = "wait" /\ batch = {} /\ toStamp = {}
    /\ primary = None /\ cur = None
    /\ open = <<>>
    /\ deliveries = [m \in Messages |-> 0]

-----------------------------------------------------------------------------
(* Rows.                                                                   *)

\* POST .../messages: queued if the session was ACTIVE before, else unstamped.
CreateMessage(m) ==
    /\ row[m] = "absent"
    /\ row' \in {[row EXCEPT ![m] = "queued"], [row EXCEPT ![m] = "none"]}
    /\ UNCHANGED <<steerSent, callbackVars, cancelled, steerVars, patches,
                   loopVars, open, deliveries>>

\* POST .../cancel: any row but a consumed one.
CancelMessage(m) ==
    /\ row[m] \notin {"absent", "consumed"}
    /\ row' = [row EXCEPT ![m] = "cancelled"]
    /\ UNCHANGED <<steerSent, callbackVars, cancelled, steerVars, patches,
                   loopVars, open, deliveries>>

\* POST .../steer: only a row that is exactly queued.
SteerMessage(m) ==
    /\ row[m] = "queued"
    /\ row' = [row EXCEPT ![m] = "steer"]
    /\ steerSent' = steerSent \cup {m}
    /\ UNCHANGED <<callbackVars, cancelled, steerVars, patches, loopVars, open,
                   deliveries>>

\* PATCH .../consumed and .../requeue: the rows after the guarded UPDATE.
MarkedConsumed(m) == IF row[m] = "cancelled" THEN row
                                             ELSE [row EXCEPT ![m] = "consumed"]
Requeued(m) == IF row[m] = "steer" THEN [row EXCEPT ![m] = "queued"] ELSE row

-----------------------------------------------------------------------------
(* Callbacks of the runner's event loop.                                   *)

LoopFree == pc # "drain"

\* Slip: a queued message without its _pending_by_id entry.
EnqueueUnmirrored(m) ==
    /\ seen' = seen \cup {m}
    /\ inbox' = Append(inbox, m)
    /\ UNCHANGED pending

Enqueue(m) ==
    /\ seen' = seen \cup {m}
    /\ pending' = pending \cup {m}
    /\ inbox' = Append(inbox, m)

\* The part of _steer_queued_message before its first await, given the keys of
\* _pending_by_id and the requests that wait for their message.
BeginSteer(m, pend, requested) ==
    LET due   == m \notin inFlight
        start == due /\ m \in pend /\ open # <<>>
    IN  /\ steerRequested' = IF due /\ m \notin pend THEN requested \cup {m} ELSE requested
        /\ inFlight' = IF start THEN inFlight \cup {m} ELSE inFlight
        /\ outcome' = IF start THEN [outcome EXCEPT ![m] = "open"] ELSE outcome

\* _route: a plain user message, unless it is a duplicate.  A Steer request
\* that overtook it starts now.
Route(m) ==
    /\ LoopFree
    /\ row[m] # "absent" /\ m \notin seen
    /\ Enqueue(m)
    /\ IF m \in steerRequested
       THEN BeginSteer(m, pending', steerRequested \ {m})
       ELSE UNCHANGED steerVars
    /\ UNCHANGED <<row, steerSent, cancelled, patches, loopVars, open, deliveries>>

\* _enqueue_already_queued: a row the turn-end request returned.
EnqueueAlreadyQueued(m) ==
    /\ LoopFree
    /\ row[m] # "absent" /\ m \notin cancelled /\ m \notin seen
    /\ Enqueue(m)
    /\ UNCHANGED <<row, steerSent, cancelled, steerVars, patches, loopVars, open,
                   deliveries>>

\* _on_ws_message_update, status cancelled.
OnCancelled(m) ==
    /\ LoopFree
    /\ row[m] = "cancelled"
    /\ cancelled' = cancelled \cup {m}
    /\ UNCHANGED <<row, steerSent, callbackVars, steerVars, patches, loopVars,
                   open, deliveries>>

\* _on_ws_message_update, status steer: the task runs up to its first await.
OnSteer(m) ==
    /\ LoopFree
    /\ m \in steerSent
    /\ steerSent' = steerSent \ {m}
    /\ BeginSteer(m, pending, steerRequested)
    /\ UNCHANGED <<row, callbackVars, cancelled, patches, loopVars, open, deliveries>>

\* Slip: the future is only resolved when the delivery succeeded.
ResolveOnSuccess(m, result) ==
    outcome' = IF result = "hit" THEN [outcome EXCEPT ![m] = result] ELSE outcome

\* The finally clause that sets the attempt's future.
Resolve(m, result) == outcome' = [outcome EXCEPT ![m] = result]

\* Slip: the row is stamped consumed whatever came of the attempt.
StampConsumed(m, result) == patches' = patches \cup {[op |-> "consumed", id |-> m]}

\* What the steer task reports to the server.
Report(m, result) ==
    patches' = patches \cup {[op |-> IF result = "hit" THEN "consumed" ELSE "requeue",
                              id |-> m]}

\* claude_client.query took the steered message; the row is to be stamped.
SteerDelivered(m) ==
    /\ LoopFree
    /\ outcome[m] = "open"
    /\ Resolve(m, "hit")
    /\ deliveries' = [deliveries EXCEPT ![m] = @ + 1]
    /\ pending' = pending \ {m}
    /\ Report(m, "hit")
    /\ UNCHANGED <<row, steerSent, inbox, seen, cancelled, steerRequested,
                   inFlight, loopVars, open>>

\* Steer delivery failed; the message stays queued.
SteerFailed(m) ==
    /\ LoopFree
    /\ outcome[m] = "open"
    /\ Resolve(m, "miss")
    /\ inFlight' = inFlight \ {m}
    /\ Report(m, "miss")
    /\ UNCHANGED <<row, steerSent, callbackVars, cancelled, steerRequested,
                   loopVars, open, deliveries>>

\* The steer task's PATCH reaches the server (one that fails never does).
PatchLands(p) ==
    /\ patches' = patches \ {p}
    /\ row' = IF p.op = "consumed" THEN MarkedConsumed(p.id) ELSE Requeued(p.id)
    /\ UNCHANGED <<steerSent, callbackVars, cancelled, steerVars, loopVars, open,
                   deliveries>>

-----------------------------------------------------------------------------
(* The run loop: wait, accept, coalesce, merge, run the turn.              *)

\* Slip: a steer attempt counts only while its outcome is out.
AttemptOut(m) == m \in inFlight /\ outcome[m] = "open"

\* The message has a steer attempt whose outcome decides about it.
HasAttempt(m) == m \in inFlight

\* Slip: the cancelled ids are not consulted.
NotDropped(m) == FALSE

\* The user cancelled the message while it was queued here.
Dropped(m) == m \in cancelled

\* _accept_user_message of the head of the queue, by the blocking get or by a
\* get_nowait: a cancelled id is dropped, a steered one too; while the steer
\* attempt is still out the run loop awaits its outcome.
Dequeue ==
    /\ pc \in {"wait", "drain"}
    /\ inbox # <<>>
    /\ LET m     == Head(inbox)
           drop  == Dropped(m)
           await == ~drop /\ HasAttempt(m) /\ outcome[m] = "open"
           take  == ~drop /\ ~HasAttempt(m)
       IN  /\ inbox' = Tail(inbox)
           /\ pending' = pending \ {m}
           /\ cancelled' = cancelled \ {m}
           /\ inFlight' = IF drop THEN inFlight ELSE inFlight \ {m}
           /\ batch' = IF take THEN batch \cup {m} ELSE batch
           /\ primary' = IF take /\ batch = {} THEN m ELSE primary
           /\ cur' = IF await THEN m ELSE cur
           /\ pc' = IF await THEN "outcome" ELSE IF take THEN "drain" ELSE pc
    /\ UNCHANGED <<row, steerSent, seen, steerRequested, outcome, patches,
                   toStamp, open, deliveries>>

\* Slip: the awaited message is forgotten before it is accepted.
OutcomeForgets ==
    /\ pc = "outcome"
    /\ outcome[cur] # "open"
    /\ cur' = None
    /\ LET take == outcome[cur] = "miss"
       IN  /\ batch' = IF take THEN batch \cup {cur'} ELSE batch
           /\ primary' = IF take /\ batch = {} THEN cur' ELSE primary
    /\ pc' = IF batch' = {} THEN "wait" ELSE "drain"
    /\ UNCHANGED <<row, steerSent, callbackVars, cancelled, steerVars, patches,
                   toStamp, open, deliveries>>

\* The awaited attempt resolves: only a message it failed to deliver is run.
OutcomeArrives ==
    /\ pc = "outcome"
    /\ outcome[cur] # "open"
    /\ LET take == outcome[cur] = "miss"
       IN  /\ batch' = IF take THEN batch \cup {cur} ELSE batch
           /\ primary' = IF take /\ batch = {} THEN cur ELSE primary
    /\ cur' = None
    /\ pc' = IF batch' = {} THEN "wait" ELSE "drain"
    /\ UNCHANGED <<row, steerSent, callbackVars, cancelled, steerVars, patches,
                   toStamp, open, deliveries>>

\* run_conversation_turn up to its first await: a cancelled primary id drops
\* the whole input.
EnterTurn ==
    IF primary \in cancelled
    THEN /\ cancelled' = cancelled \ {primary}
         /\ batch' = {}
         /\ pc' = "wait"
    ELSE /\ pc' = "mark"
         /\ UNCHANGED <<cancelled, batch>>

\* Nothing to coalesce: a single message starts its turn at once.
StartSingle ==
    /\ pc = "drain" /\ inbox = <<>> /\ batch = {primary}
    /\ EnterTurn
    /\ UNCHANGED <<row, steerSent, callbackVars, steerVars, patches, primary,
                   toStamp, cur, open, deliveries>>

\* _merge_inbound_messages: every message but the first is stamped consumed.
StartMerge ==
    /\ pc = "drain" /\ inbox = <<>> /\ batch # {primary}
    /\ toStamp' = batch \ {primary}
    /\ pc' = "merge"
    /\ UNCHANGED <<row, steerSent, callbackVars, cancelled, steerVars, patches,
                   batch, primary, cur, open, deliveries>>

MergeStamp(m) ==
    /\ pc = "merge" /\ m \in toStamp
    /\ row' \in {MarkedConsumed(m), row}
    /\ toStamp' = toStamp \ {m}
    /\ UNCHANGED <<steerSent, callbackVars, cancelled, steerVars, patches, pc,
                   batch, primary, cur, open, deliveries>>

StartMerged ==
    /\ pc = "merge" /\ toStamp = {}
    /\ EnterTurn
    /\ UNCHANGED <<row, steerSent, callbackVars, steerVars, patches, primary,
                   toStamp, cur, open, deliveries>>

\* mark_message_consumed for the primary id: best effort, its answer unread.
MarkPrimary ==
    /\ pc = "mark"
    /\ row' \in {MarkedConsumed(primary), row}
    /\ pc' = "activate"
    /\ UNCHANGED <<steerSent, callbackVars, cancelled, steerVars, patches, batch,
                   primary, toStamp, cur, open, deliveries>>

\* The session is marked ACTIVE and the foreground turn opened.
OpenForeground ==
    /\ pc = "activate"
    /\ open' = Append(open, "foreground")
    /\ pc' = "query"
    /\ UNCHANGED <<row, steerSent, callbackVars, cancelled, steerVars, patches,
                   batch, primary, toStamp, cur, deliveries>>

\* claude_client.query took the turn's input.
QueryAccepted ==
    /\ pc = "query"
    /\ deliveries' = [m \in Messages |->
                        IF m \in batch THEN deliveries[m] + 1 ELSE deliveries[m]]
    /\ batch' = {}
    /\ pc' = "turn"
    /\ UNCHANGED <<row, steerSent, callbackVars, cancelled, steerVars, patches,
                   primary, toStamp, cur, open>>

\* query raised: the foreground entry is removed, the error is posted.
QueryFailed ==
    /\ pc = "query"
    /\ open' = IF open # <<>> /\ Head(open) = "autonomous" THEN <<"autonomous">> ELSE <<>>
    /\ batch' = {}
    /\ pc' = "wait"
    /\ UNCHANGED <<row, steerSent, callbackVars, cancelled, steerVars, patches,
                   primary, toStamp, cur, deliveries>>

\* The reader closed the foreground turn: settle, then wait again.
TurnEnds ==
    /\ pc = "turn"
    /\ \A i \in DOMAIN open : open[i] # "foreground"
    /\ pc' = "wait"
    /\ UNCHANGED <<row, steerSent, callbackVars, cancelled, steerVars, patches,
                   batch, primary, toStamp, cur, open, deliveries>>

-----------------------------------------------------------------------------
(* The agent and the stream reader.                                        *)

\* A ResultMessage closes the oldest open turn.  Until query returned, the
\* foreground turn has none.
CloseTurn ==
    /\ LoopFree
    /\ open # <<>>
    /\ pc = "query" => Head(open) # "foreground"
    /\ open' = Tail(open)
    /\ UNCHANGED <<row, steerSent, callbackVars, cancelled, steerVars, patches,
                   loopVars, deliveries>>

\* The CLI works with no turn open (a background sub-agent reports).
OpenAutonomous ==
    /\ LoopFree
    /\ open = <<>>
    /\ open' = <<"autonomous">>
    /\ UNCHANGED <<row, steerSent, callbackVars, cancelled, steerVars, patches,
                   loopVars, deliveries>>

\* The stream died or the session went quiet: no turn stays open.  A Stop whose
\* turn does not unwind in time removes the foreground turn alone.
ForceCloseTurns ==
    /\ LoopFree
    /\ open # <<>>
    /\ open' \in {<<>>} \cup
         {s \in {<<"autonomous">>} : pc = "turn" /\ Head(open) = "autonomous"}
    /\ UNCHANGED <<row, steerSent, callbackVars, cancelled, steerVars, patches,
                   loopVars, deliveries>>

-----------------------------------------------------------------------------
RunLoop ==
    \/ Dequeue \/ OutcomeArrives \/ StartSingle \/ StartMerge
    \/ \E m \in Messages : MergeStamp(m)
    \/ StartMerged \/ MarkPrimary \/ OpenForeground
    \/ QueryAccepted \/ QueryFailed \/ TurnEnds

SteerResolves(m) == SteerDelivered(m) \/ SteerFailed(m)

Next ==
    \/ \E m \in Messages :
          \/ CreateMessage(m) \/ CancelMessage(m) \/ SteerMessage(m)
          \/ Route(m) \/ EnqueueAlreadyQueued(m) \/ OnCancelled(m) \/ OnSteer(m)
          \/ SteerResolves(m)
    \/ \E p \in patches : PatchLands(p)
    \/ RunLoop
    \/ CloseTurn \/ OpenAutonomous \/ ForceCloseTurns

Spec == Init /\ [][Next]_vars

\* The loop runs every ready callback, the CLI closes its turns, and the steer
\* task's query returns or raises.
FairSpec ==
    /\ Spec
    /\ WF_vars(RunLoop)
    /\ WF_vars(CloseTurn)
    /\ \A m \in Messages : WF_vars(SteerResolves(m))

-----------------------------------------------------------------------------
(* The inductive invariant behind AtMostOnce and its companions.           *)

\* The messages the run loop holds outside its queue.
Taken(m) == m \in batch \/ (pc = "outcome" /\ cur = m)

\* A message is in at most one place of the runner, once, and was seen there.
OnePlace ==
    /\ \A i, j \in DOMAIN inbox : inbox[i] = inbox[j] => i = j
    /\ \A m \in Messages :
          /\ InInbox(m) => m \in seen /\ ~Taken(m)
          /\ Taken(m) => m \in seen
          /\ m \in seen => row[m] # "absent"
    /\ pc = "outcome" => cur \in Messages /\ cur \notin batch
    /\ pc \in {"wait", "turn"} => batch = {}

\* _steer_in_flight holds the undecided and the successful attempts of queued
\* messages; a decided failure is forgotten.
AttemptsTracked ==
    \A m \in Messages :
        /\ m \in inFlight => m \in seen
        /\ InInbox(m) => (m \in inFlight <=> outcome[m] \in {"open", "hit"})
        /\ m \in batch => outcome[m] \notin {"open", "hit"}
        /\ pc = "outcome" /\ cur = m => outcome[m] # None

\* _pending_by_id mirrors _user_message_queue by id, so a Steer request finds
\* exactly the queued messages that it may still deliver.
PendingMirrorsInbox ==
    \A m \in Messages : m \in pending <=> InInbox(m) /\ outcome[m] # "hit"

\* A delivered message can be given again neither by its steer attempt nor by
\* the run loop.
DeliveredIsDone ==
    \A m \in Messages :
        /\ deliveries[m] \in {0, 1}
        /\ outcome[m] = "open" => deliveries[m] = 0 /\ m \in seen
        /\ outcome[m] = "hit" => deliveries[m] = 1
        /\ deliveries[m] = 1 =>
              /\ m \in seen /\ m \notin batch
              /\ InInbox(m) \/ Taken(m) => outcome[m] = "hit"

IInv == TypeOK /\ OnePlace /\ AttemptsTracked /\ PendingMirrorsInbox /\ DeliveredIsDone

\* The row of a message that waits in the runner's queue says consumed only if
\* a Steer request delivered it: no badge clears for a message not yet taken.
ConsumedIsTaken ==
    \A m \in Messages :
        row[m] = "consumed" => m \in seen /\ (InInbox(m) => outcome[m] = "hit")

\* The run loop stamps only messages of its batch, of which primary is one.
LoopKnows ==
    /\ batch # {} => primary \in batch
    /\ pc \in {"drain", "merge", "mark"} => batch # {}
    /\ pc = "merge" => toStamp \subseteq batch
    /\ pc # "outcome" => cur = None

\* What the runner believes of a row, and what it reports, was true of it.
RowsKnow ==
    /\ \A m \in cancelled : row[m] = "cancelled"
    /\ \A p \in patches : p.op = "consumed" => outcome[p.id] = "hit"
    /\ ConsumedIsTaken

RowInv == IInv /\ LoopKnows /\ RowsKnow

-----------------------------------------------------------------------------
(* Properties.                                                             *)

\* Whatever the channels repeat (live frame, catch-up, turn-end remainder) and
\* however a Steer request races the run loop, the agent is given a message at
\* most once.
AtMostOnce == \A m \in Messages : deliveries[m] <= 1

\* Consume, cancel, steer and requeue race on a row, and whichever of consume
\* and cancel came first stands.
TerminalRowsStay ==
    [][\A m \in Messages :
          row[m] \in {"consumed", "cancelled"} => row'[m] = row[m]]_vars

\* A queued message whose cancellation reached the runner, with no Steer
\* request for it under way.
Doomed(m) == InInbox(m) /\ m \in cancelled /\ m \notin inFlight /\ m \notin steerSent

\* Such a message leaves the queue only by being dropped: no interleaving of
\* the drain, of a steer attempt or of the channels gives it to the agent.
CancelledIsDropped ==
    [][\A m \in Messages :
          Doomed(m) => \/ Doomed(m)'
                       \/ /\ ~InInbox(m)' /\ m \notin batch' /\ cur' # m
                          /\ deliveries'[m] = deliveries[m]]_vars

\* Every queued message leaves the queue: the run loop never waits forever for
\* the outcome of a steer attempt.
InboxDrains == \A m \in Messages : InInbox(m) ~> ~InInbox(m)

Promise == INSTANCE UserDelivery WITH sent <- {m \in Messages : row[m] # "absent"}

\* The queue implements the promise made to the user.
ImplementsPromise == Promise!Spec

\* _coalesce_ready_messages and _merge_inbound_messages: several messages make
\* one turn's input and only cancelled ids are dropped.  Stated of the turn
\* that is about to start: what it drops was cancelled.
OnlyCancelledDropped ==
    [][\A m \in batch \ batch' :
          pc \in {"drain", "merge"} => m \in cancelled]_vars

=============================================================================
