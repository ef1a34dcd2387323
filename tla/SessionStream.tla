--------------------------- MODULE SessionStream ---------------------------
(***************************************************************************)
(* How a committed user message reaches the process that runs the agent:   *)
(*                                                                         *)
(*   database   rows with a created_at each, and the session's             *)
(*              last_read_message_id, which the agent's own posts advance  *)
(*   bridge     post_broadcast: after the commit, best effort              *)
(*   relay      the session's WebSocket connection: its outbox (shed when  *)
(*              it overflows) and its fetch_messages_request handler       *)
(*   client     SessionMessagesWsClient with its CatchUpBuffer             *)
(*   runner     what the headless runner does with the stream: turns, the  *)
(*              turn-end remainder, the reconcile backstop, a restart      *)
(*                                                                         *)
(* A created_at is the value of the clock `now'; 0 stands for "none".  A   *)
(* user message is flushed (and gets its created_at) before it commits,    *)
(* and it is broadcast later still.  The clock may not run past Window     *)
(* while one of them is out (Timely): a transaction and the 2 s timeout of *)
(* the bridge are far shorter than the 30 s safety window.                 *)
(***************************************************************************)
EXTENDS Naturals, Sequences, FiniteSets, FiniteSetsExt

CONSTANTS
    Messages,       \* user messages
    Window,         \* WS_FETCH_SAFETY_WINDOW
    PageLimit,      \* WS_FETCH_PAGE_LIMIT
    OutboxMax,      \* _OUTBOX_MAXSIZE
    MaxTime,        \* bound on the clock
    MaxFaults       \* bound on restarts and on connections lost without overflow

None == "none"

ASSUME StreamAssumption ==
    /\ {Window, PageLimit, OutboxMax, MaxTime} \subseteq Nat \ {0}
    /\ MaxFaults \in Nat /\ None \notin Messages

VARIABLES
    now, created, committed,    \* the clock; messages flushed at, and committed
    lastRead,       \* created_at of the row last_read_message_id points at
    bridge, lost,   \* broadcasts on their way, and those the bridge dropped
    up, shed,       \* the connection is registered; its outbox overflowed
    wire,           \* frames from the relay to the client
    requests,       \* `after' of the fetch requests from the client
    answer,         \* the rows of a SELECT whose response is not enqueued yet
    watermark, seen, buffered, fetchDone,   \* the client and its CatchUpBuffer
    callbacks,      \* how often this process got the message from the client
    routed,         \* _seen_user_message_ids of the runner
    taken,          \* messages the agent was given, by any process
    busy,           \* a turn is running
    lastPost,       \* created_at of last_message_id
    skipped,        \* rows a cold start's cursor passed over
    faults

dbVars     == <<now, created, committed, lastRead>>
bridgeVars == <<bridge, lost>>
linkVars   == <<up, shed, wire, requests, answer>>
clientVars == <<watermark, seen, buffered, fetchDone, callbacks>>
runnerVars == <<routed, taken, busy, lastPost>>
countVars  == <<skipped, faults>>
vars == <<dbVars, bridgeVars, linkVars, clientVars, runnerVars, countVars>>

Times == 0 .. MaxTime
Body == [id : Messages \cup {None}, at : Times]

TypeOK ==
    /\ now \in Times /\ lastRead \in Times /\ watermark \in Times /\ lastPost \in Times
    /\ created \in [Messages -> Times]
    /\ committed \cup bridge \cup lost \cup seen \cup routed \cup taken \cup skipped
          \subseteq Messages
    /\ {up, shed, fetchDone, busy} \subseteq BOOLEAN
    /\ Len(wire) <= OutboxMax
    /\ \A i \in DOMAIN wire :
          wire[i].type \in {"rows", "live"} /\ wire[i].bodies \subseteq Body
    /\ requests \in Seq(Times)
    /\ Len(answer) <= 1 /\ \A i \in DOMAIN answer : answer[i] \subseteq Body
    /\ buffered \subseteq Body
    /\ callbacks \in [Messages -> Nat]
    /\ faults \in 0 .. MaxFaults

Init ==
    /\ now = 0 /\ created = [m \in Messages |-> 0] /\ committed = {} /\ lastRead = 0
    /\ bridge = {} /\ lost = {}
    /\ up = FALSE /\ shed = FALSE /\ wire = <<>> /\ requests = <<>> /\ answer = <<>>
    /\ watermark = 0 /\ seen = {} /\ buffered = {} /\ fetchDone = FALSE
    /\ callbacks = [m \in Messages |-> 0]
    /\ routed = {} /\ taken = {} /\ busy = FALSE /\ lastPost = 0
    /\ skipped = {} /\ faults = 0

-----------------------------------------------------------------------------
(* The database and the bridge.                                            *)

Row(m) == [id |-> m, at |-> created[m]]
Echo(t) == [id |-> None, at |-> t]

\* The safety window outlasts every transaction and broadcast under way.
Timely(t) ==
    \A m \in Messages :
        created[m] # 0 /\ (m \notin committed \/ m \in bridge) => t <= created[m] + Window

ClockTo(t) == t <= MaxTime /\ Timely(t) /\ now' = t

Tick == ClockTo(now + 1) /\ UNCHANGED <<created, committed, lastRead, bridgeVars,
                                        linkVars, clientVars, runnerVars, countVars>>

\* create_user_message_with_access flushes the row ...
FlushMessage(m) ==
    /\ created[m] = 0
    /\ ClockTo(now + 1)
    /\ created' = [created EXCEPT ![m] = now + 1]
    /\ UNCHANGED <<committed, lastRead, bridgeVars, linkVars, clientVars, runnerVars,
                   countVars>>

\* ... and after the commit post_broadcast is on its way.
CommitMessage(m) ==
    /\ created[m] # 0 /\ m \notin committed
    /\ committed' = committed \cup {m}
    /\ bridge' = bridge \cup {m}
    /\ UNCHANGED <<now, created, lastRead, lost, linkVars, clientVars, runnerVars,
                   countVars>>

\* Slip: the outbox has no limit.
EnqueueAlways(frame) ==
    /\ wire' = IF up THEN Append(wire, frame) ELSE wire
    /\ UNCHANGED shed

\* Slip: an overflow loses the frame and keeps the connection.
DropOnly(frame) ==
    /\ wire' = IF up /\ Len(wire) < OutboxMax THEN Append(wire, frame) ELSE wire
    /\ UNCHANGED shed

\* Connection.enqueue: on overflow the connection is shed, once.
Enqueue(frame) ==
    IF ~up \/ shed THEN UNCHANGED <<wire, shed>>
    ELSE IF Len(wire) < OutboxMax THEN wire' = Append(wire, frame) /\ UNCHANGED shed
    ELSE shed' = TRUE /\ UNCHANGED wire

Live(body) == [type |-> "live", bodies |-> {body}]

BroadcastArrives(m) ==
    /\ m \in bridge
    /\ bridge' = bridge \ {m}
    /\ Enqueue(Live(Row(m)))
    /\ UNCHANGED <<dbVars, lost, up, requests, answer, clientVars, runnerVars, countVars>>

BroadcastLost(m) ==
    /\ m \in bridge
    /\ bridge' = bridge \ {m}
    /\ lost' = lost \cup {m}
    /\ UNCHANGED <<dbVars, linkVars, clientVars, runnerVars, countVars>>

\* send_to_vicoa, in a turn or in an autonomous one: send_agent_message points
\* last_read at the new row (whatever it found queued goes into a response
\* the runner does not read) and the relay echoes the row.
AgentPost ==
    /\ taken # {}
    /\ ClockTo(now + 1)
    /\ lastRead' = now + 1
    /\ lastPost' = now + 1
    /\ Enqueue(Live(Echo(now + 1)))
    /\ UNCHANGED <<created, committed, bridgeVars, up, requests, answer, clientVars,
                   routed, taken, busy, countVars>>

\* The unread tail, read by get_queued_user_messages, which moves the cursor
\* to its end.
Unread == {m \in committed : created[m] > lastRead}
ReadTail == lastRead' = Max({lastRead} \cup {created[m] : m \in Unread})

-----------------------------------------------------------------------------
(* The connection and the catch-up fetch.                                  *)

\* Slip: the reconnect watermark is used without the safety window.
FetchUnwidened(after) ==
    {Row(m) : m \in {x \in committed : IF after = 0 THEN created[x] > lastRead
                                                    ELSE created[x] > after}}

Page(rows) == {r \in rows : Cardinality({x \in rows : x.at <= r.at}) <= PageLimit}

\* fetch_session_messages for a session-scoped connection.
Fetch(after) ==
    Page({Row(m) : m \in {x \in committed : IF after = 0 THEN created[x] > lastRead
                                                         ELSE created[x] + Window >= after}})

\* Slip: a new connection forgets which ids were delivered.
ConnectForgetting ==
    /\ ~up
    /\ up' = TRUE /\ shed' = FALSE /\ wire' = <<>> /\ answer' = <<>>
    /\ requests' = <<watermark>>
    /\ buffered' = {} /\ fetchDone' = FALSE /\ seen' = {}
    /\ UNCHANGED <<dbVars, bridgeVars, watermark, callbacks, runnerVars, countVars>>

\* hello, registration, server_info, begin_catch_up and the first request.
Connect ==
    /\ ~up
    /\ up' = TRUE /\ shed' = FALSE /\ wire' = <<>> /\ answer' = <<>>
    /\ requests' = <<watermark>>
    /\ buffered' = {} /\ fetchDone' = FALSE
    /\ UNCHANGED <<dbVars, bridgeVars, watermark, seen, callbacks, runnerVars, countVars>>

CloseLink == /\ up' = FALSE /\ shed' = FALSE
             /\ wire' = <<>> /\ requests' = <<>> /\ answer' = <<>>

\* The socket drops, or the relay closes a shed one (1008).
Disconnect ==
    /\ up /\ (shed \/ faults < MaxFaults)
    /\ faults' = IF shed THEN faults ELSE faults + 1
    /\ CloseLink
    /\ UNCHANGED <<dbVars, bridgeVars, clientVars, runnerVars, skipped>>

\* The SELECT runs in a worker thread: frames may overtake its response.
Select ==
    /\ up /\ requests # <<>> /\ answer = <<>>
    /\ answer' = <<Fetch(Head(requests))>>
    /\ requests' = Tail(requests)
    /\ skipped' = IF Head(requests) = 0
                  THEN skipped \cup {m \in Messages : created[m] \in 1 .. lastRead}
                  ELSE skipped
    /\ UNCHANGED <<dbVars, bridgeVars, up, shed, wire, clientVars, runnerVars, faults>>

Respond ==
    /\ up /\ answer # <<>>
    /\ Enqueue([type |-> "rows", bodies |-> Head(answer)])
    /\ answer' = <<>>
    /\ UNCHANGED <<dbVars, bridgeVars, up, requests, clientVars, runnerVars, countVars>>

\* request_refetch of the reconcile backstop, one request at a time: the runner
\* is idle, or its turn waits for a reply (module Questions; any time of it here).
Reconcile ==
    /\ up
    /\ requests = <<>> /\ answer = <<>>
    /\ \A i \in DOMAIN wire : wire[i].type # "rows"
    /\ requests' = <<watermark>>
    /\ UNCHANGED <<dbVars, bridgeVars, up, shed, wire, answer, clientVars, runnerVars,
                   countVars>>

-----------------------------------------------------------------------------
(* The client.                                                             *)

\* _deliver after _dedupe: each body advances the watermark, each fresh user
\* message is handed to the runner, which routes it unless it knows the id.
Deliver(bodies) ==
    LET fresh == {b.id : b \in bodies} \ (seen \cup {None})
    IN  /\ watermark' = Max({watermark} \cup {b.at : b \in {x \in bodies : x.id \notin seen}})
        /\ seen' = seen \cup fresh
        /\ callbacks' = [m \in Messages |->
                           IF m \in fresh THEN callbacks[m] + 1 ELSE callbacks[m]]
        /\ routed' = routed \cup fresh

\* _handle_frame: a response is delivered with what was buffered; a live frame
\* is held back until the first response came.
ReadFrame ==
    /\ up /\ wire # <<>>
    /\ wire' = Tail(wire)
    /\ LET frame == Head(wire)
       IN  \/ /\ frame.type = "rows"
              /\ Deliver(frame.bodies \cup buffered)
              /\ buffered' = {}
              /\ fetchDone' = TRUE
           \/ /\ frame.type = "live" /\ fetchDone
              /\ Deliver(frame.bodies)
              /\ UNCHANGED <<buffered, fetchDone>>
           \/ /\ frame.type = "live" /\ ~fetchDone
              /\ buffered' = buffered \cup frame.bodies
              /\ UNCHANGED <<watermark, seen, callbacks, routed, fetchDone>>
    /\ UNCHANGED <<dbVars, bridgeVars, up, shed, requests, answer, taken, busy, lastPost,
                   countVars>>

-----------------------------------------------------------------------------
(* The runner.                                                             *)

StartTurn ==
    /\ ~busy /\ routed \ taken # {}
    /\ taken' = taken \cup routed
    /\ busy' = TRUE
    /\ lastPost' = 0
    /\ UNCHANGED <<dbVars, bridgeVars, linkVars, clientVars, routed, countVars>>

\* _settle_turn_end: the tail agent row is flipped to requires-input and the
\* unread remainder comes back, unless another reader moved the cursor
\* ("stale").  The PATCH may fail, and then nothing does.
Settle ==
    /\ lastPost' = 0
    /\ \/ lastPost # 0 /\ lastRead = lastPost /\ ReadTail /\ routed' = routed \cup Unread
       \/ UNCHANGED <<lastRead, routed>>

\* A turn that was interrupted, or that leaves sub-agents running, ends without
\* settling.
EndTurn ==
    /\ busy
    /\ busy' = FALSE
    /\ Settle \/ UNCHANGED <<lastRead, routed, lastPost>>
    /\ UNCHANGED <<now, created, committed, bridgeVars, linkVars, clientVars, taken,
                   countVars>>

\* An autonomous turn closes, or the watchdog gives up on one.
SettleAutonomous ==
    /\ ~busy /\ lastPost # 0
    /\ Settle
    /\ UNCHANGED <<now, created, committed, bridgeVars, linkVars, clientVars, taken, busy,
                   countVars>>

\* _recover_pending_reply_via_rest, while the turn waits for a reply.  The
\* response may be lost after the cursor moved.
RecoverOverRest ==
    /\ busy /\ Unread # {}
    /\ ReadTail
    /\ routed' \in {routed, routed \cup Unread}
    /\ UNCHANGED <<now, created, committed, bridgeVars, linkVars, clientVars, taken, busy,
                   lastPost, countVars>>

\* The process ends and the session is resumed by a new one: nothing the
\* client or the runner held in memory survives.
Restart ==
    /\ faults < MaxFaults
    /\ faults' = faults + 1
    /\ CloseLink
    /\ watermark' = 0 /\ seen' = {} /\ buffered' = {} /\ fetchDone' = FALSE
    /\ callbacks' = [m \in Messages |-> 0]
    /\ routed' = {} /\ busy' = FALSE /\ lastPost' = 0
    /\ UNCHANGED <<dbVars, bridgeVars, taken, skipped>>

-----------------------------------------------------------------------------
Next ==
    \/ Tick \/ AgentPost
    \/ \E m \in Messages : \/ FlushMessage(m) \/ CommitMessage(m)
                           \/ BroadcastArrives(m) \/ BroadcastLost(m)
    \/ Connect \/ Disconnect \/ Select \/ Respond \/ Reconcile \/ ReadFrame
    \/ StartTurn \/ EndTurn \/ SettleAutonomous \/ RecoverOverRest \/ Restart

Spec == Init /\ [][Next]_vars

\* The reconnect loop, the relay's loops, the reader thread and the backstop
\* keep running, and a turn ends.
FairSpec ==
    /\ Spec
    /\ WF_vars(Connect) /\ WF_vars(Disconnect /\ shed)
    /\ WF_vars(Select) /\ WF_vars(Respond) /\ WF_vars(ReadFrame)
    /\ WF_vars(Reconcile /\ ~busy) /\ WF_vars(EndTurn)
    /\ \A m \in Messages : WF_vars(CommitMessage(m))
    /\ \A m \in Messages : WF_vars(BroadcastArrives(m) \/ BroadcastLost(m))

-----------------------------------------------------------------------------
(* Properties.                                                             *)

\* The window overlap of a reconnect, a refetch and a live frame bring the
\* same row several times; the client hands it on once.
CallbackOnce == \A m \in Messages : callbacks[m] <= 1

\* Unless the bridge itself lost its broadcast or a cold start skipped it, a committed
\* message that the process does not have yet is within reach of the next catch-up fetch:
\* no reordering of live frames and responses, no overflow, disconnect or late
\* commit moves the watermark past it.
NoSilentGap ==
    watermark # 0 =>
        \A m \in committed \ (lost \cup skipped \cup seen \cup routed) :
            created[m] + Window >= watermark

\* A message whose broadcast was lost is recovered by the reconcile backstop
\* as long as the watermark leaves it within the safety window.
HealsInWindow ==
    \A m \in Messages :
        (m \in committed /\ watermark # 0 /\ created[m] + Window >= watermark)
            ~> (m \in seen \/ watermark = 0 \/ created[m] + Window < watermark)

=============================================================================
