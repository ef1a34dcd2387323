----------------------------- MODULE RpcRouter -----------------------------
(***************************************************************************)
(* RPC from a dashboard to a machine's daemon, through the relay:          *)
(*                                                                         *)
(*   relay    RpcRouter (handlers, pending calls) and the WebSocket        *)
(*            endpoint, which unregisters a connection when it unwinds     *)
(*   daemon   SpawnRequestWsClient: one connection at a time, a pool of    *)
(*            workers, and a single worker for the ordered methods         *)
(*                                                                         *)
(* The two ends of a socket learn of its end at different times, so the    *)
(* daemon's next connection may register while the relay still serves the  *)
(* last one.  Of the routing key (user, machine, method) one value is      *)
(* modelled.  The calls come from one caller connection, in the order of   *)
(* their numbers.  Connection k is the daemon's k-th.                      *)
(***************************************************************************)
EXTENDS Naturals, Sequences, FiniteSets

CONSTANTS
    Calls,          \* 1 .. the number of calls made
    Ordered,        \* those to a method in ordered_methods
    Conns,          \* 1 .. the number of connections the daemon makes
    Workers,        \* RPC_WORKER_COUNT
    OutboxMax       \* _OUTBOX_MAXSIZE

ASSUME RpcAssumption ==
    /\ Calls \subseteq Nat \ {0} /\ Conns \subseteq Nat \ {0}
    /\ Ordered \subseteq Calls
    /\ Workers \in Nat \ {0} /\ OutboxMax \in Nat

NoConn == 0

VARIABLES
    handler,        \* _handlers[key]
    call, target,   \* the caller's view of each call; _pending[corr_id].daemon
    relay,          \* the relay's view of each connection
    outbox, shed,   \* requests from the relay to the daemon
    upstream,       \* frames from the daemon to the relay
    socket,         \* the daemon's connection
    pool, running,  \* jobs queued for, and taken by, the workers
    line,           \* jobs queued for the ordered worker
    sent, ran,      \* calls in the order they were sent to, and run by, the daemon
    lastReg         \* the connection whose rpc-register was read last

relayVars  == <<handler, call, target, sent, lastReg>>
linkVars   == <<relay, outbox, shed, upstream>>
daemonVars == <<socket, pool, running, line, ran>>
vars == <<relayVars, linkVars, daemonVars>>

Ended == {"result", "no_handler", "target_disconnected", "given_up"}
Job == Calls \X Conns
Register == 0       \* an rpc-register frame; any other frame is a response

TypeOK ==
    /\ handler \in Conns \cup {NoConn} /\ lastReg \in Conns \cup {NoConn}
    /\ call \in [Calls -> {"idle", "grace", "waiting"} \cup Ended]
    /\ target \in [Calls -> Conns \cup {NoConn}]
    /\ relay \in [Conns -> {"none", "up", "gone"}]
    /\ \A c \in Conns : outbox[c] \in Seq(Calls) /\ Len(outbox[c]) <= OutboxMax
    /\ shed \subseteq Conns
    /\ upstream \in [Conns -> Seq(Calls \cup {Register})]
    /\ socket \in Conns \cup {NoConn}
    /\ pool \in Seq(Job) /\ line \in Seq(Job)
    /\ running \subseteq Job /\ Cardinality(running) <= Workers
    /\ sent \in Seq(Calls) /\ ran \in Seq(Calls)

Init ==
    /\ handler = NoConn /\ lastReg = NoConn
    /\ call = [k \in Calls |-> "idle"] /\ target = [k \in Calls |-> NoConn]
    /\ relay = [c \in Conns |-> "none"]
    /\ outbox = [c \in Conns |-> <<>>] /\ shed = {}
    /\ upstream = [c \in Conns |-> <<>>]
    /\ socket = NoConn
    /\ pool = <<>> /\ running = {} /\ line = <<>>
    /\ sent = <<>> /\ ran = <<>>

-----------------------------------------------------------------------------
(* The relay: a call.                                                      *)

\* Slip: the outbox has no limit.
SendAlways(k) ==
    /\ handler # NoConn
    /\ call' = [call EXCEPT ![k] = "waiting"]
    /\ target' = [target EXCEPT ![k] = handler]
    /\ outbox' = [outbox EXCEPT ![handler] = Append(@, k)]
    /\ sent' = Append(sent, k)
    /\ UNCHANGED shed

\* call, once _await_handler found a connection: nothing is awaited between
\* the lookup, the entry in _pending and the enqueue.
Send(k) ==
    /\ handler # NoConn
    /\ call' = [call EXCEPT ![k] = "waiting"]
    /\ target' = [target EXCEPT ![k] = handler]
    /\ IF handler \in shed THEN UNCHANGED <<outbox, shed, sent>>
       ELSE IF Len(outbox[handler]) < OutboxMax
       THEN /\ outbox' = [outbox EXCEPT ![handler] = Append(@, k)]
            /\ sent' = Append(sent, k)
            /\ UNCHANGED shed
       ELSE shed' = shed \cup {handler} /\ UNCHANGED <<outbox, sent>>

\* rpc-call frames become tasks in the order they are read.
MakeCall(k) ==
    /\ call[k] = "idle"
    /\ \A j \in Calls : j < k => call[j] # "idle"
    /\ \/ Send(k)
       \/ /\ handler = NoConn
          /\ call' = [call EXCEPT ![k] = "grace"]
          /\ UNCHANGED <<target, outbox, shed, sent>>
    /\ UNCHANGED <<handler, lastReg, relay, upstream, daemonVars>>

\* Each waiting task polls on its own timer.
GracePoll(k) ==
    /\ call[k] = "grace"
    /\ Send(k)
    /\ UNCHANGED <<handler, lastReg, relay, upstream, daemonVars>>

\* The caller's task ends without an answer ...
Leave(k, from, how) ==
    /\ call[k] \in from
    /\ call' = [call EXCEPT ![k] = how]
    /\ UNCHANGED <<handler, target, sent, lastReg, linkVars, daemonVars>>

GraceOver(k) == handler = NoConn /\ Leave(k, {"grace"}, "no_handler")

\* ... on its timeout, or because the caller's connection went.
GiveUp(k) == Leave(k, {"grace", "waiting"}, "given_up")

-----------------------------------------------------------------------------
(* The relay: a daemon's connection.                                       *)

\* resolve: only a call that is still pending takes the response.
Resolve(k) == call' = IF call[k] = "waiting" THEN [call EXCEPT ![k] = "result"] ELSE call

\* The receive loop: rpc-register or rpc-response.
RelayReads(c) ==
    /\ relay[c] = "up" /\ upstream[c] # <<>>
    /\ upstream' = [upstream EXCEPT ![c] = Tail(@)]
    /\ IF Head(upstream[c]) = Register
       THEN handler' = c /\ lastReg' = c /\ UNCHANGED call
       ELSE Resolve(Head(upstream[c])) /\ UNCHANGED <<handler, lastReg>>
    /\ UNCHANGED <<target, sent, relay, outbox, shed, daemonVars>>

\* Slip: the handler goes whichever connection serves it.
UnregisterKey(c) ==
    /\ handler' = NoConn
    /\ call' = [k \in Calls |-> IF call[k] = "waiting" /\ target[k] = c
                                THEN "target_disconnected" ELSE call[k]]

\* Slip: the calls in flight are left to their timeout.
UnregisterOnly(c) ==
    /\ handler' = IF handler = c THEN NoConn ELSE handler
    /\ UNCHANGED call

\* Slip: the calls in flight wait for the next connection.
UnregisterRetry(c) ==
    /\ handler' = IF handler = c THEN NoConn ELSE handler
    /\ call' = [k \in Calls |-> IF call[k] = "waiting" /\ target[k] = c
                                THEN "grace" ELSE call[k]]

\* rpc_router.unregister, when the endpoint unwinds.
Unregister(c) ==
    /\ handler' = IF handler = c THEN NoConn ELSE handler
    /\ call' = [k \in Calls |-> IF call[k] = "waiting" /\ target[k] = c
                                THEN "target_disconnected" ELSE call[k]]

\* The daemon closed, pongs are missed, or the connection was shed.  Requests
\* on the wire still reach a daemon that has not noticed.
RelayDrops(c) ==
    /\ relay[c] = "up"
    /\ relay' = [relay EXCEPT ![c] = "gone"]
    /\ Unregister(c)
    /\ outbox' = IF socket = c THEN outbox ELSE [outbox EXCEPT ![c] = <<>>]
    /\ upstream' = [upstream EXCEPT ![c] = <<>>]
    /\ UNCHANGED <<target, sent, lastReg, shed, daemonVars>>

-----------------------------------------------------------------------------
(* The daemon.                                                             *)

\* _connect_and_serve: hello, server_info, rpc-register.
Connect(c) ==
    /\ socket = NoConn /\ relay[c] = "none"
    /\ \A d \in Conns : d < c => relay[d] # "none"
    /\ socket' = c
    /\ relay' = [relay EXCEPT ![c] = "up"]
    /\ upstream' = [upstream EXCEPT ![c] = <<Register>>]
    /\ UNCHANGED <<relayVars, outbox, shed, pool, running, line, ran>>

\* The socket fails under the daemon, or it notices that the relay closed.
SocketDies ==
    /\ socket # NoConn
    /\ socket' = NoConn
    /\ outbox' = IF relay[socket] = "up" THEN outbox ELSE [outbox EXCEPT ![socket] = <<>>]
    /\ UNCHANGED <<relayVars, relay, shed, upstream, pool, running, line, ran>>

\* Slip: every method goes to the pool.
DispatchToPool(job) ==
    /\ pool' = Append(pool, job)
    /\ UNCHANGED line

\* dispatch_frame: the executor of an rpc-request.
Dispatch(job) ==
    IF job[1] \in Ordered THEN line' = Append(line, job) /\ UNCHANGED pool
                          ELSE pool' = Append(pool, job) /\ UNCHANGED line

DaemonReads ==
    /\ socket # NoConn /\ outbox[socket] # <<>>
    /\ outbox' = [outbox EXCEPT ![socket] = Tail(@)]
    /\ Dispatch(<<Head(outbox[socket]), socket>>)
    /\ UNCHANGED <<relayVars, relay, shed, upstream, socket, running, ran>>

\* _run_rpc_request: the handler ran; the response is dropped if the
\* connection the request came on is closed.
Respond(job) ==
    /\ ran' = Append(ran, job[1])
    /\ upstream' = IF socket = job[2] /\ relay[socket] = "up"
                   THEN [upstream EXCEPT ![socket] = Append(@, job[1])] ELSE upstream

StartJob ==
    /\ pool # <<>> /\ Cardinality(running) < Workers
    /\ running' = running \cup {Head(pool)}
    /\ pool' = Tail(pool)
    /\ UNCHANGED <<relayVars, linkVars, socket, line, ran>>

FinishJob(job) ==
    /\ job \in running
    /\ running' = running \ {job}
    /\ Respond(job)
    /\ UNCHANGED <<relayVars, relay, outbox, shed, socket, pool, line>>

RunOrdered ==
    /\ line # <<>>
    /\ line' = Tail(line)
    /\ Respond(Head(line))
    /\ UNCHANGED <<relayVars, relay, outbox, shed, socket, pool, running>>

-----------------------------------------------------------------------------
Next ==
    \/ \E k \in Calls : MakeCall(k) \/ GracePoll(k) \/ GraceOver(k) \/ GiveUp(k)
    \/ \E c \in Conns : RelayReads(c) \/ RelayDrops(c) \/ Connect(c)
    \/ SocketDies \/ DaemonReads \/ StartJob \/ RunOrdered
    \/ \E job \in running : FinishJob(job)

Spec == Init /\ [][Next]_vars

\* The relay notices a connection the daemon left (close frame or pongs), and
\* the daemon one the relay left; workers and receive loops go on.  The call's
\* own timeout and the grace window are not needed.
FairSpec ==
    /\ Spec
    /\ \A c \in Conns : WF_vars(RelayDrops(c) /\ (socket # c \/ c \in shed))
    /\ WF_vars(SocketDies /\ relay[socket] = "gone")
    /\ \A c \in Conns : WF_vars(RelayReads(c))
    /\ WF_vars(DaemonReads) /\ WF_vars(StartJob) /\ WF_vars(RunOrdered)
    /\ \A job \in Job : WF_vars(FinishJob(job))

-----------------------------------------------------------------------------
(* Properties.                                                             *)

\* A call waits only for a connection the relay still serves: whatever order
\* register, unregister and the grace polls come in, none is left to its
\* 30 s timeout by a daemon that is gone.
WaitsForServed == \A k \in Calls : call[k] = "waiting" => relay[target[k]] = "up"

\* The late teardown of an old connection does not take away the handlers the
\* daemon's new connection registered.
ReconnectKeepsHandler == lastReg # NoConn /\ relay[lastReg] = "up" => handler = lastReg

\* The inductive invariant behind both.
CallTypes ==
    /\ handler \in Conns \cup {NoConn} /\ lastReg \in Conns \cup {NoConn}
    /\ call \in [Calls -> {"idle", "grace", "waiting"} \cup Ended]
    /\ target \in [Calls -> Conns \cup {NoConn}]
    /\ relay \in [Conns -> {"none", "up", "gone"}]
    /\ \A k \in Calls : call[k] = "waiting" => target[k] \in Conns

HandlerServed ==
    /\ handler # NoConn => relay[handler] = "up"
    /\ lastReg # NoConn => relay[lastReg] # "none"

RouteInv == CallTypes /\ HandlerServed /\ WaitsForServed /\ ReconnectKeepsHandler

Times(s, k) == Cardinality({i \in DOMAIN s : s[i] = k})

\* No call is run twice.  A result means that it was run; no_handler, that it
\* was not and will not be.
OutcomeIsTrue ==
    \A k \in Calls :
        /\ Times(ran, k) <= 1
        /\ call[k] = "result" => Times(ran, k) = 1
        /\ call[k] = "no_handler" => Times(ran, k) = 0 /\ Times(sent, k) = 0

\* j comes before k in s, or would.
Before(s, j, k) ==
    \A x, y \in DOMAIN s : s[x] = j /\ s[y] = k => x < y

\* Ordered calls run in the order the relay sent them, reconnects included.
RunsAsSent ==
    \A j, k \in Ordered :
        j # k /\ (\E x, y \in DOMAIN sent : sent[x] = j /\ sent[y] = k /\ x < y)
            => Before(ran, j, k)

\* A call that has ended keeps its outcome: no late response, disconnect or
\* timer reaches a caller that was answered.
OutcomeStands == [][\A k \in Calls : call[k] \in Ended => call'[k] = call[k]]_vars

\* A call whose request reached the daemon, or whose connection went, ends
\* without its timeout.
EndsSoon == \A k \in Calls : call[k] = "waiting" ~> call[k] \in Ended

=============================================================================
