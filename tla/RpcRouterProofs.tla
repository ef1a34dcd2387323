-------------------------- MODULE RpcRouterProofs --------------------------
(***************************************************************************)
(* For any number of calls, connections and workers: a call waits only for *)
(* a connection the relay serves, a reconnect keeps its handlers, an ended *)
(* call keeps its outcome and the outcome is true, no call is run twice,   *)
(* and ordered calls run in the order in which they were sent.             *)
(***************************************************************************)
EXTENDS RpcRouter, FiniteSetTheorems, TLAPS

\* At the start nothing is registered and nobody waits.
LEMMA InitRoute == Init => RouteInv
<1>1. 0 \notin Conns
  BY RpcAssumption
<1>2. QED
  BY <1>1 DEF Init, RouteInv, CallTypes, HandlerServed, WaitsForServed,
     ReconnectKeepsHandler, NoConn

\* The steps of a call: only Send looks at a connection, and the handler it
\* finds is served.
LEMMA CallStep ==
    ASSUME RouteInv, NEW k \in Calls,
           MakeCall(k) \/ GracePoll(k) \/ GraceOver(k) \/ GiveUp(k)
    PROVE  RouteInv'
<1> USE RpcAssumption DEF NoConn, Ended
<1>1. /\ UNCHANGED <<handler, lastReg, relay>>
      /\ \E s \in {"grace", "waiting", "no_handler", "given_up"} :
            /\ call' = [call EXCEPT ![k] = s]
            /\ IF s = "waiting" THEN handler # NoConn /\ target' = [target EXCEPT ![k] = handler]
                                ELSE UNCHANGED target
  BY DEF RouteInv, CallTypes, MakeCall, GracePoll, GraceOver, GiveUp, Leave, Send, linkVars
<1>2. PICK s \in {"grace", "waiting", "no_handler", "given_up"} :
            /\ call' = [call EXCEPT ![k] = s]
            /\ IF s = "waiting" THEN handler # NoConn /\ target' = [target EXCEPT ![k] = handler]
                                ELSE UNCHANGED target
  BY <1>1
<1>3. CallTypes'
  BY <1>1, <1>2 DEF RouteInv, CallTypes
<1>4. WaitsForServed'
  BY <1>1, <1>2 DEF RouteInv, CallTypes, HandlerServed, WaitsForServed
<1>5. HandlerServed' /\ ReconnectKeepsHandler'
  BY <1>1 DEF RouteInv, HandlerServed, ReconnectKeepsHandler
<1>6. QED
  BY <1>3, <1>4, <1>5 DEF RouteInv

\* The steps of a connection at the relay: reading a frame, unwinding.
LEMMA RelayStep ==
    ASSUME RouteInv, NEW c \in Conns, RelayReads(c) \/ RelayDrops(c)
    PROVE  RouteInv'
<1> USE RpcAssumption DEF NoConn, Ended
<1>1. CASE RelayReads(c)
  <2>1. /\ relay[c] = "up" /\ UNCHANGED <<target, relay>>
        /\ \/ handler' = c /\ lastReg' = c /\ UNCHANGED call
           \/ /\ UNCHANGED <<handler, lastReg>>
              /\ \/ UNCHANGED call
                 \/ call' = [call EXCEPT ![Head(upstream[c])] = "result"]
    BY <1>1 DEF RelayReads, Resolve
  <2>2. QED
    BY <2>1 DEF RouteInv, CallTypes, HandlerServed, WaitsForServed, ReconnectKeepsHandler
<1>2. CASE RelayDrops(c)
  <2>1. /\ relay' = [relay EXCEPT ![c] = "gone"] /\ UNCHANGED <<target, lastReg>>
        /\ handler' = IF handler = c THEN NoConn ELSE handler
        /\ call' = [k \in Calls |-> IF call[k] = "waiting" /\ target[k] = c
                                    THEN "target_disconnected" ELSE call[k]]
    BY <1>2 DEF RelayDrops, Unregister
  <2>2. CallTypes'
    BY <2>1 DEF RouteInv, CallTypes
  <2>3. WaitsForServed'
    BY <2>1 DEF RouteInv, CallTypes, WaitsForServed
  <2>4. HandlerServed' /\ ReconnectKeepsHandler'
    BY <2>1 DEF RouteInv, CallTypes, HandlerServed, ReconnectKeepsHandler
  <2>5. QED
    BY <2>2, <2>3, <2>4 DEF RouteInv
<1>3. QED
  BY <1>1, <1>2

\* A new connection is nobody's target; the daemon's own steps route nothing.
LEMMA RouteStep ==
    ASSUME RouteInv, [Next]_vars
    PROVE  RouteInv'
<1>1. ASSUME NEW c \in Conns, Connect(c)
      PROVE  RouteInv'
  <2>1. relay[c] = "none" /\ relay' = [relay EXCEPT ![c] = "up"] /\ UNCHANGED relayVars
    BY <1>1 DEF Connect
  <2>2. handler # c /\ \A k \in Calls : call[k] = "waiting" => target[k] # c
    BY <2>1, RpcAssumption DEF RouteInv, HandlerServed, WaitsForServed, NoConn
  <2>3. lastReg # c
    BY <2>1, RpcAssumption DEF RouteInv, HandlerServed, NoConn
  <2>4. QED
    BY <2>1, <2>2, <2>3 DEF RouteInv, CallTypes, HandlerServed, WaitsForServed,
       ReconnectKeepsHandler, relayVars
<1>2. ASSUME UNCHANGED <<relayVars, relay>>
      PROVE  RouteInv'
  BY <1>2 DEF RouteInv, CallTypes, HandlerServed, WaitsForServed, ReconnectKeepsHandler,
     relayVars
<1>3. CASE SocketDies \/ DaemonReads \/ StartJob \/ RunOrdered \/ \E job \in running : FinishJob(job)
  BY <1>2, <1>3 DEF SocketDies, DaemonReads, StartJob, RunOrdered, FinishJob, linkVars
<1>4. CASE UNCHANGED vars
  BY <1>2, <1>4 DEF vars, linkVars
<1>5. QED
  BY <1>1, <1>3, <1>4, CallStep, RelayStep DEF Next

\* The routing invariant holds of every run.
THEOREM RouteInvariant == Spec => []RouteInv
<1>1. QED
  BY InitRoute, RouteStep, PTL DEF Spec

\* No call waits for a connection that the relay has let go.
THEOREM WaitsServed == Spec => []WaitsForServed
<1>1. RouteInv => WaitsForServed
  BY DEF RouteInv
<1>2. QED
  BY <1>1, RouteInvariant, PTL

\* The last connection to register serves the key as long as it is up.
THEOREM ReconnectKeeps == Spec => []ReconnectKeepsHandler
<1>1. RouteInv => ReconnectKeepsHandler
  BY DEF RouteInv
<1>2. QED
  BY <1>1, RouteInvariant, PTL

\* Every step that sets a call finds it idle, in its grace or waiting.
LEMMA EndedStays ==
    ASSUME RouteInv, [Next]_vars, NEW k \in Calls, call[k] \in Ended
    PROVE  call'[k] = call[k]
<1> USE RpcAssumption DEF Ended
<1>1. ASSUME NEW j \in Calls, MakeCall(j) \/ GracePoll(j) \/ GraceOver(j) \/ GiveUp(j)
      PROVE  call'[k] = call[k]
  <2>1. /\ call[j] \in {"idle", "grace", "waiting"}
        /\ \E s \in {"grace", "waiting", "no_handler", "given_up"} : call' = [call EXCEPT ![j] = s]
    BY <1>1 DEF MakeCall, GracePoll, GraceOver, GiveUp, Leave, Send
  <2>2. QED
    BY <2>1 DEF RouteInv, CallTypes
<1>2. ASSUME NEW c \in Conns, RelayReads(c) \/ RelayDrops(c) \/ Connect(c)
      PROVE  call'[k] = call[k]
  <2>1. CASE RelayReads(c)
    BY <2>1 DEF RelayReads, Resolve, RouteInv, CallTypes
  <2>2. CASE RelayDrops(c)
    BY <2>2 DEF RelayDrops, Unregister
  <2>3. CASE Connect(c)
    BY <2>3 DEF Connect, relayVars
  <2>4. QED
    BY <1>2, <2>1, <2>2, <2>3
<1>3. CASE SocketDies \/ DaemonReads \/ StartJob \/ RunOrdered \/ \E job \in running : FinishJob(job)
  BY <1>3 DEF SocketDies, DaemonReads, StartJob, RunOrdered, FinishJob, relayVars
<1>4. CASE UNCHANGED vars
  BY <1>4 DEF vars, relayVars
<1>5. QED
  BY <1>1, <1>2, <1>3, <1>4 DEF Next

\* No late response, disconnect or timer changes the outcome of an ended call.
THEOREM OutcomesStand == Spec => OutcomeStands
<1>1. RouteInv /\ [Next]_vars => [\A k \in Calls : call[k] \in Ended => call'[k] = call[k]]_vars
  BY EndedStays
<1>2. QED
  BY <1>1, RouteInvariant, PTL DEF Spec, OutcomeStands

-----------------------------------------------------------------------------
(* The values of the queues between the relay, the daemon and its workers. *)

RpcTypes ==
    /\ outbox \in [Conns -> Seq(Calls)] /\ \A c \in Conns : Len(outbox[c]) <= OutboxMax
    /\ shed \subseteq Conns
    /\ upstream \in [Conns -> Seq(Calls \cup {Register})]
    /\ socket \in Conns \cup {NoConn}
    /\ pool \in Seq(Job) /\ line \in Seq(Job) /\ running \subseteq Job
    /\ sent \in Seq(Calls) /\ ran \in Seq(Calls)

AtWork == IsFiniteSet(running) /\ Cardinality(running) <= Workers

\* A connection's outbox is emptied.
LEMMA NoneWaiting ==
    ASSUME RpcTypes, NEW c \in Conns,
           outbox' = outbox \/ outbox' = [outbox EXCEPT ![c] = <<>>]
    PROVE  \A d \in Conns : Len(outbox'[d]) <= OutboxMax
<1>1. Len(<<>>) = 0 /\ 0 <= OutboxMax
  BY RpcAssumption
<1>2. SUFFICES ASSUME NEW d \in Conns
               PROVE  Len(outbox'[d]) <= OutboxMax
  OBVIOUS
<1>3. outbox'[d] = outbox[d] \/ outbox'[d] = <<>>
  BY DEF RpcTypes
<1>4. CASE outbox'[d] = outbox[d]
  BY <1>4 DEF RpcTypes
<1>5. CASE outbox'[d] = <<>>
  BY <1>1, <1>5
<1>6. QED
  BY <1>3, <1>4, <1>5

\* The relay: requests go into an outbox with room, frames are read.
LEMMA RelayTypesStep ==
    ASSUME CallTypes, RpcTypes,
           \/ \E k \in Calls : MakeCall(k) \/ GracePoll(k) \/ GraceOver(k) \/ GiveUp(k)
           \/ \E c \in Conns : RelayReads(c) \/ RelayDrops(c)
    PROVE  RpcTypes'
<1> USE RpcAssumption DEF RpcTypes
<1>1. ASSUME NEW k \in Calls, Send(k), UNCHANGED <<upstream, daemonVars>>
      PROVE  RpcTypes'
  <2>1. handler \in Conns /\ handler # NoConn
    BY <1>1 DEF CallTypes, Send
  <2>2. CASE UNCHANGED <<outbox, sent>>
    BY <1>1, <2>1, <2>2 DEF Send, daemonVars
  <2>3. CASE /\ outbox' = [outbox EXCEPT ![handler] = Append(@, k)]
             /\ sent' = Append(sent, k) /\ Len(outbox[handler]) < OutboxMax
    <3>1. outbox' \in [Conns -> Seq(Calls)] /\ sent' \in Seq(Calls)
      BY <2>1, <2>3
    <3>2. \A c \in Conns : Len(outbox'[c]) <= OutboxMax
      BY <2>1, <2>3
    <3>3. QED
      BY <1>1, <2>3, <3>1, <3>2 DEF Send, daemonVars
  <2>4. QED
    BY <1>1, <2>2, <2>3 DEF Send
<1>2. ASSUME UNCHANGED <<outbox, shed, sent, upstream, daemonVars>>
      PROVE  RpcTypes'
  BY <1>2 DEF daemonVars
<1>3. ASSUME NEW k \in Calls, MakeCall(k) \/ GracePoll(k) \/ GraceOver(k) \/ GiveUp(k)
      PROVE  RpcTypes'
  BY <1>1, <1>2, <1>3 DEF MakeCall, GracePoll, GraceOver, GiveUp, Leave, linkVars
<1>4. ASSUME NEW c \in Conns, RelayReads(c)
      PROVE  RpcTypes'
  <2>1. Tail(upstream[c]) \in Seq(Calls \cup {Register})
    BY <1>4 DEF RelayReads
  <2>2. /\ upstream' = [upstream EXCEPT ![c] = Tail(upstream[c])]
        /\ UNCHANGED <<sent, outbox, shed, daemonVars>>
    BY <1>4 DEF RelayReads
  <2>3. upstream' \in [Conns -> Seq(Calls \cup {Register})]
    BY <2>1, <2>2
  <2>4. QED
    BY <2>2, <2>3 DEF daemonVars
<1>5. ASSUME NEW c \in Conns, RelayDrops(c)
      PROVE  RpcTypes'
  <2>1. /\ outbox' = outbox \/ outbox' = [outbox EXCEPT ![c] = <<>>]
        /\ upstream' = [upstream EXCEPT ![c] = <<>>] /\ UNCHANGED <<sent, shed, daemonVars>>
    BY <1>5 DEF RelayDrops
  <2>2. <<>> \in Seq(Calls) /\ <<>> \in Seq(Calls \cup {Register}) /\ Len(<<>>) = 0
    OBVIOUS
  <2>3. outbox' \in [Conns -> Seq(Calls)] /\ upstream' \in [Conns -> Seq(Calls \cup {Register})]
    BY <2>1, <2>2
  <2>4. \A d \in Conns : Len(outbox'[d]) <= OutboxMax
    BY <2>1, NoneWaiting
  <2>5. QED
    BY <2>1, <2>3, <2>4 DEF daemonVars
<1>6. QED
  BY <1>3, <1>4, <1>5

\* The daemon: connections, the two queues and their workers.
LEMMA DaemonTypesStep ==
    ASSUME RpcTypes,
           \/ \E c \in Conns : Connect(c)
           \/ SocketDies \/ DaemonReads \/ StartJob \/ RunOrdered
           \/ \E job \in running : FinishJob(job)
    PROVE  RpcTypes'
<1> USE RpcAssumption DEF RpcTypes, Job
<1>1. ASSUME NEW c \in Conns, Connect(c)
      PROVE  RpcTypes'
  BY <1>1 DEF Connect, relayVars
<1>2. CASE SocketDies
  <2>1. socket \in Conns /\ UNCHANGED <<relayVars, shed, upstream, pool, running, line, ran>>
    BY <1>2 DEF SocketDies
  <2>2. socket' = NoConn /\ (outbox' = outbox \/ outbox' = [outbox EXCEPT ![socket] = <<>>])
    BY <1>2 DEF SocketDies
  <2>3. <<>> \in Seq(Calls) /\ Len(<<>>) = 0
    OBVIOUS
  <2>4. outbox' \in [Conns -> Seq(Calls)] /\ \A c \in Conns : Len(outbox'[c]) <= OutboxMax
    BY <2>1, <2>2, <2>3, NoneWaiting
  <2>5. QED
    BY <2>1, <2>2, <2>4 DEF relayVars
<1>3. CASE DaemonReads
  <2>1. socket \in Conns /\ outbox[socket] # <<>>
    BY <1>3 DEF DaemonReads
  <2>2. <<Head(outbox[socket]), socket>> \in Job
    BY <2>1
  <2>3. outbox' \in [Conns -> Seq(Calls)] /\ \A c \in Conns : Len(outbox'[c]) <= OutboxMax
    BY <1>3, <2>1 DEF DaemonReads
  <2>4. pool' \in Seq(Job) /\ line' \in Seq(Job)
    <3>1. \/ line' = Append(line, <<Head(outbox[socket]), socket>>) /\ UNCHANGED pool
          \/ pool' = Append(pool, <<Head(outbox[socket]), socket>>) /\ UNCHANGED line
      BY <1>3 DEF DaemonReads, Dispatch
    <3>2. \A s \in Seq(Job), job \in Job : Append(s, job) \in Seq(Job)
      OBVIOUS
    <3>3. QED
      BY <2>2, <3>1, <3>2
  <2>5. UNCHANGED <<sent, shed, upstream, socket, running, ran>>
    BY <1>3 DEF DaemonReads, relayVars
  <2>6. QED
    BY <2>3, <2>4, <2>5 DEF Job
<1>4. CASE StartJob
  BY <1>4 DEF StartJob, relayVars, linkVars
<1>5. ASSUME NEW job \in Job, Respond(job)
      PROVE  ran' \in Seq(Calls) /\ upstream' \in [Conns -> Seq(Calls \cup {Register})]
  <2>1. job[1] \in Calls
    OBVIOUS
  <2>2. CASE upstream' = upstream
    BY <1>5, <2>1, <2>2 DEF Respond
  <2>3. CASE upstream' = [upstream EXCEPT ![socket] = Append(@, job[1])]
    BY <1>5, <2>1, <2>3 DEF Respond
  <2>4. QED
    BY <1>5, <2>2, <2>3 DEF Respond
<1>6. CASE RunOrdered
  <2>1. Head(line) \in Job /\ Tail(line) \in Seq(Job)
    BY <1>6 DEF RunOrdered
  <2>2. QED
    BY <1>5, <1>6, <2>1 DEF RunOrdered, relayVars
<1>7. ASSUME NEW job \in running, FinishJob(job)
      PROVE  RpcTypes'
  BY <1>5, <1>7 DEF FinishJob, relayVars
<1>8. QED
  BY <1>1, <1>2, <1>3, <1>4, <1>6, <1>7

\* A worker takes a job when one of the pool is free.
LEMMA AtWorkStep ==
    ASSUME AtWork, [Next]_vars
    PROVE  AtWork'
<1> USE RpcAssumption
<1>0. Cardinality(running) \in Nat
  BY FS_CardinalityType DEF AtWork
<1>1. CASE StartJob
  <2>1. running' = running \cup {Head(pool)} /\ Cardinality(running) < Workers
    BY <1>1 DEF StartJob
  <2>2. /\ IsFiniteSet(running \cup {Head(pool)})
        /\ Cardinality(running \cup {Head(pool)}) =
              IF Head(pool) \in running THEN Cardinality(running) ELSE Cardinality(running) + 1
    BY FS_AddElement DEF AtWork
  <2>3. QED
    BY <1>0, <2>1, <2>2 DEF AtWork
<1>2. ASSUME NEW job \in running, FinishJob(job)
      PROVE  AtWork'
  <2>1. running' = running \ {job}
    BY <1>2 DEF FinishJob
  <2>2. /\ IsFiniteSet(running \ {job})
        /\ Cardinality(running \ {job}) \in {Cardinality(running), Cardinality(running) - 1}
    BY FS_RemoveElement DEF AtWork
  <2>3. QED
    BY <1>0, <2>1, <2>2 DEF AtWork
<1>3. CASE UNCHANGED running
  BY <1>3 DEF AtWork
<1>4. ASSUME NEW k \in Calls, MakeCall(k) \/ GracePoll(k) \/ GraceOver(k) \/ GiveUp(k)
      PROVE  AtWork'
  BY <1>3, <1>4 DEF MakeCall, GracePoll, GraceOver, GiveUp, Leave, daemonVars
<1>5. ASSUME NEW c \in Conns, RelayReads(c) \/ RelayDrops(c) \/ Connect(c)
      PROVE  AtWork'
  BY <1>3, <1>5 DEF RelayReads, RelayDrops, Connect, daemonVars
<1>6. CASE SocketDies \/ DaemonReads \/ RunOrdered \/ UNCHANGED vars
  BY <1>3, <1>6 DEF SocketDies, DaemonReads, RunOrdered, vars, daemonVars
<1>7. QED
  BY <1>1, <1>2, <1>4, <1>5, <1>6 DEF Next

\* The queues hold what they should.
THEOREM RpcTypesAlways == Spec => []RpcTypes
<1>1. Init => RpcTypes
  <2>1. Len(<<>>) = 0
    OBVIOUS
  <2>2. QED
    BY <2>1, RpcAssumption DEF Init, RpcTypes
<1>2. RouteInv /\ RpcTypes /\ [Next]_vars => RpcTypes'
  <2>1. RpcTypes /\ UNCHANGED vars => RpcTypes'
    BY DEF RpcTypes, vars, relayVars, linkVars, daemonVars
  <2>2. QED
    BY <2>1, RelayTypesStep, DaemonTypesStep DEF Next, RouteInv
<1>3. QED
  BY RouteInvariant, <1>1, <1>2, PTL DEF Spec

\* No outbox outgrows its limit and no more jobs run than there are workers.
THEOREM RpcTypesHold == Spec => []TypeOK
<1>1. Init => AtWork
  <2>1. IsFiniteSet({}) /\ Cardinality({}) = 0
    BY FS_EmptySet
  <2>2. Init => running = {}
    BY DEF Init
  <2>3. QED
    BY <2>1, <2>2, RpcAssumption DEF AtWork
<1>2. RouteInv /\ RpcTypes /\ AtWork => TypeOK
  BY DEF RouteInv, CallTypes, RpcTypes, AtWork, TypeOK
<1>3. QED
  BY RouteInvariant, RpcTypesAlways, AtWorkStep, <1>1, <1>2, PTL DEF Spec

-----------------------------------------------------------------------------
(* The order of the calls on their way to the ordered worker.              *)

WasSent(s, k) == \E x \in DOMAIN s : s[x] = k
SentBefore(s, j, k) == \E x, y \in DOMAIN s : s[x] = j /\ s[y] = k /\ x < y

\* Each call is sent once; it was made by then.
SentOnce ==
    /\ \A x, y \in DOMAIN sent : sent[x] = sent[y] => x = y
    /\ \A x \in DOMAIN sent : call[sent[x]] \notin {"idle", "grace"}

\* An outbox, the line and what was run are in the order of the sends; the line
\* is behind what was run, and the outbox that is read is behind the line.
OutboxOrder ==
    \A c \in Conns :
        /\ \A j \in DOMAIN outbox[c] : WasSent(sent, outbox[c][j])
        /\ \A i, j \in DOMAIN outbox[c] : i < j => SentBefore(sent, outbox[c][i], outbox[c][j])
        /\ relay[c] = "none" => outbox[c] = <<>>

LineOrder ==
    /\ \A i \in DOMAIN line : WasSent(sent, line[i][1])
    /\ \A i, j \in DOMAIN line : i < j => SentBefore(sent, line[i][1], line[j][1])
    /\ socket # NoConn =>
          \A i \in DOMAIN line, j \in DOMAIN outbox[socket] :
              SentBefore(sent, line[i][1], outbox[socket][j])

RanOrder ==
    \A x \in DOMAIN ran : ran[x] \in Ordered =>
        /\ WasSent(sent, ran[x])
        /\ \A y \in DOMAIN ran : x < y /\ ran[y] \in Ordered => SentBefore(sent, ran[x], ran[y])
        /\ \A i \in DOMAIN line : SentBefore(sent, ran[x], line[i][1])
        /\ socket # NoConn =>
              \A j \in DOMAIN outbox[socket] : SentBefore(sent, ran[x], outbox[socket][j])

\* The pool has none of the ordered calls.
PoolApart ==
    /\ \A i \in DOMAIN pool : pool[i][1] \notin Ordered
    /\ \A job \in running : job[1] \notin Ordered

OrderInv == SentOnce /\ OutboxOrder /\ LineOrder /\ RanOrder

\* An ordered call never goes to the pool.
LEMMA PoolApartStep ==
    ASSUME RpcTypes, PoolApart, [Next]_vars
    PROVE  PoolApart'
<1>1. CASE DaemonReads
  <2>1. CASE UNCHANGED pool
    BY <1>1, <2>1 DEF DaemonReads, PoolApart
  <2>2. CASE \E job : job[1] \notin Ordered /\ pool' = Append(pool, job) /\ job \in Job
    BY <1>1, <2>2 DEF DaemonReads, PoolApart, RpcTypes
  <2>3. Head(outbox[socket]) \in Calls /\ socket \in Conns
    BY <1>1 DEF DaemonReads, RpcTypes
  <2>4. <<Head(outbox[socket]), socket>> \in Job
    BY <2>3 DEF Job
  <2>5. QED
    BY <1>1, <2>1, <2>2, <2>4 DEF DaemonReads, Dispatch
<1>2. CASE StartJob
  <2>1. pool \in Seq(Job) /\ pool # <<>> /\ pool' = Tail(pool) /\ running' = running \cup {Head(pool)}
    BY <1>2 DEF StartJob, RpcTypes
  <2>2. /\ 1 \in DOMAIN pool /\ Head(pool) = pool[1]
        /\ \A i \in DOMAIN pool' : i + 1 \in DOMAIN pool /\ pool'[i] = pool[i + 1]
    BY <2>1
  <2>3. QED
    BY <2>1, <2>2 DEF PoolApart
<1>3. CASE \E job \in running : FinishJob(job)
  BY <1>3 DEF FinishJob, PoolApart
<1>4. CASE UNCHANGED <<pool, running>>
  BY <1>4 DEF PoolApart
<1>5. QED
  BY <1>1, <1>2, <1>3, <1>4 DEF Next, vars, daemonVars, MakeCall, GracePoll, GraceOver, GiveUp,
     Leave, RelayReads, RelayDrops, Connect, SocketDies, RunOrdered

\* The requests are in order for as long as none is sent, read or run.
LEMMA OrderQuiet ==
    ASSUME RpcTypes, OrderInv, UNCHANGED <<sent, line, ran>>,
           \A k \in Calls : call'[k] \in {"idle", "grace"} => call[k] \in {"idle", "grace"},
           \A c \in Conns : /\ outbox'[c] = outbox[c] \/ outbox'[c] = <<>>
                            /\ relay'[c] = "none" => relay[c] = "none",
           socket' = socket \/ socket' = NoConn \/ (socket' \in Conns /\ relay[socket'] = "none")
    PROVE  OrderInv'
<1>1. SentOnce'
  <2>1. \A x \in DOMAIN sent : sent[x] \in Calls
    BY DEF RpcTypes
  <2>2. QED
    BY <2>1 DEF OrderInv, SentOnce
<1>2. OutboxOrder'
  BY DEF OrderInv, OutboxOrder
<1>3. socket' # NoConn => outbox'[socket'] = <<>> \/ (socket' = socket /\ outbox'[socket] = outbox[socket])
  BY DEF OrderInv, OutboxOrder, RpcTypes
<1>4. LineOrder'
  BY <1>3 DEF OrderInv, LineOrder
<1>5. RanOrder'
  BY <1>3 DEF OrderInv, RanOrder
<1>6. QED
  BY <1>1, <1>2, <1>4, <1>5 DEF OrderInv

\* What is sent now comes after everything that was sent.
LEMMA SentGrows ==
    ASSUME sent \in Seq(Calls), NEW k \in Calls, sent' = Append(sent, k)
    PROVE  /\ \A j : WasSent(sent, j) => WasSent(sent', j) /\ SentBefore(sent', j, k)
           /\ \A i, j : SentBefore(sent, i, j) => SentBefore(sent', i, j)
           /\ WasSent(sent', k)
<1>1. /\ DOMAIN sent = 1 .. Len(sent) /\ DOMAIN sent' = 1 .. Len(sent) + 1 /\ Len(sent) \in Nat
      /\ \A x \in 1 .. Len(sent) : sent'[x] = sent[x]
      /\ sent'[Len(sent) + 1] = k
  OBVIOUS
<1>2. QED
  BY <1>1 DEF WasSent, SentBefore

\* A call that is sent goes to the end of its connection's outbox.
LEMMA OrderSent ==
    ASSUME CallTypes, HandlerServed, RpcTypes, OrderInv, NEW k \in Calls,
           call[k] \in {"idle", "grace"}, handler # NoConn,
           call' = [call EXCEPT ![k] = "waiting"], sent' = Append(sent, k),
           outbox' = [outbox EXCEPT ![handler] = Append(@, k)],
           UNCHANGED <<relay, line, ran, socket>>
    PROVE  OrderInv'
<1>1. handler \in Conns /\ relay[handler] = "up" /\ sent \in Seq(Calls)
  BY DEF CallTypes, HandlerServed, RpcTypes
<1>2. /\ \A j : WasSent(sent, j) => WasSent(sent', j) /\ SentBefore(sent', j, k)
      /\ \A i, j : SentBefore(sent, i, j) => SentBefore(sent', i, j)
      /\ WasSent(sent', k)
  BY <1>1, SentGrows
<1>3. SentOnce'
  <2>1. /\ DOMAIN sent = 1 .. Len(sent) /\ DOMAIN sent' = 1 .. Len(sent) + 1 /\ Len(sent) \in Nat
        /\ \A x \in 1 .. Len(sent) : sent'[x] = sent[x] /\ sent[x] \in Calls
        /\ sent'[Len(sent) + 1] = k
    BY <1>1
  <2>2. \A x \in 1 .. Len(sent) : sent[x] # k
    BY <2>1 DEF OrderInv, SentOnce
  <2>3. \A x \in 1 .. Len(sent) + 1 : x \in 1 .. Len(sent) \/ x = Len(sent) + 1
    BY <2>1
  <2>4. \A x, y \in DOMAIN sent' : sent'[x] = sent'[y] => x = y
    BY <2>1, <2>2, <2>3 DEF OrderInv, SentOnce
  <2>5. \A x \in DOMAIN sent' : call'[sent'[x]] \notin {"idle", "grace"}
    BY <2>1, <2>2, <2>3 DEF OrderInv, SentOnce, CallTypes
  <2>6. QED
    BY <2>4, <2>5 DEF SentOnce
<1>4. ASSUME NEW c \in Conns
      PROVE  \A j \in DOMAIN outbox'[c] :
                \/ j \in DOMAIN outbox[c] /\ outbox'[c][j] = outbox[c][j]
                \/ /\ outbox'[c][j] = k
                   /\ \A i \in DOMAIN outbox'[c] :
                         i < j => i \in DOMAIN outbox[c] /\ outbox'[c][i] = outbox[c][i]
  <2>1. CASE c # handler
    BY <2>1 DEF RpcTypes
  <2>2. CASE c = handler
    <3>1. outbox[c] \in Seq(Calls) /\ outbox'[c] = Append(outbox[c], k)
      BY <2>2 DEF RpcTypes
    <3>2. /\ DOMAIN outbox[c] = 1 .. Len(outbox[c]) /\ DOMAIN outbox'[c] = 1 .. Len(outbox[c]) + 1
          /\ Len(outbox[c]) \in Nat
          /\ \A x \in 1 .. Len(outbox[c]) : outbox'[c][x] = outbox[c][x]
          /\ outbox'[c][Len(outbox[c]) + 1] = k
      BY <3>1
    <3>3. QED
      BY <3>2
  <2>3. QED
    BY <2>1, <2>2
<1>5. OutboxOrder'
  <2>1. SUFFICES ASSUME NEW c \in Conns
                 PROVE  /\ \A j \in DOMAIN outbox'[c] : WasSent(sent', outbox'[c][j])
                        /\ \A i, j \in DOMAIN outbox'[c] :
                              i < j => SentBefore(sent', outbox'[c][i], outbox'[c][j])
                        /\ relay[c] = "none" => outbox'[c] = <<>>
    BY DEF OutboxOrder
  <2>2. /\ \A j \in DOMAIN outbox[c] : WasSent(sent, outbox[c][j])
        /\ \A i, j \in DOMAIN outbox[c] : i < j => SentBefore(sent, outbox[c][i], outbox[c][j])
        /\ relay[c] = "none" => outbox[c] = <<>> /\ c # handler
    BY <1>1 DEF OrderInv, OutboxOrder
  <2>3. relay[c] = "none" => outbox'[c] = <<>>
    BY <2>2 DEF RpcTypes
  <2>4. \A j \in DOMAIN outbox'[c] : WasSent(sent', outbox'[c][j])
    BY <1>2, <1>4, <2>2
  <2>5. ASSUME NEW i \in DOMAIN outbox'[c], NEW j \in DOMAIN outbox'[c], i < j
        PROVE  SentBefore(sent', outbox'[c][i], outbox'[c][j])
    <3>1. CASE outbox'[c][j] = k /\ i \in DOMAIN outbox[c] /\ outbox'[c][i] = outbox[c][i]
      BY <1>2, <2>2, <3>1
    <3>2. CASE j \in DOMAIN outbox[c] /\ outbox'[c][j] = outbox[c][j]
      <4>1. i \in DOMAIN outbox[c] /\ outbox'[c][i] = outbox[c][i]
        <5>1. outbox[c] \in Seq(Calls) /\ (outbox'[c] = outbox[c] \/ outbox'[c] = Append(outbox[c], k))
          BY DEF RpcTypes
        <5>2. DOMAIN outbox[c] = 1 .. Len(outbox[c]) /\ Len(outbox[c]) \in Nat
          BY <5>1
        <5>3. i \in Nat /\ 1 <= i
          BY <5>1
        <5>4. i \in 1 .. Len(outbox[c])
          BY <2>5, <3>2, <5>2, <5>3
        <5>5. QED
          BY <5>1, <5>2, <5>4
      <4>2. QED
        BY <1>2, <2>2, <2>5, <3>2, <4>1
    <3>3. QED
      BY <1>4, <2>5, <3>1, <3>2
  <2>6. QED
    BY <2>3, <2>4, <2>5
<1>6. LineOrder'
  <2>1. /\ \A i \in DOMAIN line : WasSent(sent', line[i][1])
        /\ \A i, j \in DOMAIN line : i < j => SentBefore(sent', line[i][1], line[j][1])
    BY <1>2 DEF OrderInv, LineOrder
  <2>2. ASSUME socket # NoConn, NEW i \in DOMAIN line, NEW j \in DOMAIN outbox'[socket]
        PROVE  SentBefore(sent', line[i][1], outbox'[socket][j])
    <3>1. socket \in Conns
      BY <2>2 DEF RpcTypes
    <3>2. QED
      BY <1>2, <1>4, <2>2, <3>1 DEF OrderInv, LineOrder
  <2>3. QED
    BY <2>1, <2>2 DEF LineOrder
<1>7. RanOrder'
  <2>1. SUFFICES ASSUME NEW x \in DOMAIN ran, ran[x] \in Ordered
                 PROVE  /\ WasSent(sent', ran[x])
                        /\ \A y \in DOMAIN ran : x < y /\ ran[y] \in Ordered => SentBefore(sent', ran[x], ran[y])
                        /\ \A i \in DOMAIN line : SentBefore(sent', ran[x], line[i][1])
                        /\ socket # NoConn => \A j \in DOMAIN outbox'[socket] :
                                                 SentBefore(sent', ran[x], outbox'[socket][j])
    BY DEF RanOrder
  <2>2. /\ WasSent(sent, ran[x])
        /\ \A y \in DOMAIN ran : x < y /\ ran[y] \in Ordered => SentBefore(sent, ran[x], ran[y])
        /\ \A i \in DOMAIN line : SentBefore(sent, ran[x], line[i][1])
        /\ socket # NoConn => \A j \in DOMAIN outbox[socket] : SentBefore(sent, ran[x], outbox[socket][j])
    BY <2>1 DEF OrderInv, RanOrder
  <2>3. ASSUME socket # NoConn, NEW j \in DOMAIN outbox'[socket]
        PROVE  SentBefore(sent', ran[x], outbox'[socket][j])
    <3>1. socket \in Conns
      BY <2>3 DEF RpcTypes
    <3>2. QED
      BY <1>2, <1>4, <2>2, <2>3, <3>1
  <2>4. QED
    BY <1>2, <2>2, <2>3
<1>8. QED
  BY <1>3, <1>5, <1>6, <1>7 DEF OrderInv

\* A request that is read goes behind the line, and everything left in the
\* outbox is behind it.
LEMMA OrderRead ==
    ASSUME CallTypes, RpcTypes, OrderInv, DaemonReads
    PROVE  OrderInv'
<1> DEFINE k == Head(outbox[socket])
           q == outbox[socket]
<1>1. /\ socket \in Conns /\ socket # NoConn /\ q \in Seq(Calls) /\ q # <<>>
      /\ outbox' = [outbox EXCEPT ![socket] = Tail(q)]
      /\ UNCHANGED <<call, sent, relay, socket, ran>>
      /\ \/ UNCHANGED line
         \/ line' = Append(line, <<k, socket>>)
  BY DEF DaemonReads, Dispatch, RpcTypes, relayVars
<1>2. /\ 1 \in DOMAIN q /\ k = q[1]
      /\ \A i \in DOMAIN Tail(q) : i + 1 \in DOMAIN q /\ Tail(q)[i] = q[i + 1] /\ i \in Nat /\ 1 < i + 1
  BY <1>1
<1>3. outbox'[socket] = Tail(q) /\ \A c \in Conns : c # socket => outbox'[c] = outbox[c]
  BY <1>1 DEF RpcTypes
<1>4. /\ \A j \in DOMAIN q : WasSent(sent, q[j])
      /\ \A i, j \in DOMAIN q : i < j => SentBefore(sent, q[i], q[j])
      /\ \A i \in DOMAIN line, j \in DOMAIN q : SentBefore(sent, line[i][1], q[j])
      /\ relay[socket] # "none"
  BY <1>1 DEF OrderInv, OutboxOrder, LineOrder
<1> HIDE DEF k, q
<1>5. SentOnce'
  BY <1>1 DEF OrderInv, SentOnce
<1>6. OutboxOrder'
  <2>1. ASSUME NEW c \in Conns, c # socket
        PROVE  /\ \A j \in DOMAIN outbox'[c] : WasSent(sent, outbox'[c][j])
               /\ \A i, j \in DOMAIN outbox'[c] : i < j => SentBefore(sent, outbox'[c][i], outbox'[c][j])
               /\ relay[c] = "none" => outbox'[c] = <<>>
    BY <1>3, <2>1 DEF OrderInv, OutboxOrder
  <2>2. /\ \A j \in DOMAIN Tail(q) : WasSent(sent, Tail(q)[j])
        /\ \A i, j \in DOMAIN Tail(q) : i < j => SentBefore(sent, Tail(q)[i], Tail(q)[j])
    BY <1>2, <1>4
  <2>3. QED
    BY <1>1, <1>3, <1>4, <2>1, <2>2 DEF OutboxOrder
<1>7. \A j \in DOMAIN Tail(q) : SentBefore(sent, k, Tail(q)[j])
  BY <1>2, <1>4
<1>8. \A i \in DOMAIN line' : \/ i \in DOMAIN line /\ line'[i] = line[i]
                              \/ /\ line'[i][1] = k
                                 /\ \A j \in DOMAIN line' : j < i => j \in DOMAIN line /\ line'[j] = line[j]
                                 /\ \A j \in DOMAIN line' : j <= i
  <2>1. CASE line' = Append(line, <<k, socket>>)
    <3>1. line \in Seq(Job)
      BY DEF RpcTypes
    <3>2. /\ DOMAIN line = 1 .. Len(line) /\ DOMAIN line' = 1 .. Len(line) + 1 /\ Len(line) \in Nat
          /\ \A x \in 1 .. Len(line) : line'[x] = line[x]
          /\ line'[Len(line) + 1] = <<k, socket>>
      BY <2>1, <3>1
    <3>3. QED
      BY <3>2
  <2>2. QED
    BY <1>1, <2>1
<1>9. LineOrder'
  <2>1. \A i \in DOMAIN line' : WasSent(sent, line'[i][1])
    BY <1>2, <1>4, <1>8 DEF OrderInv, LineOrder
  <2>2. \A i \in DOMAIN line', j \in DOMAIN Tail(q) : SentBefore(sent, line'[i][1], Tail(q)[j])
    BY <1>2, <1>4, <1>7, <1>8
  <2>3. ASSUME NEW i \in DOMAIN line', NEW j \in DOMAIN line', i < j
        PROVE  SentBefore(sent, line'[i][1], line'[j][1])
    <3>1. i \in Int /\ j \in Int
      BY <1>1 DEF RpcTypes
    <3>2. i \in DOMAIN line /\ line'[i] = line[i]
      BY <1>8, <2>3, <3>1
    <3>3. CASE j \in DOMAIN line /\ line'[j] = line[j]
      BY <2>3, <3>2, <3>3 DEF OrderInv, LineOrder
    <3>4. CASE line'[j][1] = k
      BY <1>2, <1>4, <3>2, <3>4
    <3>5. QED
      BY <1>8, <3>3, <3>4
  <2>4. QED
    BY <1>1, <1>3, <2>1, <2>2, <2>3 DEF LineOrder
<1>10. RanOrder'
  <2>1. SUFFICES ASSUME NEW x \in DOMAIN ran, ran[x] \in Ordered
                 PROVE  /\ WasSent(sent, ran[x])
                        /\ \A y \in DOMAIN ran : x < y /\ ran[y] \in Ordered => SentBefore(sent, ran[x], ran[y])
                        /\ \A i \in DOMAIN line' : SentBefore(sent, ran[x], line'[i][1])
                        /\ \A j \in DOMAIN Tail(q) : SentBefore(sent, ran[x], Tail(q)[j])
    BY <1>1, <1>3 DEF RanOrder
  <2>2. /\ WasSent(sent, ran[x])
        /\ \A y \in DOMAIN ran : x < y /\ ran[y] \in Ordered => SentBefore(sent, ran[x], ran[y])
        /\ \A i \in DOMAIN line : SentBefore(sent, ran[x], line[i][1])
        /\ \A j \in DOMAIN q : SentBefore(sent, ran[x], q[j])
    BY <1>1, <2>1 DEF OrderInv, RanOrder, q
  <2>3. QED
    BY <1>2, <1>8, <2>2
<1>11. QED
  BY <1>5, <1>6, <1>9, <1>10 DEF OrderInv

\* What is run next is either not ordered or the first of the line.
LEMMA OrderRun ==
    ASSUME CallTypes, RpcTypes, PoolApart, OrderInv,
           RunOrdered \/ \E job \in running : FinishJob(job)
    PROVE  OrderInv'
<1>1. PICK k : /\ ran' = Append(ran, k)
               /\ \/ k \notin Ordered /\ UNCHANGED line
                  \/ /\ line # <<>> /\ line' = Tail(line) /\ k = Head(line)[1]
               /\ UNCHANGED <<call, sent, relay, socket, outbox>>
  BY DEF RunOrdered, FinishJob, Respond, relayVars, PoolApart
<1>2. /\ ran \in Seq(Calls) /\ line \in Seq(Job)
      /\ DOMAIN ran = 1 .. Len(ran) /\ DOMAIN ran' = 1 .. Len(ran) + 1 /\ Len(ran) \in Nat
      /\ \A x \in 1 .. Len(ran) : ran'[x] = ran[x]
      /\ ran'[Len(ran) + 1] = k
  BY <1>1 DEF RpcTypes
<1>3. SentOnce' /\ OutboxOrder'
  BY <1>1 DEF OrderInv, SentOnce, OutboxOrder
<1>4. CASE k \notin Ordered /\ UNCHANGED line
  <2>1. LineOrder'
    BY <1>1, <1>4 DEF OrderInv, LineOrder
  <2>2. \A x \in DOMAIN ran' : ran'[x] \in Ordered => x \in DOMAIN ran /\ ran'[x] = ran[x]
    BY <1>2, <1>4
  <2>3. RanOrder'
    BY <1>1, <1>4, <2>2 DEF OrderInv, RanOrder
  <2>4. QED
    BY <1>3, <2>1, <2>3 DEF OrderInv
<1>5. CASE line # <<>> /\ line' = Tail(line) /\ k = Head(line)[1]
  <2>1. /\ 1 \in DOMAIN line /\ k = line[1][1]
        /\ \A i \in DOMAIN line' : i + 1 \in DOMAIN line /\ line'[i] = line[i + 1] /\ i \in Nat /\ 1 < i + 1
    BY <1>2, <1>5
  <2>2. /\ \A i \in DOMAIN line : WasSent(sent, line[i][1])
        /\ \A i, j \in DOMAIN line : i < j => SentBefore(sent, line[i][1], line[j][1])
        /\ socket # NoConn =>
              \A i \in DOMAIN line, j \in DOMAIN outbox[socket] :
                  SentBefore(sent, line[i][1], outbox[socket][j])
    BY DEF OrderInv, LineOrder
  <2>3. LineOrder'
    <3>1. \A i \in DOMAIN line' : WasSent(sent, line'[i][1])
      BY <2>1, <2>2
    <3>2. \A i, j \in DOMAIN line' : i < j => SentBefore(sent, line'[i][1], line'[j][1])
      BY <2>1, <2>2
    <3>3. socket # NoConn =>
              \A i \in DOMAIN line', j \in DOMAIN outbox[socket] :
                  SentBefore(sent, line'[i][1], outbox[socket][j])
      BY <2>1, <2>2
    <3>4. QED
      BY <1>1, <3>1, <3>2, <3>3 DEF LineOrder
  <2>4. \A x \in DOMAIN ran : ran[x] \in Ordered =>
           /\ WasSent(sent, ran[x]) /\ SentBefore(sent, ran[x], k)
           /\ \A y \in DOMAIN ran : x < y /\ ran[y] \in Ordered => SentBefore(sent, ran[x], ran[y])
           /\ \A i \in DOMAIN line' : SentBefore(sent, ran[x], line'[i][1])
           /\ socket # NoConn =>
                 \A j \in DOMAIN outbox[socket] : SentBefore(sent, ran[x], outbox[socket][j])
    BY <2>1 DEF OrderInv, RanOrder
  <2>5. /\ WasSent(sent, k)
        /\ \A i \in DOMAIN line' : SentBefore(sent, k, line'[i][1])
        /\ socket # NoConn => \A j \in DOMAIN outbox[socket] : SentBefore(sent, k, outbox[socket][j])
    BY <2>1, <2>2
  <2>6. ASSUME NEW x \in DOMAIN ran', ran'[x] \in Ordered
        PROVE  /\ WasSent(sent, ran'[x])
               /\ \A y \in DOMAIN ran' : x < y /\ ran'[y] \in Ordered => SentBefore(sent, ran'[x], ran'[y])
               /\ \A i \in DOMAIN line' : SentBefore(sent, ran'[x], line'[i][1])
               /\ socket # NoConn =>
                     \A j \in DOMAIN outbox[socket] : SentBefore(sent, ran'[x], outbox[socket][j])
    <3>1. CASE x \in DOMAIN ran
      <4>1. ran'[x] = ran[x]
        BY <1>2, <3>1
      <4>2. ASSUME NEW y \in DOMAIN ran', x < y, ran'[y] \in Ordered
            PROVE  SentBefore(sent, ran[x], ran'[y])
        <5>1. y \in DOMAIN ran \/ y = Len(ran) + 1
          BY <1>2
        <5>2. CASE y \in DOMAIN ran
          BY <1>2, <2>4, <2>6, <3>1, <4>1, <4>2, <5>2
        <5>3. CASE y = Len(ran) + 1
          BY <1>2, <2>4, <2>6, <3>1, <4>1, <5>3
        <5>4. QED
          BY <5>1, <5>2, <5>3
      <4>3. QED
        BY <2>4, <2>6, <3>1, <4>1, <4>2
    <3>2. CASE x = Len(ran) + 1
      <4>1. \A y \in DOMAIN ran' : ~ (x < y)
        BY <1>2, <3>2
      <4>2. QED
        BY <1>2, <2>5, <3>2, <4>1
    <3>3. QED
      BY <1>2, <3>1, <3>2
  <2>7. RanOrder'
    BY <1>1, <2>6 DEF RanOrder
  <2>8. QED
    BY <1>3, <2>3, <2>7 DEF OrderInv
<1>6. QED
  BY <1>1, <1>4, <1>5

\* No step puts a request out of its order.
LEMMA OrderStep ==
    ASSUME CallTypes, HandlerServed, RpcTypes, PoolApart, OrderInv, [Next]_vars
    PROVE  OrderInv'
<1> USE RpcAssumption
<1>1. ASSUME NEW k \in Calls, MakeCall(k) \/ GracePoll(k) \/ GraceOver(k) \/ GiveUp(k)
      PROVE  OrderInv'
  <2>1. /\ UNCHANGED <<relay, socket, line, ran>>
        /\ \E s : call' = [call EXCEPT ![k] = s]
        /\ call[k] \in {"idle", "grace"} \/ \A j \in Calls : call'[j] \in {"idle", "grace"} => call[j] \in {"idle", "grace"}
        /\ \/ UNCHANGED <<outbox, sent>>
           \/ /\ handler # NoConn /\ call' = [call EXCEPT ![k] = "waiting"] /\ call[k] \in {"idle", "grace"}
              /\ outbox' = [outbox EXCEPT ![handler] = Append(@, k)]
              /\ sent' = Append(sent, k)
    BY <1>1 DEF MakeCall, GracePoll, GraceOver, GiveUp, Leave, Send, daemonVars, linkVars, CallTypes
  <2>2. CASE UNCHANGED <<outbox, sent>>
    <3>1. \A j \in Calls : call'[j] \in {"idle", "grace"} => call[j] \in {"idle", "grace"}
      BY <2>1 DEF CallTypes
    <3>2. QED
      BY <2>1, <2>2, <3>1, OrderQuiet
  <2>3. CASE ~ UNCHANGED <<outbox, sent>>
    BY <2>1, <2>3, OrderSent
  <2>4. QED
    BY <2>2, <2>3
<1>2. ASSUME NEW c \in Conns, RelayReads(c) \/ RelayDrops(c) \/ Connect(c)
      PROVE  OrderInv'
  <2>1. UNCHANGED <<sent, line, ran>>
    BY <1>2 DEF RelayReads, RelayDrops, Connect, relayVars, daemonVars
  <2>2. \A k \in Calls : call'[k] \in {"idle", "grace"} => call[k] \in {"idle", "grace"}
    BY <1>2 DEF RelayReads, RelayDrops, Connect, Resolve, Unregister, relayVars, CallTypes
  <2>3. \A d \in Conns : /\ outbox'[d] = outbox[d] \/ outbox'[d] = <<>>
                         /\ relay'[d] = "none" => relay[d] = "none"
    BY <1>2 DEF RelayReads, RelayDrops, Connect, RpcTypes, CallTypes
  <2>4. socket' = socket \/ (socket' \in Conns /\ relay[socket'] = "none")
    BY <1>2 DEF RelayReads, RelayDrops, Connect, daemonVars
  <2>5. QED
    BY <2>1, <2>2, <2>3, <2>4, OrderQuiet
<1>3. CASE SocketDies
  <2>1. /\ UNCHANGED <<call, sent, relay, line, ran>> /\ socket' = NoConn
        /\ \A d \in Conns : outbox'[d] = outbox[d] \/ outbox'[d] = <<>>
    BY <1>3 DEF SocketDies, relayVars, RpcTypes
  <2>2. QED
    BY <2>1, OrderQuiet
<1>4. CASE StartJob \/ UNCHANGED vars
  <2>1. UNCHANGED <<call, sent, relay, outbox, socket, line, ran>>
    BY <1>4 DEF StartJob, relayVars, linkVars, daemonVars, vars
  <2>2. QED
    BY <2>1, OrderQuiet
<1>5. QED
  BY <1>1, <1>2, <1>3, <1>4, OrderRead, OrderRun DEF Next

\* The ordered calls of a machine run in the order in which the relay sent
\* them, over any number of connections: what is read from a new socket was
\* sent after everything in the line.
THEOREM OrderedRunAsSent == Spec => []RunsAsSent
<1>1. Init => PoolApart /\ OrderInv
  BY DEF Init, PoolApart, OrderInv, SentOnce, OutboxOrder, LineOrder, RanOrder
<1>2. OrderInv /\ RpcTypes => RunsAsSent
  <2>1. SUFFICES ASSUME OrderInv, RpcTypes, NEW j \in Ordered, NEW k \in Ordered, j # k,
                        SentBefore(sent, j, k),
                        NEW x \in DOMAIN ran, NEW y \in DOMAIN ran, ran[x] = j, ran[y] = k
                 PROVE  x < y
    BY DEF RunsAsSent, Before, SentBefore
  <2>2. x \in Nat /\ y \in Nat /\ x # y
    BY <2>1 DEF RpcTypes
  <2>3. ~ SentBefore(sent, k, j)
    <3>1. \A a \in DOMAIN sent : a \in Nat
      BY <2>1 DEF RpcTypes
    <3>2. QED
      BY <2>1, <3>1 DEF OrderInv, SentOnce, SentBefore
  <2>4. y < x => SentBefore(sent, k, j)
    BY <2>1 DEF OrderInv, RanOrder
  <2>5. QED
    BY <2>2, <2>3, <2>4
<1>3. RpcTypes /\ PoolApart /\ [Next]_vars => PoolApart'
  BY PoolApartStep
<1>4. RouteInv /\ RpcTypes /\ PoolApart /\ OrderInv /\ [Next]_vars => OrderInv'
  BY OrderStep DEF RouteInv
<1>5. QED
  BY <1>1, <1>2, <1>3, <1>4, RouteInvariant, RpcTypesAlways, PTL DEF Spec

-----------------------------------------------------------------------------
(* Each request in one place, and what the answers say.                    *)

Elems(q) == {q[i] : i \in DOMAIN q}
CallsOf(q) == {q[i][1] : i \in DOMAIN q}
Distinct(q) == \A i, j \in DOMAIN q : q[i] = q[j] => i = j
DistinctCalls(q) == \A i, j \in DOMAIN q : q[i][1] = q[j][1] => i = j

Sent == Elems(sent)
Held(c) == Elems(outbox[c])
Pooled == CallsOf(pool)
Lined == CallsOf(line)
Busy == {job[1] : job \in running}
Ran == Elems(ran)

\* No request is twice in a queue, or with two workers, or was run twice ...
NoneTwice ==
    /\ Distinct(sent) /\ Distinct(ran) /\ DistinctCalls(pool) /\ DistinctCalls(line)
    /\ \A a, b \in running : a[1] = b[1] => a = b
    /\ \A c \in Conns : Distinct(outbox[c])

\* ... nor in two of them, and each was sent.
OnePlace ==
    /\ \A c \in Conns : Held(c) \subseteq Sent \ (Pooled \cup Lined \cup Busy \cup Ran)
    /\ \A c, d \in Conns : c # d => Held(c) \cap Held(d) = {}
    /\ Pooled \subseteq Sent \ (Lined \cup Busy \cup Ran)
    /\ Lined \subseteq Sent \ (Busy \cup Ran)
    /\ Busy \subseteq Sent \ Ran
    /\ Ran \subseteq Sent

\* An answer, on the wire or with the caller, is of a call that was run; the
\* caller that was told no_handler has sent nothing.
Answers ==
    /\ \A c \in Conns : \A i \in DOMAIN upstream[c] : upstream[c][i] # Register => upstream[c][i] \in Ran
    /\ \A k \in Calls : call[k] = "result" => k \in Ran
    /\ \A k \in Sent : call[k] \notin {"idle", "grace", "no_handler"}

RunInv == NoneTwice /\ OnePlace /\ Answers

\* A queue that grows by a call.
LEMMA AppendCall ==
    ASSUME NEW q \in Seq(Calls), NEW k \in Calls
    PROVE  /\ Elems(Append(q, k)) = Elems(q) \cup {k}
           /\ Distinct(q) /\ k \notin Elems(q) => Distinct(Append(q, k))
<1> DEFINE r == Append(q, k)
<1>1. /\ DOMAIN q = 1 .. Len(q) /\ DOMAIN r = 1 .. Len(q) + 1 /\ Len(q) \in Nat
      /\ \A i \in 1 .. Len(q) : r[i] = q[i]
      /\ r[Len(q) + 1] = k
  OBVIOUS
<1> HIDE DEF r
<1>2. \A i \in DOMAIN r : i \in DOMAIN q \/ i = Len(q) + 1
  BY <1>1
<1>3. Elems(r) = Elems(q) \cup {k}
  <2>1. Elems(r) \subseteq Elems(q) \cup {k}
    BY <1>1, <1>2 DEF Elems
  <2>2. Elems(q) \subseteq Elems(r)
    BY <1>1 DEF Elems
  <2>3. k \in Elems(r)
    BY <1>1 DEF Elems
  <2>4. QED
    BY <2>1, <2>2, <2>3
<1>4. Distinct(q) /\ k \notin Elems(q) => Distinct(r)
  BY <1>1, <1>2 DEF Elems, Distinct
<1>5. QED
  BY <1>3, <1>4 DEF r

\* A queue that loses its first call.
LEMMA TailCall ==
    ASSUME NEW q \in Seq(Calls), q # <<>>, Distinct(q)
    PROVE  /\ Elems(Tail(q)) = Elems(q) \ {Head(q)} /\ Head(q) \in Elems(q)
           /\ Distinct(Tail(q))
<1> DEFINE r == Tail(q)
           k == Head(q)
<1>1. /\ 1 \in DOMAIN q /\ k = q[1]
      /\ \A i \in DOMAIN r : i \in Nat /\ i + 1 \in DOMAIN q /\ r[i] = q[i + 1] /\ i + 1 # 1
      /\ \A j \in DOMAIN q : j = 1 \/ (j - 1 \in DOMAIN r /\ r[j - 1] = q[j])
  OBVIOUS
<1> HIDE DEF r, k
<1>2. Elems(r) = Elems(q) \ {k}
  <2>1. Elems(r) \subseteq Elems(q) \ {k}
    BY <1>1 DEF Elems, Distinct
  <2>2. Elems(q) \ {k} \subseteq Elems(r)
    BY <1>1 DEF Elems
  <2>3. QED
    BY <2>1, <2>2
<1>3. k \in Elems(q)
  BY <1>1 DEF Elems
<1>4. Distinct(r)
  BY <1>1 DEF Distinct
<1>5. QED
  BY <1>2, <1>3, <1>4 DEF r, k

\* A queue that grows by a job.
LEMMA AppendJob ==
    ASSUME NEW q \in Seq(Job), NEW job \in Job
    PROVE  /\ CallsOf(Append(q, job)) = CallsOf(q) \cup {job[1]}
           /\ DistinctCalls(q) /\ job[1] \notin CallsOf(q) => DistinctCalls(Append(q, job))
<1> DEFINE r == Append(q, job)
<1>1. /\ DOMAIN q = 1 .. Len(q) /\ DOMAIN r = 1 .. Len(q) + 1 /\ Len(q) \in Nat
      /\ \A i \in 1 .. Len(q) : r[i] = q[i]
      /\ r[Len(q) + 1] = job
  OBVIOUS
<1> HIDE DEF r
<1>2. \A i \in DOMAIN r : i \in DOMAIN q \/ i = Len(q) + 1
  BY <1>1
<1>3. CallsOf(r) = CallsOf(q) \cup {job[1]}
  <2>1. CallsOf(r) \subseteq CallsOf(q) \cup {job[1]}
    BY <1>1, <1>2 DEF CallsOf
  <2>2. CallsOf(q) \subseteq CallsOf(r)
    BY <1>1 DEF CallsOf
  <2>3. job[1] \in CallsOf(r)
    BY <1>1 DEF CallsOf
  <2>4. QED
    BY <2>1, <2>2, <2>3
<1>4. DistinctCalls(q) /\ job[1] \notin CallsOf(q) => DistinctCalls(r)
  BY <1>1, <1>2 DEF CallsOf, DistinctCalls
<1>5. QED
  BY <1>3, <1>4 DEF r

\* A queue that loses its first job.
LEMMA TailJob ==
    ASSUME NEW q \in Seq(Job), q # <<>>, DistinctCalls(q)
    PROVE  /\ CallsOf(Tail(q)) = CallsOf(q) \ {Head(q)[1]} /\ Head(q)[1] \in CallsOf(q)
           /\ DistinctCalls(Tail(q)) /\ Head(q) \in Job
<1> DEFINE r == Tail(q)
           job == Head(q)
<1>1. /\ 1 \in DOMAIN q /\ job = q[1] /\ job \in Job
      /\ \A i \in DOMAIN r : i \in Nat /\ i + 1 \in DOMAIN q /\ r[i] = q[i + 1] /\ i + 1 # 1
      /\ \A j \in DOMAIN q : j = 1 \/ (j - 1 \in DOMAIN r /\ r[j - 1] = q[j])
  OBVIOUS
<1> HIDE DEF r, job
<1>2. CallsOf(r) = CallsOf(q) \ {job[1]}
  <2>1. CallsOf(r) \subseteq CallsOf(q) \ {job[1]}
    BY <1>1 DEF CallsOf, DistinctCalls
  <2>2. CallsOf(q) \ {job[1]} \subseteq CallsOf(r)
    <3>1. SUFFICES ASSUME NEW j \in DOMAIN q, q[j][1] # job[1]
                   PROVE  \E i \in DOMAIN r : r[i][1] = q[j][1]
      BY DEF CallsOf
    <3>2. j # 1
      BY <1>1, <3>1
    <3>3. j - 1 \in DOMAIN r /\ r[j - 1] = q[j]
      BY <1>1, <3>2
    <3>4. QED
      BY <3>3
  <2>3. QED
    BY <2>1, <2>2
<1>3. job[1] \in CallsOf(q)
  BY <1>1 DEF CallsOf
<1>4. DistinctCalls(r)
  <2>1. SUFFICES ASSUME NEW i \in DOMAIN r, NEW j \in DOMAIN r, r[i][1] = r[j][1]
                 PROVE  i = j
    BY DEF DistinctCalls
  <2>2. /\ i + 1 \in DOMAIN q /\ j + 1 \in DOMAIN q /\ i \in Nat /\ j \in Nat
        /\ q[i + 1][1] = q[j + 1][1]
    BY <1>1, <2>1
  <2>3. i + 1 = j + 1
    BY <2>2 DEF DistinctCalls
  <2>4. QED
    BY <2>2, <2>3
<1>5. QED
  BY <1>1, <1>2, <1>3, <1>4 DEF r, job

\* A request that is sent is in its outbox and nowhere else.
LEMMA PlacedSend ==
    ASSUME RpcTypes, CallTypes, NoneTwice, OnePlace, NEW k \in Calls, k \notin Sent, handler # NoConn,
           sent' = Append(sent, k), outbox' = [outbox EXCEPT ![handler] = Append(@, k)],
           UNCHANGED <<pool, line, running, ran>>
    PROVE  NoneTwice' /\ OnePlace'
<1>1. handler \in Conns /\ outbox[handler] \in Seq(Calls) /\ sent \in Seq(Calls)
  BY DEF RpcTypes, CallTypes
<1>2. outbox'[handler] = Append(outbox[handler], k) /\ \A c \in Conns : c # handler => outbox'[c] = outbox[c]
  BY <1>1 DEF RpcTypes
<1>3. Distinct(sent') /\ Elems(sent') = Sent \cup {k}
  BY <1>1, AppendCall DEF NoneTwice, Sent
<1>4. k \notin Held(handler)
  BY <1>1 DEF OnePlace
<1>5. Distinct(outbox'[handler]) /\ Elems(outbox'[handler]) = Held(handler) \cup {k}
  BY <1>1, <1>2, <1>4, AppendCall DEF NoneTwice, Held
<1>6. NoneTwice'
  BY <1>2, <1>3, <1>5 DEF NoneTwice
<1>7. /\ Sent' = Sent \cup {k} /\ Pooled' = Pooled /\ Lined' = Lined /\ Busy' = Busy /\ Ran' = Ran
      /\ \A c \in Conns : \/ c # handler /\ Held(c)' = Held(c)
                          \/ c = handler /\ Held(c)' = Held(c) \cup {k}
  <2>1. Pooled' = Pooled /\ Lined' = Lined /\ Busy' = Busy /\ Ran' = Ran
    BY DEF Pooled, Lined, Busy, Ran
  <2>2. Sent' = Sent \cup {k}
    BY <1>3 DEF Sent
  <2>3. \A c \in Conns : \/ c # handler /\ Held(c)' = Held(c)
                         \/ c = handler /\ Held(c)' = Held(c) \cup {k}
    BY <1>2, <1>5 DEF Held
  <2>4. QED
    BY <2>1, <2>2, <2>3
<1>8. OnePlace'
  BY <1>7 DEF OnePlace
<1>9. QED
  BY <1>6, <1>8

\* A request that is lost with its connection is nowhere.
LEMMA PlacedLoss ==
    ASSUME NoneTwice, OnePlace, UNCHANGED <<sent, pool, line, running, ran>>,
           \A c \in Conns : outbox'[c] = outbox[c] \/ outbox'[c] = <<>>
    PROVE  NoneTwice' /\ OnePlace'
<1>1. \A c \in Conns : Held(c)' \subseteq Held(c) /\ Distinct(outbox'[c])
  BY DEF Held, Elems, Distinct, NoneTwice
<1>2. UNCHANGED <<Sent, Pooled, Lined, Busy, Ran>>
  BY DEF Sent, Pooled, Lined, Busy, Ran
<1>3. NoneTwice'
  BY <1>1 DEF NoneTwice
<1>4. OnePlace'
  BY <1>1, <1>2 DEF OnePlace
<1>5. QED
  BY <1>3, <1>4

\* The daemon reads a request: out of the outbox, into the line or the pool.
LEMMA PlacedRead ==
    ASSUME RpcTypes, NoneTwice, OnePlace, DaemonReads
    PROVE  NoneTwice' /\ OnePlace'
<1> DEFINE q == outbox[socket]
           job == <<Head(q), socket>>
<1>1. /\ socket \in Conns /\ q \in Seq(Calls) /\ q # <<>> /\ Distinct(q)
      /\ outbox' = [outbox EXCEPT ![socket] = Tail(q)]
      /\ UNCHANGED <<sent, running, ran>>
      /\ \/ pool' = Append(pool, job) /\ UNCHANGED line
         \/ line' = Append(line, job) /\ UNCHANGED pool
  BY DEF DaemonReads, Dispatch, RpcTypes, NoneTwice, relayVars
<1>2. /\ Elems(Tail(q)) = Held(socket) \ {Head(q)} /\ Head(q) \in Held(socket)
      /\ Distinct(Tail(q))
  BY <1>1, TailCall DEF Held
<1>3. Head(q) \in Calls /\ job \in Job /\ job[1] = Head(q)
  BY <1>1 DEF Job
<1>4. job[1] \notin Pooled \cup Lined
  BY <1>1, <1>2 DEF OnePlace
<1>5. pool \in Seq(Job) /\ line \in Seq(Job)
  BY DEF RpcTypes
<1>6. outbox'[socket] = Tail(q) /\ \A c \in Conns : c # socket => outbox'[c] = outbox[c]
  BY <1>1 DEF RpcTypes
<1>7. /\ DistinctCalls(pool') /\ DistinctCalls(line')
      /\ \/ Pooled' = Pooled \cup {Head(q)} /\ Lined' = Lined
         \/ Lined' = Lined \cup {Head(q)} /\ Pooled' = Pooled
  <2>1. CASE pool' = Append(pool, job) /\ UNCHANGED line
    BY <1>3, <1>4, <1>5, <2>1, AppendJob DEF NoneTwice, Pooled, Lined
  <2>2. CASE line' = Append(line, job) /\ UNCHANGED pool
    BY <1>3, <1>4, <1>5, <2>2, AppendJob DEF NoneTwice, Pooled, Lined
  <2>3. QED
    BY <1>1, <2>1, <2>2
<1>8. NoneTwice'
  BY <1>1, <1>2, <1>6, <1>7 DEF NoneTwice
<1>9. /\ UNCHANGED <<Sent, Busy, Ran>>
      /\ \A c \in Conns : \/ c # socket /\ Held(c)' = Held(c)
                          \/ c = socket /\ Held(c)' = Held(c) \ {Head(q)}
  BY <1>1, <1>2, <1>6 DEF Sent, Busy, Ran, Held
<1> HIDE DEF q, job
<1>10. \A c \in Conns : Head(q) \notin Held(c)' /\ Held(c)' \subseteq Held(c)
  BY <1>1, <1>2, <1>9 DEF OnePlace
<1>11. Head(q) \in Sent \ (Pooled \cup Lined \cup Busy \cup Ran)
  BY <1>1, <1>2 DEF OnePlace
<1>12. OnePlace'
  BY <1>7, <1>9, <1>10, <1>11 DEF OnePlace
<1>13. QED
  BY <1>8, <1>12

\* A worker takes the first job of the pool.
LEMMA PlacedStart ==
    ASSUME RpcTypes, NoneTwice, OnePlace, StartJob
    PROVE  NoneTwice' /\ OnePlace'
<1>1. /\ pool \in Seq(Job) /\ pool # <<>> /\ pool' = Tail(pool)
      /\ running' = running \cup {Head(pool)} /\ UNCHANGED <<sent, outbox, line, ran>>
  BY DEF StartJob, RpcTypes, relayVars, linkVars
<1>2. /\ Pooled' = Pooled \ {Head(pool)[1]} /\ Head(pool)[1] \in Pooled
      /\ DistinctCalls(pool')
  BY <1>1, TailJob DEF NoneTwice, Pooled
<1>3. /\ Busy' = Busy \cup {Head(pool)[1]} /\ UNCHANGED <<Sent, Lined, Ran>>
      /\ \A c \in Conns : Held(c)' = Held(c)
  BY <1>1 DEF Busy, Sent, Lined, Ran, Held
<1>4. \A a \in running : a[1] # Head(pool)[1]
  BY <1>2 DEF OnePlace, Busy
<1>5. NoneTwice'
  BY <1>1, <1>2, <1>4 DEF NoneTwice
<1>6. OnePlace'
  BY <1>2, <1>3 DEF OnePlace
<1>7. QED
  BY <1>5, <1>6

\* A request that was run has left the workers and the line.
LEMMA PlacedRun ==
    ASSUME RpcTypes, NoneTwice, OnePlace, RunOrdered \/ \E job \in running : FinishJob(job)
    PROVE  NoneTwice' /\ OnePlace' /\ Ran \subseteq Ran'
<1>1. PICK k \in Calls :
         /\ ran' = Append(ran, k) /\ k \notin Ran
         /\ UNCHANGED <<sent, outbox, pool>>
         /\ DistinctCalls(line') /\ \A a, b \in running' : a[1] = b[1] => a = b
         /\ \/ k \in Lined /\ Lined' = Lined \ {k} /\ Busy' = Busy
            \/ k \in Busy /\ Busy' = Busy \ {k} /\ Lined' = Lined
  <2>1. CASE RunOrdered
    <3>1. /\ line \in Seq(Job) /\ line # <<>> /\ line' = Tail(line)
          /\ ran' = Append(ran, Head(line)[1]) /\ UNCHANGED <<sent, outbox, pool, running>>
      BY <2>1 DEF RunOrdered, Respond, RpcTypes, relayVars
    <3>2. /\ Lined' = Lined \ {Head(line)[1]} /\ Head(line)[1] \in Lined
          /\ DistinctCalls(line') /\ Head(line) \in Job
      BY <3>1, TailJob DEF NoneTwice, Lined
    <3>3. Head(line)[1] \in Calls /\ Head(line)[1] \notin Ran /\ Busy' = Busy
      BY <3>1, <3>2 DEF Job, OnePlace, Busy
    <3>4. QED
      BY <3>1, <3>2, <3>3 DEF NoneTwice
  <2>2. ASSUME NEW job \in running, FinishJob(job)
        PROVE  /\ job[1] \in Calls
               /\ ran' = Append(ran, job[1]) /\ job[1] \notin Ran
               /\ UNCHANGED <<sent, outbox, pool>>
               /\ DistinctCalls(line') /\ \A a, b \in running' : a[1] = b[1] => a = b
               /\ job[1] \in Busy /\ Busy' = Busy \ {job[1]} /\ Lined' = Lined
    <3>1. /\ running' = running \ {job} /\ ran' = Append(ran, job[1])
          /\ UNCHANGED <<sent, outbox, pool, line>> /\ job \in Job
      BY <2>2 DEF FinishJob, Respond, RpcTypes, relayVars
    <3>2. job[1] \in Busy /\ Busy' = Busy \ {job[1]} /\ Lined' = Lined
      BY <3>1 DEF Busy, Lined, NoneTwice
    <3>3. job[1] \in Calls /\ job[1] \notin Ran
      BY <3>1, <3>2 DEF Job, OnePlace
    <3>4. QED
      BY <3>1, <3>2, <3>3 DEF NoneTwice
  <2>3. QED
    BY <2>1, <2>2
<1>2. Distinct(ran') /\ Ran' = Ran \cup {k}
  BY <1>1, AppendCall DEF RpcTypes, NoneTwice, Ran
<1>3. NoneTwice'
  BY <1>1, <1>2 DEF NoneTwice
<1>4. UNCHANGED <<Sent, Pooled>> /\ \A c \in Conns : Held(c)' = Held(c)
  BY <1>1 DEF Sent, Pooled, Held
<1>5. OnePlace'
  BY <1>1, <1>2, <1>4 DEF OnePlace
<1>6. QED
  BY <1>2, <1>3, <1>5

\* Nobody is told of a run that did not happen, and who is told that there was
\* no handler has nothing under way.
LEMMA AnswersStep ==
    ASSUME RpcTypes, CallTypes, Answers, [Next]_vars
    PROVE  Answers'
<1> USE RpcAssumption
<1>1. ASSUME NEW k \in Calls, MakeCall(k) \/ GracePoll(k) \/ GraceOver(k) \/ GiveUp(k)
      PROVE  Answers'
  <2>1. PICK s : /\ call' = [call EXCEPT ![k] = s] /\ s # "result"
                 /\ s = "no_handler" => call[k] = "grace"
                 /\ s = "grace" => call[k] = "idle"
                 /\ s # "idle"
                 /\ sent' = sent \/ (sent' = Append(sent, k) /\ s = "waiting")
                 /\ UNCHANGED <<upstream, ran>>
    BY <1>1 DEF MakeCall, GracePoll, GraceOver, GiveUp, Leave, Send, daemonVars, linkVars
  <2>2. Ran' = Ran /\ (Sent' = Sent \/ (Sent' = Sent \cup {k} /\ s = "waiting"))
    <3>1. Ran' = Ran
      BY <2>1 DEF Ran
    <3>2. sent \in Seq(Calls)
      BY DEF RpcTypes
    <3>3. QED
      BY <2>1, <3>1, <3>2, AppendCall DEF Sent
  <2>3. \A j \in Calls : call'[j] = IF j = k THEN s ELSE call[j]
    BY <2>1 DEF CallTypes
  <2>4. Sent \subseteq Calls
    BY DEF RpcTypes, Sent, Elems
  <2>5. \A j \in Sent' : call'[j] \notin {"idle", "grace", "no_handler"}
    <3>1. SUFFICES ASSUME NEW j \in Sent'
                   PROVE  call'[j] \notin {"idle", "grace", "no_handler"}
      OBVIOUS
    <3>2. CASE j \in Sent
      BY <2>1, <2>3, <2>4, <3>2 DEF Answers
    <3>3. CASE j \notin Sent
      BY <2>2, <2>3, <3>3
    <3>4. QED
      BY <3>2, <3>3
  <2>6. \A j \in Calls : call'[j] = "result" => j \in Ran'
    BY <2>1, <2>2, <2>3 DEF Answers
  <2>7. QED
    BY <2>1, <2>2, <2>5, <2>6 DEF Answers
<1>2. ASSUME NEW c \in Conns, RelayReads(c) \/ RelayDrops(c) \/ Connect(c)
      PROVE  Answers'
  <2>1. Ran' = Ran /\ Sent' = Sent
    BY <1>2 DEF RelayReads, RelayDrops, Connect, relayVars, daemonVars, Ran, Sent
  <2>2. \A d \in Conns : d # c => upstream'[d] = upstream[d]
    BY <1>2 DEF RelayReads, RelayDrops, Connect, RpcTypes
  <2>3. upstream[c] \in Seq(Calls \cup {Register}) /\ upstream'[c] \in {Tail(upstream[c]), <<>>, <<Register>>}
    BY <1>2 DEF RelayReads, RelayDrops, Connect, RpcTypes
  <2>4. RelayReads(c) => upstream[c] # <<>> /\ upstream'[c] = Tail(upstream[c])
    BY <1>2 DEF RelayReads, RpcTypes
  <2>5. \A i \in DOMAIN upstream'[c] : upstream'[c][i] = Register \/ upstream'[c][i] \in Ran
    <3>1. CASE RelayReads(c)
      <4>1. \A i \in DOMAIN upstream'[c] : i + 1 \in DOMAIN upstream[c] /\ upstream'[c][i] = upstream[c][i + 1]
        <5>1. ASSUME NEW S, NEW q \in Seq(S), q # <<>>, NEW i \in DOMAIN Tail(q)
              PROVE  i + 1 \in DOMAIN q /\ Tail(q)[i] = q[i + 1]
          BY <5>1
        <5>2. QED
          BY <2>3, <2>4, <3>1, <5>1
      <4>2. QED
        BY <4>1 DEF Answers
    <3>2. CASE RelayDrops(c) \/ Connect(c)
      <4>1. upstream'[c] \in {<<>>, <<Register>>}
        BY <3>2 DEF RelayDrops, Connect, RpcTypes
      <4>2. QED
        BY <4>1
    <3>3. QED
      BY <1>2, <3>1, <3>2
  <2>6. \A k \in Calls : call'[k] = "result" => k \in Ran
    <3>1. CASE RelayReads(c)
      <4>1. Head(upstream[c]) # Register => Head(upstream[c]) \in Ran
        <5>1. 1 \in DOMAIN upstream[c] /\ Head(upstream[c]) = upstream[c][1]
          BY <2>3, <2>4, <3>1
        <5>2. QED
          BY <5>1 DEF Answers
      <4>2. \A k \in Calls : call'[k] = call[k] \/ (k = Head(upstream[c]) /\ k # Register)
        BY <3>1 DEF RelayReads, Resolve, CallTypes
      <4>3. QED
        BY <4>1, <4>2 DEF Answers
    <3>2. CASE RelayDrops(c) \/ Connect(c)
      <4>1. \A k \in Calls : call'[k] = call[k] \/ call'[k] = "target_disconnected"
        BY <3>2 DEF RelayDrops, Unregister, Connect, relayVars
      <4>2. QED
        BY <4>1 DEF Answers
    <3>3. QED
      BY <1>2, <3>1, <3>2
  <2>7. \A k \in Sent : call'[k] \notin {"idle", "grace", "no_handler"}
    <3>1. Sent \subseteq Calls
      BY DEF RpcTypes, Sent, Elems
    <3>2. \A k \in Calls : call'[k] = call[k] \/ call'[k] \in {"result", "target_disconnected"}
      BY <1>2 DEF RelayReads, Resolve, RelayDrops, Unregister, Connect, relayVars, CallTypes
    <3>3. QED
      BY <3>1, <3>2 DEF Answers
  <2>8. QED
    BY <2>1, <2>2, <2>5, <2>6, <2>7 DEF Answers
<1>3. CASE SocketDies \/ DaemonReads \/ StartJob \/ UNCHANGED vars
  <2>1. UNCHANGED <<call, sent, ran, upstream>>
    BY <1>3 DEF SocketDies, DaemonReads, StartJob, relayVars, linkVars, daemonVars, vars
  <2>2. QED
    BY <2>1 DEF Answers, Ran, Sent
<1>4. CASE RunOrdered \/ \E job \in running : FinishJob(job)
  <2>1. PICK k \in Calls :
           /\ ran' = Append(ran, k) /\ UNCHANGED <<call, sent>>
           /\ upstream' = upstream \/ (socket \in Conns /\ upstream' = [upstream EXCEPT ![socket] = Append(@, k)])
    <3>1. PICK job \in Job : Respond(job) /\ UNCHANGED <<call, sent>>
      BY <1>4 DEF RunOrdered, FinishJob, relayVars, RpcTypes
    <3>2. job[1] \in Calls /\ job[2] \in Conns
      BY DEF Job
    <3>3. QED
      BY <3>1, <3>2 DEF Respond
  <2>2. Ran' = Ran \cup {k} /\ Sent' = Sent
    BY <2>1, AppendCall DEF RpcTypes, Ran, Sent
  <2>3. ASSUME NEW c \in Conns, NEW i \in DOMAIN upstream'[c], upstream'[c][i] # Register
        PROVE  upstream'[c][i] \in Ran'
    <3>1. CASE upstream'[c] = upstream[c]
      BY <2>2, <2>3, <3>1 DEF Answers
    <3>2. CASE upstream'[c] = Append(upstream[c], k)
      <4>1. upstream[c] \in Seq(Calls \cup {Register})
        BY DEF RpcTypes
      <4>2. upstream'[c][i] = k \/ (i \in DOMAIN upstream[c] /\ upstream'[c][i] = upstream[c][i])
        BY <3>2, <4>1
      <4>3. QED
        BY <2>2, <2>3, <4>2 DEF Answers
    <3>3. QED
      BY <2>1, <3>1, <3>2 DEF RpcTypes
  <2>4. QED
    BY <2>1, <2>2, <2>3 DEF Answers
<1>5. QED
  BY <1>1, <1>2, <1>3, <1>4 DEF Next

\* No step puts a request in two places.
LEMMA PlacedStep ==
    ASSUME RpcTypes, CallTypes, NoneTwice, OnePlace, Answers, [Next]_vars
    PROVE  NoneTwice' /\ OnePlace'
<1>1. ASSUME NEW k \in Calls, MakeCall(k) \/ GracePoll(k) \/ GraceOver(k) \/ GiveUp(k)
      PROVE  NoneTwice' /\ OnePlace'
  <2>1. /\ UNCHANGED <<pool, line, running, ran>>
        /\ \/ UNCHANGED <<outbox, sent>>
           \/ /\ handler # NoConn /\ call[k] \in {"idle", "grace"}
              /\ outbox' = [outbox EXCEPT ![handler] = Append(@, k)]
              /\ sent' = Append(sent, k)
    BY <1>1 DEF MakeCall, GracePoll, GraceOver, GiveUp, Leave, Send, daemonVars, linkVars
  <2>2. CASE UNCHANGED <<outbox, sent>>
    BY <2>1, <2>2, PlacedLoss
  <2>3. CASE ~ UNCHANGED <<outbox, sent>>
    <3>1. k \notin Sent
      BY <2>1, <2>3 DEF Answers
    <3>2. QED
      BY <2>1, <2>3, <3>1, PlacedSend
  <2>4. QED
    BY <2>2, <2>3
<1>2. CASE SocketDies \/ UNCHANGED vars \/ \E c \in Conns : RelayReads(c) \/ RelayDrops(c) \/ Connect(c)
  <2>1. /\ UNCHANGED <<sent, pool, line, running, ran>>
        /\ \A c \in Conns : outbox'[c] = outbox[c] \/ outbox'[c] = <<>>
    BY <1>2 DEF SocketDies, RelayReads, RelayDrops, Connect, relayVars, daemonVars, vars, linkVars, RpcTypes
  <2>2. QED
    BY <2>1, PlacedLoss
<1>3. QED
  BY <1>1, <1>2, PlacedRead, PlacedStart, PlacedRun DEF Next

\* For any number of calls and connections: no call is run twice; a result
\* means that it was run, and no_handler that it was not and will not be.
THEOREM OutcomesAreTrue == Spec => []OutcomeIsTrue
<1>1. Init => RunInv
  <2>1. ASSUME Init
        PROVE  /\ sent = <<>> /\ ran = <<>> /\ pool = <<>> /\ line = <<>> /\ running = {}
               /\ \A c \in Conns : outbox[c] = <<>> /\ upstream[c] = <<>>
               /\ \A k \in Calls : call[k] = "idle"
    BY <2>1 DEF Init
  <2>2. Elems(<<>>) = {} /\ CallsOf(<<>>) = {} /\ Distinct(<<>>) /\ DistinctCalls(<<>>)
    BY DEF Elems, CallsOf, Distinct, DistinctCalls
  <2>3. ASSUME Init
        PROVE  NoneTwice
    BY <2>1, <2>2, <2>3 DEF NoneTwice
  <2>4. ASSUME Init
        PROVE  Sent = {} /\ Pooled = {} /\ Lined = {} /\ Busy = {} /\ Ran = {} /\ \A c \in Conns : Held(c) = {}
    BY <2>1, <2>2, <2>4 DEF Sent, Pooled, Lined, Busy, Ran, Held
  <2>5. QED
    BY <2>1, <2>3, <2>4 DEF RunInv, OnePlace, Answers
<1>2. RunInv /\ RpcTypes => OutcomeIsTrue
  <2>1. ASSUME RunInv, RpcTypes, NEW k \in Calls
        PROVE  /\ k \in Ran => Times(ran, k) = 1
               /\ k \notin Ran => Times(ran, k) = 0
               /\ k \notin Sent => Times(sent, k) = 0
    <3>1. ASSUME NEW q, k \notin Elems(q)
          PROVE  Times(q, k) = 0
      <4>1. {i \in DOMAIN q : q[i] = k} = {}
        BY <3>1 DEF Elems
      <4>2. QED
        BY <4>1, FS_EmptySet DEF Times
    <3>2. ASSUME k \in Ran
          PROVE  Times(ran, k) = 1
      <4>1. PICK i \in DOMAIN ran : ran[i] = k
        BY <3>2 DEF Ran, Elems
      <4>2. {j \in DOMAIN ran : ran[j] = k} = {i}
        BY <2>1, <4>1 DEF RunInv, NoneTwice, Distinct
      <4>3. QED
        BY <4>2, FS_Singleton DEF Times
    <3>3. QED
      BY <3>1, <3>2 DEF Ran, Sent
  <2>2. RunInv => Ran \subseteq Sent
    BY DEF RunInv, OnePlace
  <2>3. QED
    BY <2>1, <2>2 DEF OutcomeIsTrue, RunInv, Answers
<1>3. RouteInv /\ RpcTypes /\ RunInv /\ [Next]_vars => RunInv'
  BY PlacedStep, AnswersStep DEF RunInv, RouteInv
<1>4. QED
  BY <1>1, <1>2, <1>3, RouteInvariant, RpcTypesAlways, PTL DEF Spec

=============================================================================
