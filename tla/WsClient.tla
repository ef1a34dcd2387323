------------------------------ MODULE WsClient ------------------------------
(***************************************************************************)
(* The browser's end of the relay connection: class WsClient of the web    *)
(* client (and of the desktop renderer, which loads the same code).        *)
(*                                                                         *)
(*   holders    screens that subscribe, follow a shared session, or report *)
(*              the window's presence; a call in flight when nobody else   *)
(*              holds the connection retains it for itself                 *)
(*   connection retain / release, connect with its awaited token, the      *)
(*              reconnect timer, the idle timer, the stale-socket checks   *)
(*   relay      (external) answers hello with server_info, keeps one       *)
(*              watcher room and one presence bit per connection           *)
(*                                                                         *)
(* JavaScript runs one task at a time, so an action is one task with the   *)
(* microtasks it queues.  A rejected call's `finally` is such a microtask: *)
(* it runs after the handler that rejected it.  Of the shared sessions one *)
(* is modelled.  Of a half-open socket only that no frame arrives on it.   *)
(***************************************************************************)
EXTENDS Naturals, FiniteSets

CONSTANTS
    Screens,        \* what mounts and unmounts in the page
    Calls,          \* the RPCs made
    NoCall,
    Auth,           \* "supabase": the token is awaited; "local": a static nonce
    MaxAwaiting,    \* bound on connect() calls awaiting their token
    MaxTrouble      \* bound on network failures and auth events

ASSUME WsAssumption ==
    /\ IsFiniteSet(Screens)
    /\ NoCall \notin Calls
    /\ Auth \in {"supabase", "local"}
    /\ MaxAwaiting \in Nat /\ MaxTrouble \in Nat

VARIABLES
    socket, connected,          \* socket and its readyState; connected
    awaiting,                   \* connect() calls awaiting readSupabaseToken
    subscribed, watching,       \* screens that hold a subscription / a watch
    retainCount,
    owner,                      \* the call whose transientRetain is true
    reconnectTimer, idleTimer,  \* armed
    lastPresence,
    call,                       \* what each call awaits, or how it ended
    session,                    \* somebody is signed in
    live,                       \* frames arrive on the socket
    room, front,                \* the relay's view of this connection
    trouble

clientVars == <<socket, connected, awaiting, reconnectTimer>>
holdVars   == <<subscribed, watching, retainCount, owner, idleTimer>>
relayVars  == <<room, front, live>>
envVars    == <<session, trouble>>
vars == <<clientVars, holdVars, relayVars, envVars, lastPresence, call>>

Ended == {"answered", "failed"}     \* failed: timeout, not_connected
InFlight == {c \in Calls : call[c] \in {"waiting", "pending"}}

TypeOK ==
    /\ socket \in {"none", "connecting", "open", "closing"}
    /\ connected \in BOOLEAN /\ awaiting \in Nat
    /\ subscribed \subseteq Screens /\ watching \subseteq Screens
    /\ retainCount \in Nat /\ owner \in Calls \cup {NoCall}
    /\ reconnectTimer \in BOOLEAN /\ idleTimer \in BOOLEAN
    /\ lastPresence \in {"unset", "front", "back"}
    /\ call \in [Calls -> {"idle", "waiting", "pending"} \cup Ended]
    /\ session \in BOOLEAN /\ live \in BOOLEAN
    /\ room \in BOOLEAN /\ front \in BOOLEAN
    /\ trouble \in 0 .. MaxTrouble

Init ==
    /\ socket = "none" /\ connected = FALSE /\ awaiting = 0
    /\ subscribed = {} /\ watching = {} /\ retainCount = 0 /\ owner = NoCall
    /\ reconnectTimer = FALSE /\ idleTimer = FALSE
    /\ lastPresence = "unset"
    /\ call = [c \in Calls |-> "idle"]
    /\ session = TRUE /\ live = TRUE
    /\ room = FALSE /\ front = FALSE
    /\ trouble = 0

-----------------------------------------------------------------------------
(* The connection.                                                         *)

\* A socket is made: the relay knows nothing of the new connection yet.
NewSocket ==
    /\ socket' = "connecting"
    /\ room' = FALSE /\ front' = FALSE /\ live' = TRUE

\* connect(), called k times in a row with n retained: up to its first await.
Connect(n, k) ==
    IF socket # "none" \/ n = 0
    THEN UNCHANGED <<socket, awaiting, relayVars>>
    ELSE IF Auth = "local"
    THEN NewSocket /\ UNCHANGED awaiting
    ELSE /\ awaiting + k <= MaxAwaiting
         /\ awaiting' = awaiting + k
         /\ UNCHANGED <<socket, relayVars>>

\* Slip: what changed during the await is not looked at again.
TokenReadBlind ==
    /\ awaiting > 0
    /\ awaiting' = awaiting - 1
    /\ NewSocket
    /\ UNCHANGED <<reconnectTimer, connected, envVars, holdVars, lastPresence, call>>

\* Slip: the continuation runs once more than there are calls.
TokenReadAgain ==
    /\ awaiting' = awaiting - 1
    /\ UNCHANGED <<socket, reconnectTimer, connected, relayVars, envVars,
                   holdVars, lastPresence, call>>

\* Slip: a missing token gives up.
TokenReadOnce ==
    /\ awaiting > 0
    /\ awaiting' = awaiting - 1
    /\ \/ session /\ socket = "none" /\ retainCount > 0 /\ NewSocket
       \/ ~session /\ UNCHANGED <<socket, relayVars>>
    /\ UNCHANGED <<reconnectTimer, connected, envVars, holdVars, lastPresence, call>>

\* connect() goes on once the token is read: the retainers may have left and
\* another connect() may have made a socket.
TokenRead ==
    /\ awaiting > 0
    /\ awaiting' = awaiting - 1
    /\ \/ /\ socket # "none" \/ retainCount = 0
          /\ UNCHANGED <<socket, reconnectTimer, relayVars, envVars>>
       \/ /\ socket = "none" /\ retainCount > 0 /\ session
          /\ NewSocket /\ UNCHANGED <<reconnectTimer, envVars>>
       \/ /\ socket = "none" /\ retainCount > 0 /\ ~session
          /\ reconnectTimer' = TRUE
          /\ UNCHANGED <<socket, relayVars, envVars>>
       \/ /\ socket = "none" /\ retainCount > 0 /\ session   \* the read failed
          /\ trouble < MaxTrouble /\ trouble' = trouble + 1
          /\ reconnectTimer' = TRUE
          /\ UNCHANGED <<socket, relayVars, session>>
    /\ UNCHANGED <<connected, holdVars, lastPresence, call>>

\* The browser reports the handshake done: hello is sent.
Opens ==
    /\ socket = "connecting"
    /\ socket' = "open"
    /\ UNCHANGED <<connected, awaiting, reconnectTimer, holdVars, relayVars,
                   envVars, lastPresence, call>>

\* Slip: rooms and presence are left as the fresh connection has them.
ServerInfoBare ==
    /\ socket = "open" /\ live /\ ~connected
    /\ connected' = TRUE
    /\ call' = [c \in Calls |-> IF call[c] = "waiting" THEN "pending" ELSE call[c]]
    /\ UNCHANGED <<socket, awaiting, reconnectTimer, holdVars, relayVars,
                   envVars, lastPresence>>

\* server_info, then setConnected(true): the waiting calls are sent, presence
\* and watcher rooms are asserted again.
ServerInfo ==
    /\ socket = "open" /\ live /\ ~connected
    /\ connected' = TRUE
    /\ call' = [c \in Calls |-> IF call[c] = "waiting" THEN "pending" ELSE call[c]]
    /\ room' = (room \/ watching # {})
    /\ front' = IF lastPresence = "unset" THEN front ELSE lastPresence = "front"
    /\ UNCHANGED <<socket, awaiting, reconnectTimer, holdVars, live,
                   envVars, lastPresence>>

Less(n) == IF n = 0 THEN 0 ELSE n - 1       \* release()'s Math.max(0, n - 1)

\* The calls of S end: the one that retained the connection releases it.
End(S, how) ==
    /\ call' = [c \in Calls |-> IF c \in S THEN how ELSE call[c]]
    /\ IF owner \in S
       THEN /\ owner' = NoCall
            /\ retainCount' = Less(retainCount)
            /\ idleTimer' = (idleTimer \/ retainCount' = 0)
       ELSE UNCHANGED <<owner, retainCount, idleTimer>>
    /\ UNCHANGED <<subscribed, watching>>

\* Slip: calls of the lost connection are left to their timers.
SocketDownQuiet ==
    /\ socket' = "none" /\ connected' = FALSE
    /\ reconnectTimer' = (reconnectTimer \/ retainCount > 0)
    /\ UNCHANGED <<awaiting, relayVars, lastPresence, call, holdVars>>

\* handleSocketDown of the current socket: whether to reconnect is decided
\* before the rejected calls release what they retain.
SocketDown ==
    /\ socket' = "none" /\ connected' = FALSE
    /\ reconnectTimer' = (reconnectTimer \/ retainCount > 0)
    /\ End(InFlight, "failed")
    /\ UNCHANGED <<awaiting, relayVars, lastPresence>>

\* onclose of a socket the client closed.
Closes ==
    /\ socket = "closing"
    /\ SocketDown
    /\ UNCHANGED envVars

Trouble == trouble < MaxTrouble /\ trouble' = trouble + 1

\* The handshake is refused, the network drops, the relay restarts.
Drops ==
    /\ socket \in {"connecting", "open"}
    /\ Trouble
    /\ SocketDown
    /\ UNCHANGED session

\* Sleep, a NAT timeout: frames no longer arrive and nobody says so.
GoesSilent ==
    /\ socket = "open" /\ live
    /\ Trouble
    /\ live' = FALSE
    /\ UNCHANGED <<clientVars, holdVars, room, front, session, lastPresence, call>>

\* Slip: watched only once connected.
StaleClosedLate ==
    /\ socket = "open" /\ ~live /\ connected
    /\ socket' = "closing"
    /\ UNCHANGED <<connected, awaiting, reconnectTimer, holdVars, relayVars,
                   envVars, lastPresence, call>>

\* The 70 s liveness timer, the 30 s heartbeat check.
StaleClosed ==
    /\ socket = "open" /\ ~live
    /\ socket' = "closing"
    /\ UNCHANGED <<connected, awaiting, reconnectTimer, holdVars, relayVars,
                   envVars, lastPresence, call>>

\* Focus, online or visible again with no socket: dial now, not at the timer.
Resume ==
    /\ retainCount > 0 /\ socket = "none"
    /\ reconnectTimer' = FALSE
    /\ Connect(retainCount, 1)
    /\ UNCHANGED <<connected, holdVars, envVars, lastPresence, call>>

ReconnectFires ==
    /\ reconnectTimer
    /\ reconnectTimer' = FALSE
    /\ Connect(retainCount, 1)
    /\ UNCHANGED <<connected, holdVars, envVars, lastPresence, call>>

\* TOKEN_REFRESHED and SIGNED_IN: a connected socket is closed, so that the
\* next handshake reads the fresh token.
TokenRefreshed ==
    /\ Auth = "supabase" /\ Trouble
    /\ session' = TRUE
    /\ socket' = IF retainCount > 0 /\ connected THEN "closing" ELSE socket
    /\ UNCHANGED <<connected, awaiting, reconnectTimer, holdVars, relayVars,
                   lastPresence, call>>

SignedOut ==
    /\ Auth = "supabase" /\ Trouble /\ session
    /\ session' = FALSE
    /\ socket' = IF socket = "none" THEN socket ELSE "closing"
    /\ UNCHANGED <<connected, awaiting, reconnectTimer, holdVars, relayVars,
                   lastPresence, call>>

-----------------------------------------------------------------------------
(* Holders.                                                                *)

Retain ==
    /\ retainCount' = retainCount + 1
    /\ idleTimer' = FALSE

Release ==
    /\ retainCount' = Less(retainCount)
    /\ idleTimer' = (idleTimer \/ retainCount' = 0)

Dial == IF retainCount = 0 THEN Connect(1, 1)
        ELSE UNCHANGED <<socket, awaiting, relayVars>>

\* subscribe, onPtyOutput, onPtyExit, retainConnection
Subscribe(s) ==
    /\ s \notin subscribed
    /\ subscribed' = subscribed \cup {s}
    /\ Retain /\ Dial
    /\ UNCHANGED <<connected, reconnectTimer, watching, owner, envVars,
                   lastPresence, call>>

Unsubscribe(s) ==
    /\ s \in subscribed
    /\ subscribed' = subscribed \ {s}
    /\ Release
    /\ UNCHANGED <<clientVars, relayVars, watching, owner, envVars,
                   lastPresence, call>>

\* A watch frame leaves only on a connected, OPEN socket; on a silent one it
\* is lost.
WatchFrame(joins) ==
    room' = IF socket = "open" /\ connected /\ live THEN joins ELSE room

\* watchInstance: only the first holder sends the frame.
Watch(s) ==
    /\ s \notin watching
    /\ watching' = watching \cup {s}
    /\ Retain
    /\ IF retainCount = 0 /\ socket = "none" THEN Connect(1, 1)  \* no frame
       ELSE /\ IF watching = {} THEN WatchFrame(TRUE) ELSE UNCHANGED room
            /\ UNCHANGED <<socket, awaiting, front, live>>
    /\ UNCHANGED <<connected, reconnectTimer, subscribed, owner, envVars,
                   lastPresence, call>>

\* Slip: the room is left with the first holder.
UnwatchFirst(s) ==
    /\ s \in watching
    /\ watching' = watching \ {s}
    /\ WatchFrame(FALSE)
    /\ Release
    /\ UNCHANGED <<clientVars, front, live, subscribed, owner, envVars,
                   lastPresence, call>>

\* Its release: the last holder leaves the room.
Unwatch(s) ==
    /\ s \in watching
    /\ watching' = watching \ {s}
    /\ IF watching' = {} THEN WatchFrame(FALSE) ELSE UNCHANGED room
    /\ Release
    /\ UNCHANGED <<clientVars, front, live, subscribed, owner, envVars,
                   lastPresence, call>>

\* sendPresence: an OPEN socket is enough.
SendPresence(p) ==
    /\ lastPresence # p
    /\ lastPresence' = p
    /\ front' = IF socket = "open" /\ live THEN p = "front" ELSE front
    /\ UNCHANGED <<clientVars, holdVars, room, live, envVars, call>>

\* The idle timer: teardown if still nobody retains.  The socket's handlers
\* are taken off, so its close is not heard.
IdleFires ==
    /\ idleTimer
    /\ idleTimer' = FALSE
    /\ IF retainCount = 0
       THEN /\ socket' = "none" /\ connected' = FALSE /\ reconnectTimer' = FALSE
            /\ call' = [c \in Calls |-> IF c \in InFlight THEN "failed"
                                        ELSE call[c]]
       ELSE UNCHANGED <<socket, connected, reconnectTimer, call>>
    /\ UNCHANGED <<awaiting, subscribed, watching, retainCount, owner,
                   relayVars, envVars, lastPresence>>

-----------------------------------------------------------------------------
(* Calls.                                                                  *)

\* callRpc: it retains the connection for itself only when nobody does; both
\* that retain and waitUntilConnected dial.
CallRpc(c) ==
    LET own == retainCount = 0 IN
    /\ call[c] = "idle"
    /\ IF connected /\ socket # "open"                  \* CLOSING: rejected
       THEN /\ call' = [call EXCEPT ![c] = "failed"]
            /\ UNCHANGED <<owner, retainCount, idleTimer, socket, awaiting, relayVars>>
       ELSE /\ call' = [call EXCEPT ![c] = IF connected THEN "pending" ELSE "waiting"]
            /\ IF own THEN owner' = c /\ Retain
               ELSE UNCHANGED <<owner, retainCount, idleTimer>>
            /\ Connect(retainCount', IF own THEN 2 ELSE 1)
    /\ UNCHANGED <<connected, reconnectTimer, subscribed, watching, envVars,
                   lastPresence>>

\* rpc-result or rpc-error.
Answer(c) ==
    /\ call[c] = "pending" /\ socket = "open" /\ live
    /\ End({c}, "answered")
    /\ UNCHANGED <<clientVars, relayVars, envVars, lastPresence>>

\* The 10 s of waitUntilConnected.
WaitTimesOut(c) ==
    /\ call[c] = "waiting"
    /\ End({c}, "failed")
    /\ UNCHANGED <<clientVars, relayVars, envVars, lastPresence>>

\* The 35 s of sendFetch.
RequestTimesOut(c) ==
    /\ call[c] = "pending"
    /\ End({c}, "failed")
    /\ UNCHANGED <<clientVars, relayVars, envVars, lastPresence>>

-----------------------------------------------------------------------------
Next ==
    \/ TokenRead \/ Opens \/ ServerInfo \/ Closes \/ Drops \/ GoesSilent
    \/ StaleClosed \/ Resume \/ ReconnectFires \/ TokenRefreshed \/ SignedOut
    \/ IdleFires
    \/ \E s \in Screens : \/ Subscribe(s) \/ Unsubscribe(s)
                          \/ Watch(s) \/ Unwatch(s)
    \/ \E p \in {"front", "back"} : SendPresence(p)
    \/ \E c \in Calls : \/ CallRpc(c) \/ Answer(c)
                        \/ WaitTimesOut(c) \/ RequestTimesOut(c)

Spec == Init /\ [][Next]_vars

\* Timers fire, the token read ends, the browser reports the end of a socket,
\* and the relay answers hello.  Nothing is asked of users or of the network.
FairSpec ==
    /\ Spec
    /\ WF_vars(TokenRead) /\ WF_vars(Opens) /\ WF_vars(ServerInfo)
    /\ WF_vars(Closes) /\ WF_vars(StaleClosed)
    /\ WF_vars(ReconnectFires) /\ WF_vars(IdleFires)
    /\ \A c \in Calls : WF_vars(WaitTimesOut(c)) /\ WF_vars(RequestTimesOut(c))

-----------------------------------------------------------------------------
(* Properties.                                                             *)

\* While anybody retains the connection it is up, being dialled, waiting for
\* its token, or waiting for the reconnect timer: no order of mounts,
\* unmounts, resumes, sign-outs and lost sockets leaves a page that nothing
\* will ever reconnect (connect, handleSocketDown, handleResume, teardown).
NeverStranded ==
    retainCount > 0 /\ socket = "none" => reconnectTimer \/ awaiting > 0

\* The retain count is the screens plus the one call that retains for itself,
\* the idle timer runs exactly when nobody retains a connection that is still
\* there: a page in use is never torn down, and an unused socket never stays
\* (retain, release, callRpc's finally, connect after its await).
RetainedOrIdle ==
    /\ retainCount = Cardinality(subscribed) + Cardinality(watching)
                     + (IF owner = NoCall THEN 0 ELSE 1)
    /\ retainCount > 0 => ~idleTimer
    /\ retainCount = 0 /\ socket # "none" => idleTimer
    /\ owner # NoCall => owner \in InFlight

\* A request waits for an answer only on the connection it was sent on, and a
\* call waits for a connection only while there is none: no call outlives the
\* socket it went out on (rejectPendingFetches, rejectConnectedWaiters).
CallsOnTheirLink ==
    \A c \in Calls :
        /\ call[c] = "pending" => connected /\ socket \in {"open", "closing"}
        /\ call[c] = "waiting" => ~connected

\* After every reconnect the relay holds of this connection what the page
\* last said: it is in the watcher room iff a screen follows the session, and
\* the window is in front iff the page reported so (setConnected, watchCounts,
\* lastPresence).
RelayAgrees ==
    socket = "open" /\ connected /\ live =>
        /\ room = (watching # {})
        /\ lastPresence # "unset" => front = (lastPresence = "front")

\* A page that stays signed in and keeps holding the connection is connected
\* in the end, once the network stops failing, a half-open socket included.
Reconnects ==
    retainCount > 0 /\ session ~>
        (connected /\ live) \/ retainCount = 0 \/ ~session
=============================================================================
