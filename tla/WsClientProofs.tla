--------------------------- MODULE WsClientProofs ---------------------------
(***************************************************************************)
(* For any screens, calls and authentication, and any number of failures:  *)
(* the connection is dialled while somebody holds it and only then, calls  *)
(* stand on the socket they went out on, and the relay holds what the page *)
(* last said.                                                              *)
(***************************************************************************)
EXTENDS WsClient, FiniteSetTheorems, TLAPS

\* `connected` is never true without a socket.
Handshaken == connected => socket \in {"open", "closing"}

\* Until server_info the relay has this connection in no watcher room.
RoomFresh == socket \in {"connecting", "open"} /\ ~connected => ~room

\* TypeOK in the two parts the provers take one at a time.
Flags == /\ connected \in BOOLEAN /\ reconnectTimer \in BOOLEAN /\ idleTimer \in BOOLEAN
         /\ session \in BOOLEAN /\ live \in BOOLEAN
         /\ room \in BOOLEAN /\ front \in BOOLEAN

Kinds == /\ socket \in {"none", "connecting", "open", "closing"}
         /\ lastPresence \in {"unset", "front", "back"}
         /\ awaiting \in Nat /\ retainCount \in Nat /\ trouble \in 0 .. MaxTrouble
         /\ subscribed \subseteq Screens /\ watching \subseteq Screens
         /\ owner \in Calls \cup {NoCall}
         /\ call \in [Calls -> {"idle", "waiting", "pending"} \cup Ended]

WsInv == TypeOK /\ NeverStranded /\ RetainedOrIdle /\ CallsOnTheirLink
         /\ RelayAgrees /\ Handshaken /\ RoomFresh

\* Screens come and go one at a time.
LEMMA ScreenCount ==
    ASSUME NEW S, S \subseteq Screens
    PROVE  /\ Cardinality(S) \in Nat
           /\ \A s \in Screens : s \notin S => Cardinality(S \cup {s}) = Cardinality(S) + 1
           /\ \A s \in S : Cardinality(S \ {s}) = Cardinality(S) - 1
<1>1. IsFiniteSet(S)
  BY WsAssumption, FS_Subset
<1>2. QED
  BY <1>1, FS_CardinalityType, FS_AddElement, FS_RemoveElement

LEMMA WsInit == Init => WsInv
<1>1. SUFFICES ASSUME Init
               PROVE  WsInv
  OBVIOUS
<1> USE <1>1, WsAssumption DEF Init, Ended
<1>2. TypeOK
  <2>1. Flags
    BY Zenon DEF Flags
  <2>2. Kinds
    BY DEF Kinds
  <2>3. QED
    BY <2>1, <2>2 DEF TypeOK, Flags, Kinds
<1>3. NeverStranded /\ Handshaken /\ RoomFresh
  BY DEF NeverStranded, Handshaken, RoomFresh
<1>4. Cardinality({}) = 0
  BY FS_EmptySet
<1>5. RetainedOrIdle
  BY <1>4 DEF RetainedOrIdle
<1>6. CallsOnTheirLink /\ RelayAgrees
  BY DEF CallsOnTheirLink, RelayAgrees
<1>7. QED
  BY <1>2, <1>3, <1>5, <1>6 DEF WsInv

\* The connection's own steps: no step takes the socket away without arming
\* the reconnect timer, and a new socket starts with nothing said on it.
LEMMA LinkStep ==
    ASSUME WsInv,
           TokenRead \/ Opens \/ ServerInfo \/ GoesSilent \/ StaleClosed \/
           Resume \/ ReconnectFires \/ TokenRefreshed \/ SignedOut \/
           IdleFires
    PROVE  WsInv'
<1> USE WsAssumption DEF WsInv, clientVars, holdVars, relayVars, envVars, InFlight, Ended
<1>1. CASE TokenRead
  <2> USE <1>1 DEF TokenRead, NewSocket
  <2>1. TypeOK'
    <3>1. Flags'
      BY Zenon DEF TypeOK, Flags
    <3>2. Kinds'
      BY DEF TypeOK, Kinds
    <3>3. QED
      BY <3>1, <3>2 DEF TypeOK, Flags, Kinds
  <2>2. NeverStranded'
    BY DEF TypeOK, NeverStranded, RetainedOrIdle
  <2>3. RetainedOrIdle'
    BY ScreenCount DEF TypeOK, RetainedOrIdle, CallsOnTheirLink
  <2>4. CallsOnTheirLink'
    BY DEF TypeOK, CallsOnTheirLink, Handshaken
  <2>5. RelayAgrees'
    BY DEF TypeOK, RelayAgrees, Handshaken, RoomFresh, RetainedOrIdle
  <2>6. Handshaken'
    BY DEF TypeOK, Handshaken
  <2>7. RoomFresh'
    BY DEF TypeOK, Handshaken, RoomFresh
  <2>8. QED
    BY <2>1, <2>2, <2>3, <2>4, <2>5, <2>6, <2>7
<1>2. CASE Opens
  <2> USE <1>2 DEF Opens
  <2>1. TypeOK'
    BY DEF TypeOK
  <2>2. NeverStranded'
    BY DEF TypeOK, NeverStranded, RetainedOrIdle
  <2>3. RetainedOrIdle'
    BY ScreenCount DEF TypeOK, RetainedOrIdle, CallsOnTheirLink
  <2>4. CallsOnTheirLink'
    BY DEF TypeOK, CallsOnTheirLink, Handshaken
  <2>5. RelayAgrees'
    BY DEF TypeOK, RelayAgrees, Handshaken, RoomFresh, RetainedOrIdle
  <2>6. Handshaken'
    BY DEF TypeOK, Handshaken
  <2>7. RoomFresh'
    BY DEF TypeOK, Handshaken, RoomFresh
  <2>8. QED
    BY <2>1, <2>2, <2>3, <2>4, <2>5, <2>6, <2>7
<1>3. CASE ServerInfo
  <2> USE <1>3 DEF ServerInfo
  <2>1. TypeOK'
    BY DEF TypeOK
  <2>2. NeverStranded'
    BY DEF TypeOK, NeverStranded, RetainedOrIdle
  <2>3. RetainedOrIdle'
    BY ScreenCount DEF TypeOK, RetainedOrIdle, CallsOnTheirLink
  <2>4. CallsOnTheirLink'
    BY DEF TypeOK, CallsOnTheirLink, Handshaken
  <2>5. RelayAgrees'
    BY DEF TypeOK, RelayAgrees, Handshaken, RoomFresh, RetainedOrIdle
  <2>6. Handshaken'
    BY DEF TypeOK, Handshaken
  <2>7. RoomFresh'
    BY DEF TypeOK, Handshaken, RoomFresh
  <2>8. QED
    BY <2>1, <2>2, <2>3, <2>4, <2>5, <2>6, <2>7
<1>4. CASE GoesSilent
  <2> USE <1>4 DEF GoesSilent, Trouble
  <2>1. TypeOK'
    <3>1. Flags'
      BY Zenon DEF TypeOK, Flags
    <3>2. Kinds'
      BY DEF TypeOK, Kinds
    <3>3. QED
      BY <3>1, <3>2 DEF TypeOK, Flags, Kinds
  <2>2. NeverStranded'
    BY DEF TypeOK, NeverStranded, RetainedOrIdle
  <2>3. RetainedOrIdle'
    BY ScreenCount DEF TypeOK, RetainedOrIdle, CallsOnTheirLink
  <2>4. CallsOnTheirLink'
    BY DEF TypeOK, CallsOnTheirLink, Handshaken
  <2>5. RelayAgrees'
    BY DEF TypeOK, RelayAgrees, Handshaken, RoomFresh, RetainedOrIdle
  <2>6. Handshaken'
    BY DEF TypeOK, Handshaken
  <2>7. RoomFresh'
    BY DEF TypeOK, Handshaken, RoomFresh
  <2>8. QED
    BY <2>1, <2>2, <2>3, <2>4, <2>5, <2>6, <2>7
<1>5. CASE StaleClosed
  <2> USE <1>5 DEF StaleClosed
  <2>1. TypeOK'
    BY DEF TypeOK
  <2>2. NeverStranded'
    BY DEF TypeOK, NeverStranded, RetainedOrIdle
  <2>3. RetainedOrIdle'
    BY ScreenCount DEF TypeOK, RetainedOrIdle, CallsOnTheirLink
  <2>4. CallsOnTheirLink'
    BY DEF TypeOK, CallsOnTheirLink, Handshaken
  <2>5. RelayAgrees'
    BY DEF TypeOK, RelayAgrees, Handshaken, RoomFresh, RetainedOrIdle
  <2>6. Handshaken'
    BY DEF TypeOK, Handshaken
  <2>7. RoomFresh'
    BY DEF TypeOK, Handshaken, RoomFresh
  <2>8. QED
    BY <2>1, <2>2, <2>3, <2>4, <2>5, <2>6, <2>7
<1>6. CASE Resume
  <2> USE <1>6 DEF Resume, Connect, NewSocket
  <2>1. TypeOK'
    <3>1. Flags'
      BY Zenon DEF TypeOK, Flags
    <3>2. Kinds'
      BY DEF TypeOK, Kinds
    <3>3. QED
      BY <3>1, <3>2 DEF TypeOK, Flags, Kinds
  <2>2. NeverStranded'
    BY DEF TypeOK, NeverStranded, RetainedOrIdle
  <2>3. RetainedOrIdle'
    BY ScreenCount DEF TypeOK, RetainedOrIdle, CallsOnTheirLink
  <2>4. CallsOnTheirLink'
    BY DEF TypeOK, CallsOnTheirLink, Handshaken
  <2>5. RelayAgrees'
    BY DEF TypeOK, RelayAgrees, Handshaken, RoomFresh, RetainedOrIdle
  <2>6. Handshaken'
    BY DEF TypeOK, Handshaken
  <2>7. RoomFresh'
    BY DEF TypeOK, Handshaken, RoomFresh
  <2>8. QED
    BY <2>1, <2>2, <2>3, <2>4, <2>5, <2>6, <2>7
<1>7. CASE ReconnectFires
  <2> USE <1>7 DEF ReconnectFires, Connect, NewSocket
  <2>1. TypeOK'
    <3>1. Flags'
      BY Zenon DEF TypeOK, Flags
    <3>2. Kinds'
      BY DEF TypeOK, Kinds
    <3>3. QED
      BY <3>1, <3>2 DEF TypeOK, Flags, Kinds
  <2>2. NeverStranded'
    BY DEF TypeOK, NeverStranded, RetainedOrIdle
  <2>3. RetainedOrIdle'
    BY ScreenCount DEF TypeOK, RetainedOrIdle, CallsOnTheirLink
  <2>4. CallsOnTheirLink'
    BY DEF TypeOK, CallsOnTheirLink, Handshaken
  <2>5. RelayAgrees'
    BY DEF TypeOK, RelayAgrees, Handshaken, RoomFresh, RetainedOrIdle
  <2>6. Handshaken'
    BY DEF TypeOK, Handshaken
  <2>7. RoomFresh'
    BY DEF TypeOK, Handshaken, RoomFresh
  <2>8. QED
    BY <2>1, <2>2, <2>3, <2>4, <2>5, <2>6, <2>7
<1>8. CASE TokenRefreshed
  <2> USE <1>8 DEF TokenRefreshed, Trouble
  <2>1. TypeOK'
    BY DEF TypeOK
  <2>2. NeverStranded'
    BY DEF TypeOK, NeverStranded, RetainedOrIdle
  <2>3. RetainedOrIdle'
    BY ScreenCount DEF TypeOK, RetainedOrIdle, CallsOnTheirLink
  <2>4. CallsOnTheirLink'
    BY DEF TypeOK, CallsOnTheirLink, Handshaken
  <2>5. RelayAgrees'
    BY DEF TypeOK, RelayAgrees, Handshaken, RoomFresh, RetainedOrIdle
  <2>6. Handshaken'
    BY DEF TypeOK, Handshaken
  <2>7. RoomFresh'
    BY DEF TypeOK, Handshaken, RoomFresh
  <2>8. QED
    BY <2>1, <2>2, <2>3, <2>4, <2>5, <2>6, <2>7
<1>9. CASE SignedOut
  <2> USE <1>9 DEF SignedOut, Trouble
  <2>1. TypeOK'
    <3>1. Flags'
      BY Zenon DEF TypeOK, Flags
    <3>2. Kinds'
      BY DEF TypeOK, Kinds
    <3>3. QED
      BY <3>1, <3>2 DEF TypeOK, Flags, Kinds
  <2>2. NeverStranded'
    BY DEF TypeOK, NeverStranded, RetainedOrIdle
  <2>3. RetainedOrIdle'
    BY ScreenCount DEF TypeOK, RetainedOrIdle, CallsOnTheirLink
  <2>4. CallsOnTheirLink'
    BY DEF TypeOK, CallsOnTheirLink, Handshaken
  <2>5. RelayAgrees'
    BY DEF TypeOK, RelayAgrees, Handshaken, RoomFresh, RetainedOrIdle
  <2>6. Handshaken'
    BY DEF TypeOK, Handshaken
  <2>7. RoomFresh'
    BY DEF TypeOK, Handshaken, RoomFresh
  <2>8. QED
    BY <2>1, <2>2, <2>3, <2>4, <2>5, <2>6, <2>7
<1>10. CASE IdleFires
  <2> USE <1>10 DEF IdleFires, InFlight
  <2>1. TypeOK'
    BY DEF TypeOK
  <2>2. NeverStranded'
    BY DEF TypeOK, NeverStranded, RetainedOrIdle
  <2>3. RetainedOrIdle'
    BY ScreenCount DEF TypeOK, RetainedOrIdle, CallsOnTheirLink
  <2>4. CallsOnTheirLink'
    BY DEF TypeOK, CallsOnTheirLink, Handshaken
  <2>5. RelayAgrees'
    BY DEF TypeOK, RelayAgrees, Handshaken, RoomFresh, RetainedOrIdle
  <2>6. Handshaken'
    BY DEF TypeOK, Handshaken
  <2>7. RoomFresh'
    BY DEF TypeOK, Handshaken, RoomFresh
  <2>8. QED
    BY <2>1, <2>2, <2>3, <2>4, <2>5, <2>6, <2>7
<1>11. QED
  BY <1>1, <1>2, <1>3, <1>4, <1>5, <1>6, <1>7, <1>8, <1>9, <1>10

\* A socket goes down: its calls end, and the one that retained releases.
LEMMA DownStep ==
    ASSUME WsInv,
           Closes \/ Drops
    PROVE  WsInv'
<1> USE WsAssumption DEF WsInv, clientVars, holdVars, relayVars, envVars, InFlight, Ended
<1>1. CASE Closes
  <2> USE <1>1 DEF Closes, SocketDown, End, Less, InFlight
  <2>1. TypeOK'
    <3>1. Flags'
      BY Zenon DEF TypeOK, Flags
    <3>2. Kinds'
      BY DEF TypeOK, Kinds
    <3>3. QED
      BY <3>1, <3>2 DEF TypeOK, Flags, Kinds
  <2>2. NeverStranded'
    <3>1. retainCount > 0 => reconnectTimer'
      BY Zenon
    <3>2. retainCount' > 0 => retainCount > 0
      BY DEF TypeOK
    <3>3. QED
      BY <3>1, <3>2 DEF NeverStranded
  <2>3. RetainedOrIdle'
    BY ScreenCount DEF TypeOK, RetainedOrIdle, CallsOnTheirLink
  <2>4. CallsOnTheirLink'
    BY DEF TypeOK, CallsOnTheirLink, Handshaken
  <2>5. RelayAgrees'
    BY DEF TypeOK, RelayAgrees, Handshaken, RoomFresh, RetainedOrIdle
  <2>6. Handshaken'
    BY DEF TypeOK, Handshaken
  <2>7. RoomFresh'
    BY DEF TypeOK, Handshaken, RoomFresh
  <2>8. QED
    BY <2>1, <2>2, <2>3, <2>4, <2>5, <2>6, <2>7
<1>2. CASE Drops
  <2> USE <1>2 DEF Drops, Trouble, SocketDown, End, Less, InFlight
  <2>1. TypeOK'
    <3>1. Flags'
      BY Zenon DEF TypeOK, Flags
    <3>2. Kinds'
      BY DEF TypeOK, Kinds
    <3>3. QED
      BY <3>1, <3>2 DEF TypeOK, Flags, Kinds
  <2>2. NeverStranded'
    <3>1. retainCount > 0 => reconnectTimer'
      BY Zenon
    <3>2. retainCount' > 0 => retainCount > 0
      BY DEF TypeOK
    <3>3. QED
      BY <3>1, <3>2 DEF NeverStranded
  <2>3. RetainedOrIdle'
    BY ScreenCount DEF TypeOK, RetainedOrIdle, CallsOnTheirLink
  <2>4. CallsOnTheirLink'
    BY DEF TypeOK, CallsOnTheirLink, Handshaken
  <2>5. RelayAgrees'
    BY DEF TypeOK, RelayAgrees, Handshaken, RoomFresh, RetainedOrIdle
  <2>6. Handshaken'
    BY DEF TypeOK, Handshaken
  <2>7. RoomFresh'
    BY DEF TypeOK, Handshaken, RoomFresh
  <2>8. QED
    BY <2>1, <2>2, <2>3, <2>4, <2>5, <2>6, <2>7
<1>3. QED
  BY <1>1, <1>2

\* Screens mount and unmount.
LEMMA ScreenStep ==
    ASSUME WsInv, NEW s \in Screens,
           Subscribe(s) \/ Unsubscribe(s) \/ Watch(s) \/ Unwatch(s)
    PROVE  WsInv'
<1> USE WsAssumption DEF WsInv, clientVars, holdVars, relayVars, envVars, InFlight, Ended
<1>1. CASE Subscribe(s)
  <2> USE <1>1 DEF Subscribe, Retain, Dial, Connect, NewSocket
  <2>1. TypeOK'
    <3>1. Flags'
      BY Zenon DEF TypeOK, Flags
    <3>2. Kinds'
      BY DEF TypeOK, Kinds
    <3>3. QED
      BY <3>1, <3>2 DEF TypeOK, Flags, Kinds
  <2>2. NeverStranded'
    BY DEF TypeOK, NeverStranded, RetainedOrIdle
  <2>3. RetainedOrIdle'
    BY ScreenCount DEF TypeOK, RetainedOrIdle, CallsOnTheirLink
  <2>4. CallsOnTheirLink'
    BY DEF TypeOK, CallsOnTheirLink, Handshaken
  <2>5. RelayAgrees'
    BY DEF TypeOK, RelayAgrees, Handshaken, RoomFresh, RetainedOrIdle
  <2>6. Handshaken'
    BY DEF TypeOK, Handshaken
  <2>7. RoomFresh'
    BY DEF TypeOK, Handshaken, RoomFresh
  <2>8. QED
    BY <2>1, <2>2, <2>3, <2>4, <2>5, <2>6, <2>7
<1>2. CASE Unsubscribe(s)
  <2> USE <1>2 DEF Unsubscribe, Release, Less
  <2>1. TypeOK'
    BY DEF TypeOK
  <2>2. NeverStranded'
    BY DEF TypeOK, NeverStranded, RetainedOrIdle
  <2>3. RetainedOrIdle'
    <3>1. (retainCount' = 0 => idleTimer') /\ (idleTimer' => idleTimer \/ retainCount' = 0)
      BY Zenon
    <3>2. /\ retainCount' = retainCount - 1
          /\ Cardinality(subscribed') + Cardinality(watching')
                = Cardinality(subscribed) + Cardinality(watching) - 1
      BY ScreenCount DEF TypeOK, RetainedOrIdle
    <3>3. UNCHANGED socket /\ (owner' # NoCall => owner' = owner /\ owner' \in InFlight')
      BY DEF TypeOK, RetainedOrIdle
    <3>4. QED
      BY <3>1, <3>2, <3>3, ScreenCount DEF TypeOK, RetainedOrIdle
  <2>4. CallsOnTheirLink'
    BY DEF TypeOK, CallsOnTheirLink, Handshaken
  <2>5. RelayAgrees'
    BY DEF TypeOK, RelayAgrees, Handshaken, RoomFresh, RetainedOrIdle
  <2>6. Handshaken'
    BY DEF TypeOK, Handshaken
  <2>7. RoomFresh'
    BY DEF TypeOK, Handshaken, RoomFresh
  <2>8. QED
    BY <2>1, <2>2, <2>3, <2>4, <2>5, <2>6, <2>7
<1>3. CASE Watch(s)
  <2> USE <1>3 DEF Watch, Retain, WatchFrame, Connect, NewSocket
  <2>1. TypeOK'
    <3>1. Flags'
      BY Zenon DEF TypeOK, Flags
    <3>2. Kinds'
      <4>1. CASE retainCount = 0 /\ socket = "none"
        BY <4>1 DEF TypeOK, Kinds
      <4>2. CASE ~(retainCount = 0 /\ socket = "none")
        <5>1. UNCHANGED <<socket, awaiting, lastPresence, trouble>>
          BY <4>2, Zenon
        <5>2. retainCount' = retainCount + 1
          BY Zenon
        <5>3. QED
          BY <5>1, <5>2 DEF TypeOK, Kinds
      <4>3. QED
        BY <4>1, <4>2
    <3>3. QED
      BY <3>1, <3>2 DEF TypeOK, Flags, Kinds
  <2>2. NeverStranded'
    <3>1. CASE retainCount = 0 /\ socket = "none"
      BY <3>1 DEF TypeOK, NeverStranded
    <3>2. CASE ~(retainCount = 0 /\ socket = "none")
      <4>1. UNCHANGED <<socket, awaiting, reconnectTimer>>
        BY <3>2, Zenon
      <4>2. retainCount = 0 => socket # "none"
        BY <3>2
      <4>3. QED
        BY <4>1, <4>2 DEF TypeOK, NeverStranded
    <3>3. QED
      BY <3>1, <3>2
  <2>3. RetainedOrIdle'
    BY ScreenCount DEF TypeOK, RetainedOrIdle, CallsOnTheirLink
  <2>4. CallsOnTheirLink'
    BY DEF TypeOK, CallsOnTheirLink, Handshaken
  <2>5. RelayAgrees'
    BY DEF TypeOK, RelayAgrees, Handshaken, RoomFresh, RetainedOrIdle
  <2>6. Handshaken'
    BY DEF TypeOK, Handshaken
  <2>7. RoomFresh'
    BY DEF TypeOK, Handshaken, RoomFresh
  <2>8. QED
    BY <2>1, <2>2, <2>3, <2>4, <2>5, <2>6, <2>7
<1>4. CASE Unwatch(s)
  <2> USE <1>4 DEF Unwatch, Release, Less, WatchFrame
  <2>1. TypeOK'
    <3>1. Flags'
      BY Zenon DEF TypeOK, Flags
    <3>2. Kinds'
      BY DEF TypeOK, Kinds
    <3>3. QED
      BY <3>1, <3>2 DEF TypeOK, Flags, Kinds
  <2>2. NeverStranded'
    BY DEF TypeOK, NeverStranded, RetainedOrIdle
  <2>3. RetainedOrIdle'
    <3>1. (retainCount' = 0 => idleTimer') /\ (idleTimer' => idleTimer \/ retainCount' = 0)
      BY Zenon
    <3>2. /\ retainCount' = retainCount - 1
          /\ Cardinality(subscribed') + Cardinality(watching')
                = Cardinality(subscribed) + Cardinality(watching) - 1
      <4>1. /\ watching' = watching \ {s} /\ s \in watching /\ UNCHANGED subscribed
            /\ retainCount' = IF retainCount = 0 THEN 0 ELSE retainCount - 1
        BY Zenon
      <4>2. /\ Cardinality(watching') = Cardinality(watching) - 1
            /\ Cardinality(watching) \in Nat /\ Cardinality(watching') \in Nat
            /\ Cardinality(subscribed) \in Nat
        BY <4>1, ScreenCount DEF TypeOK
      <4>3. retainCount > 0
        BY <4>2 DEF TypeOK, RetainedOrIdle
      <4>4. QED
        BY <4>1, <4>2, <4>3 DEF TypeOK
    <3>3. UNCHANGED socket /\ (owner' # NoCall => owner' = owner /\ owner' \in InFlight')
      BY DEF TypeOK, RetainedOrIdle
    <3>4. QED
      BY <3>1, <3>2, <3>3, ScreenCount DEF TypeOK, RetainedOrIdle
  <2>4. CallsOnTheirLink'
    BY DEF TypeOK, CallsOnTheirLink, Handshaken
  <2>5. RelayAgrees'
    BY DEF TypeOK, RelayAgrees, Handshaken, RoomFresh, RetainedOrIdle
  <2>6. Handshaken'
    BY DEF TypeOK, Handshaken
  <2>7. RoomFresh'
    BY DEF TypeOK, Handshaken, RoomFresh
  <2>8. QED
    BY <2>1, <2>2, <2>3, <2>4, <2>5, <2>6, <2>7
<1>5. QED
  BY <1>1, <1>2, <1>3, <1>4

\* Calls are made and end.
LEMMA CallStep ==
    ASSUME WsInv, NEW c \in Calls,
           CallRpc(c) \/ Answer(c) \/ WaitTimesOut(c) \/ RequestTimesOut(c)
    PROVE  WsInv'
<1> USE WsAssumption DEF WsInv, clientVars, holdVars, relayVars, envVars, InFlight, Ended
<1>1. CASE CallRpc(c)
  <2> USE <1>1 DEF CallRpc, Retain, Connect, NewSocket, InFlight
  <2>1. TypeOK'
    <3>1. Flags'
      BY Zenon DEF TypeOK, Flags
    <3>2. Kinds'
      BY DEF TypeOK, Kinds
    <3>3. QED
      BY <3>1, <3>2 DEF TypeOK, Flags, Kinds
  <2>2. NeverStranded'
    BY DEF TypeOK, NeverStranded, RetainedOrIdle
  <2>3. RetainedOrIdle'
    BY ScreenCount DEF TypeOK, RetainedOrIdle, CallsOnTheirLink
  <2>4. CallsOnTheirLink'
    BY DEF TypeOK, CallsOnTheirLink, Handshaken
  <2>5. RelayAgrees'
    BY DEF TypeOK, RelayAgrees, Handshaken, RoomFresh, RetainedOrIdle
  <2>6. Handshaken'
    BY DEF TypeOK, Handshaken
  <2>7. RoomFresh'
    BY DEF TypeOK, Handshaken, RoomFresh
  <2>8. QED
    BY <2>1, <2>2, <2>3, <2>4, <2>5, <2>6, <2>7
<1>2. CASE Answer(c)
  <2> USE <1>2 DEF Answer, End, Less, InFlight
  <2>1. TypeOK'
    <3>1. Flags'
      BY Zenon DEF TypeOK, Flags
    <3>2. Kinds'
      BY DEF TypeOK, Kinds
    <3>3. QED
      BY <3>1, <3>2 DEF TypeOK, Flags, Kinds
  <2>2. NeverStranded'
    BY DEF TypeOK, NeverStranded, RetainedOrIdle
  <2>3. RetainedOrIdle'
    BY ScreenCount DEF TypeOK, RetainedOrIdle, CallsOnTheirLink
  <2>4. CallsOnTheirLink'
    BY DEF TypeOK, CallsOnTheirLink, Handshaken
  <2>5. RelayAgrees'
    BY DEF TypeOK, RelayAgrees, Handshaken, RoomFresh, RetainedOrIdle
  <2>6. Handshaken'
    BY DEF TypeOK, Handshaken
  <2>7. RoomFresh'
    BY DEF TypeOK, Handshaken, RoomFresh
  <2>8. QED
    BY <2>1, <2>2, <2>3, <2>4, <2>5, <2>6, <2>7
<1>3. CASE WaitTimesOut(c)
  <2> USE <1>3 DEF WaitTimesOut, End, Less, InFlight
  <2>1. TypeOK'
    <3>1. Flags'
      BY Zenon DEF TypeOK, Flags
    <3>2. Kinds'
      BY DEF TypeOK, Kinds
    <3>3. QED
      BY <3>1, <3>2 DEF TypeOK, Flags, Kinds
  <2>2. NeverStranded'
    BY DEF TypeOK, NeverStranded, RetainedOrIdle
  <2>3. RetainedOrIdle'
    <3>1. CASE owner = c
      <4>1. (retainCount' = 0 => idleTimer') /\ (idleTimer' => idleTimer \/ retainCount' = 0)
        BY <3>1, Zenon
      <4>2. retainCount' = retainCount - 1 /\ owner' = NoCall
        BY <3>1, ScreenCount DEF TypeOK, RetainedOrIdle
      <4>3. UNCHANGED <<socket, subscribed, watching>>
        BY <3>1
      <4>4. QED
        BY <3>1, <4>1, <4>2, <4>3, ScreenCount DEF TypeOK, RetainedOrIdle
    <3>2. CASE owner # c
      BY <3>2, ScreenCount DEF TypeOK, RetainedOrIdle
    <3>3. QED
      BY <3>1, <3>2
  <2>4. CallsOnTheirLink'
    BY DEF TypeOK, CallsOnTheirLink, Handshaken
  <2>5. RelayAgrees'
    BY DEF TypeOK, RelayAgrees, Handshaken, RoomFresh, RetainedOrIdle
  <2>6. Handshaken'
    BY DEF TypeOK, Handshaken
  <2>7. RoomFresh'
    BY DEF TypeOK, Handshaken, RoomFresh
  <2>8. QED
    BY <2>1, <2>2, <2>3, <2>4, <2>5, <2>6, <2>7
<1>4. CASE RequestTimesOut(c)
  <2> USE <1>4 DEF RequestTimesOut, End, Less, InFlight
  <2>1. TypeOK'
    <3>1. Flags'
      BY Zenon DEF TypeOK, Flags
    <3>2. Kinds'
      BY DEF TypeOK, Kinds
    <3>3. QED
      BY <3>1, <3>2 DEF TypeOK, Flags, Kinds
  <2>2. NeverStranded'
    BY DEF TypeOK, NeverStranded, RetainedOrIdle
  <2>3. RetainedOrIdle'
    BY ScreenCount DEF TypeOK, RetainedOrIdle, CallsOnTheirLink
  <2>4. CallsOnTheirLink'
    BY DEF TypeOK, CallsOnTheirLink, Handshaken
  <2>5. RelayAgrees'
    BY DEF TypeOK, RelayAgrees, Handshaken, RoomFresh, RetainedOrIdle
  <2>6. Handshaken'
    BY DEF TypeOK, Handshaken
  <2>7. RoomFresh'
    BY DEF TypeOK, Handshaken, RoomFresh
  <2>8. QED
    BY <2>1, <2>2, <2>3, <2>4, <2>5, <2>6, <2>7
<1>5. QED
  BY <1>1, <1>2, <1>3, <1>4

LEMMA PresenceStep ==
    ASSUME WsInv, NEW p \in {"front", "back"}, SendPresence(p)
    PROVE  WsInv'
  BY DEF SendPresence, clientVars, holdVars, relayVars, envVars, WsInv, TypeOK,
     NeverStranded, RetainedOrIdle, CallsOnTheirLink, RelayAgrees, Handshaken,
     RoomFresh, InFlight

LEMMA WsStep ==
    ASSUME WsInv, [Next]_vars
    PROVE  WsInv'
<1>1. CASE Next
  BY <1>1, LinkStep, DownStep, ScreenStep, CallStep, PresenceStep DEF Next
<1>2. CASE UNCHANGED vars
  BY <1>2 DEF vars, clientVars, holdVars, relayVars, envVars, WsInv, TypeOK,
     NeverStranded, RetainedOrIdle, CallsOnTheirLink, RelayAgrees, Handshaken,
     RoomFresh, InFlight
<1>3. QED
  BY <1>1, <1>2

LEMMA WsInvariant == Spec => []WsInv
<1>1. QED
  BY WsInit, WsStep, PTL DEF Spec

\* The state of the client (ws-client.ts) keeps its types.
THEOREM WsTypes == Spec => []TypeOK
<1>1. WsInv => TypeOK
  BY DEF WsInv
<1>2. QED
  BY <1>1, WsInvariant, PTL

\* A page that holds the connection is connected, dialling, or about to dial.
THEOREM ConnectionKept == Spec => []NeverStranded
<1>1. WsInv => NeverStranded
  BY DEF WsInv
<1>2. QED
  BY <1>1, WsInvariant, PTL

\* The retain count is what it counts; only an unheld connection times out.
THEOREM RetainsBalance == Spec => []RetainedOrIdle
<1>1. WsInv => RetainedOrIdle
  BY DEF WsInv
<1>2. QED
  BY <1>1, WsInvariant, PTL

\* No call outlives the socket it went out on.
THEOREM CallsEndWithTheirSocket == Spec => []CallsOnTheirLink
<1>1. WsInv => CallsOnTheirLink
  BY DEF WsInv
<1>2. QED
  BY <1>1, WsInvariant, PTL

\* After any number of reconnects the relay holds what the page last said.
THEOREM RelayHoldsLastSaid == Spec => []RelayAgrees
<1>1. WsInv => RelayAgrees
  BY DEF WsInv
<1>2. QED
  BY <1>1, WsInvariant, PTL
=============================================================================
