-------------------------- MODULE SessionStreamProofs -----------------------
(***************************************************************************)
(* For any number of messages, connections, refetches and restarts, and    *)
(* for outboxes and windows of any size: a message is handed on once per   *)
(* process, and as long as the messages fit in a page, the watermark never *)
(* moves past one that the process has yet to get.                         *)
(***************************************************************************)
EXTENDS SessionStream, FiniteSetTheorems, TLAPS

\* One response to a catch-up fetch carries every row there is.
FitsInPage == IsFiniteSet(Messages) /\ Cardinality(Messages) <= PageLimit

Carries(bodies, m) == \E b \in bodies : b.id = m
Late(bodies, m) == \E b \in bodies : b.at > created[m] + Window

\* Committed, with its broadcast sent, and not with this process.
Missing(m) == m \in committed \ (bridge \cup lost \cup skipped \cup seen \cup routed)

Frame == [type : {"rows", "live"}, bodies : SUBSET Body]

\* The values, in groups.
Clocks ==
    /\ {now, lastRead, watermark, lastPost} \subseteq Times
    /\ created \in [Messages -> Times]

Sets ==
    /\ committed \subseteq Messages /\ bridge \subseteq Messages /\ lost \subseteq Messages
    /\ seen \subseteq Messages /\ routed \subseteq Messages /\ taken \subseteq Messages
    /\ skipped \subseteq Messages

Link ==
    /\ wire \in Seq(Frame) /\ Len(wire) <= OutboxMax
    /\ requests \in Seq(Times)
    /\ answer \in Seq(SUBSET Body) /\ Len(answer) <= 1
    /\ buffered \subseteq Body

Flags == up \in BOOLEAN /\ shed \in BOOLEAN /\ fetchDone \in BOOLEAN /\ busy \in BOOLEAN
Faults == faults \in 0 .. MaxFaults

\* What was handed on is known, so it is not fresh again.
Handed ==
    /\ callbacks \in [Messages -> 0 .. 1]
    /\ \A m \in Messages : callbacks[m] = 1 => m \in seen

Types == Clocks /\ Sets /\ Link

\* No time is ahead of the clock.
Past ==
    /\ watermark <= now /\ lastRead <= now
    /\ \A m \in Messages : created[m] <= now
    /\ bridge \subseteq committed /\ \A m \in committed : created[m] # 0
    /\ \A i \in DOMAIN wire : \A b \in wire[i].bodies : b.at <= now
    /\ \A i \in DOMAIN answer : \A b \in answer[i] : b.at <= now
    /\ \A b \in buffered : b.at <= now

\* At most one fetch is under way, with a watermark the client has, or has passed.
OneFetch ==
    /\ Len(requests) <= 1
    /\ requests # <<>> => answer = <<>> /\ Head(requests) <= watermark
    /\ requests # <<>> \/ answer # <<>> => \A i \in DOMAIN wire : wire[i].type # "rows"
    /\ \A i, j \in DOMAIN wire : wire[i].type = "rows" /\ wire[j].type = "rows" => i = j
    /\ fetchDone => buffered = {}

\* The first response of the connection brings m.
Brings(m) ==
    /\ ~fetchDone
    /\ \A i \in DOMAIN wire : wire[i].type = "rows" => Carries(wire[i].bodies, m)
    /\ shed \/ \A i \in DOMAIN answer : Carries(answer[i], m)

\* m is on its way over the connection.
Tracked(m) ==
    \/ shed \/ Brings(m) \/ Carries(buffered, m)
    \/ \E i \in DOMAIN wire : Carries(wire[i].bodies, m)

\* What is late for m is behind m.
Behind(m) ==
    /\ Late(buffered, m) => Carries(buffered, m) \/ Brings(m)
    /\ \A i \in DOMAIN wire :
          Late(wire[i].bodies, m) =>
              \/ Carries(buffered, m) \/ Brings(m)
              \/ \E j \in DOMAIN wire : j <= i /\ Carries(wire[j].bodies, m)

InReach(m) == watermark <= created[m] + Window

Held(m) == (watermark # 0 => InReach(m)) /\ (up => Tracked(m) /\ Behind(m))
Reach == \A m \in Messages : Missing(m) => Held(m)

OnTime == Timely(now)

GapInv == Types /\ Past /\ OnTime /\ OneFetch /\ Reach

-----------------------------------------------------------------------------
(* Largest times.                                                          *)

\* A nonempty set of times with a bound has a largest one.
LEMMA MaxOf ==
    ASSUME NEW S \in SUBSET Nat, NEW n \in Nat, \A s \in S : s <= n, S # {}
    PROVE  Max(S) \in S /\ \A s \in S : s <= Max(S)
<1> DEFINE R == OpToRel(<, Nat)
           D == {n - s : s \in S}
<1>1. D \subseteq Nat /\ D # {}
  <2>1. \A s \in S : s \in Nat /\ s <= n /\ n - s \in Nat
    OBVIOUS
  <2>2. PICK s \in S : TRUE
    OBVIOUS
  <2>3. n - s \in D
    BY <2>2
  <2>4. QED
    BY <2>1, <2>3
<1>2. \E x \in D : \A y \in D : ~ (<<y, x>> \in R)
  <2>1. IsWellFoundedOn(R, Nat)
    BY NatLessThanWellFounded
  <2> HIDE DEF R, D
  <2>2. QED
    BY <1>1, <2>1, WFMin
<1>3. PICK x \in D : \A y \in D : ~ (<<y, x>> \in R)
  BY <1>2
<1>4. \A y \in D : x <= y
  <2>1. \A y \in Nat : y < x => <<y, x>> \in R
    <3>1. R = {ss \in Nat \X Nat : ss[1] < ss[2]}
      BY DEF OpToRel
    <3>2. x \in Nat
      BY <1>1
    <3> HIDE DEF R
    <3>3. QED
      BY <3>1, <3>2
  <2> HIDE DEF R, D
  <2>2. \A y \in D : ~ (y < x) /\ y \in Nat /\ x \in Nat
    BY <1>1, <1>3, <2>1
  <2>3. QED
    BY <2>2
<1>5. PICK t \in S : x = n - t
  OBVIOUS
<1>6. \A s \in S : t >= s
  <2>1. SUFFICES ASSUME NEW s \in S
                 PROVE  t >= s
    OBVIOUS
  <2>2. n - s \in D
    OBVIOUS
  <2>3. n - t <= n - s
    BY <1>4, <1>5, <2>2
  <2>4. QED
    BY <2>3
<1>7. \E y \in S : \A s \in S : y >= s
  BY <1>6
<1>8. Max(S) \in S /\ \A s \in S : Max(S) >= s
  BY <1>7 DEF Max
<1>9. QED
  BY <1>8

-----------------------------------------------------------------------------
(* Values.                                                                 *)

\* A live frame, or the clock's next value, is well typed.
LEMMA FrameTypes ==
    /\ \A m \in Messages : created \in [Messages -> Times] => Live(Row(m)) \in Frame
    /\ \A t \in Times : Live(Echo(t)) \in Frame
    /\ \A rows \in SUBSET Body : [type |-> "rows", bodies |-> rows] \in Frame
  BY DEF Live, Row, Echo, Frame, Body

\* A frame goes to the end of the wire ...
LEMMA Appended ==
    ASSUME NEW s \in Seq(Frame), NEW frame \in Frame
    PROVE  /\ Append(s, frame) \in Seq(Frame) /\ Len(Append(s, frame)) = Len(s) + 1
           /\ DOMAIN s = 1 .. Len(s) /\ DOMAIN Append(s, frame) = 1 .. Len(s) + 1
           /\ Len(s) \in Nat
           /\ \A i \in 1 .. Len(s) : Append(s, frame)[i] = s[i]
           /\ Append(s, frame)[Len(s) + 1] = frame
<1> HIDE DEF Frame
<1> QED
  OBVIOUS

\* ... and leaves it at its head.
LEMMA Consumed ==
    ASSUME NEW s \in Seq(Frame), s # <<>>
    PROVE  /\ Tail(s) \in Seq(Frame) /\ Len(Tail(s)) = Len(s) - 1
           /\ Len(s) \in Nat \ {0} /\ DOMAIN s = 1 .. Len(s) /\ DOMAIN Tail(s) = 1 .. Len(s) - 1
           /\ \A i \in 1 .. Len(s) - 1 : Tail(s)[i] = s[i + 1]
           /\ Head(s) = s[1] /\ s[1] \in Frame
<1> HIDE DEF Frame
<1> QED
  OBVIOUS

\* The outbox takes a frame as long as it has room.
LEMMA EnqueueTypes ==
    ASSUME Link, NEW frame \in Frame, Enqueue(frame)
    PROVE  wire' \in Seq(Frame) /\ Len(wire') <= OutboxMax
<1>1. wire' = wire \/ (wire' = Append(wire, frame) /\ Len(wire) < OutboxMax)
  BY DEF Enqueue
<1>2. OutboxMax \in Nat
  BY StreamAssumption
<1>3. wire \in Seq(Frame) /\ Len(wire) <= OutboxMax
  BY DEF Link
<1>4. CASE wire' = wire
  BY <1>3, <1>4
<1>5. CASE wire' = Append(wire, frame) /\ Len(wire) < OutboxMax
  BY <1>2, <1>3, <1>5, Appended
<1>6. QED
  BY <1>1, <1>4, <1>5

\* What a catch-up fetch returns.
LEMMA FetchTypes ==
    ASSUME Clocks, Sets, NEW after
    PROVE  Fetch(after) \subseteq {Row(m) : m \in committed} /\ Fetch(after) \subseteq Body
<1>1. Fetch(after) \subseteq {Row(m) : m \in committed}
  BY DEF Fetch, Page
<1>2. \A m \in committed : Row(m) \in Body
  BY DEF Clocks, Sets, Row, Body
<1>3. QED
  BY <1>1, <1>2

\* The watermark is the largest time that was delivered.
LEMMA DeliverTypes ==
    ASSUME Clocks, Sets, NEW bodies \in SUBSET Body, Deliver(bodies)
    PROVE  /\ watermark' \in Times /\ watermark <= watermark'
           /\ watermark' = watermark \/ \E b \in bodies : b.id \notin seen /\ b.at = watermark'
           /\ \A b \in bodies : b.id \notin seen => b.at <= watermark'
           /\ seen' = seen \cup ({b.id : b \in bodies} \ (seen \cup {None}))
           /\ seen' \subseteq Messages /\ routed' \subseteq Messages
           /\ routed \subseteq routed'
<1> DEFINE ats == {b.at : b \in {x \in bodies : x.id \notin seen}}
           S == {watermark} \cup ats
<1>1. MaxTime \in Nat /\ watermark \in Times
  BY StreamAssumption DEF Clocks
<1>2. \A b \in bodies : b.at \in Times /\ b.id \in Messages \cup {None}
  BY DEF Body
<1>3. S \in SUBSET Times
  BY <1>1, <1>2
<1>4. Max(S) \in S /\ \A s \in S : s <= Max(S)
  <2>1. S \in SUBSET Nat /\ S # {} /\ \A s \in S : s <= MaxTime
    BY <1>1, <1>3 DEF Times
  <2> HIDE DEF S
  <2>2. QED
    BY <1>1, <2>1, MaxOf
<1>5. watermark' = Max(S)
  BY DEF Deliver
<1>6. /\ seen' = seen \cup ({b.id : b \in bodies} \ (seen \cup {None}))
      /\ routed' = routed \cup ({b.id : b \in bodies} \ (seen \cup {None}))
  BY DEF Deliver
<1>7. {b.id : b \in bodies} \subseteq Messages \cup {None}
  BY <1>2
<1>8. seen' \subseteq Messages /\ routed' \subseteq Messages /\ routed \subseteq routed'
  BY <1>6, <1>7 DEF Sets
<1>9. watermark' \in Times /\ watermark <= watermark'
  BY <1>3, <1>4, <1>5
<1>10. \A b \in bodies : b.id \notin seen => b.at <= watermark'
  BY <1>4, <1>5
<1>11. watermark' = watermark \/ \E b \in bodies : b.id \notin seen /\ b.at = watermark'
  BY <1>4, <1>5
<1>12. QED
  BY <1>6, <1>8, <1>9, <1>10, <1>11

\* The cursor stays where it is or moves to the last unread row.
LEMMA ReadTailTypes ==
    ASSUME Clocks, Sets, ReadTail
    PROVE  lastRead' \in Times /\ (lastRead' = lastRead \/ \E m \in Messages : lastRead' = created[m])
<1> DEFINE S == {lastRead} \cup {created[m] : m \in Unread}
<1>1. Unread \subseteq Messages /\ lastRead \in Times /\ MaxTime \in Nat
  BY StreamAssumption DEF Unread, Sets, Clocks
<1>2. \A m \in Unread : created[m] \in Times
  BY <1>1 DEF Clocks
<1>3. S \in SUBSET Times
  BY <1>1, <1>2
<1>4. Max(S) \in S
  <2>1. S \in SUBSET Nat /\ S # {} /\ \A s \in S : s <= MaxTime
    BY <1>1, <1>3 DEF Times
  <2> HIDE DEF S
  <2>2. QED
    BY <1>1, <2>1, MaxOf
<1>5. lastRead' = Max(S)
  BY DEF ReadTail
<1>6. QED
  BY <1>1, <1>3, <1>4, <1>5

\* The clock moves only on.
LEMMA ClocksStep ==
    ASSUME Types, [Next]_vars
    PROVE  Clocks'
<1> USE StreamAssumption DEF Types
<1>1. \A t \in {now, now + 1} : ClockTo(t) => now' = t /\ t \in Times
  BY DEF ClockTo, Clocks, Times
<1>2. 0 \in Times
  BY DEF Times
<1>3. CASE Tick \/ AgentPost \/ \E m \in Messages : FlushMessage(m)
  BY <1>1, <1>3 DEF Tick, AgentPost, FlushMessage, clientVars, runnerVars, Clocks
<1>4. CASE ReadFrame
  <2>1. watermark' \in Times
    <3>1. CASE UNCHANGED watermark
      BY <3>1 DEF Clocks
    <3>2. CASE \E B \in SUBSET Body : Deliver(B)
      BY <3>2, DeliverTypes
    <3>3. wire # <<>> /\ Head(wire) \in Frame /\ buffered \in SUBSET Body
      BY <1>4, Consumed DEF ReadFrame, Link
    <3>4. Head(wire).bodies \in SUBSET Body /\ Head(wire).bodies \cup buffered \in SUBSET Body
      BY <3>3 DEF Frame
    <3>5. QED
      BY <1>4, <3>1, <3>2, <3>4 DEF ReadFrame
  <2>2. UNCHANGED <<dbVars, lastPost>>
    BY <1>4 DEF ReadFrame
  <2>3. QED
    BY <2>1, <2>2 DEF Clocks, dbVars
<1>5. CASE EndTurn \/ SettleAutonomous \/ RecoverOverRest
  <2>1. lastRead' = lastRead \/ ReadTail
    BY <1>5 DEF EndTurn, SettleAutonomous, RecoverOverRest, Settle
  <2>2. lastRead' \in Times
    BY <2>1, ReadTailTypes DEF Clocks
  <2>3. UNCHANGED <<now, created, watermark>> /\ lastPost' \in {0, lastPost}
    BY <1>5 DEF EndTurn, SettleAutonomous, RecoverOverRest, Settle, clientVars
  <2>4. QED
    BY <1>2, <2>2, <2>3 DEF Clocks
<1>6. CASE StartTurn \/ Restart
  BY <1>2, <1>6 DEF StartTurn, Restart, Clocks, dbVars, clientVars
<1>7. ASSUME UNCHANGED <<dbVars, watermark, lastPost>>
      PROVE  Clocks'
  BY <1>7 DEF dbVars, Clocks
<1>8. ASSUME NEW m \in Messages, CommitMessage(m) \/ BroadcastArrives(m) \/ BroadcastLost(m)
      PROVE  Clocks'
  BY <1>7, <1>8 DEF CommitMessage, BroadcastArrives, BroadcastLost, dbVars, clientVars, runnerVars, Clocks
<1>9. CASE Connect \/ Disconnect \/ Select \/ Respond \/ Reconcile \/ UNCHANGED vars
  BY <1>7, <1>9 DEF Connect, Disconnect, Select, Respond, Reconcile, vars, clientVars, runnerVars
<1>10. QED
  BY <1>3, <1>4, <1>5, <1>6, <1>8, <1>9 DEF Next

\* Rows stay rows, wherever they go.
LEMMA SetsStep ==
    ASSUME Types, [Next]_vars
    PROVE  Sets'
<1> USE DEF Types
<1>1. CASE ReadFrame
  <2>1. seen' \subseteq Messages /\ routed' \subseteq Messages
    <3>1. CASE UNCHANGED <<seen, routed>>
      BY <3>1 DEF Sets
    <3>2. CASE \E B \in SUBSET Body : Deliver(B)
      BY <3>2, DeliverTypes
    <3>3. wire # <<>> /\ Head(wire) \in Frame /\ buffered \in SUBSET Body
      BY <1>1, Consumed DEF ReadFrame, Link
    <3>4. Head(wire).bodies \in SUBSET Body /\ Head(wire).bodies \cup buffered \in SUBSET Body
      BY <3>3 DEF Frame
    <3>5. QED
      BY <1>1, <3>1, <3>2, <3>4 DEF ReadFrame
  <2>2. UNCHANGED <<dbVars, bridgeVars, taken, countVars>>
    BY <1>1 DEF ReadFrame
  <2>3. QED
    BY <2>1, <2>2 DEF Sets, dbVars, bridgeVars, countVars
<1>2. CASE EndTurn \/ SettleAutonomous \/ RecoverOverRest \/ StartTurn \/ Restart
  <2>1. UNCHANGED <<committed, bridgeVars, skipped>> /\ seen' \in {seen, {}}
    BY <1>2 DEF EndTurn, SettleAutonomous, RecoverOverRest, StartTurn, Restart, clientVars,
                countVars, dbVars
  <2>2. routed' \in {{}, routed, routed \cup Unread} /\ taken' \in {taken, taken \cup routed}
    BY <1>2 DEF EndTurn, SettleAutonomous, RecoverOverRest, Settle, StartTurn, Restart
  <2>3. QED
    BY <2>1, <2>2 DEF Sets, Unread, bridgeVars
<1>3. CASE Tick \/ AgentPost \/ \E m \in Messages : FlushMessage(m)
  BY <1>3 DEF Tick, AgentPost, FlushMessage, dbVars, bridgeVars, clientVars, runnerVars, countVars, Sets
<1>4. ASSUME NEW m \in Messages, CommitMessage(m) \/ BroadcastArrives(m) \/ BroadcastLost(m)
      PROVE  Sets'
  BY <1>4 DEF CommitMessage, BroadcastArrives, BroadcastLost, dbVars, bridgeVars, clientVars,
              runnerVars, countVars, Sets
<1>5. CASE Connect \/ Disconnect \/ Select \/ Respond \/ Reconcile \/ UNCHANGED vars
  BY <1>5 DEF Connect, Disconnect, Select, Respond, Reconcile, vars, dbVars, bridgeVars, clientVars,
              runnerVars, countVars, Sets
<1>6. QED
  BY <1>1, <1>2, <1>3, <1>4, <1>5 DEF Next

\* A full outbox sheds instead of growing, and one answer at a time is on the wire.
LEMMA LinkStep ==
    ASSUME Types, [Next]_vars
    PROVE  Link'
<1> USE StreamAssumption DEF Types
<1>1. <<>> \in Seq(Frame) /\ <<>> \in Seq(Times) /\ <<>> \in Seq(SUBSET Body) /\ Len(<<>>) = 0
  OBVIOUS
<1>2. CASE ReadFrame
  <2>1. wire # <<>> /\ wire' = Tail(wire) /\ UNCHANGED <<requests, answer>>
    BY <1>2 DEF ReadFrame
  <2>2. Tail(wire) \in Seq(Frame) /\ Len(Tail(wire)) = Len(wire) - 1 /\ Head(wire) \in Frame
        /\ Len(wire) \in Nat
    BY <2>1, Consumed DEF Link
  <2>3. buffered' \in {{}, buffered, buffered \cup Head(wire).bodies}
    BY <1>2 DEF ReadFrame
  <2>4. buffered' \subseteq Body
    BY <2>2, <2>3 DEF Link, Frame
  <2>5. QED
    BY <2>1, <2>2, <2>4 DEF Link
<1>3. CASE AgentPost \/ \E m \in Messages : BroadcastArrives(m)
  <2>1. \E frame \in Frame : Enqueue(frame)
    <3>1. CASE AgentPost
      <4>1. now + 1 \in Times
        BY <3>1 DEF AgentPost, ClockTo, Clocks, Times
      <4>2. QED
        BY <3>1, <4>1, FrameTypes DEF AgentPost
    <3>2. QED
      BY <1>3, <3>1, FrameTypes DEF BroadcastArrives, Clocks
  <2>2. wire' \in Seq(Frame) /\ Len(wire') <= OutboxMax
    BY <2>1, EnqueueTypes
  <2>3. QED
    BY <1>3, <2>2 DEF AgentPost, BroadcastArrives, clientVars, Link
<1>4. CASE Respond
  <2>1. Head(answer) \in SUBSET Body
    BY <1>4 DEF Respond, Link
  <2>2. [type |-> "rows", bodies |-> Head(answer)] \in Frame
    BY <2>1, FrameTypes
  <2>3. wire' \in Seq(Frame) /\ Len(wire') <= OutboxMax
    BY <1>4, <2>2, EnqueueTypes DEF Respond
  <2>4. QED
    BY <1>1, <1>4, <2>3 DEF Respond, clientVars, Link
<1>5. CASE Select
  <2>1. Fetch(Head(requests)) \in SUBSET Body
    BY FetchTypes
  <2>2. <<Fetch(Head(requests))>> \in Seq(SUBSET Body) /\ Len(<<Fetch(Head(requests))>>) = 1
    BY <2>1
  <2>3. Tail(requests) \in Seq(Times)
    BY <1>5 DEF Select, Link
  <2>4. QED
    BY <1>5, <2>2, <2>3 DEF Select, clientVars, Link
<1>6. ASSUME wire' = <<>>, answer' = <<>>, requests' \in Seq(Times), buffered' \in {{}, buffered}
      PROVE  Link'
  <2>1. wire' \in Seq(Frame) /\ answer' \in Seq(SUBSET Body)
    BY <1>1, <1>6
  <2>2. Len(wire') <= OutboxMax /\ Len(answer') <= 1
    <3>1. Len(wire') = 0 /\ Len(answer') = 0
      BY <1>1, <1>6
    <3>2. QED
      BY <3>1
  <2>3. QED
    BY <1>6, <2>1, <2>2 DEF Link
<1>7. CASE Connect \/ Reconcile \/ Disconnect \/ Restart
  <2>1. <<watermark>> \in Seq(Times)
    BY DEF Clocks
  <2>2. CASE Connect
    BY <1>6, <2>1, <2>2 DEF Connect
  <2>3. CASE Reconcile
    BY <2>1, <2>3 DEF Reconcile, clientVars, Link
  <2>4. CASE Disconnect \/ Restart
    BY <1>1, <1>6, <2>4 DEF Disconnect, Restart, CloseLink, clientVars
  <2>5. QED
    BY <1>7, <2>2, <2>3, <2>4
<1>8. ASSUME UNCHANGED <<linkVars, clientVars>>
      PROVE  Link'
  BY <1>8 DEF linkVars, clientVars, Link
<1>9. CASE Tick \/ StartTurn \/ EndTurn \/ SettleAutonomous \/ RecoverOverRest \/ UNCHANGED vars
  BY <1>8, <1>9 DEF Tick, StartTurn, EndTurn, SettleAutonomous, RecoverOverRest, vars
<1>10. CASE \E m \in Messages : FlushMessage(m) \/ CommitMessage(m) \/ BroadcastLost(m)
  BY <1>8, <1>10 DEF FlushMessage, CommitMessage, BroadcastLost
<1>11. QED
  BY <1>2, <1>3, <1>4, <1>5, <1>7, <1>9, <1>10 DEF Next

\* The flags stay flags.
LEMMA FlagsStep ==
    ASSUME Flags, [Next]_vars
    PROVE  Flags'
<1> USE DEF Flags
<1>1. ASSUME NEW frame, Enqueue(frame)
      PROVE  shed' \in BOOLEAN
  BY <1>1 DEF Enqueue
<1>2. CASE ReadFrame
  BY <1>2 DEF ReadFrame
<1>3. CASE Respond \/ AgentPost \/ \E m \in Messages : BroadcastArrives(m)
  BY <1>1, <1>3 DEF Respond, AgentPost, BroadcastArrives, clientVars, runnerVars
<1>4. CASE EndTurn \/ SettleAutonomous \/ RecoverOverRest \/ StartTurn \/ Restart
  BY <1>4 DEF EndTurn, SettleAutonomous, RecoverOverRest, StartTurn, Restart, CloseLink, linkVars,
              clientVars
<1>5. CASE \E m \in Messages : FlushMessage(m) \/ CommitMessage(m) \/ BroadcastLost(m)
  BY <1>5 DEF FlushMessage, CommitMessage, BroadcastLost, linkVars, clientVars, runnerVars
<1>6. CASE Tick \/ Connect \/ Disconnect \/ Select \/ Reconcile \/ UNCHANGED vars
  BY <1>6 DEF Tick, Connect, Disconnect, CloseLink, Select, Reconcile, vars, linkVars, clientVars,
              runnerVars
<1>7. QED
  BY <1>2, <1>3, <1>4, <1>5, <1>6 DEF Next

\* Faults are counted up to the bound.
LEMMA FaultsStep ==
    ASSUME Faults, [Next]_vars
    PROVE  Faults'
<1> USE StreamAssumption DEF Faults
<1>1. CASE Disconnect \/ Restart
  BY <1>1 DEF Disconnect, Restart
<1>2. CASE UNCHANGED faults
  BY <1>2
<1>3. ASSUME NEW m \in Messages,
             FlushMessage(m) \/ CommitMessage(m) \/ BroadcastArrives(m) \/ BroadcastLost(m)
      PROVE  UNCHANGED faults
  BY <1>3 DEF FlushMessage, CommitMessage, BroadcastArrives, BroadcastLost, countVars
<1>4. CASE Tick \/ AgentPost \/ Connect \/ Select \/ Respond \/ Reconcile \/ ReadFrame
           \/ UNCHANGED vars
  BY <1>2, <1>4 DEF Tick, AgentPost, Connect, Select, Respond, Reconcile, ReadFrame, vars, countVars
<1>5. CASE StartTurn \/ EndTurn \/ SettleAutonomous \/ RecoverOverRest
  BY <1>2, <1>5 DEF StartTurn, EndTurn, SettleAutonomous, RecoverOverRest, countVars
<1>6. QED
  BY <1>1, <1>2, <1>3, <1>4, <1>5 DEF Next

\* Only a delivery hands messages on, and it knows those it handed on before.
LEMMA HandedStep ==
    ASSUME Handed, [Next]_vars
    PROVE  Handed'
<1> USE DEF Handed
<1>1. ASSUME UNCHANGED <<callbacks, seen>>
      PROVE  Handed'
  BY <1>1
<1>2. CASE ReadFrame
  <2>1. ASSUME NEW B, Deliver(B)
        PROVE  Handed'
    <3> DEFINE fresh == {b.id : b \in B} \ (seen \cup {None})
    <3>1. /\ seen' = seen \cup fresh
          /\ callbacks' = [m \in Messages |-> IF m \in fresh THEN callbacks[m] + 1 ELSE callbacks[m]]
      BY <2>1 DEF Deliver
    <3>2. \A m \in fresh : m \notin seen
      OBVIOUS
    <3> HIDE DEF fresh
    <3>3. QED
      BY <3>1, <3>2
  <2>2. QED
    BY <1>1, <1>2, <2>1 DEF ReadFrame
<1>3. CASE Restart
  BY <1>3 DEF Restart
<1>4. ASSUME NEW m \in Messages,
             FlushMessage(m) \/ CommitMessage(m) \/ BroadcastArrives(m) \/ BroadcastLost(m)
      PROVE  Handed'
  BY <1>1, <1>4 DEF FlushMessage, CommitMessage, BroadcastArrives, BroadcastLost, clientVars
<1>5. CASE Tick \/ AgentPost \/ Connect \/ Disconnect \/ Select \/ Respond \/ Reconcile
           \/ UNCHANGED vars
  BY <1>1, <1>5 DEF Tick, AgentPost, Connect, Disconnect, Select, Respond, Reconcile, vars, clientVars
<1>6. CASE StartTurn \/ EndTurn \/ SettleAutonomous \/ RecoverOverRest
  BY <1>1, <1>6 DEF StartTurn, EndTurn, SettleAutonomous, RecoverOverRest, clientVars
<1>7. QED
  BY <1>2, <1>3, <1>4, <1>5, <1>6 DEF Next

-----------------------------------------------------------------------------
(* Time and the fetch.                                                     *)

\* A frame is appended, or an open connection is shed.
LEMMA EnqueueFacts ==
    ASSUME Link, NEW frame \in Frame, Enqueue(frame)
    PROVE  \/ wire' = wire /\ (shed' = shed \/ shed' = TRUE) /\ (up => shed')
           \/ /\ up /\ ~shed /\ shed' = shed /\ Len(wire) \in Nat
              /\ DOMAIN wire = 1 .. Len(wire) /\ DOMAIN wire' = 1 .. Len(wire) + 1
              /\ \A i \in 1 .. Len(wire) : wire'[i] = wire[i]
              /\ wire'[Len(wire) + 1] = frame
<1>1. CASE UNCHANGED wire
  BY <1>1 DEF Enqueue
<1>2. CASE wire' = Append(wire, frame) /\ up /\ ~shed /\ UNCHANGED shed
  BY <1>2, Appended DEF Link
<1>3. QED
  BY <1>1, <1>2 DEF Enqueue

\* Enqueuing a frame adds at most that frame.
LEMMA EnqueueAdds ==
    ASSUME Link, NEW frame \in Frame, Enqueue(frame)
    PROVE  \A i \in DOMAIN wire' : (i \in DOMAIN wire /\ wire'[i] = wire[i]) \/ wire'[i] = frame
<1>1. CASE wire' = wire
  BY <1>1
<1>2. CASE /\ Len(wire) \in Nat
           /\ DOMAIN wire = 1 .. Len(wire) /\ DOMAIN wire' = 1 .. Len(wire) + 1
           /\ \A i \in 1 .. Len(wire) : wire'[i] = wire[i]
           /\ wire'[Len(wire) + 1] = frame
  <2>1. \A i \in 1 .. Len(wire) + 1 : i \in 1 .. Len(wire) \/ i = Len(wire) + 1
    BY <1>2
  <2>2. QED
    BY <1>2, <2>1
<1>3. QED
  BY <1>1, <1>2, EnqueueFacts

\* The bodies of the frames of a wire.
LEMMA WireBodies ==
    ASSUME NEW s \in Seq(Frame)
    PROVE  \A i \in DOMAIN s : s[i] \in Frame /\ \A b \in s[i].bodies : b.at \in Nat
<1>1. \A i \in DOMAIN s : s[i] \in Frame
  <2> HIDE DEF Frame
  <2> QED
    OBVIOUS
<1>2. \A frame \in Frame : \A b \in frame.bodies : b.at \in Nat
  BY StreamAssumption DEF Frame, Body, Times
<1>3. QED
  BY <1>1, <1>2

\* What a frame that is read does.
LEMMA ReadFacts ==
    ASSUME Types, ReadFrame
    PROVE  /\ wire # <<>> /\ wire' = Tail(wire)
           /\ Len(wire) \in Nat \ {0} /\ DOMAIN wire = 1 .. Len(wire)
           /\ DOMAIN wire' = 1 .. Len(wire) - 1
           /\ \A i \in 1 .. Len(wire) - 1 : wire'[i] = wire[i + 1]
           /\ wire[1] \in Frame /\ wire[1].bodies \in SUBSET Body /\ buffered \in SUBSET Body
           /\ \/ /\ wire[1].type = "rows" /\ Deliver(wire[1].bodies \cup buffered)
                 /\ buffered' = {} /\ fetchDone'
              \/ /\ wire[1].type = "live" /\ fetchDone /\ Deliver(wire[1].bodies)
                 /\ UNCHANGED <<buffered, fetchDone>>
              \/ /\ wire[1].type = "live" /\ ~fetchDone
                 /\ buffered' = buffered \cup wire[1].bodies
                 /\ UNCHANGED <<watermark, seen, callbacks, routed, fetchDone>>
<1>1. wire \in Seq(Frame) /\ wire # <<>> /\ wire' = Tail(wire) /\ buffered \in SUBSET Body
  BY DEF Types, Link, ReadFrame
<1>2. /\ Len(wire) \in Nat \ {0} /\ DOMAIN wire = 1 .. Len(wire)
      /\ DOMAIN wire' = 1 .. Len(wire) - 1
      /\ \A i \in 1 .. Len(wire) - 1 : wire'[i] = wire[i + 1]
      /\ Head(wire) = wire[1] /\ wire[1] \in Frame
  BY <1>1, Consumed
<1>3. wire[1].bodies \in SUBSET Body
  BY <1>2 DEF Frame
<1>4. QED
  BY <1>1, <1>2, <1>3 DEF ReadFrame

\* A step that moves the clock by one dates nothing later; the others date nothing.
LEMMA PastStep ==
    ASSUME Types, Past, [Next]_vars
    PROVE  Past'
<1>0. /\ now \in Nat /\ lastRead \in Nat /\ watermark \in Nat
      /\ \A m \in Messages : created[m] \in Nat
      /\ \A b \in Body : b.at \in Nat
      /\ 0 \in Times
  BY StreamAssumption DEF Types, Clocks, Times, Body
<1>1. ASSUME now' = now + 1,
             UNCHANGED <<committed, bridge, watermark, answer, buffered>>,
             \A m \in Messages : created'[m] \in {created[m], now + 1} /\ (m \in committed => created'[m] # 0),
             lastRead' \in {lastRead, now + 1},
             \A i \in DOMAIN wire' : \A b \in wire'[i].bodies : b.at <= now \/ b.at = now + 1
      PROVE  Past'
  <2>1. \A i \in DOMAIN answer : \A b \in answer[i] : b \in Body
    BY DEF Types, Link
  <2>2. \A b \in buffered : b \in Body
    BY DEF Types, Link
  <2>3. /\ watermark' <= now' /\ lastRead' <= now'
        /\ \A m \in Messages : created'[m] <= now'
    BY <1>0, <1>1 DEF Past
  <2>4. bridge' \subseteq committed' /\ \A m \in committed' : created'[m] # 0
    BY <1>1 DEF Past, Types, Sets
  <2>5. \A i \in DOMAIN answer' : \A b \in answer'[i] : b.at <= now'
    BY <1>0, <1>1, <2>1 DEF Past
  <2>6. \A b \in buffered' : b.at <= now'
    BY <1>0, <1>1, <2>2 DEF Past
  <2>7. \A i \in DOMAIN wire' : \A b \in wire'[i].bodies : b.at <= now'
    <3>1. \A i \in DOMAIN wire' : \A b \in wire'[i].bodies : b.at \in Int
      <4>1. wire' \in Seq(Frame)
        BY LinkStep DEF Link
      <4>2. QED
        BY <4>1, WireBodies
    <3>2. QED
      BY <1>0, <1>1, <3>1
  <2>8. QED
    BY <2>3, <2>4, <2>5, <2>6, <2>7 DEF Past
<1>2. CASE Tick
  BY <1>1, <1>2 DEF Tick, ClockTo, Past, dbVars, bridgeVars, linkVars, clientVars, Types, Sets
<1>3. ASSUME NEW m \in Messages, FlushMessage(m)
      PROVE  Past'
  <2>1. \A k \in Messages : created'[k] \in {created[k], now + 1} /\ (k \in committed => created'[k] # 0)
    BY <1>0, <1>3 DEF FlushMessage, Past, Types, Clocks
  <2>2. QED
    BY <1>1, <1>3, <2>1 DEF FlushMessage, ClockTo, Past, bridgeVars, linkVars, clientVars
<1>4. CASE AgentPost
  <2>1. now + 1 \in Times
    BY <1>4 DEF AgentPost, ClockTo, Types, Clocks, Times
  <2>2. Live(Echo(now + 1)) \in Frame /\ Live(Echo(now + 1)).bodies = {Echo(now + 1)}
        /\ Echo(now + 1).at = now + 1
    BY <2>1, FrameTypes DEF Live, Echo
  <2>3. \A i \in DOMAIN wire' : \A b \in wire'[i].bodies : b.at <= now \/ b.at = now + 1
    <3>1. \A i \in DOMAIN wire' : (i \in DOMAIN wire /\ wire'[i] = wire[i]) \/ wire'[i] = Live(Echo(now + 1))
      BY <1>4, <2>2, EnqueueAdds DEF AgentPost, Types
    <3>2. QED
      BY <2>2, <3>1 DEF Past
  <2>4. QED
    BY <1>1, <1>4, <2>3 DEF AgentPost, ClockTo, Past, bridgeVars, clientVars, Types, Sets
<1>5. ASSUME NEW m \in Messages, BroadcastArrives(m)
      PROVE  Past'
  <2>1. /\ Live(Row(m)) \in Frame /\ Live(Row(m)).bodies = {Row(m)} /\ Row(m).at = created[m]
    BY FrameTypes DEF Live, Row, Types, Clocks
  <2>2. \A i \in DOMAIN wire' : (i \in DOMAIN wire /\ wire'[i] = wire[i]) \/ wire'[i] = Live(Row(m))
    BY <1>5, <2>1, EnqueueAdds DEF BroadcastArrives, Types
  <2>3. \A i \in DOMAIN wire' : \A b \in wire'[i].bodies : b.at <= now
    BY <2>1, <2>2 DEF Past
  <2>4. QED
    BY <1>5, <2>3 DEF BroadcastArrives, Past, dbVars, clientVars
<1>6. ASSUME NEW m \in Messages, CommitMessage(m) \/ BroadcastLost(m)
      PROVE  Past'
  BY <1>6 DEF CommitMessage, BroadcastLost, Past, dbVars, linkVars, clientVars
<1>7. CASE Connect \/ Disconnect
  BY <1>7 DEF Connect, Disconnect, CloseLink, Past, dbVars, bridgeVars, clientVars
<1>8. CASE Select
  <2>1. Fetch(Head(requests)) \subseteq {Row(m) : m \in committed}
    BY FetchTypes DEF Types
  <2>2. \A b \in Fetch(Head(requests)) : b.at <= now
    BY <2>1 DEF Row, Past, Types, Sets
  <2>3. answer' = <<Fetch(Head(requests))>>
    BY <1>8 DEF Select
  <2>4. \A i \in DOMAIN answer' : answer'[i] = Fetch(Head(requests))
    BY <2>3
  <2>5. QED
    BY <1>8, <2>2, <2>4 DEF Select, Past, dbVars, bridgeVars, clientVars
<1>9. CASE Respond
  <2>1. Head(answer) \in SUBSET Body /\ 1 \in DOMAIN answer /\ Head(answer) = answer[1]
    BY <1>9 DEF Respond, Types, Link
  <2> DEFINE frame == [type |-> "rows", bodies |-> Head(answer)]
  <2>2. frame \in Frame /\ frame.bodies = answer[1]
    BY <2>1, FrameTypes
  <2>3. \A i \in DOMAIN wire' : (i \in DOMAIN wire /\ wire'[i] = wire[i]) \/ wire'[i] = frame
    BY <1>9, <2>2, EnqueueAdds DEF Respond, Types
  <2> HIDE DEF frame
  <2>4. \A i \in DOMAIN wire' : \A b \in wire'[i].bodies : b.at <= now
    BY <2>1, <2>2, <2>3 DEF Past
  <2>5. QED
    BY <1>9, <2>4 DEF Respond, Past, dbVars, bridgeVars, clientVars
<1>10. CASE Reconcile
  BY <1>10 DEF Reconcile, Past, dbVars, bridgeVars, clientVars
<1>11. CASE ReadFrame
  <2>1. UNCHANGED <<dbVars, bridgeVars, answer>>
    BY <1>11 DEF ReadFrame
  <2>2. \A i \in DOMAIN wire' : \A b \in wire'[i].bodies : b.at <= now
    BY <1>11, ReadFacts DEF Past
  <2>3. \A b \in wire[1].bodies \cup buffered : b.at <= now
    BY <1>11, ReadFacts DEF Past
  <2>4. \A b \in buffered' : b.at <= now
    BY <1>11, <2>3, ReadFacts
  <2>5. watermark' <= now
    <3>1. CASE UNCHANGED watermark
      BY <3>1 DEF Past
    <3>2. ASSUME NEW B \in SUBSET Body, Deliver(B), B \subseteq wire[1].bodies \cup buffered
          PROVE  watermark' <= now
      BY <2>3, <3>2, DeliverTypes DEF Types, Past
    <3>3. QED
      BY <1>11, <3>1, <3>2, ReadFacts
  <2>6. QED
    BY <2>1, <2>2, <2>4, <2>5 DEF Past, dbVars, bridgeVars
<1>12. CASE EndTurn \/ SettleAutonomous \/ RecoverOverRest
  <2>1. lastRead' = lastRead \/ ReadTail
    BY <1>12 DEF EndTurn, SettleAutonomous, RecoverOverRest, Settle
  <2>2. lastRead' <= now
    BY <2>1, ReadTailTypes DEF Types, Past
  <2>3. QED
    BY <1>12, <2>2 DEF EndTurn, SettleAutonomous, RecoverOverRest, Past, bridgeVars, linkVars, clientVars
<1>13. CASE StartTurn \/ UNCHANGED vars
  BY <1>13 DEF StartTurn, vars, Past, dbVars, bridgeVars, linkVars, clientVars
<1>14. CASE Restart
  BY <1>0, <1>14 DEF Restart, CloseLink, Past, dbVars, bridgeVars
<1>15. QED
  BY <1>2, <1>3, <1>4, <1>5, <1>6, <1>7, <1>8, <1>9, <1>10, <1>11, <1>12, <1>13, <1>14 DEF Next

\* The clock waits for the transactions and the broadcasts under way.
LEMMA OnTimeStep ==
    ASSUME Types, Past, OnTime, [Next]_vars
    PROVE  OnTime'
<1> USE DEF OnTime, Timely
<1>0. now \in Nat /\ Window \in Nat
  BY StreamAssumption DEF Types, Clocks, Times
<1>1. CASE Tick \/ AgentPost
  BY <1>1 DEF Tick, AgentPost, ClockTo, bridgeVars
<1>2. ASSUME NEW m \in Messages, FlushMessage(m)
      PROVE  OnTime'
  <2>1. /\ \A k \in Messages : created'[k] = IF k = m THEN now + 1 ELSE created[k]
        /\ now' = now + 1 /\ Timely(now + 1) /\ UNCHANGED <<committed, bridge>>
    BY <1>2 DEF FlushMessage, ClockTo, bridgeVars, Types, Clocks
  <2>2. QED
    BY <1>0, <2>1
<1>3. ASSUME NEW m \in Messages, CommitMessage(m) \/ BroadcastArrives(m) \/ BroadcastLost(m)
      PROVE  OnTime'
  BY <1>3 DEF CommitMessage, BroadcastArrives, BroadcastLost, dbVars
<1>4. CASE Connect \/ Disconnect \/ Select \/ Respond \/ Reconcile \/ ReadFrame \/ StartTurn
           \/ UNCHANGED vars
  BY <1>4 DEF Connect, Disconnect, Select, Respond, Reconcile, ReadFrame, StartTurn, vars, dbVars,
              bridgeVars
<1>5. CASE EndTurn \/ SettleAutonomous \/ RecoverOverRest \/ Restart
  BY <1>5 DEF EndTurn, SettleAutonomous, RecoverOverRest, Restart, dbVars, bridgeVars
<1>6. QED
  BY <1>1, <1>2, <1>3, <1>4, <1>5 DEF Next

\* One request, one answer or one response at a time.
LEMMA OneFetchStep ==
    ASSUME Types, OneFetch, [Next]_vars
    PROVE  OneFetch'
<1>0. Len(<<>>) = 0 /\ DOMAIN <<>> = {} /\ watermark \in Nat
  <2>1. Len(<<>>) = 0 /\ DOMAIN <<>> = {}
    OBVIOUS
  <2>2. QED
    BY <2>1, StreamAssumption DEF Types, Clocks, Times
<1>1. ASSUME UNCHANGED <<requests, answer, watermark, buffered, fetchDone>>,
             \A i \in DOMAIN wire' : (i \in DOMAIN wire /\ wire'[i] = wire[i]) \/ wire'[i].type = "live"
      PROVE  OneFetch'
  <2>1. \A i \in DOMAIN wire' : wire'[i].type = "rows" => i \in DOMAIN wire /\ wire'[i] = wire[i]
    BY <1>1
  <2>2. QED
    BY <1>1, <2>1 DEF OneFetch
<1>2. CASE AgentPost
  <2>1. now + 1 \in Times
    BY <1>2, StreamAssumption DEF AgentPost, ClockTo, Types, Clocks, Times
  <2>2. Live(Echo(now + 1)) \in Frame /\ Live(Echo(now + 1)).type = "live"
    BY <2>1, FrameTypes DEF Live
  <2>3. \A i \in DOMAIN wire' : (i \in DOMAIN wire /\ wire'[i] = wire[i]) \/ wire'[i].type = "live"
    BY <1>2, <2>2, EnqueueAdds DEF AgentPost, Types
  <2>4. QED
    BY <1>1, <1>2, <2>3 DEF AgentPost, clientVars
<1>3. ASSUME NEW m \in Messages, BroadcastArrives(m)
      PROVE  OneFetch'
  <2>1. Live(Row(m)) \in Frame /\ Live(Row(m)).type = "live"
    BY FrameTypes DEF Live, Types, Clocks
  <2>2. \A i \in DOMAIN wire' : (i \in DOMAIN wire /\ wire'[i] = wire[i]) \/ wire'[i].type = "live"
    BY <1>3, <2>1, EnqueueAdds DEF BroadcastArrives, Types
  <2>3. QED
    BY <1>1, <1>3, <2>2 DEF BroadcastArrives, clientVars
<1>4. CASE Connect
  <2>1. /\ requests' = <<watermark>> /\ answer' = <<>> /\ wire' = <<>> /\ buffered' = {}
        /\ UNCHANGED watermark
    BY <1>4 DEF Connect
  <2>2. Len(<<watermark>>) = 1 /\ Head(<<watermark>>) = watermark /\ <<watermark>> # <<>>
    OBVIOUS
  <2>3. QED
    BY <1>0, <2>1, <2>2 DEF OneFetch
<1>5. CASE Reconcile
  <2>1. /\ requests' = <<watermark>> /\ answer = <<>>
        /\ \A i \in DOMAIN wire : wire[i].type # "rows"
        /\ UNCHANGED <<answer, wire, watermark, buffered, fetchDone>>
    BY <1>5 DEF Reconcile, clientVars
  <2>2. Len(<<watermark>>) = 1 /\ Head(<<watermark>>) = watermark /\ <<watermark>> # <<>>
    OBVIOUS
  <2>3. QED
    BY <1>0, <2>1, <2>2 DEF OneFetch
<1>6. CASE Disconnect \/ Restart
  <2>1. /\ requests' = <<>> /\ answer' = <<>> /\ wire' = <<>>
        /\ (buffered' = {} \/ UNCHANGED <<buffered, fetchDone>>)
    BY <1>6 DEF Disconnect, Restart, CloseLink, clientVars
  <2>2. QED
    BY <1>0, <2>1 DEF OneFetch
<1>7. CASE Select
  <2>1. requests \in Seq(Times) /\ requests # <<>> /\ Len(requests) <= 1 /\ requests' = Tail(requests)
    BY <1>7 DEF Select, OneFetch, Types, Link
  <2>2. requests' = <<>>
    BY <2>1
  <2>3. UNCHANGED <<wire, buffered, fetchDone>>
    BY <1>7 DEF Select, clientVars
  <2>4. QED
    BY <1>0, <2>1, <2>2, <2>3 DEF OneFetch
<1>8. CASE Respond
  <2>1. answer # <<>> /\ requests = <<>> /\ \A i \in DOMAIN wire : wire[i].type # "rows"
    BY <1>8 DEF Respond, OneFetch
  <2>2. answer' = <<>> /\ requests' = <<>> /\ UNCHANGED <<watermark, buffered, fetchDone>>
    BY <1>8, <2>1 DEF Respond, clientVars
  <2>3. \A i, j \in DOMAIN wire' : wire'[i].type = "rows" /\ wire'[j].type = "rows" => i = j
    <3> DEFINE frame == [type |-> "rows", bodies |-> Head(answer)]
    <3>1. Head(answer) \in SUBSET Body
      BY <1>8 DEF Respond, Types, Link
    <3>2. frame \in Frame /\ Enqueue(frame) /\ Link
      BY <1>8, <3>1, FrameTypes DEF Respond, Types
    <3> HIDE DEF frame
    <3>3. \/ wire' = wire
          \/ /\ Len(wire) \in Nat
             /\ DOMAIN wire = 1 .. Len(wire) /\ DOMAIN wire' = 1 .. Len(wire) + 1
             /\ \A i \in 1 .. Len(wire) : wire'[i] = wire[i]
      BY <3>2, EnqueueFacts
    <3>4. \A i \in DOMAIN wire' : wire'[i].type = "rows" => i = Len(wire) + 1
      BY <2>1, <3>3
    <3>5. QED
      BY <3>4
  <2>4. QED
    BY <1>0, <2>2, <2>3 DEF OneFetch
<1>9. CASE ReadFrame
  <2>1. UNCHANGED <<requests, answer>>
    BY <1>9 DEF ReadFrame
  <2>2. \A i \in DOMAIN wire' : i + 1 \in DOMAIN wire /\ wire'[i] = wire[i + 1]
    BY <1>9, ReadFacts
  <2>3. \A i \in DOMAIN wire' : i \in Nat
    BY <1>9, ReadFacts
  <2>4. /\ \A i, j \in DOMAIN wire' : wire'[i].type = "rows" /\ wire'[j].type = "rows" => i = j
        /\ requests # <<>> \/ answer # <<>> => \A i \in DOMAIN wire' : wire'[i].type # "rows"
    BY <2>2, <2>3 DEF OneFetch
  <2>5. watermark <= watermark' /\ watermark' \in Nat
    <3>1. CASE UNCHANGED watermark
      BY <1>0, <3>1
    <3>2. ASSUME NEW B \in SUBSET Body, Deliver(B)
          PROVE  watermark <= watermark' /\ watermark' \in Nat
      BY <3>2, DeliverTypes, StreamAssumption DEF Types, Times
    <3>3. QED
      BY <1>9, <3>1, <3>2, ReadFacts
  <2>6. fetchDone' => buffered' = {}
    BY <1>9, ReadFacts DEF OneFetch
  <2>7. requests # <<>> => Head(requests) \in Nat /\ Head(requests) <= watermark
    <3>1. requests # <<>> => Head(requests) \in Times
      BY DEF Types, Link
    <3>2. QED
      BY <3>1, StreamAssumption DEF Times, OneFetch
  <2>8. requests # <<>> => Head(requests) <= watermark'
    BY <1>0, <2>5, <2>7
  <2>9. QED
    BY <2>1, <2>4, <2>6, <2>8 DEF OneFetch
<1>10. CASE Tick \/ StartTurn \/ EndTurn \/ SettleAutonomous \/ RecoverOverRest \/ UNCHANGED vars
  BY <1>10 DEF Tick, StartTurn, EndTurn, SettleAutonomous, RecoverOverRest, vars, linkVars, clientVars,
               OneFetch
<1>11. CASE \E m \in Messages : FlushMessage(m) \/ CommitMessage(m) \/ BroadcastLost(m)
  BY <1>11 DEF FlushMessage, CommitMessage, BroadcastLost, linkVars, clientVars, OneFetch
<1>12. QED
  BY <1>2, <1>3, <1>4, <1>5, <1>6, <1>7, <1>8, <1>9, <1>10, <1>11 DEF Next

-----------------------------------------------------------------------------
(* What is missing stays in reach.                                         *)

\* A step that leaves the connection and the client alone.
LEMMA QuietStep ==
    ASSUME NEW m \in Messages, Held(m), created'[m] = created[m],
           UNCHANGED <<up, shed, wire, answer, watermark, buffered, fetchDone>>
    PROVE  Held(m)'
  BY DEF Held, InReach, Tracked, Behind, Brings, Carries, Late

\* Another row is broadcast, or the agent's row is echoed, behind what is on the wire.
LEMMA LiveStep ==
    ASSUME Types, NEW m \in Messages, Held(m), NEW frame \in Frame, frame.type = "live",
           Enqueue(frame), created'[m] = created[m],
           UNCHANGED <<up, answer, watermark, buffered, fetchDone>>
    PROVE  Held(m)'
<1>1. (watermark # 0 => InReach(m))'
  BY DEF Held, InReach
<1>2. SUFFICES ASSUME up
               PROVE  Tracked(m)' /\ Behind(m)'
  BY <1>1 DEF Held
<1>3. Tracked(m) /\ Behind(m)
  BY <1>2 DEF Held
<1>4. CASE wire' = wire /\ shed'
  BY <1>3, <1>4 DEF Tracked, Behind, Brings, Late, Carries
<1>5. CASE /\ ~shed /\ shed' = shed /\ Len(wire) \in Nat
           /\ DOMAIN wire = 1 .. Len(wire) /\ DOMAIN wire' = 1 .. Len(wire) + 1
           /\ \A i \in 1 .. Len(wire) : wire'[i] = wire[i]
           /\ wire'[Len(wire) + 1] = frame
  <2>1. \A i \in 1 .. Len(wire) + 1 : i \in 1 .. Len(wire) \/ i = Len(wire) + 1
    BY <1>5
  <2>2. Brings(m) => Brings(m)'
    BY <1>5, <2>1 DEF Brings, Carries
  <2>3. Tracked(m)'
    BY <1>3, <1>5, <2>2 DEF Tracked, Carries
  <2>4. Brings(m) \/ Carries(buffered, m) \/ \E j \in 1 .. Len(wire) : Carries(wire[j].bodies, m)
    BY <1>3, <1>5 DEF Tracked
  <2>5. ASSUME NEW i \in 1 .. Len(wire) + 1, Late(wire'[i].bodies, m)
        PROVE  \/ Carries(buffered, m) \/ Brings(m)
               \/ \E j \in 1 .. Len(wire) : j <= i /\ Carries(wire[j].bodies, m)
    <3>1. CASE i \in 1 .. Len(wire)
      BY <1>3, <1>5, <2>5, <3>1 DEF Behind
    <3>2. CASE i = Len(wire) + 1
      BY <1>5, <2>4, <3>2
    <3>3. QED
      BY <2>1, <3>1, <3>2
  <2>6. Behind(m)'
    <3>1. (Late(buffered, m) => Carries(buffered, m) \/ Brings(m))'
      BY <1>3, <2>2 DEF Behind, Late, Carries
    <3>2. SUFFICES ASSUME NEW i \in 1 .. Len(wire) + 1, Late(wire'[i].bodies, m)
                   PROVE  \/ Carries(buffered, m) \/ Brings(m)'
                          \/ \E j \in DOMAIN wire' : j <= i /\ Carries(wire'[j].bodies, m)
      BY <1>5, <3>1 DEF Behind, Late, Carries
    <3>3. QED
      BY <1>5, <2>2, <2>5, <3>2
  <2>7. QED
    BY <2>3, <2>6
<1>6. QED
  BY <1>2, <1>4, <1>5, EnqueueFacts DEF Types

\* A message whose broadcast arrives: nothing is late for it yet.
LEMMA FirstBroadcast ==
    ASSUME Types, Past, OnTime, NEW m \in Messages, BroadcastArrives(m)
    PROVE  Held(m)'
<1>1. now <= created[m] + Window /\ now \in Nat /\ created[m] + Window \in Nat /\ watermark \in Nat
  BY StreamAssumption DEF BroadcastArrives, Past, OnTime, Timely, Types, Clocks, Times
<1>2. Past' /\ now' = now /\ created' = created
  BY PastStep DEF BroadcastArrives, dbVars, Next
<1>3. InReach(m)'
  BY <1>1, <1>2 DEF BroadcastArrives, clientVars, Past, InReach
<1>4. \A i \in DOMAIN wire' : \A b \in wire'[i].bodies : b.at \in Nat
  <2>1. wire' \in Seq(Frame)
    BY LinkStep DEF Link, Next
  <2>2. QED
    BY <2>1, WireBodies
<1>5. \A b \in buffered' : b.at \in Nat
  BY LinkStep, StreamAssumption DEF Link, Next, Body, Times
<1>6. Behind(m)'
  <2>1. \A i \in DOMAIN wire' : ~ \E b \in wire'[i].bodies : b.at > created'[m] + Window
    BY <1>1, <1>2, <1>4 DEF Past
  <2>2. ~ Late(buffered, m)'
    BY <1>1, <1>2, <1>5 DEF Past, Late
  <2>3. QED
    BY <2>1, <2>2 DEF Behind, Late
<1>7. up' => Tracked(m)'
  <2>1. Live(Row(m)) \in Frame /\ Enqueue(Live(Row(m))) /\ up' = up
    BY FrameTypes DEF Types, Clocks, BroadcastArrives
  <2>2. Carries(Live(Row(m)).bodies, m)
    BY DEF Carries, Live, Row
  <2>3. CASE up => shed'
    BY <2>1, <2>3 DEF Tracked
  <2>4. CASE Len(wire) \in Nat /\ DOMAIN wire' = 1 .. Len(wire) + 1 /\ wire'[Len(wire) + 1] = Live(Row(m))
    BY <2>2, <2>4 DEF Tracked, Carries
  <2>5. QED
    BY <2>1, <2>3, <2>4, EnqueueFacts DEF Types
<1>8. QED
  BY <1>3, <1>6, <1>7 DEF Held

\* A page holds all the rows that are asked for.
LEMMA FetchAll ==
    ASSUME FitsInPage, Types, NEW m \in committed, NEW after,
           IF after = 0 THEN created[m] > lastRead ELSE created[m] + Window >= after
    PROVE  Row(m) \in Fetch(after)
<1> DEFINE asked == {x \in committed : IF after = 0 THEN created[x] > lastRead
                                                    ELSE created[x] + Window >= after}
           rows == {Row(x) : x \in asked}
           all == {Row(x) : x \in Messages}
           upTo == {x \in rows : x.at <= Row(m).at}
           f == [x \in Messages |-> Row(x)]
<1>1. IsFiniteSet(all) /\ Cardinality(all) <= Cardinality(Messages)
  <2>1. f \in Surjection(Messages, all)
    BY DEF Surjection
  <2> HIDE DEF all, f
  <2>2. QED
    BY <2>1, FS_Surjection DEF FitsInPage
<1>2. upTo \in SUBSET all
  BY DEF Types, Sets
<1>3. IsFiniteSet(upTo) /\ Cardinality(upTo) <= Cardinality(all)
  <2> HIDE DEF upTo, all
  <2>1. QED
    BY <1>1, <1>2, FS_Subset
<1>4. Cardinality(upTo) <= PageLimit
  <2>1. /\ Cardinality(upTo) \in Nat /\ Cardinality(all) \in Nat /\ Cardinality(Messages) \in Nat
    <3> HIDE DEF upTo, all
    <3>1. QED
      BY <1>1, <1>3, FS_CardinalityType DEF FitsInPage
  <2> HIDE DEF upTo, all
  <2>2. QED
    BY <1>1, <1>3, <2>1, StreamAssumption DEF FitsInPage
<1>5. Row(m) \in rows
  OBVIOUS
<1>6. Fetch(after) = {r \in rows : Cardinality({x \in rows : x.at <= r.at}) <= PageLimit}
  BY DEF Fetch, Page
<1>7. QED
  BY <1>4, <1>5, <1>6

\* The answer to the first request has m, unless the cursor passed over m.
LEMMA SelectStep ==
    ASSUME FitsInPage, Types, Past, OneFetch, NEW m \in Messages, Missing(m), Held(m),
           Select, m \notin skipped'
    PROVE  Held(m)'
<1>1. /\ up /\ requests # <<>> /\ answer' = <<Fetch(Head(requests))>>
      /\ UNCHANGED <<created, up, shed, wire, watermark, buffered, fetchDone>>
      /\ skipped' = IF Head(requests) = 0
                    THEN skipped \cup {x \in Messages : created[x] \in 1 .. lastRead} ELSE skipped
  BY DEF Select, dbVars, clientVars
<1>2. /\ Head(requests) \in Nat /\ Head(requests) <= watermark
      /\ watermark \in Nat /\ created[m] \in Nat \ {0} /\ Window \in Nat /\ lastRead \in Nat
      /\ m \in committed
  <2>1. Head(requests) \in Times
    BY <1>1 DEF Types, Link
  <2>2. QED
    BY <1>1, <2>1, StreamAssumption DEF OneFetch, Types, Clocks, Times, Missing, Past
<1>3. Row(m) \in Fetch(Head(requests))
  <2>1. CASE Head(requests) = 0
    <3>1. ~ (created[m] \in 1 .. lastRead)
      BY <1>1, <2>1
    <3>2. created[m] > lastRead
      BY <1>2, <3>1
    <3>3. QED
      BY <1>2, <2>1, <3>2, FetchAll
  <2>2. CASE Head(requests) # 0
    <3>1. watermark # 0 /\ watermark <= created[m] + Window
      BY <1>2, <2>2 DEF Held, InReach
    <3>2. created[m] + Window >= Head(requests)
      BY <1>2, <3>1
    <3>3. QED
      BY <1>2, <2>2, <3>2, FetchAll
  <2>3. QED
    BY <2>1, <2>2
<1>4. \A i \in DOMAIN answer' : Carries(answer'[i], m)
  <2>1. Carries(Fetch(Head(requests)), m)
    BY <1>3 DEF Carries, Row
  <2>2. \A i \in DOMAIN answer' : answer'[i] = Fetch(Head(requests))
    BY <1>1
  <2>3. QED
    BY <2>1, <2>2
<1>5. Brings(m) => Brings(m)'
  BY <1>1, <1>4 DEF Brings, Carries
<1>6. QED
  BY <1>1, <1>5 DEF Held, InReach, Tracked, Behind, Late, Carries

\* The response goes behind what is on the wire, or the connection is shed.
LEMMA RespondStep ==
    ASSUME Types, NEW m \in Messages, Held(m), Respond
    PROVE  Held(m)'
<1> DEFINE frame == [type |-> "rows", bodies |-> Head(answer)]
<1>1. /\ up /\ answer' = <<>> /\ 1 \in DOMAIN answer /\ Head(answer) = answer[1]
      /\ Head(answer) \in SUBSET Body
      /\ UNCHANGED <<created, up, watermark, buffered, fetchDone>>
  BY DEF Respond, dbVars, clientVars, Types, Link
<1>2. frame \in Frame /\ Enqueue(frame) /\ frame.bodies = answer[1]
  BY <1>1, FrameTypes DEF Respond
<1>3. Tracked(m) /\ Behind(m) /\ DOMAIN answer' = {}
  BY <1>1 DEF Held
<1>4. (watermark # 0 => InReach(m))'
  BY <1>1 DEF Held, InReach
<1> HIDE DEF frame
<1>5. CASE wire' = wire /\ shed'
  <2>1. Brings(m) => Brings(m)'
    BY <1>1, <1>5 DEF Brings, Carries
  <2>2. QED
    BY <1>1, <1>3, <1>4, <1>5, <2>1 DEF Held, Tracked, Behind, Late, Carries
<1>6. CASE /\ ~shed /\ shed' = shed /\ Len(wire) \in Nat
           /\ DOMAIN wire = 1 .. Len(wire) /\ DOMAIN wire' = 1 .. Len(wire) + 1
           /\ \A i \in 1 .. Len(wire) : wire'[i] = wire[i]
           /\ wire'[Len(wire) + 1] = frame
  <2>1. \A i \in 1 .. Len(wire) + 1 : i \in 1 .. Len(wire) \/ i = Len(wire) + 1
    BY <1>6
  <2>2. Brings(m) => Brings(m)'
    <3>1. Brings(m) => Carries(frame.bodies, m)
      BY <1>1, <1>2, <1>6 DEF Brings
    <3>2. QED
      BY <1>1, <1>3, <1>6, <2>1, <3>1 DEF Brings, Carries
  <2>3. Tracked(m)'
    BY <1>1, <1>3, <1>6, <2>2 DEF Tracked, Carries
  <2>4. Brings(m) \/ Carries(buffered, m) \/ \E j \in 1 .. Len(wire) : Carries(wire[j].bodies, m)
    BY <1>3, <1>6 DEF Tracked
  <2>5. ASSUME NEW i \in 1 .. Len(wire) + 1, Late(wire'[i].bodies, m)
        PROVE  \/ Carries(buffered, m) \/ Brings(m)
               \/ \E j \in 1 .. Len(wire) : j <= i /\ Carries(wire[j].bodies, m)
    <3>1. CASE i \in 1 .. Len(wire)
      BY <1>3, <1>6, <2>5, <3>1 DEF Behind
    <3>2. CASE i = Len(wire) + 1
      BY <1>6, <2>4, <3>2
    <3>3. QED
      BY <2>1, <3>1, <3>2
  <2>6. Behind(m)'
    <3>1. (Late(buffered, m) => Carries(buffered, m) \/ Brings(m))'
      BY <1>1, <1>3, <2>2 DEF Behind, Late, Carries
    <3>2. SUFFICES ASSUME NEW i \in 1 .. Len(wire) + 1, Late(wire'[i].bodies, m)
                   PROVE  \/ Carries(buffered, m) \/ Brings(m)'
                          \/ \E j \in DOMAIN wire' : j <= i /\ Carries(wire'[j].bodies, m)
      BY <1>1, <1>6, <3>1 DEF Behind, Late, Carries
    <3>3. QED
      BY <1>6, <2>2, <2>5, <3>2
  <2>7. QED
    BY <1>1, <1>4, <2>3, <2>6 DEF Held
<1>7. QED
  BY <1>1, <1>2, <1>5, <1>6, EnqueueFacts DEF Types

\* A delivery without m has nothing late for m.
LEMMA ReadStep ==
    ASSUME Types, Past, OneFetch, NEW m \in Messages, Missing(m)', Held(m), ReadFrame
    PROVE  Held(m)'
<1> DEFINE B == wire[1].bodies \cup buffered
<1>1. /\ up /\ UNCHANGED <<up, shed, answer, created>> /\ Tracked(m) /\ Behind(m)
      /\ m \notin seen'
  BY DEF ReadFrame, dbVars, Held, Missing
<1>2. /\ Len(wire) \in Nat \ {0} /\ DOMAIN wire = 1 .. Len(wire)
      /\ DOMAIN wire' = 1 .. Len(wire) - 1
      /\ \A i \in 1 .. Len(wire) - 1 : wire'[i] = wire[i + 1]
      /\ wire[1].bodies \in SUBSET Body /\ buffered \in SUBSET Body
  BY ReadFacts
<1>3. CASE /\ wire[1].type = "rows" \/ fetchDone
           /\ Deliver(B) /\ buffered' = {}
  <2>1. B \in SUBSET Body
    BY <1>2
  <2>2. seen' = seen \cup ({b.id : b \in B} \ (seen \cup {None}))
    BY <1>3, <2>1, DeliverTypes DEF Types
  <2>3. ~ Carries(B, m)
    BY <1>1, <2>2, StreamAssumption DEF Carries
  <2>4. ~ Carries(buffered, m) /\ ~ Carries(wire[1].bodies, m)
    BY <2>3 DEF Carries
  <2>5. ~ Brings(m)
    BY <1>2, <1>3, <2>4 DEF Brings
  <2>6. ~ Late(buffered, m) /\ ~ Late(wire[1].bodies, m)
    <3>1. ~ Late(buffered, m)
      BY <1>1, <2>4, <2>5 DEF Behind
    <3>2. \A j \in DOMAIN wire : j <= 1 => j = 1
      BY <1>2
    <3>3. 1 \in DOMAIN wire
      BY <1>2
    <3>4. ~ Late(wire[1].bodies, m)
      BY <1>1, <2>4, <2>5, <3>2, <3>3 DEF Behind
    <3>5. QED
      BY <3>1, <3>4
  <2>7. \A b \in B : ~ (b.at > created[m] + Window)
    BY <2>6 DEF Late
  <2>8. watermark' # 0 => watermark' <= created[m] + Window
    <3>1. watermark' = watermark \/ \E b \in B : b.at = watermark'
      BY <1>3, <2>1, DeliverTypes DEF Types
    <3>2. CASE watermark' = watermark
      BY <3>2 DEF Held, InReach
    <3>3. ASSUME NEW b \in B, b.at = watermark'
          PROVE  watermark' <= created[m] + Window
      <4>1. b.at \in Nat /\ created[m] + Window \in Nat
        BY <2>1, StreamAssumption DEF Body, Times, Types, Clocks
      <4>2. QED
        BY <2>7, <3>3, <4>1
    <3>4. QED
      BY <3>1, <3>2, <3>3
  <2>9. Tracked(m)'
    <3>1. shed \/ \E i \in DOMAIN wire : Carries(wire[i].bodies, m)
      BY <1>1, <2>4, <2>5 DEF Tracked
    <3>2. ASSUME NEW i \in DOMAIN wire, Carries(wire[i].bodies, m)
          PROVE  i - 1 \in DOMAIN wire' /\ Carries(wire'[i - 1].bodies, m)
      <4>1. i # 1
        BY <2>4, <3>2
      <4>2. QED
        BY <1>2, <3>2, <4>1
    <3>3. QED
      BY <1>1, <3>1, <3>2 DEF Tracked, Carries
  <2>10. Behind(m)'
    <3>1. ~ Late(buffered', m)
      BY <1>3 DEF Late
    <3>2. ASSUME NEW i \in DOMAIN wire', Late(wire'[i].bodies, m)
          PROVE  \E j \in DOMAIN wire' : j <= i /\ Carries(wire'[j].bodies, m)
      <4>1. i + 1 \in DOMAIN wire /\ Late(wire[i + 1].bodies, m)
        BY <1>2, <3>2
      <4>2. PICK j \in DOMAIN wire : j <= i + 1 /\ Carries(wire[j].bodies, m)
        BY <1>1, <2>4, <2>5, <4>1 DEF Behind
      <4>3. j # 1
        BY <2>4, <4>2
      <4>4. j - 1 \in DOMAIN wire' /\ j - 1 <= i /\ Carries(wire'[j - 1].bodies, m)
        BY <1>2, <3>2, <4>2, <4>3
      <4>5. QED
        BY <4>4
    <3>3. QED
      BY <1>1, <3>1, <3>2 DEF Behind, Late, Carries
  <2>11. QED
    BY <1>1, <2>8, <2>9, <2>10 DEF Held, InReach
<1>4. CASE /\ wire[1].type = "live" /\ ~fetchDone
           /\ buffered' = B /\ UNCHANGED <<watermark, fetchDone>>
  <2>1. Brings(m) => Brings(m)'
    BY <1>1, <1>2, <1>4 DEF Brings, Carries
  <2>2. Carries(buffered, m) \/ Carries(wire[1].bodies, m) => Carries(buffered', m)
    BY <1>4 DEF Carries
  <2>3. Tracked(m)'
    <3>1. ASSUME NEW i \in DOMAIN wire, Carries(wire[i].bodies, m), i # 1
          PROVE  i - 1 \in DOMAIN wire' /\ Carries(wire'[i - 1].bodies, m)
      BY <1>2, <3>1
    <3>2. QED
      BY <1>1, <2>1, <2>2, <3>1 DEF Tracked, Carries
  <2>4. Late(buffered', m) => Carries(buffered', m) \/ Brings(m)
    <3>1. Late(buffered', m) => Late(buffered, m) \/ Late(wire[1].bodies, m)
      BY <1>4 DEF Late
    <3>2. \A j \in DOMAIN wire : j <= 1 => j = 1
      BY <1>2
    <3>3. 1 \in DOMAIN wire
      BY <1>2
    <3>4. QED
      BY <1>1, <2>2, <3>1, <3>2, <3>3 DEF Behind
  <2>5. ASSUME NEW i \in DOMAIN wire', Late(wire'[i].bodies, m)
        PROVE  \/ Carries(buffered', m) \/ Brings(m)
               \/ \E j \in DOMAIN wire' : j <= i /\ Carries(wire'[j].bodies, m)
    <3>1. i + 1 \in DOMAIN wire /\ Late(wire[i + 1].bodies, m)
      BY <1>2, <2>5
    <3>2. ASSUME NEW j \in DOMAIN wire, j <= i + 1, Carries(wire[j].bodies, m), j # 1
          PROVE  j - 1 \in DOMAIN wire' /\ j - 1 <= i /\ Carries(wire'[j - 1].bodies, m)
      BY <1>2, <2>5, <3>2
    <3>3. QED
      BY <1>1, <2>2, <3>1, <3>2 DEF Behind
  <2>6. Behind(m)'
    BY <1>1, <2>1, <2>4, <2>5 DEF Behind, Late, Carries
  <2>7. QED
    BY <1>1, <1>4, <2>3, <2>6 DEF Held, InReach
<1>5. QED
  <2>1. CASE wire[1].type = "rows" /\ Deliver(B) /\ buffered' = {}
    BY <1>3, <2>1
  <2>2. CASE fetchDone /\ Deliver(wire[1].bodies) /\ UNCHANGED buffered
    <3>1. buffered = {} /\ B = wire[1].bodies
      BY <2>2 DEF OneFetch
    <3> HIDE DEF B
    <3>2. QED
      BY <1>3, <2>2, <3>1
  <2>3. CASE /\ wire[1].type = "live" /\ ~fetchDone
             /\ buffered' = buffered \cup wire[1].bodies /\ UNCHANGED <<watermark, fetchDone>>
    BY <1>4, <2>3
  <2>4. QED
    BY <2>1, <2>2, <2>3, ReadFacts

\* The invariant's last part, action by action.
LEMMA ReachStep ==
    ASSUME FitsInPage, Types, Past, OnTime, OneFetch, Reach, [Next]_vars
    PROVE  Reach'
<1> SUFFICES ASSUME NEW m \in Messages, Missing(m)'
             PROVE  Held(m)'
  BY DEF Reach
<1>1. Missing(m) => Held(m)
  BY DEF Reach
<1>2. ASSUME created'[m] = created[m],
             UNCHANGED <<up, shed, wire, answer, watermark, buffered, fetchDone>>, Missing(m)
      PROVE  Held(m)'
  BY <1>1, <1>2, QuietStep
<1>3. CASE Tick \/ StartTurn \/ UNCHANGED vars
  <2>1. Missing(m)
    BY <1>3 DEF Tick, StartTurn, vars, dbVars, bridgeVars, clientVars, runnerVars, countVars, Missing
  <2>2. QED
    BY <1>2, <1>3, <2>1 DEF Tick, StartTurn, vars, dbVars, linkVars, clientVars
<1>4. CASE EndTurn \/ SettleAutonomous \/ RecoverOverRest
  <2>1. Missing(m)
    BY <1>4 DEF EndTurn, SettleAutonomous, RecoverOverRest, Settle, bridgeVars, clientVars, countVars,
                Missing
  <2>2. QED
    BY <1>2, <1>4, <2>1 DEF EndTurn, SettleAutonomous, RecoverOverRest, linkVars, clientVars
<1>5. ASSUME NEW k \in Messages, FlushMessage(k) \/ CommitMessage(k) \/ BroadcastLost(k)
      PROVE  Held(m)'
  <2>1. Missing(m)
    BY <1>5 DEF FlushMessage, CommitMessage, BroadcastLost, dbVars, bridgeVars, clientVars, runnerVars,
                countVars, Missing
  <2>2. created'[m] = created[m]
    BY <1>5, <2>1 DEF FlushMessage, CommitMessage, BroadcastLost, dbVars, Missing, Past, Types, Clocks
  <2>3. QED
    BY <1>2, <1>5, <2>1, <2>2 DEF FlushMessage, CommitMessage, BroadcastLost, linkVars, clientVars
<1>6. CASE AgentPost
  <2>1. Missing(m) /\ created'[m] = created[m]
    BY <1>6 DEF AgentPost, bridgeVars, clientVars, countVars, Missing
  <2>2. now + 1 \in Times
    BY <1>6, StreamAssumption DEF AgentPost, ClockTo, Types, Clocks, Times
  <2>3. Live(Echo(now + 1)) \in Frame /\ Live(Echo(now + 1)).type = "live"
    BY <2>2, FrameTypes DEF Live
  <2>4. QED
    BY <1>1, <1>6, <2>1, <2>3, LiveStep DEF AgentPost, clientVars
<1>7. ASSUME NEW k \in Messages, BroadcastArrives(k)
      PROVE  Held(m)'
  <2>1. CASE m = k
    BY <1>7, <2>1, FirstBroadcast
  <2>2. CASE m # k
    <3>1. Missing(m) /\ created'[m] = created[m]
      BY <1>7, <2>2 DEF BroadcastArrives, dbVars, clientVars, runnerVars, countVars, Missing
    <3>2. Live(Row(k)) \in Frame /\ Live(Row(k)).type = "live"
      BY FrameTypes DEF Live, Types, Clocks
    <3>3. QED
      BY <1>1, <1>7, <3>1, <3>2, LiveStep DEF BroadcastArrives, clientVars
  <2>3. QED
    BY <2>1, <2>2
<1>8. CASE Connect
  <2>1. Missing(m) /\ created'[m] = created[m] /\ watermark' = watermark
    BY <1>8 DEF Connect, dbVars, bridgeVars, runnerVars, countVars, Missing
  <2>2. wire' = <<>> /\ answer' = <<>> /\ buffered' = {} /\ fetchDone' = FALSE
    BY <1>8 DEF Connect
  <2>3. Brings(m)'
    BY <2>2 DEF Brings
  <2>4. Tracked(m)' /\ Behind(m)'
    BY <2>3 DEF Tracked, Behind
  <2>5. QED
    BY <1>1, <2>1, <2>4 DEF Held, InReach
<1>9. CASE Disconnect
  <2>1. Missing(m) /\ created'[m] = created[m] /\ watermark' = watermark /\ ~up'
    BY <1>9 DEF Disconnect, CloseLink, dbVars, bridgeVars, clientVars, runnerVars, Missing
  <2>2. QED
    BY <1>1, <2>1 DEF Held, InReach
<1>10. CASE Restart
  BY <1>10 DEF Restart, CloseLink, Held
<1>11. CASE Select
  <2>1. Missing(m) /\ m \notin skipped'
    BY <1>11 DEF Select, dbVars, bridgeVars, clientVars, runnerVars, Missing
  <2>2. QED
    BY <1>1, <1>11, <2>1, SelectStep
<1>12. CASE Respond
  <2>1. Missing(m)
    BY <1>12 DEF Respond, dbVars, bridgeVars, clientVars, runnerVars, countVars, Missing
  <2>2. QED
    BY <1>1, <1>12, <2>1, RespondStep
<1>13. CASE Reconcile
  <2>1. Missing(m)
    BY <1>13 DEF Reconcile, dbVars, bridgeVars, clientVars, runnerVars, countVars, Missing
  <2>2. QED
    BY <1>2, <1>13, <2>1 DEF Reconcile, dbVars, clientVars
<1>14. CASE ReadFrame
  <2>1. seen \subseteq seen' /\ routed \subseteq routed'
    <3>1. CASE UNCHANGED <<seen, routed>>
      BY <3>1
    <3>2. ASSUME NEW bodies \in SUBSET Body, Deliver(bodies)
          PROVE  seen \subseteq seen' /\ routed \subseteq routed'
      BY <3>2, DeliverTypes DEF Types
    <3>3. wire[1].bodies \in SUBSET Body /\ wire[1].bodies \cup buffered \in SUBSET Body
      BY <1>14, ReadFacts
    <3>4. QED
      BY <1>14, <3>1, <3>2, <3>3, ReadFacts
  <2>2. Missing(m)
    BY <1>14, <2>1 DEF ReadFrame, dbVars, bridgeVars, countVars, Missing
  <2>3. QED
    BY <1>1, <1>14, <2>2, ReadStep
<1>15. QED
  BY <1>3, <1>4, <1>5, <1>6, <1>7, <1>8, <1>9, <1>10, <1>11, <1>12, <1>13, <1>14 DEF Next

-----------------------------------------------------------------------------
(* The theorems.                                                           *)

\* The types hold at the start.
LEMMA InitTypes == Init => Types
<1>1. <<>> \in Seq(Frame) /\ <<>> \in Seq(Times) /\ <<>> \in Seq(SUBSET Body) /\ Len(<<>>) = 0
  OBVIOUS
<1>2. 0 \in Times
  BY StreamAssumption DEF Times
<1>3. Init => Clocks /\ Sets
  BY <1>2 DEF Init, Clocks, Sets
<1>4. Init => Link
  <2>1. SUFFICES ASSUME Init
                 PROVE  Link
    OBVIOUS
  <2>2. wire = <<>> /\ requests = <<>> /\ answer = <<>> /\ buffered = {}
    BY <2>1 DEF Init
  <2>3. Len(wire) <= OutboxMax /\ Len(answer) <= 1
    <3>1. Len(wire) = 0 /\ Len(answer) = 0 /\ OutboxMax \in Nat
      BY <1>1, <2>2, StreamAssumption
    <3>2. QED
      BY <3>1
  <2>4. QED
    BY <1>1, <2>2, <2>3 DEF Link
<1>5. QED
  BY <1>3, <1>4 DEF Types

\* Every variable of the stream has its type, for any number of messages and steps.
THEOREM TypesHold == Spec => []Types
<1>1. Types /\ [Next]_vars => Types'
  BY ClocksStep, SetsStep, LinkStep DEF Types
<1>2. QED
  BY InitTypes, <1>1, PTL DEF Spec

\* However often rows come over the connection, a refetch or the REST recovery,
\* the client hands each on once per process.
THEOREM HandedOnce == Spec => []CallbackOnce
<1>1. Init => Handed
  BY DEF Init, Handed
<1>2. Handed => CallbackOnce
  BY DEF Handed, CallbackOnce
<1>3. QED
  BY HandedStep, <1>1, <1>2, PTL DEF Spec

\* The outbox keeps its limit, and every value is what the code holds there.
THEOREM StreamTypes == Spec => []TypeOK
<1>1. Init => Flags /\ Faults /\ Handed
  <2>1. Init => Flags
    BY DEF Init, Flags
  <2>2. Init => Faults
    BY StreamAssumption DEF Init, Faults
  <2>3. Init => Handed
    BY DEF Init, Handed
  <2>4. QED
    BY <2>1, <2>2, <2>3
<1>2. Types /\ Flags /\ Faults /\ Handed => TypeOK
  <2>1. SUFFICES ASSUME Types, Flags, Faults, Handed
                 PROVE  TypeOK
    OBVIOUS
  <2>2. \A i \in DOMAIN wire : wire[i].type \in {"rows", "live"} /\ wire[i].bodies \subseteq Body
    <3>1. wire \in Seq(Frame)
      BY <2>1 DEF Types, Link
    <3>2. \A i \in DOMAIN wire : wire[i] \in Frame
      BY <3>1, WireBodies
    <3>3. QED
      BY <3>2 DEF Frame
  <2>3. \A i \in DOMAIN answer : answer[i] \subseteq Body
    BY <2>1 DEF Types, Link
  <2>4. {up, shed, fetchDone, busy} \subseteq BOOLEAN
    BY <2>1, Zenon DEF Flags
  <2>5. callbacks \in [Messages -> Nat]
    BY <2>1 DEF Handed
  <2>6. QED
    BY <2>1, <2>2, <2>3, <2>4, <2>5 DEF TypeOK, Types, Clocks, Sets, Link, Faults
<1>3. QED
  BY TypesHold, FlagsStep, FaultsStep, HandedStep, <1>1, <1>2, PTL DEF Spec

\* As long as a response carries all rows, a committed message whose broadcast
\* was sent is with the process, or within the reach of the next fetch.
THEOREM NoGapWhenPagesFit ==
    ASSUME FitsInPage
    PROVE  Spec => []NoSilentGap
<1>1. Init => GapInv
  <2>1. SUFFICES ASSUME Init
                 PROVE  Past /\ OnTime /\ OneFetch /\ Reach
    BY InitTypes DEF GapInv
  <2>2. Len(<<>>) = 0 /\ DOMAIN <<>> = {}
    OBVIOUS
  <2>3. Past
    BY <2>1, <2>2 DEF Init, Past
  <2>4. OnTime
    BY <2>1 DEF Init, OnTime, Timely
  <2>5. OneFetch
    BY <2>1, <2>2 DEF Init, OneFetch
  <2>6. Reach
    BY <2>1 DEF Init, Reach, Missing
  <2>7. QED
    BY <2>3, <2>4, <2>5, <2>6
<1>2. GapInv /\ [Next]_vars => GapInv'
  <2>1. SUFFICES ASSUME GapInv, [Next]_vars
                 PROVE  GapInv'
    OBVIOUS
  <2>2. Types' /\ Past' /\ OnTime' /\ OneFetch'
    BY <2>1, ClocksStep, SetsStep, LinkStep, PastStep, OnTimeStep, OneFetchStep DEF GapInv, Types
  <2>3. Reach'
    BY <2>1, ReachStep DEF GapInv
  <2>4. QED
    BY <2>2, <2>3 DEF GapInv
<1>3. GapInv => NoSilentGap
  <2>1. SUFFICES ASSUME GapInv, watermark # 0,
                        NEW m \in committed \ (lost \cup skipped \cup seen \cup routed)
                 PROVE  created[m] + Window >= watermark
    BY DEF NoSilentGap
  <2>2. /\ watermark \in Nat /\ now \in Nat /\ Window \in Nat /\ created[m] \in Nat
        /\ watermark <= now /\ created[m] # 0 /\ m \in Messages
    BY <2>1, StreamAssumption DEF GapInv, Types, Clocks, Sets, Times, Past
  <2>3. CASE m \in bridge
    BY <2>1, <2>2, <2>3 DEF GapInv, OnTime, Timely
  <2>4. CASE m \notin bridge
    BY <2>1, <2>2, <2>4 DEF GapInv, Reach, Missing, Held, InReach
  <2>5. QED
    BY <2>3, <2>4
<1>4. QED
  BY <1>1, <1>2, <1>3, PTL DEF Spec

=============================================================================
