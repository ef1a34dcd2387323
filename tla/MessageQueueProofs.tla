------------------------- MODULE MessageQueueProofs -------------------------
(***************************************************************************)
(* Proofs about MessageQueue for any set of messages.  The inductive       *)
(* invariant IInv says where a message can be in the runner (OnePlace),    *)
(* what the steer bookkeeping knows of it (AttemptsTracked,                *)
(* PendingMirrorsInbox) and why what was delivered is not delivered again  *)
(* (DeliveredIsDone).  Every action has a lemma of its own.                *)
(*                                                                         *)
(* On top of it, RowInv says what the rows and the runner know of each     *)
(* other; what follows about consumed and cancelled messages, and that     *)
(* MessageQueue implements UserDelivery, comes last.                       *)
(***************************************************************************)
EXTENDS MessageQueue, TLAPS

\* Appending a message that is not in the queue keeps it duplicate-free.
LEMMA AppendInbox ==
    ASSUME NEW m \in Messages, inbox \in Seq(Messages), ~InInbox(m),
           \A i, j \in DOMAIN inbox : inbox[i] = inbox[j] => i = j,
           inbox' = Append(inbox, m)
    PROVE  /\ inbox' \in Seq(Messages)
           /\ \A x : InInbox(x)' <=> InInbox(x) \/ x = m
           /\ (\A i, j \in DOMAIN inbox : inbox[i] = inbox[j] => i = j)'
<1>1. inbox' \in Seq(Messages) /\ Len(inbox') = Len(inbox) + 1
  OBVIOUS
<1>2. /\ \A i \in DOMAIN inbox : inbox'[i] = inbox[i]
      /\ inbox'[Len(inbox) + 1] = m
  OBVIOUS
<1>3. DOMAIN inbox' = 1 .. Len(inbox) + 1 /\ DOMAIN inbox = 1 .. Len(inbox)
  BY <1>1
<1>4. \A x : InInbox(x)' <=> InInbox(x) \/ x = m
  <2> TAKE x
  <2>1. InInbox(x)' => InInbox(x) \/ x = m
    BY <1>1, <1>2, <1>3 DEF InInbox
  <2>2. InInbox(x) => InInbox(x)'
    BY <1>1, <1>2, <1>3 DEF InInbox
  <2>3. InInbox(m)'
    BY <1>1, <1>2, <1>3 DEF InInbox
  <2>4. QED
    BY <2>1, <2>2, <2>3
<1>5. (\A i, j \in DOMAIN inbox : inbox[i] = inbox[j] => i = j)'
  BY <1>1, <1>2, <1>3 DEF InInbox
<1>6. QED
  BY <1>1, <1>4, <1>5

\* Taking the head of a duplicate-free queue removes exactly that message.
LEMMA TailInbox ==
    ASSUME inbox \in Seq(Messages), inbox # <<>>,
           \A i, j \in DOMAIN inbox : inbox[i] = inbox[j] => i = j,
           inbox' = Tail(inbox)
    PROVE  /\ inbox' \in Seq(Messages)
           /\ Head(inbox) \in Messages /\ InInbox(Head(inbox))
           /\ \A x : InInbox(x)' <=> InInbox(x) /\ x # Head(inbox)
           /\ (\A i, j \in DOMAIN inbox : inbox[i] = inbox[j] => i = j)'
<1>1. /\ inbox' \in Seq(Messages) /\ Len(inbox') = Len(inbox) - 1
      /\ Len(inbox) \in Nat \ {0} /\ Head(inbox) = inbox[1]
  OBVIOUS
<1>2. \A i \in 1 .. Len(inbox) - 1 : inbox'[i] = inbox[i + 1]
  OBVIOUS
<1>3. DOMAIN inbox' = 1 .. Len(inbox) - 1 /\ DOMAIN inbox = 1 .. Len(inbox)
  BY <1>1
<1>4. Head(inbox) \in Messages /\ InInbox(Head(inbox))
  BY <1>1, <1>3 DEF InInbox
<1>5. \A x : InInbox(x)' <=> InInbox(x) /\ x # Head(inbox)
  <2> TAKE x
  <2>1. ASSUME InInbox(x)'
        PROVE  InInbox(x) /\ x # Head(inbox)
    <3>1. PICK i \in 1 .. Len(inbox) - 1 : inbox'[i] = x
      BY <2>1, <1>3 DEF InInbox
    <3>2. i + 1 \in DOMAIN inbox /\ inbox[i + 1] = x /\ i + 1 # 1
      BY <3>1, <1>1, <1>2, <1>3
    <3>3. QED
      BY <3>2, <1>1, <1>3 DEF InInbox
  <2>2. ASSUME InInbox(x), x # Head(inbox)
        PROVE  InInbox(x)'
    <3>1. PICK i \in DOMAIN inbox : inbox[i] = x
      BY <2>2 DEF InInbox
    <3>2. i - 1 \in 1 .. Len(inbox) - 1 /\ inbox'[i - 1] = x
      BY <3>1, <2>2, <1>1, <1>2, <1>3
    <3>3. QED
      BY <3>2, <1>3 DEF InInbox
  <2>3. QED
    BY <2>1, <2>2
<1>6. (\A i, j \in DOMAIN inbox : inbox[i] = inbox[j] => i = j)'
  <2> SUFFICES ASSUME NEW i \in DOMAIN inbox', NEW j \in DOMAIN inbox',
                      inbox'[i] = inbox'[j]
               PROVE  i = j
    OBVIOUS
  <2>1. inbox[i + 1] = inbox[j + 1] /\ i + 1 \in DOMAIN inbox /\ j + 1 \in DOMAIN inbox
    BY <1>1, <1>2, <1>3
  <2>2. QED
    BY <2>1, <1>1, <1>3
<1>7. QED
  BY <1>1, <1>4, <1>5, <1>6

LEMMA TypeInit == Init => TypeOK
BY DEF Init, TypeOK, RowStatus

LEMMA InitIInv == Init => IInv
<1> SUFFICES ASSUME Init PROVE IInv
  OBVIOUS
<1>1. DOMAIN inbox = {} /\ \A m : ~InInbox(m)
  BY DEF Init, InInbox
<1>2. QED
  BY <1>1, TypeInit DEF Init, IInv, OnePlace, AttemptsTracked, PendingMirrorsInbox,
     DeliveredIsDone, Taken, None

\* What BeginSteer does to the bookkeeping keeps its types.
LEMMA BeginSteerTypes ==
    ASSUME TypeOK, NEW m \in Messages, NEW pend, NEW requested \in SUBSET Messages,
           BeginSteer(m, pend, requested)
    PROVE  /\ steerRequested' \subseteq Messages
           /\ inFlight' \subseteq Messages
           /\ outcome' \in [Messages -> {None, "open", "hit", "miss"}]
BY DEF BeginSteer, TypeOK

\* Every action preserves the types; the message whose outcome is awaited is
\* one by OnePlace.
LEMMA TypeStep == TypeOK /\ OnePlace /\ [Next]_vars => TypeOK'
<1> SUFFICES ASSUME TypeOK, OnePlace, [Next]_vars
             PROVE  TypeOK'
  OBVIOUS
<1> USE DEF TypeOK, RowStatus, vars, callbackVars, steerVars, loopVars
<1>1. ASSUME NEW m \in Messages, CreateMessage(m) \/ CancelMessage(m) \/ SteerMessage(m)
      PROVE  TypeOK'
  BY <1>1 DEF CreateMessage, CancelMessage, SteerMessage
<1>2. ASSUME NEW m \in Messages, Route(m)
      PROVE  TypeOK'
  <2>1. /\ steerRequested' \subseteq Messages
        /\ inFlight' \subseteq Messages
        /\ outcome' \in [Messages -> {None, "open", "hit", "miss"}]
    <3>1. CASE m \in steerRequested
      BY <1>2, <3>1, BeginSteerTypes, steerRequested \ {m} \in SUBSET Messages DEF Route
    <3>2. CASE m \notin steerRequested
      BY <1>2, <3>2 DEF Route
    <3>3. QED
      BY <3>1, <3>2
  <2>2. QED
    BY <1>2, <2>1 DEF Route, Enqueue
<1>3. ASSUME NEW m \in Messages, EnqueueAlreadyQueued(m)
      PROVE  TypeOK'
  BY <1>3 DEF EnqueueAlreadyQueued, Enqueue
<1>4. ASSUME NEW m \in Messages, OnCancelled(m)
      PROVE  TypeOK'
  BY <1>4 DEF OnCancelled
<1>5. ASSUME NEW m \in Messages, OnSteer(m)
      PROVE  TypeOK'
  <2>1. /\ steerRequested' \subseteq Messages
        /\ inFlight' \subseteq Messages
        /\ outcome' \in [Messages -> {None, "open", "hit", "miss"}]
    BY <1>5, BeginSteerTypes, steerRequested \in SUBSET Messages DEF OnSteer
  <2>2. QED
    BY <1>5, <2>1 DEF OnSteer
<1>6. ASSUME NEW m \in Messages, SteerDelivered(m) \/ SteerFailed(m)
      PROVE  TypeOK'
  <2>1. patches' \subseteq Patch
    BY <1>6 DEF SteerDelivered, SteerFailed, Report, Patch
  <2>2. deliveries' \in [Messages -> Nat]
    <3>1. \A n \in Nat : n + 1 \in Nat
      OBVIOUS
    <3>2. CASE SteerDelivered(m)
      BY <3>1, <3>2 DEF SteerDelivered
    <3>3. CASE SteerFailed(m)
      BY <3>3 DEF SteerFailed
    <3>4. QED
      BY <1>6, <3>2, <3>3
  <2>3. outcome' \in [Messages -> {None, "open", "hit", "miss"}]
    BY <1>6 DEF SteerDelivered, SteerFailed, Resolve
  <2>4. QED
    BY <1>6, <2>1, <2>2, <2>3 DEF SteerDelivered, SteerFailed
<1>7. ASSUME NEW p \in patches, PatchLands(p)
      PROVE  TypeOK'
  BY <1>7 DEF PatchLands, MarkedConsumed, Requeued, Patch
<1>8. ASSUME Dequeue
      PROVE  TypeOK'
  <2>1. Head(inbox) \in Messages /\ Tail(inbox) \in Seq(Messages)
    BY <1>8 DEF Dequeue
  <2>2. QED
    BY <1>8, <2>1 DEF Dequeue, HasAttempt, Dropped
<1>9. ASSUME OutcomeArrives
      PROVE  TypeOK'
  <2>1. cur \in Messages
    BY <1>9 DEF OutcomeArrives, OnePlace
  <2>2. QED
    BY <1>9, <2>1 DEF OutcomeArrives
<1>10. ASSUME StartSingle \/ StartMerge \/ StartMerged
       PROVE  TypeOK'
  BY <1>10 DEF StartSingle, StartMerge, StartMerged, EnterTurn
<1>11. ASSUME NEW m \in Messages, MergeStamp(m)
       PROVE  TypeOK'
  BY <1>11 DEF MergeStamp, MarkedConsumed
<1>12. ASSUME MarkPrimary
       PROVE  TypeOK'
  BY <1>12 DEF MarkPrimary, MarkedConsumed
<1>13. ASSUME OpenForeground
       PROVE  TypeOK'
  BY <1>13 DEF OpenForeground, Turns
<1>14. ASSUME QueryAccepted
       PROVE  TypeOK'
  BY <1>14 DEF QueryAccepted
<1>15. <<>> \in Seq(Turns) /\ <<"autonomous">> \in Seq(Turns)
  BY DEF Turns
<1>16. ASSUME QueryFailed
       PROVE  TypeOK'
  BY <1>15, <1>16 DEF QueryFailed
<1>17. ASSUME TurnEnds \/ CloseTurn
       PROVE  TypeOK'
  <2>1. CASE TurnEnds
    BY <2>1 DEF TurnEnds
  <2>2. CASE CloseTurn
    <3>1. Tail(open) \in Seq(Turns)
      BY <2>2 DEF CloseTurn
    <3>2. QED
      BY <2>2, <3>1 DEF CloseTurn
  <2>3. QED
    BY <1>17, <2>1, <2>2
<1>18. ASSUME OpenAutonomous \/ ForceCloseTurns
       PROVE  TypeOK'
  <2>1. open' \in Seq(Turns)
    BY <1>15, <1>18 DEF OpenAutonomous, ForceCloseTurns
  <2>2. QED
    BY <1>18, <2>1 DEF OpenAutonomous, ForceCloseTurns
<1>19. ASSUME UNCHANGED vars
       PROVE  TypeOK'
  BY <1>19
<1>20. QED
  BY <1>1, <1>2, <1>3, <1>4, <1>5, <1>6, <1>7, <1>8, <1>9, <1>10, <1>11, <1>12,
     <1>13, <1>14, <1>16, <1>17, <1>18, <1>19 DEF Next, RunLoop, SteerResolves

-----------------------------------------------------------------------------
(* The inductive step.  An action that leaves queue, attempts and          *)
(* deliveries alone and takes nothing new is covered by one lemma.         *)

LEMMA QuietStep ==
    ASSUME IInv, TypeOK',
           UNCHANGED <<inbox, seen, pending, inFlight, outcome, deliveries, cur>>,
           batch' \subseteq batch,
           \A m \in Messages : row[m] # "absent" => row'[m] # "absent",
           pc = "outcome" <=> pc' = "outcome",
           pc' \in {"wait", "turn"} => batch' = {}
    PROVE  IInv'
<1>1. \A x : InInbox(x)' = InInbox(x)
  BY DEF InInbox
<1>2. \A x : Taken(x)' => Taken(x)
  BY DEF Taken
<1>3. OnePlace'
  BY <1>1, <1>2 DEF IInv, OnePlace, Taken
<1>4. AttemptsTracked'
  BY <1>1 DEF IInv, AttemptsTracked
<1>5. PendingMirrorsInbox'
  BY <1>1 DEF IInv, PendingMirrorsInbox
<1>6. DeliveredIsDone'
  BY <1>1, <1>2 DEF IInv, DeliveredIsDone
<1>7. QED
  BY <1>3, <1>4, <1>5, <1>6 DEF IInv

\* Rows never become absent again, so every row action is quiet.
LEMMA RowStep ==
    ASSUME IInv, TypeOK',
           \/ \E m \in Messages : \/ CreateMessage(m) \/ CancelMessage(m)
                                  \/ SteerMessage(m) \/ OnCancelled(m) \/ MergeStamp(m)
           \/ \E p \in patches : PatchLands(p)
           \/ MarkPrimary
    PROVE  IInv'
<1> USE DEF callbackVars, steerVars, loopVars
<1>1. /\ UNCHANGED <<inbox, seen, pending, inFlight, outcome, deliveries, cur, batch>>
      /\ pc' = pc \/ (pc = "mark" /\ pc' = "activate")
  BY DEF CreateMessage, CancelMessage, SteerMessage, OnCancelled, MergeStamp,
         PatchLands, MarkPrimary
<1>2. \A x \in Messages : row[x] # "absent" => row'[x] # "absent"
  BY DEF CreateMessage, CancelMessage, SteerMessage, OnCancelled, MergeStamp,
         PatchLands, MarkPrimary, MarkedConsumed, Requeued, IInv, TypeOK
<1>3. pc' \in {"wait", "turn"} => batch' = {}
  BY <1>1 DEF IInv, OnePlace
<1>4. QED
  BY <1>1, <1>2, <1>3, QuietStep

\* Turns open and close, and a turn that is given up forgets its batch.
LEMMA TurnStep ==
    ASSUME IInv, TypeOK',
           \/ StartSingle \/ StartMerge \/ StartMerged \/ OpenForeground
           \/ QueryFailed \/ TurnEnds \/ CloseTurn \/ OpenAutonomous
           \/ ForceCloseTurns
    PROVE  IInv'
<1> USE DEF callbackVars, steerVars, loopVars, StartSingle, StartMerge, StartMerged,
            OpenForeground, QueryFailed, TurnEnds, CloseTurn, OpenAutonomous,
            ForceCloseTurns, EnterTurn
<1>1. UNCHANGED <<row, inbox, seen, pending, inFlight, outcome, deliveries, cur>>
  OBVIOUS
<1>2. batch' \subseteq batch /\ (pc = "outcome" <=> pc' = "outcome")
  OBVIOUS
<1>3. pc' \in {"wait", "turn"} => batch' = {}
  BY DEF IInv, OnePlace
<1>4. QED
  BY <1>1, <1>2, <1>3, QuietStep

\* A message that was never seen has no bookkeeping, so it may be queued, and
\* a Steer request that was waiting for it may start at once.
LEMMA EnqueueStep ==
    ASSUME IInv, TypeOK', NEW m \in Messages,
           m \notin seen, row[m] # "absent", Enqueue(m),
           UNCHANGED <<row, deliveries, pc, batch, cur>>,
           \/ UNCHANGED <<inFlight, outcome>>
           \/ /\ inFlight' = inFlight \cup {m}
              /\ outcome' = [outcome EXCEPT ![m] = "open"]
    PROVE  IInv'
<1>1. ~InInbox(m) /\ ~Taken(m) /\ m \notin inFlight /\ deliveries[m] = 0
  BY DEF IInv, OnePlace, AttemptsTracked, DeliveredIsDone
<1>2. outcome[m] \notin {"open", "hit"}
  BY <1>1 DEF IInv, DeliveredIsDone
<1>3. /\ \A x : InInbox(x)' <=> InInbox(x) \/ x = m
      /\ (\A i, j \in DOMAIN inbox : inbox[i] = inbox[j] => i = j)'
  BY <1>1, AppendInbox DEF IInv, TypeOK, OnePlace, Enqueue
<1>4. \A x : Taken(x)' = Taken(x)
  BY DEF Taken
<1>5. /\ \A x \in Messages : x # m => outcome'[x] = outcome[x] /\ (x \in inFlight' <=> x \in inFlight)
      /\ outcome'[m] # "hit"
      /\ m \in inFlight' <=> outcome'[m] \in {"open", "hit"}
  BY <1>1, <1>2 DEF IInv, TypeOK
<1>6. OnePlace'
  BY <1>1, <1>3, <1>4 DEF IInv, OnePlace, Enqueue
<1>7. AttemptsTracked'
  BY <1>1, <1>3, <1>4, <1>5 DEF IInv, AttemptsTracked, Enqueue, Taken
<1>8. PendingMirrorsInbox'
  BY <1>3, <1>5 DEF IInv, PendingMirrorsInbox, Enqueue
<1>9. DeliveredIsDone'
  BY <1>1, <1>3, <1>4, <1>5 DEF IInv, DeliveredIsDone, Enqueue
<1>10. QED
  BY <1>6, <1>7, <1>8, <1>9 DEF IInv

LEMMA RouteStep ==
    ASSUME IInv, TypeOK', NEW m \in Messages, Route(m) \/ EnqueueAlreadyQueued(m)
    PROVE  IInv'
<1>1. m \notin inFlight
  BY DEF IInv, AttemptsTracked, Route, EnqueueAlreadyQueued
<1>2. \/ UNCHANGED <<inFlight, outcome>>
      \/ /\ inFlight' = inFlight \cup {m}
         /\ outcome' = [outcome EXCEPT ![m] = "open"]
  BY <1>1 DEF Route, EnqueueAlreadyQueued, BeginSteer, steerVars
<1>3. QED
  BY <1>2, EnqueueStep DEF Route, EnqueueAlreadyQueued, loopVars

\* An attempt starts only for a queued message nobody delivered.
LEMMA OnSteerStep ==
    ASSUME IInv, TypeOK', NEW m \in Messages, OnSteer(m)
    PROVE  IInv'
<1> USE DEF callbackVars, loopVars
<1>1. CASE UNCHANGED <<inFlight, outcome>>
  <2>1. pc' \in {"wait", "turn"} => batch' = {}
    BY DEF OnSteer, IInv, OnePlace
  <2>2. QED
    BY <1>1, <2>1, QuietStep DEF OnSteer
<1>2. CASE /\ m \in pending /\ m \notin inFlight
           /\ inFlight' = inFlight \cup {m}
           /\ outcome' = [outcome EXCEPT ![m] = "open"]
  <2>1. /\ UNCHANGED <<row, inbox, seen, pending, deliveries, pc, batch, cur>>
        /\ \A x : InInbox(x)' = InInbox(x) /\ Taken(x)' = Taken(x)
    BY DEF OnSteer, InInbox, Taken
  <2>2. InInbox(m) /\ m \in seen /\ ~Taken(m) /\ outcome[m] # "hit"
    BY <1>2 DEF IInv, PendingMirrorsInbox, OnePlace
  <2>3. deliveries[m] = 0
    BY <2>2 DEF IInv, DeliveredIsDone
  <2>4. /\ \A x \in Messages : x # m => outcome'[x] = outcome[x] /\ (x \in inFlight' <=> x \in inFlight)
        /\ outcome'[m] = "open" /\ m \in inFlight'
    BY <1>2 DEF IInv, TypeOK
  <2>5. OnePlace'
    BY <2>1 DEF IInv, OnePlace
  <2>6. AttemptsTracked'
    BY <2>1, <2>2, <2>4 DEF IInv, AttemptsTracked, Taken
  <2>7. PendingMirrorsInbox'
    BY <2>1, <2>2, <2>4 DEF IInv, PendingMirrorsInbox
  <2>8. DeliveredIsDone'
    BY <2>1, <2>2, <2>3, <2>4 DEF IInv, DeliveredIsDone
  <2>9. QED
    BY <2>5, <2>6, <2>7, <2>8 DEF IInv
<1>3. QED
  BY <1>1, <1>2 DEF OnSteer, BeginSteer

\* A decided attempt: a success is delivered for the first time, a failure
\* leaves the message to the run loop.
LEMMA ResolveStep ==
    ASSUME IInv, TypeOK', NEW m \in Messages, SteerDelivered(m) \/ SteerFailed(m)
    PROVE  IInv'
<1> USE DEF loopVars
<1>1. /\ UNCHANGED <<row, inbox, seen, pc, batch, cur>>
      /\ \A x : InInbox(x)' = InInbox(x) /\ Taken(x)' = Taken(x)
  BY DEF SteerDelivered, SteerFailed, callbackVars, InInbox, Taken
<1>2. outcome[m] = "open" /\ deliveries[m] = 0 /\ m \in seen /\ m \notin batch
  BY DEF SteerDelivered, SteerFailed, IInv, DeliveredIsDone, AttemptsTracked
<1>3. OnePlace'
  BY <1>1 DEF IInv, OnePlace
<1>4. \A x \in Messages : x # m => outcome'[x] = outcome[x] /\ deliveries'[x] = deliveries[x]
                                     /\ (x \in inFlight' <=> x \in inFlight)
                                     /\ (x \in pending' <=> x \in pending)
  BY DEF SteerDelivered, SteerFailed, Resolve, callbackVars, IInv, TypeOK
<1>5. CASE SteerDelivered(m)
  <2>1. outcome'[m] = "hit" /\ deliveries'[m] = 1 /\ m \notin pending' /\ inFlight' = inFlight
    <3>1. deliveries'[m] = deliveries[m] + 1
      BY <1>5 DEF SteerDelivered, IInv, TypeOK
    <3>2. outcome'[m] = "hit" /\ m \notin pending' /\ inFlight' = inFlight
      BY <1>5 DEF SteerDelivered, Resolve, IInv, TypeOK
    <3>3. QED
      BY <1>2, <3>1, <3>2
  <2>2. AttemptsTracked'
    BY <1>1, <1>2, <1>4, <2>1, None # "hit" DEF IInv, AttemptsTracked, None
  <2>3. PendingMirrorsInbox'
    BY <1>1, <1>4, <2>1 DEF IInv, PendingMirrorsInbox
  <2>4. DeliveredIsDone'
    BY <1>1, <1>2, <1>4, <2>1 DEF IInv, DeliveredIsDone
  <2>5. QED
    BY <1>3, <2>2, <2>3, <2>4 DEF IInv
<1>6. CASE SteerFailed(m)
  <2>1. /\ outcome'[m] = "miss" /\ m \notin inFlight'
        /\ deliveries' = deliveries /\ pending' = pending
    BY <1>6 DEF SteerFailed, Resolve, callbackVars, IInv, TypeOK
  <2>2. AttemptsTracked'
    BY <1>1, <1>2, <1>4, <2>1, None # "miss" DEF IInv, AttemptsTracked, None
  <2>3. PendingMirrorsInbox'
    BY <1>1, <1>2, <1>4, <2>1 DEF IInv, PendingMirrorsInbox
  <2>4. DeliveredIsDone'
    BY <1>1, <1>2, <1>4, <2>1 DEF IInv, DeliveredIsDone
  <2>5. QED
    BY <1>3, <2>2, <2>3, <2>4 DEF IInv
<1>7. QED
  BY <1>5, <1>6

\* The head of the queue is dropped, awaited or taken; in each case it is then
\* in one place only.
LEMMA DequeueStep ==
    ASSUME IInv, TypeOK', Dequeue
    PROVE  IInv'
<1> DEFINE m == Head(inbox)
<1>1. /\ m \in Messages /\ InInbox(m)
      /\ \A x : InInbox(x)' <=> InInbox(x) /\ x # m
      /\ (\A i, j \in DOMAIN inbox : inbox[i] = inbox[j] => i = j)'
  BY TailInbox DEF Dequeue, IInv, TypeOK, OnePlace
<1>2. UNCHANGED <<row, seen, outcome, deliveries>> /\ pending' = pending \ {m}
  BY DEF Dequeue
<1>3. pc # "outcome" /\ ~Taken(m) /\ m \in seen
  BY <1>1 DEF Dequeue, IInv, OnePlace
<1>4. \/ /\ pc' = pc /\ batch' = batch /\ cur' = cur
      \/ /\ pc' = "outcome" /\ batch' = batch /\ cur' = m
         /\ m \in inFlight /\ outcome[m] = "open"
      \/ /\ pc' = "drain" /\ batch' = batch \cup {m} /\ cur' = cur
         /\ m \notin inFlight
  BY DEF Dequeue, HasAttempt, Dropped
<1>5. \A x \in Messages : x # m => (x \in inFlight' <=> x \in inFlight)
  BY DEF Dequeue
<1>6. \A x \in Messages : x # m => (Taken(x)' <=> Taken(x)) /\ (x \in batch' <=> x \in batch)
  BY <1>3, <1>4 DEF Taken
<1>7. m \in inFlight' => m \in inFlight
  BY DEF Dequeue
<1>8. OnePlace'
  <2>1. \A x \in Messages :
          /\ InInbox(x)' => x \in seen' /\ ~Taken(x)'
          /\ Taken(x)' => x \in seen'
          /\ x \in seen' => row'[x] # "absent"
    BY <1>1, <1>2, <1>3, <1>6 DEF IInv, OnePlace
  <2>2. /\ pc' = "outcome" => cur' \in Messages /\ cur' \notin batch'
        /\ pc' \in {"wait", "turn"} => batch' = {}
    BY <1>1, <1>3, <1>4 DEF IInv, OnePlace, Taken
  <2>3. QED
    BY <1>1, <2>1, <2>2 DEF OnePlace
<1>9. AttemptsTracked'
  <2>1. m \in batch' => outcome'[m] \notin {"open", "hit"}
    BY <1>1, <1>2, <1>3, <1>4 DEF IInv, AttemptsTracked, Taken
  <2>2. \A x \in Messages : pc' = "outcome" /\ cur' = x => outcome'[x] # None
    BY <1>2, <1>3, <1>4 DEF None
  <2>3. QED
    BY <1>1, <1>2, <1>3, <1>5, <1>6, <1>7, <2>1, <2>2 DEF IInv, AttemptsTracked
<1>10. PendingMirrorsInbox'
  BY <1>1, <1>2 DEF IInv, PendingMirrorsInbox
<1>11. DeliveredIsDone'
  <2>1. deliveries[m] = 1 => outcome[m] = "hit" /\ m \in inFlight
    BY <1>1 DEF IInv, DeliveredIsDone, AttemptsTracked
  <2>2. deliveries[m] = 1 => m \notin batch'
    BY <1>3, <1>4, <2>1 DEF Taken
  <2>3. QED
    BY <1>1, <1>2, <1>3, <1>6, <2>1, <2>2 DEF IInv, DeliveredIsDone
<1>12. QED
  BY <1>8, <1>9, <1>10, <1>11 DEF IInv

\* Only a message that its attempt failed to deliver joins the batch.
LEMMA OutcomeStep ==
    ASSUME IInv, TypeOK', OutcomeArrives
    PROVE  IInv'
<1>1. /\ UNCHANGED <<row, inbox, seen, pending, inFlight, outcome, deliveries>>
      /\ \A x : InInbox(x)' = InInbox(x)
  BY DEF OutcomeArrives, callbackVars, steerVars, InInbox
<1>2. cur \in Messages /\ cur \notin batch /\ Taken(cur) /\ pc = "outcome"
  BY DEF OutcomeArrives, IInv, OnePlace, Taken
<1>3. /\ batch' = batch \/ (batch' = batch \cup {cur} /\ outcome[cur] = "miss")
      /\ pc' = IF batch' = {} THEN "wait" ELSE "drain"
  BY DEF OutcomeArrives
<1>4. \A x : Taken(x)' <=> x \in batch'
  BY <1>3 DEF Taken
<1>5. \A x : Taken(x)' => Taken(x)
  BY <1>2, <1>3, <1>4 DEF Taken
<1>6. OnePlace'
  BY <1>1, <1>3, <1>5 DEF IInv, OnePlace
<1>7. AttemptsTracked'
  BY <1>1, <1>3 DEF IInv, AttemptsTracked
<1>8. PendingMirrorsInbox'
  BY <1>1 DEF IInv, PendingMirrorsInbox
<1>9. DeliveredIsDone'
  <2>1. deliveries[cur] = 1 => outcome[cur] = "hit"
    BY <1>2 DEF IInv, DeliveredIsDone
  <2>2. QED
    BY <1>1, <1>3, <1>5, <2>1 DEF IInv, DeliveredIsDone
<1>10. QED
  BY <1>6, <1>7, <1>8, <1>9 DEF IInv

\* The turn's input holds only messages that were never delivered.
LEMMA QueryStep ==
    ASSUME IInv, TypeOK', QueryAccepted
    PROVE  IInv'
<1>1. /\ UNCHANGED <<row, inbox, seen, pending, inFlight, outcome, cur>>
      /\ batch' = {} /\ pc = "query" /\ pc' = "turn"
      /\ \A x : InInbox(x)' = InInbox(x)
      /\ \A x : ~Taken(x)'
  BY DEF QueryAccepted, callbackVars, steerVars, InInbox, Taken
<1>2. \A x \in Messages :
        /\ x \in batch => deliveries[x] = 0 /\ deliveries'[x] = 1
        /\ x \notin batch => deliveries'[x] = deliveries[x]
  <2> SUFFICES ASSUME NEW x \in Messages
               PROVE  /\ x \in batch => deliveries[x] = 0 /\ deliveries'[x] = 1
                      /\ x \notin batch => deliveries'[x] = deliveries[x]
    OBVIOUS
  <2>1. deliveries'[x] = IF x \in batch THEN deliveries[x] + 1 ELSE deliveries[x]
    BY DEF QueryAccepted
  <2>2. x \in batch => deliveries[x] = 0
    BY DEF IInv, DeliveredIsDone
  <2>3. QED
    BY <2>1, <2>2
<1>3. \A x \in Messages : x \in batch => /\ Taken(x) /\ x \in seen /\ ~InInbox(x)
                                         /\ outcome[x] \notin {"open", "hit"}
  BY DEF Taken, IInv, OnePlace, AttemptsTracked
<1>4. OnePlace'
  BY <1>1 DEF IInv, OnePlace
<1>5. AttemptsTracked'
  BY <1>1 DEF IInv, AttemptsTracked
<1>6. PendingMirrorsInbox'
  BY <1>1 DEF IInv, PendingMirrorsInbox
<1>7. DeliveredIsDone'
  BY <1>1, <1>2, <1>3 DEF IInv, DeliveredIsDone
<1>8. QED
  BY <1>4, <1>5, <1>6, <1>7 DEF IInv

LEMMA InvariantStep == IInv /\ [Next]_vars => IInv'
<1> SUFFICES ASSUME IInv, [Next]_vars
             PROVE  IInv'
  OBVIOUS
<1>1. TypeOK'
  BY TypeStep DEF IInv
<1>2. ASSUME NEW m \in Messages,
             \/ CreateMessage(m) \/ CancelMessage(m) \/ SteerMessage(m)
             \/ Route(m) \/ EnqueueAlreadyQueued(m) \/ OnCancelled(m) \/ OnSteer(m)
             \/ SteerResolves(m) \/ MergeStamp(m)
      PROVE  IInv'
  BY <1>1, <1>2, RowStep, RouteStep, OnSteerStep, ResolveStep DEF SteerResolves
<1>3. ASSUME RunLoop
      PROVE  IInv'
  BY <1>1, <1>2, <1>3, RowStep, TurnStep, DequeueStep, OutcomeStep, QueryStep DEF RunLoop
<1>4. CASE UNCHANGED vars
  <2>1. pc' \in {"wait", "turn"} => batch' = {}
    BY <1>4 DEF vars, loopVars, IInv, OnePlace
  <2>2. QED
    BY <1>1, <1>4, <2>1, QuietStep DEF vars, callbackVars, steerVars, loopVars
<1>5. QED
  BY <1>1, <1>2, <1>3, <1>4, RowStep, TurnStep DEF Next

-----------------------------------------------------------------------------
(* Theorems.                                                               *)

\* The inductive invariant holds of every run.
THEOREM Invariant == Spec => []IInv
<1>1. QED
  BY InitIInv, InvariantStep, PTL DEF Spec

\* Type correctness.
THEOREM TypeCorrect == Spec => []TypeOK
<1>1. IInv => TypeOK
  BY DEF IInv
<1>2. QED
  BY <1>1, Invariant, PTL

\* The agent is given no message twice, whatever the channels repeat and
\* whenever a Steer request meets the run loop.
THEOREM DeliveryAtMostOnce == Spec => []AtMostOnce
<1>1. IInv => AtMostOnce
  BY DEF IInv, DeliveredIsDone, AtMostOnce
<1>2. QED
  BY <1>1, Invariant, PTL

\* _pending_by_id holds exactly the queued messages that a Steer request may
\* still deliver.
THEOREM PendingMirrors == Spec => []PendingMirrorsInbox
<1>1. IInv => PendingMirrorsInbox
  BY DEF IInv
<1>2. QED
  BY <1>1, Invariant, PTL

\* Consumed and cancelled rows stay, whichever endpoint writes them next.
THEOREM TerminalRows == Spec => TerminalRowsStay
<1>1. ASSUME TypeOK, Next, NEW m \in Messages, row[m] \in {"consumed", "cancelled"}
      PROVE  row'[m] = row[m]
  <2>1. CASE UNCHANGED row
    BY <2>1
  <2>2. ASSUME NEW x \in Messages, CreateMessage(x) \/ CancelMessage(x) \/ SteerMessage(x)
        PROVE  row'[m] = row[m]
    BY <1>1, <2>2 DEF CreateMessage, CancelMessage, SteerMessage, TypeOK
  <2>3. ASSUME NEW p \in patches, PatchLands(p)
        PROVE  row'[m] = row[m]
    BY <1>1, <2>3 DEF PatchLands, MarkedConsumed, Requeued, TypeOK, Patch
  <2>4. ASSUME NEW x \in Messages, MergeStamp(x)
        PROVE  row'[m] = row[m]
    BY <1>1, <2>4 DEF MergeStamp, MarkedConsumed, TypeOK
  <2>5. CASE MarkPrimary
    BY <1>1, <2>5 DEF MarkPrimary, MarkedConsumed, TypeOK
  <2>6. ASSUME NEW x \in Messages,
               Route(x) \/ EnqueueAlreadyQueued(x) \/ OnCancelled(x) \/ OnSteer(x)
               \/ SteerDelivered(x) \/ SteerFailed(x)
        PROVE  UNCHANGED row
    BY <2>6 DEF Route, EnqueueAlreadyQueued, OnCancelled, OnSteer, SteerDelivered,
                SteerFailed
  <2>7. CASE \/ Dequeue \/ OutcomeArrives \/ StartSingle \/ StartMerge \/ StartMerged
             \/ OpenForeground \/ QueryAccepted \/ QueryFailed \/ TurnEnds
             \/ CloseTurn \/ OpenAutonomous \/ ForceCloseTurns
    BY <2>1, <2>7 DEF Dequeue, OutcomeArrives, StartSingle, StartMerge, StartMerged,
           OpenForeground, QueryAccepted, QueryFailed, TurnEnds, CloseTurn,
           OpenAutonomous, ForceCloseTurns
  <2>8. QED
    BY <1>1, <2>1, <2>2, <2>3, <2>4, <2>5, <2>6, <2>7 DEF Next, RunLoop, SteerResolves
<1>2. TypeOK /\ [Next]_vars =>
        [\A m \in Messages :
           row[m] \in {"consumed", "cancelled"} => row'[m] = row[m]]_vars
  BY <1>1
<1>3. QED
  BY <1>2, TypeCorrect, PTL DEF Spec, TerminalRowsStay

-----------------------------------------------------------------------------
(* The rows and the runner.                                                *)

\* Nothing is known of any message yet.
LEMMA InitRowInv == Init => RowInv
<1> SUFFICES ASSUME Init PROVE RowInv
  OBVIOUS
<1>1. LoopKnows
  BY DEF Init, LoopKnows
<1>2. RowsKnow
  BY DEF Init, RowsKnow, ConsumedIsTaken
<1>3. QED
  BY <1>1, <1>2, InitIInv DEF RowInv

\* The run loop's own bookkeeping.
LEMMA LoopKnowsStep ==
    ASSUME IInv, LoopKnows, [Next]_vars
    PROVE  LoopKnows'
<1> USE DEF LoopKnows, callbackVars, steerVars, loopVars
<1>1. CASE UNCHANGED <<batch, primary, toStamp, cur, pc>>
  BY <1>1
<1>2. ASSUME NEW m \in Messages,
             \/ CreateMessage(m) \/ CancelMessage(m) \/ SteerMessage(m) \/ Route(m)
             \/ EnqueueAlreadyQueued(m) \/ OnCancelled(m) \/ OnSteer(m)
             \/ SteerDelivered(m) \/ SteerFailed(m)
      PROVE  LoopKnows'
  BY <1>1, <1>2 DEF CreateMessage, CancelMessage, SteerMessage, Route,
     EnqueueAlreadyQueued, OnCancelled, OnSteer, SteerDelivered, SteerFailed
<1>3. CASE \/ \E p \in patches : PatchLands(p)
           \/ CloseTurn \/ OpenAutonomous \/ ForceCloseTurns
  BY <1>1, <1>3 DEF PatchLands, CloseTurn, OpenAutonomous, ForceCloseTurns
<1>4. CASE Dequeue
  <2>1. \/ pc' = pc /\ UNCHANGED <<batch, primary, toStamp, cur>>
        \/ pc' = "outcome" /\ UNCHANGED <<batch, primary, toStamp>>
        \/ /\ pc' = "drain" /\ batch' = batch \cup {Head(inbox)}
           /\ primary' = IF batch = {} THEN Head(inbox) ELSE primary
           /\ UNCHANGED <<toStamp, cur>>
    BY <1>4 DEF Dequeue, HasAttempt, Dropped
  <2>2. pc \in {"wait", "drain"}
    BY <1>4 DEF Dequeue
  <2>3. QED
    BY <2>1, <2>2
<1>5. CASE OutcomeArrives
  BY <1>5 DEF OutcomeArrives
<1>6. CASE StartSingle \/ StartMerge \/ StartMerged
  BY <1>6 DEF StartSingle, StartMerge, StartMerged, EnterTurn
<1>7. ASSUME NEW m \in Messages, MergeStamp(m)
      PROVE  LoopKnows'
  BY <1>7 DEF MergeStamp
<1>8. CASE MarkPrimary \/ OpenForeground \/ QueryAccepted \/ QueryFailed \/ TurnEnds
  BY <1>8 DEF MarkPrimary, OpenForeground, QueryAccepted, QueryFailed, TurnEnds
<1>9. QED
  BY <1>1, <1>2, <1>3, <1>4, <1>5, <1>6, <1>7, <1>8
  DEF Next, RunLoop, SteerResolves, vars

\* A message that is stamped by the run loop is none that still waits.
LEMMA StampStep ==
    ASSUME RowInv, NEW m \in Messages, m \in batch, row' \in {MarkedConsumed(m), row},
           UNCHANGED <<cancelled, patches, outcome, inbox, seen>>
    PROVE  RowsKnow'
<1>1. m \in seen /\ ~InInbox(m)
  BY DEF RowInv, IInv, OnePlace, Taken
<1>2. \A x \in Messages : row[x] = "cancelled" => row'[x] = "cancelled"
  BY DEF RowInv, IInv, TypeOK, MarkedConsumed
<1>3. \A x \in Messages : row'[x] = "consumed" => row[x] = "consumed" \/ x = m
  BY DEF RowInv, IInv, TypeOK, MarkedConsumed
<1>4. \A x : InInbox(x)' = InInbox(x)
  BY DEF InInbox
<1>5. QED
  BY <1>1, <1>2, <1>3, <1>4 DEF RowInv, IInv, TypeOK, RowsKnow, ConsumedIsTaken

\* What an action that stamps nothing respects.
Unstamped ==
    /\ \A x \in Messages : row[x] = "cancelled" => row'[x] = "cancelled"
    /\ \A x \in Messages : row'[x] = "consumed" =>
          row[x] = "consumed" \/ (x \in seen /\ outcome[x] = "hit")
    /\ \A x \in cancelled' : x \in cancelled \/ row'[x] = "cancelled"
    /\ \A p \in patches' : p.op = "consumed" => p \in patches \/ outcome'[p.id] = "hit"
    /\ \A x \in Messages : outcome[x] = "hit" => outcome'[x] = "hit"
    /\ seen \subseteq seen'
    /\ \A x \in Messages : InInbox(x)' => InInbox(x) \/ x \notin seen

LEMMA UnstampedStep ==
    ASSUME RowInv, Unstamped
    PROVE  RowsKnow'
<1> USE DEF Unstamped
<1>1. \A x \in cancelled' : row'[x] = "cancelled"
  BY DEF RowInv, IInv, TypeOK, RowsKnow
<1>2. \A p \in patches' : p.op = "consumed" => outcome'[p.id] = "hit"
  BY DEF RowInv, IInv, TypeOK, RowsKnow, Patch
<1>3. ASSUME NEW x \in Messages, row'[x] = "consumed"
      PROVE  x \in seen' /\ (InInbox(x)' => outcome'[x] = "hit")
  <2>1. x \in seen /\ (InInbox(x) => outcome[x] = "hit")
    BY <1>3 DEF RowInv, RowsKnow, ConsumedIsTaken
  <2>2. QED
    BY <2>1
<1>4. QED
  BY <1>1, <1>2, <1>3 DEF RowsKnow, ConsumedIsTaken

\* A delivered message was seen, and nothing starts a new attempt for it.
LEMMA HitStays ==
    ASSUME RowInv, NEW x \in Messages, outcome[x] = "hit"
    PROVE  x \in seen /\ x \notin pending
BY DEF RowInv, IInv, DeliveredIsDone, PendingMirrorsInbox

LEMMA RowsKnowStep ==
    ASSUME RowInv, [Next]_vars
    PROVE  RowsKnow'
<1> USE DEF callbackVars, steerVars, loopVars
<1>0. TypeOK
  BY DEF RowInv, IInv
<1>1. ASSUME UNCHANGED <<row, patches, outcome, seen>>,
             cancelled' \subseteq cancelled,
             \A x : InInbox(x)' => InInbox(x)
      PROVE  RowsKnow'
  BY <1>1 DEF RowInv, RowsKnow, ConsumedIsTaken
<1>2. ASSUME NEW m \in Messages, CreateMessage(m) \/ CancelMessage(m) \/ SteerMessage(m)
      PROVE  RowsKnow'
  <2>1. UNCHANGED <<cancelled, patches, outcome, inbox, seen>>
    BY <1>2 DEF CreateMessage, CancelMessage, SteerMessage
  <2>2. /\ \A x \in Messages : row[x] = "cancelled" => row'[x] = "cancelled"
        /\ \A x \in Messages : row'[x] = "consumed" => row[x] = "consumed"
    BY <1>0, <1>2 DEF CreateMessage, CancelMessage, SteerMessage, TypeOK
  <2>3. \A x : InInbox(x)' = InInbox(x)
    BY <2>1 DEF InInbox
  <2>4. QED
    BY <2>1, <2>2, <2>3, UnstampedStep DEF Unstamped
<1>3. ASSUME NEW m \in Messages, Route(m) \/ EnqueueAlreadyQueued(m)
      PROVE  RowsKnow'
  <2>1. /\ UNCHANGED <<row, cancelled, patches>> /\ m \notin seen
        /\ seen' = seen \cup {m} /\ inbox' = Append(inbox, m)
    BY <1>3 DEF Route, EnqueueAlreadyQueued, Enqueue
  <2>2. \A x \in Messages : outcome[x] = "hit" => outcome'[x] = "hit"
    BY <1>0, <1>3, HitStays DEF Route, EnqueueAlreadyQueued, BeginSteer, TypeOK
  <2>3. ~InInbox(m)
    BY <2>1 DEF RowInv, IInv, OnePlace
  <2>4. \A x : InInbox(x)' <=> InInbox(x) \/ x = m
    BY <1>0, <2>1, <2>3, AppendInbox DEF TypeOK, RowInv, IInv, OnePlace
  <2>5. QED
    BY <2>1, <2>2, <2>4, UnstampedStep DEF Unstamped
<1>4. ASSUME NEW m \in Messages, OnCancelled(m)
      PROVE  RowsKnow'
  <2>1. \A x : InInbox(x)' = InInbox(x)
    BY <1>4 DEF OnCancelled, InInbox
  <2>2. QED
    BY <1>4, <2>1, UnstampedStep DEF Unstamped, OnCancelled
<1>5. ASSUME NEW m \in Messages, OnSteer(m)
      PROVE  RowsKnow'
  <2>1. /\ UNCHANGED <<row, cancelled, patches, seen>>
        /\ \A x : InInbox(x)' = InInbox(x)
    BY <1>5 DEF OnSteer, InInbox
  <2>2. \A x \in Messages : outcome[x] = "hit" => outcome'[x] = "hit"
    BY <1>0, <1>5, HitStays DEF OnSteer, BeginSteer, TypeOK
  <2>3. QED
    BY <2>1, <2>2, UnstampedStep DEF Unstamped
<1>6. ASSUME NEW m \in Messages, SteerDelivered(m) \/ SteerFailed(m)
      PROVE  RowsKnow'
  <2>1. /\ UNCHANGED <<row, cancelled, seen>>
        /\ \A x : InInbox(x)' = InInbox(x)
    BY <1>6 DEF SteerDelivered, SteerFailed, InInbox
  <2>2. \A x \in Messages : outcome[x] = "hit" => outcome'[x] = "hit"
    BY <1>0, <1>6 DEF SteerDelivered, SteerFailed, Resolve, TypeOK
  <2>3. \A p \in patches' : p.op = "consumed" => p \in patches \/ outcome'[p.id] = "hit"
    BY <1>0, <1>6 DEF SteerDelivered, SteerFailed, Resolve, Report, TypeOK
  <2>4. QED
    BY <2>1, <2>2, <2>3, UnstampedStep DEF Unstamped
<1>7. ASSUME NEW p \in patches, PatchLands(p)
      PROVE  RowsKnow'
  <2>1. /\ UNCHANGED <<cancelled, seen, outcome>> /\ patches' = patches \ {p}
        /\ \A x : InInbox(x)' = InInbox(x)
    BY <1>7 DEF PatchLands, InInbox
  <2>2. \A x \in Messages : row[x] = "cancelled" => row'[x] = "cancelled"
    BY <1>0, <1>7 DEF PatchLands, MarkedConsumed, Requeued, TypeOK, Patch
  <2>3. p.op = "consumed" => outcome[p.id] = "hit" /\ p.id \in Messages
    BY <1>0 DEF RowInv, RowsKnow, TypeOK, Patch
  <2>4. \A x \in Messages : row'[x] = "consumed" =>
          row[x] = "consumed" \/ (x \in seen /\ outcome[x] = "hit")
    BY <1>0, <1>7, <2>3, HitStays DEF PatchLands, MarkedConsumed, Requeued, TypeOK, Patch
  <2>5. QED
    BY <2>1, <2>2, <2>4, UnstampedStep DEF Unstamped
<1>8. CASE Dequeue
  <2>1. /\ UNCHANGED <<row, patches, outcome, seen>> /\ cancelled' \subseteq cancelled
        /\ inbox # <<>> /\ inbox' = Tail(inbox)
    BY <1>8 DEF Dequeue
  <2>2. \A x : InInbox(x)' => InInbox(x)
    BY <1>0, <2>1, TailInbox DEF RowInv, IInv, TypeOK, OnePlace
  <2>3. QED
    BY <1>1, <2>1, <2>2
<1>9. CASE \/ OutcomeArrives \/ StartSingle \/ StartMerge \/ StartMerged
           \/ OpenForeground \/ QueryAccepted \/ QueryFailed \/ TurnEnds
           \/ CloseTurn \/ OpenAutonomous \/ ForceCloseTurns \/ UNCHANGED vars
  <2>1. /\ UNCHANGED <<row, patches, outcome, seen, inbox>> /\ cancelled' \subseteq cancelled
    BY <1>9 DEF OutcomeArrives, StartSingle, StartMerge, StartMerged, EnterTurn,
       OpenForeground, QueryAccepted, QueryFailed, TurnEnds, CloseTurn,
       OpenAutonomous, ForceCloseTurns, vars
  <2>2. \A x : InInbox(x)' => InInbox(x)
    BY <2>1 DEF InInbox
  <2>3. QED
    BY <1>1, <2>1, <2>2
<1>10. ASSUME NEW m \in Messages, MergeStamp(m)
       PROVE  RowsKnow'
  <2>1. m \in batch
    BY <1>10 DEF MergeStamp, RowInv, LoopKnows
  <2>2. QED
    BY <1>10, <2>1, StampStep DEF MergeStamp
<1>11. CASE MarkPrimary
  <2>1. primary \in batch /\ primary \in Messages
    BY <1>0, <1>11 DEF MarkPrimary, RowInv, LoopKnows, TypeOK
  <2>2. QED
    BY <1>11, <2>1, StampStep DEF MarkPrimary
<1>12. QED
  BY <1>2, <1>3, <1>4, <1>5, <1>6, <1>7, <1>8, <1>9, <1>10, <1>11
  DEF Next, RunLoop, SteerResolves

\* RowInv holds of every run.
THEOREM RowInvariant == Spec => []RowInv
<1>1. RowInv /\ [Next]_vars => RowInv'
  BY InvariantStep, LoopKnowsStep, RowsKnowStep DEF RowInv
<1>2. QED
  BY <1>1, InitRowInv, PTL DEF Spec

\* No row says consumed while its message waits undelivered in the queue.
THEOREM ConsumedTaken == Spec => []ConsumedIsTaken
<1>1. RowInv => ConsumedIsTaken
  BY DEF RowInv, RowsKnow
<1>2. QED
  BY <1>1, RowInvariant, PTL

-----------------------------------------------------------------------------
(* A cancellation that reached the runner.                                 *)

\* What a step can do to a message the user cancelled.
LEMMA DoomedStep ==
    ASSUME RowInv, Next, NEW m \in Messages, Doomed(m)
    PROVE  \/ Doomed(m)'
           \/ /\ ~InInbox(m)' /\ m \notin batch' /\ cur' # m
              /\ deliveries'[m] = deliveries[m]
<1> USE DEF callbackVars, steerVars, loopVars
<1>1. /\ TypeOK /\ OnePlace
      /\ m \in cancelled /\ m \notin inFlight /\ m \notin steerSent
      /\ m \in seen /\ m \notin batch /\ row[m] = "cancelled" /\ InInbox(m)
  BY DEF Doomed, RowInv, IInv, OnePlace, Taken, RowsKnow
<1>2. ASSUME UNCHANGED <<inbox, inFlight>>, m \in cancelled', m \notin steerSent'
      PROVE  Doomed(m)'
  BY <1>1, <1>2 DEF Doomed, InInbox
<1>3. ASSUME NEW x \in Messages,
             \/ CreateMessage(x) \/ CancelMessage(x) \/ SteerMessage(x) \/ OnCancelled(x)
             \/ SteerDelivered(x) \/ MergeStamp(x)
      PROVE  Doomed(m)'
  BY <1>1, <1>2, <1>3 DEF CreateMessage, CancelMessage, SteerMessage, OnCancelled,
     SteerDelivered, MergeStamp
<1>4. ASSUME NEW x \in Messages, SteerFailed(x) \/ OnSteer(x)
      PROVE  Doomed(m)'
  <2>1. UNCHANGED <<inbox, cancelled>> /\ m \notin inFlight' /\ steerSent' \subseteq steerSent
    BY <1>1, <1>4 DEF SteerFailed, OnSteer, BeginSteer
  <2>2. QED
    BY <1>1, <2>1 DEF Doomed, InInbox
<1>5. ASSUME NEW x \in Messages, Route(x) \/ EnqueueAlreadyQueued(x)
      PROVE  Doomed(m)'
  <2>1. x \notin seen /\ x # m /\ UNCHANGED <<cancelled, steerSent>> /\ inbox' = Append(inbox, x)
    BY <1>1, <1>5 DEF Route, EnqueueAlreadyQueued, Enqueue
  <2>2. m \notin inFlight'
    BY <1>1, <1>5, <2>1 DEF Route, EnqueueAlreadyQueued, BeginSteer
  <2>3. ~InInbox(x)
    BY <1>1, <2>1 DEF OnePlace
  <2>4. InInbox(m)'
    BY <1>1, <2>1, <2>3, AppendInbox DEF TypeOK, OnePlace
  <2>5. QED
    BY <1>1, <2>1, <2>2, <2>4 DEF Doomed
<1>6. CASE \/ \E p \in patches : PatchLands(p)
           \/ OutcomeArrives \/ StartMerge \/ MarkPrimary \/ OpenForeground
           \/ QueryAccepted \/ QueryFailed \/ TurnEnds \/ CloseTurn
           \/ OpenAutonomous \/ ForceCloseTurns
  BY <1>1, <1>2, <1>6 DEF PatchLands, OutcomeArrives, StartMerge, MarkPrimary,
     OpenForeground, QueryAccepted, QueryFailed, TurnEnds, CloseTurn,
     OpenAutonomous, ForceCloseTurns
<1>7. CASE StartSingle \/ StartMerged
  <2>1. primary \in batch
    BY <1>7 DEF StartSingle, StartMerged, RowInv, LoopKnows
  <2>2. QED
    BY <1>1, <1>2, <1>7, <2>1 DEF StartSingle, StartMerged, EnterTurn
<1>8. CASE Dequeue
  <2>1. \A x : InInbox(x)' <=> InInbox(x) /\ x # Head(inbox)
    BY <1>1, <1>8, TailInbox DEF Dequeue, TypeOK, OnePlace
  <2>2. CASE m = Head(inbox)
    <3>1. batch' = batch /\ cur' = cur /\ UNCHANGED deliveries
      BY <1>1, <1>8, <2>2 DEF Dequeue, Dropped
    <3>2. cur # m
      BY <1>8, NoneAssumption DEF Dequeue, RowInv, LoopKnows
    <3>3. QED
      BY <1>1, <2>1, <2>2, <3>1, <3>2
  <2>3. CASE m # Head(inbox)
    <3>1. m \in cancelled' /\ m \notin inFlight' /\ m \notin steerSent'
      BY <1>1, <1>8, <2>3 DEF Dequeue
    <3>2. QED
      BY <1>1, <2>1, <2>3, <3>1 DEF Doomed
  <2>4. QED
    BY <2>2, <2>3
<1>9. QED
  BY <1>3, <1>4, <1>5, <1>6, <1>7, <1>8 DEF Next, RunLoop, SteerResolves

\* A message whose cancellation reached the runner in its queue is dropped.
THEOREM CancelledDropped == Spec => CancelledIsDropped
<1>1. RowInv /\ [Next]_vars =>
        [\A m \in Messages :
          Doomed(m) => \/ Doomed(m)'
                       \/ /\ ~InInbox(m)' /\ m \notin batch' /\ cur' # m
                          /\ deliveries'[m] = deliveries[m]]_vars
  BY DoomedStep
<1>2. QED
  BY <1>1, RowInvariant, PTL DEF Spec, CancelledIsDropped

-----------------------------------------------------------------------------
(* Refinement.                                                             *)

sentMessages == {m \in Messages : row[m] # "absent"}

LEMMA PromiseInit == Init => Promise!Init
BY DEF Init, Promise!Init

\* Creating a message sends it; only the steer task and the run loop give it,
\* and only for the first time.
LEMMA PromiseStep ==
    ASSUME RowInv, Next
    PROVE  Promise!Next \/ UNCHANGED <<sentMessages, deliveries>>
<1> USE DEF callbackVars, steerVars, loopVars
<1>1. TypeOK /\ IInv
  BY DEF RowInv, IInv
<1>2. ASSUME UNCHANGED deliveries,
             \A m \in Messages : row'[m] # "absent" <=> row[m] # "absent"
      PROVE  UNCHANGED <<sentMessages, deliveries>>
  BY <1>2 DEF sentMessages
<1>3. ASSUME NEW m \in Messages, CreateMessage(m)
      PROVE  Promise!Send(m)
  <2>1. m \notin sentMessages /\ sentMessages' = sentMessages \cup {m}
    BY <1>1, <1>3 DEF CreateMessage, TypeOK, sentMessages
  <2>2. QED
    BY <1>3, <2>1 DEF CreateMessage, Promise!Send, sentMessages
<1>4. ASSUME NEW m \in Messages,
             \/ CancelMessage(m) \/ SteerMessage(m) \/ Route(m)
             \/ EnqueueAlreadyQueued(m) \/ OnCancelled(m) \/ OnSteer(m)
             \/ SteerFailed(m)
      PROVE  UNCHANGED <<sentMessages, deliveries>>
  BY <1>1, <1>2, <1>4 DEF CancelMessage, SteerMessage, Route, EnqueueAlreadyQueued,
     OnCancelled, OnSteer, SteerFailed, TypeOK
<1>5. ASSUME NEW S \in SUBSET Messages, UNCHANGED row,
             \A m \in S : m \in seen /\ deliveries[m] = 0,
             deliveries' = [m \in Messages |->
                              IF m \in S THEN deliveries[m] + 1 ELSE deliveries[m]]
      PROVE  Promise!Next
  <2>1. S \in SUBSET sentMessages /\ sentMessages' = sentMessages
    BY <1>1, <1>5 DEF IInv, OnePlace, sentMessages
  <2>2. \A m \in Messages : deliveries'[m] = IF m \in S THEN 1 ELSE deliveries[m]
    BY <1>5
  <2>3. deliveries' = [m \in Messages |-> IF m \in S THEN 1 ELSE deliveries[m]]
    BY <1>5, <2>2
  <2>4. Promise!Give(S)
    BY <1>5, <2>1, <2>3 DEF Promise!Give, sentMessages
  <2>5. QED
    BY <2>1, <2>4 DEF Promise!Next, sentMessages
<1>6. ASSUME NEW m \in Messages, SteerDelivered(m)
      PROVE  Promise!Next
  <2>1. m \in seen /\ deliveries[m] = 0
    BY <1>1, <1>6 DEF SteerDelivered, IInv, DeliveredIsDone
  <2>2. deliveries' = [x \in Messages |->
                         IF x \in {m} THEN deliveries[x] + 1 ELSE deliveries[x]]
    BY <1>1, <1>6 DEF SteerDelivered, TypeOK
  <2>3. QED
    BY <1>5, <1>6, <2>1, <2>2, {m} \in SUBSET Messages DEF SteerDelivered
<1>7. CASE QueryAccepted
  <2>1. \A m \in batch : m \in seen /\ deliveries[m] = 0
    BY <1>1 DEF IInv, OnePlace, Taken, DeliveredIsDone, TypeOK
  <2>2. QED
    BY <1>1, <1>5, <1>7, <2>1 DEF QueryAccepted, TypeOK
<1>8. ASSUME NEW m \in Messages, m \in seen, UNCHANGED deliveries,
             row' \in {MarkedConsumed(m), Requeued(m), row}
      PROVE  UNCHANGED <<sentMessages, deliveries>>
  <2>1. row[m] # "absent"
    BY <1>1, <1>8 DEF IInv, OnePlace
  <2>2. QED
    BY <1>1, <1>2, <1>8, <2>1 DEF MarkedConsumed, Requeued, TypeOK
<1>9. CASE \/ Dequeue \/ OutcomeArrives \/ StartSingle \/ StartMerge \/ StartMerged
           \/ OpenForeground \/ QueryFailed \/ TurnEnds \/ CloseTurn
           \/ OpenAutonomous \/ ForceCloseTurns
  BY <1>2, <1>9 DEF Dequeue, OutcomeArrives, StartSingle, StartMerge, StartMerged,
     OpenForeground, QueryFailed, TurnEnds, CloseTurn, OpenAutonomous, ForceCloseTurns
<1>10. ASSUME NEW m \in Messages, MergeStamp(m)
       PROVE  UNCHANGED <<sentMessages, deliveries>>
  <2>1. m \in seen
    BY <1>1, <1>10 DEF MergeStamp, RowInv, LoopKnows, IInv, OnePlace, Taken
  <2>2. QED
    BY <1>8, <1>10, <2>1 DEF MergeStamp
<1>11. CASE MarkPrimary
  <2>1. primary \in Messages /\ primary \in seen
    BY <1>1, <1>11 DEF MarkPrimary, RowInv, LoopKnows, IInv, OnePlace, Taken, TypeOK
  <2>2. QED
    BY <1>8, <1>11, <2>1 DEF MarkPrimary
<1>12. ASSUME NEW p \in patches, PatchLands(p)
       PROVE  UNCHANGED <<sentMessages, deliveries>>
  <2>1. p.id \in Messages
    BY <1>1 DEF TypeOK, Patch
  <2>2. CASE p.op = "consumed"
    <3>1. p.id \in seen
      BY <2>1, <2>2, HitStays DEF RowInv, RowsKnow
    <3>2. QED
      BY <1>8, <1>12, <2>1, <2>2, <3>1 DEF PatchLands
  <2>3. CASE p.op # "consumed"
    BY <1>1, <1>2, <1>12, <2>1, <2>3 DEF PatchLands, Requeued, TypeOK
  <2>4. QED
    BY <2>2, <2>3
<1>13. QED
  BY <1>3, <1>4, <1>6, <1>7, <1>9, <1>10, <1>11, <1>12
  DEF Next, RunLoop, SteerResolves, Promise!Next

\* The message queue implements the promise made to the user.
THEOREM QueueImplementsPromise == Spec => ImplementsPromise
<1>1. RowInv /\ [Next]_vars => [Promise!Next]_<<sentMessages, deliveries>>
  BY PromiseStep DEF vars, sentMessages
<1>2. QED
  BY <1>1, PromiseInit, RowInvariant, PTL DEF Spec, ImplementsPromise, Promise!Spec, sentMessages

=============================================================================
