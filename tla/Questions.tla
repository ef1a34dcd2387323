----------------------------- MODULE Questions -----------------------------
(***************************************************************************)
(* How the headless Claude runner asks its user something and gets the     *)
(* reply.  A can_use_tool callback registers a future, posts a prompt and  *)
(* awaits the future; _route gives every inbound user row to at most one   *)
(* of: the AskUserQuestion registry, the permission registry, the control  *)
(* commands, the input queue.                                              *)
(*                                                                         *)
(* A row comes over the WebSocket at any time, once (module SessionStream: *)
(* CallbackOnce), or never; and once more over REST if the reconcile       *)
(* backstop finds it behind last_read_message_id while a reply is pending. *)
(*                                                                         *)
(* The CLI asks one thing at a time within a turn.  A callback that        *)
(* outlives its turn (the SDK does not cancel it) is an orphan: the next   *)
(* turn may ask while it still waits.  Permissions that the session's      *)
(* cache answers are not asked and do not appear here.                     *)
(***************************************************************************)
EXTENDS Naturals, Sequences, FiniteSets, SequencesExt

CONSTANTS
    Questions,      \* AskUserQuestion calls of the session
    Permissions,    \* tool calls that need a permission
    Rows,           \* user rows of the session
    Says            \* kinds of rows the user writes

None == "none"
Prompts == Questions \cup Permissions

\* A picker's submit or cancel, a permission button, typed text, Stop, and any
\* other control row (a setting, or a persist_only note).
Kinds == {"submit", "cancel", "verdict", "chat", "stop", "control"}

ASSUME QuestionsAssumption ==
    /\ Questions \cap Permissions = {}
    /\ None \notin Prompts \cup Rows
    /\ Says \subseteq Kinds

VARIABLES
    phase,          \* where the callback of each prompt is
    fut,            \* its future
    byRequest,      \* keys of _auq_registry._by_request_id (one per question)
    byMessage,      \* questions in _auq_registry._by_message_id
    auqFifo,        \* _auq_registry._fifo
    permKeys,       \* keys of _permission_registry._by_request_id
    permFifo,       \* _permission_registry._fifo
    content,        \* what each row says
    unread,         \* rows behind last_read_message_id, oldest first
    wsSeen,         \* rows the WebSocket client delivered
    rest, restRows, \* the REST recovery, and the rows it has yet to route
    seen, inbox,    \* _seen_user_message_ids and _user_message_queue
    turn,           \* a turn is open
    interrupted,    \* interrupt_requested
    stopping,       \* _handle_interrupt awaits claude_client.interrupt()
    orphans,        \* prompts whose turn ended before their callback
    takenBy,        \* the row that settled each prompt
    queuedOnce,     \* rows that were put in the inbox
    passedOver      \* rows the cursor passed without anybody reading them

registryVars == <<byRequest, byMessage, auqFifo, permKeys, permFifo>>
rowVars      == <<content, unread, wsSeen>>
restVars     == <<rest, restRows>>
turnVars     == <<turn, orphans>>
routeVars    == <<fut, registryVars, seen, inbox, interrupted, stopping, takenBy,
                  queuedOnce>>
vars == <<phase, routeVars, rowVars, restVars, turnVars, passedOver>>

\* A picker submit names its question; the other contents name nothing.
Content == [type : {"submit"}, to : Questions] \cup [type : Kinds \ {"submit"}, to : {None}]
Unwritten == [type |-> None, to |-> None]

Phases == {"idle", "pause", "posting", "posted", "waiting", "answered", "denied",
           "failed"}
Settled(p) == phase[p] \in {"answered", "denied", "failed"}
Running(p) == phase[p] \in {"pause", "posting", "posted", "waiting"}

TypeOK ==
    /\ phase \in [Prompts -> Phases]
    /\ fut \in [Prompts -> {None, "pending", "result", "cancelled"}]
    /\ byRequest \subseteq Questions /\ byMessage \subseteq Questions
    /\ permKeys \subseteq Permissions
    /\ auqFifo \in Seq(Questions) /\ permFifo \in Seq(Permissions)
    /\ content \in [Rows -> Content \cup {Unwritten}]
    /\ unread \in Seq(Rows) /\ restRows \in Seq(Rows) /\ inbox \in Seq(Rows)
    /\ wsSeen \cup seen \cup queuedOnce \cup passedOver \subseteq Rows
    /\ rest \in {"idle", "sent", "route"}
    /\ {turn, interrupted, stopping} \subseteq BOOLEAN
    /\ orphans \subseteq Prompts
    /\ takenBy \in [Prompts -> Rows \cup {None}]

\* A session whose first turn runs.
Init ==
    /\ phase = [p \in Prompts |-> "idle"]
    /\ fut = [p \in Prompts |-> None]
    /\ byRequest = {} /\ byMessage = {} /\ auqFifo = <<>>
    /\ permKeys = {} /\ permFifo = <<>>
    /\ content = [r \in Rows |-> Unwritten]
    /\ unread = <<>> /\ wsSeen = {} /\ rest = "idle" /\ restRows = <<>>
    /\ seen = {} /\ inbox = <<>>
    /\ turn = TRUE /\ interrupted = FALSE /\ stopping = FALSE /\ orphans = {}
    /\ takenBy = [p \in Prompts |-> None]
    /\ queuedOnce = {} /\ passedOver = {}

-----------------------------------------------------------------------------
(* The registries.                                                         *)

\* has_pending: the question registry looks at its futures, the permission
\* registry only at its FIFO.
QuestionPending == \E i \in DOMAIN auqFifo : fut[auqFifo[i]] = "pending"
PermissionPending == permFifo # <<>>

\* Slip: every prompt goes to the question registry.
RegisterAsQuestion(p) ==
    /\ fut' = [fut EXCEPT ![p] = "pending"]
    /\ byRequest' = byRequest \cup {p}
    /\ auqFifo' = Append(auqFifo, p)
    /\ UNCHANGED <<byMessage, permKeys, permFifo>>

Register(p) ==
    /\ fut' = [fut EXCEPT ![p] = "pending"]
    /\ IF p \in Questions
       THEN /\ byRequest' = byRequest \cup {p}
            /\ auqFifo' = Append(auqFifo, p)
            /\ UNCHANGED <<byMessage, permKeys, permFifo>>
       ELSE /\ permKeys' = permKeys \cup {p}
            /\ permFifo' = Append(permFifo, p)
            /\ UNCHANGED <<byRequest, byMessage, auqFifo>>

\* Slip: the entry under the prompt's message id is left behind.
ForgetRequest(p) ==
    /\ byRequest' = byRequest \ {p}
    /\ auqFifo' = RemoveFirst(auqFifo, p)
    /\ permKeys' = permKeys \ {p}
    /\ permFifo' = RemoveFirst(permFifo, p)
    /\ UNCHANGED byMessage

\* _forget of whichever registry has p; _fifo.remove takes the first occurrence.
Forget(p) ==
    /\ byRequest' = byRequest \ {p}
    /\ byMessage' = byMessage \ {p}
    /\ auqFifo' = RemoveFirst(auqFifo, p)
    /\ permKeys' = permKeys \ {p}
    /\ permFifo' = RemoveFirst(permFifo, p)

\* _lookup: by request id (or the message id, when only that is known), else
\* the head of the FIFO.
Addressee(c) ==
    IF c.to # None /\ c.to \in byRequest \cup byMessage THEN c.to
    ELSE IF auqFifo # <<>> THEN Head(auqFifo) ELSE None

-----------------------------------------------------------------------------
(* Routing a row: claude_code._route.                                      *)

\* The prompt that takes a row with content c, None if it is no reply.
Taker(c) ==
    IF c.type \in {"submit", "cancel"} /\ Addressee(c) # None THEN Addressee(c)
    ELSE IF PermissionPending THEN Head(permFifo)
    ELSE IF c.type \in {"chat", "verdict"} /\ QuestionPending THEN Head(auqFifo)
    ELSE None

\* A future that is done already discards the reply.  Only a typed answer to a
\* question is remembered by its id.
Take(r, p) ==
    /\ Forget(p)
    /\ fut' = IF fut[p] = "pending" THEN [fut EXCEPT ![p] = "result"] ELSE fut
    /\ takenBy' = IF fut[p] = "pending" THEN [takenBy EXCEPT ![p] = r] ELSE takenBy
    /\ seen' = IF p \in Questions /\ content[r].type \in {"chat", "verdict"}
               THEN seen \cup {r} ELSE seen
    /\ UNCHANGED <<inbox, interrupted, stopping, queuedOnce>>

\* Slip: nothing is queued while a Stop unwinds.
EnqueueUnlessStopped(r) ==
    /\ seen' = seen \cup {x \in {r} : ~interrupted}
    /\ inbox' = IF interrupted THEN inbox ELSE Append(inbox, r)
    /\ queuedOnce' = queuedOnce \cup {x \in {r} : ~interrupted}
    /\ UNCHANGED <<fut, registryVars, interrupted, stopping, takenBy>>

Enqueue(r) ==
    /\ seen' = seen \cup {r}
    /\ inbox' = IF r \in seen THEN inbox ELSE Append(inbox, r)
    /\ queuedOnce' = queuedOnce \cup (IF r \in seen THEN {} ELSE {r})
    /\ UNCHANGED <<fut, registryVars, interrupted, stopping, takenBy>>

\* _handle_interrupt up to its first await; a repeated Stop with no turn open
\* does nothing.
BeginStop ==
    /\ interrupted' = TRUE
    /\ stopping' = (stopping \/ turn \/ ~interrupted)
    /\ UNCHANGED <<fut, registryVars, seen, inbox, takenBy, queuedOnce>>

Route(r) ==
    LET c == content[r]
    IN  \/ Taker(c) # None /\ Take(r, Taker(c))
        \/ Taker(c) = None /\ c.type = "chat" /\ Enqueue(r)
        \/ Taker(c) = None /\ c.type = "stop" /\ BeginStop
        \/ /\ Taker(c) = None
           /\ c.type \in {"submit", "cancel", "verdict", "control"}
           /\ UNCHANGED routeVars

-----------------------------------------------------------------------------
(* The callback of a prompt.                                               *)

\* can_use_tool; a permission waits a second before it registers anything.
Ask(p) ==
    /\ turn /\ ~interrupted /\ phase[p] = "idle"
    /\ \A q \in Prompts : Running(q) => q \in orphans
    /\ IF p \in Questions
       THEN Register(p) /\ phase' = [phase EXCEPT ![p] = "posting"]
       ELSE /\ phase' = [phase EXCEPT ![p] = "pause"]
            /\ UNCHANGED <<fut, registryVars>>
    /\ UNCHANGED <<seen, inbox, interrupted, stopping, takenBy, queuedOnce, rowVars,
                   restVars, turnVars, passedOver>>

PauseOver(p) ==
    /\ phase[p] = "pause"
    /\ phase' = [phase EXCEPT ![p] = "posting"]
    /\ Register(p)
    /\ UNCHANGED <<seen, inbox, interrupted, stopping, takenBy, queuedOnce, rowVars,
                   restVars, turnVars, passedOver>>

\* The server stores an agent row: last_read_message_id is now that row.
MoveCursor ==
    /\ unread' = <<>>
    /\ passedOver' = passedOver \cup ToSet(unread)
    /\ UNCHANGED <<content, wsSeen>>

PostCommits(p) ==
    /\ phase[p] = "posting"
    /\ phase' = [phase EXCEPT ![p] = "posted"]
    /\ MoveCursor
    /\ UNCHANGED <<routeVars, restVars, turnVars>>

PostReturns(p) ==
    /\ phase[p] = "posted"
    /\ phase' = [phase EXCEPT ![p] = "waiting"]
    /\ byMessage' = byMessage \cup ({p} \cap byRequest)
    /\ UNCHANGED <<fut, byRequest, auqFifo, permKeys, permFifo, seen, inbox, interrupted,
                   stopping, takenBy, queuedOnce, rowVars, restVars, turnVars, passedOver>>

\* The finally of the callback: cancel(request_id).
Finish(p, result) ==
    /\ phase' = [phase EXCEPT ![p] = result]
    /\ fut' = IF p \in byRequest \cup permKeys /\ fut[p] = "pending"
              THEN [fut EXCEPT ![p] = "cancelled"] ELSE fut
    /\ Forget(p)
    /\ UNCHANGED <<seen, inbox, interrupted, stopping, takenBy, queuedOnce, rowVars,
                   restVars, turnVars, passedOver>>

PostFails(p) == phase[p] = "posting" /\ Finish(p, "failed")

\* wait_for's timer: the future is done, but the callback resumes later.
Expire(p) ==
    /\ phase[p] = "waiting" /\ fut[p] = "pending"
    /\ fut' = [fut EXCEPT ![p] = "cancelled"]
    /\ UNCHANGED <<phase, registryVars, seen, inbox, interrupted, stopping, takenBy,
                   queuedOnce, rowVars, restVars, turnVars, passedOver>>

Resume(p) ==
    /\ phase[p] = "waiting" /\ fut[p] # "pending"
    /\ Finish(p, IF fut[p] = "result" THEN "answered" ELSE "denied")

-----------------------------------------------------------------------------
(* Turns and Stop.                                                         *)

\* Slip: the registries are emptied, but nobody cancels the futures.
ClearOnly ==
    /\ UNCHANGED fut
    /\ byRequest' = {} /\ byMessage' = {} /\ auqFifo' = <<>>
    /\ permKeys' = {} /\ permFifo' = <<>>

\* cancel_all of both registries.
CancelAll ==
    /\ fut' = [p \in Prompts |->
                  IF p \in ToSet(auqFifo) \cup ToSet(permFifo) /\ fut[p] = "pending"
                  THEN "cancelled" ELSE fut[p]]
    /\ byRequest' = {} /\ byMessage' = {} /\ auqFifo' = <<>>
    /\ permKeys' = {} /\ permFifo' = <<>>

\* claude_client.interrupt() returned.
EndStop ==
    /\ stopping
    /\ stopping' = FALSE
    /\ CancelAll
    /\ UNCHANGED <<phase, seen, inbox, interrupted, takenBy, queuedOnce, rowVars,
                   restVars, turnVars, passedOver>>

\* An agent row other than a prompt (a sub-agent goes on while one tool waits).
AgentPost ==
    /\ turn /\ unread # <<>>
    /\ MoveCursor
    /\ UNCHANGED <<phase, routeVars, restVars, turnVars>>

EndTurn ==
    /\ turn
    /\ interrupted \/ \A p \in Prompts : Running(p) => p \in orphans
    /\ turn' = FALSE
    /\ orphans' = orphans \cup {p \in Prompts : Running(p)}
    /\ UNCHANGED <<phase, routeVars, rowVars, restVars, passedOver>>

StartTurn ==
    /\ ~turn /\ inbox # <<>>
    /\ turn' = TRUE /\ interrupted' = FALSE
    /\ inbox' = Tail(inbox)
    /\ UNCHANGED <<phase, fut, registryVars, seen, stopping, takenBy, queuedOnce, rowVars,
                   restVars, orphans, passedOver>>

-----------------------------------------------------------------------------
(* Rows and the two ways they come in.                                     *)

Shown(p) == Settled(p) \/ phase[p] \in {"posted", "waiting"}

\* The picker and the buttons appear with the prompt; the rest is always there.
MaySay(c) ==
    \/ c.type \in {"chat", "stop", "control"}
    \/ c.type = "submit" /\ Shown(c.to)
    \/ c.type = "cancel" /\ \E q \in Questions : Shown(q)
    \/ c.type = "verdict" /\ \E p \in Permissions : Shown(p)

WriteRow(r) ==
    /\ content[r] = Unwritten
    /\ \E c \in Content : c.type \in Says /\ MaySay(c) /\ content' = [content EXCEPT ![r] = c]
    /\ unread' = Append(unread, r)
    /\ UNCHANGED <<phase, routeVars, wsSeen, restVars, turnVars, passedOver>>

WsDelivers(r) ==
    /\ content[r] # Unwritten /\ r \notin wsSeen
    /\ wsSeen' = wsSeen \cup {r}
    /\ Route(r)
    /\ UNCHANGED <<phase, content, unread, restVars, turnVars, passedOver>>

\* _run_reconcile_backstop, on its tick: a reply is pending.
RestAsks ==
    /\ rest = "idle"
    /\ QuestionPending \/ PermissionPending
    /\ rest' = "sent"
    /\ UNCHANGED <<phase, routeVars, rowVars, restRows, turnVars, passedOver>>

\* GET messages/pending answers with the unread tail and moves the cursor ...
RestAnswers ==
    /\ rest = "sent"
    /\ rest' = "route" /\ restRows' = unread
    /\ unread' = <<>>
    /\ UNCHANGED <<phase, routeVars, content, wsSeen, turnVars, passedOver>>

\* ... also when its response is lost.
RestFails ==
    /\ rest = "sent"
    /\ rest' = "idle"
    /\ MoveCursor
    /\ UNCHANGED <<phase, routeVars, restRows, turnVars>>

\* Slip: the tail counts as read once it has been asked for.
RestUnsentForgets ==
    /\ rest = "sent"
    /\ rest' = "idle"
    /\ unread' = <<>>
    /\ UNCHANGED <<phase, routeVars, content, wsSeen, restRows, turnVars, passedOver>>

\* A GET that fails before it reaches the server: "just retries on the next tick".
RestUnsent ==
    /\ rest = "sent"
    /\ rest' = "idle"
    /\ UNCHANGED <<phase, routeVars, rowVars, restRows, turnVars, passedOver>>

RestRoutes ==
    /\ rest = "route"
    /\ IF restRows = <<>>
       THEN rest' = "idle" /\ UNCHANGED <<routeVars, restRows>>
       ELSE /\ Route(Head(restRows))
            /\ restRows' = Tail(restRows)
            /\ UNCHANGED rest
    /\ UNCHANGED <<phase, rowVars, turnVars, passedOver>>

-----------------------------------------------------------------------------
Callback(p) == \/ Ask(p) \/ PauseOver(p) \/ PostCommits(p) \/ PostReturns(p)
               \/ PostFails(p) \/ Expire(p) \/ Resume(p)

Next ==
    \/ \E p \in Prompts : Callback(p)
    \/ EndStop \/ AgentPost \/ EndTurn \/ StartTurn
    \/ \E r \in Rows : WriteRow(r) \/ WsDelivers(r)
    \/ RestAsks \/ RestAnswers \/ RestFails \/ RestUnsent \/ RestRoutes

Spec == Init /\ [][Next]_vars

\* The POST of a prompt ends, an awakened callback runs, and so does a Stop
\* under way; the backstop ticks for ever, and of GETs sent again and again one
\* reaches the server (strong fairness: any number of them may not).  Nothing is
\* fair about the user, the agent, the timeout or the WebSocket.
Fairness ==
    /\ \A p \in Prompts :
          /\ WF_vars(PauseOver(p)) /\ WF_vars(PostReturns(p)) /\ WF_vars(Resume(p))
          /\ WF_vars(PostCommits(p) \/ PostFails(p))
    /\ WF_vars(EndStop)
    /\ WF_vars(RestAsks) /\ SF_vars(RestAnswers \/ RestFails) /\ WF_vars(RestRoutes)

FairSpec == Spec /\ Fairness

-----------------------------------------------------------------------------
(* What holds.                                                             *)

\* The indexes of a registry agree, and a future that somebody still awaits can
\* be found by the next reply: no callback is left that nothing can wake.
\* (auq.py and permission.py: create, _forget, cancel, cancel_all.)
RegistriesAgree ==
    /\ ToSet(auqFifo) = byRequest /\ IsInjective(auqFifo)
    /\ byMessage \subseteq byRequest
    /\ ToSet(permFifo) = permKeys /\ IsInjective(permFifo)
    /\ \A p \in Prompts :
          /\ fut[p] = "pending" => p \in byRequest \cup permKeys
          /\ p \in byRequest \cup permKeys => phase[p] \in {"posting", "posted", "waiting"}

\* A chat row that comes in is somebody's: it is queued (or was), or it settles a
\* prompt, unless a prompt has just expired and its callback has not resumed.
ChatKept ==
    [][\A r \in wsSeen' \ wsSeen :
          content[r].type = "chat" =>
              \/ r \in seen'
              \/ \E p \in Prompts : takenBy'[p] = r
              \/ \E p \in byRequest \cup permKeys : fut[p] = "cancelled"]_vars

\* A reply to a question that waits is found without the WebSocket, however often
\* the GET fails before it gets there, unless the cursor passed over it.
Unrouted(r) == r \in ToSet(unread) \cup ToSet(restRows)
ReplyLands ==
    \A r \in Rows, q \in Questions :
        (content[r] = [type |-> "submit", to |-> q] /\ Unrouted(r) /\ phase[q] = "waiting")
            ~> (Settled(q) \/ r \in passedOver)

\* A Stop ends the callbacks that await a reply.
StopUnblocks ==
    \A p \in Prompts : (stopping /\ phase[p] = "waiting") ~> Settled(p)

-----------------------------------------------------------------------------
(* What the source says, and the code does not do.                         *)

\* claude_code.py, _recover_pending_reply_via_rest: "a row delivered by both
\* paths lands once": it settles one prompt, or it is queued, once.
RowLandsOnce ==
    \A r \in Rows :
        LET settled == {p \in Prompts : takenBy[p] = r}
        IN  /\ Cardinality(settled) <= 1
            /\ r \in queuedOnce => settled = {}

=============================================================================
