# A TLA+ verification of Vicoa's session core

Vicoa runs coding agents on a user's machine and lets the user follow and steer
them from a web page, a desktop app or a phone. This directory models the part
of it that is concurrent and stateful: how a typed message, a reply, a Stop or
an RPC gets from the user to the machine, exactly as far as the code promises.
It covers the four places where such a message or call can go wrong: the relay,
the runner and the daemon on the machine, the browser that shows the session, and
the desktop app that keeps the daemon alive. TLC checks the models on small
instances; TLAPS proves the most important results for every value of the
constants.

Paths below are relative to `src/backend/src/` unless they start with `apps/`,
which is `src/apps/`.

## 1. Inventory

### The processes and how they interact

    dashboard (web, desktop, mobile)
        | HTTP                                | WebSocket, rpc-call
    backend (backend/api, backend/db) --POST /_internal/broadcast--> servers (servers/api, shared/websocket)
        |  commits rows                          |  rooms, outboxes, RpcRouter, presence, scheduler
        +---------------- PostgreSQL ------------+
                                                 |  session-scoped WS / machine-scoped WS
                              runner (integrations/headless, vicoa/session_ws_client)
                              daemon (vicoa/machine_daemon, spawn_ws_client, terminal)
                                  ^ spawned and restarted by the desktop app (apps/desktop/src/daemon-manager.ts)

    a dashboard page: screens -> WsClient (one shared socket) -> useMessageStream -> MessageStore -> chat list

Two servers share a database; the backend commits and then tells the other by
a POST that nobody retries. A runner has one asyncio loop (WebSocket callbacks
are marshalled to it from a reader thread), a stream reader for the agent's
output, and HTTP calls that await. A daemon serves RPCs from worker threads. A
page is one JavaScript thread whose functions suspend at their awaits, and so is
the desktop app's main process.

### Components, their state, what is hard, what makes them correct

| Component | State | Operations | Hard behaviour | Correct when |
|---|---|---|---|---|
| Message queue (`claude_code.py`, queue part of both `queries.py`) | `message_metadata.queue.status`; `_user_message_queue`, `_pending_by_id`, `_seen_user_message_ids`, `_cancelled_message_ids`, `_steer_requested_ids`, `_steer_in_flight`, `_open_turns` | create, cancel, steer, consume, requeue; route, drain, coalesce, merge, run a turn | a Steer races the run loop for the same message; frames repeat and overtake each other; a check is followed by awaits | a message is given to the agent at most once; a terminal row status stands; a cancelled message is dropped; the queue drains |
| Session stream (`broadcast_bridge.py`, `ws_handler.py`, `connection_manager.py`, `session_ws_client.py`, `fetch_session_messages`) | rows and `last_read_message_id`; outbox; `CatchUpBuffer`, watermark | commit, broadcast, connect, fetch, shed, refetch, turn-end remainder, restart | lost broadcasts, late commits, overflow, reconnects, a cursor that the agent's own posts move | each row handed on once; no committed row silently behind the watermark; a lost one recovered |
| Questions and permissions (`auq.py`, `permission.py`, `claude_code._route`) | two registries of futures with three indexes each, the input queue | ask, route a reply, expire, Stop, recover over REST | a reply races the timeout, Stop and its own copy over REST; callbacks outlive their turn | indexes agree; an answer stands; nothing typed is lost; a Stop and a reply reach whoever waits |
| RPC router (`rpc.py`, `spawn_ws_client.py`) | `_handlers`, `_pending`; worker pools | register, call, resolve, time out, unregister | the old connection ends after the new one registered; answers come late | a reconnect keeps its handlers; outcomes are true and final; ordered calls stay ordered |
| Watcher rooms (`servers/watchers.py`) | `conn.watching`, `_rooms`, `access_cache` | watch, unwatch, revalidate, access_changed | a role read before a revocation is used after it; iteration in a thread | nobody stays in a room without access |
| Presence (`servers/presence.py`) | touches, dirty sets, `last_heartbeat_at` | touch, drain, requeue, flush | sets cleared while other threads add; failed flush | every touch reaches the database or a newer one does |
| Scheduler (`servers/scheduler`) | `next_run_at`, `enabled`, `AutomationRun` | claim, dispatch, record, edit | overlapping sweeps, a crash after the claim, an offline machine, a session that still waits | a planned time runs at most once and leaves a record |
| Terminals (`vicoa/terminal`) | `_sessions`, lease deadlines, coalescer buffers | spawn, write, kill, renew, reap, drain | kill, reaper and reader threads race; output and exit come from different threads | one exit, after the last output; nothing left behind; no descriptor of another session closed |
| Web client, connection (`apps/web/lib/ws-client.ts`) | `socket`, `connected`, `retainCount`, the reconnect and idle timers, `pendingFetches`, `connectedWaiters`, `watchCounts`, `lastPresence` | subscribe, watch, presence, `callRpc`, connect, resume, teardown, auth events | `connect` awaits a token and must decide anew; a socket that is silently dead; calls that retain the connection for themselves | a held connection always comes back; nothing leaks a retain; calls end with their socket; room and presence are asserted again |
| Web client, one session (`use-ws-stream.ts`, `ws-protocol.ts`, `message-store.ts`, the chat page) | the tracker and the held rows of `CatchUpBuffer`, the watermark, the list with its optimistic rows and pending patches | connect, page through a catch-up, live frames, REST pages, send, leave | three paths write one list; a catch-up fails half way; the page is left and opened again | rows in order, none twice, none missing; live rows never held for ever |
| Desktop supervision (`apps/desktop/src/daemon-manager.ts`, `main.ts`) | `child`, `generation`, `stopping`, `consecutiveRapidFailures`, `restartTimer`, `status` | start, restart, stop, crash, backoff, health wait, quit | every await may be cut into by a restart, a crash or a quit | no daemon is forgotten; a start ends in a state the user sees; a promised restart comes |
| Spawn requests (`shared/database/spawn_requests.py`) | status of a request | create, claim, finish | two daemons claim | one claim |
| The rest | see `PROJECT.json` | | mostly I/O, or sequential queries in one transaction | |

What can go wrong in this code, line by line, is the `hazards` list of
`PROJECT.json`; the properties below were chosen from it.

## 2. Modules

| Module | What it is | Code |
|---|---|---|
| `UserDelivery` | abstract: a sent message is handed on at most once, nothing else is | the promise to the user |
| `MessageQueue` | rows and the runner's queue; refines `UserDelivery` | `claude_code.py`, queue statements of both `queries.py` |
| `MessageQueueProofs` | theorems | |
| `SessionStream` | commit, bridge, relay connection, catch-up client, runner's recovery | `broadcast_bridge.py`, `ws_handler.py`, `connection_manager.py`, `session_ws_client.py`, `claude_code.py` |
| `SessionStreamProofs` | theorems | |
| `Questions`, `QuestionsProofs` | prompts, replies, Stop, REST recovery; theorems | `claude_code.py`, `auq.py`, `permission.py` |
| `RpcRouter` | relay router, daemon connections and workers | `rpc.py`, `ws_handler.py`, `spawn_ws_client.py` |
| `RpcRouterProofs` | theorems | |
| `Terminals` | the daemon's ptys: registry, leases, close, reader, coalescer | `terminal/service.py`, `pty_manager.py`, `coalescer.py` |
| `TerminalsProofs` | theorems | |
| `WsClient`, `WsClientProofs` | the browser's relay connection and its holders; theorems | `apps/web/lib/ws-client.ts` |
| `SessionView`, `SessionViewProofs` | catch-up, cache and list of one session; theorems | `apps/web/lib/hooks/use-ws-stream.ts`, `ws-protocol.ts`, `message-store.ts`, the session page |
| `DaemonManager`, `DaemonManagerProofs` | the desktop app's supervision of the daemon; theorems | `apps/desktop/src/daemon-manager.ts`, `main.ts` |
| `*MC` | what TLC needs: sets of numbers and model values | |

How they fit: `SessionStream` is the channel of `MessageQueue` and `Questions`.
Those two do not compose it but assume its interface: a committed row may come
over the WebSocket at any time, once per process (`CallbackOnce`), or never, and
again by another path (the turn-end remainder, REST). `SessionStream` checks
this and what it takes to lose nothing; the other two check what the runner does
with whatever the channel does. In the same way `SessionView` sits on `WsClient`:
of the connection it keeps up and down, a fetch that is rejected with the socket
and one that times out on it, which is what `WsClient` shows of calls
(`CallsOnTheirLink`). The relay's catch-up (`fetch_session_messages`) is an action
of `SessionStream` and the external part of `SessionView`; the two clients differ
in that the browser follows `has_more` and delivers what it holds when a fetch
fails. `DaemonManager` is what stands behind "the daemon connects again" in
`RpcRouter`.

### MessageQueue

One step is what the asyncio loop does between two awaits. `Dequeue` is one
`get`/`get_nowait` with `_accept_user_message`; the loop drains without an
await, so `LoopFree` keeps other callbacks out while `pc = "drain"`, but not the
HTTP handlers that change rows. `EnterTurn`, `MarkPrimary`, `OpenForeground`,
`QueryAccepted`/`QueryFailed` and `TurnEnds` are `run_conversation_turn` cut at
its awaits. A steer task is `OnSteer` or `Route` (up to its first await:
`BeginSteer`), then `SteerDelivered` or `SteerFailed`, then `PatchLands`, which
may be overtaken by anything. Rows are changed by the guarded `UPDATE`s, each
atomic. What the code loses (frames, PATCHes, the answer of
`mark_message_consumed`) is a step that need not happen, or the unchanged
alternative of one that does.

Abstracted: message contents and the way a merged input is joined; rows with
attachments only; control commands, which never enter the queue (they are in
`Questions`); the 1024-id bound of `_seen_user_message_ids`, which the model does
not have; deferred turns, in which sub-agents keep a turn open, are turns that
end later.

### SessionStream

Time is a small counter that rows take their `created_at` from; 0 is "none".
A user row gets its time when it is flushed, commits later and is broadcast
later still. `Timely` is the assumption the safety window itself makes: a
transaction and a broadcast (2 s timeout) are over before `Window` has passed.
The relay's send loop and the receiving client are joined by `wire`, the outbox.
`Select` and `Respond` are two steps because the SELECT runs in a thread and live
frames may be enqueued in between. `AgentPost` is any row of the agent: it moves
`last_read_message_id` past whatever user rows precede it, as
`create_agent_message` does. `Settle` is `_settle_turn_end` with its stale case.

Abstracted: contents; update types other than new messages; ping and version
negotiation; the fetch returns only user rows because agent rows in a response
affect nothing but the watermark, which the live echo of the same row moves.

### Questions

`phase` says where a `can_use_tool` callback is between its awaits; `fut`, the
registry indexes and FIFOs are the fields of `auq.py` and `permission.py`.
`Route` is `_route` for one row: the question registry (picker answers), the
permission registry, control commands, typed answers, the queue, in this order.
`BeginStop`/`EndStop` are `_handle_interrupt` before and after
`claude_client.interrupt()`. A row may be delivered over the WebSocket once and
over REST once. `RestAsks` .. `RestRoutes` are
`_recover_pending_reply_via_rest`, cut where it awaits. Its GET may fail in two ways that
the code does not tell apart: before it reaches the server (`RestUnsent`), when the cursor
stays and the next tick asks again, and after (`RestFails`), when the cursor has moved.

Abstracted: verdict texts to "a verdict"; permission caching (an answered tool
does not ask again); a POST that fails and whose prompt the user never saw is
`PostFails`; a stream that dies while a prompt waits is not a case of `EndTurn`.
One over-approximation: the REST recovery may go on to its next row while a
Stop that came with it is still awaited.

### RpcRouter

One routing key. The relay and the daemon learn of the end of a connection in
separate steps (`RelayDrops`, `SocketDies`), so the daemon may connect again while
the relay serves the last connection. A caller that goes away and a call's
timeout are the same outcome, `GiveUp`. The grace window is a poll per call
(`GracePoll`), each on its own timer. The daemon gives a job to the pool or to
the single ordered worker and sends the response on the connection the request
came on, if that is still the current one.

### Terminals

The threads that meet at a session are pool workers (`Register`, `Fork`), the
ordered RPC worker (`RpcKill`), the reaper (`Scan`, `Reap`), the wind-down
(`Shutdown`, `StopCoalescer`), the session's reader (`Ready` .. `Report`) and the
coalescer (`Drain`, `EmitOutput`, `EmitExit`). `waiting` and `holder` are
the `close_lock`; `Enter`, `CloseFd` and `ClearFd` are `PTYManager.close`, cut
where the descriptor number is free again but still in `master_fd`. The system
gives out the lowest free number, so a new session may get one that an old one
still remembers; `owner` says whose it is. What a session reads is what the owner
of the number writes.

Abstracted: a lease to "live" or "past"; output to whether there is some; the
grace periods of `close` (the signals end in SIGKILL, and the child is gone);
`write` and `resize`. A lease is dropped with its session.

### WsClient

One action is one JavaScript task with the microtasks it queues. `Connect` is
`connect()` up to its await and `TokenRead` is the rest: any number of them may
be awaiting. `SocketDown` is `handleSocketDown`, in its order: the decision
to reconnect reads `retainCount` before the rejected calls' `finally` blocks run. A
socket that the client closes stays `closing` until the browser reports it; one
that teardown closes is forgotten at once, because its handlers are taken off.
`live` says whether frames arrive: a half-open socket is `open` and not `live`,
and only `StaleClosed` (the 70 s timer, the 30 s heartbeat) ends it. The relay
keeps one room and one presence bit per connection.

Abstracted: one shared session stands for all; delays and backoff; the fetches of
the streams, which retain nothing; `sendRpc`, which keeps no state; the relay
never takes a watch away (`watch_revoked` reaches listeners only).

### SessionView

Rows are numbered by `created_at` and commit up to `Window` places out of that
order. `StartStream`, `Connects`, `PageArrives` and `CatchUpFails` are the effect of
`useMessageStream` and its `runCatchUp`; `CompleteFetch` and `FrameArrives` are
`CatchUpBuffer`; `Merge`, `Patch`, `Hydrate`, `OlderLands` and `Send` are the
operations of `MessageStore`. A REST reply carries what the database held when it
was asked and lands, or fails (`ReplyFails`), whenever it likes, also after the page was left.
`fetchInstanceDetail` is called from ten places and keeps no other call of its own out, so
`detail` is a set: replies overlap and land in any order, and their number `n` is the order
they were read in. `loadOlderMessages` has a guard, `isLoadingOlderRef` (`loading`), but it
belongs to the mounted page: after leaving and coming back two loads may be under way.
`echo` says which row a send was stored as.

`gone` is a history variable: it notes why a row may be missing from the list. The reasons are

- `cut`, `timeout`: a catch-up failed with the socket, or by its timeout, and what it had is
  given out as if it were all;
- `hydrate`: a refresh replaced the span it covers with an older reading of it;
- `overtaken`: a refresh landed after one that was read later (`landed`); its page takes
  newer rows back, or is put in front of a list that has moved on, with a hole between;
- `left`: the row was missing when the page was left;
- `old`: a live frame or a catch-up put an older row in front of the list, and history
  between the two is never asked for (noted by `Uncovers`);
- `late`: a frame was lost in a cut when the watermark was past its row by more than the window.

`NoGap` excuses all of them, `cut` included, which is no accident of design but the finding of
`catch_up_gap`: `CutHeals` is `NoGap` without that excuse, and fails.

`InOrder`, `Keep` and `Merged` are written with sorted index sets and a recursive
function, without `RECURSIVE`, so that the proofs can expand them.

Abstracted: contents, so that nothing is hidden for being equal; the row of an
instance; `resync_required`, the relay's answer to a cursor whose message was
deleted (no message is, here); eviction, which never takes the entry of an open page; the
correction of a send's queue mark after its POST. A live frame's sender type is `USER`,
which the page takes for an agent's, so an optimistic row is not swapped for its
echo; the model does what the code does, and `StoreSound` asks for a send only until its
echo has come (section 5).

### DaemonManager

An action is what runs between two awaits of a method; `pc` says which await a
suspended call is in. The code's `generation` is only compared with values captured
before, so `fresh`, the set of calls and processes that captured the present one,
replaces the number and keeps the state finite without a bound on it. A
death counts as rapid or not by a choice. `ExitAwaited` is the continuation of
`terminateChild` in whichever method waits for it. A process answers `/healthz`
whoever's child it is. `overlapped` is a history variable: lifecycle calls that
come while another stop waits, that find a child no one took down, or that come during
the quit.

Abstracted: the cloud-status poll; the arguments and the environment of the
child; delays. A `spawn` that fails with an `error` event does so at once. The 8 s deadline of
the quit (`main.ts:1336-1346`) is left out: the model's quit waits for `stop()` however long that
takes. `stop()` sends SIGKILL after 5 s, so the deadline cuts short only the wait for a process
that SIGKILL does not end within three seconds; that such a process may outlive the app
is not excluded by `NoOrphan`.

## 3. Runs

Eight runs pass; four show a disagreement between the code and what it says of
itself. A violation run checks one property of the same model as the passing
run of its component.

| Run | Instance | Distinct states | Shows |
|---|---|---|---|
| `message_queue` | 2 messages | 165,918 | types; `AtMostOnce`; `PendingMirrorsInbox`; `ConsumedIsTaken`; `CancelledIsDropped`; `ImplementsPromise` (refinement); `InboxDrains` (liveness) |
| `session_stream` | 2 messages, `Window` 1, `PageLimit` 2, `OutboxMax` 2, `MaxTime` 3, `MaxFaults` 1 | 331,942 | types; `CallbackOnce`; `NoSilentGap`; `HealsInWindow` (liveness) |
| `questions` | 1 question, 1 permission, 2 rows; submit, chat, stop | 368,178 | types; `RegistriesAgree`; `ChatKept`; `ReplyLands` and `StopUnblocks` (liveness) |
| `rpc_router` | 3 calls (2 ordered), 2 connections, 2 workers, `OutboxMax` 1 | 279,364 | types; `ReconnectKeepsHandler`; `OutcomeIsTrue`; `RunsAsSent`; `EndsSoon` (liveness) |
| `terminals` | 2 sessions (one leased, one that writes), 1 descriptor number, `MaxSessions` 1 | 208,457 | types; `ClosesOwn`; `NothingLeaks`; `ExitLast`; `ExitReported` and `ExpiredReaped` (liveness) |
| `ws_client` | 2 screens, 2 calls, 2 `connect()` calls awaiting, 2 failures or auth events | 310,130 | types; `NeverStranded`; `RetainedOrIdle`; `CallsOnTheirLink`; `RelayAgrees`; `Reconnects` (liveness) |
| `session_view` | 3 rows, 1 send, pages of 2, `Window` 1, 1 frame on its way, 1 fault, 1 leave, 2 REST fetches | 877,834 | types; `NeverStuck`; `StoreSound` (no row twice, sends kept, watermark; order); `NoGap` |
| `daemon_manager` | 3 processes, 3 suspended calls, 3 rapid failures | 181,777 (up to symmetry) | types; `NoOrphan`; `RestartKept` |
| `merge_drops` | as `message_queue` | violation | cancelling the first of merged messages drops the others |
| `row_lands_once` | as `questions` | violation | a row that comes by both paths may settle two prompts |
| `catch_up_gap` | as `session_view`, no sends, no window, 2 faults | violation | a catch-up cut by a disconnect loses rows |
| `start_never_ends` | as `daemon_manager`, 2 processes, 2 calls | violation | a start that is never healthy stays `starting` |

Why the bounds are enough. *Two messages* are every pair of roles that the
runner's code tells apart: primary and merged, queued and steered, cancelled and
kept, first of a page and rest; no handler relates more than two. Times up to 3 with a
window of 1 let a row lie inside, at the edge of and beyond the window; an
outbox of 2 overflows with a response and two live frames; one fault is one
disconnect or one restart, and overflow can cut the connection again without
counting as a fault. *One question and one permission* are in different
registries, each of which is a FIFO of independent entries; the mistakes found
need one prompt per registry and a row for each. Users' rows are a picker's submit, chat (which
also answers a permission, or a question in typed words) and Stop; a permission's verdict is
taken as a chat is, and, when no prompt takes it, dropped as a submit is. *Three calls, two ordered* leave
one that occupies the pool; *two connections* are an old and a new one. *One
descriptor number and a limit of one session* make the second session take the
number of the first as soon as it is free, and the limit bite: a session is out
of the registry before its pty is closed, so the two still overlap. Sessions share nothing
else but the worker, the reaper and the wind-down, which go through them one by one. *Two screens and two calls* are one more than the retain count can
distinguish: a first holder, a later one, a call that retains and one that does
not; two failures let a reconnect itself fail, and two awaiting `connect()` calls
race each other. *Three rows* with pages of two make a catch-up of two pages, a
page with history before it and rows behind it; one row has a status that
changes, and the one send carries a clock ahead of the rows. Two REST fetches overlap, as two
refreshes, as a refresh and an older page, and across a leave; of the reasons of `NoGap`,
`timeout`, `hydrate` and `overtaken` are needed in this instance (`NoGap` fails without any one of
them). All seven are in a second one that was checked and is no run, having no send: four rows,
`FetchLimit` and `PageSize` 1, no user row, two frames on their way (1,113,949 states). Others
that were checked: two frames on their way (1,352,681 states), with them `PageSize` 1 (1,850,637),
also with `Window` 0 (831,582), and, without the send and the user row, three and four
overlapping fetches (1,135,465 and, without faults and with `PageSize` 1, 1,504,405). The theorem covers every number. *Three processes and three calls* are
a child, one being stopped and one being spawned, under a start, a restart and a
quit; three rapid failures are the code's limit. The bounds are `Messages`,
`MaxTime`, `MaxFaults`, `Calls`, `Conns`, `MaxAwaiting`, `MaxTrouble`, `LastRow`, `MaxWire`,
`MaxLeaves`, `MaxFetches` and `Runs`; the other constants are limits the code has, made small.

`CHECK_DEADLOCK FALSE` in every run: each system may really come to rest (every
message is handled, the clock is at its bound, every call has ended).

Symmetry is used in `daemon_manager` only, over processes and suspended calls:
it checks no liveness. The others check liveness or number their elements.

### Fairness

- `MessageQueue`: the asyncio loop runs what is ready (`RunLoop`), the agent's
  stream closes an open turn (`CloseTurn`; the watchdog does if the CLI does
  not), and a steer's `query` returns or raises. The user and the channels are
  not fair.
- `SessionStream`: the client's reconnect loop, the relay's read and send loops
  and the reader thread go on; a turn ends; the backstop ticks while the runner is idle; a
  transaction commits and a bridge POST succeeds or is lost.
- `Questions`: a POST ends, an awakened callback runs, `interrupt()`
  returns, the backstop ticks, and of GETs that are sent again and again one reaches the
  server. This is strong fairness (of `RestAnswers` or `RestFails`): any number of GETs may
  fail on the way (`RestUnsent`), after each of which nothing is under way, so weak
  fairness would ask nothing; it is what "just retries on the next reconcile tick" needs of
  the network, and less than that a GET ever succeeds. The user, the agent, the timeouts (24 h
  for a question) and the WebSocket are not fair: `ReplyLands` holds without them.
- `RpcRouter`: each side notices a connection the other side left (close frame
  or missed pongs), receive loops and workers go on. Neither the timeout of a
  call nor the grace window is fair: `EndsSoon` holds without them.
- `Terminals`: threads that can go on do; a `close` ends, because its waits have
  timeouts. The child, the clients, the leases and the wind-down are not fair.
- `WsClient`: timers fire, the token read ends, the browser reports the end of a
  handshake and of a socket, and the relay answers `hello`. Screens, users, auth events and
  failures are not fair; `Reconnects` asks of the network only that its failures are
  finitely many (`MaxTrouble`).
- `SessionView` and `DaemonManager` state no liveness and no fairness.

## 4. Proofs

All for any set of messages, prompts, calls, connections, sessions, screens, rows, processes
and suspended calls. `tlapm` proves each module from nothing within five minutes. Every
safety invariant and every action property that a passing run checks is stated by a theorem,
`NoSilentGap` under a condition.

*MessageQueue.* The assumption is `NoneAssumption`: the null value is no message.
`AtMostOnce` is not inductive: to see that a turn's input was not delivered
before one must know where a message can be and what its steer attempt has come to.
`IInv` adds

- `OnePlace`: a message is in the inbox, or taken by the run loop, or in neither;
  never in two of them, never twice, and only if it was seen there;
- `AttemptsTracked`: `_steer_in_flight` holds exactly the undecided and the
  successful attempts of queued messages, and a taken message has no live attempt;
- `PendingMirrorsInbox`: the id index agrees with the queue;
- `DeliveredIsDone`: a delivered message cannot be reached again, neither by its
  attempt (which is over) nor by the run loop (which will drop it).

`InvariantStep` shows the step, one lemma per group of actions that touch the
same variables. From `IInv`: `TypeCorrect`, `DeliveryAtMostOnce`,
`PendingMirrors`; `TerminalRows` follows from the guards of the `UPDATE`s.
`RowInv` adds what the run loop stamps (`LoopKnows`) and that what the runner
believes of a row was true (`RowsKnow`); it gives `ConsumedTaken`,
`CancelledDropped` (an action property) and `QueueImplementsPromise`, the
refinement of `UserDelivery`.

*SessionStream.* The assumption is `StreamAssumption`. `Types` is the type
invariant in groups (`Clocks`, `Sets`, `Link`) and `Handed` says that what was handed on
is known: `StreamTypes`, `HandedOnce`. `NoSilentGap` holds under one condition the code does
not check, `FitsInPage`: a response has room for all the rows. The Python client
does not read `has_more`, and a cut page moves its watermark past the rows
that were cut. Under it `GapInv` is inductive:

- `Past`: no time is ahead of the clock, so a row that is committed now is in reach;
- `OneFetch`: one fetch per connection, made with a watermark the client has or has passed;
- `Reach`: for a row that is missing, the watermark is within reach of it (`InReach`), and
  while the connection is up the row is `Tracked` (the connection is to be cut, or the row is
  in a frame, in the buffer, or in the response to come, `Brings`) and what could move
  the watermark out of reach is `Behind` it, in the order of the wire. The order is what a type or a
  set of rows cannot say: live frames are FIFO, the buffer waits for the
  response, and a disconnect returns to `InReach`.

*Questions.* The assumption is `QuestionsAssumption`. `RegistriesAgree` is inductive once the types are known: a
registry is a set of keys and the order they came in (`Indexed`), and `RemoveFirst`, `Append` and
the clearing of a registry keep the two in step (`RemoveFirstIndexed` and the lemmas after it).
`Futures` adds that a future somebody awaits is in a registry, and that what a registry holds
is awaited or has expired: `TypeCorrect`, `RegistriesHold`, and with it `ChatIsKept`, since only an
expired prompt can swallow a row. `StopWakesAll` is a step property no run repeats: when
`_handle_interrupt` has gone through `cancel_all`, no future is pending. What the callbacks do
then is liveness (`StopUnblocks`).

*RpcRouter.* The assumption is `RpcAssumption` (calls and connections are
positive numbers, ordered calls are calls, limits are numbers). All safety properties of
the run are proved, from four invariants, each on top of the ones before:

- `RouteInv`: the types of the routing state, `HandlerServed` (a registered handler belongs
  to a connection the relay serves), and what it supports, `WaitsServed` and `ReconnectKeeps`;
- `RpcTypes` and `AtWork`: what the queues hold, and that the running jobs are finitely many: `RpcTypesHold`;
- `OrderInv` and `PoolApart`: each call is sent once; outbox, line and `ran` are in the order
  of `sent`, the line behind what was run, and the outbox that the daemon reads behind the
  line, which is what makes a reconnect harmless: `OrderedRunAsSent`;
- `RunInv`: no request is twice in a queue (`NoneTwice`) nor in two places (`OnePlace`),
  answers are of calls that were run, and a caller without a handler has sent nothing
  (`Answers`): `OutcomesAreTrue`.

`OutcomesStand` is an action property. `TerminalRows`, `WaitsServed` and `OutcomesStand`
state properties that no run repeats.

*Terminals.* The assumption is `TerminalsAssumption`. `IInv` is the types in groups and, per
session, `Lock` (a thread is inside `close` exactly while it holds the lock), `Owns` (`master_fd` is the
session's own pty until `os.close`, which is what fails without the lock), `Born` (no
process before the fork), `Reachable` (a process that is not reaped can be signalled),
`Finalized` (the reader closes once, after it took the session off the registry), `Kept` and
`Pipe` (the exit is in one place, with no output behind it). From it `TerminalTypes`, `ClosesItsOwn`,
`NoneLeftBehind` and `ExitIsLast`, which is every safety property of the run.

*WsClient.* The assumption is `WsAssumption`; the set of screens is finite, the
calls need not be. The invariant `WsInv` is the six named parts of the run with two more:

- `Handshaken`: a connected client has an open or closing socket;
- `RoomFresh`: until `server_info` the relay has the connection in no room.

`RetainedOrIdle` is the part that needs cardinalities: a screen or a call that comes or
goes changes the count by one (`FS_AddElement`, `FS_RemoveElement`). One lemma per
group of actions, then `ConnectionKept`, `RetainsBalance`, `CallsEndWithTheirSocket`
and `RelayHoldsLastSaid`. They hold for the local socket (`Auth = "local"`) as well, which
no run takes.

*SessionView.* The assumption is `ViewAssumption`. `StreamNeverStuck`: `NeverStuck` is
inductive; the proof goes through the three places that lift the hold or start a catch-up.

`ViewTypes` and `StoreIsSound` rest on what the operators on lists return, for lists of every
length and any number of replies under way. The library's induction theorems take a predicate, which the provers cannot
instantiate; `UpTo` states induction over `0 .. n` for a *set* of numbers instead, and
gives, one after the other, the largest and the smallest of a set (`BiggestOf`,
`SmallestOf`), its ascending enumeration (`RisingExists`, `AscendingRises`), what `Keep`,
`InOrder`, `Insert` and the recursive function of `Merged` return (`KeepOf`, `InOrderOf`,
`InsertKeeps`, `MergedKeeps`), and from these what a refresh and a delivery do to a
list (`HydratedList`, `DeliverKeeps`). `ListSound` is not inductive, since an echo may be
shown, or excused, and then not: the invariant is the stronger `ListHolds` (a send is in
the list exactly while it is neither refused nor idle), with `RowsTimed`: a row carries its own
time. `StepsSound` also gives the action part, `OrderKept`.

`NothingIsSkipped` is `NoGap`. The invariant is about the time before everything is
settled, when a row may be anywhere:

- `InWindow`: rows commit at most the window out of order;
- `AllCommitted`, `Phases`, `TrackedReached`: what is shown or on its way has committed,
  what catch-up, socket and hold have in common, and that the tracker knows only
  rows that were shown or are accounted for (it outlives a reconnect, so a row that
  it knew and the list did not would never come);
- `Traced`: while the page streams, a row that is neither shown, accounted for nor on
  its `Way` is behind the watermark by more than the window. A row is on its way
  when it is announced by a frame, held, collected or still to be asked for by the catch-up
  (`Covered`), or, with the socket down, near enough to the watermark for the next one;
- `DetailFresh`: rows that a refresh under way skips committed after it was read, so they are
  near its newest row, and the stream it starts asks for them;
- `DetailOrdered`: of two refreshes under way, the one that was read later reaches as far
  up as the other;
- `OwedComes`: a row that the list skips, or will skip when a refresh under way lands that no
  later one has overtaken (`Owed`), is on its way. What an overtaken one does to
  the list is noted when it lands (`RefreshShows`).

Nothing being on its way, `OwedComes` is `NoGap`. The case that `NoGap` was wrong about
before it was proved is in `DeliveryGap`: a delivery may put a row below the first
one of the list, and then rows between them are owed that nothing brings.

*DaemonManager.* The assumption is `DaemonAssumption`. `NoOrphan` is not inductive: one
has to know which handlers and which suspended calls can still act. `Inv` adds
that a fresh call waiting for the environment is alone in its generation
(`EnvAlone`), that at most one process is in it (`OneFresh`), and, while calls do not
overlap, that this process is the child (`HandlersOnChild`), that a spawn or a
backoff finds no child (`NothingToOverwrite`), that one stop at a time waits and
nothing is supervised meanwhile (`OneWait`), and that the cleaned app has no process
(`Cleaned`). `BackoffIdle` is what `RestartKept` needs, `GaveUp` what the bound on
`consecutiveRapidFailures` in `TypeOK` needs. One lemma per action.

Model-checked only: the liveness properties (`InboxDrains`, `HealsInWindow`,
`ReplyLands`, `StopUnblocks`, `EndsSoon`, `ExitReported`, `ExpiredReaped`,
`Reconnects`), since fairness and ENABLED are beyond the proof system. `NoSilentGap` is proved,
as it is checked, for responses that carry all the rows (`FitsInPage`); of the code without that
condition it is false.

## 5. What the violations say

1. **A merge drops what was not cancelled** (`merge_drops`). The cancelled ids
   are consulted again after the merge has awaited one PATCH per extra message,
   and then decide about the whole input.
2. **A row may land twice** (`row_lands_once`). The two registries are asked before
   the id of the row is remembered.
3. **A catch-up that is cut loses rows** (`catch_up_gap`). The comment says that
   the next connect wipes the state; it wipes the held rows, after they were
   delivered, and not the watermark they moved.
4. **A start may never end** (`start_never_ends`). The never-healthy path stops the
   child with a new generation and then asks whether the generation is still the
   old one: the state stays `starting` and no dialog shows.

Eight more disagreements were found with these models. No run states them:

- A delivered send's optimistic row does not leave "when the real echo arrives", as
  `apps/web/lib/message-store.ts:20-22`, `page.tsx:515` and `page.tsx:1039-1041` (the session page)
  say. `page.tsx:487` tests the sender in lower case, and the row of the stream says `USER`, so
  the echo counts as an agent's and swaps nothing out; the page's list of pending ids
  keeps its oldest entry, too. The user rarely sees it, since the chat list hides an optimistic row
  whose text equals a real one's (`page.tsx:1387-1399`). The model keeps the row (`Merge`);
  `StoreSound` asserts neither that it stays nor that it leaves, only that it is there until then.
- A background refresh may truncate the list, against `apps/web/lib/message-store.ts:24-26`
  ("never truncates the list"): `fetchInstanceDetail` does not ask whether a later reply has landed.
  An overtaken reply puts its page in front of a list that starts later, or, when it was
  read before the first row, leaves only pending sends (`overtaken`). The store's
  watermark follows it down, to where the next visit starts, so `StoreSound` only says that
  it is a row of the list.
- A cancel does not always win against a pickup, as `servers/api/routers.py:2082` says:
  the server never turns a cancelled row into a consumed one (`TerminalRows`), but
  the runner does not look at the answer and runs the message.
- A lost broadcast does not always self-heal, as `claude_code.py:2440` says: both
  recoveries go by something the agent's own posts move, the watermark and the cursor.
  Within the window the recovery works (`HealsInWindow`).
- A cold start may skip a row that no process received (`claude_code.py:2456`), for the
  same reason.
- A Stop may be taken as the reply to an open permission: that registry comes before
  the control commands and accepts any text.
- Ordered calls may be overtaken at the relay while no handler is registered
  (`apps/web/lib/ws-client.ts:495`). Once sent they stay ordered (`RunsAsSent`).
- The list of a session is not always "Ordered by `created_at`"
  (`apps/web/lib/message-store.ts:60`): `prependOlder` puts its page in front of everything, also of
  a row that is older than the page and came by the stream after it was asked for; and a
  refresh leaves pending sends behind its page. `OrderKept` says these are the only two.

Further things the modelling turned up that no run states: `has_more` of a
catch-up response is not read by the Python client; a Steer frame after the cancel of
the same message still delivers it; a REST response lost after the cursor moved
strands a reply, although "a failed GET [...] just retries" (`claude_code.py:2531`; `RestFails`, the
`passedOver` exception of `ReplyLands`; a GET that fails on its way there is retried, as
`ReplyLands` shows); a Stop in
the one-second pause of a permission leaves a prompt behind that takes the next
chat message; `PermissionReplyRegistry.has_pending` is true for an expired future;
`target_disconnected` does not mean "not executed"; a terminal whose lease is
renewed between the reaper's scan and its kill is answered as renewed and killed;
`close` signals a process number that the reader has already reaped. In the web client
the second of two overlapping calls retains nothing and is cut off by the idle teardown; a
REST reply that was read before a status update overwrites it; a row that is missing
when the page is left stays missing, because the watermark it comes back with is past it.

Two gaps of the list came out while `NoGap` was being proved. A live row that commits late
and is older than the first page goes in front of the list, and the rows between are
never fetched, since older pages are asked for before the new first row (`old`). A catch-up of
several pages moves the watermark beyond a row whose frame is still on the wire by more
than the window; if the socket is cut then, no catch-up asks for that row (`late`). Older pages that
overlap, over leaving and coming back, may be the same page: the second has nothing fresh, and
`hasOlder` is cleared though there is more.
In the desktop app a second quit goes through while the first still stops the
daemon, two restarts that overlap leave a process behind (`overlapped` excepts both from `NoOrphan`), and
a daemon that another process's `/healthz` answers for is shown as running.

What the exceptions of a property excuse, it does not catch: `NoSilentGap` leaves out rows whose
broadcast was lost (for those see `HealsInWindow`) and rows that a cold start skipped;
`ChatKept` a chat row that the entry of an expired prompt takes and discards, which
`RegistriesAgree`, being about indexes, does not see either; `NoGap` what a cut catch-up
took (`CutHeals`); `NoOrphan` overlapping lifecycle calls.

## 6. Plan

*Done*: `MessageQueue` with `UserDelivery`; `SessionStream`; `Questions`; `RpcRouter`;
`Terminals`; `WsClient`; `SessionView`; `DaemonManager`; the theorems of section 4.

What would come next, in order of importance:

1. `Watchers`: watch, unwatch, unregister, the 30 s role cache,
   `revalidate_watchers` in a thread, `access_changed`, composed with `WsClient`'s room. A
   revoked user leaves the room, nobody is evicted who has access.
2. `Automations`: claim, dispatch, record. A planned time fires at most once; a
   crash loses at most the claimed run.
3. `Presence`: touch, drain, requeue, flush against the touching threads.
4. Spawn requests; the ACP runners' variant of the queue; the mobile app's client, which
   is a second implementation of `WsClient` and `SessionView`.
5. Proofs: the refinement of an abstract channel by `SessionStream`, which `MessageQueue` and
   `Questions` now assume in words.

## 7. Not modelled

The pages, panels and forms of the web client and the screens of the mobile app
(rendering and one request per function), the desktop app's windows, updater and
provisioning (platform calls), the CLI wrappers and the MCP server (I/O, little
shared state), file synchronisation and git handlers of the daemon (I/O), access
control, tasks, teams and shares (sequential queries in one transaction), rate limiting,
and the wording and layout of messages. Most of the repository's lines are of this
kind: the modules cover the parts whose steps interleave.
