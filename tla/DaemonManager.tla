--------------------------- MODULE DaemonManager ---------------------------
(***************************************************************************)
(* The desktop app's supervision of its daemon child process:              *)
(* apps/desktop/src/daemon-manager.ts (start, restart, stop, the spawn and *)
(* its health wait, the restart with backoff), driven by the callers in    *)
(* apps/desktop/src/main.ts (bootstrap, the restarts the user asks for,    *)
(* the cleanup at quit).                                                   *)
(*                                                                         *)
(* The manager is a single-threaded object whose methods suspend at their  *)
(* awaits; an action is what runs between two awaits.  `generation` is only *)
(* ever compared for equality with a value captured earlier, so the model  *)
(* keeps, instead of the number, the set `fresh` of the suspended runs and *)
(* of the processes (their event handlers) that captured the present one:  *)
(* an increment leaves the incrementing run alone in it, or nobody.        *)
(*                                                                         *)
(* Left out: the polling of the cloud status, which re-announces `running' *)
(* while running, and the arguments and environment of the child.          *)
(***************************************************************************)
EXTENDS Naturals, FiniteSets

CONSTANTS Procs,             \* identities of child processes, reused once reaped
          Runs,              \* bound: method calls suspended at the same time
          NoProc,
          MaxRapidFailures   \* MAX_RAPID_FAILURES

ASSUME DaemonAssumption == /\ NoProc \notin Procs
                           /\ Procs \cap Runs = {}
                           /\ MaxRapidFailures \in Nat \ {0}

VARIABLES status,      \* what the tray shows
          stopping,
          failures,    \* consecutiveRapidFailures
          child,       \* this.child
          procs,       \* the operating system's processes
          fresh,       \* runs and processes whose captured generation is current
          timer,       \* restartTimer: none, due, or stale (an older generation's)
          pc,          \* where each suspended call is
          waitFor,     \* the process whose exit a call awaits (terminateChild)
          booted,      \* bootstrap has called start
          app,         \* up, quitting, cleaned (daemon stopped), exited
          overlapped   \* history: a call came while another one was stopping a child,
                       \* or start found a child, or anything came during the quit

vars == <<status, stopping, failures, child, procs, fresh, timer, pc, waitFor,
          booted, app, overlapped>>

Alive(p) == procs[p] = "up"
Terminating(p) == \E r \in Runs : waitFor[r] = p

(* What the callers are supposed to avoid, and main.ts does not prevent. *)
Overlaps == \/ app # "up"
            \/ \E r \in Runs : waitFor[r] # NoProc

TypeOK ==
  /\ status \in {"idle", "starting", "running", "restarting", "failed", "stopped"}
  /\ stopping \in BOOLEAN /\ booted \in BOOLEAN /\ overlapped \in BOOLEAN
  /\ failures \in 0..MaxRapidFailures
  /\ child \in Procs \cup {NoProc}
  /\ procs \in [Procs -> {"absent", "up", "gone"}]
  /\ fresh \subseteq Runs \cup Procs
  /\ timer \in {"none", "due", "stale"}
  /\ pc \in [Runs -> {"idle", "env", "health", "answered", "restart", "quit", "giveUp"}]
  /\ waitFor \in [Runs -> Procs \cup {NoProc}]
  /\ app \in {"up", "quitting", "cleaned", "exited"}

Init ==
  /\ status = "idle" /\ stopping = FALSE /\ failures = 0
  /\ child = NoProc /\ procs = [p \in Procs |-> "absent"]
  /\ fresh = {} /\ timer = "none"
  /\ pc = [r \in Runs |-> "idle"] /\ waitFor = [r \in Runs |-> NoProc]
  /\ booted = FALSE /\ app = "up" /\ overlapped = FALSE

-----------------------------------------------------------------------------
(* spawnAndAwaitReady up to its first await: a new generation, announced as *)
(* `starting', waiting for the login-shell environment.                    *)
BeginSpawn(r) ==
  /\ status' = "starting"
  /\ fresh' = {r}
  /\ pc' = [pc EXCEPT ![r] = "env"]

(* start: clears the deliberate stop and the failure count, then spawns. It *)
(* does not look at this.child.                                            *)
Start(r) ==
  /\ stopping' = FALSE
  /\ failures' = 0
  /\ BeginSpawn(r)

(* stop and stopChildOnly take the child away from supervision (a new      *)
(* generation, this.child = null), send SIGTERM and await its exit.        *)
TakeChild(r, then) ==
  /\ child # NoProc
  /\ child' = NoProc
  /\ fresh' = {}
  /\ waitFor' = [waitFor EXCEPT ![r] = child]
  /\ pc' = [pc EXCEPT ![r] = then]

(* An older generation's timer stays armed; it fires without effect. *)
Superseded == IF timer = "due" THEN "stale" ELSE timer

(* bootstrap: daemonManager.start(false), once the managed daemon is       *)
(* provisioned. The tray and its "Restart daemon" exist before that.       *)
Boot(r) ==
  /\ app # "exited" /\ ~booted /\ pc[r] = "idle"
  /\ booted' = TRUE
  /\ overlapped' = (overlapped \/ Overlaps \/ child # NoProc)
  /\ Start(r)
  /\ timer' = Superseded
  /\ UNCHANGED <<child, procs, waitFor, app>>

(* restart(): from the tray, the failure dialog, the renderer or sign-in.  *)
(* stop() waits for the child it finds; without one, start() follows at    *)
(* once.                                                                   *)
Restart(r) ==
  /\ app # "exited" /\ pc[r] = "idle"
  /\ overlapped' = (overlapped \/ Overlaps)
  /\ timer' = "none"
  /\ \/ /\ child = NoProc
        /\ Start(r)
        /\ UNCHANGED <<child, waitFor>>
     \/ /\ TakeChild(r, "restart")
        /\ stopping' = TRUE
        /\ UNCHANGED <<status, failures>>
  /\ UNCHANGED <<procs, booted, app>>

(* runQuitCleanup: the stop of the daemon; the renderer server's stop is   *)
(* what else the exit waits for.                                           *)
Quit(r) ==
  /\ app = "up" /\ pc[r] = "idle"
  /\ overlapped' = (overlapped \/ Overlaps)
  /\ timer' = "none" /\ stopping' = TRUE
  /\ \/ /\ child = NoProc
        /\ status' = "stopped" /\ fresh' = {} /\ app' = "cleaned"
        /\ UNCHANGED <<child, waitFor, pc>>
     \/ /\ TakeChild(r, "quit")
        /\ app' = "quitting"
        /\ UNCHANGED status
  /\ UNCHANGED <<failures, procs, booted>>

(* A second quit: quitCleanupDone is set when the cleanup begins, so       *)
(* before-quit lets it through while the first one still waits.            *)
QuitAgain ==
  /\ app = "quitting"
  /\ app' = "exited" /\ overlapped' = TRUE
  /\ UNCHANGED <<status, stopping, failures, child, procs, fresh, timer, pc, waitFor, booted>>

(* app.exit(0) *)
Exit ==
  /\ app = "cleaned"
  /\ app' = "exited"
  /\ UNCHANGED <<status, stopping, failures, child, procs, fresh, timer, pc, waitFor,
                 booted, overlapped>>

-----------------------------------------------------------------------------
\* Slip: it gives up one failure too late.
UnexpectedDeathLate(counts) ==
  IF stopping THEN UNCHANGED <<status, failures, timer>>
  ELSE \E n \in counts :
         /\ failures' = n
         /\ IF n > MaxRapidFailures
            THEN status' = "failed" /\ UNCHANGED timer
            ELSE status' = "restarting" /\ timer' = "due"

(* handleUnexpectedDeath: a death soon after the spawn counts on, a later  *)
(* one starts the count again; MAX_RAPID_FAILURES of them give up.         *)
UnexpectedDeath(counts) ==
  IF stopping THEN UNCHANGED <<status, failures, timer>>
  ELSE \E n \in counts :
         /\ failures' = n
         /\ IF n >= MaxRapidFailures
            THEN status' = "failed" /\ UNCHANGED timer
            ELSE status' = "restarting" /\ timer' = "due"

(* The restart timer of handleUnexpectedDeath. *)
TimerFires(r) ==
  /\ app # "exited" /\ timer # "none" /\ pc[r] = "idle"
  /\ timer' = "none"
  /\ IF stopping \/ timer = "stale"
     THEN UNCHANGED <<status, fresh, pc>>
     ELSE BeginSpawn(r)
  /\ UNCHANGED <<stopping, failures, child, procs, waitFor, booted, app, overlapped>>

\* Slip: the generation is not compared after the await.
SpawnUnchecked(r, p) ==
  /\ app # "exited" /\ pc[r] = "env" /\ procs[p] = "absent"
  /\ procs' = [procs EXCEPT ![p] = "up"]
  /\ child' = p
  /\ fresh' = fresh \cup {p}
  /\ pc' = [pc EXCEPT ![r] = "health"]
  /\ UNCHANGED <<status, stopping, failures, timer, waitFor, booted, app, overlapped>>

(* spawnAndAwaitReady after ensureDaemonEnv: a superseded run returns. The *)
(* new process overwrites this.child.                                      *)
Spawn(r, p) ==
  /\ app # "exited" /\ pc[r] = "env" /\ r \in fresh /\ procs[p] = "absent"
  /\ procs' = [procs EXCEPT ![p] = "up"]
  /\ child' = p
  /\ fresh' = fresh \cup {p}
  /\ pc' = [pc EXCEPT ![r] = "health"]
  /\ UNCHANGED <<status, stopping, failures, timer, waitFor, booted, app, overlapped>>

SpawnSuperseded(r) ==
  /\ app # "exited" /\ pc[r] = "env" /\ r \notin fresh
  /\ pc' = [pc EXCEPT ![r] = "idle"]
  /\ UNCHANGED <<status, stopping, failures, child, procs, fresh, timer, waitFor,
                 booted, app, overlapped>>

(* The child could not be started. spawn() throws, or reports it with an   *)
(* `error' event in the same turn, whose handler treats it as a death.     *)
SpawnThrows(r) ==
  /\ app # "exited" /\ pc[r] = "env" /\ r \in fresh
  /\ status' = "failed"
  /\ pc' = [pc EXCEPT ![r] = "idle"]
  /\ UNCHANGED <<stopping, failures, child, procs, fresh, timer, waitFor, booted, app,
                 overlapped>>

SpawnErrors(r) ==
  /\ app # "exited" /\ pc[r] = "env" /\ r \in fresh
  /\ child' = NoProc
  /\ pc' = [pc EXCEPT ![r] = "health"]
  /\ UnexpectedDeath({failures + 1})
  /\ UNCHANGED <<stopping, procs, fresh, waitFor, booted, app, overlapped>>

-----------------------------------------------------------------------------
(* A process that listens on the port answers /healthz: the poll does not  *)
(* say whose process it is, and the answer is on its way from here on.     *)
Answers(r) ==
  /\ app # "exited" /\ pc[r] = "health" /\ \E p \in Procs : Alive(p)
  /\ pc' = [pc EXCEPT ![r] = "answered"]
  /\ UNCHANGED <<status, stopping, failures, child, procs, fresh, timer, waitFor,
                 booted, app, overlapped>>

(* awaitHealthz returns true. *)
Healthy(r) ==
  /\ app # "exited" /\ pc[r] = "answered"
  /\ status' = IF r \in fresh THEN "running" ELSE status
  /\ pc' = [pc EXCEPT ![r] = "idle"]
  /\ UNCHANGED <<stopping, failures, child, procs, fresh, timer, waitFor, booted, app,
                 overlapped>>

(* awaitHealthz returns false: superseded, or the child is gone, or at the *)
(* deadline, where the child that never became healthy is stopped.         *)
Unhealthy(r) ==
  /\ app # "exited" /\ pc[r] = "health"
  /\ IF r \in fresh /\ status = "starting" /\ child # NoProc
     THEN TakeChild(r, "giveUp")
     ELSE /\ pc' = [pc EXCEPT ![r] = "idle"]
          /\ fresh' = IF r \in fresh /\ status = "starting" THEN {} ELSE fresh
          /\ UNCHANGED <<child, waitFor>>
  /\ UNCHANGED <<status, stopping, failures, procs, timer, booted, app, overlapped>>

-----------------------------------------------------------------------------
(* A process ends: it crashed, obeyed SIGTERM, or got SIGKILL 5s later. The *)
(* app's exit ends the escalation; what a process left behind does then is *)
(* not modelled.                                                           *)
Dies(p) ==
  /\ app # "exited" /\ Alive(p)
  /\ procs' = [procs EXCEPT ![p] = "gone"]
  /\ UNCHANGED <<status, stopping, failures, child, fresh, timer, pc, waitFor, booted,
                 app, overlapped>>

\* Slip: the exit handler does not compare the generation.
ExitUnchecked(p) ==
  /\ app # "exited" /\ procs[p] = "gone" /\ ~Terminating(p)
  /\ procs' = [procs EXCEPT ![p] = "absent"]
  /\ fresh' = fresh \ {p}
  /\ child' = NoProc /\ UnexpectedDeath({failures + 1, 1})
  /\ UNCHANGED <<stopping, pc, waitFor, booted, app, overlapped>>

(* The `exit' event of a process nobody is terminating. *)
ExitUnexpected(p) ==
  /\ app # "exited" /\ procs[p] = "gone" /\ ~Terminating(p)
  /\ procs' = [procs EXCEPT ![p] = "absent"]
  /\ fresh' = fresh \ {p}
  /\ IF p \in fresh
     THEN child' = NoProc /\ UnexpectedDeath({failures + 1, 1})
     ELSE UNCHANGED <<child, status, failures, timer>>
  /\ UNCHANGED <<stopping, pc, waitFor, booted, app, overlapped>>

(* The `exit' event that a stop awaits: terminateChild resolves, and the   *)
(* stop's caller goes on in the same turn.                                 *)
ExitAwaited(r) ==
  /\ app # "exited" /\ waitFor[r] # NoProc /\ procs[waitFor[r]] = "gone"
  /\ procs' = [procs EXCEPT ![waitFor[r]] = "absent"]
  /\ waitFor' = [waitFor EXCEPT ![r] = NoProc]
  /\ \/ /\ pc[r] = "restart"
        /\ Start(r)
        /\ timer' = Superseded
        /\ UNCHANGED app
     \/ /\ pc[r] = "quit"
        /\ status' = "stopped" /\ app' = "cleaned"
        /\ pc' = [pc EXCEPT ![r] = "idle"]
        /\ UNCHANGED <<stopping, failures, fresh, timer>>
     \/ /\ pc[r] = "giveUp"
        /\ status' = IF r \in fresh THEN "failed" ELSE status
        /\ pc' = [pc EXCEPT ![r] = "idle"]
        /\ UNCHANGED <<stopping, failures, fresh, timer, app>>
  /\ UNCHANGED <<child, booted, overlapped>>

-----------------------------------------------------------------------------
RunStep(r) == \/ Boot(r) \/ Restart(r) \/ Quit(r) \/ TimerFires(r)
              \/ SpawnSuperseded(r) \/ SpawnThrows(r) \/ SpawnErrors(r)
              \/ Answers(r) \/ Healthy(r) \/ Unhealthy(r) \/ ExitAwaited(r)
              \/ \E p \in Procs : Spawn(r, p)

Next == \/ \E r \in Runs : RunStep(r)
        \/ \E p \in Procs : Dies(p) \/ ExitUnexpected(p)
        \/ QuitAgain
        \/ Exit

Spec == Init /\ [][Next]_vars

-----------------------------------------------------------------------------
(* No daemon runs that the app has forgotten: while the app lives, every    *)
(* live process is the supervised child or being terminated, whatever      *)
(* spawn, backoff or health wait a restart cut into; and the exit of the   *)
(* app leaves none ("never orphan the child", daemon-manager.ts; "Never    *)
(* orphan the children", main.ts).  Lifecycle calls that overlap are       *)
(* excepted: for them it does not hold, start overwrites this.child.       *)
NoOrphan == ~overlapped =>
  \A p \in Procs : Alive(p) => app # "exited" /\ (p = child \/ Terminating(p))

(* `Restarting' is a promise: while it is shown, a timer of the present    *)
(* generation is armed and nothing will make it return early, so the       *)
(* daemon does come back (handleUnexpectedDeath), overlaps or not.         *)
RestartKept == status = "restarting" => timer = "due" /\ ~stopping

(* start: "Resolves true when healthy within 30s, false otherwise (state   *)
(* moves to 'failed' on spawn error/timeouts)": while the user is shown    *)
(* `starting', a start that may still announce its end, or a stop, is      *)
(* under way.                                                              *)
StartEnds ==
  status = "starting" /\ app # "exited" =>
    \E r \in Runs : \/ waitFor[r] # NoProc
                    \/ r \in fresh /\ pc[r] \in {"env", "health", "answered"}

=============================================================================
