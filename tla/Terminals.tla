----------------------------- MODULE Terminals -----------------------------
(***************************************************************************)
(* The pseudo-terminals of a machine: TerminalService, its PTYManagers and *)
(* the TerminalOutputCoalescer.  The threads that meet at a session:       *)
(*                                                                         *)
(*   spawn    pool workers of the RPC client, one per session              *)
(*   rpc      the single ordered worker (pty-kill)                         *)
(*   reaper   the lease reaper                                             *)
(*   shutdown the daemon's wind-down, with one closer per session          *)
(*   reader   _pump, one per session; it alone reports the exit            *)
(*   drain    the coalescer's thread, which sends the frames               *)
(*                                                                         *)
(* rpc, reaper, shutdown and reader all end in PTYManager.close, one at a  *)
(* time under the session's close_lock.  A file descriptor is a number:    *)
(* from os.close on the system may give it to another session, while       *)
(* master_fd still holds it until it is set to None (CloseFd, ClearFd).    *)
(*                                                                         *)
(* Clock values are abstracted to whether a lease has run out, output to   *)
(* whether there is some.                                                  *)
(***************************************************************************)
EXTENDS Naturals, FiniteSets

CONSTANTS
    Sessions,       \* pty ids, each spawned at most once
    MaxSessions,    \* DEFAULT_MAX_SESSIONS
    Fds,            \* file descriptor numbers
    Leased,         \* sessions whose client asks for a lease and renews it
    Talking         \* sessions whose child writes

None == "none"
NoFd == 0

ASSUME TerminalsAssumption ==
    /\ Fds \subseteq Nat \ {NoFd} /\ None \notin Sessions
    /\ Leased \subseteq Sessions /\ Talking \subseteq Sessions
    /\ MaxSessions \in Nat

VARIABLES
    spawn,          \* how far TerminalService.spawn got
    table,          \* keys of _sessions
    lease,          \* lease_deadline: none, in the future or in the past
    stop,           \* sessions with stop_requested
    fd, pid,        \* PTYManager.master_fd; sessions with child_pid
    child, owner,   \* the processes; whose pty an open descriptor is
    reader,         \* where _pump is
    waiting,        \* threads at the close_lock of each session
    holder, closing,\* the one inside PTYManager.close, and where it is
    rpc,            \* the session the ordered worker kills
    armed,          \* the reaper thread exists
    expired, reaping, \* reap_expired: its scan, and the session it kills
    shut,           \* how far the wind-down is
    buf, exits,     \* keys of _buffers with output, and of _exits
    drained,        \* what the drain thread took and has not sent
    exited          \* exits sent for each session

ptyVars   == <<fd, pid, child, owner>>
closeVars == <<waiting, holder, closing>>
killVars  == <<rpc, armed, expired, reaping, shut>>
coalVars  == <<buf, exits, drained, exited>>
vars == <<spawn, table, lease, stop, ptyVars, reader, closeVars, killVars, coalVars>>

Threads == {"rpc", "reaper", "shutdown", "reader"}

\* The values of the state; among them that the registry keeps its limit and that
\* no session reports more than one exit.
TypeOK ==
    /\ spawn \in [Sessions -> {"new", "registered", "up", "failed"}]
    /\ table \subseteq Sessions /\ Cardinality(table) <= MaxSessions
    /\ lease \in [Sessions -> {None, "live", "past"}]
    /\ stop \subseteq Sessions /\ pid \subseteq Sessions
    /\ fd \in [Sessions -> Fds \cup {NoFd}]
    /\ child \in [Sessions -> {None, "alive", "zombie", "reaped"}]
    /\ owner \in [Fds -> Sessions \cup {None}]
    /\ reader \in [Sessions -> {None, "poll", "read", "wait", "close", "report", "done"}]
    /\ waiting \in [Sessions -> SUBSET Threads]
    /\ holder \in [Sessions -> Threads \cup {None}]
    /\ closing \in [Sessions -> {None, "fd", "clear"}]
    /\ rpc \in Sessions \cup {None} /\ reaping \in Sessions \cup {None}
    /\ expired \subseteq Sessions
    /\ armed \in BOOLEAN /\ shut \in {"no", "killed", "down"}
    /\ buf \subseteq Sessions /\ exits \subseteq Sessions
    /\ drained \in [out : SUBSET Sessions, exits : SUBSET Sessions]
    /\ exited \in [Sessions -> 0 .. 1]

Init ==
    /\ spawn = [s \in Sessions |-> "new"] /\ table = {}
    /\ lease = [s \in Sessions |-> None] /\ stop = {}
    /\ fd = [s \in Sessions |-> NoFd] /\ pid = {}
    /\ child = [s \in Sessions |-> None] /\ owner = [f \in Fds |-> None]
    /\ reader = [s \in Sessions |-> None]
    /\ waiting = [s \in Sessions |-> {}]
    /\ holder = [s \in Sessions |-> None] /\ closing = [s \in Sessions |-> None]
    /\ rpc = None /\ armed = FALSE /\ expired = {} /\ reaping = None /\ shut = "no"
    /\ buf = {} /\ exits = {} /\ drained = [out |-> {}, exits |-> {}]
    /\ exited = [s \in Sessions |-> 0]

-----------------------------------------------------------------------------
(* spawn.                                                                  *)

\* The session is in the registry before its pty exists.
Register(s) ==
    /\ spawn[s] = "new"
    /\ Cardinality(table) < MaxSessions
    /\ table' = table \cup {s}
    /\ spawn' = [spawn EXCEPT ![s] = "registered"]
    /\ lease' = [lease EXCEPT ![s] = IF s \in Leased THEN "live" ELSE None]
    /\ UNCHANGED <<stop, ptyVars, reader, closeVars, killVars, coalVars>>

\* pty.fork, on the lowest descriptor that is free.
Forked(s, f) ==
    /\ owner[f] = None /\ \A g \in Fds : owner[g] = None => f <= g
    /\ child' = [child EXCEPT ![s] = "alive"] /\ pid' = pid \cup {s}
    /\ fd' = [fd EXCEPT ![s] = f] /\ owner' = [owner EXCEPT ![f] = s]

\* Slip: only a renewal starts the reaper.
ForkUnarmed(s) ==
    /\ spawn[s] = "registered"
    /\ \E f \in Fds : Forked(s, f)
    /\ spawn' = [spawn EXCEPT ![s] = "up"]
    /\ reader' = [reader EXCEPT ![s] = "poll"]
    /\ UNCHANGED <<table, lease, stop, closeVars, killVars, coalVars>>

\* The pty is up; then the reader starts, and the reaper if there is a lease.
Fork(s) ==
    /\ spawn[s] = "registered"
    /\ \E f \in Fds : Forked(s, f)
    /\ spawn' = [spawn EXCEPT ![s] = "up"]
    /\ reader' = [reader EXCEPT ![s] = "poll"]
    /\ armed' = (armed \/ lease[s] # None)
    /\ UNCHANGED <<table, lease, stop, closeVars, rpc, expired, reaping, shut, coalVars>>

ForkFails(s) ==
    /\ spawn[s] = "registered"
    /\ spawn' = [spawn EXCEPT ![s] = "failed"]
    /\ table' = table \ {s}
    /\ UNCHANGED <<lease, stop, ptyVars, reader, closeVars, killVars, coalVars>>

-----------------------------------------------------------------------------
(* The child, leases and kills.                                            *)

ChildExits(s) ==
    /\ child[s] = "alive"
    /\ child' = [child EXCEPT ![s] = "zombie"]
    /\ UNCHANGED <<spawn, table, lease, stop, fd, pid, owner, reader, closeVars, killVars,
                   coalVars>>

LeaseRunsOut(s) ==
    /\ lease[s] = "live" /\ s \in table
    /\ lease' = [lease EXCEPT ![s] = "past"]
    /\ UNCHANGED <<spawn, table, stop, ptyVars, reader, closeVars, killVars, coalVars>>

\* renew_leases: those ids that are in the registry.
RenewLeases(S) ==
    /\ S # {} /\ \A s \in S : spawn[s] = "up"
    /\ lease' = [s \in Sessions |-> IF s \in S THEN "live" ELSE lease[s]]
    /\ armed' = TRUE
    /\ UNCHANGED <<spawn, table, stop, ptyVars, reader, closeVars, rpc, expired, reaping,
                   shut, coalVars>>

\* kill, up to the close_lock, by thread t for sessions it found.
AskToClose(t, S) ==
    /\ stop' = stop \cup S
    /\ waiting' = [s \in Sessions |-> IF s \in S THEN waiting[s] \cup {t} ELSE waiting[s]]

RpcKill(s) ==
    /\ rpc = None /\ s \in table /\ spawn[s] = "up"
    /\ rpc' = s
    /\ AskToClose("rpc", {s})
    /\ UNCHANGED <<spawn, table, lease, ptyVars, reader, holder, closing, armed, expired,
                   reaping, shut, coalVars>>

\* reap_expired scans under the lock ...
Scan ==
    /\ armed /\ shut = "no" /\ expired = {} /\ reaping = None
    /\ expired' = {s \in table : lease[s] = "past"}
    /\ expired' # {}
    /\ UNCHANGED <<spawn, table, lease, stop, ptyVars, reader, closeVars, rpc, armed,
                   reaping, shut, coalVars>>

\* ... and kills what it found, one by one, without it.
Reap(s) ==
    /\ reaping = None /\ s \in expired
    /\ expired' = expired \ {s}
    /\ IF s \in table THEN reaping' = s /\ AskToClose("reaper", {s})
                      ELSE UNCHANGED <<reaping, stop, waiting>>
    /\ UNCHANGED <<spawn, table, lease, ptyVars, reader, holder, closing, rpc, armed, shut,
                   coalVars>>

\* shutdown: the reaper is told to stop (a sweep under way goes on) and every
\* session is closed at once ...
Shutdown ==
    /\ shut = "no"
    /\ shut' = "killed"
    /\ AskToClose("shutdown", table)
    /\ UNCHANGED <<spawn, table, lease, ptyVars, reader, holder, closing, rpc, armed,
                   expired, reaping, coalVars>>

\* ... and then the coalescer stops; the joins before it time out.
StopCoalescer ==
    /\ shut = "killed"
    /\ shut' = "down"
    /\ UNCHANGED <<spawn, table, lease, stop, ptyVars, reader, closeVars, rpc, armed,
                   expired, reaping, coalVars>>

-----------------------------------------------------------------------------
(* PTYManager.close under the close_lock.                                  *)

\* The signals first, up to SIGKILL: the child is gone and, if the reader was
\* not faster, reaped here.
Enter(s, t) ==
    /\ waiting' = [waiting EXCEPT ![s] = @ \ {t}]
    /\ holder' = [holder EXCEPT ![s] = t]
    /\ closing' = [closing EXCEPT ![s] = "fd"]
    /\ child' = [child EXCEPT ![s] = IF s \in pid THEN "reaped" ELSE @]
    /\ pid' = pid \ {s}
    /\ UNCHANGED <<spawn, table, lease, stop, fd, owner, reader, killVars, coalVars>>

\* Slip: nobody takes the lock.
AcquireUnlocked(s) == \E t \in waiting[s] : Enter(s, t)

Acquire(s) == holder[s] = None /\ \E t \in waiting[s] : Enter(s, t)

\* os.close(self.master_fd): whoever has that number loses it.
CloseFd(s) ==
    /\ closing[s] = "fd" /\ fd[s] # NoFd
    /\ owner' = [owner EXCEPT ![fd[s]] = None]
    /\ closing' = [closing EXCEPT ![s] = "clear"]
    /\ UNCHANGED <<spawn, table, lease, stop, fd, pid, child, reader, waiting, holder,
                   killVars, coalVars>>

\* master_fd = None (or it was), the lock is released, and its holder goes on.
ClearFd(s) ==
    /\ closing[s] = "clear" \/ (closing[s] = "fd" /\ fd[s] = NoFd)
    /\ fd' = [fd EXCEPT ![s] = NoFd]
    /\ closing' = [closing EXCEPT ![s] = None]
    /\ holder' = [holder EXCEPT ![s] = None]
    /\ rpc' = IF holder[s] = "rpc" THEN None ELSE rpc
    /\ reaping' = IF holder[s] = "reaper" THEN None ELSE reaping
    /\ reader' = IF holder[s] = "reader" THEN [reader EXCEPT ![s] = "report"] ELSE reader
    /\ UNCHANGED <<spawn, table, lease, stop, pid, child, owner, waiting, armed, expired,
                   shut, coalVars>>

-----------------------------------------------------------------------------
(* The reader: _pump and _finalize.                                        *)

Open(s) == fd[s] # NoFd /\ owner[fd[s]] # None
Holder(s) == owner[fd[s]]

ReaderAt(s, from, to) ==
    /\ reader[s] = from
    /\ reader' = [reader EXCEPT ![s] = to]
    /\ UNCHANGED <<spawn, stop, fd, pid, owner, holder, closing, killVars, drained,
                   exited>>

\* select returns: data, or the child hung up.  The data are those of whoever has
\* the descriptor.
Ready(s) == /\ s \notin stop /\ Open(s)
            /\ Holder(s) \in Talking \/ child[Holder(s)] # "alive"
            /\ ReaderAt(s, "poll", "read")
            /\ UNCHANGED <<table, lease, child, waiting, buf, exits>>

\* The loop ends: a stop request, a closed descriptor, or select timed out and
\* the child is gone.
Leave(s) == /\ s \in stop \/ ~Open(s) \/ s \notin pid \/ child[s] = "reaped"
            /\ ReaderAt(s, "poll", "wait")
            /\ UNCHANGED <<table, lease, child, waiting, buf, exits>>

\* read_from_pty, and handle of the coalescer.
Read(s) == /\ Open(s) /\ Holder(s) \in Talking
           /\ ReaderAt(s, "read", "poll")
           /\ buf' = IF shut = "down" THEN buf ELSE buf \cup {s}
           /\ UNCHANGED <<table, lease, child, waiting, exits>>

\* The descriptor is closed, the child hung up, or there was nothing to read.
ReadEnds(s) == /\ ReaderAt(s, "read", "wait")
               /\ UNCHANGED <<table, lease, child, waiting, buf, exits>>

Reaped(s) == child' = [child EXCEPT ![s] = IF s \in pid /\ @ = "zombie" THEN "reaped" ELSE @]

\* Slip: the pty of a child that left by itself is not closed.
FinalizeUnclosed(s) ==
    /\ ReaderAt(s, "wait", IF s \in stop THEN "close" ELSE "report")
    /\ Reaped(s)
    /\ table' = table \ {s} /\ lease' = [lease EXCEPT ![s] = None]
    /\ waiting' = [waiting EXCEPT ![s] = IF s \in stop THEN @ \cup {"reader"} ELSE @]
    /\ UNCHANGED <<buf, exits>>

\* wait_for_child reaps a child that has exited, or gives up after 2 s; then
\* the session leaves the registry and is closed.
Finalize(s) ==
    /\ ReaderAt(s, "wait", "close")
    /\ Reaped(s)
    /\ table' = table \ {s} /\ lease' = [lease EXCEPT ![s] = None]
    /\ waiting' = [waiting EXCEPT ![s] = @ \cup {"reader"}]
    /\ UNCHANGED <<buf, exits>>

\* Slip: an exit that was asked for is not reported.
ReportUnlessStopped(s) ==
    /\ ReaderAt(s, "report", "done")
    /\ exits' = IF shut = "down" \/ s \in stop THEN exits ELSE exits \cup {s}
    /\ UNCHANGED <<table, lease, child, waiting, buf>>

\* on_exit is mark_exit of the coalescer.
Report(s) == /\ ReaderAt(s, "report", "done")
             /\ exits' = IF shut = "down" THEN exits ELSE exits \cup {s}
             /\ UNCHANGED <<table, lease, child, waiting, buf>>

-----------------------------------------------------------------------------
(* The coalescer's drain thread.                                           *)

serviceVars == <<spawn, table, lease, stop, ptyVars, reader, closeVars, killVars>>

Taking ==
    /\ drained.out = {} /\ drained.exits = {}
    /\ buf \cup exits # {}
    /\ drained' = [out |-> buf, exits |-> exits]
    /\ UNCHANGED <<serviceVars, exited>>

\* Slip: the exits that were taken stay.
DrainKeepsExits == Taking /\ buf' = {} /\ UNCHANGED exits

\* _drain takes everything under the lock.  After the stop this is the last time.
Drain == Taking /\ buf' = {} /\ exits' = {}

\* The output frames go out before the exits.
EmitOutput ==
    /\ drained.out # {}
    /\ drained' = [drained EXCEPT !.out = {}]
    /\ UNCHANGED <<serviceVars, buf, exits, exited>>

Exiting ==
    /\ drained.exits # {}
    /\ exited' = [s \in Sessions |-> IF s \in drained.exits THEN exited[s] + 1 ELSE exited[s]]
    /\ drained' = [drained EXCEPT !.exits = {}]
    /\ UNCHANGED <<serviceVars, buf, exits>>

\* Slip: the exits are sent first.
EmitExitFirst == Exiting

EmitExit == drained.out = {} /\ Exiting

-----------------------------------------------------------------------------
Spawning(s) == Fork(s) \/ ForkFails(s)
Closing(s) == Acquire(s) \/ CloseFd(s) \/ ClearFd(s)
Pump(s) == Ready(s) \/ Leave(s) \/ Read(s) \/ ReadEnds(s) \/ Finalize(s) \/ Report(s)
Reaper == Scan \/ \E s \in Sessions : Reap(s)
Draining == Drain \/ EmitOutput \/ EmitExit

Next ==
    \/ \E s \in Sessions :
          \/ Register(s) \/ Spawning(s) \/ ChildExits(s) \/ LeaseRunsOut(s)
          \/ RpcKill(s) \/ Closing(s) \/ Pump(s)
    \/ \E S \in SUBSET (table \cap Leased) : RenewLeases(S)
    \/ Reaper \/ Shutdown \/ StopCoalescer \/ Draining

Spec == Init /\ [][Next]_vars

\* Every thread that can go on does; one condition is enough for the steps that
\* cannot repeat for ever.  Nothing is fair about the user, the child, the leases
\* or the wind-down.
FairSpec ==
    /\ Spec
    /\ WF_vars(Reaper \/ \E s \in Sessions : Spawning(s) \/ Closing(s))
    /\ \A s \in Sessions : WF_vars(Pump(s))
    /\ WF_vars(Draining)

-----------------------------------------------------------------------------
(* Properties.                                                             *)

\* close_lock: whichever of kill, reaper, shutdown and finalize close a session,
\* in any overlap, no descriptor is closed that was given to another session.
ClosesOwn == \A s \in Sessions : closing[s] = "fd" /\ fd[s] # NoFd => owner[fd[s]] = s

\* A live child or an open pty is in the registry or about to be closed by its
\* reader: none is left behind, and an exit is reported only after both are gone.
NothingLeaks ==
    \A s \in Sessions :
        child[s] \in {"alive", "zombie"} \/ (\E f \in Fds : owner[f] = s)
            => s \in table \/ reader[s] = "close"

\* The client sees one exit, after all of the output, of a session that is gone.
ExitLast ==
    \A s \in Sessions :
        exited[s] = 1 => s \notin buf \cup drained.out \cup table /\ reader[s] = "done"

\* The sessions that were told to stop, by whichever of the three, all come to
\* report their exit, unless the daemon winds down before.
ExitReported ==
    []<>(\A s \in stop : exited[s] = 1 \/ shut = "down" \/ spawn[s] = "failed")

\* A session whose client went away is closed, unless the client comes back.
ExpiredReaped ==
    (\E s \in Leased : lease[s] = "past" /\ child[s] = "alive")
        ~> (\A s \in Leased : lease[s] = "past" => shut # "no")

=============================================================================
