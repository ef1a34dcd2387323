-------------------------- MODULE TerminalsProofs --------------------------
(***************************************************************************)
(* For any set of sessions and of descriptors: no close reaches another    *)
(* session's descriptor, nothing that lives is left behind, and the exit   *)
(* is the last that a client hears of a session.                           *)
(***************************************************************************)
EXTENDS Terminals, FiniteSetTheorems, TLAPS

Living == {"alive", "zombie"}

\* The values, in groups; armed is apart from what needs arithmetic.
Bounded == IsFiniteSet(table) /\ Cardinality(table) <= MaxSessions

ServiceTypes ==
    /\ spawn \in [Sessions -> {"new", "registered", "up", "failed"}]
    /\ table \subseteq Sessions /\ lease \in [Sessions -> {None, "live", "past"}]
    /\ stop \subseteq Sessions /\ expired \subseteq Sessions
    /\ rpc \in Sessions \cup {None} /\ reaping \in Sessions \cup {None}
    /\ shut \in {"no", "killed", "down"}

PtyTypes ==
    /\ pid \subseteq Sessions /\ fd \in [Sessions -> Fds \cup {NoFd}]
    /\ child \in [Sessions -> {None, "alive", "zombie", "reaped"}]
    /\ owner \in [Fds -> Sessions \cup {None}]

ThreadTypes ==
    /\ reader \in [Sessions -> {None, "poll", "read", "wait", "close", "report", "done"}]
    /\ waiting \in [Sessions -> SUBSET Threads]
    /\ holder \in [Sessions -> Threads \cup {None}]
    /\ closing \in [Sessions -> {None, "fd", "clear"}]

CoalTypes ==
    /\ buf \subseteq Sessions /\ exits \subseteq Sessions
    /\ drained \in [out : SUBSET Sessions, exits : SUBSET Sessions]
    /\ exited \in [Sessions -> 0 .. 1]

\* A thread is inside close exactly while it holds the lock, and a descriptor that
\* was closed and not cleared is still a number.
Lock(s) ==
    /\ holder[s] = None <=> closing[s] = None
    /\ fd[s] # NoFd => spawn[s] = "up"
    /\ closing[s] = "clear" => fd[s] # NoFd

\* master_fd is the session's own pty until os.close.
Owns(s) == \A f \in Fds : owner[f] = s <=> fd[s] = f /\ closing[s] # "clear"

\* Before the fork a session has neither process nor reader, and is registered.
Born(s) ==
    /\ spawn[s] = "up" \/ (child[s] = None /\ s \notin pid /\ reader[s] = None)
    /\ spawn[s] = "registered" => s \in table

\* A process that is not reaped can be signalled.
Reachable(s) == child[s] \in Living => s \in pid

\* The reader closes once, after it took the session off the registry, and
\* reports when the child and the pty are gone.
Finalized(s) ==
    /\ "reader" \in waiting[s] \/ holder[s] = "reader" => reader[s] = "close"
    /\ holder[s] = "reader" => "reader" \notin waiting[s] /\ child[s] \notin Living
    /\ reader[s] \in {"report", "done"} => child[s] \notin Living /\ fd[s] = NoFd
    /\ reader[s] \in {"close", "report", "done"} => s \notin table

\* NothingLeaks for one session.
Kept(s) ==
    child[s] \in Living \/ (\E f \in Fds : owner[f] = s) => s \in table \/ reader[s] = "close"

\* The exit is in one place, and no output is behind it.
Pipe(s) ==
    /\ s \in exits => s \notin drained.exits /\ exited[s] = 0
    /\ s \in drained.exits => exited[s] = 0 /\ s \notin buf
    /\ s \in exits \cup drained.exits \/ exited[s] = 1 => reader[s] = "done"
    /\ exited[s] = 1 => s \notin buf \cup drained.out

Ptys == \A s \in Sessions : Lock(s) /\ Owns(s) /\ Born(s) /\ Reachable(s)
Readers == \A s \in Sessions : Finalized(s) /\ Kept(s)
Pipes == \A s \in Sessions : Pipe(s)
Types == ServiceTypes /\ PtyTypes /\ ThreadTypes /\ CoalTypes

IInv == Types /\ Ptys /\ Readers /\ Pipes

-----------------------------------------------------------------------------
(* The groups of types.                                                    *)

\* A machine without terminals.
LEMMA TypesInit == Init => Types
  BY TerminalsAssumption
  DEF Init, Types, ServiceTypes, PtyTypes, ThreadTypes, CoalTypes

\* The service's registry, its leases and its killers.
LEMMA ServiceTypesStep ==
    ASSUME Types, [Next]_vars
    PROVE  ServiceTypes'
<1> USE DEF Types, ServiceTypes
<1>1. CASE UNCHANGED vars
  BY <1>1 DEF vars, killVars
<1>2. ASSUME NEW s \in Sessions, Register(s) \/ Spawning(s) \/ ChildExits(s) \/ LeaseRunsOut(s)
      PROVE  ServiceTypes'
  BY <1>2 DEF Register, Spawning, Fork, ForkFails, ChildExits, LeaseRunsOut, killVars
<1>3. ASSUME NEW s \in Sessions, RpcKill(s) \/ Closing(s)
      PROVE  ServiceTypes'
  BY <1>3 DEF RpcKill, AskToClose, Closing, Acquire, Enter, CloseFd, ClearFd, killVars
<1>4. ASSUME NEW s \in Sessions, Pump(s)
      PROVE  ServiceTypes'
  BY <1>4 DEF Pump, Ready, Leave, Read, ReadEnds, Finalize, Report, ReaderAt, killVars
<1>5. ASSUME NEW S \in SUBSET (table \cap Leased), RenewLeases(S)
      PROVE  ServiceTypes'
  BY <1>5 DEF RenewLeases
<1>6. CASE Reaper \/ Shutdown \/ StopCoalescer
  BY <1>6 DEF Reaper, Scan, Reap, Shutdown, StopCoalescer, AskToClose
<1>7. CASE Draining
  BY <1>7 DEF Draining, Drain, Taking, EmitOutput, EmitExit, Exiting, serviceVars, killVars
<1>8. QED
  BY <1>1, <1>2, <1>3, <1>4, <1>5, <1>6, <1>7 DEF Next

\* Descriptors and processes.
LEMMA PtyTypesStep ==
    ASSUME Types, [Next]_vars
    PROVE  PtyTypes'
<1> USE DEF Types, PtyTypes
<1>1. CASE UNCHANGED vars
  BY <1>1 DEF vars, ptyVars
<1>2. ASSUME NEW s \in Sessions, Register(s) \/ Spawning(s) \/ ChildExits(s) \/ LeaseRunsOut(s)
      PROVE  PtyTypes'
  BY <1>2 DEF Register, Spawning, Fork, Forked, ForkFails, ChildExits, LeaseRunsOut, ptyVars
<1>3. ASSUME NEW s \in Sessions, RpcKill(s) \/ Closing(s)
      PROVE  PtyTypes'
  BY <1>3 DEF RpcKill, Closing, Acquire, Enter, CloseFd, ClearFd, ptyVars
<1>4. ASSUME NEW s \in Sessions, Pump(s)
      PROVE  PtyTypes'
  BY <1>4 DEF Pump, Ready, Leave, Read, ReadEnds, Finalize, Reaped, Report, ReaderAt
<1>5. ASSUME NEW S \in SUBSET (table \cap Leased), RenewLeases(S)
      PROVE  PtyTypes'
  BY <1>5 DEF RenewLeases, ptyVars
<1>6. CASE Reaper \/ Shutdown \/ StopCoalescer \/ Draining
  BY <1>6 DEF Reaper, Scan, Reap, Shutdown, StopCoalescer, Draining, Drain, Taking, EmitOutput,
              EmitExit, Exiting, serviceVars, ptyVars
<1>7. QED
  BY <1>1, <1>2, <1>3, <1>4, <1>5, <1>6 DEF Next

\* Where the threads of a session are.
LEMMA ThreadTypesStep ==
    ASSUME Types, [Next]_vars
    PROVE  ThreadTypes'
<1> USE DEF Types, ThreadTypes, Threads
<1>1. CASE UNCHANGED vars
  BY <1>1 DEF vars, closeVars
<1>2. ASSUME NEW s \in Sessions, Register(s) \/ Spawning(s) \/ ChildExits(s) \/ LeaseRunsOut(s)
      PROVE  ThreadTypes'
  BY <1>2 DEF Register, Spawning, Fork, ForkFails, ChildExits, LeaseRunsOut, closeVars
<1>3. ASSUME NEW s \in Sessions, RpcKill(s) \/ Closing(s)
      PROVE  ThreadTypes'
  <2>1. CASE RpcKill(s)
    BY <2>1 DEF RpcKill, AskToClose
  <2>2. CASE Acquire(s)
    BY <2>2 DEF Acquire, Enter
  <2>3. CASE CloseFd(s) \/ ClearFd(s)
    BY <2>3 DEF CloseFd, ClearFd
  <2>4. QED
    BY <1>3, <2>1, <2>2, <2>3 DEF Closing
<1>4. ASSUME NEW s \in Sessions, Pump(s)
      PROVE  ThreadTypes'
  BY <1>4 DEF Pump, Ready, Leave, Read, ReadEnds, Finalize, Report, ReaderAt
<1>5. ASSUME NEW S \in SUBSET (table \cap Leased), RenewLeases(S)
      PROVE  ThreadTypes'
  BY <1>5 DEF RenewLeases, closeVars
<1>6. CASE Reaper \/ Shutdown \/ StopCoalescer
  BY <1>6 DEF Reaper, Scan, Reap, Shutdown, StopCoalescer, AskToClose, closeVars
<1>7. CASE Draining
  BY <1>7 DEF Draining, Drain, Taking, EmitOutput, EmitExit, Exiting, serviceVars, closeVars
<1>8. QED
  BY <1>1, <1>2, <1>3, <1>4, <1>5, <1>6, <1>7 DEF Next

\* The exits are counted up to one because of Pipe.
LEMMA CoalTypesStep ==
    ASSUME Types, Pipes, [Next]_vars
    PROVE  CoalTypes'
<1> USE DEF Types, CoalTypes
<1>1. CASE UNCHANGED vars
  BY <1>1 DEF vars, coalVars
<1>2. ASSUME NEW s \in Sessions, Register(s) \/ Spawning(s) \/ ChildExits(s) \/ LeaseRunsOut(s)
      PROVE  CoalTypes'
  BY <1>2 DEF Register, Spawning, Fork, ForkFails, ChildExits, LeaseRunsOut, coalVars
<1>3. ASSUME NEW s \in Sessions, RpcKill(s) \/ Closing(s)
      PROVE  CoalTypes'
  BY <1>3 DEF RpcKill, Closing, Acquire, Enter, CloseFd, ClearFd, coalVars
<1>4. ASSUME NEW s \in Sessions, Pump(s)
      PROVE  CoalTypes'
  BY <1>4 DEF Pump, Ready, Leave, Read, ReadEnds, Finalize, Report, ReaderAt
<1>5. ASSUME NEW S \in SUBSET (table \cap Leased), RenewLeases(S)
      PROVE  CoalTypes'
  BY <1>5 DEF RenewLeases, coalVars
<1>6. CASE Reaper \/ Shutdown \/ StopCoalescer
  BY <1>6 DEF Reaper, Scan, Reap, Shutdown, StopCoalescer, coalVars
<1>7. CASE Drain \/ EmitOutput
  BY <1>7 DEF Drain, Taking, EmitOutput
<1>8. CASE EmitExit
  BY <1>8 DEF EmitExit, Exiting, Pipes, Pipe
<1>9. QED
  BY <1>1, <1>2, <1>3, <1>4, <1>5, <1>6, <1>7, <1>8 DEF Next, Draining

\* All groups.
LEMMA TypesStep ==
    ASSUME Types, Pipes, [Next]_vars
    PROVE  Types'
BY ServiceTypesStep, PtyTypesStep, ThreadTypesStep, CoalTypesStep DEF Types

\* Registering is what fills the registry, and it keeps to the limit.
LEMMA BoundedStep ==
    ASSUME Types, Bounded, [Next]_vars
    PROVE  Bounded'
<1>1. CASE \E s \in Sessions : Register(s)
  <2>1. PICK s \in Sessions : Register(s)
    BY <1>1
  <2>2. Cardinality(table) \in Nat
    BY FS_CardinalityType DEF Bounded
  <2>3. IsFiniteSet(table') /\ Cardinality(table') <= Cardinality(table) + 1
    <3>1. table' = table \cup {s} /\ IsFiniteSet(table)
      BY <2>1 DEF Register, Bounded
    <3>2. /\ IsFiniteSet(table \cup {s})
          /\ Cardinality(table \cup {s}) = IF s \in table THEN Cardinality(table)
                                                        ELSE Cardinality(table) + 1
      BY <3>1, FS_AddElement
    <3>3. QED
      BY <2>2, <3>1, <3>2
  <2>4. Cardinality(table') \in Nat
    BY <2>3, FS_CardinalityType
  <2>5. QED
    BY <2>1, <2>2, <2>3, <2>4, TerminalsAssumption DEF Bounded, Register
<1>2. CASE \E s \in Sessions : table' = table \ {s}
  <2>1. PICK s \in Sessions : table' = table \ {s}
    BY <1>2
  <2>2. Cardinality(table) \in Nat
    BY FS_CardinalityType DEF Bounded
  <2>3. IsFiniteSet(table') /\ Cardinality(table') \in {Cardinality(table), Cardinality(table) - 1}
    BY <2>1, FS_RemoveElement DEF Bounded
  <2>4. QED
    BY <2>2, <2>3, TerminalsAssumption DEF Bounded
<1>3. CASE table' = table
  BY <1>3 DEF Bounded
<1>4. QED
  <2>1. CASE UNCHANGED vars
    BY <1>3, <2>1 DEF vars
  <2>2. ASSUME NEW s \in Sessions, Spawning(s) \/ ChildExits(s) \/ LeaseRunsOut(s) \/ RpcKill(s)
        PROVE  Bounded'
    BY <1>2, <1>3, <2>2 DEF Spawning, Fork, ForkFails, ChildExits, LeaseRunsOut, RpcKill
  <2>3. ASSUME NEW s \in Sessions, Closing(s)
        PROVE  Bounded'
    BY <1>3, <2>3 DEF Closing, Acquire, Enter, CloseFd, ClearFd
  <2>4. ASSUME NEW s \in Sessions, Pump(s)
        PROVE  Bounded'
    BY <1>2, <1>3, <2>4 DEF Pump, Ready, Leave, Read, ReadEnds, Finalize, Report
  <2>5. CASE Reaper \/ Shutdown \/ StopCoalescer \/ Draining
    BY <1>3, <2>5 DEF Reaper, Scan, Reap, Shutdown, StopCoalescer, Draining, Drain, Taking,
                      EmitOutput, EmitExit, Exiting, serviceVars
  <2>6. ASSUME NEW S \in SUBSET (table \cap Leased), RenewLeases(S)
        PROVE  Bounded'
    BY <1>3, <2>6 DEF RenewLeases
  <2>7. QED
    BY <1>1, <2>1, <2>2, <2>3, <2>4, <2>5, <2>6 DEF Next

\* Whether there is a reaper thread.
LEMMA ArmedStep ==
    ASSUME armed \in BOOLEAN, [Next]_vars
    PROVE  armed' \in BOOLEAN
<1>1. CASE UNCHANGED vars
  BY <1>1 DEF vars, killVars
<1>2. ASSUME NEW s \in Sessions, Register(s) \/ Spawning(s) \/ ChildExits(s) \/ LeaseRunsOut(s)
                                 \/ RpcKill(s)
      PROVE  armed' \in BOOLEAN
  BY <1>2, Zenon DEF Register, Spawning, Fork, ForkFails, ChildExits, LeaseRunsOut, RpcKill, killVars
<1>3. ASSUME NEW s \in Sessions, Closing(s) \/ Pump(s)
      PROVE  armed' \in BOOLEAN
  BY <1>3 DEF Closing, Acquire, Enter, CloseFd, ClearFd, Pump, Ready, Leave, Read, ReadEnds, Finalize,
              Report, ReaderAt, killVars
<1>4. ASSUME NEW S \in SUBSET (table \cap Leased), RenewLeases(S)
      PROVE  armed' \in BOOLEAN
  BY <1>4, Zenon DEF RenewLeases
<1>5. CASE Reaper \/ Shutdown \/ StopCoalescer \/ Draining
  BY <1>5 DEF Reaper, Scan, Reap, Shutdown, StopCoalescer, Draining, Drain, Taking, EmitOutput,
              EmitExit, Exiting, serviceVars, killVars
<1>6. QED
  BY <1>1, <1>2, <1>3, <1>4, <1>5 DEF Next

-----------------------------------------------------------------------------
(* The parts of the invariant.                                             *)

\* The two markers are not among what they mark the lack of.
LEMMA NoFdIsNone == NoFd \notin Fds /\ None \notin Sessions
  BY TerminalsAssumption

\* A fork takes a descriptor that is nobody's, a close gives back its own.
LEMMA PtysStep ==
    ASSUME Types, Ptys, Readers, [Next]_vars
    PROVE  Ptys'
<1> USE NoFdIsNone DEF Types, ServiceTypes, PtyTypes, ThreadTypes, Living
<1> SUFFICES ASSUME NEW r \in Sessions
             PROVE  (Lock(r) /\ Owns(r) /\ Born(r) /\ Reachable(r))'
  BY DEF Ptys
<1>0. Lock(r) /\ Owns(r) /\ Born(r) /\ Reachable(r) /\ Finalized(r)
  BY DEF Ptys, Readers
<1>1. CASE UNCHANGED vars
  BY <1>0, <1>1 DEF vars, ptyVars, closeVars, Lock, Owns, Born, Reachable
<1>2. ASSUME NEW s \in Sessions, Register(s) \/ ForkFails(s)
      PROVE  (Lock(r) /\ Owns(r) /\ Born(r) /\ Reachable(r))'
  <2>1. spawn[s] \in {"new", "registered"} /\ spawn'[s] # "up"
    BY <1>2 DEF Register, ForkFails
  <2>2. UNCHANGED <<fd, pid, child, owner, reader, holder, closing>>
    BY <1>2 DEF Register, ForkFails, ptyVars, closeVars
  <2>3. Lock(r)' /\ Owns(r)' /\ Reachable(r)'
    BY <1>0, <1>2, <2>1, <2>2 DEF Register, ForkFails, Lock, Owns, Reachable
  <2>4. Born(r)'
    BY <1>0, <1>2, <2>1, <2>2 DEF Register, ForkFails, Born
  <2>5. QED
    BY <2>3, <2>4
<1>3. ASSUME NEW s \in Sessions, Fork(s)
      PROVE  (Lock(r) /\ Owns(r) /\ Born(r) /\ Reachable(r))'
  <2>1. PICK f \in Fds : Forked(s, f)
    BY <1>3 DEF Fork
  <2>2. /\ owner[f] = None /\ owner' = [owner EXCEPT ![f] = s] /\ fd' = [fd EXCEPT ![s] = f]
        /\ child' = [child EXCEPT ![s] = "alive"] /\ pid' = pid \cup {s}
    BY <2>1 DEF Forked
  <2>3. /\ spawn[s] = "registered" /\ spawn' = [spawn EXCEPT ![s] = "up"] /\ table' = table
        /\ reader' = [reader EXCEPT ![s] = "poll"] /\ UNCHANGED <<holder, closing>>
    BY <1>3 DEF Fork, closeVars
  <2>4. Lock(s) /\ Owns(s)
    BY DEF Ptys
  <2>5. fd[s] = NoFd /\ closing[s] # "clear"
    BY <2>3, <2>4 DEF Lock
  <2>6. Lock(r)' /\ Born(r)' /\ Reachable(r)'
    BY <1>0, <2>2, <2>3, <2>5 DEF Lock, Born, Reachable
  <2>7. Owns(r)'
    BY <1>0, <2>2, <2>3, <2>4, <2>5 DEF Owns
  <2>8. QED
    BY <2>6, <2>7
<1>4. ASSUME NEW s \in Sessions, ChildExits(s) \/ LeaseRunsOut(s) \/ RpcKill(s)
      PROVE  (Lock(r) /\ Owns(r) /\ Born(r) /\ Reachable(r))'
  BY <1>0, <1>4 DEF ChildExits, LeaseRunsOut, RpcKill, ptyVars, closeVars, Lock, Owns, Born, Reachable
<1>5. ASSUME NEW s \in Sessions, Acquire(s)
      PROVE  (Lock(r) /\ Owns(r) /\ Born(r) /\ Reachable(r))'
  <2>1. PICK t \in waiting[s] : Enter(s, t)
    BY <1>5 DEF Acquire
  <2>2. t \in Threads /\ t # None
    BY <2>1 DEF Threads, None
  <2>3. holder[s] = None /\ closing[s] = None
    <3>1. Lock(s)
      BY DEF Ptys
    <3>2. QED
      BY <1>5, <3>1 DEF Acquire, Lock
  <2>4. s \in pid => spawn[s] = "up"
    BY DEF Ptys, Born
  <2>5. Lock(r)' /\ Owns(r)'
    BY <1>0, <2>1, <2>2, <2>3 DEF Enter, Lock, Owns, None
  <2>6. Reachable(r)'
    BY <1>0, <2>1 DEF Enter, Reachable
  <2>7. Born(r)'
    BY <1>0, <2>1, <2>4 DEF Enter, Born
  <2>8. QED
    BY <2>5, <2>6, <2>7
<1>6. ASSUME NEW s \in Sessions, CloseFd(s)
      PROVE  (Lock(r) /\ Owns(r) /\ Born(r) /\ Reachable(r))'
  <2>1. Lock(s) /\ Owns(s)
    BY DEF Ptys
  <2>2. Lock(r)' /\ Born(r)' /\ Reachable(r)'
    BY <1>0, <1>6 DEF CloseFd, Lock, Born, Reachable, None
  <2>3. Owns(r)'
    BY <1>0, <1>6, <2>1 DEF CloseFd, Owns
  <2>4. QED
    BY <2>2, <2>3
<1>7. ASSUME NEW s \in Sessions, ClearFd(s)
      PROVE  (Lock(r) /\ Owns(r) /\ Born(r) /\ Reachable(r))'
  <2>1. Lock(s) /\ Owns(s) /\ Born(s) /\ Finalized(s)
    BY DEF Ptys, Readers
  <2>2. Lock(r)' /\ Reachable(r)'
    BY <1>0, <1>7 DEF ClearFd, Lock, Reachable, None
  <2>3. Owns(r)'
    BY <1>0, <1>7, <2>1 DEF ClearFd, Owns, None
  <2>4. Born(r)'
    BY <1>0, <1>7, <2>1 DEF ClearFd, Born, Finalized, None
  <2>5. QED
    BY <2>2, <2>3, <2>4
<1>8. ASSUME NEW s \in Sessions, Pump(s)
      PROVE  (Lock(r) /\ Owns(r) /\ Born(r) /\ Reachable(r))'
  <2>1. /\ UNCHANGED <<spawn, fd, pid, owner, holder, closing>>
        /\ reader[s] # None /\ \E to : reader' = [reader EXCEPT ![s] = to]
        /\ table' = table \/ (table' = table \ {s} /\ reader[s] = "wait")
    BY <1>8 DEF Pump, Ready, Leave, Read, ReadEnds, Finalize, Report, ReaderAt, None
  <2>2. child' = child \/ Reaped(s)
    BY <1>8 DEF Pump, Ready, Leave, Read, ReadEnds, Finalize, Report
  <2>3. Born(s)
    BY DEF Ptys
  <2>4. Lock(r)' /\ Owns(r)'
    BY <1>0, <2>1 DEF Lock, Owns
  <2>5. Born(r)' /\ Reachable(r)'
    BY <1>0, <2>1, <2>2, <2>3 DEF Reaped, Born, Reachable
  <2>6. QED
    BY <2>4, <2>5
<1>9. ASSUME NEW S \in SUBSET (table \cap Leased), RenewLeases(S)
      PROVE  (Lock(r) /\ Owns(r) /\ Born(r) /\ Reachable(r))'
  BY <1>0, <1>9 DEF RenewLeases, ptyVars, closeVars, Lock, Owns, Born, Reachable
<1>10. CASE Reaper \/ Shutdown \/ StopCoalescer \/ Draining
  <2>1. UNCHANGED <<spawn, table, ptyVars, reader, holder, closing>>
    BY <1>10 DEF Reaper, Scan, Reap, Shutdown, StopCoalescer, Draining, Drain, Taking, EmitOutput,
                 EmitExit, Exiting, serviceVars, closeVars
  <2>2. QED
    BY <1>0, <2>1 DEF ptyVars, Lock, Owns, Born, Reachable
<1>11. QED
  BY <1>1, <1>2, <1>3, <1>4, <1>5, <1>6, <1>7, <1>8, <1>9, <1>10 DEF Next, Spawning, Closing

\* Only the reader takes a session off the registry, and it is inside close only
\* after that.
LEMMA ReadersStep ==
    ASSUME Types, Ptys, Readers, [Next]_vars
    PROVE  Readers'
<1> USE NoFdIsNone DEF Types, ServiceTypes, PtyTypes, ThreadTypes, Living
<1> SUFFICES ASSUME NEW r \in Sessions
             PROVE  (Finalized(r) /\ Kept(r))'
  BY DEF Readers
<1>0. Lock(r) /\ Owns(r) /\ Born(r) /\ Reachable(r) /\ Finalized(r) /\ Kept(r)
  BY DEF Ptys, Readers
<1>1. CASE UNCHANGED vars
  BY <1>0, <1>1 DEF vars, ptyVars, closeVars, Finalized, Kept
<1>2. ASSUME NEW s \in Sessions, Register(s) \/ ForkFails(s)
      PROVE  (Finalized(r) /\ Kept(r))'
  <2>1. spawn[s] \in {"new", "registered"} /\ UNCHANGED <<ptyVars, reader, closeVars>>
    BY <1>2 DEF Register, ForkFails
  <2>2. table' = table \cup {s} \/ table' = table \ {s}
    BY <1>2 DEF Register, ForkFails
  <2>3. child[s] = None /\ reader[s] = None /\ \A f \in Fds : owner[f] # s
    BY <2>1 DEF Ptys, Lock, Owns, Born
  <2>4. QED
    BY <1>0, <2>1, <2>2, <2>3 DEF ptyVars, closeVars, Finalized, Kept, None
<1>3. ASSUME NEW s \in Sessions, Fork(s)
      PROVE  (Finalized(r) /\ Kept(r))'
  <2>1. PICK f \in Fds : Forked(s, f)
    BY <1>3 DEF Fork
  <2>2. /\ owner' = [owner EXCEPT ![f] = s] /\ fd' = [fd EXCEPT ![s] = f]
        /\ child' = [child EXCEPT ![s] = "alive"]
    BY <2>1 DEF Forked
  <2>3. /\ reader' = [reader EXCEPT ![s] = "poll"]
        /\ UNCHANGED <<table, waiting, holder>>
    BY <1>3 DEF Fork, closeVars
  <2>4. s \in table /\ reader[s] = None /\ Finalized(s)
    BY <1>3 DEF Fork, Ptys, Born, Readers
  <2>5. Finalized(r)'
    BY <1>0, <2>2, <2>3, <2>4 DEF Finalized, None
  <2>6. Kept(r)'
    BY <1>0, <2>2, <2>3, <2>4 DEF Kept, None
  <2>7. QED
    BY <2>5, <2>6
<1>4. ASSUME NEW s \in Sessions, ChildExits(s) \/ LeaseRunsOut(s)
      PROVE  (Finalized(r) /\ Kept(r))'
  BY <1>0, <1>4 DEF ChildExits, LeaseRunsOut, ptyVars, closeVars, Finalized, Kept
<1>5. ASSUME UNCHANGED <<table, ptyVars, reader, holder>>,
             NEW t, NEW S, AskToClose(t, S), t # "reader"
      PROVE  (Finalized(r) /\ Kept(r))'
  BY <1>0, <1>5 DEF AskToClose, ptyVars, Finalized, Kept
<1>6. ASSUME NEW s \in Sessions, Acquire(s)
      PROVE  (Finalized(r) /\ Kept(r))'
  <2>1. PICK t \in waiting[s] : Enter(s, t)
    BY <1>6 DEF Acquire
  <2>2. Reachable(s) /\ Finalized(s)
    BY DEF Ptys, Readers
  <2>3. Finalized(r)'
    BY <1>0, <2>1, <2>2 DEF Enter, Reachable, Finalized
  <2>4. Kept(r)'
    BY <1>0, <2>1 DEF Enter, Kept
  <2>5. QED
    BY <2>3, <2>4
<1>7. ASSUME NEW s \in Sessions, CloseFd(s)
      PROVE  (Finalized(r) /\ Kept(r))'
  BY <1>0, <1>7 DEF CloseFd, Finalized, Kept
<1>8. ASSUME NEW s \in Sessions, ClearFd(s)
      PROVE  (Finalized(r) /\ Kept(r))'
  <2>1. Lock(s) /\ Owns(s) /\ Finalized(s)
    BY DEF Ptys, Readers
  <2>2. \A f \in Fds : owner[f] # s
    BY <1>8, <2>1 DEF ClearFd, Owns
  <2>3. Finalized(r)'
    BY <1>0, <1>8, <2>1 DEF ClearFd, Finalized, None
  <2>4. Kept(r)'
    BY <1>0, <1>8, <2>1, <2>2 DEF ClearFd, Kept, Finalized
  <2>5. QED
    BY <2>3, <2>4
<1>9. ASSUME NEW s \in Sessions, Pump(s)
      PROVE  (Finalized(r) /\ Kept(r))'
  <2>1. Finalized(s) /\ Kept(s)
    BY DEF Readers
  <2>2. CASE Ready(s) \/ Leave(s) \/ Read(s) \/ ReadEnds(s) \/ Report(s)
    BY <1>0, <2>1, <2>2 DEF Ready, Leave, Read, ReadEnds, Report, ReaderAt, Finalized, Kept
  <2>3. CASE Finalize(s)
    BY <1>0, <2>1, <2>3 DEF Finalize, Reaped, ReaderAt, Finalized, Kept
  <2>4. QED
    BY <1>9, <2>2, <2>3 DEF Pump
<1>10. ASSUME NEW S \in SUBSET (table \cap Leased), RenewLeases(S)
      PROVE  (Finalized(r) /\ Kept(r))'
  BY <1>0, <1>10 DEF RenewLeases, ptyVars, closeVars, Finalized, Kept
<1>11. CASE Scan \/ StopCoalescer \/ Draining
  <2>1. UNCHANGED <<table, ptyVars, reader, closeVars>>
    BY <1>11 DEF Scan, StopCoalescer, Draining, Drain, Taking, EmitOutput, EmitExit, Exiting,
                 serviceVars
  <2>2. QED
    BY <1>0, <2>1 DEF ptyVars, closeVars, Finalized, Kept
<1>12. ASSUME NEW s \in Sessions, RpcKill(s)
       PROVE  (Finalized(r) /\ Kept(r))'
  BY <1>5, <1>12 DEF RpcKill
<1>13. ASSUME NEW s \in Sessions, Reap(s)
       PROVE  (Finalized(r) /\ Kept(r))'
  <2>1. UNCHANGED <<table, ptyVars, reader, holder>>
    BY <1>13 DEF Reap
  <2>2. CASE waiting' = waiting
    BY <1>0, <2>1, <2>2 DEF ptyVars, Finalized, Kept
  <2>3. CASE AskToClose("reaper", {s})
    BY <1>5, <2>1, <2>3
  <2>4. QED
    BY <1>13, <2>2, <2>3 DEF Reap
<1>14. CASE Shutdown
  BY <1>5, <1>14 DEF Shutdown
<1>15. QED
  BY <1>1, <1>2, <1>3, <1>4, <1>6, <1>7, <1>8, <1>9, <1>10, <1>11, <1>12, <1>13, <1>14
  DEF Next, Spawning, Closing, Reaper

\* The exit goes from the report through the coalescer to the client, once, and
\* all output went before it.
LEMMA PipesStep ==
    ASSUME Types, Ptys, Readers, Pipes, [Next]_vars
    PROVE  Pipes'
<1> USE DEF Types, ThreadTypes, CoalTypes
<1> SUFFICES ASSUME NEW r \in Sessions
             PROVE  Pipe(r)'
  BY DEF Pipes
<1>0. Pipe(r) /\ Born(r)
  BY DEF Pipes, Ptys
<1>1. ASSUME UNCHANGED coalVars, reader' = reader \/ (reader[r] # "done" /\ reader'[r] = "done")
      PROVE  Pipe(r)'
  BY <1>0, <1>1 DEF coalVars, Pipe
<1>2. CASE UNCHANGED vars
  BY <1>1, <1>2 DEF vars
<1>3. ASSUME NEW s \in Sessions, Register(s) \/ ForkFails(s) \/ ChildExits(s) \/ LeaseRunsOut(s)
                                 \/ RpcKill(s) \/ Acquire(s) \/ CloseFd(s)
      PROVE  Pipe(r)'
  BY <1>1, <1>3 DEF Register, ForkFails, ChildExits, LeaseRunsOut, RpcKill, Acquire, Enter, CloseFd
<1>4. ASSUME NEW s \in Sessions, Fork(s)
      PROVE  Pipe(r)'
  <2>1. reader[s] = None
    BY <1>4 DEF Fork, Ptys, Born
  <2>2. UNCHANGED coalVars /\ reader' = [reader EXCEPT ![s] = "poll"]
    BY <1>4 DEF Fork
  <2>3. QED
    BY <1>0, <2>1, <2>2 DEF coalVars, Pipe, None
<1>5. ASSUME NEW s \in Sessions, ClearFd(s)
      PROVE  Pipe(r)'
  <2>1. holder[s] = "reader" => reader[s] = "close"
    BY DEF Readers, Finalized
  <2>2. QED
    BY <1>0, <1>5, <2>1 DEF ClearFd, coalVars, Pipe
<1>6. ASSUME NEW s \in Sessions, Pump(s)
      PROVE  Pipe(r)'
  BY <1>0, <1>6 DEF Pump, Ready, Leave, Read, ReadEnds, Finalize, Report, ReaderAt, Pipe
<1>7. ASSUME NEW S \in SUBSET (table \cap Leased), RenewLeases(S)
      PROVE  Pipe(r)'
  BY <1>1, <1>7 DEF RenewLeases
<1>8. CASE Reaper \/ Shutdown \/ StopCoalescer
  BY <1>1, <1>8 DEF Reaper, Scan, Reap, Shutdown, StopCoalescer
<1>9. CASE Draining
  BY <1>0, <1>9 DEF Draining, Drain, Taking, EmitOutput, EmitExit, Exiting, serviceVars, Pipe
<1>10. QED
  BY <1>2, <1>3, <1>4, <1>5, <1>6, <1>7, <1>8, <1>9 DEF Next, Spawning, Closing

-----------------------------------------------------------------------------
(* The theorems.                                                           *)

\* No session is spawned yet.
LEMMA InvInit == Init => IInv
<1> SUFFICES ASSUME Init
             PROVE  IInv
  OBVIOUS
<1>1. Types
  BY TypesInit
<1>2. Ptys
  BY NoFdIsNone DEF Init, Ptys, Lock, Owns, Born, Reachable, Living, None
<1>3. Readers
  BY NoFdIsNone DEF Init, Readers, Finalized, Kept, Living, None
<1>4. Pipes
  BY DEF Init, Pipes, Pipe
<1>5. QED
  BY <1>1, <1>2, <1>3, <1>4 DEF IInv

\* The inductive invariant holds in every reachable state.
THEOREM TerminalsInvariant == Spec => []IInv
<1>1. IInv /\ [Next]_vars => IInv'
  BY TypesStep, PtysStep, ReadersStep, PipesStep DEF IInv
<1>2. QED
  BY InvInit, <1>1, PTL DEF Spec

\* The registry never holds more than its limit, and no session reports more than
\* one exit, whatever spawns, kills and reports overlap.
THEOREM TerminalTypes == Spec => []TypeOK
<1>1. Init => Bounded /\ armed \in BOOLEAN
  <2>1. IsFiniteSet({}) /\ Cardinality({}) = 0
    BY FS_EmptySet
  <2>2. Init => table = {} /\ armed = FALSE
    BY DEF Init
  <2>3. table = {} => Bounded
    BY <2>1, TerminalsAssumption DEF Bounded
  <2>4. QED
    BY <2>2, <2>3
<1>2. IInv /\ Bounded /\ armed \in BOOLEAN /\ [Next]_vars => (Bounded /\ armed \in BOOLEAN)'
  BY BoundedStep, ArmedStep DEF IInv
<1>3. IInv /\ Bounded /\ armed \in BOOLEAN => TypeOK
  BY DEF IInv, Types, ServiceTypes, PtyTypes, ThreadTypes, CoalTypes, Bounded, TypeOK
<1>4. QED
  BY TerminalsInvariant, <1>1, <1>2, <1>3, PTL DEF Spec

\* Whichever threads close whichever sessions, none closes the descriptor of
\* another session's pty.
THEOREM ClosesItsOwn == Spec => []ClosesOwn
<1>1. IInv => ClosesOwn
  BY DEF IInv, Types, PtyTypes, Ptys, Owns, ClosesOwn
<1>2. QED
  BY TerminalsInvariant, <1>1, PTL

\* A live child and an open pty are always somebody's to end.
THEOREM NoneLeftBehind == Spec => []NothingLeaks
<1>1. IInv => NothingLeaks
  BY DEF IInv, Readers, Kept, Living, NothingLeaks
<1>2. QED
  BY TerminalsInvariant, <1>1, PTL

\* The exit is the last frame of a session, and the session is gone by then.
THEOREM ExitIsLast == Spec => []ExitLast
<1>1. IInv => ExitLast
  BY DEF IInv, Readers, Finalized, Pipes, Pipe, ExitLast
<1>2. QED
  BY TerminalsInvariant, <1>1, PTL
=============================================================================
