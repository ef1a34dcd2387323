----------------------- MODULE DaemonManagerProofs -----------------------
(***************************************************************************)
(* For any number of processes, suspended calls and tolerated failures:    *)
(* without overlapping calls no daemon is orphaned, while the app runs or  *)
(* by its exit; with or without them a restart that is announced is armed. *)
(***************************************************************************)
EXTENDS DaemonManager, TLAPS

\* A run between the shell's environment and the spawn is the generation's
\* only member, and no announced state of an earlier one stands.
EnvAlone == \A r \in Runs : r \in fresh /\ pc[r] = "env" =>
              fresh = {r} /\ status # "restarting" /\ timer # "due"

\* One process at most is supervised; none while the backoff runs.
OneFresh == \A p, q \in Procs : p \in fresh /\ q \in fresh =>
              p = q /\ timer # "due"

\* Who gave up spawns nothing until somebody starts it again.
GaveUp == failures = MaxRapidFailures =>
            /\ fresh \cap Procs = {} /\ timer # "due"
            /\ \A r \in Runs : r \in fresh => pc[r] # "env"

\* `Restarting' is announced by the death of the child.
BackoffIdle == status = "restarting" => child = NoProc

\* Calls that do not overlap: the handlers listen to this.child,
HandlersOnChild == ~overlapped =>
  \A p \in Procs : p \in fresh => p = child

\* a spawn or a backoff finds no child,
NothingToOverwrite == ~overlapped =>
  /\ timer = "due" => child = NoProc
  /\ \A r \in Runs : r \in fresh /\ pc[r] = "env" => child = NoProc /\ status = "starting"

\* one call at a time waits for a child, and nothing is supervised meanwhile,
OneWait == ~overlapped =>
  \A r \in Runs : waitFor[r] # NoProc =>
    /\ child = NoProc /\ fresh = {} /\ timer # "due"
    /\ \A s \in Runs : waitFor[s] # NoProc => s = r

\* and the cleanup of a quit leaves nothing that could spawn.
Cleaned == ~overlapped /\ app \in {"cleaned", "exited"} =>
  /\ child = NoProc /\ fresh = {} /\ timer # "due"
  /\ \A r \in Runs : waitFor[r] = NoProc
  /\ \A p \in Procs : ~Alive(p)

\* TypeOK in the two parts the provers take one at a time.
Flags == stopping \in BOOLEAN /\ booted \in BOOLEAN /\ overlapped \in BOOLEAN

Kinds ==
  /\ status \in {"idle", "starting", "running", "restarting", "failed", "stopped"}
  /\ failures \in 0..MaxRapidFailures
  /\ child \in Procs \cup {NoProc}
  /\ procs \in [Procs -> {"absent", "up", "gone"}]
  /\ fresh \subseteq Runs \cup Procs
  /\ timer \in {"none", "due", "stale"}
  /\ pc \in [Runs -> {"idle", "env", "health", "answered", "restart", "quit", "giveUp"}]
  /\ waitFor \in [Runs -> Procs \cup {NoProc}]
  /\ app \in {"up", "quitting", "cleaned", "exited"}

Inv == /\ TypeOK /\ EnvAlone /\ OneFresh /\ GaveUp /\ BackoffIdle /\ RestartKept
       /\ HandlersOnChild /\ NothingToOverwrite /\ OneWait /\ Cleaned
       /\ NoOrphan

LEMMA InitInv == Init => Inv
<1> SUFFICES ASSUME Init
             PROVE  Inv
  OBVIOUS
<1> USE DaemonAssumption DEF Init
<1>1. Flags
  BY Zenon DEF Flags
<1>2. Kinds
  BY DEF Kinds
<1>3. TypeOK
  BY <1>1, <1>2 DEF TypeOK, Flags, Kinds
<1>4. EnvAlone /\ OneFresh /\ GaveUp /\ BackoffIdle /\ RestartKept
  BY DEF EnvAlone, OneFresh, GaveUp, BackoffIdle, RestartKept
<1>5. HandlersOnChild /\ NothingToOverwrite /\ OneWait /\ Cleaned /\ NoOrphan
  BY DEF HandlersOnChild, NothingToOverwrite, OneWait, Cleaned, NoOrphan, Alive
<1>6. QED
  BY <1>3, <1>4, <1>5 DEF Inv

LEMMA BootStep ==
    ASSUME Inv, NEW r \in Runs, Boot(r)
    PROVE  Inv'
<1> USE DaemonAssumption DEF Inv, Boot, Start, BeginSpawn, Overlaps, Superseded
<1>1. TypeOK'
  <2>1. Flags'
    BY Zenon DEF TypeOK, Flags
  <2>2. Kinds'
    BY DEF TypeOK, Kinds, EnvAlone, OneFresh, GaveUp
  <2>3. QED
    BY <2>1, <2>2 DEF TypeOK, Flags, Kinds
<1>2. EnvAlone'
  BY DEF TypeOK, EnvAlone, OneFresh, GaveUp, BackoffIdle, RestartKept, HandlersOnChild, NothingToOverwrite, OneWait
<1>3. OneFresh'
  BY DEF TypeOK, EnvAlone, OneFresh, GaveUp, BackoffIdle, RestartKept, HandlersOnChild, NothingToOverwrite, OneWait
<1>4. GaveUp'
  BY DEF TypeOK, EnvAlone, OneFresh, GaveUp, BackoffIdle, RestartKept, HandlersOnChild, NothingToOverwrite, OneWait
<1>5. BackoffIdle'
  BY DEF TypeOK, EnvAlone, OneFresh, GaveUp, BackoffIdle, RestartKept, HandlersOnChild, NothingToOverwrite, OneWait
<1>6. RestartKept'
  BY DEF TypeOK, EnvAlone, OneFresh, GaveUp, BackoffIdle, RestartKept, HandlersOnChild, NothingToOverwrite, OneWait
<1>7. HandlersOnChild'
  BY DEF TypeOK, EnvAlone, OneFresh, GaveUp, BackoffIdle, RestartKept, HandlersOnChild, NothingToOverwrite, OneWait
<1>8. NothingToOverwrite'
  BY DEF TypeOK, EnvAlone, OneFresh, GaveUp, BackoffIdle, RestartKept, HandlersOnChild, NothingToOverwrite, OneWait
<1>9. OneWait'
  BY DEF TypeOK, EnvAlone, OneFresh, GaveUp, BackoffIdle, RestartKept, HandlersOnChild, NothingToOverwrite, OneWait
<1>10. Cleaned'
  BY DEF TypeOK, EnvAlone, HandlersOnChild, NothingToOverwrite, OneWait, Cleaned, NoOrphan, Alive, Terminating
<1>11. NoOrphan'
  BY DEF TypeOK, EnvAlone, HandlersOnChild, NothingToOverwrite, OneWait, Cleaned, NoOrphan, Alive, Terminating
<1>12. QED
  BY <1>1, <1>2, <1>3, <1>4, <1>5, <1>6, <1>7, <1>8, <1>9, <1>10, <1>11

LEMMA RestartStep ==
    ASSUME Inv, NEW r \in Runs, Restart(r)
    PROVE  Inv'
<1> USE DaemonAssumption DEF Inv, Restart, Start, BeginSpawn, Overlaps, TakeChild
<1>1. TypeOK'
  <2>1. Flags'
    BY Zenon DEF TypeOK, Flags
  <2>2. Kinds'
    BY DEF TypeOK, Kinds, EnvAlone, OneFresh, GaveUp
  <2>3. QED
    BY <2>1, <2>2 DEF TypeOK, Flags, Kinds
<1>2. EnvAlone'
  BY DEF TypeOK, EnvAlone, OneFresh, GaveUp, BackoffIdle, RestartKept, HandlersOnChild, NothingToOverwrite, OneWait
<1>3. OneFresh'
  BY DEF TypeOK, EnvAlone, OneFresh, GaveUp, BackoffIdle, RestartKept, HandlersOnChild, NothingToOverwrite, OneWait
<1>4. GaveUp'
  BY DEF TypeOK, EnvAlone, OneFresh, GaveUp, BackoffIdle, RestartKept, HandlersOnChild, NothingToOverwrite, OneWait
<1>5. BackoffIdle'
  BY DEF TypeOK, EnvAlone, OneFresh, GaveUp, BackoffIdle, RestartKept, HandlersOnChild, NothingToOverwrite, OneWait
<1>6. RestartKept'
  BY DEF TypeOK, EnvAlone, OneFresh, GaveUp, BackoffIdle, RestartKept, HandlersOnChild, NothingToOverwrite, OneWait
<1>7. HandlersOnChild'
  BY DEF TypeOK, EnvAlone, OneFresh, GaveUp, BackoffIdle, RestartKept, HandlersOnChild, NothingToOverwrite, OneWait
<1>8. NothingToOverwrite'
  BY DEF TypeOK, EnvAlone, OneFresh, GaveUp, BackoffIdle, RestartKept, HandlersOnChild, NothingToOverwrite, OneWait
<1>9. OneWait'
  <2>1. SUFFICES ASSUME ~overlapped'
                 PROVE  OneWait'
    BY DEF OneWait
  <2>2. ~overlapped /\ \A s \in Runs : waitFor[s] = NoProc
    BY <2>1
  <2>3. CASE child = NoProc
    BY <2>2, <2>3 DEF OneWait, TypeOK
  <2>4. CASE child # NoProc
    <3>1. child' = NoProc /\ fresh' = {} /\ timer' = "none"
      BY <2>4
    <3>2. \A s \in Runs : waitFor'[s] # NoProc => s = r
      BY <2>2, <2>4 DEF TypeOK
    <3>3. QED
      BY <3>1, <3>2 DEF OneWait
  <2>5. QED
    BY <2>3, <2>4
<1>10. Cleaned'
  BY DEF TypeOK, EnvAlone, HandlersOnChild, NothingToOverwrite, OneWait, Cleaned, NoOrphan, Alive, Terminating
<1>11. NoOrphan'
  BY DEF TypeOK, EnvAlone, HandlersOnChild, NothingToOverwrite, OneWait, Cleaned, NoOrphan, Alive, Terminating
<1>12. QED
  BY <1>1, <1>2, <1>3, <1>4, <1>5, <1>6, <1>7, <1>8, <1>9, <1>10, <1>11

LEMMA QuitStep ==
    ASSUME Inv, NEW r \in Runs, Quit(r)
    PROVE  Inv'
<1> USE DaemonAssumption DEF Inv, Quit, Overlaps, TakeChild
<1>1. TypeOK'
  <2>1. Flags'
    BY Zenon DEF TypeOK, Flags
  <2>2. Kinds'
    BY DEF TypeOK, Kinds, EnvAlone, OneFresh, GaveUp
  <2>3. QED
    BY <2>1, <2>2 DEF TypeOK, Flags, Kinds
<1>2. EnvAlone'
  BY DEF TypeOK, EnvAlone, OneFresh, GaveUp, BackoffIdle, RestartKept, HandlersOnChild, NothingToOverwrite, OneWait
<1>3. OneFresh'
  BY DEF TypeOK, EnvAlone, OneFresh, GaveUp, BackoffIdle, RestartKept, HandlersOnChild, NothingToOverwrite, OneWait
<1>4. GaveUp'
  BY DEF TypeOK, EnvAlone, OneFresh, GaveUp, BackoffIdle, RestartKept, HandlersOnChild, NothingToOverwrite, OneWait
<1>5. BackoffIdle'
  BY DEF TypeOK, EnvAlone, OneFresh, GaveUp, BackoffIdle, RestartKept, HandlersOnChild, NothingToOverwrite, OneWait
<1>6. RestartKept'
  BY DEF TypeOK, EnvAlone, OneFresh, GaveUp, BackoffIdle, RestartKept, HandlersOnChild, NothingToOverwrite, OneWait
<1>7. HandlersOnChild'
  BY DEF TypeOK, EnvAlone, OneFresh, GaveUp, BackoffIdle, RestartKept, HandlersOnChild, NothingToOverwrite, OneWait
<1>8. NothingToOverwrite'
  BY DEF TypeOK, EnvAlone, OneFresh, GaveUp, BackoffIdle, RestartKept, HandlersOnChild, NothingToOverwrite, OneWait
<1>9. OneWait'
  BY DEF TypeOK, EnvAlone, OneFresh, GaveUp, BackoffIdle, RestartKept, HandlersOnChild, NothingToOverwrite, OneWait
<1>10. Cleaned'
  <2>1. SUFFICES ASSUME ~overlapped', child = NoProc
                 PROVE  Cleaned'
    BY DEF Cleaned
  <2>2. ~overlapped /\ \A s \in Runs : waitFor[s] = NoProc
    BY <2>1
  <2>3. \A p \in Procs : ~Alive(p)
    BY <2>1, <2>2 DEF NoOrphan, Terminating
  <2>4. QED
    BY <2>1, <2>2, <2>3 DEF Cleaned, Alive
<1>11. NoOrphan'
  BY DEF TypeOK, EnvAlone, HandlersOnChild, NothingToOverwrite, OneWait, Cleaned, NoOrphan, Alive, Terminating
<1>12. QED
  BY <1>1, <1>2, <1>3, <1>4, <1>5, <1>6, <1>7, <1>8, <1>9, <1>10, <1>11

LEMMA QuitAgainStep ==
    ASSUME Inv, QuitAgain
    PROVE  Inv'
<1> USE DaemonAssumption DEF Inv, QuitAgain
<1>1. TypeOK'
  <2>1. Flags'
    BY Zenon DEF TypeOK, Flags
  <2>2. Kinds'
    BY DEF TypeOK, Kinds, EnvAlone, OneFresh, GaveUp
  <2>3. QED
    BY <2>1, <2>2 DEF TypeOK, Flags, Kinds
<1>2. EnvAlone'
  BY DEF TypeOK, EnvAlone, OneFresh, GaveUp, BackoffIdle, RestartKept, HandlersOnChild, NothingToOverwrite, OneWait
<1>3. OneFresh'
  BY DEF TypeOK, EnvAlone, OneFresh, GaveUp, BackoffIdle, RestartKept, HandlersOnChild, NothingToOverwrite, OneWait
<1>4. GaveUp'
  BY DEF TypeOK, EnvAlone, OneFresh, GaveUp, BackoffIdle, RestartKept, HandlersOnChild, NothingToOverwrite, OneWait
<1>5. BackoffIdle'
  BY DEF TypeOK, EnvAlone, OneFresh, GaveUp, BackoffIdle, RestartKept, HandlersOnChild, NothingToOverwrite, OneWait
<1>6. RestartKept'
  BY DEF TypeOK, EnvAlone, OneFresh, GaveUp, BackoffIdle, RestartKept, HandlersOnChild, NothingToOverwrite, OneWait
<1>7. HandlersOnChild'
  BY DEF TypeOK, EnvAlone, OneFresh, GaveUp, BackoffIdle, RestartKept, HandlersOnChild, NothingToOverwrite, OneWait
<1>8. NothingToOverwrite'
  BY DEF TypeOK, EnvAlone, OneFresh, GaveUp, BackoffIdle, RestartKept, HandlersOnChild, NothingToOverwrite, OneWait
<1>9. OneWait'
  BY DEF TypeOK, EnvAlone, OneFresh, GaveUp, BackoffIdle, RestartKept, HandlersOnChild, NothingToOverwrite, OneWait
<1>10. Cleaned'
  BY DEF TypeOK, EnvAlone, HandlersOnChild, NothingToOverwrite, OneWait, Cleaned, NoOrphan, Alive, Terminating
<1>11. NoOrphan'
  BY DEF TypeOK, EnvAlone, HandlersOnChild, NothingToOverwrite, OneWait, Cleaned, NoOrphan, Alive, Terminating
<1>12. QED
  BY <1>1, <1>2, <1>3, <1>4, <1>5, <1>6, <1>7, <1>8, <1>9, <1>10, <1>11

LEMMA ExitStep ==
    ASSUME Inv, Exit
    PROVE  Inv'
<1> USE DaemonAssumption DEF Inv, Exit
<1>1. TypeOK'
  BY DEF TypeOK, EnvAlone, OneFresh, GaveUp
<1>2. EnvAlone'
  BY DEF TypeOK, EnvAlone, OneFresh, GaveUp, BackoffIdle, RestartKept, HandlersOnChild, NothingToOverwrite, OneWait
<1>3. OneFresh'
  BY DEF TypeOK, EnvAlone, OneFresh, GaveUp, BackoffIdle, RestartKept, HandlersOnChild, NothingToOverwrite, OneWait
<1>4. GaveUp'
  BY DEF TypeOK, EnvAlone, OneFresh, GaveUp, BackoffIdle, RestartKept, HandlersOnChild, NothingToOverwrite, OneWait
<1>5. BackoffIdle'
  BY DEF TypeOK, EnvAlone, OneFresh, GaveUp, BackoffIdle, RestartKept, HandlersOnChild, NothingToOverwrite, OneWait
<1>6. RestartKept'
  BY DEF TypeOK, EnvAlone, OneFresh, GaveUp, BackoffIdle, RestartKept, HandlersOnChild, NothingToOverwrite, OneWait
<1>7. HandlersOnChild'
  BY DEF TypeOK, EnvAlone, OneFresh, GaveUp, BackoffIdle, RestartKept, HandlersOnChild, NothingToOverwrite, OneWait
<1>8. NothingToOverwrite'
  BY DEF TypeOK, EnvAlone, OneFresh, GaveUp, BackoffIdle, RestartKept, HandlersOnChild, NothingToOverwrite, OneWait
<1>9. OneWait'
  BY DEF TypeOK, EnvAlone, OneFresh, GaveUp, BackoffIdle, RestartKept, HandlersOnChild, NothingToOverwrite, OneWait
<1>10. Cleaned'
  BY DEF TypeOK, EnvAlone, HandlersOnChild, NothingToOverwrite, OneWait, Cleaned, NoOrphan, Alive, Terminating
<1>11. NoOrphan'
  BY DEF TypeOK, EnvAlone, HandlersOnChild, NothingToOverwrite, OneWait, Cleaned, NoOrphan, Alive, Terminating
<1>12. QED
  BY <1>1, <1>2, <1>3, <1>4, <1>5, <1>6, <1>7, <1>8, <1>9, <1>10, <1>11

LEMMA TimerFiresStep ==
    ASSUME Inv, NEW r \in Runs, TimerFires(r)
    PROVE  Inv'
<1> USE DaemonAssumption DEF Inv, TimerFires, BeginSpawn
<1>1. TypeOK'
  BY DEF TypeOK, EnvAlone, OneFresh, GaveUp
<1>2. EnvAlone'
  BY DEF TypeOK, EnvAlone, OneFresh, GaveUp, BackoffIdle, RestartKept, HandlersOnChild, NothingToOverwrite, OneWait
<1>3. OneFresh'
  BY DEF TypeOK, EnvAlone, OneFresh, GaveUp, BackoffIdle, RestartKept, HandlersOnChild, NothingToOverwrite, OneWait
<1>4. GaveUp'
  BY DEF TypeOK, EnvAlone, OneFresh, GaveUp, BackoffIdle, RestartKept, HandlersOnChild, NothingToOverwrite, OneWait
<1>5. BackoffIdle'
  BY DEF TypeOK, EnvAlone, OneFresh, GaveUp, BackoffIdle, RestartKept, HandlersOnChild, NothingToOverwrite, OneWait
<1>6. RestartKept'
  BY DEF TypeOK, EnvAlone, OneFresh, GaveUp, BackoffIdle, RestartKept, HandlersOnChild, NothingToOverwrite, OneWait
<1>7. HandlersOnChild'
  BY DEF TypeOK, EnvAlone, OneFresh, GaveUp, BackoffIdle, RestartKept, HandlersOnChild, NothingToOverwrite, OneWait
<1>8. NothingToOverwrite'
  BY DEF TypeOK, EnvAlone, OneFresh, GaveUp, BackoffIdle, RestartKept, HandlersOnChild, NothingToOverwrite, OneWait
<1>9. OneWait'
  BY DEF TypeOK, EnvAlone, OneFresh, GaveUp, BackoffIdle, RestartKept, HandlersOnChild, NothingToOverwrite, OneWait
<1>10. Cleaned'
  BY DEF TypeOK, EnvAlone, HandlersOnChild, NothingToOverwrite, OneWait, Cleaned, NoOrphan, Alive, Terminating
<1>11. NoOrphan'
  BY DEF TypeOK, EnvAlone, HandlersOnChild, NothingToOverwrite, OneWait, Cleaned, NoOrphan, Alive, Terminating
<1>12. QED
  BY <1>1, <1>2, <1>3, <1>4, <1>5, <1>6, <1>7, <1>8, <1>9, <1>10, <1>11

LEMMA SpawnStep ==
    ASSUME Inv, NEW r \in Runs, NEW p \in Procs, Spawn(r, p)
    PROVE  Inv'
<1> USE DaemonAssumption DEF Inv, Spawn
<1>1. TypeOK'
  BY DEF TypeOK, EnvAlone, OneFresh, GaveUp
<1>2. EnvAlone'
  BY DEF TypeOK, EnvAlone, OneFresh, GaveUp, BackoffIdle, RestartKept, HandlersOnChild, NothingToOverwrite, OneWait
<1>3. OneFresh'
  BY DEF TypeOK, EnvAlone, OneFresh, GaveUp, BackoffIdle, RestartKept, HandlersOnChild, NothingToOverwrite, OneWait
<1>4. GaveUp'
  BY DEF TypeOK, EnvAlone, OneFresh, GaveUp, BackoffIdle, RestartKept, HandlersOnChild, NothingToOverwrite, OneWait
<1>5. BackoffIdle'
  BY DEF TypeOK, EnvAlone, OneFresh, GaveUp, BackoffIdle, RestartKept, HandlersOnChild, NothingToOverwrite, OneWait
<1>6. RestartKept'
  BY DEF TypeOK, EnvAlone, OneFresh, GaveUp, BackoffIdle, RestartKept, HandlersOnChild, NothingToOverwrite, OneWait
<1>7. HandlersOnChild'
  BY DEF TypeOK, EnvAlone, OneFresh, GaveUp, BackoffIdle, RestartKept, HandlersOnChild, NothingToOverwrite, OneWait
<1>8. NothingToOverwrite'
  BY DEF TypeOK, EnvAlone, OneFresh, GaveUp, BackoffIdle, RestartKept, HandlersOnChild, NothingToOverwrite, OneWait
<1>9. OneWait'
  BY DEF TypeOK, EnvAlone, OneFresh, GaveUp, BackoffIdle, RestartKept, HandlersOnChild, NothingToOverwrite, OneWait
<1>10. Cleaned'
  BY DEF TypeOK, EnvAlone, HandlersOnChild, NothingToOverwrite, OneWait, Cleaned, NoOrphan, Alive, Terminating
<1>11. NoOrphan'
  BY DEF TypeOK, EnvAlone, HandlersOnChild, NothingToOverwrite, OneWait, Cleaned, NoOrphan, Alive, Terminating
<1>12. QED
  BY <1>1, <1>2, <1>3, <1>4, <1>5, <1>6, <1>7, <1>8, <1>9, <1>10, <1>11

LEMMA SpawnSupersededStep ==
    ASSUME Inv, NEW r \in Runs, SpawnSuperseded(r)
    PROVE  Inv'
<1> USE DaemonAssumption DEF Inv, SpawnSuperseded
<1>1. TypeOK'
  BY DEF TypeOK, EnvAlone, OneFresh, GaveUp
<1>2. EnvAlone'
  BY DEF TypeOK, EnvAlone, OneFresh, GaveUp, BackoffIdle, RestartKept, HandlersOnChild, NothingToOverwrite, OneWait
<1>3. OneFresh'
  BY DEF TypeOK, EnvAlone, OneFresh, GaveUp, BackoffIdle, RestartKept, HandlersOnChild, NothingToOverwrite, OneWait
<1>4. GaveUp'
  BY DEF TypeOK, EnvAlone, OneFresh, GaveUp, BackoffIdle, RestartKept, HandlersOnChild, NothingToOverwrite, OneWait
<1>5. BackoffIdle'
  BY DEF TypeOK, EnvAlone, OneFresh, GaveUp, BackoffIdle, RestartKept, HandlersOnChild, NothingToOverwrite, OneWait
<1>6. RestartKept'
  BY DEF TypeOK, EnvAlone, OneFresh, GaveUp, BackoffIdle, RestartKept, HandlersOnChild, NothingToOverwrite, OneWait
<1>7. HandlersOnChild'
  BY DEF TypeOK, EnvAlone, OneFresh, GaveUp, BackoffIdle, RestartKept, HandlersOnChild, NothingToOverwrite, OneWait
<1>8. NothingToOverwrite'
  BY DEF TypeOK, EnvAlone, OneFresh, GaveUp, BackoffIdle, RestartKept, HandlersOnChild, NothingToOverwrite, OneWait
<1>9. OneWait'
  BY DEF TypeOK, EnvAlone, OneFresh, GaveUp, BackoffIdle, RestartKept, HandlersOnChild, NothingToOverwrite, OneWait
<1>10. Cleaned'
  BY DEF TypeOK, EnvAlone, HandlersOnChild, NothingToOverwrite, OneWait, Cleaned, NoOrphan, Alive, Terminating
<1>11. NoOrphan'
  BY DEF TypeOK, EnvAlone, HandlersOnChild, NothingToOverwrite, OneWait, Cleaned, NoOrphan, Alive, Terminating
<1>12. QED
  BY <1>1, <1>2, <1>3, <1>4, <1>5, <1>6, <1>7, <1>8, <1>9, <1>10, <1>11

LEMMA SpawnThrowsStep ==
    ASSUME Inv, NEW r \in Runs, SpawnThrows(r)
    PROVE  Inv'
<1> USE DaemonAssumption DEF Inv, SpawnThrows
<1>1. TypeOK'
  BY DEF TypeOK, EnvAlone, OneFresh, GaveUp
<1>2. EnvAlone'
  BY DEF TypeOK, EnvAlone, OneFresh, GaveUp, BackoffIdle, RestartKept, HandlersOnChild, NothingToOverwrite, OneWait
<1>3. OneFresh'
  BY DEF TypeOK, EnvAlone, OneFresh, GaveUp, BackoffIdle, RestartKept, HandlersOnChild, NothingToOverwrite, OneWait
<1>4. GaveUp'
  BY DEF TypeOK, EnvAlone, OneFresh, GaveUp, BackoffIdle, RestartKept, HandlersOnChild, NothingToOverwrite, OneWait
<1>5. BackoffIdle'
  BY DEF TypeOK, EnvAlone, OneFresh, GaveUp, BackoffIdle, RestartKept, HandlersOnChild, NothingToOverwrite, OneWait
<1>6. RestartKept'
  BY DEF TypeOK, EnvAlone, OneFresh, GaveUp, BackoffIdle, RestartKept, HandlersOnChild, NothingToOverwrite, OneWait
<1>7. HandlersOnChild'
  BY DEF TypeOK, EnvAlone, OneFresh, GaveUp, BackoffIdle, RestartKept, HandlersOnChild, NothingToOverwrite, OneWait
<1>8. NothingToOverwrite'
  BY DEF TypeOK, EnvAlone, OneFresh, GaveUp, BackoffIdle, RestartKept, HandlersOnChild, NothingToOverwrite, OneWait
<1>9. OneWait'
  BY DEF TypeOK, EnvAlone, OneFresh, GaveUp, BackoffIdle, RestartKept, HandlersOnChild, NothingToOverwrite, OneWait
<1>10. Cleaned'
  BY DEF TypeOK, EnvAlone, HandlersOnChild, NothingToOverwrite, OneWait, Cleaned, NoOrphan, Alive, Terminating
<1>11. NoOrphan'
  BY DEF TypeOK, EnvAlone, HandlersOnChild, NothingToOverwrite, OneWait, Cleaned, NoOrphan, Alive, Terminating
<1>12. QED
  BY <1>1, <1>2, <1>3, <1>4, <1>5, <1>6, <1>7, <1>8, <1>9, <1>10, <1>11

LEMMA SpawnErrorsStep ==
    ASSUME Inv, NEW r \in Runs, SpawnErrors(r)
    PROVE  Inv'
<1> USE DaemonAssumption DEF Inv, SpawnErrors, UnexpectedDeath
<1>1. TypeOK'
  BY DEF TypeOK, EnvAlone, OneFresh, GaveUp
<1>2. EnvAlone'
  BY DEF TypeOK, EnvAlone, OneFresh, GaveUp, BackoffIdle, RestartKept, HandlersOnChild, NothingToOverwrite, OneWait
<1>3. OneFresh'
  BY DEF TypeOK, EnvAlone, OneFresh, GaveUp, BackoffIdle, RestartKept, HandlersOnChild, NothingToOverwrite, OneWait
<1>4. GaveUp'
  BY DEF TypeOK, EnvAlone, OneFresh, GaveUp, BackoffIdle, RestartKept, HandlersOnChild, NothingToOverwrite, OneWait
<1>5. BackoffIdle'
  BY DEF TypeOK, EnvAlone, OneFresh, GaveUp, BackoffIdle, RestartKept, HandlersOnChild, NothingToOverwrite, OneWait
<1>6. RestartKept'
  BY DEF TypeOK, EnvAlone, OneFresh, GaveUp, BackoffIdle, RestartKept, HandlersOnChild, NothingToOverwrite, OneWait
<1>7. HandlersOnChild'
  BY DEF TypeOK, EnvAlone, OneFresh, GaveUp, BackoffIdle, RestartKept, HandlersOnChild, NothingToOverwrite, OneWait
<1>8. NothingToOverwrite'
  BY DEF TypeOK, EnvAlone, OneFresh, GaveUp, BackoffIdle, RestartKept, HandlersOnChild, NothingToOverwrite, OneWait
<1>9. OneWait'
  BY DEF TypeOK, EnvAlone, OneFresh, GaveUp, BackoffIdle, RestartKept, HandlersOnChild, NothingToOverwrite, OneWait
<1>10. Cleaned'
  BY DEF TypeOK, EnvAlone, HandlersOnChild, NothingToOverwrite, OneWait, Cleaned, NoOrphan, Alive, Terminating
<1>11. NoOrphan'
  BY DEF TypeOK, EnvAlone, HandlersOnChild, NothingToOverwrite, OneWait, Cleaned, NoOrphan, Alive, Terminating
<1>12. QED
  BY <1>1, <1>2, <1>3, <1>4, <1>5, <1>6, <1>7, <1>8, <1>9, <1>10, <1>11

LEMMA AnswersStep ==
    ASSUME Inv, NEW r \in Runs, Answers(r)
    PROVE  Inv'
<1> USE DaemonAssumption DEF Inv, Answers
<1>1. TypeOK'
  BY DEF TypeOK, EnvAlone, OneFresh, GaveUp
<1>2. EnvAlone'
  BY DEF TypeOK, EnvAlone, OneFresh, GaveUp, BackoffIdle, RestartKept, HandlersOnChild, NothingToOverwrite, OneWait
<1>3. OneFresh'
  BY DEF TypeOK, EnvAlone, OneFresh, GaveUp, BackoffIdle, RestartKept, HandlersOnChild, NothingToOverwrite, OneWait
<1>4. GaveUp'
  BY DEF TypeOK, EnvAlone, OneFresh, GaveUp, BackoffIdle, RestartKept, HandlersOnChild, NothingToOverwrite, OneWait
<1>5. BackoffIdle'
  BY DEF TypeOK, EnvAlone, OneFresh, GaveUp, BackoffIdle, RestartKept, HandlersOnChild, NothingToOverwrite, OneWait
<1>6. RestartKept'
  BY DEF TypeOK, EnvAlone, OneFresh, GaveUp, BackoffIdle, RestartKept, HandlersOnChild, NothingToOverwrite, OneWait
<1>7. HandlersOnChild'
  BY DEF TypeOK, EnvAlone, OneFresh, GaveUp, BackoffIdle, RestartKept, HandlersOnChild, NothingToOverwrite, OneWait
<1>8. NothingToOverwrite'
  BY DEF TypeOK, EnvAlone, OneFresh, GaveUp, BackoffIdle, RestartKept, HandlersOnChild, NothingToOverwrite, OneWait
<1>9. OneWait'
  BY DEF TypeOK, EnvAlone, OneFresh, GaveUp, BackoffIdle, RestartKept, HandlersOnChild, NothingToOverwrite, OneWait
<1>10. Cleaned'
  BY DEF TypeOK, EnvAlone, HandlersOnChild, NothingToOverwrite, OneWait, Cleaned, NoOrphan, Alive, Terminating
<1>11. NoOrphan'
  BY DEF TypeOK, EnvAlone, HandlersOnChild, NothingToOverwrite, OneWait, Cleaned, NoOrphan, Alive, Terminating
<1>12. QED
  BY <1>1, <1>2, <1>3, <1>4, <1>5, <1>6, <1>7, <1>8, <1>9, <1>10, <1>11

LEMMA HealthyStep ==
    ASSUME Inv, NEW r \in Runs, Healthy(r)
    PROVE  Inv'
<1> USE DaemonAssumption DEF Inv, Healthy
<1>1. TypeOK'
  BY DEF TypeOK, EnvAlone, OneFresh, GaveUp
<1>2. EnvAlone'
  BY DEF TypeOK, EnvAlone, OneFresh, GaveUp, BackoffIdle, RestartKept, HandlersOnChild, NothingToOverwrite, OneWait
<1>3. OneFresh'
  BY DEF TypeOK, EnvAlone, OneFresh, GaveUp, BackoffIdle, RestartKept, HandlersOnChild, NothingToOverwrite, OneWait
<1>4. GaveUp'
  BY DEF TypeOK, EnvAlone, OneFresh, GaveUp, BackoffIdle, RestartKept, HandlersOnChild, NothingToOverwrite, OneWait
<1>5. BackoffIdle'
  BY DEF TypeOK, EnvAlone, OneFresh, GaveUp, BackoffIdle, RestartKept, HandlersOnChild, NothingToOverwrite, OneWait
<1>6. RestartKept'
  BY DEF TypeOK, EnvAlone, OneFresh, GaveUp, BackoffIdle, RestartKept, HandlersOnChild, NothingToOverwrite, OneWait
<1>7. HandlersOnChild'
  BY DEF TypeOK, EnvAlone, OneFresh, GaveUp, BackoffIdle, RestartKept, HandlersOnChild, NothingToOverwrite, OneWait
<1>8. NothingToOverwrite'
  BY DEF TypeOK, EnvAlone, OneFresh, GaveUp, BackoffIdle, RestartKept, HandlersOnChild, NothingToOverwrite, OneWait
<1>9. OneWait'
  BY DEF TypeOK, EnvAlone, OneFresh, GaveUp, BackoffIdle, RestartKept, HandlersOnChild, NothingToOverwrite, OneWait
<1>10. Cleaned'
  BY DEF TypeOK, EnvAlone, HandlersOnChild, NothingToOverwrite, OneWait, Cleaned, NoOrphan, Alive, Terminating
<1>11. NoOrphan'
  BY DEF TypeOK, EnvAlone, HandlersOnChild, NothingToOverwrite, OneWait, Cleaned, NoOrphan, Alive, Terminating
<1>12. QED
  BY <1>1, <1>2, <1>3, <1>4, <1>5, <1>6, <1>7, <1>8, <1>9, <1>10, <1>11

LEMMA UnhealthyStep ==
    ASSUME Inv, NEW r \in Runs, Unhealthy(r)
    PROVE  Inv'
<1> USE DaemonAssumption DEF Inv, Unhealthy, TakeChild
<1>1. TypeOK'
  BY DEF TypeOK, EnvAlone, OneFresh, GaveUp
<1>2. EnvAlone'
  BY DEF TypeOK, EnvAlone, OneFresh, GaveUp, BackoffIdle, RestartKept, HandlersOnChild, NothingToOverwrite, OneWait
<1>3. OneFresh'
  BY DEF TypeOK, EnvAlone, OneFresh, GaveUp, BackoffIdle, RestartKept, HandlersOnChild, NothingToOverwrite, OneWait
<1>4. GaveUp'
  BY DEF TypeOK, EnvAlone, OneFresh, GaveUp, BackoffIdle, RestartKept, HandlersOnChild, NothingToOverwrite, OneWait
<1>5. BackoffIdle'
  BY DEF TypeOK, EnvAlone, OneFresh, GaveUp, BackoffIdle, RestartKept, HandlersOnChild, NothingToOverwrite, OneWait
<1>6. RestartKept'
  BY DEF TypeOK, EnvAlone, OneFresh, GaveUp, BackoffIdle, RestartKept, HandlersOnChild, NothingToOverwrite, OneWait
<1>7. HandlersOnChild'
  BY DEF TypeOK, EnvAlone, OneFresh, GaveUp, BackoffIdle, RestartKept, HandlersOnChild, NothingToOverwrite, OneWait
<1>8. NothingToOverwrite'
  BY DEF TypeOK, EnvAlone, OneFresh, GaveUp, BackoffIdle, RestartKept, HandlersOnChild, NothingToOverwrite, OneWait
<1>9. OneWait'
  BY DEF TypeOK, EnvAlone, OneFresh, GaveUp, BackoffIdle, RestartKept, HandlersOnChild, NothingToOverwrite, OneWait
<1>10. Cleaned'
  BY DEF TypeOK, EnvAlone, HandlersOnChild, NothingToOverwrite, OneWait, Cleaned, NoOrphan, Alive, Terminating
<1>11. NoOrphan'
  BY DEF TypeOK, EnvAlone, HandlersOnChild, NothingToOverwrite, OneWait, Cleaned, NoOrphan, Alive, Terminating
<1>12. QED
  BY <1>1, <1>2, <1>3, <1>4, <1>5, <1>6, <1>7, <1>8, <1>9, <1>10, <1>11

LEMMA DiesStep ==
    ASSUME Inv, NEW p \in Procs, Dies(p)
    PROVE  Inv'
<1> USE DaemonAssumption DEF Inv, Dies
<1>1. TypeOK'
  BY DEF TypeOK, EnvAlone, OneFresh, GaveUp
<1>2. EnvAlone'
  BY DEF TypeOK, EnvAlone, OneFresh, GaveUp, BackoffIdle, RestartKept, HandlersOnChild, NothingToOverwrite, OneWait
<1>3. OneFresh'
  BY DEF TypeOK, EnvAlone, OneFresh, GaveUp, BackoffIdle, RestartKept, HandlersOnChild, NothingToOverwrite, OneWait
<1>4. GaveUp'
  BY DEF TypeOK, EnvAlone, OneFresh, GaveUp, BackoffIdle, RestartKept, HandlersOnChild, NothingToOverwrite, OneWait
<1>5. BackoffIdle'
  BY DEF TypeOK, EnvAlone, OneFresh, GaveUp, BackoffIdle, RestartKept, HandlersOnChild, NothingToOverwrite, OneWait
<1>6. RestartKept'
  BY DEF TypeOK, EnvAlone, OneFresh, GaveUp, BackoffIdle, RestartKept, HandlersOnChild, NothingToOverwrite, OneWait
<1>7. HandlersOnChild'
  BY DEF TypeOK, EnvAlone, OneFresh, GaveUp, BackoffIdle, RestartKept, HandlersOnChild, NothingToOverwrite, OneWait
<1>8. NothingToOverwrite'
  BY DEF TypeOK, EnvAlone, OneFresh, GaveUp, BackoffIdle, RestartKept, HandlersOnChild, NothingToOverwrite, OneWait
<1>9. OneWait'
  BY DEF TypeOK, EnvAlone, OneFresh, GaveUp, BackoffIdle, RestartKept, HandlersOnChild, NothingToOverwrite, OneWait
<1>10. Cleaned'
  BY DEF TypeOK, EnvAlone, HandlersOnChild, NothingToOverwrite, OneWait, Cleaned, NoOrphan, Alive, Terminating
<1>11. NoOrphan'
  BY DEF TypeOK, EnvAlone, HandlersOnChild, NothingToOverwrite, OneWait, Cleaned, NoOrphan, Alive, Terminating
<1>12. QED
  BY <1>1, <1>2, <1>3, <1>4, <1>5, <1>6, <1>7, <1>8, <1>9, <1>10, <1>11

LEMMA ExitUnexpectedStep ==
    ASSUME Inv, NEW p \in Procs, ExitUnexpected(p)
    PROVE  Inv'
<1> USE DaemonAssumption DEF Inv, ExitUnexpected, UnexpectedDeath
<1>1. TypeOK'
  BY DEF TypeOK, EnvAlone, OneFresh, GaveUp
<1>2. EnvAlone'
  BY DEF TypeOK, EnvAlone, OneFresh, GaveUp, BackoffIdle, RestartKept, HandlersOnChild, NothingToOverwrite, OneWait
<1>3. OneFresh'
  BY DEF TypeOK, EnvAlone, OneFresh, GaveUp, BackoffIdle, RestartKept, HandlersOnChild, NothingToOverwrite, OneWait
<1>4. GaveUp'
  BY DEF TypeOK, EnvAlone, OneFresh, GaveUp, BackoffIdle, RestartKept, HandlersOnChild, NothingToOverwrite, OneWait
<1>5. BackoffIdle'
  BY DEF TypeOK, EnvAlone, OneFresh, GaveUp, BackoffIdle, RestartKept, HandlersOnChild, NothingToOverwrite, OneWait
<1>6. RestartKept'
  BY DEF TypeOK, EnvAlone, OneFresh, GaveUp, BackoffIdle, RestartKept, HandlersOnChild, NothingToOverwrite, OneWait
<1>7. HandlersOnChild'
  BY DEF TypeOK, EnvAlone, OneFresh, GaveUp, BackoffIdle, RestartKept, HandlersOnChild, NothingToOverwrite, OneWait
<1>8. NothingToOverwrite'
  BY DEF TypeOK, EnvAlone, OneFresh, GaveUp, BackoffIdle, RestartKept, HandlersOnChild, NothingToOverwrite, OneWait
<1>9. OneWait'
  BY DEF TypeOK, EnvAlone, OneFresh, GaveUp, BackoffIdle, RestartKept, HandlersOnChild, NothingToOverwrite, OneWait
<1>10. Cleaned'
  BY DEF TypeOK, EnvAlone, HandlersOnChild, NothingToOverwrite, OneWait, Cleaned, NoOrphan, Alive, Terminating
<1>11. NoOrphan'
  BY DEF TypeOK, EnvAlone, HandlersOnChild, NothingToOverwrite, OneWait, Cleaned, NoOrphan, Alive, Terminating
<1>12. QED
  BY <1>1, <1>2, <1>3, <1>4, <1>5, <1>6, <1>7, <1>8, <1>9, <1>10, <1>11

LEMMA ExitAwaitedStep ==
    ASSUME Inv, NEW r \in Runs, ExitAwaited(r)
    PROVE  Inv'
<1> USE DaemonAssumption DEF Inv, ExitAwaited, Start, BeginSpawn, Superseded
<1>1. TypeOK'
  <2>1. Flags'
    BY Zenon DEF TypeOK, Flags
  <2>2. Kinds'
    BY DEF TypeOK, Kinds, EnvAlone, OneFresh, GaveUp
  <2>3. QED
    BY <2>1, <2>2 DEF TypeOK, Flags, Kinds
<1>2. EnvAlone'
  BY DEF TypeOK, EnvAlone, OneFresh, GaveUp, BackoffIdle, RestartKept, HandlersOnChild, NothingToOverwrite, OneWait
<1>3. OneFresh'
  BY DEF TypeOK, EnvAlone, OneFresh, GaveUp, BackoffIdle, RestartKept, HandlersOnChild, NothingToOverwrite, OneWait
<1>4. GaveUp'
  BY DEF TypeOK, EnvAlone, OneFresh, GaveUp, BackoffIdle, RestartKept, HandlersOnChild, NothingToOverwrite, OneWait
<1>5. BackoffIdle'
  BY DEF TypeOK, EnvAlone, OneFresh, GaveUp, BackoffIdle, RestartKept, HandlersOnChild, NothingToOverwrite, OneWait
<1>6. RestartKept'
  BY DEF TypeOK, EnvAlone, OneFresh, GaveUp, BackoffIdle, RestartKept, HandlersOnChild, NothingToOverwrite, OneWait
<1>7. HandlersOnChild'
  BY DEF TypeOK, EnvAlone, OneFresh, GaveUp, BackoffIdle, RestartKept, HandlersOnChild, NothingToOverwrite, OneWait
<1>8. NothingToOverwrite'
  BY DEF TypeOK, EnvAlone, OneFresh, GaveUp, BackoffIdle, RestartKept, HandlersOnChild, NothingToOverwrite, OneWait
<1>9. OneWait'
  BY DEF TypeOK, EnvAlone, OneFresh, GaveUp, BackoffIdle, RestartKept, HandlersOnChild, NothingToOverwrite, OneWait
<1>10. Cleaned'
  BY DEF TypeOK, EnvAlone, HandlersOnChild, NothingToOverwrite, OneWait, Cleaned, NoOrphan, Alive, Terminating
<1>11. NoOrphan'
  BY DEF TypeOK, EnvAlone, HandlersOnChild, NothingToOverwrite, OneWait, Cleaned, NoOrphan, Alive, Terminating
<1>12. QED
  BY <1>1, <1>2, <1>3, <1>4, <1>5, <1>6, <1>7, <1>8, <1>9, <1>10, <1>11

LEMMA NextInv == Inv /\ [Next]_vars => Inv'
<1>1. SUFFICES ASSUME Inv, [Next]_vars
               PROVE  Inv'
  OBVIOUS
<1>2. CASE UNCHANGED vars
  BY <1>1, <1>2 DEF vars, Inv, TypeOK, EnvAlone, OneFresh, GaveUp, BackoffIdle, RestartKept,
     HandlersOnChild, NothingToOverwrite, OneWait, Cleaned, NoOrphan,
     Alive, Terminating
<1>3. CASE \E r \in Runs : RunStep(r)
  <2>1. PICK r \in Runs : RunStep(r)
    BY <1>3
  <2>2. QED
    BY <1>1, <2>1, BootStep, RestartStep, QuitStep, TimerFiresStep, SpawnStep, SpawnSupersededStep, SpawnThrowsStep, SpawnErrorsStep, AnswersStep, HealthyStep, UnhealthyStep, ExitAwaitedStep DEF RunStep
<1>4. CASE \E p \in Procs : Dies(p) \/ ExitUnexpected(p)
  BY <1>1, <1>4, DiesStep, ExitUnexpectedStep
<1>5. CASE QuitAgain \/ Exit
  BY <1>1, <1>5, QuitAgainStep, ExitStep
<1>6. QED
  BY <1>1, <1>2, <1>3, <1>4, <1>5 DEF Next

LEMMA DaemonInv == Spec => []Inv
  BY InitInv, NextInv, PTL DEF Spec

(* The state keeps its types: in particular the count of rapid failures   *)
(* never passes MAX_RAPID_FAILURES.                                        *)
THEOREM DaemonTypes == Spec => []TypeOK
<1>1. Inv => TypeOK
  BY DEF Inv
<1>2. QED
  BY <1>1, DaemonInv, PTL

(* Without overlapping lifecycle calls every live daemon is the supervised *)
(* one or being terminated, and none outlives the app.                     *)
THEOREM NeverOrphans == Spec => []NoOrphan
<1>1. Inv => NoOrphan
  BY DEF Inv
<1>2. QED
  BY <1>1, DaemonInv, PTL

(* A daemon shown as restarting has its timer armed, overlaps or not.      *)
THEOREM RestartsArmed == Spec => []RestartKept
<1>1. Inv => RestartKept
  BY DEF Inv
<1>2. QED
  BY <1>1, DaemonInv, PTL

=============================================================================
