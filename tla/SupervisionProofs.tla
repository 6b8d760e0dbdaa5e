------------------------- MODULE SupervisionProofs --------------------------
(***************************************************************************)
(* The two supervisors of the tunnel client: the control plane's           *)
(* (ControlPlane) and the Windows tunnel service with the app bridge that  *)
(* starts and stops it (Bridge, which extends TunService).                 *)
(***************************************************************************)
EXTENDS Bridge, ControlPlane, FiniteSetTheorems, TLAPS

(***************************************************************************)
(* The control plane.  As long as its callers take turns at most one       *)
(* tunnel client runs, for any number of children, and the daemon always   *)
(* knows the one that runs.                                                *)
(*                                                                         *)
(* Taking turns means that one connect at most is between its check and    *)
(* its spawn: OneAtATime is asked of the behavior, not of the daemon,      *)
(* which admits any number of them.  The invariant says what such a        *)
(* connect relies on after its await: while it waits nothing is active;    *)
(* and nothing is active only when no child runs, none has an exit event   *)
(* pending and none failed to be spawned, since each of these events       *)
(* forgets the active child without asking which child it is about.        *)
(***************************************************************************)

\* A child that has not been reaped is the one in memory and in the file.
ChildIsActive ==
  \A p \in ProcessIds : procs[p] \in {"running", "signalled", "dead"} =>
    /\ active = [pid |-> p]
    /\ state = [connected |-> TRUE, pid |-> p]

FailedIsActive == failed > 0 => failed = 1 /\ active = [pid |-> Null]

WaitingIsAlone == waiting > 0 => active = Null

DaemonInv ==
  /\ DaemonTypeOK
  /\ ChildIsActive
  /\ FailedIsActive
  /\ WaitingIsAlone

LEMMA NullIsNoChild ==
  /\ Null \notin ProcessIds
  /\ ProcessIds \subseteq Nat
  /\ \A p \in ProcessIds \cup {Null} : Null # [pid |-> p]
  BY NullAssumption, DaemonAssumption DEF ProcessIds

LEMMA TrackedImplies == DaemonInv => OneTunnel /\ TunnelIsTracked
  <1> SUFFICES ASSUME DaemonInv PROVE OneTunnel /\ TunnelIsTracked
    OBVIOUS
  <1>1. TunnelIsTracked
    BY DEF TunnelIsTracked, Tunnels, DaemonInv, ChildIsActive
  <1>2. OneTunnel
    <2> SUFFICES ASSUME NEW p \in Tunnels, NEW q \in Tunnels PROVE p = q
      BY DEF OneTunnel
    <2>1. [pid |-> p] = [pid |-> q]
      BY <1>1 DEF TunnelIsTracked
    <2>2. [pid |-> p].pid = [pid |-> q].pid
      BY <2>1, Zenon
    <2> QED
      BY <2>2
  <1> QED
    BY <1>1, <1>2

-----------------------------------------------------------------------------
\* The records stay in their types however many connects are in flight.
LEMMA DaemonTypesStep ==
  ASSUME DaemonTypeOK, [DaemonNext]_daemonVars
  PROVE  DaemonTypeOK'
  <1>1. Disconnected \in [connected : BOOLEAN, pid : ProcessIds \cup {Null}]
    BY DEF Disconnected
  <1>2. Reconciled \in [connected : BOOLEAN, pid : ProcessIds \cup {Null}]
    BY <1>1 DEF Reconciled, DaemonTypeOK
  <1>3. CASE UNCHANGED daemonVars
    BY <1>3 DEF daemonVars, DaemonTypeOK
  <1>4. CASE Status
    BY <1>2, <1>4 DEF Status, DaemonTypeOK
  <1>5. CASE ConnectCheck \/ ConnectFails
    BY <1>2, <1>5, DaemonAssumption DEF ConnectCheck, ConnectFails, DaemonTypeOK
  <1>6. CASE Spawn
    <2>1. PICK p \in ProcessIds :
            /\ procs' = [procs EXCEPT ![p] = "running"]
            /\ active' = [pid |-> p]
            /\ state' = [connected |-> TRUE, pid |-> p]
      BY <1>6 DEF Spawn
    <2>3. waiting' \in 0 .. MaxWaiting /\ failed' \in 0 .. MaxWaiting
      BY <1>6, DaemonAssumption DEF Spawn, DaemonTypeOK
    <2> QED
      BY <2>1, <2>3 DEF DaemonTypeOK, ProcStates
  <1>7. CASE SpawnFails
    BY <1>7, DaemonAssumption DEF SpawnFails, DaemonTypeOK
  <1>8. CASE ErrorEvent
    BY <1>1, <1>8, DaemonAssumption DEF ErrorEvent, Forget, DaemonTypeOK
  <1>9. ASSUME NEW p \in ProcessIds, Dies(p) \/ ExitEvent(p)
        PROVE  DaemonTypeOK'
    BY <1>1, <1>9 DEF Dies, ExitEvent, Forget, DaemonTypeOK, ProcStates
  <1>10. CASE Disconnect
    <2>1. \A pid : Signalled(pid) \in [ProcessIds -> ProcStates]
      BY DEF Signalled, DaemonTypeOK, ProcStates
    <2>2. state' = state \/ state' = Disconnected
      BY <1>10 DEF Disconnect
    <2> QED
      BY <1>1, <1>10, <2>1, <2>2 DEF Disconnect, DaemonTypeOK
  <1>11. CASE Restart
    BY <1>11, DaemonAssumption DEF Restart, DaemonTypeOK, ProcStates
  <1>12. ASSUME NEW p \in ProcessIds, Other(p)
         PROVE  DaemonTypeOK'
    BY <1>12 DEF Other, DaemonTypeOK, ProcStates
  <1> QED
    BY <1>3, <1>4, <1>5, <1>6, <1>7, <1>8, <1>9, <1>10, <1>11, <1>12
    DEF DaemonNext, Connect, Events

\* The daemon's record of its child and the operating system's are typed,
\* whether callers are serialized or not.
THEOREM DaemonTypeCorrect == DaemonSpec => []DaemonTypeOK
  <1>1. DaemonInit => DaemonTypeOK
    BY DaemonAssumption
    DEF DaemonInit, Disconnected, DaemonTypeOK, ProcStates
  <1> QED
    BY <1>1, DaemonTypesStep, PTL DEF DaemonSpec

-----------------------------------------------------------------------------
LEMMA DaemonStarts == DaemonInit => DaemonInv
  BY DaemonAssumption
  DEF DaemonInit, Disconnected, DaemonInv, DaemonTypeOK, ChildIsActive,
      FailedIsActive, WaitingIsAlone, ProcStates

\* The reset of a stale file: it happens only while no child lives.
LEMMA ReconcileKeeps ==
  ASSUME DaemonInv
  PROVE  /\ Reconciled \in [connected : BOOLEAN, pid : ProcessIds \cup {Null}]
         /\ \A p \in ProcessIds : procs[p] \in {"running", "signalled", "dead"} =>
              Reconciled = [connected |-> TRUE, pid |-> p]
  <1>1. Reconciled \in [connected : BOOLEAN, pid : ProcessIds \cup {Null}]
    BY DEF Reconciled, Disconnected, DaemonInv, DaemonTypeOK
  <1>2. ASSUME NEW p \in ProcessIds, procs[p] \in {"running", "signalled", "dead"}
        PROVE  Reconciled = [connected |-> TRUE, pid |-> p]
    <2>1. active = [pid |-> p] /\ state = [connected |-> TRUE, pid |-> p]
      BY <1>2 DEF DaemonInv, ChildIsActive
    <2>2. KnownPid = p /\ Alive(p)
      BY <1>2, <2>1, NullIsNoChild DEF KnownPid, Alive
    <2> QED
      BY <2>1, <2>2 DEF Reconciled, Connected
  <1> QED
    BY <1>1, <1>2

LEMMA DaemonStep ==
  ASSUME OneAtATime, DaemonInv, [DaemonNext]_daemonVars
  PROVE  DaemonInv'
  <1> USE DEF DaemonInv, OneAtATime
  <1>0. DaemonTypeOK'
    BY DaemonTypesStep
  <1>1. CASE UNCHANGED daemonVars
    BY <1>1 DEF daemonVars, DaemonTypeOK, ChildIsActive, FailedIsActive, WaitingIsAlone
  <1>2. CASE Status
    BY <1>2, ReconcileKeeps
    DEF Status, DaemonTypeOK, ChildIsActive, FailedIsActive, WaitingIsAlone
  <1>3. CASE ConnectCheck
    BY <1>0, <1>3, ReconcileKeeps
    DEF ConnectCheck, ChildIsActive, FailedIsActive, WaitingIsAlone
  <1>4. CASE Spawn
    <2>1. /\ waiting = 1 /\ waiting' = 0
          /\ active = Null
          /\ failed = 0 /\ failed' = 0
      <3>1. waiting \in Nat /\ waiting <= 1 /\ failed \in Nat
        BY DEF DaemonTypeOK
      <3>2. waiting > 0 /\ waiting' = waiting - 1 /\ failed' = failed
        BY <1>4 DEF Spawn
      <3>3. active = Null
        BY <3>2 DEF WaitingIsAlone
      <3>4. ~ (failed > 0)
        BY <3>3, NullIsNoChild DEF FailedIsActive
      <3> QED
        BY <3>1, <3>2, <3>3, <3>4
    <2>2. \A p \in ProcessIds : procs[p] \notin {"running", "signalled", "dead"}
      BY <2>1, NullIsNoChild DEF ChildIsActive
    <2>3. PICK p \in ProcessIds :
            /\ procs' = [procs EXCEPT ![p] = "running"]
            /\ active' = [pid |-> p]
            /\ state' = [connected |-> TRUE, pid |-> p]
      BY <1>4 DEF Spawn
    <2>4. ChildIsActive'
      BY <2>2, <2>3 DEF DaemonTypeOK, ChildIsActive
    <2> QED
      BY <1>0, <2>1, <2>4 DEF FailedIsActive, WaitingIsAlone
  <1>5. CASE SpawnFails
    <2>1. /\ waiting = 1 /\ waiting' = 0
          /\ active = Null
          /\ failed = 0 /\ failed' = 1
      <3>1. waiting \in Nat /\ waiting <= 1 /\ failed \in Nat
        BY DaemonAssumption DEF DaemonTypeOK
      <3>2. waiting > 0 /\ waiting' = waiting - 1 /\ failed' = failed + 1
        BY <1>5 DEF SpawnFails
      <3>3. active = Null
        BY <3>2 DEF WaitingIsAlone
      <3>4. ~ (failed > 0)
        BY <3>3, NullIsNoChild DEF FailedIsActive
      <3> QED
        BY <3>1, <3>2, <3>3, <3>4
    <2>2. \A p \in ProcessIds : procs'[p] \notin {"running", "signalled", "dead"}
      BY <1>5, <2>1, NullIsNoChild DEF SpawnFails, ChildIsActive
    <2>3. active' = [pid |-> Null]
      BY <1>5 DEF SpawnFails
    <2> QED
      BY <1>0, <2>1, <2>2, <2>3
      DEF ChildIsActive, FailedIsActive, WaitingIsAlone
  <1>6. CASE ConnectFails
    <2>1. /\ waiting > 0 /\ waiting' = waiting - 1
          /\ UNCHANGED <<active, state, procs, failed>>
      BY <1>6 DEF ConnectFails
    <2>2. ChildIsActive' /\ FailedIsActive'
      BY <2>1 DEF ChildIsActive, FailedIsActive
    <2> QED
      BY <1>0, <2>1, <2>2 DEF WaitingIsAlone
  <1>7. CASE ErrorEvent
    <2>1. /\ failed = 1 /\ failed' = 0
          /\ active = [pid |-> Null] /\ active' = Null
      BY <1>7
      DEF ErrorEvent, Forget, DaemonTypeOK, FailedIsActive
    <2>2. \A p \in ProcessIds : procs[p] \notin {"running", "signalled", "dead"}
      <3> SUFFICES ASSUME NEW p \in ProcessIds,
                          procs[p] \in {"running", "signalled", "dead"}
                   PROVE  FALSE
        OBVIOUS
      <3>1. active.pid = p
        BY DEF ChildIsActive
      <3> QED
        BY <2>1, <3>1, NullIsNoChild
    <2> QED
      BY <1>0, <1>7, <2>1, <2>2
      DEF ErrorEvent, ChildIsActive, FailedIsActive, WaitingIsAlone
  <1>8. ASSUME NEW p \in ProcessIds, Dies(p)
        PROVE  DaemonInv'
    <2>1. procs[p] \in {"running", "signalled"}
      BY <1>8 DEF Dies, Tunnels
    <2> QED
      BY <1>0, <1>8, <2>1
      DEF Dies, DaemonTypeOK, ChildIsActive, FailedIsActive, WaitingIsAlone
  <1>9. ASSUME NEW p \in ProcessIds, ExitEvent(p)
        PROVE  DaemonInv'
    <2>1. active = [pid |-> p]
      BY <1>9 DEF ExitEvent, ChildIsActive
    <2>2. failed = 0 /\ failed' = 0 /\ active' = Null
      BY <1>9, <2>1, NullIsNoChild
      DEF ExitEvent, Forget, DaemonTypeOK, FailedIsActive
    <2>3. \A q \in ProcessIds : procs'[q] \notin {"running", "signalled", "dead"}
      <3> SUFFICES ASSUME NEW q \in ProcessIds,
                          procs'[q] \in {"running", "signalled", "dead"}
                   PROVE  FALSE
        OBVIOUS
      <3>1. q # p /\ procs'[q] = procs[q]
        BY <1>9 DEF ExitEvent, DaemonTypeOK
      <3>2. active.pid = q
        BY <3>1 DEF ChildIsActive
      <3> QED
        BY <2>1, <3>1, <3>2
    <2> QED
      BY <1>0, <2>2, <2>3 DEF ChildIsActive, FailedIsActive, WaitingIsAlone
  <1>10. CASE Disconnect
    <2>1. \A p \in ProcessIds :
            procs'[p] \in {"running", "signalled", "dead"} =>
              procs[p] \in {"running", "signalled", "dead"}
      <3>1. \A pid : procs' = Signalled(pid) =>
              \A p \in ProcessIds :
                procs'[p] \in {"running", "signalled", "dead"} =>
                  procs[p] \in {"running", "signalled", "dead"}
        BY DEF Signalled, DaemonTypeOK
      <3> QED
        BY <1>10, <3>1 DEF Disconnect
    <2>2. \/ state' = state
          \/ active = Null /\ state' = Disconnected
      BY <1>10 DEF Disconnect
    <2>3. /\ active' = active
          /\ failed' = failed
          /\ waiting' = waiting
      BY <1>10 DEF Disconnect
    <2>4. ChildIsActive'
      BY <2>1, <2>2, <2>3, NullIsNoChild DEF ChildIsActive
    <2> QED
      BY <1>0, <2>3, <2>4 DEF FailedIsActive, WaitingIsAlone
  <1>11. CASE Restart
    <2>1. /\ active' = Null /\ failed' = 0 /\ waiting' = 0
          /\ \A p \in ProcessIds : procs'[p] \in {"free", "other"}
      BY <1>11 DEF Restart
    <2> QED
      BY <1>0, <2>1 DEF ChildIsActive, FailedIsActive, WaitingIsAlone
  <1>12. ASSUME NEW p \in ProcessIds, Other(p)
         PROVE  DaemonInv'
    <2>1. \A q \in ProcessIds :
            procs'[q] \in {"running", "signalled", "dead"} => procs'[q] = procs[q]
      BY <1>12 DEF Other, DaemonTypeOK
    <2> QED
      BY <1>0, <1>12, <2>1
      DEF Other, ChildIsActive, FailedIsActive, WaitingIsAlone
  <1> QED
    BY <1>1, <1>2, <1>3, <1>4, <1>5, <1>6, <1>7, <1>8, <1>9, <1>10, <1>11, <1>12
    DEF DaemonNext, Connect, Events

LEMMA DaemonInvariant == DaemonSpec /\ []OneAtATime => []DaemonInv
  BY DaemonStarts, DaemonStep, PTL DEF DaemonSpec

\* However many connects the daemon admits, callers that take turns get one
\* tunnel client at most, and the daemon has it in memory and in the file: two
\* clients, or one that is forgotten, take two connects that await their bodies
\* at once (daemon.js, connect: the check comes before the await).
THEOREM TakingTurnsSuffices ==
  DaemonSpec => TurnsGiveOneTunnel /\ TurnsKeepTrack
  BY DaemonInvariant, TrackedImplies, PTL DEF TurnsGiveOneTunnel, TurnsKeepTrack

-----------------------------------------------------------------------------
(***************************************************************************)
(* The tunnel service, for any number of process ids, deaths and power     *)
(* losses, whoever starts and stops it.                                    *)
(*                                                                         *)
(* Whoever runs without being a stray is the child in hand, and the pid    *)
(* file names the child in hand from the moment it is watched.  Both rest  *)
(* on a service that has not started supervising nothing.                  *)
(***************************************************************************)

\* A service that is stopped, or has not reported yet, supervises nothing.
OffUntilStarted == scm \in {"stopped", "startPending"} => sup = "off"

ServiceInv ==
  /\ TunTypeOK
  /\ OffUntilStarted
  /\ OneOwnChild
  /\ PidFileNamesChild

LEMMA ServiceStarts ==
  ASSUME TunInit
  PROVE  ServiceInv
  <1>1. TunTypeOK
    BY DEF TunInit, TunTypeOK
  <1>2. OneOwnChild
    BY DEF TunInit, OneOwnChild, Running
  <1> QED
    BY <1>1, <1>2
    DEF TunInit, ServiceInv, OffUntilStarted, PidFileNamesChild

LEMMA SuperviseKeeps ==
  ASSUME ServiceInv, Supervise
  PROVE  ServiceInv'
  <1> USE DEF ServiceInv, OffUntilStarted, OneOwnChild, PidFileNamesChild
  <1>1. CASE SuperviseTop
    <2>1. TunTypeOK'
      BY <1>1 DEF SuperviseTop, TunTypeOK
    <2>2. \A p \in Running : p \in strays
      BY <1>1 DEF SuperviseTop
    <2>3. OneOwnChild'
      BY <1>1, <2>2 DEF SuperviseTop, Running, TunTypeOK
    <2>4. /\ sup' \notin {"watch", "reap"}
          /\ UNCHANGED <<pidFile, leftover, scm>>
          /\ sup = "loop"
      BY <1>1 DEF SuperviseTop
    <2> QED
      BY <2>1, <2>3, <2>4
  <1>2. CASE StartChild
    <2>1. TunTypeOK'
      BY <1>2 DEF StartChild, AbandonChild, Kill, TunTypeOK
    <2>2. OneOwnChild'
      BY <1>2 DEF StartChild, AbandonChild, Kill, Running, TunTypeOK
    <2> QED
      BY <1>2, <2>1, <2>2 DEF StartChild
  <1>3. CASE Watch
    <2>1. TunTypeOK'
      BY <1>3 DEF Watch, ClearChild, Kill, TunTypeOK
    <2>2. OneOwnChild'
      BY <1>3 DEF Watch, ClearChild, Kill, Running, TunTypeOK
    <2> QED
      BY <1>3, <2>1, <2>2 DEF Watch, ClearChild
  <1>4. CASE Reap
    <2>1. TunTypeOK'
      BY <1>4 DEF Reap, ClearChild, TunTypeOK
    <2>2. OneOwnChild'
      BY <1>4 DEF Reap, ClearChild, Running, TunTypeOK
    <2> QED
      BY <1>4, <2>1, <2>2 DEF Reap, ClearChild
  <1>5. CASE SleepOrStop
    BY <1>5 DEF SleepOrStop, Running, TunTypeOK
  <1> QED
    BY <1>1, <1>2, <1>3, <1>4, <1>5 DEF Supervise

LEMMA ServiceStep ==
  ASSUME ServiceInv, [TunNext]_tunVars
  PROVE  ServiceInv'
  <1> USE DEF ServiceInv, OffUntilStarted, OneOwnChild, PidFileNamesChild
  <1>1. CASE UNCHANGED tunVars
    BY <1>1 DEF tunVars, Running, TunTypeOK
  <1>2. CASE Started \/ Stopped
    BY <1>2 DEF Started, Stopped, Running, TunTypeOK
  <1>3. CASE Supervise
    BY <1>3, SuperviseKeeps
  <1>4. CASE Crash
    <2>1. TunTypeOK'
      BY <1>4 DEF Crash, TunTypeOK, Running
    <2>2. OneOwnChild'
      BY <1>4 DEF Crash, Running
    <2> QED
      BY <1>4, <2>1, <2>2 DEF Crash
  <1>5. ASSUME NEW p \in Pids, Exit(p)
        PROVE  ServiceInv'
    <2>1. TunTypeOK'
      BY <1>5 DEF Exit, TunTypeOK
    <2>2. OneOwnChild'
      BY <1>5 DEF Exit, Running, TunTypeOK
    <2> QED
      BY <1>5, <2>1, <2>2 DEF Exit
  <1>6. CASE StartService \/ StopService
    BY <1>6 DEF StartService, StopService, Running, TunTypeOK
  <1>7. CASE Reboot
    <2>1. TunTypeOK'
      BY <1>7 DEF Reboot, TunTypeOK
    <2>2. OneOwnChild'
      BY <1>7 DEF Reboot, Running
    <2> QED
      BY <1>7, <2>1, <2>2 DEF Reboot
  <1> QED
    BY <1>1, <1>2, <1>3, <1>4, <1>5, <1>6, <1>7 DEF TunNext, TunStep

LEMMA ServiceInvariant == TunSpec => []ServiceInv
  BY ServiceStarts, ServiceStep, PTL DEF TunSpec

\* The tunnel service supervises one child: every other client that runs was
\* left behind by a service that died.
THEOREM OneOwnChildAlways == TunSpec => []OneOwnChild
  BY ServiceInvariant, PTL DEF ServiceInv

\* The pid file names the child that is watched, and it is there without one
\* only after a death of the service or a power loss that found it there, or
\* when it could not be removed or written.
THEOREM PidFileSound == TunSpec => []PidFileNamesChild
  BY ServiceInvariant, PTL DEF ServiceInv

-----------------------------------------------------------------------------
(***************************************************************************)
(* Under the bridge the tunnel service takes no step but its own: its      *)
(* controllers, those of dead bridges too, start it when it is stopped and *)
(* stop it when it runs.                                                   *)
(***************************************************************************)

\* What a controller does to the service.
LEMMA ControllersAsk ==
  ASSUME NEW sh, NEW next, Works(sh, next)
  PROVE  StartService \/ StopService \/ UNCHANGED tunVars
  BY DEF Works, Check, Wait, WaitTimesOut

LEMMA BridgeStepIsService ==
  ASSUME [Next]_vars
  PROVE  [TunNext]_tunVars
  <1>1. CASE UNCHANGED vars
    BY <1>1 DEF vars
  <1>2. CASE (\E r \in Requests : Caller(r)) \/ Bridge \/ Manage \/ BridgeDies
    BY <1>2 DEF Caller, Bridge, Manage, BridgeDies
  <1>3. CASE Controller \/ \E d \in 1 .. MaxFaults : OrphanWorks(d)
    BY <1>3, ControllersAsk DEF Controller, OrphanWorks, TunNext
  <1>4. CASE TunStep \/ ServiceDies \/ PowerLoss
    BY <1>4 DEF ServiceDies, PowerLoss, TunNext
  <1> QED
    BY <1>1, <1>2, <1>3, <1>4 DEF Next

\* The bridge drives the tunnel service as any other user of the service manager
\* does: what is proved of the service holds under it, two controllers at once
\* included.
THEOREM BridgeDrivesService == Spec => TunSpec
  <1>1. Init => TunInit
    BY DEF Init
  <1> QED
    BY <1>1, BridgeStepIsService, PTL DEF Spec, TunSpec

-----------------------------------------------------------------------------
(***************************************************************************)
(* The bridge's half: a request is dispatched by one pass of drain, and    *)
(* what drain lists is in the spool.  Between its dispatch and the removal *)
(* of its file a request is the one drain is at; it waits in the spool     *)
(* again only when its file was kept.                                      *)
(***************************************************************************)

\* The listing names files that are there, each of them once.
ListingSound ==
  /\ \A i \in DOMAIN queue : file[queue[i]] = "spooled"
  /\ \A i, j \in DOMAIN queue : i < j => queue[i] < queue[j]

\* A request that is still being written has not been served; its caller
\* renames it only once.
WrittenOnce ==
  \A r \in Requests :
    client[r] \in {"idle", "writing"} => begun[r] = 0 /\ file[r] # "spooled"

\* A request that waits in the spool has been executed before only if its file
\* was kept after that.
WaitsForFirst ==
  \A r \in Requests :
    file[r] = "spooled" /\ ~Executing(r) => begun[r] <= kept[r]

\* drain holds the controller's "ok" only for the request it is at.
OkIsEarned == payload = "ok" => Cur \in ended

SpoolInv ==
  /\ TypeOK
  /\ ListingSound
  /\ WrittenOnce
  /\ WaitsForFirst
  /\ RepeatedOnlyIfKept
  /\ OkIsEarned
  /\ OwnAnswer

LEMMA NoShellIsShell == NoShell \in Shells /\ NoShell.step = "none"
  BY DEF NoShell, Shells, Steps

LEMMA SpoolStarts ==
  ASSUME Init
  PROVE  SpoolInv
  <1>1. TunTypeOK
    BY ServiceStarts DEF Init, ServiceInv
  <1>2. TypeOK
    <2>1. /\ shell \in Shells /\ shell.step = "none"
          /\ orphan \in [1 .. MaxFaults -> Shells]
      BY NoShellIsShell DEF Init
    <2>2. queue = <<>> /\ queue \in Seq(Requests)
      BY DEF Init
    <2>3. /\ file \in [Requests -> {"none", "tmp", "spooled", "removed"}]
          /\ cmdOf \in [Requests -> Commands \cup {None}]
          /\ client \in [Requests -> {"idle", "writing", "polling", "done"}]
          /\ resp \in [Requests -> {None, "ok", "failed"}]
          /\ begun \in [Requests -> Nat] /\ kept \in [Requests -> Nat]
      BY DEF Init
    <2>4. /\ br = "idle" /\ payload = None /\ cancelled = FALSE
          /\ reboots = 0 /\ deaths = 0 /\ mishaps = 0
          /\ refused = {} /\ ended = {}
      BY DEF Init
    <2>5. \A r \in Requests : client[r] = "idle"
      BY DEF Init
    <2>6. /\ (br \in {"off", "idle"}) = (queue = <<>>)
          /\ (br = "dispatch") = (shell.step # "none")
          /\ payload \in {None, "ok", "failed"}
          /\ (br = "respond") = (payload # None)
      BY <2>1, <2>2, <2>4
    <2>7. /\ reboots \in Nat /\ deaths \in Nat /\ mishaps \in Nat
          /\ refused \subseteq Requests /\ ended \subseteq Requests
          /\ cancelled \in BOOLEAN
          /\ br \in {"off", "idle", "drain", "dispatch", "respond", "remove"}
      BY <2>4
    <2> QED
      BY <1>1, <2>1, <2>2, <2>3, <2>5, <2>6, <2>7 DEF TypeOK
  <1>3. OwnAnswer /\ OkIsEarned
    BY BridgeAssumption DEF Init, OwnAnswer, OkIsEarned
  <1> QED
    BY <1>2, <1>3
    DEF Init, SpoolInv, ListingSound, WrittenOnce, WaitsForFirst, Executing,
        RepeatedOnlyIfKept

LEMMA SpoolIsFinite ==
  /\ IsFiniteSet(Spooled)
  /\ Cardinality(Spooled) \in Nat
  /\ Spooled # {} => Cardinality(Spooled) > 0
  <1>1. IsFiniteSet(Requests)
    BY FS_Interval, BridgeAssumption DEF Requests
  <1>2. IsFiniteSet(Spooled)
    BY <1>1, FS_Subset DEF Spooled
  <1> QED
    BY <1>2, FS_CardinalityType, FS_EmptySet

LEMMA ListingIs ==
  ASSUME NEW s \in Listing, Spooled # {}
  PROVE  /\ s \in Seq(Requests)
         /\ s # <<>>
         /\ \A i \in DOMAIN s : file[s[i]] = "spooled"
         /\ \A i, j \in DOMAIN s : i < j => s[i] < s[j]
  <1>1. /\ s \in [1 .. Cardinality(Spooled) -> Spooled]
        /\ \A i, j \in DOMAIN s : i < j => s[i] < s[j]
    BY DEF Listing
  <1>2. \A r \in Spooled : r \in Requests /\ file[r] = "spooled"
    BY DEF Spooled
  <1>3. s \in Seq(Requests) /\ Len(s) = Cardinality(Spooled)
    BY <1>1, <1>2, SpoolIsFinite
  <1>4. s # <<>>
    BY <1>3, SpoolIsFinite
  <1> QED
    BY <1>1, <1>2, <1>3, <1>4

\* What drain is at is in the spool, and so is what comes after it.
LEMMA AtHead ==
  ASSUME SpoolInv, br \notin {"off", "idle"}
  PROVE  /\ queue # <<>> /\ queue \in Seq(Requests)
         /\ Cur = queue[1] /\ 1 \in DOMAIN queue
         /\ Cur \in Requests
         /\ file[Cur] = "spooled"
  <1>1. queue # <<>> /\ queue \in Seq(Requests)
    BY DEF SpoolInv, TypeOK
  <1>2. Cur = queue[1] /\ 1 \in DOMAIN queue /\ Cur \in Requests
    BY <1>1 DEF Cur
  <1> QED
    BY <1>1, <1>2 DEF SpoolInv, ListingSound

\* The listing after its first entry.
LEMMA RestOfListing ==
  ASSUME NEW q \in Seq(Requests), Len(q) > 1
  PROVE  /\ Tail(q) \in Seq(Requests) /\ Tail(q) # <<>>
         /\ \A i \in DOMAIN Tail(q) :
              i + 1 \in DOMAIN q /\ Tail(q)[i] = q[i + 1]
  <1>1. q # <<>> /\ Len(q) \in Nat
    OBVIOUS
  <1>2. Tail(q) \in Seq(Requests) /\ Len(Tail(q)) = Len(q) - 1
    BY <1>1
  <1>3. \A i \in 1 .. Len(q) - 1 : Tail(q)[i] = q[i + 1]
    BY <1>1
  <1>4. Tail(q) # <<>>
    <2>1. Len(Tail(q)) \in Nat /\ Len(Tail(q)) > 0
      BY <1>1, <1>2
    <2>2. PICK t \in Seq(Requests) : t = Tail(q) /\ Len(t) > 0
      BY <1>2, <2>1
    <2>3. t # <<>>
      BY <2>2
    <2> QED
      BY <2>2, <2>3
  <1>5. DOMAIN Tail(q) = 1 .. Len(q) - 1 /\ DOMAIN q = 1 .. Len(q)
    BY <1>1, <1>2
  <1> QED
    BY <1>1, <1>2, <1>3, <1>4, <1>5

\* drain goes on to files behind the one it is at.
LEMMA NextRequestGoesOn ==
  ASSUME SpoolInv, br \notin {"off", "idle"}, NextRequest
  PROVE  /\ br' \in {"idle", "drain"}
         /\ queue' \in Seq(Requests)
         /\ (br' = "idle") = (queue' = <<>>)
         /\ \A i \in DOMAIN queue' :
              /\ i + 1 \in DOMAIN queue /\ queue'[i] = queue[i + 1]
              /\ queue'[i] \in Requests /\ queue'[i] # Cur
         /\ \A i, j \in DOMAIN queue' : i < j => queue'[i] < queue'[j]
  <1>1. /\ queue # <<>> /\ queue \in Seq(Requests)
        /\ Cur \in Requests /\ Cur = queue[1] /\ 1 \in DOMAIN queue
    BY AtHead
  <1>2. /\ br' \in {"idle", "drain"}
        /\ queue' \in Seq(Requests)
        /\ (br' = "idle") = (queue' = <<>>)
        /\ \A i \in DOMAIN queue' :
             i + 1 \in DOMAIN queue /\ queue'[i] = queue[i + 1]
    <2>1. CASE br' = "idle" /\ queue' = <<>>
      BY <2>1
    <2>2. CASE br' = "drain" /\ queue' = Tail(queue) /\ Len(queue) > 1
      <3>1. queue \in Seq(Requests) /\ Len(queue) > 1
        BY <1>1, <2>2
      <3>2. /\ Tail(queue) \in Seq(Requests) /\ Tail(queue) # <<>>
            /\ \A i \in DOMAIN Tail(queue) :
                 i + 1 \in DOMAIN queue /\ Tail(queue)[i] = queue[i + 1]
        BY <3>1, RestOfListing
      <3>3. br' # "idle" /\ queue' = Tail(queue)
        BY <2>2
      <3> QED
        BY <2>2, <3>2, <3>3
    <2> QED
      BY <2>1, <2>2 DEF NextRequest
  <1>3. ASSUME NEW i \in DOMAIN queue'
        PROVE  queue'[i] \in Requests /\ queue'[i] # Cur
    <2>1. /\ i + 1 \in DOMAIN queue /\ queue'[i] = queue[i + 1] /\ 1 < i + 1
      BY <1>1, <1>2
    <2>2. queue[1] < queue[i + 1] /\ queue[1] \in Nat /\ queue[i + 1] \in Nat
      BY <1>1, <2>1, BridgeAssumption DEF SpoolInv, ListingSound, Requests
    <2> QED
      BY <1>1, <1>2, <2>1, <2>2
  <1>4. ASSUME NEW i \in DOMAIN queue', NEW j \in DOMAIN queue', i < j
        PROVE  queue'[i] < queue'[j]
    BY <1>1, <1>2, <1>4 DEF SpoolInv, ListingSound
  <1> QED
    BY <1>2, <1>3, <1>4

-----------------------------------------------------------------------------
LEMMA CallerKeeps ==
  ASSUME SpoolInv, TunTypeOK', NEW r \in Requests, Caller(r)
  PROVE  SpoolInv'
  <1> USE DEF SpoolInv
  <1>0. UNCHANGED <<br, queue, shell, orphan, payload, cancelled, reboots,
                    deaths, mishaps, begun, kept, refused, ended>>
    BY DEF Caller, histories
  <1>1. CASE WriteTmp(r)
    <2>1. TypeOK'
      BY <1>0, <1>1 DEF WriteTmp, TypeOK
    <2>2. file[r] # "spooled"
      BY <1>1 DEF WriteTmp, WrittenOnce
    <2>3. ListingSound'
      BY <1>0, <1>1, <2>2 DEF WriteTmp, ListingSound, TypeOK
    <2>4. WrittenOnce'
      BY <1>0, <1>1, <2>2 DEF WriteTmp, WrittenOnce, TypeOK
    <2>5. WaitsForFirst'
      BY <1>0, <1>1, <2>2 DEF WriteTmp, WaitsForFirst, Executing, Cur, TypeOK
    <2> QED
      BY <1>0, <1>1, <2>1, <2>3, <2>4, <2>5
      DEF WriteTmp, RepeatedOnlyIfKept, OkIsEarned, OwnAnswer, Cur
  <1>2. CASE Rename(r)
    <2>1. TypeOK'
      BY <1>0, <1>2 DEF Rename, TypeOK
    <2>2. begun[r] = 0
      BY <1>2 DEF Rename, WrittenOnce
    <2>3. ListingSound'
      BY <1>0, <1>2 DEF Rename, ListingSound, TypeOK
    <2>4. WrittenOnce'
      BY <1>0, <1>2 DEF Rename, WrittenOnce, TypeOK
    <2>5. WaitsForFirst'
      BY <1>0, <1>2, <2>2 DEF Rename, WaitsForFirst, Executing, Cur, TypeOK
    <2> QED
      BY <1>0, <1>2, <2>1, <2>3, <2>4, <2>5
      DEF Rename, RepeatedOnlyIfKept, OkIsEarned, OwnAnswer, Cur
  <1>3. CASE Poll(r)
    <2>1. TypeOK'
      BY <1>0, <1>3 DEF Poll, TypeOK
    <2>2. OwnAnswer'
      BY <1>0, <1>3, BridgeAssumption DEF Poll, OwnAnswer, TypeOK
    <2>3. WrittenOnce'
      BY <1>0, <1>3 DEF Poll, WrittenOnce, TypeOK
    <2> QED
      BY <1>0, <1>3, <2>1, <2>2, <2>3
      DEF Poll, ListingSound, WaitsForFirst, Executing, RepeatedOnlyIfKept,
          OkIsEarned, Cur
  <1> QED
    BY <1>1, <1>2, <1>3 DEF Caller

LEMMA DrainKeeps ==
  ASSUME SpoolInv, TunTypeOK', Drain, UNCHANGED <<orphan, reboots, deaths>>
  PROVE  SpoolInv'
  <1>0. UNCHANGED <<file, cmdOf, client, resp, shell, payload, cancelled,
                    mishaps, begun, kept, refused, ended>>
    BY DEF Drain, spoolVars, histories
  <1>1. /\ queue' \in Seq(Requests)
        /\ queue' # <<>>
        /\ \A i \in DOMAIN queue' : file[queue'[i]] = "spooled"
        /\ \A i, j \in DOMAIN queue' : i < j => queue'[i] < queue'[j]
    BY ListingIs DEF Drain
  <1>2. TypeOK'
    BY <1>0, <1>1 DEF Drain, SpoolInv, TypeOK
  <1>3. ListingSound'
    BY <1>0, <1>1 DEF ListingSound
  <1>4. OkIsEarned'
    BY <1>0, BridgeAssumption DEF Drain, SpoolInv, TypeOK, OkIsEarned
  <1> QED
    BY <1>0, <1>2, <1>3, <1>4
    DEF Drain, SpoolInv, WrittenOnce, WaitsForFirst, Executing,
        RepeatedOnlyIfKept, OwnAnswer

\* drain leaves the request it is at: its file is gone, or is kept once more.
LEMMA LeavesKeeps ==
  ASSUME SpoolInv, TunTypeOK', NextRequest,
         br \in {"drain", "remove"},
         mishaps' \in Nat,
         refused' \subseteq Requests,
         \/ file' = [file EXCEPT ![Cur] = "removed"] /\ kept' = kept
         \/ file' = file /\ kept' = [kept EXCEPT ![Cur] = @ + 1],
         UNCHANGED <<cmdOf, client, resp, shell, payload, cancelled, begun,
                     ended, orphan, reboots, deaths>>
  PROVE  SpoolInv'
  <1> USE DEF SpoolInv
  <1>1. /\ br' \in {"idle", "drain"}
        /\ queue' \in Seq(Requests)
        /\ (br' = "idle") = (queue' = <<>>)
        /\ \A i \in DOMAIN queue' :
             /\ i + 1 \in DOMAIN queue /\ queue'[i] = queue[i + 1]
             /\ queue'[i] \in Requests /\ queue'[i] # Cur
        /\ \A i, j \in DOMAIN queue' : i < j => queue'[i] < queue'[j]
    BY NextRequestGoesOn
  <1>2. Cur \in Requests /\ file[Cur] = "spooled"
    BY AtHead
  <1>3. /\ file' \in [Requests -> {"none", "tmp", "spooled", "removed"}]
        /\ \A r \in Requests :
             file'[r] = file[r] \/ (r = Cur /\ file'[r] = "removed")
        /\ kept' \in [Requests -> Nat]
        /\ \A r \in Requests : kept[r] <= kept'[r]
        /\ file'[Cur] = "spooled" => kept'[Cur] = kept[Cur] + 1
    <2>0. /\ file \in [Requests -> {"none", "tmp", "spooled", "removed"}]
          /\ kept \in [Requests -> Nat]
          /\ Cur \in Requests /\ kept[Cur] \in Nat
      BY <1>2 DEF TypeOK
    <2>1. CASE file' = [file EXCEPT ![Cur] = "removed"] /\ kept' = kept
      <3>1. /\ file' \in [Requests -> {"none", "tmp", "spooled", "removed"}]
            /\ file'[Cur] = "removed"
            /\ \A r \in Requests : r # Cur => file'[r] = file[r]
        BY <2>0, <2>1, Zenon
      <3>2. \A r \in Requests : kept[r] <= kept'[r]
        BY <2>0, <2>1
      <3> QED
        BY <2>0, <2>1, <3>1, <3>2
    <2>2. CASE file' = file /\ kept' = [kept EXCEPT ![Cur] = @ + 1]
      <3>1. kept' \in [Requests -> Nat] /\ kept'[Cur] = kept[Cur] + 1
        BY <2>0, <2>2
      <3>2. \A r \in Requests : kept[r] <= kept'[r]
        BY <2>0, <2>2
      <3> QED
        BY <2>0, <2>2, <3>1, <3>2
    <2> QED
      BY <2>1, <2>2
  <1>4. TypeOK'
    <2>1. /\ br' \in {"off", "idle", "drain", "dispatch", "respond", "remove"}
          /\ (br' \in {"off", "idle"}) = (queue' = <<>>)
          /\ (br' = "dispatch") = (shell'.step # "none")
          /\ (br' = "respond") = (payload' # None)
      BY <1>1 DEF TypeOK
    <2> QED
      BY <1>1, <1>3, <2>1 DEF TypeOK
  <1>5. ListingSound'
    BY <1>1, <1>3 DEF ListingSound
  <1>6. WrittenOnce'
    BY <1>3 DEF WrittenOnce
  <1>7. WaitsForFirst' /\ RepeatedOnlyIfKept'
    <2>1. \A r \in Requests : begun[r] <= 1 + kept'[r]
      BY <1>3 DEF RepeatedOnlyIfKept, TypeOK
    <2>2. \A r \in Requests : file'[r] = "spooled" => begun[r] <= kept'[r]
      <3> SUFFICES ASSUME NEW r \in Requests, file'[r] = "spooled"
                   PROVE  begun[r] <= kept'[r]
        OBVIOUS
      <3>1. CASE r = Cur
        BY <1>3, <3>1 DEF RepeatedOnlyIfKept, TypeOK
      <3>2. CASE r # Cur
        BY <1>3, <3>2 DEF WaitsForFirst, Executing, TypeOK
      <3> QED
        BY <3>1, <3>2
    <2> QED
      BY <2>1, <2>2 DEF WaitsForFirst, RepeatedOnlyIfKept
  <1>8. OkIsEarned' /\ OwnAnswer'
    BY BridgeAssumption DEF OkIsEarned, OwnAnswer, TypeOK
  <1> QED
    BY <1>4, <1>5, <1>6, <1>7, <1>8

LEMMA ReadFailsKeeps ==
  ASSUME SpoolInv, TunTypeOK', ReadFails, UNCHANGED <<orphan, reboots, deaths>>
  PROVE  SpoolInv'
  <1>1. Cur \in Requests
    BY AtHead DEF ReadFails
  <1>2. mishaps' \in Nat /\ refused' \subseteq Requests
    BY <1>1 DEF ReadFails, SpoolInv, TypeOK
  <1>3. \/ file' = [file EXCEPT ![Cur] = "removed"] /\ kept' = kept
        \/ file' = file /\ kept' = [kept EXCEPT ![Cur] = @ + 1]
    <2>1. CASE file' = file
      BY <2>1 DEF ReadFails
    <2>2. CASE file' # file
      <3>1. file' = [file EXCEPT ![Cur] = "removed"]
        BY <2>2 DEF ReadFails
      <3>2. kept' = [kept EXCEPT ![Cur] = kept[Cur]]
        BY <2>2 DEF ReadFails
      <3>3. kept' = kept
        BY <3>2 DEF SpoolInv, TypeOK
      <3> QED
        BY <3>1, <3>3
    <2> QED
      BY <2>1, <2>2
  <1> QED
    BY <1>2, <1>3, LeavesKeeps DEF ReadFails

LEMMA RemoveRequestKeeps ==
  ASSUME SpoolInv, TunTypeOK', RemoveRequest,
         UNCHANGED <<orphan, reboots, deaths>>
  PROVE  SpoolInv'
  <1>1. mishaps' \in Nat /\ refused' \subseteq Requests
    BY DEF RemoveRequest, Removed, Mishap, SpoolInv, TypeOK
  <1> QED
    BY <1>1, LeavesKeeps DEF RemoveRequest, Removed

LEMMA RefuseKeeps ==
  ASSUME SpoolInv, TunTypeOK', Refuse, UNCHANGED <<orphan, reboots, deaths>>
  PROVE  SpoolInv'
  <1> USE DEF SpoolInv
  <1>1. /\ br = "drain" /\ br' = "respond" /\ payload' = "failed"
        /\ mishaps' \in Nat
        /\ UNCHANGED <<file, cmdOf, client, resp, queue, shell, cancelled,
                       begun, kept, ended>>
    BY DEF Refuse, Mishap, spoolVars, TypeOK
  <1>2. Cur' = Cur /\ Cur \in Requests
    BY <1>1, AtHead DEF Cur
  <1>3. TypeOK'
    <2>1. refused' \subseteq Requests
      BY <1>2 DEF Refuse, TypeOK
    <2> QED
      BY <1>1, <2>1, BridgeAssumption DEF TypeOK
  <1> QED
    BY <1>1, <1>2, <1>3
    DEF ListingSound, WrittenOnce, WaitsForFirst, Executing,
        RepeatedOnlyIfKept, OkIsEarned, OwnAnswer

LEMMA DispatchKeeps ==
  ASSUME SpoolInv, TunTypeOK', Dispatch, UNCHANGED <<orphan, reboots, deaths>>
  PROVE  SpoolInv'
  <1> USE DEF SpoolInv
  <1>1. /\ br = "drain" /\ br' = "dispatch"
        /\ shell' = [does |-> cmdOf[Cur], step |-> "check"]
        /\ begun' = [begun EXCEPT ![Cur] = @ + 1]
        /\ UNCHANGED <<file, cmdOf, client, resp, queue, payload, cancelled,
                       mishaps, kept, refused, ended>>
    BY DEF Dispatch, spoolVars
  <1>2. /\ Cur \in Requests /\ file[Cur] = "spooled"
        /\ begun[Cur] <= kept[Cur]
    BY <1>1, AtHead DEF WaitsForFirst, Executing
  <1>3. Cur' = Cur
    BY <1>1 DEF Cur
  <1>4. client[Cur] \notin {"idle", "writing"}
    BY <1>2 DEF WrittenOnce
  <1>5. /\ begun' \in [Requests -> Nat]
        /\ begun'[Cur] = begun[Cur] + 1
        /\ \A r \in Requests : r # Cur => begun'[r] = begun[r]
    BY <1>1, <1>2 DEF TypeOK
  <1>6. TypeOK'
    <2>1. cmdOf[Cur] \in Commands
      BY <1>2, <1>4 DEF TypeOK
    <2>2. shell' \in Shells /\ shell'.step = "check"
      BY <1>1, <2>1 DEF Shells, Steps
    <2> QED
      BY <1>1, <1>5, <2>2 DEF TypeOK
  <1>7. WrittenOnce'
    BY <1>1, <1>4, <1>5 DEF WrittenOnce
  <1>8. WaitsForFirst' /\ RepeatedOnlyIfKept'
    <2>1. begun'[Cur] <= 1 + kept[Cur]
      BY <1>2, <1>5 DEF TypeOK
    <2> QED
      BY <1>1, <1>3, <1>5, <2>1
      DEF WaitsForFirst, Executing, RepeatedOnlyIfKept
  <1> QED
    BY <1>1, <1>3, <1>6, <1>7, <1>8 DEF ListingSound, OkIsEarned, OwnAnswer

LEMMA AnsweredKeeps ==
  ASSUME SpoolInv, TunTypeOK', Dispatched \/ KillShell,
         UNCHANGED <<orphan, reboots, deaths>>
  PROVE  SpoolInv'
  <1> USE DEF SpoolInv
  <1>1. /\ br = "dispatch" /\ br' = "respond"
        /\ shell' = NoShell
        /\ payload' \in {"ok", "failed"}
        /\ payload' = "ok" => Cur \in ended'
        /\ ended \subseteq ended' /\ ended' \subseteq ended \cup {Cur}
        /\ mishaps' \in Nat
        /\ UNCHANGED <<file, cmdOf, client, resp, queue, cancelled, begun,
                       kept, refused>>
    BY DEF Dispatched, KillShell, Mishap, spoolVars, histories, TypeOK
  <1>2. Cur' = Cur /\ Cur \in Requests
    BY <1>1, AtHead DEF Cur
  <1>3. TypeOK'
    <2>1. shell' \in Shells /\ shell'.step = "none"
      BY <1>1, NoShellIsShell
    <2>2. payload' # None /\ ended' \subseteq Requests
      BY <1>1, <1>2, BridgeAssumption DEF TypeOK
    <2> QED
      BY <1>1, <2>1, <2>2 DEF TypeOK
  <1> QED
    BY <1>1, <1>2, <1>3
    DEF ListingSound, WrittenOnce, WaitsForFirst, Executing,
        RepeatedOnlyIfKept, OkIsEarned, OwnAnswer

LEMMA WriteResponseKeeps ==
  ASSUME SpoolInv, TunTypeOK', WriteResponse,
         UNCHANGED <<orphan, reboots, deaths>>
  PROVE  SpoolInv'
  <1> USE DEF SpoolInv
  <1>1. /\ br = "respond" /\ br' = "remove"
        /\ resp' = [resp EXCEPT ![Cur] = payload] \/ resp' = resp
        /\ payload \in {"ok", "failed"} /\ payload' = None
        /\ mishaps' \in Nat
        /\ UNCHANGED <<file, cmdOf, client, queue, shell, cancelled,
                       begun, kept, refused, ended>>
    BY DEF WriteResponse, RespondTo, Mishap, histories, TypeOK
  <1>2. Cur' = Cur /\ Cur \in Requests
    BY <1>1, AtHead DEF Cur
  <1>3. TypeOK'
    <2>1. resp' \in [Requests -> {None, "ok", "failed"}]
      BY <1>1, <1>2 DEF TypeOK
    <2>2. br \notin {"off", "idle", "dispatch"}
      BY <1>1
    <2> QED
      BY <1>1, <2>1, <2>2 DEF TypeOK
  <1>4. OwnAnswer'
    BY <1>1, <1>2 DEF OwnAnswer, OkIsEarned, TypeOK
  <1>5. OkIsEarned'
    BY <1>1, BridgeAssumption DEF OkIsEarned
  <1> QED
    BY <1>1, <1>2, <1>3, <1>4, <1>5
    DEF ListingSound, WrittenOnce, WaitsForFirst, Executing, RepeatedOnlyIfKept

\* The service stops, starts or tidies up.
LEMMA BetweenRequestsKeeps ==
  ASSUME SpoolInv, TunTypeOK',
         \/ RunReturns /\ UNCHANGED <<orphan, reboots, deaths>>
         \/ Manage
         \/ UNCHANGED bridgeVars
  PROVE  SpoolInv'
  <1> USE DEF SpoolInv
  <1>1. /\ br' = br \/ {br, br'} \subseteq {"off", "idle"}
        /\ cancelled' \in BOOLEAN /\ mishaps' \in Nat
        /\ resp' = resp \/ \E r \in Requests : resp' = [resp EXCEPT ![r] = None]
        /\ UNCHANGED <<file, cmdOf, client, queue, shell, orphan, payload,
                       reboots, deaths, begun, kept, refused, ended>>
    <2>1. cancelled \in BOOLEAN /\ mishaps \in Nat
      BY DEF TypeOK
    <2>2. CASE RunReturns /\ UNCHANGED <<orphan, reboots, deaths>>
      <3>1. br = "idle" /\ br' = "off"
        BY <2>2 DEF RunReturns
      <3>2. UNCHANGED <<file, cmdOf, client, resp, queue, shell, orphan, payload,
                        cancelled, reboots, deaths, mishaps, begun, kept,
                        refused, ended>>
        BY <2>2 DEF RunReturns, spoolVars, histories
      <3> QED
        BY <2>1, <3>1, <3>2
    <2>3. CASE Manage
      <3>1. UNCHANGED <<orphan, reboots, deaths>>
        BY <2>3 DEF Manage
      <3>2. CASE CleanupResponses
        BY <2>1, <3>1, <3>2 DEF CleanupResponses, histories
      <3>3. CASE StopBridge
        BY <2>1, <3>1, <3>3 DEF StopBridge, Mishap, spoolVars, histories
      <3>4. CASE StartBridge
        BY <2>1, <3>1, <3>4 DEF StartBridge, spoolVars, histories
      <3> QED
        BY <2>3, <3>2, <3>3, <3>4 DEF Manage
    <2>4. CASE UNCHANGED bridgeVars
      BY <2>1, <2>4 DEF bridgeVars
    <2> QED
      BY <2>2, <2>3, <2>4
  <1>2. Cur' = Cur
    BY <1>1 DEF Cur
  <1>3. resp' \in [Requests -> {None, "ok", "failed"}] /\ OwnAnswer'
    BY <1>1, BridgeAssumption DEF TypeOK, OwnAnswer
  <1>4. TypeOK'
    BY <1>1, <1>3 DEF TypeOK
  <1> QED
    BY <1>1, <1>2, <1>3, <1>4
    DEF ListingSound, WrittenOnce, WaitsForFirst, Executing,
        RepeatedOnlyIfKept, OkIsEarned

\* A controller's step leaves it a controller.
LEMMA ControllerTypes ==
  ASSUME NEW sh \in Shells, NEW next \in Shells, Works(sh, next), mishaps \in Nat
  PROVE  sh.step # "none" /\ next.step # "none" /\ mishaps' \in Nat
  BY DEF Works, Check, Wait, WaitTimesOut, Becomes, Mishap

LEMMA ControllerKeeps ==
  ASSUME SpoolInv, TunTypeOK',
         Controller \/ \E d \in 1 .. MaxFaults : OrphanWorks(d)
  PROVE  SpoolInv'
  <1> USE DEF SpoolInv
  <1> DEFINE Worked ==
        /\ UNCHANGED <<file, cmdOf, client, resp, br, queue, payload, cancelled,
                       reboots, deaths, begun, kept, refused, ended>>
        /\ mishaps' \in Nat
        /\ shell' \in Shells /\ (shell'.step = "none") = (shell.step = "none")
        /\ orphan' \in [1 .. MaxFaults -> Shells]
  <1>1. Worked
    <2>1. CASE Controller
      <3>1. Works(shell, shell')
        BY <2>1 DEF Controller
      <3>2. shell \in Shells /\ mishaps \in Nat
        BY DEF TypeOK
      <3>2a. shell' \in Shells
        BY <3>1, <3>2 DEF Works, Check, Wait, WaitTimesOut, Becomes, Shells, Steps
      <3>3. shell.step # "none" /\ shell'.step # "none" /\ mishaps' \in Nat
        BY <3>1, <3>2, <3>2a, ControllerTypes
      <3> QED
        BY <2>1, <3>2a, <3>3 DEF Controller, spoolVars, histories, TypeOK
    <2>2. ASSUME NEW d \in 1 .. MaxFaults, OrphanWorks(d)
          PROVE  Worked
      <3>1. PICK next \in Shells :
              Works(orphan[d], next) /\ orphan' = [orphan EXCEPT ![d] = next]
        BY <2>2 DEF OrphanWorks
      <3>2. orphan[d] \in Shells /\ mishaps \in Nat
        BY DEF TypeOK
      <3>3. mishaps' \in Nat
        BY <3>1, <3>2, ControllerTypes
      <3> QED
        BY <2>2, <3>1, <3>3 DEF OrphanWorks, spoolVars, histories, TypeOK
    <2> QED
      BY <2>1, <2>2
  <1>2. Cur' = Cur
    BY <1>1 DEF Cur
  <1>3. TypeOK'
    BY <1>1 DEF TypeOK
  <1> QED
    BY <1>1, <1>2, <1>3
    DEF ListingSound, WrittenOnce, WaitsForFirst, Executing,
        RepeatedOnlyIfKept, OkIsEarned, OwnAnswer

\* The bridge is gone, alone or with the host: what it was executing waits in
\* the spool again, its file kept once more.
LEMMA GoneKeeps ==
  ASSUME SpoolInv, TunTypeOK', Gone, br' \in {"off", "idle"},
         orphan' \in [1 .. MaxFaults -> Shells],
         reboots' \in Nat, deaths' \in Nat,
         client' \in [Requests -> {"idle", "writing", "polling", "done"}],
         \A r \in Requests : client'[r] \in {client[r], "done"},
         \A r \in Requests : client[r] = "idle" => client'[r] = "idle"
  PROVE  SpoolInv'
  <1> USE DEF SpoolInv
  <1>1. /\ queue' = <<>> /\ shell' = NoShell /\ payload' = None
        /\ cancelled' = FALSE
        /\ kept' = [r \in Requests |-> IF Executing(r) THEN kept[r] + 1 ELSE kept[r]]
        /\ UNCHANGED <<file, cmdOf, resp, mishaps, begun, refused, ended>>
    BY DEF Gone
  <1>2. /\ kept' \in [Requests -> Nat]
        /\ \A r \in Requests : kept[r] <= kept'[r]
        /\ \A r \in Requests : Executing(r) => kept'[r] = kept[r] + 1
    BY <1>1 DEF TypeOK
  <1>3. TypeOK'
    <2>1. shell' \in Shells /\ shell'.step = "none" /\ queue' \in Seq(Requests)
      BY <1>1, NoShellIsShell
    <2>2. \A r \in Requests : client'[r] # "idle" => cmdOf'[r] \in Commands
      BY <1>1 DEF TypeOK
    <2> QED
      BY <1>1, <1>2, <2>1, <2>2 DEF TypeOK
  <1>4. ListingSound'
    BY <1>1 DEF ListingSound
  <1>5. WrittenOnce'
    BY <1>1 DEF WrittenOnce
  <1>6. WaitsForFirst' /\ RepeatedOnlyIfKept'
    <2>1. \A r \in Requests : file[r] = "spooled" => begun[r] <= kept'[r]
      BY <1>2 DEF WaitsForFirst, RepeatedOnlyIfKept, TypeOK
    <2>2. \A r \in Requests : begun[r] <= 1 + kept'[r]
      BY <1>2 DEF RepeatedOnlyIfKept, TypeOK
    <2> QED
      BY <1>1, <2>1, <2>2 DEF WaitsForFirst, RepeatedOnlyIfKept
  <1>7. OkIsEarned' /\ OwnAnswer'
    BY <1>1, BridgeAssumption DEF OkIsEarned, OwnAnswer
  <1> QED
    BY <1>3, <1>4, <1>5, <1>6, <1>7

LEMMA BridgeDiesKeeps ==
  ASSUME SpoolInv, TunTypeOK', BridgeDies
  PROVE  SpoolInv'
  <1>0. /\ orphan \in [1 .. MaxFaults -> Shells] /\ shell \in Shells
        /\ deaths \in Nat /\ reboots \in Nat
    BY DEF SpoolInv, TypeOK
  <1>1. /\ orphan' \in [1 .. MaxFaults -> Shells]
        /\ deaths' \in Nat /\ reboots' \in Nat
    <2>1. /\ orphan' = [orphan EXCEPT ![deaths + 1] = shell]
          /\ deaths' = deaths + 1 /\ reboots' = reboots
      BY DEF BridgeDies
    <2>2. orphan' \in [1 .. MaxFaults -> Shells]
      BY <1>0, <2>1, Zenon
    <2> QED
      BY <1>0, <2>1, <2>2
  <1>2. client' = client /\ Gone /\ br' = "off"
    BY DEF BridgeDies
  <1> QED
    BY <1>1, <1>2, GoneKeeps DEF SpoolInv, TypeOK

LEMMA PowerLossKeeps ==
  ASSUME SpoolInv, TunTypeOK', PowerLoss
  PROVE  SpoolInv'
  <1>1. orphan' \in [1 .. MaxFaults -> Shells] /\ deaths' \in Nat /\ reboots' \in Nat
    BY NoShellIsShell DEF PowerLoss, SpoolInv, TypeOK
  <1>2. /\ Gone /\ br' = "idle"
        /\ client' = [r \in Requests |->
             IF client[r] = "idle" THEN "idle" ELSE "done"]
    BY DEF PowerLoss
  <1> QED
    BY <1>1, <1>2, GoneKeeps

LEMMA SpoolStep ==
  ASSUME ServiceInv, SpoolInv, [Next]_vars
  PROVE  SpoolInv'
  <1>1. TunTypeOK'
    BY ServiceStep, BridgeStepIsService DEF ServiceInv
  <1>2. CASE UNCHANGED vars
    BY <1>1, <1>2, BetweenRequestsKeeps DEF vars
  <1>3. ASSUME NEW r \in Requests, Caller(r)
        PROVE  SpoolInv'
    BY <1>1, <1>3, CallerKeeps
  <1>4. CASE Bridge
    BY <1>1, <1>4, DrainKeeps, ReadFailsKeeps, RefuseKeeps, DispatchKeeps,
       AnsweredKeeps, WriteResponseKeeps, RemoveRequestKeeps,
       BetweenRequestsKeeps
    DEF Bridge, ProcessRequest
  <1>5. CASE Manage \/ UNCHANGED bridgeVars
    BY <1>1, <1>5, BetweenRequestsKeeps
  <1>6. CASE Controller \/ \E d \in 1 .. MaxFaults : OrphanWorks(d)
    BY <1>1, <1>6, ControllerKeeps
  <1>7. CASE ServiceDies
    <2>1. /\ UNCHANGED <<file, cmdOf, client, resp, br, queue, shell, orphan,
                         payload, cancelled, reboots, deaths, begun, kept,
                         refused, ended>>
          /\ mishaps' \in Nat
      BY <1>7 DEF ServiceDies, Mishap, spoolVars, histories, SpoolInv, TypeOK
    <2>2. TypeOK'
      BY <1>1, <2>1 DEF SpoolInv, TypeOK
    <2> QED
      BY <2>1, <2>2
      DEF SpoolInv, ListingSound, WrittenOnce, WaitsForFirst, Executing, Cur,
          RepeatedOnlyIfKept, OkIsEarned, OwnAnswer
  <1>8. CASE PowerLoss \/ BridgeDies
    BY <1>1, <1>8, PowerLossKeeps, BridgeDiesKeeps
  <1> QED
    BY <1>2, <1>3, <1>4, <1>5, <1>6, <1>7, <1>8 DEF Next

LEMMA SpoolInvariant == Spec => []SpoolInv
  BY BridgeDrivesService, ServiceInvariant, SpoolStarts, SpoolStep, PTL DEF Spec

\* The state of the callers, of the bridge, of the controllers and of the
\* tunnel service is typed.
THEOREM TypeCorrect == Spec => []TypeOK
  BY SpoolInvariant, PTL DEF SpoolInv

\* However callers, stops, timeouts and deaths fall, a request is executed again
\* only when its file was kept: its removal failed, or the bridge or the host
\* died before the file was gone.
THEOREM ExecutedOncePerFile == Spec => []RepeatedOnlyIfKept
  BY SpoolInvariant, PTL DEF SpoolInv

\* A caller is told ok only about its own request, after it was carried out.
THEOREM AnswersAreOwn == Spec => []OwnAnswer
  BY SpoolInvariant, PTL DEF SpoolInv
=============================================================================
