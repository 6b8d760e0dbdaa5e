---------------------------- MODULE ControlPlane -----------------------------
(***************************************************************************)
(* The control plane's supervision of the tunnel client on a desktop       *)
(* (control-plane/daemon.js): POST /v1/connect spawns a child,             *)
(* /v1/disconnect signals it, and the child's 'exit' and 'error' events    *)
(* are handled when the event loop gets to them.  A handler runs without   *)
(* interruption between two awaits; connect awaits the body of its request *)
(* after it has checked that nothing is connected.                         *)
(*                                                                         *)
(* What the daemon knows is kept twice: in `active`, and in a state file   *)
(* that outlives it.  systemd restarts a daemon that died and kills the    *)
(* children it left (both units use the default KillMode).  A process id   *)
(* that is free may be given to any process of the host.                   *)
(***************************************************************************)
EXTENDS Integers

CONSTANTS MaxProcessIds, \* bound: process ids; one is used again
          MaxWaiting,    \* bound: connect requests in flight at once, and
                         \* failed spawns whose event is pending
          Null

ASSUME DaemonAssumption == MaxProcessIds \in Nat /\ MaxWaiting \in Nat
ASSUME NullAssumption ==
  /\ Null \notin Nat
  /\ Null \notin [pid : Nat \cup {Null}]

ProcessIds == 1 .. MaxProcessIds

VARIABLES active,        \* the child in memory: Null or [pid]
          state,         \* state.json: connected, pid
          procs,         \* per pid, what the operating system knows
          failed,        \* failed spawns whose 'error' is pending
          waiting        \* connects that passed the check and await the body

daemonVars == <<active, state, procs, failed, waiting>>

\* "dead" is a child that has exited while its 'exit' event is pending: a
\* zombie, which kill(pid, 0) still finds; "other" is a process that is no child
\* of the daemon.
ProcStates == {"free", "running", "signalled", "dead", "other"}
Disconnected == [connected |-> FALSE, pid |-> Null]

DaemonTypeOK ==
  /\ active \in [pid : ProcessIds \cup {Null}] \cup {Null}
  /\ state \in [connected : BOOLEAN, pid : ProcessIds \cup {Null}]
  /\ procs \in [ProcessIds -> ProcStates]
  /\ failed \in 0 .. MaxWaiting
  /\ waiting \in 0 .. MaxWaiting

DaemonInit ==
  /\ active = Null
  /\ state = Disconnected
  /\ procs = [p \in ProcessIds |-> "free"]
  /\ failed = 0
  /\ waiting = 0

Tunnels == {p \in ProcessIds : procs[p] \in {"running", "signalled"}}

-----------------------------------------------------------------------------
\* isPidAlive.
Alive(pid) == pid # Null /\ procs[pid] # "free"

\* status: the pid in memory, else the one in the file.
KnownPid ==
  IF active # Null /\ active.pid # Null THEN active.pid ELSE state.pid
Connected == state.connected /\ Alive(KnownPid)

\* Its side effect: a file that says connected while nothing lives is reset.
Reconciled == IF state.connected /\ ~Connected THEN Disconnected ELSE state

\* GET /v1/status, and a connect that is refused with 409.
Status ==
  /\ state' = Reconciled
  /\ UNCHANGED <<active, procs, failed, waiting>>

\* Mutation: only the file is asked.
ConnectCheck_FileOnly ==
  /\ waiting < MaxWaiting
  /\ ~Connected
  /\ state' = Reconciled
  /\ waiting' = waiting + 1
  /\ UNCHANGED <<active, procs, failed>>

\* POST /v1/connect up to its await.
ConnectCheck ==
  /\ waiting < MaxWaiting
  /\ active = Null /\ ~Connected
  /\ state' = Reconciled
  /\ waiting' = waiting + 1
  /\ UNCHANGED <<active, procs, failed>>

\* Mutation: the file is written before the child has a pid.
Spawn_FileFirst ==
  /\ waiting > 0
  /\ \E p \in ProcessIds :
       /\ procs[p] = "free"
       /\ procs' = [procs EXCEPT ![p] = "running"]
       /\ active' = [pid |-> p]
  /\ state' = [connected |-> TRUE, pid |-> Null]
  /\ waiting' = waiting - 1
  /\ UNCHANGED failed

\* The body arrives: startProfile spawns the child and records it.
Spawn ==
  /\ waiting > 0
  /\ \E p \in ProcessIds :
       /\ procs[p] = "free"
       /\ procs' = [procs EXCEPT ![p] = "running"]
       /\ active' = [pid |-> p]
       /\ state' = [connected |-> TRUE, pid |-> p]
  /\ waiting' = waiting - 1
  /\ UNCHANGED failed

\* The program cannot be run: the child has no pid, 'error' comes later.
SpawnFails ==
  /\ waiting > 0
  /\ failed < MaxWaiting
  /\ active' = [pid |-> Null]
  /\ state' = [connected |-> TRUE, pid |-> Null]
  /\ failed' = failed + 1
  /\ waiting' = waiting - 1
  /\ UNCHANGED procs

\* The body is malformed, or there is neither a pairing nor such a profile.
ConnectFails ==
  /\ waiting > 0
  /\ waiting' = waiting - 1
  /\ UNCHANGED <<active, state, procs, failed>>

Forget == active' = Null /\ state' = Disconnected

ErrorEvent ==
  /\ failed > 0
  /\ failed' = failed - 1
  /\ Forget
  /\ UNCHANGED <<procs, waiting>>

\* The child ends, by itself or because it was signalled.
Dies(p) ==
  /\ p \in Tunnels
  /\ procs' = [procs EXCEPT ![p] = "dead"]
  /\ UNCHANGED <<active, state, failed, waiting>>

\* Mutation: the handler resets the file only.
ExitEvent_KeepsActive(p) ==
  /\ procs[p] = "dead"
  /\ procs' = [procs EXCEPT ![p] = "free"]
  /\ state' = Disconnected
  /\ UNCHANGED <<active, failed, waiting>>

\* 'exit' forgets the active child, whichever child it was that exited.
ExitEvent(p) ==
  /\ procs[p] = "dead"
  /\ procs' = [procs EXCEPT ![p] = "free"]
  /\ Forget
  /\ UNCHANGED <<failed, waiting>>

Signalled(pid) ==
  IF pid # Null /\ procs[pid] = "running"
  THEN [procs EXCEPT ![pid] = "signalled"] ELSE procs

\* stopActive: the child in memory, else whatever has the pid in the file, is
\* signalled (a stranger may end, or not: Other); a file that says connected
\* without either is reset.
Disconnect ==
  /\ \/ active # Null /\ procs' = Signalled(active.pid) /\ UNCHANGED state
     \/ /\ active = Null
        /\ procs' = Signalled(state.pid)
        /\ state' = IF state.connected /\ ~Alive(state.pid)
                    THEN Disconnected ELSE state
  /\ UNCHANGED <<active, failed, waiting>>

\* The daemon dies and is started again.
Restart ==
  /\ procs' = [p \in ProcessIds |-> IF procs[p] = "other" THEN "other" ELSE "free"]
  /\ active' = Null
  /\ failed' = 0
  /\ waiting' = 0
  /\ UNCHANGED state

\* Another process of the host begins or ends.
Other(p) ==
  /\ \/ procs[p] = "free" /\ procs' = [procs EXCEPT ![p] = "other"]
     \/ procs[p] = "other" /\ procs' = [procs EXCEPT ![p] = "free"]
  /\ UNCHANGED <<active, state, failed, waiting>>

Connect == ConnectCheck \/ Spawn \/ SpawnFails \/ ConnectFails
Events == ErrorEvent \/ \E p \in ProcessIds : Dies(p) \/ ExitEvent(p)
DaemonNext ==
  \/ Status \/ Connect \/ Disconnect \/ Events \/ Restart
  \/ \E p \in ProcessIds : Other(p)

DaemonSpec == DaemonInit /\ [][DaemonNext]_daemonVars

\* A child that was signalled exits; a pending event is handled.
DaemonFairSpec ==
  /\ DaemonSpec
  /\ WF_daemonVars(ErrorEvent)
  /\ \A p \in ProcessIds :
       WF_daemonVars(procs[p] = "signalled" /\ Dies(p)) /\ WF_daemonVars(ExitEvent(p))

-----------------------------------------------------------------------------
(* Properties.                                                             *)

\* At most one tunnel client runs ("Already connected" otherwise): two would
\* fight for the TUN device and the default route.
OneTunnel == \A p, q \in Tunnels : p = q

\* A running tunnel is the one in memory, which disconnect signals, and the one
\* in the file, which status reports.
TunnelIsTracked ==
  \A p \in Tunnels :
    active = [pid |-> p] /\ state = [connected |-> TRUE, pid |-> p]

\* Callers that take turns: one connect at most is between its check and its
\* spawn.  Nothing in the daemon makes them.
OneAtATime == waiting <= 1

\* To callers that take turns the daemon keeps both promises, in whatever order
\* its child's events come: an exit of an earlier child, a failed spawn, a
\* restart.
TurnsGiveOneTunnel == []OneAtATime => []OneTunnel
TurnsKeepTrack == []OneAtATime => []TunnelIsTracked

\* A child that was signalled is forgotten in memory, and status no longer
\* reports it: no disconnect leaves "connected" behind.
DisconnectTakesEffect ==
  \A p \in ProcessIds :
    procs[p] = "signalled" ~> active # [pid |-> p] /\ ~(Connected /\ KnownPid = p)
=============================================================================
