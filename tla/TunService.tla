----------------------------- MODULE TunService ------------------------------
(***************************************************************************)
(* The Windows tunnel service (cmd/tun-service): a service process whose   *)
(* supervisor keeps one tunnel client running, kills it when the service   *)
(* is stopped and starts it again when it ends.                            *)
(*                                                                         *)
(* TerminateProcess only asks for the end of a process, and nothing ties   *)
(* a child to the life of the service: a child whose service dies runs on. *)
(***************************************************************************)
EXTENDS Integers

CONSTANTS MaxPids,       \* bound: process ids; an id is used again
          None

ASSUME TunServiceAssumption ==
  /\ MaxPids \in Nat
  /\ None \notin Nat

Pids == 1 .. MaxPids

VARIABLES scm,           \* the service's state, as the service manager has it
          stopCh,        \* closed by stopSupervisor
          sup,           \* where supervise is
          cmd,           \* the child in hand; s.cmd once its pid is on file
          pidFile,       \* what the pid file names; None: there is no file
          proc,          \* the tunnel clients, as Windows has them
          strays,        \* history: clients a dead service left running
          leftover       \* history: the file was there when a service died, or
                         \* its removal or its writing failed since

tunVars == <<scm, stopCh, sup, cmd, pidFile, proc, strays, leftover>>

\* An empty pid file, or one with the first digits of a pid.
Torn == 0

TunInit ==
  /\ scm = "stopped"
  /\ stopCh = FALSE
  /\ sup = "off"
  /\ cmd = None
  /\ pidFile = None
  /\ proc = [p \in Pids |-> "none"]
  /\ strays = {}
  /\ leftover = FALSE

Running == {p \in Pids : proc[p] = "running"}
Kill_Ignored(p) == proc
Kill(p) == [proc EXCEPT ![p] = IF @ = "running" THEN "killed" ELSE @]

-----------------------------------------------------------------------------
\* The service manager and Execute.

\* The process is created and has not reported yet.
StartService ==
  /\ scm = "stopped"
  /\ scm' = "startPending"
  /\ UNCHANGED <<stopCh, sup, cmd, pidFile, proc, strays, leftover>>

\* startSupervisor.
Started ==
  /\ scm = "startPending"
  /\ scm' = "running"
  /\ sup' = "loop"
  /\ UNCHANGED <<stopCh, cmd, pidFile, proc, strays, leftover>>

\* stopSupervisor up to its wait for doneCh.
StopService ==
  /\ scm = "running"
  /\ scm' = "stopPending"
  /\ stopCh' = TRUE
  /\ UNCHANGED <<sup, cmd, pidFile, proc, strays, leftover>>

Stopped ==
  /\ sup = "done"
  /\ scm' = "stopped"
  /\ sup' = "off" /\ stopCh' = FALSE
  /\ UNCHANGED <<cmd, pidFile, proc, strays, leftover>>

-----------------------------------------------------------------------------
\* supervise.

SuperviseTop ==
  /\ sup = "loop"
  /\ \/ /\ stopCh
        /\ sup' = "done"
        /\ UNCHANGED <<cmd, proc>>
     \/ /\ ~stopCh
        /\ sup' = "pidfile"
        /\ \E p \in Pids :
             /\ proc[p] = "none" /\ \A q \in 1 .. p - 1 : proc[q] # "none"
             /\ cmd' = p
             /\ proc' = [proc EXCEPT ![p] = "running"]
     \/ /\ ~stopCh                      \* the log or the client does not open
        /\ sup' = "sleep"
        /\ UNCHANGED <<cmd, proc>>
  /\ UNCHANGED <<scm, stopCh, pidFile, strays, leftover>>

\* The pid file cannot be written, though what was written may stay: the child
\* is killed and not waited for.
AbandonChild_Running == proc
AbandonChild == Kill(cmd)

StartChild ==
  /\ sup = "pidfile"
  /\ \/ /\ sup' = "watch"
        /\ pidFile' = cmd /\ leftover' = FALSE
        /\ UNCHANGED <<cmd, proc>>
     \/ /\ sup' = "sleep"
        /\ proc' = AbandonChild
        /\ cmd' = None
        /\ pidFile' \in {pidFile, Torn, cmd}
        /\ leftover' = (pidFile' # None)
  /\ UNCHANGED <<scm, stopCh, strays>>

\* Mutation: the pid file is not removed.
ClearChild_LeavesFile == cmd' = None /\ UNCHANGED <<pidFile, leftover>>

\* Whether the file could be removed is not looked at.
ClearChild ==
  /\ cmd' = None
  /\ \/ pidFile' = None /\ leftover' = FALSE
     \/ leftover' = TRUE /\ UNCHANGED pidFile

\* Both cases of the select may be ready.
Watch ==
  /\ sup = "watch"
  /\ \/ /\ stopCh
        /\ proc' = Kill(cmd)
        /\ sup' = "reap"
        /\ UNCHANGED <<cmd, pidFile, leftover>>
     \/ /\ proc[cmd] = "none"
        /\ ClearChild
        /\ sup' = "sleep"
        /\ UNCHANGED proc
  /\ UNCHANGED <<scm, stopCh, strays>>

Reap ==
  /\ sup = "reap"
  /\ proc[cmd] = "none"
  /\ ClearChild
  /\ sup' = "done"
  /\ UNCHANGED <<scm, stopCh, proc, strays>>

\* sleepOrStop.
SleepOrStop ==
  /\ sup = "sleep"
  /\ sup' \in {"loop"} \cup (IF stopCh THEN {"done"} ELSE {})
  /\ UNCHANGED <<scm, stopCh, cmd, pidFile, proc, strays, leftover>>

Supervise == SuperviseTop \/ StartChild \/ Watch \/ Reap \/ SleepOrStop

-----------------------------------------------------------------------------
\* The child ends, of itself or because it was killed.
Exit(p) ==
  /\ proc[p] \in {"running", "killed"}
  /\ proc' = [proc EXCEPT ![p] = "none"]
  /\ strays' = strays \ {p}
  /\ UNCHANGED <<scm, stopCh, sup, cmd, pidFile, leftover>>

\* The service process dies.  Nothing restarts it.
Crash ==
  /\ sup # "off"
  /\ scm' = "stopped"
  /\ sup' = "off" /\ stopCh' = FALSE
  /\ cmd' = None
  /\ strays' = strays \cup Running
  /\ leftover' = (pidFile # None)
  /\ UNCHANGED <<pidFile, proc>>

\* The host loses its power: the pid file stays, and the service starts again
\* (it is StartAutomatic).
Reboot ==
  /\ scm' = "startPending"
  /\ sup' = "off" /\ stopCh' = FALSE
  /\ cmd' = None
  /\ proc' = [p \in Pids |-> "none"] /\ strays' = {}
  /\ leftover' = (pidFile # None)
  /\ UNCHANGED pidFile

TunStep == Started \/ Stopped \/ Supervise \/ \E p \in Pids : Exit(p)

\* Whoever may asks the service manager for a start or a stop.
TunNext == TunStep \/ StartService \/ StopService \/ Crash \/ Reboot

TunSpec == TunInit /\ [][TunNext]_tunVars

\* The service's own steps, and the end of a child that was killed.
TunFairSpec ==
  /\ TunSpec
  /\ WF_tunVars(Started) /\ WF_tunVars(Stopped) /\ WF_tunVars(Supervise)
  /\ \A p \in Pids : WF_tunVars(proc[p] = "killed" /\ Exit(p))

-----------------------------------------------------------------------------
TunTypeOK ==
  /\ scm \in {"stopped", "startPending", "running", "stopPending"}
  /\ stopCh \in BOOLEAN
  /\ sup \in {"off", "loop", "pidfile", "watch", "reap", "sleep", "done"}
  /\ cmd \in Pids \cup {None}
  /\ pidFile \in Pids \cup {None, Torn}
  /\ proc \in [Pids -> {"none", "running", "killed"}]
  /\ strays \subseteq Pids
  /\ leftover \in BOOLEAN

\* The clients that run are the one the supervisor has in hand and those a
\* crash left behind: a stopped service has none of its own, whatever failed
\* while one was started, and never are there two.
OneOwnChild ==
  \A p \in Running \ strays :
    sup \in {"pidfile", "watch", "reap"} /\ p = cmd

\* The pid file is what the controller finds the tunnel by: while the
\* supervisor watches a child the file names it, whatever was there before, and
\* a file without such a child was left by a service that died, or by a removal
\* or a writing that failed.
PidFileNamesChild ==
  /\ sup \in {"watch", "reap"} => pidFile = cmd
  /\ pidFile # None /\ sup \notin {"watch", "reap"} => leftover

\* A stop that was accepted ends, however the child takes its end.
StopCompletes == scm = "stopPending" ~> scm # "stopPending"
=============================================================================
