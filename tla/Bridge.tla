------------------------------- MODULE Bridge --------------------------------
(***************************************************************************)
(* The app bridge on Windows: callers without privileges (cmd/app-bridge)  *)
(* drop requests into a spool directory, a service (app-bridge-service)    *)
(* drains it one request at a time through the PowerShell controller,      *)
(* which talks to the service manager about the tunnel service, and leaves *)
(* a response per request.  The module adds to TunService the spool, the   *)
(* callers, the drain loop and the controller.                             *)
(*                                                                         *)
(* The bridge's process may die: its controller, a process of its own,     *)
(* goes on without it.  The host may lose its power: every process is      *)
(* gone, the files stay, and both services start again (StartAutomatic).   *)
(***************************************************************************)
EXTENDS TunService, Sequences, FiniteSets

CONSTANTS MaxRequests,   \* bound: calls of cmd/app-bridge
          Commands,      \* what they may ask for
          MaxFaults      \* bound: what may go wrong, listed below

ASSUME BridgeAssumption ==
  /\ MaxRequests \in Nat /\ MaxFaults \in Nat
  /\ None \notin {"ok", "failed"}
  /\ Commands \subseteq {"up", "down", "toggle", "restart", "status", "garbage"}

\* Request n is the n-th that is written.
Requests == 1 .. MaxRequests

\* MaxFaults bounds, together: power losses, deaths of the bridge, and mishaps: a
\* death of the tunnel service, a stop of the bridge, a file that cannot be read,
\* written or removed, a controller that cannot be started, is killed by the
\* command timeout or waits too long.

VARIABLES file,          \* requests/<id>.json: none, tmp, spooled, removed
          cmdOf,         \* its content
          client,        \* the caller: idle, writing, polling, done
          resp,          \* responses/<id>.json
          br,            \* where run is
          queue,         \* what is left of the listing drain works on
          shell,         \* the controller process, and what it is about to do
          orphan,        \* the controllers of bridges that died
          payload,       \* what dispatch returned
          cancelled,     \* the service's context
          reboots, deaths, mishaps,
          begun,         \* history: how often a request's controller started
          kept,          \* history: how often its file outlived the pass that
                         \* was executing or removing it
          refused,       \* history: requests not given to the controller
          ended          \* history: requests whose command ran to its end

bridgeVars == <<file, cmdOf, client, resp, br, queue, shell, orphan, payload,
                cancelled, reboots, deaths, mishaps, begun, kept, refused, ended>>
spoolVars == <<file, cmdOf, client, resp>>
histories == <<begun, kept, refused, ended>>
vars == <<tunVars, bridgeVars>>

Steps == {"none", "check", "stopping", "starting", "ok", "failed"}
Shells == [does : Commands \cup {"up", "down", "none"}, step : Steps]
NoShell == [does |-> "none", step |-> "none"]

Init ==
  /\ TunInit
  /\ file = [r \in Requests |-> "none"]
  /\ cmdOf = [r \in Requests |-> None]
  /\ client = [r \in Requests |-> "idle"]
  /\ resp = [r \in Requests |-> None]
  /\ br = "idle" /\ queue = <<>> /\ shell = NoShell
  /\ orphan = [d \in 1 .. MaxFaults |-> NoShell]
  /\ payload = None /\ cancelled = FALSE
  /\ reboots = 0 /\ deaths = 0 /\ mishaps = 0
  /\ begun = [r \in Requests |-> 0] /\ kept = [r \in Requests |-> 0]
  /\ refused = {} /\ ended = {}

Spooled == {r \in Requests : file[r] = "spooled"}

Faults == reboots + deaths + mishaps
Mishap == Faults < MaxFaults /\ mishaps' = mishaps + 1

-----------------------------------------------------------------------------
\* cmd/app-bridge.

\* writeAtomic: a temporary file, then its rename.
WriteTmp(r) ==
  /\ client[r] = "idle" /\ \A q \in 1 .. r - 1 : client[q] # "idle"
  /\ client' = [client EXCEPT ![r] = "writing"]
  /\ file' = [file EXCEPT ![r] = "tmp"]
  /\ \E c \in Commands : cmdOf' = [cmdOf EXCEPT ![r] = c]
  /\ UNCHANGED resp

Rename(r) ==
  /\ client[r] = "writing"
  /\ client' = [client EXCEPT ![r] = "polling"]
  /\ file' = [file EXCEPT ![r] = "spooled"]
  /\ UNCHANGED <<cmdOf, resp>>

\* The poll finds the response, and removes it if it can; or the deadline
\* passes, and the request stays where it is.
Poll(r) ==
  /\ client[r] = "polling"
  /\ client' = [client EXCEPT ![r] = "done"]
  /\ \/ resp' = [resp EXCEPT ![r] = None]
     \/ UNCHANGED resp
  /\ UNCHANGED <<file, cmdOf>>

Caller(r) ==
  /\ WriteTmp(r) \/ Rename(r) \/ Poll(r)
  /\ UNCHANGED <<tunVars, br, queue, shell, orphan, payload, cancelled,
                 reboots, deaths, mishaps, histories>>

-----------------------------------------------------------------------------
\* cmd/app-bridge-service.

Cur == Head(queue)

\* drain: list the spool, oldest first.
Listing ==
  {s \in [1 .. Cardinality(Spooled) -> Spooled] :
     \A i, j \in DOMAIN s : i < j => s[i] < s[j]}

\* The select of run may take the tick though the context is done.
Drain ==
  /\ br = "idle" /\ Spooled # {}
  /\ queue' \in Listing
  /\ br' = "drain"
  /\ UNCHANGED <<spoolVars, shell, payload, cancelled, mishaps, histories>>

\* drain takes the next one, unless the service is being stopped.
NextRequest ==
  IF Len(queue) > 1 /\ ~cancelled
  THEN br' = "drain" /\ queue' = Tail(queue)
  ELSE br' = "idle" /\ queue' = <<>>

\* Mutation of Removed: a file that was executed stays.
Removed_Kept == UNCHANGED <<file, kept, mishaps>>

\* The file goes, unless its removal fails, which is not looked at.
Removed ==
  \/ /\ file' = [file EXCEPT ![Cur] = "removed"]
     /\ UNCHANGED <<kept, mishaps>>
  \/ /\ Mishap
     /\ kept' = [kept EXCEPT ![Cur] = @ + 1]
     /\ UNCHANGED file

\* processRequest up to dispatch.  A request that cannot be read is removed and
\* not answered; one that cannot be parsed, or for which no controller can be
\* started, the context being done, is answered and not executed.
\* Mutation of Refuse: the refused request is not removed.
ReadFails ==
  /\ br = "drain"
  /\ Faults < MaxFaults /\ mishaps' = mishaps + 1
  /\ file' \in {file, [file EXCEPT ![Cur] = "removed"]}
  /\ kept' = [kept EXCEPT ![Cur] = IF file' = file THEN @ + 1 ELSE @]
  /\ refused' = refused \cup {Cur}
  /\ NextRequest
  /\ UNCHANGED <<cmdOf, client, resp, shell, payload, cancelled, begun, ended>>

Refuse_NotRemoved ==
  /\ br = "drain" /\ (cmdOf[Cur] = "garbage" \/ cancelled)
  /\ resp' = [resp EXCEPT ![Cur] = "failed"]
  /\ refused' = refused \cup {Cur}
  /\ NextRequest
  /\ UNCHANGED <<file, cmdOf, client, shell, payload, cancelled, mishaps, begun,
                 kept, ended>>

Refuse ==
  /\ br = "drain"
  /\ \/ (cmdOf[Cur] = "garbage" \/ cancelled) /\ UNCHANGED mishaps
     \/ Mishap
  /\ br' = "respond" /\ payload' = "failed"
  /\ refused' = refused \cup {Cur}
  /\ UNCHANGED <<spoolVars, queue, shell, cancelled, begun, kept, ended>>

Dispatch ==
  /\ br = "drain" /\ cmdOf[Cur] # "garbage" /\ ~cancelled
  /\ br' = "dispatch"
  /\ shell' = [does |-> cmdOf[Cur], step |-> "check"]
  /\ begun' = [begun EXCEPT ![Cur] = @ + 1]
  /\ UNCHANGED <<spoolVars, queue, payload, cancelled, mishaps,
                 kept, refused, ended>>

ProcessRequest == ReadFails \/ Refuse \/ Dispatch

\* dispatch returns what the controller printed.
Dispatched ==
  /\ br = "dispatch" /\ shell.step \in {"ok", "failed"}
  /\ br' = "respond"
  /\ payload' = shell.step
  /\ shell' = NoShell
  /\ ended' = ended \cup {Cur}
  /\ UNCHANGED <<spoolVars, queue, cancelled, mishaps, begun, kept, refused>>

\* CommandTimeout, or the service's stop, kills the controller where it is.
KillShell ==
  /\ br = "dispatch" /\ shell.step \notin {"ok", "failed"}
  /\ \/ cancelled /\ UNCHANGED mishaps
     \/ Mishap
  /\ br' = "respond" /\ payload' = "failed"
  /\ shell' = NoShell
  /\ UNCHANGED <<spoolVars, queue, cancelled, histories>>

RespondTo_Newest(r) == queue[Len(queue)]
RespondTo(r) == r

\* The response is written, or is not: the error is not looked at.
WriteResponse ==
  /\ br = "respond"
  /\ br' = "remove"
  /\ \/ resp' = [resp EXCEPT ![RespondTo(Cur)] = payload] /\ UNCHANGED mishaps
     \/ Mishap /\ UNCHANGED resp
  /\ payload' = None
  /\ UNCHANGED <<file, cmdOf, client, queue, shell, cancelled, histories>>

\* The request's file goes and the status file is refreshed.
RemoveRequest ==
  /\ br = "remove"
  /\ Removed
  /\ NextRequest
  /\ UNCHANGED <<cmdOf, client, resp, shell, payload, cancelled,
                 begun, refused, ended>>

\* Execute: run returns when it looks at its context.
RunReturns ==
  /\ br = "idle" /\ cancelled
  /\ br' = "off"
  /\ UNCHANGED <<spoolVars, queue, shell, payload, cancelled, mishaps, histories>>

Bridge ==
  /\ \/ Drain \/ ProcessRequest \/ Dispatched \/ KillShell \/ WriteResponse
     \/ RemoveRequest \/ RunReturns
  /\ UNCHANGED <<tunVars, orphan, reboots, deaths>>

\* A response is older than its TTL, which is longer than a caller waits.
CleanupResponses ==
  /\ br = "idle"
  /\ \E r \in Requests :
       /\ resp[r] # None /\ client[r] # "polling"
       /\ resp' = [resp EXCEPT ![r] = None]
  /\ UNCHANGED <<file, cmdOf, client, br, queue, shell, payload, cancelled,
                 mishaps, histories>>

\* A stop cancels the context.
StopBridge ==
  /\ br # "off" /\ ~cancelled /\ Mishap
  /\ cancelled' = TRUE
  /\ UNCHANGED <<spoolVars, br, queue, shell, payload, histories>>

\* Somebody starts the service: nothing does so but a boot.
StartBridge ==
  /\ br = "off"
  /\ br' = "idle" /\ cancelled' = FALSE
  /\ UNCHANGED <<spoolVars, queue, shell, payload, mishaps, histories>>

Manage ==
  /\ CleanupResponses \/ StopBridge \/ StartBridge
  /\ UNCHANGED <<tunVars, orphan, reboots, deaths>>

\* The request drain is at is being executed, answered or removed.
Executing(r) == br \in {"dispatch", "respond", "remove"} /\ r = Cur

\* The process is gone, and what it was doing with it: the files stay.
Gone ==
  /\ queue' = <<>> /\ shell' = NoShell /\ payload' = None /\ cancelled' = FALSE
  /\ kept' = [r \in Requests |-> IF Executing(r) THEN kept[r] + 1 ELSE kept[r]]
  /\ UNCHANGED <<file, cmdOf, resp, mishaps, begun, refused, ended>>

\* The bridge dies alone.  Its controller goes on, and answers nobody.
BridgeDies ==
  /\ br # "off" /\ Faults < MaxFaults
  /\ deaths' = deaths + 1
  /\ orphan' = [orphan EXCEPT ![deaths + 1] = shell]
  /\ br' = "off"
  /\ Gone
  /\ UNCHANGED <<tunVars, client, reboots>>

-----------------------------------------------------------------------------
\* The PowerShell controller: Start-, Stop-, Restart- and Toggle-Tunnel, each
\* step from its state sh to its state next.

Becomes(next, does, step) == next = [does |-> does, step |-> step]

Check(sh, next) ==
  /\ sh.step = "check"
  /\ \/ /\ sh.does = "status"
        /\ Becomes(next, "status", "ok") /\ UNCHANGED tunVars
     \/ /\ sh.does = "toggle"
        /\ Becomes(next, IF scm = "running" THEN "down" ELSE "up", "check")
        /\ UNCHANGED tunVars
     \/ /\ sh.does = "up" /\ scm = "running"
        /\ Becomes(next, "up", "ok") /\ UNCHANGED tunVars
     \/ /\ sh.does = "down" /\ scm # "running"
        /\ Becomes(next, "down", "ok") /\ UNCHANGED tunVars
     \/ /\ sh.does \in {"down", "restart"} /\ StopService
        /\ Becomes(next, sh.does, "stopping")
     \/ /\ sh.does \in {"up", "restart"} /\ StartService
        /\ Becomes(next, sh.does, "starting")
     \/ /\ sh.does \in {"up", "restart"} /\ scm = "startPending"
        /\ Becomes(next, sh.does, "starting") /\ UNCHANGED tunVars
     \/ /\ sh.does \in {"up", "restart"} /\ scm = "stopPending"
        /\ Becomes(next, sh.does, "failed") /\ UNCHANGED tunVars

\* Wait-ServiceState: the state it asked for is there; or it will not come, or
\* came and went again, and 20 seconds pass.
Wait(sh, next) ==
  \/ /\ sh.step = "stopping" /\ scm = "stopped" /\ sh.does = "down"
     /\ Becomes(next, "down", "ok") /\ UNCHANGED tunVars
  \/ /\ sh.step = "stopping" /\ sh.does = "restart" /\ StartService
     /\ Becomes(next, "restart", "starting")
  \/ /\ sh.step = "stopping" /\ scm \in {"running", "startPending"}
     /\ Becomes(next, sh.does, "failed") /\ UNCHANGED tunVars
  \/ /\ sh.step = "starting" /\ scm = "running"
     /\ Becomes(next, sh.does, "ok") /\ UNCHANGED tunVars
  \/ /\ sh.step = "starting" /\ scm \in {"stopped", "stopPending"}
     /\ Becomes(next, sh.does, "failed") /\ UNCHANGED tunVars

\* It would come, and does not within 20 seconds.
WaitTimesOut(sh, next) ==
  /\ sh.step \in {"stopping", "starting"}
  /\ Becomes(next, sh.does, "failed")
  /\ UNCHANGED tunVars

Works(sh, next) ==
  \/ (Check(sh, next) \/ Wait(sh, next)) /\ UNCHANGED mishaps
  \/ WaitTimesOut(sh, next) /\ Mishap

Controller ==
  /\ Works(shell, shell')
  /\ UNCHANGED <<spoolVars, br, queue, orphan, payload, cancelled, reboots,
                 deaths, histories>>

OrphanWorks(d) ==
  /\ \E next \in Shells :
       Works(orphan[d], next) /\ orphan' = [orphan EXCEPT ![d] = next]
  /\ UNCHANGED <<spoolVars, br, queue, shell, payload, cancelled, reboots,
                 deaths, histories>>

-----------------------------------------------------------------------------
PowerLoss ==
  /\ Faults < MaxFaults
  /\ reboots' = reboots + 1
  /\ Reboot
  /\ client' = [r \in Requests |->
       IF client[r] = "idle" THEN "idle" ELSE "done"]
  /\ br' = "idle"
  /\ Gone
  /\ orphan' = [d \in 1 .. MaxFaults |-> NoShell]
  /\ UNCHANGED deaths

ServiceDies ==
  /\ Crash /\ Mishap
  /\ UNCHANGED <<spoolVars, br, queue, shell, orphan, payload, cancelled,
                 reboots, deaths, histories>>

Next ==
  \/ \E r \in Requests : Caller(r)
  \/ Bridge
  \/ Manage
  \/ BridgeDies
  \/ Controller
  \/ \E d \in 1 .. MaxFaults : OrphanWorks(d)
  \/ TunStep /\ UNCHANGED bridgeVars
  \/ ServiceDies \/ PowerLoss

Spec == Init /\ [][Next]_vars

\* Nothing makes anybody start a service again, or a caller call.
FairSpec ==
  /\ Spec
  /\ WF_vars(Bridge) /\ WF_vars(Controller)
  /\ WF_vars(Started /\ UNCHANGED bridgeVars)
  /\ WF_vars(Stopped /\ UNCHANGED bridgeVars)
  /\ WF_vars(Supervise /\ UNCHANGED bridgeVars)
  /\ \A p \in Pids : WF_vars(proc[p] = "killed" /\ Exit(p) /\ UNCHANGED bridgeVars)

-----------------------------------------------------------------------------
\* Typing of the bridge's own state and of the tunnel service's.
TypeOK ==
  /\ TunTypeOK
  /\ file \in [Requests -> {"none", "tmp", "spooled", "removed"}]
  /\ cmdOf \in [Requests -> Commands \cup {None}]
  /\ client \in [Requests -> {"idle", "writing", "polling", "done"}]
  /\ \A r \in Requests : client[r] # "idle" => cmdOf[r] \in Commands
  /\ resp \in [Requests -> {None, "ok", "failed"}]
  /\ br \in {"off", "idle", "drain", "dispatch", "respond", "remove"}
  /\ queue \in Seq(Requests) /\ (br \in {"off", "idle"}) = (queue = <<>>)
  /\ shell \in Shells /\ orphan \in [1 .. MaxFaults -> Shells]
  /\ (br = "dispatch") = (shell.step # "none")
  /\ payload \in {None, "ok", "failed"} /\ (br = "respond") = (payload # None)
  /\ cancelled \in BOOLEAN
  /\ reboots \in Nat /\ deaths \in Nat /\ mishaps \in Nat
  /\ begun \in [Requests -> Nat] /\ kept \in [Requests -> Nat]
  /\ refused \subseteq Requests /\ ended \subseteq Requests

\* A request is executed again only when its file outlived the pass that
\* executed it: its removal failed, or the bridge died or the host lost its
\* power before the file was gone.  A caller that gave up, a stop of the service
\* and a controller killed half-way repeat nothing.
RepeatedOnlyIfKept ==
  \A r \in Requests : begun[r] <= 1 + kept[r]

\* "ok" and "failed" are answers to the caller's own request: a response that
\* says ok is there only for a request whose command ran to its end.
OwnAnswer ==
  \A r \in Requests : resp[r] = "ok" => r \in ended

\* A request that reached the spool, whether or not its caller still waits, is
\* given to a controller or refused, and then its file goes, as long as the
\* bridge runs: after a stop or a death it waits until somebody starts the
\* service.
EveryRequestServed ==
  \A r \in Requests :
    file[r] = "spooled" ~>
      br = "off" \/ (file[r] = "removed" /\ (begun[r] > 0 \/ r \in refused))
=============================================================================
