----------------------------- MODULE ClientRoutes -----------------------------
(***************************************************************************)
(* What a tunnel client run with --route-default does to the routes of its *)
(* host, on Linux (cmd/tun-client/main.go) and Windows (main_windows.go):  *)
(* a host route pins the tunnel server to the LAN gateway, the default     *)
(* route goes through the tunnel, and on Linux a blackhole stops IPv6.     *)
(*                                                                         *)
(* The host outlives the client.  A route through the tunnel's interface   *)
(* goes with the process; the pinned route and the blackhole stay until    *)
(* somebody deletes them, the link goes down or the host reboots.  One     *)
(* client runs at a time (ControlPlane and TunService are about that).     *)
(***************************************************************************)
EXTENDS Integers

CONSTANTS Gateways,      \* LAN gateways
          MaxFaults,     \* bound: kills, moves, reboots and failed calls
          None

ASSUME RoutesAssumption ==
  /\ MaxFaults \in Nat
  /\ None \notin Gateways
  /\ "ipv6" \notin Gateways \cup {None}

VARIABLES platform,
          host,          \* gw: the LAN gateway; lan: a default route via it;
                         \* zero: which has metric 0; pins: gateways the
                         \* server is pinned to; tun: the default route via
                         \* the tunnel; black: the IPv6 blackhole
          run,           \* the client: pc, and the two cleanup records
          faults,
          flushed,       \* history: the link went down since the pin
          orphans,       \* history: what killed clients left on the host,
                         \* and no other has deleted
          failed         \* history: the routes that clients which returned an
                         \* error without cleanupTun left, likewise

vars == <<platform, host, run, faults, flushed, orphans, failed>>

Host == [gw : Gateways, lan : BOOLEAN, zero : BOOLEAN, pins : SUBSET Gateways,
         tun : BOOLEAN, black : BOOLEAN]
Run == [pc : {"none", "tun", "pin", "route", "v6", "shake", "up",
              "clean", "sweep", "sweep6"},
        route : Gateways \cup {None}, black : BOOLEAN]
NoRun == [pc |-> "none", route |-> None, black |-> FALSE]

TypeOK ==
  /\ platform \in {"linux", "windows"}
  /\ host \in Host
  /\ run \in Run
  /\ faults \in 0 .. MaxFaults
  /\ flushed \in BOOLEAN
  /\ orphans \subseteq Gateways \cup {"ipv6"}
  /\ failed \subseteq Gateways

Init ==
  /\ platform \in {"linux", "windows"}
  /\ host \in [gw : Gateways, lan : {TRUE}, zero : BOOLEAN, pins : {{}},
               tun : {FALSE}, black : {FALSE}]
  /\ run = NoRun
  /\ faults = 0
  /\ flushed = FALSE
  /\ orphans = {}
  /\ failed = {}

Linux == platform = "linux"

Fault ==
  /\ faults < MaxFaults
  /\ faults' = faults + 1

-----------------------------------------------------------------------------
(* Bring-up.  On Linux cleanupTun is deferred once the device is there; on *)
(* Windows only after setupTun, whose last steps are the two routes, has   *)
(* returned without an error.                                              *)

At(pc) == run.pc = pc
To(pc) == run' = [run EXCEPT !.pc = pc]
HostStays == UNCHANGED <<platform, host>>
HistoryStays == UNCHANGED <<flushed, orphans, failed>>

\* loadIdentity and the address succeed, or there is no run to speak of.
Start ==
  /\ At("none")
  /\ To("tun")
  /\ HostStays /\ HistoryStays /\ UNCHANGED faults

\* The device and its address; it fails with nothing of the run on the host.
SetupTun ==
  /\ At("tun")
  /\ \/ To("pin") /\ UNCHANGED faults
     \/ To("none") /\ Fault
  /\ HostStays /\ HistoryStays

\* lookupRoute: the kernel's answer is the pinned route, if one is left;
\* bestDefaultRoute looks at default routes only.
Lookup ==
  IF Linux /\ host.pins # {} THEN host.pins
  ELSE IF host.lan THEN {host.gw} ELSE {}

\* Mutation of Pinned: the stale route is deleted after the new one is added.
Pinned_DeletesLast(g) == IF Linux THEN {g} ELSE host.pins \ {g}

\* `ip route replace`, or DeleteRoute of the same route and AddRoute.
Pinned(g) == IF Linux THEN {g} ELSE (host.pins \ {g}) \cup {g}

Left(h) == h.pins \cup (IF h.black THEN {"ipv6"} ELSE {})

\* The route via g is no longer one that an earlier client left: it was deleted,
\* or is the running client's.
Disowned(g) == orphans' = orphans \ {g} /\ failed' = failed \ {g}

\* run returns an error: with cleanupTun deferred, or without it.
Return(deferred) ==
  IF deferred THEN To("clean") /\ UNCHANGED failed
  ELSE run' = NoRun /\ failed' = failed \cup (host'.pins \cap {run.route})

\* pinServerRoute.
Pin ==
  /\ At("pin")
  /\ \E g \in Lookup :
       /\ host' = [host EXCEPT !.pins = Pinned(g)]
       /\ run' = [run EXCEPT !.pc = "route", !.route = g]
       /\ Disowned(g)
  /\ flushed' = FALSE
  /\ UNCHANGED <<platform, faults>>

\* No default route, or the call that adds the route fails: the record is
\* there, the route is not.
PinFails ==
  /\ At("pin")
  /\ \/ /\ Lookup = {}
        /\ UNCHANGED <<host, faults, orphans>>
        /\ Return(Linux)
     \/ \E g \in Lookup :
          /\ Fault
          /\ host' = IF Linux THEN host
                     ELSE [host EXCEPT !.pins = @ \ {g}]
          /\ IF Linux
             THEN /\ run' = [run EXCEPT !.pc = "clean", !.route = g]
                  /\ UNCHANGED <<orphans, failed>>
             ELSE run' = NoRun /\ Disowned(g)
  /\ UNCHANGED <<platform, flushed>>

\* The default route via the tunnel.  `ip route replace` has metric 0 and
\* takes the place of a LAN default of that metric.
DefaultRoute ==
  /\ At("route")
  /\ host' = [host EXCEPT !.tun = TRUE, !.lan = @ /\ ~(Linux /\ host.zero)]
  /\ To(IF Linux THEN "v6" ELSE "shake")
  /\ UNCHANGED <<platform, faults>> /\ HistoryStays

\* It fails, on Windows ten times in a row.
DefaultRouteFails ==
  /\ At("route")
  /\ Fault
  /\ UNCHANGED host
  /\ Return(Linux)
  /\ UNCHANGED <<platform, flushed, orphans>>

\* The IPv6 blackhole; its failure is only logged.
Blackhole ==
  /\ At("v6")
  /\ \/ /\ host' = [host EXCEPT !.black = TRUE]
        /\ run' = [run EXCEPT !.pc = "shake", !.black = TRUE]
        /\ UNCHANGED faults
     \/ /\ To("shake")
        /\ Fault
        /\ UNCHANGED host
  /\ UNCHANGED platform /\ HistoryStays

-----------------------------------------------------------------------------
(* The tunnel.                                                             *)

\* A datagram for the server takes a host route before any default route,
\* whichever if there are several, and the tunnel's default before the LAN's.
Path(g) ==
  IF host.pins # {} THEN g \in host.pins
  ELSE ~host.tun /\ host.lan /\ g = host.gw

\* msg A and msg B found their way.
HandshakeOK ==
  /\ At("shake")
  /\ Path(host.gw)
  /\ To("up")
  /\ HostStays /\ HistoryStays /\ UNCHANGED faults

\* msg B does not come in time: there is a path that leads nowhere, or none,
\* or the server does not answer.
HandshakeFails ==
  /\ At("shake")
  /\ \/ (\E g \in Gateways \ {host.gw} : Path(g)) /\ UNCHANGED faults
     \/ (\A g \in Gateways : ~Path(g)) /\ UNCHANGED faults
     \/ Fault
  /\ To("clean")
  /\ HostStays /\ HistoryStays

\* A signal, which closes the device at once, or an error of either loop.
LoopEnds ==
  /\ At("up")
  /\ To("clean")
  /\ host' \in {host, [host EXCEPT !.tun = FALSE]}
  /\ HistoryStays /\ UNCHANGED <<platform, faults>>

-----------------------------------------------------------------------------
(* cleanupTun: the device first on Linux, the pinned route first on        *)
(* Windows.                                                                *)

CloseTun ==
  /\ \/ Linux /\ At("clean") /\ To("sweep")
     \/ ~Linux /\ At("sweep") /\ run' = NoRun
  /\ host' = [host EXCEPT !.tun = FALSE]
  /\ UNCHANGED <<platform, faults>> /\ HistoryStays

\* Mutation of Unpinned: the route is deleted via the gateway of the day.
Unpinned_ViaNow == host.pins \ {host.gw}

Unpinned == host.pins \ {run.route}

DeleteRoute ==
  /\ \/ Linux /\ At("sweep") /\ To("sweep6")
     \/ ~Linux /\ At("clean") /\ To("sweep")
  /\ host' = [host EXCEPT !.pins = Unpinned]
  /\ Disowned(run.route)
  /\ UNCHANGED <<platform, faults, flushed>>

\* Mutation of DeleteBlackhole: the blackhole stays.
DeleteBlackhole_Skipped ==
  /\ At("sweep6")
  /\ run' = NoRun
  /\ HostStays /\ HistoryStays /\ UNCHANGED faults

DeleteBlackhole ==
  /\ At("sweep6")
  /\ run' = NoRun
  /\ host' = [host EXCEPT !.black = @ /\ ~run.black]
  /\ orphans' = IF run.black THEN orphans \ {"ipv6"} ELSE orphans
  /\ UNCHANGED <<platform, faults, flushed, failed>>

-----------------------------------------------------------------------------
(* The host.                                                               *)

\* The process is killed; on Windows the service that supervises it always
\* ends it this way.
Kill ==
  /\ ~At("none")
  /\ Fault
  /\ host' = [host EXCEPT !.tun = FALSE]
  /\ run' = NoRun
  /\ orphans' = Left(host) \ failed
  /\ UNCHANGED <<platform, flushed, failed>>

\* The host comes to another LAN.  The link went down on the way, and the
\* routes over it with it, or stayed up.  The LAN's default route is installed
\* anew, unless the tunnel's has its metric.
Move(g) ==
  /\ g # host.gw
  /\ Fault
  /\ \E down \in BOOLEAN :
       /\ host' = [host EXCEPT !.gw = g, !.lan = ~(Linux /\ host.zero /\ host.tun),
                     !.pins = IF down THEN {} ELSE @]
       /\ flushed' = (flushed \/ down)
       /\ orphans' = IF down THEN orphans \ Gateways ELSE orphans
       /\ failed' = IF down THEN {} ELSE failed
  /\ UNCHANGED <<platform, run>>

Reboot ==
  /\ Fault
  /\ host' = [host EXCEPT !.lan = TRUE, !.pins = {}, !.tun = FALSE,
                !.black = FALSE]
  /\ run' = NoRun
  /\ orphans' = {}
  /\ failed' = {}
  /\ UNCHANGED <<platform, flushed>>

Client ==
  \/ SetupTun
  \/ Pin \/ PinFails
  \/ DefaultRoute \/ DefaultRouteFails
  \/ Blackhole
  \/ HandshakeOK \/ HandshakeFails
  \/ CloseTun \/ DeleteRoute \/ DeleteBlackhole

Environment == Start \/ LoopEnds \/ Kill \/ Reboot \/ \E g \in Gateways : Move(g)

Next == Client \/ Environment

Spec == Init /\ [][Next]_vars

\* A client that runs makes its next step, a read of msg B included, which
\* has a deadline.  Nobody has to start one.
FairSpec == Spec /\ WF_vars(Client)

-----------------------------------------------------------------------------
(* Properties.                                                             *)

\* While the default route goes through the tunnel, the tunnel's own datagrams
\* do not go into it, unless the link went down since the server was pinned:
\* nobody pins it again.
NoLoop ==
  host.tun /\ run.pc \in {"v6", "shake", "up"} => host.pins # {} \/ flushed

\* Whatever is on the host belongs to the client that runs, which will delete
\* it, or was left by one that was killed, or is the route of a Windows client
\* that failed in setupTun: also when the host moved since, and when a client
\* found its route there.
LeftBehind ==
  Left(host) \subseteq orphans \cup failed \cup {run.route}
                             \cup (IF run.black THEN {"ipv6"} ELSE {})

\* "Record cleanup state BEFORE AddRoute so a crash in any later step still
\* triggers DeleteRoute" (pinServerRoute on Windows): a client that failed, and
\* was not killed, has left no route of its own.
FailureUnpins == failed = {}

\* A Linux client that pinned the server leaves no pinned route at all, and one
\* that installed the blackhole none, however it ends, if it is not killed: also
\* when an earlier client had left them.  What it did not come to install it does
\* not delete.
SweepsAll ==
  [][Linux /\ ~At("none") /\ run' = NoRun /\ ~(Kill \/ Reboot) =>
       /\ run.route # None => host'.pins = {}
       /\ run.black => ~host'.black]_vars

\* A host that cannot connect however often the client is started.  On Linux it
\* has no default route left: a client replaced it and cleanupTun restores none.
\* On Windows a route pinned to another LAN's gateway is in the way: a client
\* deletes only the route it is about to add.
Blocked ==
  IF Linux THEN ~host.lan /\ host.pins = {}
  ELSE \E g \in host.pins : g # host.gw

\* A client that is started over and over connects, whatever an earlier one
\* left and wherever the host moved, unless the host is blocked.
Reconnects == []<>At("tun") => []<>(At("up") \/ Blocked)

-----------------------------------------------------------------------------
(* The inductive invariant.                                                *)

OnItsWay == run.pc \in {"route", "v6", "shake", "up"} =>
  host.pins # {} \/ flushed

Unrecorded == run.pc \in {"none", "tun", "pin"} =>
  run.route = None /\ ~run.black

\* Linux keeps one host route, and the record is of it.
LinuxOne == Linux =>
  /\ \A g, h \in host.pins : g = h
  /\ run.route # None => host.pins \subseteq {run.route}

WindowsV4 == ~Linux =>
  ~host.black /\ ~run.black /\ run.pc \notin {"v6", "sweep6"}

Unpins == run.pc = "sweep6" \/ (~Linux /\ run.pc = "sweep") =>
  run.route \notin host.pins

IInv ==
  /\ TypeOK
  /\ OnItsWay
  /\ LeftBehind
  /\ Unrecorded
  /\ LinuxOne
  /\ WindowsV4
  /\ Unpins
=============================================================================
