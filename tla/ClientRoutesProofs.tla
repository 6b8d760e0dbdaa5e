-------------------------- MODULE ClientRoutesProofs --------------------------
(***************************************************************************)
(* Proofs about ClientRoutes, for any gateways and any number of faults:   *)
(* the tunnel's datagrams keep out of the tunnel, every route on the host  *)
(* has somebody who answers for it, and on Linux a client that ends by     *)
(* itself sweeps the host.                                                 *)
(*                                                                         *)
(* The step that needs an invariant is the one where the record is lost:   *)
(* NoRun forgets run.route, so the route must be gone by then (Unpins), and *)
(* a new record must not overwrite an old one (Unrecorded).                *)
(***************************************************************************)
EXTENDS ClientRoutes, TLAPS

LEMMA InitIInv == Init => IInv
  <1> SUFFICES ASSUME Init PROVE IInv
    OBVIOUS
  <1>1. /\ host.gw \in Gateways /\ host.lan = TRUE /\ host.zero \in BOOLEAN
        /\ host.pins = {} /\ host.tun = FALSE /\ host.black = FALSE
    BY DEF Init
  <1>2. host \in Host
    BY DEF Init, Host
  <1>3. run = NoRun
    BY DEF Init
  <1>4. run \in Run
    BY <1>3 DEF Run, NoRun
  <1>5. faults \in 0 .. MaxFaults
    BY RoutesAssumption DEF Init
  <1>6. TypeOK
    BY <1>2, <1>4, <1>5, Zenon DEF Init, TypeOK
  <1> QED
    BY <1>1, <1>3, <1>6
       DEF Init, IInv, NoRun, OnItsWay, LeftBehind, Left, Unrecorded,
           LinuxOne, WindowsV4, Unpins, Linux

\* Steps of the client that leave the host's routes and the record alone.
LEMMA QuietStep ==
  ASSUME IInv, UNCHANGED <<platform, host, flushed, orphans, failed>>,
         NEW pc \in {"none", "tun", "pin", "route", "v6", "shake", "up",
                     "clean", "sweep", "sweep6"},
         run' = [run EXCEPT !.pc = pc],
         faults' \in 0 .. MaxFaults,
         OnItsWay', Unrecorded', WindowsV4', Unpins'
  PROVE  IInv'
  <1>1. TypeOK'
    BY DEF IInv, TypeOK, Run
  <1>2. LeftBehind' /\ LinuxOne'
    BY DEF IInv, TypeOK, Run, LeftBehind, Left, LinuxOne, Linux
  <1> QED
    BY <1>1, <1>2 DEF IInv

LEMMA StartIInv ==
  ASSUME IInv, Start \/ SetupTun
  PROVE  IInv'
  <1>1. PICK pc \in {"none", "tun", "pin"} :
          /\ run.pc \in {"none", "tun"} /\ run' = [run EXCEPT !.pc = pc]
          /\ UNCHANGED <<platform, host, flushed, orphans, failed>>
    BY DEF Start, SetupTun, At, To, HostStays, HistoryStays
  <1>2. faults' \in 0 .. MaxFaults
    BY RoutesAssumption DEF Start, SetupTun, Fault, IInv, TypeOK
  <1>3. run'.pc = pc /\ run'.route = run.route /\ run'.black = run.black
    BY <1>1 DEF IInv, TypeOK, Run
  <1>4. OnItsWay' /\ Unrecorded' /\ WindowsV4' /\ Unpins'
    BY <1>1, <1>3
       DEF IInv, OnItsWay, Unrecorded, WindowsV4, Unpins, Linux
  <1> QED
    BY <1>1, <1>2, <1>4, QuietStep

\* pinServerRoute.
LEMMA PinIInv ==
  ASSUME IInv, Pin
  PROVE  IInv'
  <1>1. PICK g \in Lookup :
          /\ host' = [host EXCEPT !.pins = Pinned(g)]
          /\ run' = [run EXCEPT !.pc = "route", !.route = g]
          /\ Disowned(g)
    BY DEF Pin
  <1>2. /\ run.pc = "pin" /\ run.route = None /\ ~run.black
        /\ UNCHANGED <<platform, faults>>
        /\ flushed' = FALSE
    BY DEF Pin, At, IInv, Unrecorded
  <1>3. /\ host \in Host /\ run \in Run /\ g \in Gateways
        /\ host.pins \subseteq Gateways
    BY DEF IInv, TypeOK, Lookup, Host
  <1>4. /\ run'.pc = "route" /\ run'.route = g /\ run'.black = run.black
        /\ host'.pins = Pinned(g) /\ host'.black = host.black
    BY <1>1, <1>3 DEF Host, Run
  <1>5. g \in Pinned(g) /\ Pinned(g) \subseteq host.pins \cup {g}
    BY DEF Pinned
  <1>6. TypeOK'
    BY <1>1, <1>2, <1>3, <1>5 DEF IInv, TypeOK, Host, Run, Disowned
  <1>7. OnItsWay'
    BY <1>4, <1>5 DEF OnItsWay
  <1>8. LeftBehind'
    BY <1>1, <1>2, <1>3, <1>4, <1>5, RoutesAssumption
       DEF IInv, LeftBehind, Left, Disowned
  <1>9. LinuxOne'
    BY <1>2, <1>4 DEF LinuxOne, Pinned, Linux
  <1>10. Unrecorded' /\ WindowsV4' /\ Unpins'
    BY <1>2, <1>4 DEF IInv, Unrecorded, WindowsV4, Unpins, Linux
  <1> QED
    BY <1>6, <1>7, <1>8, <1>9, <1>10 DEF IInv

\* A run that ends without cleanupTun: somebody ended answers for what is left.
LEMMA AbandonIInv ==
  ASSUME IInv, run' = NoRun, Left(host') \subseteq orphans' \cup failed',
         orphans' \subseteq Gateways \cup {"ipv6"}, failed' \subseteq Gateways,
         host' \in Host,
         ~Linux => ~host'.black,
         Linux => host'.pins = host.pins,
         UNCHANGED <<platform, flushed>>, faults' \in 0 .. MaxFaults
  PROVE  IInv'
  <1>1. TypeOK'
    BY RoutesAssumption DEF IInv, TypeOK, Run, NoRun, Left, Host
  <1>2. LinuxOne'
    BY DEF IInv, LinuxOne, NoRun, Linux
  <1> QED
    BY <1>1, <1>2
       DEF IInv, NoRun, OnItsWay, LeftBehind, Left, Unrecorded, WindowsV4,
           Unpins, Linux

LEMMA PinFailsIInv ==
  ASSUME IInv, PinFails
  PROVE  IInv'
  <1> USE DEF IInv, TypeOK
  <1>1. run.pc = "pin" /\ run.route = None /\ ~run.black
    BY DEF PinFails, At, Unrecorded
  <1>2. ASSUME Lookup = {}, UNCHANGED <<host, faults, orphans>>, Return(Linux),
               UNCHANGED <<platform, flushed>>
        PROVE  IInv'
    <2>1. CASE Linux
      BY <1>1, <1>2, <2>1, QuietStep
         DEF Return, To, Run, OnItsWay, Unrecorded, WindowsV4, Unpins, Linux
    <2>2. CASE ~Linux
      <3>1. failed' = failed \cup (host.pins \cap {None})
        BY <1>1, <1>2, <2>2 DEF Return
      <3>2. failed' \subseteq Gateways /\ run' = NoRun
        BY <1>2, <2>2, <3>1, RoutesAssumption DEF Return, Host
      <3>3. Left(host') \subseteq orphans' \cup failed'
        BY <1>1, <1>2, <3>1, RoutesAssumption DEF LeftBehind, Left, Host
      <3> QED
        BY <1>2, <2>2, <3>2, <3>3, AbandonIInv DEF WindowsV4
    <2> QED
      BY <2>1, <2>2
  <1>3. ASSUME NEW g \in Lookup, Fault, ~Linux,
               host' = [host EXCEPT !.pins = @ \ {g}],
               run' = NoRun, Disowned(g),
               UNCHANGED <<platform, flushed>>
        PROVE  IInv'
    <2>1. /\ host' \in Host /\ host'.black = host.black
          /\ host'.pins = host.pins \ {g}
      BY <1>3 DEF Host
    <2>2. faults' \in 0 .. MaxFaults
      BY <1>3, RoutesAssumption DEF Fault
    <2>3. /\ Left(host') \subseteq orphans' \cup failed'
          /\ orphans' \subseteq Gateways \cup {"ipv6"}
          /\ failed' \subseteq Gateways
      BY <1>1, <1>3, <2>1, RoutesAssumption
         DEF LeftBehind, Left, Disowned, Host, WindowsV4
    <2> QED
      BY <1>3, <2>1, <2>2, <2>3, AbandonIInv DEF WindowsV4
  <1>4. ASSUME NEW g \in Lookup, Fault, Linux, UNCHANGED host,
               run' = [run EXCEPT !.pc = "clean", !.route = g],
               UNCHANGED <<orphans, failed, platform, flushed>>
        PROVE  IInv'
    <2>1. /\ g \in Gateways
          /\ host.pins \subseteq {g}
      BY <1>4 DEF Lookup, Host, LinuxOne
    <2>2. run' \in Run /\ run'.pc = "clean" /\ run'.route = g
          /\ run'.black = run.black
      BY <1>4, <2>1 DEF Run
    <2>3. faults' \in 0 .. MaxFaults
      BY <1>4, RoutesAssumption DEF Fault
    <2>4. LeftBehind' /\ LinuxOne'
      BY <1>1, <1>4, <2>1, <2>2, RoutesAssumption
         DEF LeftBehind, Left, LinuxOne, Linux
    <2> QED
      BY <1>4, <2>2, <2>3, <2>4
         DEF OnItsWay, Unrecorded, WindowsV4, Unpins, Linux
  <1> QED
    BY <1>2, <1>3, <1>4 DEF PinFails

LEMMA DefaultRouteIInv ==
  ASSUME IInv, DefaultRoute
  PROVE  IInv'
  <1>1. /\ run.pc = "route" /\ run \in Run /\ host \in Host
        /\ UNCHANGED <<platform, faults, flushed, orphans, failed>>
    BY DEF DefaultRoute, At, HistoryStays, IInv, TypeOK
  <1>2. /\ host' \in Host
        /\ host'.pins = host.pins /\ host'.black = host.black
    BY <1>1 DEF DefaultRoute, Host
  <1>3. /\ run' \in Run
        /\ run'.pc = IF Linux THEN "v6" ELSE "shake"
        /\ run'.route = run.route /\ run'.black = run.black
    BY <1>1 DEF DefaultRoute, To, Run
  <1>4. TypeOK'
    BY <1>1, <1>2, <1>3 DEF IInv, TypeOK
  <1>5. OnItsWay' /\ LeftBehind' /\ LinuxOne'
    BY <1>1, <1>2, <1>3 DEF IInv, OnItsWay, LeftBehind, Left, LinuxOne, Linux
  <1>6. Unrecorded' /\ WindowsV4' /\ Unpins'
    BY <1>1, <1>2, <1>3
       DEF IInv, TypeOK, Unrecorded, WindowsV4, Unpins, Linux
  <1> QED
    BY <1>4, <1>5, <1>6 DEF IInv

LEMMA DefaultRouteFailsIInv ==
  ASSUME IInv, DefaultRouteFails
  PROVE  IInv'
  <1>1. /\ run.pc = "route" /\ Return(Linux) /\ host' = host
        /\ UNCHANGED <<platform, flushed, orphans>>
        /\ faults' \in 0 .. MaxFaults
    BY RoutesAssumption
       DEF DefaultRouteFails, At, Fault, IInv, TypeOK
  <1>2. CASE Linux
    BY <1>1, <1>2, QuietStep
       DEF Return, To, IInv, TypeOK, Run, OnItsWay, Unrecorded, WindowsV4,
           Unpins, Linux
  <1>3. CASE ~Linux
    <2>1. /\ run' = NoRun
          /\ failed' = failed \cup (host.pins \cap {run.route})
      BY <1>1, <1>3 DEF Return
    <2>2. /\ Left(host') \subseteq orphans' \cup failed'
          /\ failed' \subseteq Gateways
      BY <1>1, <1>3, <2>1, RoutesAssumption
         DEF IInv, TypeOK, LeftBehind, Left, Host, WindowsV4
    <2> QED
      BY <1>1, <1>3, <2>1, <2>2, AbandonIInv DEF IInv, TypeOK, WindowsV4
  <1> QED
    BY <1>2, <1>3

LEMMA BlackholeIInv ==
  ASSUME IInv, Blackhole
  PROVE  IInv'
  <1>1. /\ run.pc = "v6" /\ run \in Run /\ host \in Host /\ Linux
        /\ UNCHANGED <<platform, flushed, orphans, failed>>
    BY DEF Blackhole, At, HistoryStays, IInv, TypeOK, WindowsV4
  <1>2. ASSUME To("shake"), Fault, UNCHANGED host
        PROVE  IInv'
    BY <1>1, <1>2, QuietStep, RoutesAssumption
       DEF Blackhole, To, Fault, IInv, TypeOK, Run, OnItsWay, Unrecorded,
           WindowsV4, Unpins, Linux
  <1>3. ASSUME host' = [host EXCEPT !.black = TRUE],
               run' = [run EXCEPT !.pc = "shake", !.black = TRUE],
               UNCHANGED faults
        PROVE  IInv'
    <2>1. /\ host' \in Host /\ host'.pins = host.pins
          /\ run' \in Run /\ run'.pc = "shake" /\ run'.route = run.route
          /\ run'.black = TRUE
      BY <1>1, <1>3 DEF Host, Run
    <2>2. TypeOK'
      BY <1>1, <1>3, <2>1 DEF IInv, TypeOK
    <2>3. LeftBehind' /\ LinuxOne'
      BY <1>1, <2>1 DEF IInv, LeftBehind, Left, LinuxOne, Linux
    <2> QED
      BY <1>1, <2>1, <2>2, <2>3
         DEF IInv, OnItsWay, Unrecorded, WindowsV4, Unpins, Linux
  <1> QED
    BY <1>2, <1>3 DEF Blackhole

\* The handshake touches no route.
LEMMA HandshakeIInv ==
  ASSUME IInv, HandshakeOK \/ HandshakeFails
  PROVE  IInv'
  <1>1. PICK pc \in {"up", "clean"} :
          /\ run.pc = "shake" /\ run' = [run EXCEPT !.pc = pc]
          /\ UNCHANGED <<platform, host, flushed, orphans, failed>>
    BY DEF HandshakeOK, HandshakeFails, At, To, HostStays, HistoryStays
  <1>2. faults' \in 0 .. MaxFaults
    BY RoutesAssumption DEF HandshakeOK, HandshakeFails, Fault, IInv, TypeOK
  <1>3. run'.pc = pc /\ run'.route = run.route /\ run'.black = run.black
    BY <1>1 DEF IInv, TypeOK, Run
  <1>4. OnItsWay' /\ Unrecorded' /\ WindowsV4' /\ Unpins'
    BY <1>1, <1>3
       DEF IInv, OnItsWay, Unrecorded, WindowsV4, Unpins, Linux
  <1> QED
    BY <1>1, <1>2, <1>4, QuietStep

LEMMA LoopEndsIInv ==
  ASSUME IInv, LoopEnds
  PROVE  IInv'
  <1>1. /\ run \in Run /\ host \in Host /\ run.pc = "up"
        /\ UNCHANGED <<platform, faults, flushed, orphans, failed>>
    BY DEF LoopEnds, At, HistoryStays, IInv, TypeOK
  <1>2. /\ host' \in Host
        /\ host'.pins = host.pins /\ host'.black = host.black
    BY <1>1 DEF LoopEnds, Host
  <1>3. /\ run' \in Run /\ run'.pc = "clean"
        /\ run'.route = run.route /\ run'.black = run.black
    BY <1>1 DEF LoopEnds, To, Run
  <1>4. TypeOK'
    BY <1>1, <1>2, <1>3 DEF IInv, TypeOK
  <1>5. LeftBehind' /\ LinuxOne'
    BY <1>1, <1>2, <1>3 DEF IInv, LeftBehind, Left, LinuxOne, Linux
  <1> QED
    BY <1>1, <1>2, <1>3, <1>4, <1>5
       DEF IInv, OnItsWay, Unrecorded, WindowsV4, Unpins, Linux

LEMMA CloseTunIInv ==
  ASSUME IInv, CloseTun
  PROVE  IInv'
  <1>1. /\ run \in Run /\ host \in Host
        /\ UNCHANGED <<platform, faults, flushed, orphans, failed>>
    BY DEF CloseTun, HistoryStays, IInv, TypeOK
  <1>2. /\ host' \in Host
        /\ host'.pins = host.pins /\ host'.black = host.black
    BY <1>1 DEF CloseTun, Host
  <1>3. CASE Linux /\ run.pc = "clean" /\ To("sweep")
    <2>1. /\ run' \in Run /\ run'.pc = "sweep"
          /\ run'.route = run.route /\ run'.black = run.black
      BY <1>1, <1>3 DEF To, Run
    <2>2. TypeOK'
      BY <1>1, <1>2, <2>1 DEF IInv, TypeOK
    <2>3. LeftBehind' /\ LinuxOne'
      BY <1>1, <1>2, <2>1 DEF IInv, LeftBehind, Left, LinuxOne, Linux
    <2> QED
      BY <1>1, <1>2, <1>3, <2>1, <2>2, <2>3
         DEF IInv, OnItsWay, Unrecorded, WindowsV4, Unpins, Linux
  <1>4. CASE ~Linux /\ run.pc = "sweep" /\ run' = NoRun
    <2>1. /\ run' \in Run /\ run'.pc = "none" /\ run'.route = None
          /\ run'.black = FALSE
      BY <1>4 DEF Run, NoRun
    <2>2. TypeOK'
      BY <1>1, <1>2, <2>1 DEF IInv, TypeOK
    <2>3. Left(host') \subseteq orphans \cup failed
      BY <1>1, <1>2, <1>4, RoutesAssumption
         DEF IInv, LeftBehind, Left, Unpins, WindowsV4, Host
    <2> QED
      BY <1>1, <1>2, <1>4, <2>1, <2>2, <2>3
         DEF IInv, OnItsWay, LeftBehind, Unrecorded, LinuxOne, WindowsV4,
             Unpins, Linux
  <1> QED
    BY <1>3, <1>4 DEF CloseTun, At

LEMMA DeleteRouteIInv ==
  ASSUME IInv, DeleteRoute
  PROVE  IInv'
  <1>1. /\ run \in Run /\ host \in Host
        /\ UNCHANGED <<platform, faults, flushed>>
        /\ orphans' = orphans \ {run.route}
        /\ failed' = failed \ {run.route}
    BY DEF DeleteRoute, Disowned, IInv, TypeOK
  <1>2. /\ host' \in Host
        /\ host'.pins = host.pins \ {run.route} /\ host'.black = host.black
    BY <1>1 DEF DeleteRoute, Host, Unpinned
  <1>3. /\ run' \in Run /\ run'.route = run.route /\ run'.black = run.black
        /\ \/ Linux /\ run'.pc = "sweep6"
           \/ ~Linux /\ run'.pc = "sweep"
    BY <1>1 DEF DeleteRoute, To, Run
  <1>4. TypeOK'
    BY <1>1, <1>2, <1>3 DEF IInv, TypeOK
  <1>5. LeftBehind' /\ LinuxOne'
    BY <1>1, <1>2, <1>3 DEF IInv, LeftBehind, Left, LinuxOne, Linux
  <1> QED
    BY <1>1, <1>2, <1>3, <1>4, <1>5
       DEF IInv, OnItsWay, Unrecorded, WindowsV4, Unpins, Linux

LEMMA DeleteBlackholeIInv ==
  ASSUME IInv, DeleteBlackhole
  PROVE  IInv'
  <1>1. /\ run \in Run /\ host \in Host /\ run.pc = "sweep6" /\ Linux
        /\ UNCHANGED <<platform, faults, flushed, failed>>
        /\ run.route \notin host.pins
    BY DEF DeleteBlackhole, At, IInv, TypeOK, WindowsV4, Unpins
  <1>2. /\ host' \in Host /\ host'.pins = host.pins
        /\ host'.black <=> (host.black /\ ~run.black)
        /\ orphans' = IF run.black THEN orphans \ {"ipv6"} ELSE orphans
    BY <1>1 DEF DeleteBlackhole, Host
  <1>3. /\ run' \in Run /\ run'.pc = "none" /\ run'.route = None
        /\ run'.black = FALSE
    BY DEF DeleteBlackhole, Run, NoRun
  <1>4. TypeOK'
    BY <1>1, <1>2, <1>3 DEF IInv, TypeOK
  <1>5. Left(host') \subseteq orphans' \cup failed'
    <2>1. host.pins \subseteq Gateways /\ run.route \in Gateways \cup {None}
      BY <1>1 DEF Host, Run
    <2>2. Left(host) \subseteq orphans \cup failed \cup {run.route}
                                \cup (IF run.black THEN {"ipv6"} ELSE {})
      BY DEF IInv, LeftBehind
    <2>3. host'.pins \subseteq orphans' \cup failed'
      BY <1>1, <1>2, <2>1, <2>2, RoutesAssumption DEF Left
    <2>4. host'.black => "ipv6" \in orphans'
      BY <1>2, <2>1, <2>2, RoutesAssumption DEF Left, IInv, TypeOK
    <2> QED
      BY <2>3, <2>4 DEF Left
  <1> QED
    BY <1>1, <1>2, <1>3, <1>4, <1>5
       DEF IInv, OnItsWay, LeftBehind, Unrecorded, LinuxOne, WindowsV4,
           Unpins, Linux

LEMMA KillIInv ==
  ASSUME IInv, Kill
  PROVE  IInv'
  <1>1. /\ host' \in Host
        /\ host'.pins = host.pins /\ host'.black = host.black
    BY DEF Kill, IInv, TypeOK, Host
  <1>2. faults' \in 0 .. MaxFaults
    BY RoutesAssumption DEF Kill, Fault, IInv, TypeOK
  <1>3. /\ orphans' = Left(host') \ failed /\ failed' = failed
        /\ run' = NoRun /\ UNCHANGED <<platform, flushed>>
    BY <1>1 DEF Kill, Left
  <1>4. /\ Left(host') \subseteq orphans' \cup failed'
        /\ orphans' \subseteq Gateways \cup {"ipv6"}
        /\ failed' \subseteq Gateways
    BY <1>1, <1>3 DEF Left, Host, IInv, TypeOK
  <1> QED
    BY <1>1, <1>2, <1>3, <1>4, AbandonIInv DEF IInv, WindowsV4

LEMMA MoveIInv ==
  ASSUME IInv, NEW g \in Gateways, Move(g)
  PROVE  IInv'
  <1>1. PICK down \in BOOLEAN :
          /\ host' = [host EXCEPT !.gw = g,
                         !.lan = ~(Linux /\ host.zero /\ host.tun),
                         !.pins = IF down THEN {} ELSE @]
          /\ flushed' = (flushed \/ down)
          /\ orphans' = IF down THEN orphans \ Gateways ELSE orphans
          /\ failed' = IF down THEN {} ELSE failed
    BY DEF Move
  <1>2. /\ host \in Host /\ UNCHANGED <<platform, run>>
        /\ faults' \in 0 .. MaxFaults
    BY RoutesAssumption DEF Move, Fault, IInv, TypeOK
  <1>3. /\ host' \in Host /\ host'.pins = IF down THEN {} ELSE host.pins
        /\ host'.black = host.black
    BY <1>1, <1>2 DEF Host
  <1>4. TypeOK'
    BY <1>1, <1>2, <1>3 DEF IInv, TypeOK
  <1>5. LinuxOne'
    BY <1>2, <1>3 DEF IInv, LinuxOne, Linux
  <1>7. LeftBehind'
    <2>1. CASE ~down
      BY <1>1, <1>2, <1>3, <2>1 DEF IInv, LeftBehind, Left
    <2>2. CASE down
      <3>1. host'.pins = {} /\ orphans' = orphans \ Gateways
        BY <1>1, <1>3, <2>2
      <3>2. host.black => "ipv6" \in orphans \/ run.black
        <4>1. "ipv6" \notin failed /\ run.route # "ipv6"
          BY RoutesAssumption DEF IInv, TypeOK, Run
        <4> QED
          BY <4>1 DEF IInv, LeftBehind, Left
      <3>3. host'.black => "ipv6" \in orphans' \/ run'.black
        BY <1>2, <1>3, <3>1, <3>2, RoutesAssumption
      <3> QED
        BY <3>1, <3>3 DEF LeftBehind, Left
    <2> QED
      BY <2>1, <2>2
  <1>6. OnItsWay'
    BY <1>1, <1>2, <1>3 DEF IInv, OnItsWay
  <1> QED
    BY <1>2, <1>3, <1>4, <1>5, <1>6, <1>7
       DEF IInv, Unrecorded, WindowsV4, Unpins, Linux

LEMMA RebootIInv ==
  ASSUME IInv, Reboot
  PROVE  IInv'
  <1>1. /\ host' \in Host /\ host'.pins = {} /\ host'.black = FALSE
    BY DEF Reboot, IInv, TypeOK, Host
  <1>2. faults' \in 0 .. MaxFaults
    BY RoutesAssumption DEF Reboot, Fault, IInv, TypeOK
  <1>3. /\ run' \in Run /\ run'.pc = "none" /\ run'.route = None
        /\ run'.black = FALSE
    BY DEF Reboot, Run, NoRun
  <1>4. /\ orphans' = {} /\ failed' = {} /\ UNCHANGED <<platform, flushed>>
    BY DEF Reboot
  <1>5. TypeOK'
    BY <1>1, <1>2, <1>3, <1>4 DEF IInv, TypeOK
  <1> QED
    BY <1>1, <1>3, <1>4, <1>5
       DEF IInv, OnItsWay, LeftBehind, Left, Unrecorded, LinuxOne, WindowsV4,
           Unpins, Linux

LEMMA StutterIInv ==
  ASSUME IInv, UNCHANGED vars
  PROVE  IInv'
  BY DEF IInv, vars, TypeOK, OnItsWay, LeftBehind, Left, Unrecorded,
         LinuxOne, WindowsV4, Unpins, Linux

LEMMA StepIInv == IInv /\ [Next]_vars => IInv'
  BY StartIInv, PinIInv, PinFailsIInv, DefaultRouteIInv,
     DefaultRouteFailsIInv, BlackholeIInv, HandshakeIInv, LoopEndsIInv, CloseTunIInv,
     DeleteRouteIInv, DeleteBlackholeIInv, KillIInv, MoveIInv, RebootIInv,
     StutterIInv, Zenon
     DEF Next, Client, Environment

\* The inductive invariant holds for any gateways and any number of faults.
THEOREM InductiveInvariant == Spec => []IInv
  BY InitIInv, StepIInv, PTL DEF Spec

-----------------------------------------------------------------------------
(* What it is for.                                                         *)

\* Routes, records and history stay in their types.
THEOREM TypesAlways == Spec => []TypeOK
  <1>1. IInv => TypeOK
    BY DEF IInv
  <1> QED
    BY <1>1, InductiveInvariant, PTL

\* While the default route goes through the tunnel the server stays pinned to
\* a LAN gateway, whatever fails, is killed or moves, unless the link went down.
THEOREM NeverLoops == Spec => []NoLoop
  <1>1. IInv => NoLoop
    BY DEF IInv, OnItsWay, NoLoop
  <1> QED
    BY <1>1, InductiveInvariant, PTL

\* What is on the host belongs to the running client, was left by one that was
\* killed, or is the route of a Windows client that failed in setupTun.
THEOREM LeftoversExplained == Spec => []LeftBehind
  <1>1. IInv => LeftBehind
    BY DEF IInv
  <1> QED
    BY <1>1, InductiveInvariant, PTL

\* A Linux client that ends in whatever way but a kill leaves no pinned route if
\* it had pinned the server, and no blackhole if it had installed it, its own or
\* an earlier client's (main.go: run, cleanupTun).
THEOREM EndSweepsAll == Spec => SweepsAll
  <1> DEFINE Sweeps ==
        Linux /\ ~At("none") /\ run' = NoRun /\ ~(Kill \/ Reboot) =>
          /\ run.route # None => host'.pins = {}
          /\ run.black => ~host'.black
  <1>1. ASSUME IInv, Next, Linux, ~At("none"), run' = NoRun, ~(Kill \/ Reboot)
        PROVE  DeleteBlackhole \/ SetupTun
    <2>1. run \in Run /\ run'.pc = "none" /\ run.pc # "none"
      BY <1>1 DEF At, IInv, TypeOK, NoRun
    <2>2. ASSUME NEW pc \in {"tun", "pin", "v6", "shake", "up", "clean",
                             "sweep", "sweep6"}, To(pc)
          PROVE  FALSE
      BY <2>1, <2>2 DEF To, Run
    <2>3. ~Pin /\ ~PinFails
      <3>1. ~Pin
        BY <2>1 DEF Pin, Run
      <3>2. ASSUME Return(Linux) PROVE FALSE
        BY <1>1, <2>2, <3>2 DEF Return
      <3>3. ASSUME NEW g, run' = [run EXCEPT !.pc = "clean", !.route = g]
            PROVE  FALSE
        BY <2>1, <3>3 DEF Run
      <3> QED
        BY <1>1, <3>1, <3>2, <3>3 DEF PinFails
    <2>4. ~DefaultRoute /\ ~DefaultRouteFails
      BY <1>1, <2>2 DEF DefaultRoute, DefaultRouteFails, Return
    <2>5. ~Blackhole
      BY <2>1, <2>2 DEF Blackhole, Run
    <2>6. ~HandshakeOK /\ ~HandshakeFails /\ ~LoopEnds /\ ~Start
      BY <2>2 DEF HandshakeOK, HandshakeFails, LoopEnds, Start
    <2>7. ~CloseTun /\ ~DeleteRoute
      BY <1>1, <2>2 DEF CloseTun, DeleteRoute
    <2>8. \A g \in Gateways : ~Move(g)
      BY <2>1 DEF Move
    <2> QED
      BY <1>1, <2>3, <2>4, <2>5, <2>6, <2>7, <2>8
         DEF Next, Client, Environment
  <1>2. ASSUME IInv, DeleteBlackhole
        PROVE  Sweeps
    <2>1. /\ run.pc = "sweep6" /\ Linux /\ host \in Host
          /\ run.route \notin host.pins
      BY <1>2 DEF DeleteBlackhole, At, IInv, TypeOK, WindowsV4, Unpins
    <2>2. /\ host'.pins = host.pins
          /\ host'.black <=> (host.black /\ ~run.black)
      BY <1>2, <2>1 DEF DeleteBlackhole, Host
    <2>3. run.route # None => host.pins = {}
      BY <1>2, <2>1 DEF IInv, LinuxOne
    <2> QED
      BY <2>2, <2>3
  <1>3. ASSUME IInv, SetupTun
        PROVE  Sweeps
    BY <1>3 DEF SetupTun, At, IInv, Unrecorded
  <1>4. ASSUME IInv, UNCHANGED vars, run' = NoRun
        PROVE  At("none")
    BY <1>4 DEF vars, At, NoRun
  <1>5. IInv /\ [Next]_vars => [Sweeps]_vars
    BY <1>1, <1>2, <1>3, <1>4
  <1>6. Spec => [][Sweeps]_vars
    BY <1>5, InductiveInvariant, PTL DEF Spec
  <1> QED
    BY <1>6 DEF SweepsAll
=============================================================================
