----------------------------- MODULE TunServer ------------------------------
(***************************************************************************)
(* The tunnel server (cmd/tun-server/main.go): one goroutine reads the UDP *)
(* socket, one reads the TUN device, one refreshes the allowlist.  They    *)
(* share the session table and nothing else.  The UDP loop handles one     *)
(* datagram at a time; a handshake crosses the table's lock three times,   *)
(* and the TUN loop looks an entry up in one critical section and uses it  *)
(* after leaving it, so the two interleave at those points.                *)
(*                                                                         *)
(* The network is the environment: a first handshake message of any client *)
(* may arrive from any endpoint at any time (also a repeated or late one), *)
(* and so may a transport frame of any session.  Datagrams that are        *)
(* malformed, of the wrong version or type, or that fail to authenticate   *)
(* are dropped before anything changes.                                    *)
(***************************************************************************)
EXTENDS SessionTable

CONSTANTS V4,            \* the inner addresses that are IPv4
          Sources        \* Sources[p]: inner source addresses p's host uses

ASSUME AddressAssumption ==
  /\ V4 \subseteq IPs
  /\ Sources \in [Peers -> SUBSET IPs]

VARIABLES enrolled,      \* users.noise_public_key, written by the web side
          allow,         \* the allowlist snapshot of this process
          udp,           \* the UDP loop: where it is and its locals
          tun,           \* the TUN loop: where it is and the entry it holds
          next,          \* the next responder session to be made
          seen,          \* history: last IPv4 source decoded per entry
          shared,        \* history: entries whose address another live one
                         \* was bound to as well since they were bound to it
          stale          \* history: packets sealed per entry once evicted

vars == <<table, enrolled, allow, udp, tun, next, seen, shared, stale>>

UdpIdle == [pc |-> "idle", addr |-> None, peer |-> None, entry |-> None]
UdpBusy == [pc : {"reply", "evict", "put"}, addr : Addrs, peer : Peers,
            entry : Ids]
TunIdle == [pc |-> "idle", entry |-> None, dst |-> None]
StaleCap == 2            \* stale counts saturate here

TypeOK ==
  /\ TableTypeOK
  /\ enrolled \in SUBSET Peers
  /\ allow \in SUBSET Peers
  /\ udp \in UdpBusy \cup {UdpIdle}
  /\ tun \in [pc : {"send"}, entry : Ids, dst : IPs] \cup {TunIdle}
  /\ next \in 1 .. (MaxSessions + 1)
  /\ seen \in [Ids -> V4 \cup {None}]
  /\ shared \in SUBSET Ids
  /\ stale \in [Ids -> 0 .. StaleCap]

Init ==
  /\ TableInit
  /\ enrolled \in SUBSET Peers
  /\ allow = enrolled
  /\ udp = UdpIdle
  /\ tun = TunIdle
  /\ next = 1
  /\ seen = [e \in Ids |-> None]
  /\ shared = {}
  /\ stale = [e \in Ids |-> 0]

-----------------------------------------------------------------------------
(* handleHandshakeA.                                                       *)

\* A responder session is made, msg A authenticates peer p, and p is on the
\* allowlist; otherwise the handler returns having changed nothing.
HandshakeA(a, p) ==
  /\ udp.pc = "idle"
  /\ next <= MaxSessions
  /\ p \in allow
  /\ udp' = [pc |-> "reply", addr |-> a, peer |-> p, entry |-> next]
  /\ next' = next + 1
  /\ UNCHANGED <<table, enrolled, allow, tun, seen, shared, stale>>

\* msg B is written to the socket, before the table knows the session.
SendB ==
  /\ udp.pc = "reply"
  /\ udp' = [udp EXCEPT !.pc = "evict"]
  /\ UNCHANGED <<table, enrolled, allow, tun, next, seen, shared, stale>>

\* The write fails: the handshake is abandoned.
SendBFails ==
  /\ udp.pc = "reply"
  /\ udp' = UdpIdle
  /\ UNCHANGED <<table, enrolled, allow, tun, next, seen, shared, stale>>

\* Mutation: the handler returns after the eviction.
EvictPrior_Returns ==
  /\ udp.pc = "evict"
  /\ IF byPeer[udp.peer] = None
     THEN udp' = [udp EXCEPT !.pc = "put"] /\ UNCHANGED table
     ELSE udp' = UdpIdle /\ Remove(byPeer[udp.peer])
  /\ UNCHANGED <<enrolled, allow, tun, next, seen, shared, stale>>

\* The peer's prior session, if it has one, leaves the table.  Only this
\* goroutine writes the table, so the lookup and Remove are one step.
EvictPrior ==
  /\ udp.pc = "evict"
  /\ udp' = [udp EXCEPT !.pc = "put"]
  /\ IF byPeer[udp.peer] = None THEN UNCHANGED table
     ELSE Remove(byPeer[udp.peer])
  /\ UNCHANGED <<enrolled, allow, tun, next, seen, shared, stale>>

\* The new session enters the table.
SessionUp ==
  /\ udp.pc = "put"
  /\ Put(udp.entry, udp.addr, udp.peer)
  /\ udp' = UdpIdle
  /\ UNCHANGED <<enrolled, allow, tun, next, seen, shared, stale>>

-----------------------------------------------------------------------------
(* handleTransport.                                                        *)

\* Mutation: an IPv6 source always rebinds.
PreferRebind_Always(e, src) == TRUE

\* IPv4 sources rebind always, others only until an IPv4 one was seen.
PreferRebind(e, src) == src \in V4 \/ tunOf[e] \notin V4

\* Mutation: any session's frame is taken for the one at this endpoint.
HandleTransport_AnyKey(a, e, src) ==
  /\ udp.pc = "idle"
  /\ peerOf[e] # None
  /\ byUDP[a] # None
  /\ src \in Sources[peerOf[e]]
  /\ BindTunIP(byUDP[a], src)
  /\ UNCHANGED <<enrolled, allow, udp, tun, next, seen, shared, stale>>

\* The other live sessions bound to ip, and what binding e to it shares.
Holders(e, ip) == {f \in Ids \ {e} : Live(f) /\ tunOf[f] = ip}
SharedAfter(e, ip) == IF Holders(e, ip) = {} THEN shared \ {e}
                      ELSE shared \cup {e} \cup Holders(e, ip)

\* A frame of session e from the endpoint e is indexed at: it decrypts, its
\* inner source src may rebind the entry, and it goes to the TUN device.  A
\* frame from an endpoint that is unknown, or indexed for another session,
\* whose keys do not open it, is dropped: nothing re-keys the endpoint.
HandleTransport(a, e, src) ==
  /\ udp.pc = "idle"
  /\ byUDP[a] = e
  /\ src \in Sources[peerOf[e]]
  /\ IF PreferRebind(e, src) /\ tunOf[e] # src
     THEN BindTunIP(e, src) /\ shared' = SharedAfter(e, src)
     ELSE UNCHANGED <<table, shared>>
  /\ seen' = IF src \in V4 THEN [seen EXCEPT ![e] = src] ELSE seen
  /\ UNCHANGED <<enrolled, allow, udp, tun, next, stale>>

-----------------------------------------------------------------------------
(* loopTunToUDP.  A packet for an address no entry is bound to is skipped. *)

TunLookup(dst) ==
  /\ tun.pc = "idle"
  /\ byTun[dst] # None
  /\ tun' = [pc |-> "send", entry |-> byTun[dst], dst |-> dst]
  /\ UNCHANGED <<table, enrolled, allow, udp, next, seen, shared, stale>>

\* Encrypt under the held entry's session, write to its endpoint.
TunSend ==
  /\ tun.pc = "send"
  /\ tun' = TunIdle
  /\ stale' = IF Live(tun.entry) \/ stale[tun.entry] = StaleCap THEN stale
              ELSE [stale EXCEPT ![tun.entry] = @ + 1]
  /\ UNCHANGED <<table, enrolled, allow, udp, next, seen, shared>>

-----------------------------------------------------------------------------
\* The web side binds or clears a peer's key.
Enroll(p) ==
  /\ enrolled' = enrolled \cup {p}
  /\ UNCHANGED <<table, allow, udp, tun, next, seen, shared, stale>>

Unenroll(p) ==
  /\ enrolled' = enrolled \ {p}
  /\ UNCHANGED <<table, allow, udp, tun, next, seen, shared, stale>>

\* Refresh swaps the snapshot; a query error leaves it as it was.
Refresh ==
  /\ allow' = enrolled
  /\ UNCHANGED <<table, enrolled, udp, tun, next, seen, shared, stale>>

\* A signal, or an error of either loop (a failed write to one client's
\* endpoint is one), ends the process; systemd starts it again with an
\* empty table and a fresh snapshot.
Restart ==
  /\ byUDP' = [a \in Addrs |-> None]
  /\ byTun' = [i \in IPs |-> None]
  /\ byPeer' = [p \in Peers |-> None]
  /\ udp' = UdpIdle
  /\ tun' = TunIdle
  /\ allow' = enrolled
  /\ UNCHANGED <<peerOf, addrOf, tunOf, enrolled, next, seen, shared, stale>>

Handshake ==
  \/ \E a \in Addrs, p \in Peers : HandshakeA(a, p)
  \/ SendB
  \/ SendBFails
  \/ EvictPrior
  \/ SessionUp

Transport ==
  \E a \in Addrs, e \in Ids, src \in IPs : HandleTransport(a, e, src)

TunLoop == TunSend \/ \E dst \in IPs : TunLookup(dst)

Allowlist == Refresh \/ \E p \in Peers : Enroll(p) \/ Unenroll(p)

Next == Handshake \/ Transport \/ TunLoop \/ Allowlist \/ Restart

Spec == Init /\ [][Next]_vars

-----------------------------------------------------------------------------
(* Properties.                                                             *)

\* One active session per wallet key (LookupByPeer's comment).
OneSessionPerPeer ==
  \A e, f \in Ids : Live(e) /\ Live(f) /\ peerOf[e] = peerOf[f] => e = f

\* The TUN loop seals a packet only for a peer whose host uses its
\* destination address, whatever the UDP loop did since the lookup.
SealedForOwner ==
  tun.pc = "send" => tun.dst \in Sources[peerOf[tun.entry]]

\* After an eviction at most one packet, the one in the TUN loop's hands, is
\* still sealed under the evicted session.
StaleSealedAtMostOnce == \A e \in Ids : stale[e] <= 1

\* Replies find their session: a packet for the IPv4 address a live session
\* last wrote from is routed to it, unless another live session was bound to
\* that address too while this one was: when either writes from elsewhere, the
\* address has no route until somebody binds it again.  What a session writes
\* from IPv6 addresses meanwhile, what others bind, give up or leave behind, and
\* who had the address before it, do not take the route away.  The address is any
\* IPv4 one; the comment in handleTransport says one "in our tunnel CIDR".
ReplyRoute ==
  \A e \in Ids : Live(e) /\ seen[e] # None /\ e \notin shared =>
    byTun[seen[e]] = e

-----------------------------------------------------------------------------
(* The inductive invariant.                                                *)

FreshEntries ==
  \A e \in Ids : e >= next \/ e = udp.entry =>
    peerOf[e] = None /\ addrOf[e] = None /\ tunOf[e] = None

InFlight ==
  /\ udp.pc # "idle" => udp.entry < next
  /\ udp.pc = "put" => byPeer[udp.peer] = None

BoundByOwner ==
  \A e \in Ids : tunOf[e] # None =>
    peerOf[e] # None /\ tunOf[e] \in Sources[peerOf[e]]

HeldEntry ==
  tun.pc = "send" =>
    peerOf[tun.entry] # None /\ tun.dst \in Sources[peerOf[tun.entry]]

StaleClear ==
  \A e \in Ids :
    \/ Live(e)
    \/ peerOf[e] = None
    \/ tun.pc = "send" /\ tun.entry = e
    => stale[e] = 0

\* An IPv4 source is bound at once and only another one takes its place.
FollowsV4 == \A e \in Ids : seen[e] # None => tunOf[e] = seen[e]

Routed ==
  \A e \in Ids : Live(e) /\ tunOf[e] # None /\ e \notin shared =>
    byTun[tunOf[e]] = e

\* Two live sessions of one address know of each other.
SharersKnown ==
  \A e, f \in Ids :
    Live(e) /\ Live(f) /\ e # f /\ tunOf[e] # None /\ tunOf[e] = tunOf[f] =>
      e \in shared

IInv ==
  /\ TypeOK
  /\ TableInv
  /\ FreshEntries
  /\ InFlight
  /\ BoundByOwner
  /\ HeldEntry
  /\ StaleClear
  /\ StaleSealedAtMostOnce
  /\ FollowsV4
  /\ Routed
  /\ SharersKnown
=============================================================================
