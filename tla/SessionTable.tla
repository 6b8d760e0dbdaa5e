---------------------------- MODULE SessionTable ----------------------------
(***************************************************************************)
(* The session table of the tunnel server (sessman/manager.go).  An entry  *)
(* is an object: it keeps its fields after it left every index, for a      *)
(* caller may still hold a pointer to it.  Three maps index the entries by *)
(* UDP endpoint, by inner address and by peer key; None is a missing key   *)
(* or an unset field.  Each action is one critical section of Manager.mu.  *)
(***************************************************************************)
EXTENDS Integers

CONSTANTS Peers,         \* static public keys of clients
          Addrs,         \* UDP endpoints as the server sees them
          IPs,           \* inner source addresses
          MaxSessions,   \* bound: handshakes the server takes in a behavior
          None

ASSUME NoneAssumption ==
  /\ None \notin Peers
  /\ None \notin Addrs
  /\ None \notin IPs
  /\ None \notin Nat
ASSUME BoundAssumption == MaxSessions \in Nat

Ids == 1 .. MaxSessions  \* entries, each with the Noise session it wraps

VARIABLES peerOf,        \* Entry.PeerKey
          addrOf,        \* Entry.UDPAddr
          tunOf,         \* Entry.TunIP
          byUDP, byTun, byPeer

entries == <<peerOf, addrOf, tunOf>>
indexes == <<byUDP, byTun, byPeer>>
table == <<peerOf, addrOf, tunOf, byUDP, byTun, byPeer>>

TableTypeOK ==
  /\ peerOf \in [Ids -> Peers \cup {None}]
  /\ addrOf \in [Ids -> Addrs \cup {None}]
  /\ tunOf \in [Ids -> IPs \cup {None}]
  /\ byUDP \in [Addrs -> Ids \cup {None}]
  /\ byTun \in [IPs -> Ids \cup {None}]
  /\ byPeer \in [Peers -> Ids \cup {None}]

NoIndexes ==
  /\ byUDP = [a \in Addrs |-> None]
  /\ byTun = [i \in IPs |-> None]
  /\ byPeer = [p \in Peers |-> None]

TableInit ==
  /\ peerOf = [e \in Ids |-> None]
  /\ addrOf = [e \in Ids |-> None]
  /\ tunOf = [e \in Ids |-> None]
  /\ NoIndexes

Live(e) == addrOf[e] # None /\ byUDP[addrOf[e]] = e

\* A map without one key; the key may be None.
Without(f, k) == [x \in DOMAIN f |-> IF x = k THEN None ELSE f[x]]

-----------------------------------------------------------------------------
\* Mutation of Put: the entry it displaces stays in the other two indexes.
Put_LeavesDisplaced(e, a, p) ==
  /\ peerOf' = [peerOf EXCEPT ![e] = p]
  /\ addrOf' = [addrOf EXCEPT ![e] = a]
  /\ byUDP' = [byUDP EXCEPT ![a] = e]
  /\ byPeer' = [byPeer EXCEPT ![p] = e]
  /\ UNCHANGED <<tunOf, byTun>>

\* Put: the new entry e of peer p at endpoint a displaces whatever entry was
\* at that endpoint, from all three indexes.
Put(e, a, p) ==
  LET old == byUDP[a]
      oldPeer == IF old = None THEN None ELSE peerOf[old]
      oldTun == IF old = None THEN None ELSE tunOf[old]
  IN /\ peerOf' = [peerOf EXCEPT ![e] = p]
     /\ addrOf' = [addrOf EXCEPT ![e] = a]
     /\ byUDP' = [byUDP EXCEPT ![a] = e]
     /\ byTun' = Without(byTun, oldTun)
     /\ byPeer' = [Without(byPeer, oldPeer) EXCEPT ![p] = e]
     /\ UNCHANGED tunOf

\* Mutation: the address's previous holder is evicted altogether.
BindTunIP_EvictsHolder(e, ip) ==
  LET holder == byTun[ip]
      heldAt == IF holder = None THEN None ELSE addrOf[holder]
      heldBy == IF holder = None THEN None ELSE peerOf[holder]
  IN /\ tunOf' = [tunOf EXCEPT ![e] = ip]
     /\ byTun' = [byTun EXCEPT ![ip] = e]
     /\ byUDP' = Without(byUDP, heldAt)
     /\ byPeer' = Without(byPeer, heldBy)
     /\ UNCHANGED <<peerOf, addrOf>>

\* BindTunIP: the deleted key is the entry's old address, whichever entry
\* that key leads to by now.
BindTunIP(e, ip) ==
  LET old == IF tunOf[e] = ip THEN None ELSE tunOf[e]
  IN /\ tunOf' = [tunOf EXCEPT ![e] = ip]
     /\ byTun' = [Without(byTun, old) EXCEPT ![ip] = e]
     /\ UNCHANGED <<peerOf, addrOf, byUDP, byPeer>>

\* Mutation of Remove: the inner-address index is forgotten.
Remove_ForgetsTun(e) ==
  /\ byUDP' = Without(byUDP, addrOf[e])
  /\ byPeer' = Without(byPeer, peerOf[e])
  /\ UNCHANGED <<peerOf, addrOf, tunOf, byTun>>

\* Remove.
Remove(e) ==
  /\ byUDP' = Without(byUDP, addrOf[e])
  /\ byTun' = Without(byTun, tunOf[e])
  /\ byPeer' = Without(byPeer, peerOf[e])
  /\ UNCHANGED <<peerOf, addrOf, tunOf>>

-----------------------------------------------------------------------------
(* Properties of the table, whose operations the server calls.             *)

\* The endpoint and peer indexes describe the same set of sessions, at every
\* interleaving point of a handshake: what is at an endpoint is its peer's
\* session, and the other way round.
IndexesAgree ==
  /\ \A a \in Addrs : byUDP[a] # None =>
       /\ addrOf[byUDP[a]] = a
       /\ peerOf[byUDP[a]] # None
       /\ byPeer[peerOf[byUDP[a]]] = byUDP[a]
  /\ \A p \in Peers : byPeer[p] # None =>
       /\ peerOf[byPeer[p]] = p
       /\ addrOf[byPeer[p]] # None
       /\ byUDP[addrOf[byPeer[p]]] = byPeer[p]

\* The inner-address index never leads to a session that was evicted or
\* displaced: replies are not sealed for a peer that re-handshaked or left.
RoutesAreLive ==
  \A ip \in IPs : byTun[ip] # None =>
    Live(byTun[ip]) /\ tunOf[byTun[ip]] = ip

\* The three indexes, of one table, at every interleaving point of handshakes,
\* transport frames and lookups.
TableInv == TableTypeOK /\ IndexesAgree /\ RoutesAreLive
=============================================================================
