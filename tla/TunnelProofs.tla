---------------------------- MODULE TunnelProofs ----------------------------
(***************************************************************************)
(* The session table stays consistent under the server's two loops, and a  *)
(* client keeps the session made for it until a successor takes its place, *)
(* for every set of peers, endpoints and inner addresses.                  *)
(***************************************************************************)
EXTENDS Tunnel, TLAPS

USE NoneAssumption, BoundAssumption, AddressAssumption

-----------------------------------------------------------------------------
(* The operations of the table.                                            *)

LEMMA NoneIsNoId == None \notin Ids
  BY DEF Ids

\* Put of an unused entry for a peer that has none keeps the table consistent.
LEMMA PutKeepsTable ==
  ASSUME TableInv, NEW e \in Ids, NEW a \in Addrs, NEW p \in Peers,
         peerOf[e] = None, addrOf[e] = None, byPeer[p] = None,
         Put(e, a, p)
  PROVE  TableInv'
  <1> DEFINE old == byUDP[a]
             oldPeer == IF old = None THEN None ELSE peerOf[old]
             oldTun == IF old = None THEN None ELSE tunOf[old]
  <1>1. /\ TableTypeOK /\ IndexesAgree /\ RoutesAreLive
        /\ peerOf' = [peerOf EXCEPT ![e] = p]
        /\ addrOf' = [addrOf EXCEPT ![e] = a]
        /\ byUDP' = [byUDP EXCEPT ![a] = e]
        /\ byTun' = Without(byTun, oldTun)
        /\ byPeer' = [Without(byPeer, oldPeer) EXCEPT ![p] = e]
        /\ tunOf' = tunOf
    BY DEF TableInv, Put
  <1>2. /\ byTun' \in [IPs -> Ids \cup {None}]
        /\ \A x \in IPs : byTun'[x] = IF x = oldTun THEN None ELSE byTun[x]
    BY <1>1 DEF TableTypeOK, Without
  <1>3. /\ byPeer' \in [Peers -> Ids \cup {None}]
        /\ byPeer'[p] = e
        /\ \A x \in Peers : x # p =>
             byPeer'[x] = IF x = oldPeer THEN None ELSE byPeer[x]
    BY <1>1 DEF TableTypeOK, Without
  <1>4. TableTypeOK'
    BY <1>1, <1>2, <1>3 DEF TableTypeOK
  <1>5. old # e
    BY <1>1 DEF TableTypeOK, IndexesAgree, Ids
  <1>6. IndexesAgree'
    <2>1. ASSUME NEW b \in Addrs, byUDP'[b] # None
          PROVE  /\ addrOf'[byUDP'[b]] = b
                 /\ peerOf'[byUDP'[b]] # None
                 /\ byPeer'[peerOf'[byUDP'[b]]] = byUDP'[b]
      <3>1. CASE b = a
        BY <1>1, <1>3, <3>1 DEF TableTypeOK
      <3>2. CASE b # a
        <4> DEFINE f == byUDP[b]
        <4>1. /\ byUDP'[b] = f
              /\ f \in Ids
              /\ addrOf[f] = b
              /\ peerOf[f] \in Peers
              /\ byPeer[peerOf[f]] = f
          BY <1>1, <2>1, <3>2 DEF TableTypeOK, IndexesAgree
        <4>2. f # e
          BY <1>1, <4>1
        <4>3. addrOf'[f] = b /\ peerOf'[f] = peerOf[f]
          BY <1>1, <4>1, <4>2 DEF TableTypeOK
        <4>4. peerOf[f] # p
          BY <4>1, NoneIsNoId
        <4>5. peerOf[f] # oldPeer
          BY <1>1, <3>2, <4>1 DEF TableTypeOK, IndexesAgree
        <4>6. byPeer'[peerOf[f]] = f
          BY <1>3, <4>1, <4>4, <4>5
        <4> QED
          BY <4>1, <4>3, <4>6
      <3> QED
        BY <3>1, <3>2
    <2>2. ASSUME NEW q \in Peers, byPeer'[q] # None
          PROVE  /\ peerOf'[byPeer'[q]] = q
                 /\ addrOf'[byPeer'[q]] # None
                 /\ byUDP'[addrOf'[byPeer'[q]]] = byPeer'[q]
      <3>1. CASE q = p
        BY <1>1, <1>3, <3>1 DEF TableTypeOK
      <3>2. CASE q # p
        <4> DEFINE f == byPeer[q]
        <4>1. /\ byPeer'[q] = f
              /\ q # oldPeer
              /\ f \in Ids
              /\ peerOf[f] = q
              /\ addrOf[f] \in Addrs
              /\ byUDP[addrOf[f]] = f
          BY <1>1, <1>3, <2>2, <3>2 DEF TableTypeOK, IndexesAgree
        <4>2. f # e
          BY <1>1, <4>1
        <4>3. peerOf'[f] = q /\ addrOf'[f] = addrOf[f]
          BY <1>1, <4>1, <4>2 DEF TableTypeOK
        <4>4. addrOf[f] # a
          BY <4>1, NoneIsNoId
        <4> QED
          BY <1>1, <4>1, <4>3, <4>4 DEF TableTypeOK
      <3> QED
        BY <3>1, <3>2
    <2> QED
      BY <2>1, <2>2 DEF IndexesAgree
  <1>7. RoutesAreLive'
    <2> SUFFICES ASSUME NEW ip \in IPs, byTun'[ip] # None
                 PROVE  /\ addrOf'[byTun'[ip]] # None
                        /\ byUDP'[addrOf'[byTun'[ip]]] = byTun'[ip]
                        /\ tunOf'[byTun'[ip]] = ip
      BY DEF RoutesAreLive, Live
    <2> DEFINE f == byTun[ip]
    <2>1. /\ byTun'[ip] = f
          /\ ip # oldTun
          /\ f \in Ids
          /\ addrOf[f] \in Addrs
          /\ byUDP[addrOf[f]] = f
          /\ tunOf[f] = ip
      BY <1>1, <1>2 DEF TableTypeOK, RoutesAreLive, Live
    <2>2. f # e
      BY <1>1, <2>1
    <2>3. addrOf[f] # a
      BY <2>1
    <2> QED
      BY <1>1, <2>1, <2>2, <2>3 DEF TableTypeOK, Live
  <1> QED
    BY <1>4, <1>6, <1>7 DEF TableInv

\* Remove of an indexed entry keeps the table consistent; its peer has no
\* entry afterwards.
LEMMA RemoveKeepsTable ==
  ASSUME TableInv, NEW p \in Peers, byPeer[p] # None, Remove(byPeer[p])
  PROVE  TableInv' /\ byPeer'[p] = None
  <1> DEFINE e == byPeer[p]
  <1>1. /\ TableTypeOK /\ IndexesAgree /\ RoutesAreLive
        /\ byUDP' = Without(byUDP, addrOf[e])
        /\ byTun' = Without(byTun, tunOf[e])
        /\ byPeer' = Without(byPeer, peerOf[e])
        /\ peerOf' = peerOf /\ addrOf' = addrOf /\ tunOf' = tunOf
    BY DEF TableInv, Remove
  <1>2. /\ e \in Ids
        /\ peerOf[e] = p
        /\ addrOf[e] \in Addrs
        /\ byUDP[addrOf[e]] = e
    BY <1>1 DEF TableTypeOK, IndexesAgree
  <1>3. /\ byUDP' \in [Addrs -> Ids \cup {None}]
        /\ \A x \in Addrs :
             byUDP'[x] = IF x = addrOf[e] THEN None ELSE byUDP[x]
    BY <1>1 DEF TableTypeOK, Without
  <1>4. /\ byTun' \in [IPs -> Ids \cup {None}]
        /\ \A x \in IPs : byTun'[x] = IF x = tunOf[e] THEN None ELSE byTun[x]
    BY <1>1 DEF TableTypeOK, Without
  <1>5. /\ byPeer' \in [Peers -> Ids \cup {None}]
        /\ \A x \in Peers : byPeer'[x] = IF x = p THEN None ELSE byPeer[x]
    BY <1>1, <1>2 DEF TableTypeOK, Without
  <1>6. TableTypeOK'
    BY <1>1, <1>3, <1>4, <1>5 DEF TableTypeOK
  <1>7. IndexesAgree'
    <2>1. ASSUME NEW b \in Addrs, byUDP'[b] # None
          PROVE  /\ addrOf'[byUDP'[b]] = b
                 /\ peerOf'[byUDP'[b]] # None
                 /\ byPeer'[peerOf'[byUDP'[b]]] = byUDP'[b]
      <3>1. /\ b # addrOf[e]
            /\ byUDP'[b] = byUDP[b]
            /\ byUDP[b] \in Ids
            /\ addrOf[byUDP[b]] = b
            /\ peerOf[byUDP[b]] \in Peers
            /\ byPeer[peerOf[byUDP[b]]] = byUDP[b]
        BY <1>1, <1>3, <2>1 DEF TableTypeOK, IndexesAgree
      <3>2. peerOf[byUDP[b]] # p
        BY <1>2, <3>1
      <3> QED
        BY <1>1, <1>5, <3>1, <3>2
    <2>2. ASSUME NEW q \in Peers, byPeer'[q] # None
          PROVE  /\ peerOf'[byPeer'[q]] = q
                 /\ addrOf'[byPeer'[q]] # None
                 /\ byUDP'[addrOf'[byPeer'[q]]] = byPeer'[q]
      <3>1. /\ q # p
            /\ byPeer'[q] = byPeer[q]
            /\ byPeer[q] \in Ids
            /\ peerOf[byPeer[q]] = q
            /\ addrOf[byPeer[q]] \in Addrs
            /\ byUDP[addrOf[byPeer[q]]] = byPeer[q]
        BY <1>1, <1>5, <2>2 DEF TableTypeOK, IndexesAgree
      <3>2. addrOf[byPeer[q]] # addrOf[e]
        BY <1>2, <3>1
      <3> QED
        BY <1>1, <1>3, <3>1, <3>2
    <2> QED
      BY <2>1, <2>2 DEF IndexesAgree
  <1>8. RoutesAreLive'
    <2> SUFFICES ASSUME NEW ip \in IPs, byTun'[ip] # None
                 PROVE  /\ addrOf'[byTun'[ip]] # None
                        /\ byUDP'[addrOf'[byTun'[ip]]] = byTun'[ip]
                        /\ tunOf'[byTun'[ip]] = ip
      BY DEF RoutesAreLive, Live
    <2> DEFINE f == byTun[ip]
    <2>1. /\ byTun'[ip] = f
          /\ ip # tunOf[e]
          /\ f \in Ids
          /\ addrOf[f] \in Addrs
          /\ byUDP[addrOf[f]] = f
          /\ tunOf[f] = ip
      BY <1>1, <1>4 DEF TableTypeOK, RoutesAreLive, Live
    <2>2. addrOf[f] # addrOf[e]
      BY <1>2, <2>1
    <2> QED
      BY <1>1, <1>3, <2>1, <2>2 DEF Live
  <1> QED
    BY <1>5, <1>6, <1>7, <1>8 DEF TableInv

\* Binding an inner address to a live entry keeps the table consistent.
LEMMA BindKeepsTable ==
  ASSUME TableInv, NEW e \in Ids, NEW ip \in IPs, Live(e), BindTunIP(e, ip)
  PROVE  TableInv'
  <1> DEFINE old == IF tunOf[e] = ip THEN None ELSE tunOf[e]
  <1>1. /\ TableTypeOK /\ IndexesAgree /\ RoutesAreLive
        /\ tunOf' = [tunOf EXCEPT ![e] = ip]
        /\ byTun' = [Without(byTun, old) EXCEPT ![ip] = e]
        /\ peerOf' = peerOf /\ addrOf' = addrOf
        /\ byUDP' = byUDP /\ byPeer' = byPeer
    BY DEF TableInv, BindTunIP
  <1>2. /\ byTun' \in [IPs -> Ids \cup {None}]
        /\ byTun'[ip] = e
        /\ \A x \in IPs : x # ip =>
             byTun'[x] = IF x = old THEN None ELSE byTun[x]
    BY <1>1 DEF TableTypeOK, Without
  <1>3. TableTypeOK'
    BY <1>1, <1>2 DEF TableTypeOK
  <1>4. IndexesAgree'
    BY <1>1 DEF IndexesAgree
  <1>5. RoutesAreLive'
    <2> SUFFICES ASSUME NEW x \in IPs, byTun'[x] # None
                 PROVE  /\ addrOf'[byTun'[x]] # None
                        /\ byUDP'[addrOf'[byTun'[x]]] = byTun'[x]
                        /\ tunOf'[byTun'[x]] = x
      BY DEF RoutesAreLive, Live
    <2>1. CASE x = ip
      BY <1>1, <1>2, <2>1 DEF TableTypeOK, Live
    <2>2. CASE x # ip
      <3>1. /\ byTun'[x] = byTun[x]
            /\ x # old
            /\ byTun[x] \in Ids
            /\ Live(byTun[x])
            /\ tunOf[byTun[x]] = x
        BY <1>1, <1>2, <2>2 DEF TableTypeOK, RoutesAreLive
      <3>2. byTun[x] # e
        BY <2>2, <3>1
      <3> QED
        BY <1>1, <3>1, <3>2 DEF TableTypeOK, Live
    <2> QED
      BY <2>1, <2>2
  <1> QED
    BY <1>3, <1>4, <1>5 DEF TableInv

-----------------------------------------------------------------------------
(* Routes.                                                                 *)

\* The session that goes takes its own address with it; a live session of that
\* address is known to have shared it.
LEMMA LeavesRoutes ==
  ASSUME IInv, NEW gone \in Ids, Live(gone), ~Live(gone)',
         tunOf' = tunOf, shared' = shared, byTun' = Without(byTun, tunOf[gone]),
         \A f \in Ids : Live(f)' => Live(f) \/ tunOf[f] = None
  PROVE  Routed'
  <1> SUFFICES ASSUME NEW f \in Ids, Live(f)', tunOf[f] # None,
                      f \notin shared
               PROVE  byTun'[tunOf[f]] = f
    BY DEF Routed
  <1>1. Live(f) /\ f # gone
    OBVIOUS
  <1>2. byTun[tunOf[f]] = f /\ tunOf[f] \in IPs
    BY <1>1 DEF IInv, Routed, TypeOK, TableTypeOK
  <1>3. tunOf[f] # tunOf[gone]
    BY <1>1 DEF IInv, SharersKnown
  <1> QED
    BY <1>2, <1>3 DEF Without, IInv, TypeOK, TableTypeOK

\* Steps that share no address and bind none keep what is known of sharers.
LEMMA SharersStay ==
  ASSUME IInv, tunOf' = tunOf, shared' = shared,
         \A f \in Ids : Live(f)' => Live(f) \/ tunOf[f] = None
  PROVE  SharersKnown'
  BY DEF IInv, SharersKnown

\* Binding an address: whoever is bound to it, or to the one that is given up,
\* and stays live is known to share it.
LEMMA BindRoutes ==
  ASSUME IInv, NEW e \in Ids, NEW ip \in IPs, Live(e), BindTunIP(e, ip),
         shared' = SharedAfter(e, ip)
  PROVE  Routed' /\ SharersKnown' /\ shared' \in SUBSET Ids
  <1> DEFINE old == IF tunOf[e] = ip THEN None ELSE tunOf[e]
  <1>1. /\ tunOf' = [tunOf EXCEPT ![e] = ip]
        /\ byTun' = [Without(byTun, old) EXCEPT ![ip] = e]
        /\ UNCHANGED <<peerOf, addrOf, byUDP>>
    BY DEF BindTunIP
  <1>2. /\ tunOf \in [Ids -> IPs \cup {None}]
        /\ byTun \in [IPs -> Ids \cup {None}]
        /\ shared \in SUBSET Ids
    BY DEF IInv, TypeOK, TableTypeOK
  <1>3. /\ byTun'[ip] = e
        /\ \A x \in IPs \ {ip} : x # old => byTun'[x] = byTun[x]
    BY <1>1, <1>2 DEF Without
  <1>4. \A f \in Ids : Live(f)' <=> Live(f)
    BY <1>1 DEF Live
  <1>5. /\ \A f \in Holders(e, ip) : f \in shared' /\ e \in shared'
        /\ \A f \in shared : f # e => f \in shared'
        /\ shared' \in SUBSET Ids
    BY <1>2 DEF SharedAfter, Holders
  <1>6. ASSUME NEW f \in Ids, Live(f)', tunOf'[f] # None, f \notin shared'
        PROVE  byTun'[tunOf'[f]] = f
    <2>1. CASE f = e
      BY <1>1, <1>2, <1>3, <2>1
    <2>2. CASE f # e
      <3>1. Live(f) /\ tunOf'[f] = tunOf[f] /\ tunOf[f] \in IPs
        BY <1>1, <1>2, <1>4, <1>6, <2>2
      <3>2. f \notin shared
        BY <1>5, <1>6, <2>2
      <3>3. byTun[tunOf[f]] = f
        BY <3>1, <3>2 DEF IInv, Routed
      <3>4. tunOf[f] # old
        BY <1>2, <2>2, <3>1, <3>2 DEF IInv, SharersKnown
      <3>5. tunOf[f] # ip
        BY <1>5, <1>6, <2>2, <3>1 DEF Holders
      <3> QED
        BY <1>3, <3>1, <3>3, <3>4, <3>5
    <2> QED
      BY <2>1, <2>2
  <1>7. ASSUME NEW f \in Ids, NEW g \in Ids, Live(f)', Live(g)', f # g,
               tunOf'[f] # None, tunOf'[f] = tunOf'[g]
        PROVE  f \in shared'
    <2>1. Live(f) /\ Live(g)
      BY <1>4, <1>7
    <2>2. CASE f = e
      BY <1>1, <1>2, <1>5, <1>7, <2>1, <2>2 DEF Holders
    <2>3. CASE g = e
      BY <1>1, <1>2, <1>5, <1>7, <2>1, <2>3 DEF Holders
    <2>4. CASE f # e /\ g # e
      <3>1. f \in shared
        BY <1>1, <1>2, <1>7, <2>1, <2>4 DEF IInv, SharersKnown
      <3> QED
        BY <1>5, <2>4, <3>1
    <2> QED
      BY <2>2, <2>3, <2>4
  <1> QED
    BY <1>5, <1>6, <1>7 DEF Routed, SharersKnown

-----------------------------------------------------------------------------
(* The server.                                                             *)

LEMMA InitIInv == Init => IInv
  BY NoneIsNoId
     DEF Init, IInv, TypeOK, TableInit, NoIndexes, TableInv, TableTypeOK,
         IndexesAgree, RoutesAreLive, Live, FreshEntries, InFlight,
         BoundByOwner, HeldEntry, StaleClear, StaleSealedAtMostOnce, UdpIdle,
         TunIdle, StaleCap, FollowsV4, Routed, SharersKnown, Ids

\* Steps that leave the table and the histories of the invariant alone.
LEMMA QuietStep ==
  ASSUME IInv, UNCHANGED <<table, tun, next, seen, shared, stale>>,
         enrolled' \in SUBSET Peers, allow' \in SUBSET Peers,
         udp' \in UdpBusy \cup {UdpIdle},
         udp'.entry \in {udp.entry, None},
         InFlight'
  PROVE  IInv'
  <1>1. FreshEntries'
    BY NoneIsNoId DEF IInv, table, FreshEntries
  <1>2. TypeOK' /\ TableInv'
    BY DEF IInv, TypeOK, table, TableInv, TableTypeOK, IndexesAgree,
           RoutesAreLive, Live
  <1>3. BoundByOwner' /\ HeldEntry' /\ StaleClear' /\ StaleSealedAtMostOnce'
    BY DEF IInv, table, Live, BoundByOwner, HeldEntry, StaleClear,
           StaleSealedAtMostOnce
  <1>4. FollowsV4' /\ Routed' /\ SharersKnown'
    BY DEF IInv, table, Live, FollowsV4, Routed, SharersKnown
  <1> QED
    BY <1>1, <1>2, <1>3, <1>4 DEF IInv

LEMMA HandshakeIInv ==
  ASSUME IInv, Handshake
  PROVE  IInv'
  <1> USE DEF IInv, TypeOK
  <1>1. ASSUME NEW a \in Addrs, NEW p \in Peers, HandshakeA(a, p)
        PROVE  IInv'
    <2>1. /\ next \in Ids
          /\ udp' = [pc |-> "reply", addr |-> a, peer |-> p, entry |-> next]
          /\ next' = next + 1
          /\ UNCHANGED <<table, enrolled, allow, tun, seen, shared, stale>>
      BY <1>1 DEF HandshakeA, Ids
    <2>2. next' \in 1 .. (MaxSessions + 1) /\ udp' \in UdpBusy
      BY <2>1 DEF Ids, UdpBusy
    <2>3. FreshEntries' /\ InFlight'
      BY <2>1 DEF FreshEntries, InFlight, Ids, table
    <2>4. TableInv' /\ BoundByOwner' /\ HeldEntry' /\ StaleClear'
          /\ StaleSealedAtMostOnce'
      BY <2>1
         DEF table, TableInv, TableTypeOK, IndexesAgree, RoutesAreLive, Live,
             BoundByOwner, HeldEntry, StaleClear, StaleSealedAtMostOnce
    <2>5. FollowsV4' /\ Routed' /\ SharersKnown'
      BY <2>1 DEF table, Live, FollowsV4, Routed, SharersKnown
    <2> QED
      BY <2>1, <2>2, <2>3, <2>4, <2>5 DEF TableInv
  <1>2. CASE SendB
    BY <1>2, QuietStep DEF SendB, InFlight, UdpIdle, UdpBusy
  <1>3. CASE SendBFails
    BY <1>3, QuietStep DEF SendBFails, InFlight, UdpIdle, UdpBusy
  <1>4. CASE EvictPrior
    <2>1. /\ udp.pc = "evict"
          /\ udp.peer \in Peers
          /\ udp' = [udp EXCEPT !.pc = "put"]
          /\ UNCHANGED <<enrolled, allow, tun, next, seen, shared, stale>>
      BY <1>4 DEF EvictPrior, UdpIdle, UdpBusy
    <2>2. /\ udp' \in UdpBusy
          /\ udp'.peer = udp.peer /\ udp'.entry = udp.entry
      BY <2>1 DEF UdpIdle, UdpBusy
    <2>3. /\ TableInv' /\ byPeer'[udp.peer] = None
          /\ UNCHANGED entries
      <3>1. CASE byPeer[udp.peer] = None
        BY <1>4, <2>1, <3>1
           DEF EvictPrior, table, entries, TableInv, TableTypeOK,
               IndexesAgree, RoutesAreLive, Live
      <3>2. CASE byPeer[udp.peer] # None
        BY <1>4, <2>1, <3>2, RemoveKeepsTable
           DEF EvictPrior, Remove, entries
      <3> QED
        BY <3>1, <3>2
    <2>4. \A e \in Ids : Live(e)' => Live(e)
      BY <1>4, <2>1, NoneIsNoId
         DEF EvictPrior, Remove, Without, Live, table, TableInv, TableTypeOK
    <2>5. InFlight'
      BY <2>1, <2>2, <2>3 DEF InFlight
    <2>6. StaleClear'
      BY <2>1, <2>3, <2>4 DEF StaleClear, entries
    <2>7. Routed'
      <3>1. CASE byPeer[udp.peer] = None
        BY <1>4, <2>1, <3>1 DEF EvictPrior, table, Routed, Live
      <3>2. CASE byPeer[udp.peer] # None
        <4> PICK gone \in Ids : gone = byPeer[udp.peer]
          BY <2>1, <3>2 DEF TableTypeOK
        <4>1. Live(gone) /\ Remove(gone)
          BY <1>4, <2>1, <3>2
             DEF EvictPrior, TableInv, TableTypeOK, IndexesAgree, Live
        <4>2. /\ byTun' = Without(byTun, tunOf[gone])
              /\ tunOf' = tunOf /\ shared' = shared
          BY <2>1, <4>1 DEF Remove
        <4>3. ~Live(gone)'
          BY <4>1, NoneIsNoId DEF Remove, Without, Live, TableInv, TableTypeOK
        <4> QED
          BY <2>4, <4>1, <4>2, <4>3, LeavesRoutes
      <3> QED
        BY <3>1, <3>2
    <2>8. FollowsV4' /\ SharersKnown'
      BY <2>1, <2>3, <2>4, SharersStay DEF FollowsV4, entries
    <2> QED
      BY <2>1, <2>2, <2>3, <2>5, <2>6, <2>7, <2>8
         DEF entries, FreshEntries, BoundByOwner, HeldEntry, TableInv,
             StaleSealedAtMostOnce
  <1>5. CASE SessionUp
    <2> DEFINE n == udp.entry
    <2>1. /\ udp.pc = "put"
          /\ udp.peer \in Peers /\ udp.addr \in Addrs
          /\ byPeer[udp.peer] = None
          /\ n \in Ids
          /\ udp' = UdpIdle
          /\ Put(n, udp.addr, udp.peer)
          /\ n < next
          /\ UNCHANGED <<enrolled, allow, tun, next, seen, shared, stale>>
      BY <1>5 DEF SessionUp, UdpIdle, UdpBusy, InFlight
    <2>2. peerOf[n] = None /\ addrOf[n] = None /\ tunOf[n] = None
      BY <2>1 DEF FreshEntries
    <2>3. TableInv'
      BY <2>1, <2>2, PutKeepsTable
    <2>4. \A e \in Ids : e # n =>
            peerOf'[e] = peerOf[e] /\ addrOf'[e] = addrOf[e]
      BY <2>1 DEF Put, TableInv, TableTypeOK
    <2>5. tunOf' = tunOf /\ peerOf'[n] = udp.peer
      BY <2>1 DEF Put, TableInv, TableTypeOK
    <2>6. FreshEntries'
      <3> SUFFICES ASSUME NEW e \in Ids, e >= next \/ e = None
                   PROVE  peerOf'[e] = None /\ addrOf'[e] = None
                          /\ tunOf'[e] = None
        BY <2>1 DEF FreshEntries, UdpIdle
      <3>1. e >= next /\ e # n
        BY <2>1, NoneIsNoId DEF Ids
      <3> QED
        BY <2>4, <2>5, <3>1 DEF FreshEntries
    <2>7. BoundByOwner'
      BY <2>2, <2>4, <2>5 DEF BoundByOwner
    <2>8. HeldEntry'
      <3> SUFFICES ASSUME tun.pc = "send"
                   PROVE  /\ peerOf'[tun.entry] # None
                          /\ tun.dst \in Sources[peerOf'[tun.entry]]
        BY <2>1 DEF HeldEntry
      <3>1. tun.entry \in Ids /\ peerOf[tun.entry] # None
        BY DEF HeldEntry, TunIdle
      <3>2. tun.entry # n
        BY <2>2, <3>1
      <3> QED
        BY <2>4, <3>1, <3>2 DEF HeldEntry
    <2>9. StaleClear'
      <3> SUFFICES ASSUME NEW e \in Ids,
                          \/ Live(e)'
                          \/ peerOf'[e] = None
                          \/ tun.pc = "send" /\ tun.entry = e
                   PROVE  stale[e] = 0
        BY <2>1 DEF StaleClear
      <3>1. CASE e = n
        BY <2>2, <3>1 DEF StaleClear
      <3>2. CASE e # n
        <4>1. Live(e)' => Live(e)
          BY <2>1, <2>4, <3>2
             DEF Live, Put, TableInv, TableTypeOK
        <4> QED
          BY <2>4, <3>2, <4>1 DEF StaleClear
      <3> QED
        BY <3>1, <3>2
    <2>10. InFlight'
      BY <2>1 DEF InFlight, UdpIdle
    <2>11. \A e \in Ids : Live(e)' => Live(e) \/ tunOf[e] = None
      <3> SUFFICES ASSUME NEW e \in Ids, e # n, Live(e)'
                   PROVE  Live(e)
        BY <2>2
      <3> QED
        BY <2>1, <2>4 DEF Live, Put, TableInv, TableTypeOK
    <2>12. Routed'
      <3>1. CASE byUDP[udp.addr] = None
        <4>1. byTun' = byTun
          BY <2>1, <3>1 DEF Put, Without, TableInv, TableTypeOK
        <4> QED
          BY <2>1, <2>5, <2>11, <4>1 DEF Routed
      <3>2. CASE byUDP[udp.addr] # None
        <4> PICK old \in Ids : old = byUDP[udp.addr]
          BY <2>1, <3>2 DEF TableTypeOK
        <4>1. addrOf[old] = udp.addr /\ Live(old) /\ old # n
          BY <2>1, <2>2, <3>2 DEF TableInv, TableTypeOK, IndexesAgree, Live
        <4>2. byTun' = Without(byTun, tunOf[old])
          BY <2>1, <3>2 DEF Put
        <4>3. ~Live(old)'
          BY <2>1, <2>4, <4>1 DEF Live, Put, TableInv, TableTypeOK
        <4> QED
          BY <2>1, <2>5, <2>11, <4>1, <4>2, <4>3, LeavesRoutes
      <3> QED
        BY <3>1, <3>2
    <2>13. FollowsV4' /\ SharersKnown'
      BY <2>1, <2>5, <2>11, SharersStay DEF FollowsV4
    <2> QED
      BY <2>1, <2>3, <2>6, <2>7, <2>8, <2>9, <2>10, <2>12, <2>13
         DEF TableInv, StaleSealedAtMostOnce
  <1> QED
    BY <1>1, <1>2, <1>3, <1>4, <1>5 DEF Handshake

LEMMA TransportIInv ==
  ASSUME IInv, Transport
  PROVE  IInv'
  <1> USE DEF IInv, TypeOK
  <1>1. ASSUME NEW a \in Addrs, NEW e \in Ids, NEW src \in IPs,
               HandleTransport(a, e, src)
        PROVE  IInv'
    <2>1. /\ byUDP[a] = e
          /\ src \in Sources[peerOf[e]]
          /\ seen' = IF src \in V4 THEN [seen EXCEPT ![e] = src] ELSE seen
          /\ UNCHANGED <<enrolled, allow, udp, tun, next, stale>>
      BY <1>1 DEF HandleTransport
    <2>2. Live(e) /\ peerOf[e] # None
      BY <2>1, NoneIsNoId DEF TableInv, IndexesAgree, Live
    <2>3. seen' \in [Ids -> V4 \cup {None}]
      BY <2>1
    <2>6. FollowsV4'
      <3>1. CASE src \in V4
        <4>1. tunOf'[e] = src /\ \A f \in Ids \ {e} : tunOf'[f] = tunOf[f]
          BY <1>1, <3>1
             DEF HandleTransport, PreferRebind, BindTunIP, table, TableInv,
                 TableTypeOK
        <4> QED
          BY <2>1, <3>1, <4>1 DEF FollowsV4
      <3>2. CASE src \notin V4
        <4>1. \A f \in Ids : tunOf[f] \in V4 => tunOf'[f] = tunOf[f]
          BY <1>1, <3>2
             DEF HandleTransport, PreferRebind, BindTunIP, table, TableInv,
                 TableTypeOK
        <4> QED
          BY <2>1, <3>2, <4>1 DEF FollowsV4
      <3> QED
        BY <3>1, <3>2
    <2>4. CASE UNCHANGED <<table, shared>>
      <3>1. Routed' /\ SharersKnown'
        BY <2>4 DEF table, Live, Routed, SharersKnown
      <3> QED
        BY <2>1, <2>3, <2>4, <2>6, <3>1
           DEF table, TableInv, TableTypeOK, IndexesAgree, RoutesAreLive, Live,
               FreshEntries, InFlight, BoundByOwner, HeldEntry, StaleClear,
               StaleSealedAtMostOnce
    <2>5. CASE BindTunIP(e, src) /\ shared' = SharedAfter(e, src)
      <3>1. TableInv'
        BY <2>2, <2>5, BindKeepsTable
      <3>2. /\ UNCHANGED <<peerOf, addrOf, byUDP, byPeer>>
            /\ tunOf' = [tunOf EXCEPT ![e] = src]
        BY <2>5 DEF BindTunIP
      <3>3. FreshEntries'
        BY <2>1, <2>2, <3>2 DEF FreshEntries, TableInv, TableTypeOK
      <3>4. BoundByOwner'
        BY <2>1, <2>2, <3>2 DEF BoundByOwner, TableInv, TableTypeOK
      <3>5. /\ InFlight' /\ HeldEntry' /\ StaleClear'
            /\ StaleSealedAtMostOnce'
        BY <2>1, <3>2
           DEF InFlight, HeldEntry, StaleClear, StaleSealedAtMostOnce, Live
      <3>6. Routed' /\ SharersKnown' /\ shared' \in SUBSET Ids
        BY <2>2, <2>5, BindRoutes
      <3> QED
        BY <2>1, <2>3, <2>6, <3>1, <3>3, <3>4, <3>5, <3>6 DEF TableInv
    <2> QED
      BY <1>1, <2>4, <2>5 DEF HandleTransport
  <1> QED
    BY <1>1 DEF Transport

LEMMA TunLoopIInv ==
  ASSUME IInv, TunLoop
  PROVE  IInv'
  <1> USE DEF IInv, TypeOK
  <1>1. ASSUME NEW dst \in IPs, TunLookup(dst)
        PROVE  IInv'
    <2> DEFINE e == byTun[dst]
    <2>1. /\ e \in Ids
          /\ tun' = [pc |-> "send", entry |-> e, dst |-> dst]
          /\ UNCHANGED <<table, enrolled, allow, udp, next, seen, shared, stale>>
      BY <1>1 DEF TunLookup, TableInv, TableTypeOK
    <2>2. Live(e) /\ tunOf[e] = dst
      BY <1>1 DEF TunLookup, TableInv, RoutesAreLive
    <2>3. HeldEntry'
      BY <2>1, <2>2 DEF HeldEntry, BoundByOwner, table
    <2>4. StaleClear'
      BY <2>1, <2>2, <1>1 DEF StaleClear, Live, table, TunLookup
    <2>5. TableInv' /\ FreshEntries' /\ InFlight' /\ BoundByOwner'
          /\ StaleSealedAtMostOnce'
      BY <2>1
         DEF table, TableInv, TableTypeOK, IndexesAgree, RoutesAreLive, Live,
             FreshEntries, InFlight, BoundByOwner, StaleSealedAtMostOnce
    <2>6. FollowsV4' /\ Routed' /\ SharersKnown'
      BY <2>1 DEF table, Live, FollowsV4, Routed, SharersKnown
    <2> QED
      BY <2>1, <2>3, <2>4, <2>5, <2>6 DEF TableInv
  <1>2. CASE TunSend
    <2>1. /\ tun.entry \in Ids
          /\ tun' = TunIdle
          /\ stale[tun.entry] = 0
          /\ stale' = IF Live(tun.entry) \/ stale[tun.entry] = StaleCap
                      THEN stale ELSE [stale EXCEPT ![tun.entry] = @ + 1]
          /\ peerOf[tun.entry] # None
          /\ UNCHANGED <<table, enrolled, allow, udp, next, seen, shared>>
      BY <1>2 DEF TunSend, TunIdle, StaleClear, HeldEntry
    <2>2. /\ stale' \in [Ids -> 0 .. StaleCap]
          /\ StaleSealedAtMostOnce'
      BY <2>1 DEF StaleSealedAtMostOnce, StaleCap
    <2>3. StaleClear'
      BY <2>1 DEF StaleClear, Live, table, TunIdle
    <2>4. TableInv' /\ FreshEntries' /\ InFlight' /\ BoundByOwner'
          /\ HeldEntry'
      BY <2>1
         DEF table, TableInv, TableTypeOK, IndexesAgree, RoutesAreLive, Live,
             FreshEntries, InFlight, BoundByOwner, HeldEntry, TunIdle
    <2>5. FollowsV4' /\ Routed' /\ SharersKnown'
      BY <2>1 DEF table, Live, FollowsV4, Routed, SharersKnown
    <2> QED
      BY <2>1, <2>2, <2>3, <2>4, <2>5 DEF TableInv
  <1> QED
    BY <1>1, <1>2 DEF TunLoop

LEMMA AllowlistIInv ==
  ASSUME IInv, Allowlist
  PROVE  IInv'
  BY QuietStep
     DEF Allowlist, Refresh, Enroll, Unenroll, IInv, TypeOK, InFlight, table

LEMMA RestartIInv ==
  ASSUME IInv, Restart
  PROVE  IInv'
  BY NoneIsNoId
     DEF Restart, IInv, TypeOK, TableInv, TableTypeOK, IndexesAgree,
         RoutesAreLive, Live, FreshEntries, InFlight, BoundByOwner, HeldEntry,
         StaleClear, StaleSealedAtMostOnce, FollowsV4, Routed, SharersKnown, UdpIdle,
         TunIdle

LEMMA NextIInv == IInv /\ [Next]_vars => IInv'
  <1> SUFFICES ASSUME IInv, [Next]_vars
               PROVE  IInv'
    OBVIOUS
  <1>1. CASE UNCHANGED vars
    BY <1>1, QuietStep DEF vars, table, IInv, TypeOK, InFlight
  <1> QED
    BY <1>1, HandshakeIInv, TransportIInv, TunLoopIInv, AllowlistIInv,
       RestartIInv DEF Next

LEMMA InductiveInvariant == Spec => []IInv
  BY InitIInv, NextIInv, PTL DEF Spec

-----------------------------------------------------------------------------
\* Every variable of the server keeps its type.
THEOREM TypeCorrect == Spec => []TypeOK
  <1>1. IInv => TypeOK
    BY DEF IInv
  <1> QED
    BY <1>1, InductiveInvariant, PTL

\* The three indexes hold the same sessions at every point of a handshake, and
\* no route leads to one that was evicted (sessman: Put, BindTunIP, Remove;
\* main.go: handleHandshakeA).
THEOREM TableAlwaysSound == Spec => []TableInv
  <1>1. IInv => TableInv
    BY DEF IInv
  <1> QED
    BY <1>1, InductiveInvariant, PTL

\* A wallet key has at most one active session (LookupByPeer's comment).
THEOREM OneActiveSession == Spec => []OneSessionPerPeer
  <1>1. IInv => OneSessionPerPeer
    BY NoneIsNoId
       DEF IInv, TableInv, TableTypeOK, IndexesAgree, OneSessionPerPeer, Live
  <1> QED
    BY <1>1, InductiveInvariant, PTL

\* The TUN loop never seals a packet for a peer other than one whose host
\* uses the destination address (main.go: loopTunToUDP).
THEOREM SealsForOwner == Spec => []SealedForOwner
  <1>1. IInv => SealedForOwner
    BY DEF IInv, HeldEntry, SealedForOwner
  <1> QED
    BY <1>1, InductiveInvariant, PTL

\* A packet for the IPv4 address that a live session's host wrote from last goes
\* to that session, unless another live session was bound to the address while
\* this one was (main.go: handleTransport; sessman: BindTunIP).
THEOREM RepliesFindSession == Spec => []ReplyRoute
  <1>1. IInv => ReplyRoute
    BY DEF IInv, FollowsV4, Routed, ReplyRoute
  <1> QED
    BY <1>1, InductiveInvariant, PTL

\* An evicted session seals at most one more packet (main.go: loopTunToUDP
\* uses the entry after leaving the table's lock).
THEOREM OneStalePacket == Spec => []StaleSealedAtMostOnce
  <1>1. IInv => StaleSealedAtMostOnce
    BY DEF IInv
  <1> QED
    BY <1>1, InductiveInvariant, PTL

-----------------------------------------------------------------------------
(* The clients and the network around the server.                          *)

\* Every datagram and every client refers to an entry that was made, and what
\* a client is paired with was announced to it by a msg B.
Announced(e) == \E m \in net : m.type = "B" /\ m.entry = e

OnTheNet ==
  \A m \in net : m.type = "B" =>
    m.entry < next /\ (udp.pc = "reply" => m.entry # udp.entry)

\* An entry is made for one attempt of one peer; the one in the UDP loop's
\* hands is the latest.
MadeFor ==
  /\ \A e \in Ids : e < next =>
       answers[e] \in Peers \X Attempts /\ peerOf[e] \in {answers[e][1], None}
  /\ udp.pc # "idle" =>
       answers[udp.entry][1] = udp.peer /\ next = udp.entry + 1

ClientKnows ==
  \A p \in Peers :
    /\ client[p].pc # "down" => client[p].addr \in Addrs
    /\ client[p].pc # "up" => client[p].entry = None
    /\ client[p].pc = "up" =>
         /\ client[p].entry \in Ids /\ Announced(client[p].entry)
         /\ answers[client[p].entry] = <<p, client[p].attempt>>

\* What became of an entry that was announced.
Accounted(e) ==
  Live(e) \/ e = udp.entry \/ e < rebooted \/ Succeeded(e, answers[e][1])
AllAccounted == \A e \in Ids : Announced(e) => Accounted(e)

TunnelInv ==
  /\ IInv /\ TunnelTypeOK
  /\ OnTheNet /\ MadeFor /\ ClientKnows /\ AllAccounted

LEMMA TunnelInitInv == TunnelInit => TunnelInv
  <1> SUFFICES ASSUME TunnelInit PROVE TunnelInv
    OBVIOUS
  <1>1. IInv
    BY InitIInv DEF TunnelInit
  <1>2. TunnelTypeOK
    BY <1>1, StartsAssumption
       DEF TunnelInit, TunnelTypeOK, IInv, ClientState, Ids
  <1>3. OnTheNet /\ ClientKnows /\ AllAccounted
    BY DEF TunnelInit, OnTheNet, ClientKnows, AllAccounted, Announced
  <1>4. MadeFor
    BY DEF TunnelInit, MadeFor, Init, Ids, UdpIdle
  <1> QED
    BY <1>1, <1>2, <1>3, <1>4 DEF TunnelInv

\* A message of either type has the fields of that type.
LEMMA MessageTypes ==
  ASSUME TunnelTypeOK, NEW m \in net
  PROVE  /\ m.type = "A" => m.addr \in Addrs /\ m.peer \in Peers
                            /\ m.attempt \in Attempts
         /\ m.type = "B" => m.addr \in Addrs /\ m.entry \in Ids
         /\ m.type \in {"A", "B"}
  BY DEF TunnelTypeOK, MsgA, MsgB

\* Whatever the network brings, the server takes steps of its own.
LEMMA ServerSteps ==
  ASSUME TunnelInv, [TunnelNext]_tunnelVars
  PROVE  [Next]_vars
  <1> USE DEF TunnelInv
  <1>1. CASE UNCHANGED tunnelVars
    BY <1>1 DEF tunnelVars
  <1>2. ASSUME NEW m \in net, RecvA(m)
        PROVE  Next
    BY <1>2, MessageTypes DEF RecvA, Next, Handshake
  <1>3. CASE ReplyB
    BY <1>3 DEF ReplyB, Next, Handshake
  <1>4. CASE Install
    BY <1>4 DEF Install, Next, Handshake
  <1>5. CASE ServerRestart
    BY <1>5 DEF ServerRestart, Next
  <1>6. ASSUME NEW p \in Peers, ClientStep(p)
        PROVE  UNCHANGED vars
    BY <1>6 DEF ClientStep, Start, Move, ReadB, Deadline, Exit, server
  <1>7. ASSUME NEW p \in Peers, ClientFrame(p)
        PROVE  [Next]_vars
    BY <1>7 DEF ClientFrame, ClientKnows, Next, Transport, server
  <1> QED
    BY <1>1, <1>2, <1>3, <1>4, <1>5, <1>6, <1>7 DEF TunnelNext, ServerStep

\* An entry's successors stay successors.
LEMMA SuccessorsStay ==
  ASSUME TunnelInv, NEW e \in Ids, NEW p, Succeeded(e, p),
         next' \in Nat, next' >= next,
         addrOf[e] # None => addrOf'[e] = addrOf[e],
         \A f \in Ids : peerOf[f] # None => peerOf'[f] = peerOf[f],
         \A f \in Ids : addrOf[f] # None => addrOf'[f] = addrOf[f],
         udp.pc = "put" => udp' = udp \/ peerOf'[udp.entry] = udp.peer,
         p # None
  PROVE  Succeeded(e, p)'
  <1>1. PICK f \in Ids : /\ f > e /\ f < next
                         /\ \/ f = udp.entry /\ udp.pc = "put" /\ udp.peer = p
                            \/ peerOf[f] = p
                            \/ addrOf[f] # None /\ addrOf[f] = addrOf[e]
    BY DEF Succeeded
  <1>2. f < next'
    BY <1>1 DEF TunnelInv, IInv, TypeOK, Ids
  <1> QED
    BY <1>1, <1>2 DEF Succeeded

\* Steps that leave the table, the UDP loop and the making of entries alone.
LEMMA ClientInv ==
  ASSUME TunnelInv, IInv', UNCHANGED <<peerOf, addrOf, byUDP, udp, next>>,
         UNCHANGED <<answers, rebooted>>,
         client' \in [Peers -> ClientState],
         net' \subseteq MsgA \cup MsgB, net \subseteq net',
         \A m \in net' : m.type = "B" => m \in net,
         ClientKnows'
  PROVE  TunnelInv'
  <1> USE DEF TunnelInv
  <1>1. \A e : Announced(e)' <=> Announced(e)
    BY DEF Announced
  <1>2. TunnelTypeOK'
    BY DEF TunnelTypeOK, IInv
  <1>3. OnTheNet' /\ MadeFor'
    BY DEF OnTheNet, MadeFor
  <1>4. AllAccounted'
    BY <1>1 DEF AllAccounted, Accounted, Succeeded, Live
  <1> QED
    BY <1>2, <1>3, <1>4 DEF TunnelInv

LEMMA ClientStepInv ==
  ASSUME TunnelInv, IInv', NEW p \in Peers, ClientStep(p)
  PROVE  TunnelInv'
  <1>1. UNCHANGED <<peerOf, addrOf, byUDP, udp, next, answers, rebooted>>
    BY DEF ClientStep, Start, Move, ReadB, Deadline, Exit, server, vars, table
  <1>2. client \in [Peers -> ClientState] /\ client[p] \in ClientState
    BY DEF TunnelInv, TunnelTypeOK
  <1>3. net \subseteq MsgA \cup MsgB /\ ClientKnows
    BY DEF TunnelInv, TunnelTypeOK
  <1>4. ASSUME NEW c \in ClientState, client' = [client EXCEPT ![p] = c]
        PROVE  /\ client' \in [Peers -> ClientState] /\ client'[p] = c
               /\ \A q \in Peers \ {p} : client'[q] = client[q]
    BY ONLY <1>2, <1>4
  <1>5. ASSUME NEW c \in ClientState, client' = [client EXCEPT ![p] = c],
               c.pc # "down" => c.addr \in Addrs,
               c.pc # "up" => c.entry = None,
               c.pc = "up" => /\ c.entry \in Ids /\ Announced(c.entry)'
                              /\ answers[c.entry] = <<p, c.attempt>>,
               \A e : Announced(e) => Announced(e)'
        PROVE  ClientKnows'
    BY <1>1, <1>3, <1>4, <1>5 DEF ClientKnows
  <1>6. ASSUME NEW a \in Addrs, Start(p, a)
        PROVE  TunnelInv'
    <2> DEFINE n == client[p].attempt + 1
               m == [type |-> "A", addr |-> a, peer |-> p, attempt |-> n]
    <2>1. PICK c : c = [pc |-> "await", addr |-> a, attempt |-> n,
                        entry |-> None]
      OBVIOUS
    <2>2. client' = [client EXCEPT ![p] = c] /\ net' = net \cup {m}
      BY <1>6, <2>1 DEF Start
    <2>3. n \in Attempts /\ n \in 0 .. MaxStarts
      BY <1>2, <1>6, StartsAssumption DEF Start, ClientState, Attempts
    <2>4. /\ c \in ClientState /\ c.pc = "await"
          /\ c.entry = None /\ c.addr \in Addrs
      BY <2>1, <2>3 DEF ClientState
    <2>5. m \in MsgA /\ m.type # "B"
      BY <2>3 DEF MsgA
    <2>6. ClientKnows'
      BY <1>1, <1>5, <2>2, <2>4 DEF Announced
    <2> QED
      BY <1>1, <1>3, <1>4, <2>2, <2>4, <2>5, <2>6, ClientInv
  <1>7. ASSUME NEW a \in Addrs, Move(p, a)
        PROVE  TunnelInv'
    <2>1. PICK c : c = [client[p] EXCEPT !.addr = a]
      OBVIOUS
    <2>2. client' = [client EXCEPT ![p] = c] /\ net' = net
      BY <1>7, <2>1 DEF Move
    <2>3. /\ c \in ClientState /\ c.pc = client[p].pc
          /\ c.entry = client[p].entry /\ c.attempt = client[p].attempt
          /\ c.addr = a
      BY ONLY <1>2, <2>1, a \in Addrs DEF ClientState
    <2>4. \A e : Announced(e) <=> Announced(e)'
      BY <1>1, <2>2 DEF Announced
    <2>5. ClientKnows'
      BY <1>3, <1>5, <2>2, <2>3, <2>4 DEF ClientKnows
    <2> QED
      BY <1>1, <1>3, <1>4, <2>2, <2>3, <2>5, ClientInv
  <1>8. ASSUME client' = Exited(p), net' = net
        PROVE  TunnelInv'
    <2>1. PICK c : c = [client[p] EXCEPT !.pc = "down", !.entry = None]
      OBVIOUS
    <2>2. c \in ClientState /\ c.pc = "down" /\ c.entry = None
      BY ONLY <1>2, <2>1 DEF ClientState
    <2>3. client' = [client EXCEPT ![p] = c]
      BY <1>8, <2>1 DEF Exited
    <2>4. ClientKnows'
      BY <1>1, <1>5, <1>8, <2>2, <2>3 DEF Announced
    <2> QED
      BY <1>1, <1>3, <1>4, <1>8, <2>2, <2>3, <2>4, ClientInv
  <1>9. ASSUME NEW m \in net, m.type = "B", Answers(m.entry, p), net' = net,
               client[p].pc = "await",
               client' = [client EXCEPT ![p].pc = "up", ![p].entry = m.entry]
        PROVE  TunnelInv'
    <2>1. m.entry \in Ids
      BY <1>3, <1>9, MessageTypes DEF TunnelInv
    <2>2. PICK c : c = [client[p] EXCEPT !.pc = "up", !.entry = m.entry]
      OBVIOUS
    <2>3. /\ c \in ClientState /\ c.pc = "up" /\ c.entry = m.entry
          /\ c.addr = client[p].addr /\ c.attempt = client[p].attempt
      BY ONLY <1>2, <2>1, <2>2 DEF ClientState
    <2>4. client' = [client EXCEPT ![p] = c]
      BY <1>9, <2>2
    <2>5. Announced(m.entry)' /\ answers[m.entry] = <<p, client[p].attempt>>
      BY <1>9 DEF Announced, Answers
    <2>6. client[p].addr \in Addrs
      BY <1>3, <1>9 DEF ClientKnows
    <2>7. \A e : Announced(e) <=> Announced(e)'
      BY <1>1, <1>9 DEF Announced
    <2>8. ClientKnows'
      BY <1>5, <2>1, <2>3, <2>4, <2>5, <2>6, <2>7
    <2> QED
      BY <1>1, <1>3, <1>4, <1>9, <2>3, <2>4, <2>8, ClientInv
  <1> QED
    BY <1>6, <1>7, <1>8, <1>9 DEF ClientStep, ReadB, Deadline, Exit

LEMMA ClientFrameInv ==
  ASSUME TunnelInv, IInv', NEW p \in Peers, ClientFrame(p)
  PROVE  TunnelInv'
  <1>1. UNCHANGED <<peerOf, addrOf, byUDP, udp, next, answers, rebooted,
                    client, net>>
    BY DEF ClientFrame, HandleTransport, BindTunIP, table, server, vars
  <1>2. ClientKnows'
    BY <1>1
       DEF TunnelInv, TunnelTypeOK, ClientKnows, Announced, ClientFrame
  <1> QED
    BY <1>1, <1>2, ClientInv DEF TunnelInv, TunnelTypeOK

\* The new entry is announced to nobody yet.
LEMMA RecvAInv ==
  ASSUME TunnelInv, IInv', NEW m \in net, RecvA(m)
  PROVE  TunnelInv'
  <1> USE DEF TunnelInv
  <1>1. /\ m.addr \in Addrs /\ m.peer \in Peers /\ m.attempt \in Attempts
        /\ udp.pc = "idle" /\ next \in Ids /\ next' = next + 1
        /\ udp' = [pc |-> "reply", addr |-> m.addr, peer |-> m.peer,
                   entry |-> next]
        /\ answers' = [answers EXCEPT ![next] = <<m.peer, m.attempt>>]
        /\ UNCHANGED <<peerOf, addrOf, byUDP, client, net, rebooted>>
    BY MessageTypes
       DEF RecvA, HandshakeA, table, IInv, TypeOK, Ids
  <1>2. udp = UdpIdle
    BY <1>1 DEF IInv, TypeOK, UdpBusy
  <1>3. TunnelTypeOK'
    BY <1>1 DEF TunnelTypeOK, IInv
  <1>4. \A e \in Ids : Announced(e) => e < next
    BY DEF OnTheNet, Announced
  <1>5. OnTheNet'
    BY <1>1, MessageTypes DEF OnTheNet, Ids
  <1>6. MadeFor'
    <2>1. peerOf[next] = None
      BY <1>1 DEF IInv, FreshEntries, Ids
    <2>2. \A e \in Ids : e < next' => e < next \/ e = next
      BY <1>1 DEF Ids
    <2> QED
      BY <1>1, <2>1, <2>2 DEF MadeFor, TunnelTypeOK, Ids
  <1>7. \A e \in Ids : e # next => answers'[e] = answers[e]
    BY <1>1 DEF TunnelTypeOK
  <1>8. ClientKnows'
    BY <1>1, <1>4, <1>7 DEF ClientKnows, Announced, Ids
  <1>9. AllAccounted'
    <2> SUFFICES ASSUME NEW e \in Ids, Announced(e)
                 PROVE  Accounted(e)'
      BY <1>1 DEF AllAccounted, Announced
    <2>1. e < next /\ answers'[e] = answers[e] /\ Accounted(e)
      BY <1>1, <1>4, <1>7 DEF AllAccounted, Ids
    <2>2. e # udp.entry
      BY <1>2, NoneIsNoId DEF UdpIdle
    <2>3. answers[e][1] \in Peers
      BY <2>1 DEF MadeFor
    <2>4. Succeeded(e, answers[e][1]) => Succeeded(e, answers[e][1])'
      BY <1>1, <2>1, <2>3, SuccessorsStay DEF Ids
    <2> QED
      BY <1>1, <2>1, <2>2, <2>4 DEF Accounted, Live
  <1> QED
    BY <1>3, <1>5, <1>6, <1>8, <1>9

\* The entry is announced while it is in the UDP loop's hands; one whose msg B
\* could not be sent is announced to nobody.
LEMMA ReplyBInv ==
  ASSUME TunnelInv, IInv', ReplyB
  PROVE  TunnelInv'
  <1> USE DEF TunnelInv
  <1>1. /\ udp.pc = "reply"
        /\ UNCHANGED <<peerOf, addrOf, byUDP, next, client, answers, rebooted>>
    BY DEF ReplyB, SendB, SendBFails, table
  <1>2. udp.entry \in Ids /\ udp.addr \in Addrs /\ udp.entry < next
    BY <1>1 DEF IInv, TypeOK, UdpIdle, UdpBusy, InFlight
  <1>3. CASE SendB
    <2> DEFINE b == [type |-> "B", addr |-> udp.addr, entry |-> udp.entry]
    <2>1. /\ udp' = [udp EXCEPT !.pc = "evict"]
          /\ net' = net \cup {b}
      BY <1>1, <1>3 DEF ReplyB, SendB, SendBFails, UdpIdle
    <2>2. udp'.entry = udp.entry /\ udp'.peer = udp.peer /\ udp'.pc = "evict"
      BY <1>1, <2>1 DEF IInv, TypeOK, UdpIdle, UdpBusy
    <2>3. b \in MsgB
      BY <1>2 DEF MsgB
    <2>4. TunnelTypeOK'
      BY <1>1, <2>1, <2>3 DEF TunnelTypeOK, IInv
    <2>5. OnTheNet' /\ MadeFor'
      BY <1>1, <1>2, <2>1, <2>2 DEF OnTheNet, MadeFor
    <2>6. ClientKnows'
      BY <1>1, <2>1 DEF ClientKnows, Announced
    <2>7. \A e : Announced(e)' => Announced(e) \/ e = udp.entry
      BY <2>1 DEF Announced
    <2>8. AllAccounted'
      BY <1>1, <2>2, <2>7 DEF AllAccounted, Accounted, Succeeded, Live
    <2> QED
      BY <2>4, <2>5, <2>6, <2>8
  <1>4. CASE SendBFails
    <2>1. udp' = UdpIdle /\ net' = net
      BY <1>1, <1>4 DEF ReplyB, SendB, SendBFails, UdpIdle, IInv, TypeOK,
                        UdpBusy
    <2>2. TunnelTypeOK' /\ OnTheNet' /\ MadeFor' /\ ClientKnows'
      BY <1>1, <2>1
         DEF TunnelTypeOK, IInv, OnTheNet, MadeFor, ClientKnows, Announced,
             UdpIdle
    <2>3. \A e : Announced(e)' => Announced(e) /\ e # udp.entry
      BY <1>1, <2>1 DEF Announced, OnTheNet
    <2>4. AllAccounted'
      BY <1>1, <2>1, <2>3
         DEF AllAccounted, Accounted, Succeeded, Live, UdpIdle
    <2> QED
      BY <2>2, <2>4
  <1> QED
    BY <1>3, <1>4 DEF ReplyB

\* The entry that is evicted was one of the same peer: it has its successor in
\* the UDP loop's hands.
LEMMA EvictInv ==
  ASSUME TunnelInv, IInv', EvictPrior,
         UNCHANGED <<client, net, answers, rebooted>>
  PROVE  TunnelInv'
  <1> USE DEF TunnelInv
  <1> DEFINE n == udp.entry
             old == byPeer[udp.peer]
  <1>1. /\ udp.pc = "evict" /\ udp' = [udp EXCEPT !.pc = "put"]
        /\ udp.peer \in Peers /\ n \in Ids /\ n < next /\ next \in Nat
        /\ UNCHANGED <<peerOf, addrOf, next>>
    BY DEF EvictPrior, Remove, table, IInv, TypeOK, UdpIdle, UdpBusy, InFlight,
           Ids
  <1>2. udp'.entry = n /\ udp'.peer = udp.peer /\ udp'.pc = "put"
    BY <1>1 DEF IInv, TypeOK, UdpIdle, UdpBusy
  <1>3. TunnelTypeOK' /\ OnTheNet' /\ MadeFor' /\ ClientKnows'
    BY <1>1, <1>2
       DEF TunnelTypeOK, IInv, OnTheNet, MadeFor, ClientKnows, Announced
  <1>4. \A e \in Ids : Live(e) =>
          Live(e)' \/ (old # None /\ addrOf[e] = addrOf[old])
    BY <1>1 DEF EvictPrior, Remove, Without, Live, table, IInv, TableInv,
                TableTypeOK
  <1>5. old # None => old \in Ids /\ Live(old) /\ peerOf[old] = udp.peer
    BY <1>1 DEF IInv, TableInv, TableTypeOK, IndexesAgree, Live
  <1>6. \A e \in Ids : Live(e) => Live(e)' \/ (e = old /\ peerOf[e] = udp.peer)
    BY <1>4, <1>5 DEF Live
  <1>7. AllAccounted'
    <2> SUFFICES ASSUME NEW e \in Ids, Announced(e)
                 PROVE  Accounted(e)'
      BY DEF AllAccounted, Announced
    <2>1. e < next /\ Accounted(e) /\ answers[e][1] \in Peers
      BY DEF AllAccounted, OnTheNet, Announced, MadeFor
    <2>2. Succeeded(e, answers[e][1]) => Succeeded(e, answers[e][1])'
      BY <1>1, <2>1, SuccessorsStay
    <2>3. CASE Live(e) /\ ~Live(e)' /\ e # n
      <3>1. peerOf[e] = udp.peer
        BY <1>6, <2>3
      <3>2. answers[e][1] = udp.peer
        BY <1>1, <2>1, <3>1 DEF MadeFor
      <3>3. n > e
        BY <1>1, <2>1, <2>3 DEF MadeFor, Ids
      <3>4. Succeeded(e, answers[e][1])'
        BY <1>1, <1>2, <3>2, <3>3 DEF Succeeded
      <3> QED
        BY <3>4 DEF Accounted
    <2> QED
      BY <1>2, <2>1, <2>2, <2>3 DEF Accounted
  <1> QED
    BY <1>3, <1>7

\* The entry that is displaced was at the endpoint of the one that is put.
LEMMA SessionUpInv ==
  ASSUME TunnelInv, IInv', SessionUp,
         UNCHANGED <<client, net, answers, rebooted>>
  PROVE  TunnelInv'
  <1> USE DEF TunnelInv
  <1> DEFINE n == udp.entry
             a == udp.addr
  <1>1. /\ udp.pc = "put" /\ udp' = UdpIdle
        /\ udp.peer \in Peers /\ a \in Addrs /\ n \in Ids
        /\ n < next /\ next \in Nat /\ next' = next
        /\ peerOf' = [peerOf EXCEPT ![n] = udp.peer]
        /\ addrOf' = [addrOf EXCEPT ![n] = a]
        /\ byUDP' = [byUDP EXCEPT ![a] = n]
    <2>1. /\ udp.pc = "put" /\ udp' = UdpIdle /\ next' = next
          /\ peerOf' = [peerOf EXCEPT ![n] = udp.peer]
          /\ addrOf' = [addrOf EXCEPT ![n] = a]
          /\ byUDP' = [byUDP EXCEPT ![a] = n]
      BY DEF SessionUp, Put
    <2>2. udp \in UdpBusy
      BY <2>1 DEF IInv, TypeOK, UdpIdle
    <2>3. udp.peer \in Peers /\ a \in Addrs /\ n \in Ids
      BY <2>2 DEF UdpBusy
    <2>4. n < next /\ next \in Nat
      BY <2>1, BoundAssumption DEF IInv, TypeOK, InFlight
    <2> QED
      BY <2>1, <2>3, <2>4
  <1>2. /\ peerOf[n] = None /\ addrOf[n] = None
        /\ peerOf'[n] = udp.peer /\ addrOf'[n] = a /\ byUDP'[a] = n
        /\ \A e \in Ids \ {n} : peerOf'[e] = peerOf[e] /\ addrOf'[e] = addrOf[e]
        /\ \A b \in Addrs \ {a} : byUDP'[b] = byUDP[b]
    BY <1>1 DEF IInv, FreshEntries, TableInv, TableTypeOK
  <1>3. answers[n][1] = udp.peer /\ next = n + 1
    BY <1>1 DEF MadeFor
  <1>4. TunnelTypeOK' /\ OnTheNet' /\ ClientKnows'
    BY <1>1 DEF TunnelTypeOK, IInv, OnTheNet, ClientKnows, Announced, UdpIdle
  <1>5. MadeFor'
    BY <1>1, <1>2, <1>3 DEF MadeFor, UdpIdle
  <1>6. AllAccounted'
    <2> SUFFICES ASSUME NEW e \in Ids, Announced(e)
                 PROVE  Accounted(e)'
      BY DEF AllAccounted, Announced
    <2>1. e < next /\ Accounted(e) /\ answers[e][1] \in Peers
      BY DEF AllAccounted, OnTheNet, Announced, MadeFor
    <2>2. Succeeded(e, answers[e][1]) => Succeeded(e, answers[e][1])'
      BY <1>1, <1>2, <2>1, SuccessorsStay
    <2>3. CASE e = n
      BY <1>1, <1>2, <2>3 DEF Accounted, Live
    <2>4. CASE e # n /\ Live(e) /\ addrOf[e] # a
      <3>1. addrOf[e] \in Addrs \ {a}
        BY <2>4 DEF Live, IInv, TableInv, TableTypeOK
      <3> QED
        BY <1>2, <2>4, <3>1 DEF Accounted, Live
    <2>5. CASE e # n /\ addrOf[e] = a
      <3>1. n > e
        BY <1>1, <1>3, <2>1, <2>5 DEF Ids
      <3>2. Succeeded(e, answers[e][1])'
        BY <1>1, <1>2, <2>5, <3>1 DEF Succeeded
      <3> QED
        BY <3>2 DEF Accounted
    <2> QED
      BY <2>1, <2>2, <2>3, <2>4, <2>5 DEF Accounted
  <1> QED
    BY <1>4, <1>5, <1>6

\* A restart loses every session that was made before it.
LEMMA ServerRestartInv ==
  ASSUME TunnelInv, IInv', ServerRestart
  PROVE  TunnelInv'
  <1> USE DEF TunnelInv
  <1>1. /\ udp' = UdpIdle /\ rebooted' = next
        /\ UNCHANGED <<peerOf, addrOf, next, client, net, answers>>
    BY DEF ServerRestart, Restart
  <1>2. TunnelTypeOK' /\ OnTheNet' /\ MadeFor' /\ ClientKnows'
    BY <1>1 DEF TunnelTypeOK, IInv, TypeOK, OnTheNet, MadeFor, ClientKnows,
                Announced, UdpIdle
  <1>3. AllAccounted'
    BY <1>1 DEF AllAccounted, Announced, OnTheNet, Accounted
  <1> QED
    BY <1>2, <1>3

LEMMA TunnelStep == TunnelInv /\ [TunnelNext]_tunnelVars => TunnelInv'
  <1> SUFFICES ASSUME TunnelInv, [TunnelNext]_tunnelVars PROVE TunnelInv'
    OBVIOUS
  <1>1. IInv'
    BY ServerSteps, NextIInv DEF TunnelInv
  <1>2. CASE UNCHANGED tunnelVars
    <2>1. UNCHANGED <<peerOf, addrOf, byUDP, udp, next, answers, rebooted,
                      client, net>>
      BY <1>2 DEF tunnelVars, vars, table
    <2>2. ClientKnows'
      BY <2>1 DEF TunnelInv, ClientKnows, Announced
    <2> QED
      BY <1>1, <2>1, <2>2, ClientInv DEF TunnelInv, TunnelTypeOK
  <1>3. CASE Install
    BY <1>1, <1>3, EvictInv, SessionUpInv DEF Install
  <1> QED
    BY <1>1, <1>2, <1>3, ClientStepInv, ClientFrameInv, RecvAInv, ReplyBInv,
       ServerRestartInv
       DEF TunnelNext, ServerStep

LEMMA TunnelInductive == TunnelSpec => []TunnelInv
  BY TunnelInitInv, TunnelStep, PTL DEF TunnelSpec

-----------------------------------------------------------------------------
\* Clients, datagrams and the entries' histories keep their types.
THEOREM TunnelTypes == TunnelSpec => []TunnelTypeOK
  <1>1. TunnelInv => TunnelTypeOK
    BY DEF TunnelInv
  <1> QED
    BY <1>1, TunnelInductive, PTL

\* Behind the network the server is the one that was proved right on its own:
\* what holds of it with an arbitrary environment holds here.
THEOREM TunnelRunsServer == TunnelSpec => Spec
  <1>1. TunnelInit => Init
    BY DEF TunnelInit
  <1>2. TunnelInv /\ [TunnelNext]_tunnelVars => [Next]_vars
    BY ServerSteps
  <1> QED
    BY <1>1, <1>2, TunnelInductive, PTL DEF TunnelSpec, Spec

\* A connected client whose frames are dropped moved to another endpoint, or was
\* cut off by a restart of the server or by a session that took its place, its
\* own or one at its endpoint, and by nothing else (sessman: Put, Remove;
\* tun-server main.go: handleHandshakeA, handleTransport, main).
THEOREM CutOffBySuccessorOnly == TunnelSpec => []LostOnlyToSuccessor
  <1>1. TunnelInv => LostOnlyToSuccessor
    <2> SUFFICES ASSUME TunnelInv, NEW p \in Peers, client[p].pc = "up",
                        ~Heard(p)
                 PROVE  LET e == client[p].entry
                        IN \/ e = udp.entry \/ e < rebooted
                           \/ Succeeded(e, p) \/ Moved(e, p)
      BY DEF LostOnlyToSuccessor
    <2> DEFINE e == client[p].entry
    <2>1. e \in Ids /\ Announced(e) /\ answers[e] = <<p, client[p].attempt>>
      BY DEF TunnelInv, ClientKnows
    <2>2. Accounted(e)
      BY <2>1 DEF TunnelInv, AllAccounted
    <2>3. CASE Live(e)
      BY <2>3 DEF Live, Heard, Moved
    <2> QED
      BY <2>1, <2>2, <2>3 DEF Accounted
  <1> QED
    BY <1>1, TunnelInductive, PTL
=============================================================================
