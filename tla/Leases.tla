------------------------------- MODULE Leases --------------------------------
(***************************************************************************)
(* The tunnel-address leases of the control plane (control-plane/          *)
(* daemon.js).  Every daemon keeps a table of its own in a file: the       *)
(* server's, which Windows, Android and web clients ask for a lease, and   *)
(* the one on each Linux desktop, which leases to itself when it connects. *)
(* A handler reads the file, decides and writes it back without awaiting   *)
(* anything in between, so each is one step.                               *)
(*                                                                         *)
(* A lease is the text of an address.  What the code compares is the text; *)
(* what a tunnel is configured with is the address it denotes: the network *)
(* and the last octet, however they are spelled (02 and 002 are 2).        *)
(***************************************************************************)
EXTENDS Integers

CONSTANTS Daemons,
          ClientIds,
          Nets,          \* the first three octets
          TunnelNet,     \* those of TUNNEL_GATEWAY
          GatewayHost,   \* the last octet of TUNNEL_GATEWAY
          LeaseStart,    \* TUNNEL_LEASE_START
          LeaseEnd,      \* TUNNEL_LEASE_END
          Hosts,         \* last octets that clients ask for
          Spellings,     \* ways to write an address: with leading zeros or not
          Plainly,       \* without any, as the daemon itself writes one
          None

ASSUME NetAssumption == TunnelNet \in Nets /\ Plainly \in Spellings
ASSUME RangeAssumption ==
  /\ LeaseStart \in Nat
  /\ LeaseEnd \in Nat
  /\ GatewayHost \in Nat
  /\ Hosts \subseteq Nat

Texts == [net : Nets, host : Nat, spelling : Spellings]

ASSUME NoneAssumption == None \notin Texts

VARIABLE leases          \* per daemon and client: the leased text

vars == <<leases>>

Plain(i) == [net |-> TunnelNet, host |-> i, spelling |-> Plainly]
Gateway == Plain(GatewayHost)
Range == LeaseStart .. LeaseEnd

TypeOK == leases \in [Daemons -> [ClientIds -> Texts \cup {None}]]

Init == leases = [d \in Daemons |-> [c \in ClientIds |-> None]]

-----------------------------------------------------------------------------
(* allocateTunnelLease.                                                    *)

Used(d) == {leases[d][c] : c \in ClientIds} \ {None}

\* Mutation: the request is not looked up among the used addresses.
Acceptable_EvenIfUsed(d, text) ==
  /\ text # None
  /\ text.host \in Range
  /\ text # Gateway

Acceptable(d, text) ==
  /\ text # None
  /\ text.host \in Range
  /\ text \notin Used(d)
  /\ text # Gateway

Free(d) == {i \in Range : Plain(i) # Gateway /\ Plain(i) \notin Used(d)}

LowestFree(d) == {i \in Free(d) : \A j \in Free(d) : i <= j}

Grant(d, c, text) == leases' = [leases EXCEPT ![d][c] = text]

\* A client with a lease keeps it, and its request is ignored.  Another gets
\* the address it asks for, or else the lowest free one; when none is free
\* the handler throws and the table stays as it was.
Allocate(d, c, text) ==
  /\ leases[d][c] = None
  /\ \/ Acceptable(d, text) /\ Grant(d, c, text)
     \/ /\ ~Acceptable(d, text)
        /\ \E i \in LowestFree(d) : Grant(d, c, Plain(i))

\* releaseTunnelLease.
Release(d, c) ==
  /\ leases[d][c] # None
  /\ leases' = [leases EXCEPT ![d][c] = None]

\* The daemon dies while writeJson rewrites the file in place: readJson then
\* finds no JSON in it and falls back to an empty table.
TornWrite(d) ==
  leases' = [leases EXCEPT ![d] = [c \in ClientIds |-> None]]

Requests == [net : Nets, host : Hosts, spelling : Spellings] \cup {None}

Next ==
  \E d \in Daemons :
    \/ \E c \in ClientIds :
         Release(d, c) \/ \E text \in Requests : Allocate(d, c, text)
    \/ TornWrite(d)

Spec == Init /\ [][Next]_vars

-----------------------------------------------------------------------------
(* Properties.                                                             *)

\* The address that a text denotes, by the reading of leaseIpHostPart.
Address(text) == <<text.net, text.host>>

\* A daemon leases one address to two clients, or the gateway's to one, only
\* where a client asked for it in another spelling; otherwise an address has
\* one holder, also after leases were released, reused or lost.
SharedOnlyBySpelling ==
  \A d \in Daemons : \A b, c \in ClientIds :
    leases[d][c] # None =>
      /\ leases[d][c].host \in Range
      /\ Address(leases[d][c]) = Address(Gateway) =>
           leases[d][c].spelling # Plainly
      /\ b # c /\ leases[d][b] # None /\ Address(leases[d][b]) = Address(leases[d][c])
           => leases[d][b].spelling # leases[d][c].spelling

\* A lease is never swapped for another, whatever its client asks for and
\* whatever other clients lease and release: it only ends.
NeverSwapped ==
  [][\A d \in Daemons : \A c \in ClientIds :
       leases[d][c] # None => leases'[d][c] \in {leases[d][c], None}]_vars
=============================================================================
