------------------------------- MODULE Tunnel --------------------------------
(***************************************************************************)
(* Clients (cmd/tun-client), the UDP network and the tunnel server, from   *)
(* the first handshake message to the loss of a session.  A client process *)
(* runs the handshake once: it sends msg A, reads one datagram, and either *)
(* has its session or exits.  It never handshakes again while it runs, so  *)
(* what the server does to its table later is invisible to it.             *)
(*                                                                         *)
(* net holds every handshake datagram ever sent: one that is never read is *)
(* lost, one read twice was duplicated, one read late was delayed.  The    *)
(* server's TUN loop and allowlist are left out here (TunServer has them); *)
(* every client is on the allowlist.                                       *)
(***************************************************************************)
EXTENDS TunServer

CONSTANT MaxStarts       \* bound: handshakes each client attempts

ASSUME StartsAssumption == MaxStarts \in Nat

VARIABLES client,        \* per client: pc, its endpoint as the server sees
                         \* it, its attempt, the server entry it pairs with
          net,           \* handshake datagrams
          answers,       \* history: the attempt each entry was made for
          rebooted       \* history: entries below this predate a restart

server == vars
tunnelVars == <<vars, client, net, answers, rebooted>>

Attempts == 1 .. MaxStarts
MsgA == [type : {"A"}, addr : Addrs, peer : Peers, attempt : Attempts]
MsgB == [type : {"B"}, addr : Addrs, entry : Ids]

ClientState ==
  [pc : {"down", "await", "up"}, addr : Addrs \cup {None},
   attempt : 0 .. MaxStarts, entry : Ids \cup {None}]

\* Typing of clients, datagrams and answers.
TunnelTypeOK ==
  /\ TypeOK
  /\ client \in [Peers -> ClientState]
  /\ net \subseteq MsgA \cup MsgB
  /\ answers \in [Ids -> (Peers \X Attempts) \cup {None}]
  /\ rebooted \in 1 .. (MaxSessions + 1)

TunnelInit ==
  /\ Init
  /\ enrolled = Peers
  /\ client = [p \in Peers |->
       [pc |-> "down", addr |-> None, attempt |-> 0, entry |-> None]]
  /\ net = {}
  /\ answers = [e \in Ids |-> None]
  /\ rebooted = 1

-----------------------------------------------------------------------------
(* The client.                                                             *)

Running(p) == client[p].pc # "down"
Unused(a) == \A q \in Peers : Running(q) => client[q].addr # a

\* The process starts, dials from a port of its own and sends msg A.
Start(p, a) ==
  /\ ~Running(p)
  /\ client[p].attempt < MaxStarts
  /\ Unused(a)
  /\ LET n == client[p].attempt + 1
     IN /\ client' = [client EXCEPT ![p] =
             [pc |-> "await", addr |-> a, attempt |-> n, entry |-> None]]
        /\ net' = net \cup
             {[type |-> "A", addr |-> a, peer |-> p, attempt |-> n]}
  /\ UNCHANGED <<server, answers, rebooted>>

\* Mutation: a msg B for any attempt of this client opens.
Answers_AnyAttempt(e, p) == answers[e][1] = p

\* msg B opens only under the ephemeral key of the attempt it answers.
Answers(e, p) == answers[e] = <<p, client[p].attempt>>

Exited(p) == [client EXCEPT ![p].pc = "down", ![p].entry = None]

\* The one read of the handshake returns msg B: up, or the process exits.
ReadB(p, m) ==
  /\ client[p].pc = "await"
  /\ m.type = "B"
  /\ m.addr = client[p].addr
  /\ client' = IF Answers(m.entry, p)
               THEN [client EXCEPT ![p].pc = "up", ![p].entry = m.entry]
               ELSE Exited(p)
  /\ UNCHANGED <<server, net, answers, rebooted>>

\* Nothing came within handshakeTimeout (or what came was no msg B).
Deadline(p) ==
  /\ client[p].pc = "await"
  /\ client' = Exited(p)
  /\ UNCHANGED <<server, net, answers, rebooted>>

\* A signal or an error of either loop ends the process.
Exit(p) ==
  /\ client[p].pc = "up"
  /\ client' = Exited(p)
  /\ UNCHANGED <<server, net, answers, rebooted>>

\* The NAT in front of a client gives it another endpoint.
Move(p, a) ==
  /\ Running(p)
  /\ Unused(a)
  /\ client' = [client EXCEPT ![p].addr = a]
  /\ UNCHANGED <<server, net, answers, rebooted>>

\* The UDP loop finds the client's entry at the endpoint a frame comes from.
Heard(p) == byUDP[client[p].addr] = client[p].entry

\* An inner packet of a connected client reaches the UDP loop, which drops it,
\* and changes nothing, unless it finds the client's entry.
ClientFrame(p) ==
  /\ client[p].pc = "up"
  /\ Heard(p)
  /\ \E src \in IPs :
       HandleTransport(client[p].addr, client[p].entry, src)
  /\ UNCHANGED <<client, net, answers, rebooted>>

-----------------------------------------------------------------------------
(* The server, fed from the network.                                       *)

RecvA(m) ==
  /\ m.type = "A"
  /\ HandshakeA(m.addr, m.peer)
  /\ answers' = [answers EXCEPT ![next] = <<m.peer, m.attempt>>]
  /\ UNCHANGED <<client, net, rebooted>>

ReplyB ==
  /\ \/ SendB /\ net' = net \cup
           {[type |-> "B", addr |-> udp.addr, entry |-> udp.entry]}
     \/ SendBFails /\ UNCHANGED net
  /\ UNCHANGED <<client, answers, rebooted>>

Install ==
  /\ EvictPrior \/ SessionUp
  /\ UNCHANGED <<client, net, answers, rebooted>>

ServerRestart ==
  /\ Restart
  /\ rebooted' = next
  /\ UNCHANGED <<client, net, answers>>

ClientStep(p) ==
  \/ \E a \in Addrs : Start(p, a) \/ Move(p, a)
  \/ \E m \in net : ReadB(p, m)
  \/ Deadline(p)
  \/ Exit(p)

ServerStep ==
  \/ \E m \in net : RecvA(m)
  \/ ReplyB
  \/ Install
  \/ ServerRestart

TunnelNext ==
  \/ ServerStep
  \/ \E p \in Peers : ClientStep(p) \/ ClientFrame(p)

TunnelSpec == TunnelInit /\ [][TunnelNext]_tunnelVars

\* The UDP goroutine, once it has written msg B, runs its handler to the end.
FairTunnelSpec == TunnelSpec /\ WF_tunnelVars(Install)

-----------------------------------------------------------------------------
(* Properties.                                                             *)

\* e lost its place to a later entry: one of its peer, or one that took its
\* endpoint, whatever became of that entry since.
Succeeded(e, p) ==
  \E f \in Ids :
    /\ f > e
    /\ f < next
    /\ \/ f = udp.entry /\ udp.pc = "put" /\ udp.peer = p
       \/ peerOf[f] = p
       \/ addrOf[f] # None /\ addrOf[f] = addrOf[e]

\* The client's NAT gave it another endpoint than its entry has.
Moved(e, p) == addrOf[e] # None /\ client[p].addr # addrOf[e]

\* A connected client whose frames are dropped (for ever, as it never handshakes
\* again) moved to another endpoint, or lost its session to a restart of the
\* server, to a later handshake of its own, or to a client that took over its
\* endpoint: never to anything else another client did.  While the UDP loop still
\* holds its entry no frame is read.
LostOnlyToSuccessor ==
  \A p \in Peers : client[p].pc = "up" /\ ~Heard(p) =>
    LET e == client[p].entry
    IN e = udp.entry \/ e < rebooted \/ Succeeded(e, p) \/ Moved(e, p)

\* msg B is sent before the table knows the session, so a client is connected
\* before the server could hear it; but the session is then installed.
ServedEventually ==
  \A p \in Peers, e \in Ids :
    client[p].pc = "up" /\ client[p].entry = e ~>
      Live(e) \/ e < rebooted \/ Succeeded(e, p)
=============================================================================
