---------------------------- MODULE KeepalivePath ----------------------------
(***************************************************************************)
(* The UDP keep-alive path: cmd/server, the reconnecting cmd/worker and    *)
(* the one-shot cmd/client, over a network that loses, duplicates, delays  *)
(* and reorders datagrams.                                                 *)
(*                                                                         *)
(* The server runs a goroutine per datagram.  A handler changes the table  *)
(* in one critical section and sends after it, so a handler is one step:   *)
(* every order of the goroutines, and of their sends, is an order in which *)
(* the network may deliver.                                                *)
(*                                                                         *)
(* A session key is named by what went into it: the client's ephemeral key *)
(* (its peer and attempt) and the server's (a fresh `salt` per accepted    *)
(* hello).  A sealed datagram opens under its own key only.  Each fault    *)
(* (a loss, a copy, a datagram later than a deadline, an expiry, a restart *)
(* of the server) counts against MaxFaults.                                *)
(***************************************************************************)
EXTENDS Integers, FiniteSets

CONSTANTS Peers,          \* processes of cmd/worker and cmd/client
          OneShot,        \* those that run cmd/client
          Enrolled,       \* those known to have the server's PROTO_PSK
          Endpoints,      \* addresses a peer's socket may be bound to
          None,
          MaxAttempts,    \* bound: handshakes a peer starts
          MaxSalts,       \* bound: sessions the server sets up
          MaxSeq,         \* bound: keep-alives in a session
          MaxFaults       \* bound: faults in a behavior

ASSUME KeepaliveAssumption ==
  /\ OneShot \subseteq Peers /\ Enrolled \subseteq Peers
  /\ {MaxAttempts, MaxSalts, MaxSeq, MaxFaults} \subseteq Nat
  /\ MaxSeq > 0
  /\ None \notin Endpoints

VARIABLES sessions,       \* the server's table, by remote address
          peer,           \* each client process
          net,            \* datagrams in flight
          salts,          \* server key pairs generated so far
          faults,         \* faults so far
          sent,           \* history: pings sealed, as <<key, seq>>
          heard,          \* history: those the server counted
          again,          \* history: those it counted more than once
          copies          \* history: answers the network duplicated

vars == <<sessions, peer, net, salts, faults, sent, heard, again, copies>>

Keys == [by : Peers, attempt : 1 .. MaxAttempts, salt : 1 .. MaxSalts]
Pings == Keys \X (0 .. MaxSeq - 1)

Session(key, seqIn, seqOut) == [key |-> key, seqIn |-> seqIn, seqOut |-> seqOut]
NewSession_FromOne(key) == Session(key, 0, 0)
NewSession(key) == Session(key, -1, 0)

Process(pc, at, attempt, key, seq) ==
  [pc |-> pc, at |-> at, attempt |-> attempt, key |-> key, seq |-> seq]

Init ==
  /\ sessions = [e \in Endpoints |-> None]
  /\ peer = [p \in Peers |-> Process("down", None, 0, None, 0)]
  /\ net = {}
  /\ salts = 0
  /\ faults = 0
  /\ sent = {}
  /\ heard = {} /\ again = {}
  /\ copies = 0

Hello(e, p, n, auth) ==
  [type |-> "hello", from |-> e, by |-> p, attempt |-> n, auth |-> auth]
Data(e, key, seq) == [type |-> "data", from |-> e, key |-> key, seq |-> seq]
HelloAck(e, s) == [type |-> "hello_ack", to |-> e, salt |-> s]
DataAck(e, key, seq) == [type |-> "data_ack", to |-> e, key |-> key, seq |-> seq]
ErrorTo(e) == [type |-> "error", to |-> e]

ToServer(m) == m.type \in {"hello", "data"}
Address(m) == IF ToServer(m) THEN m.from ELSE m.to
Quiet(e) == \A m \in net : Address(m) # e

Fault == faults < MaxFaults /\ faults' = faults + 1
NoFault == UNCHANGED faults

\* A datagram is read: the network had one copy of it, or more.
Read(m, answer) ==
  \/ net' = (net \ {m}) \cup answer /\ NoFault /\ UNCHANGED copies
  \/ /\ Fault
     /\ net' = net \cup answer
     /\ copies' = copies + (IF ToServer(m) THEN 0 ELSE 1)

-----------------------------------------------------------------------------
\* cmd/server.

HandleHello(m) ==
  /\ m.type = "hello"
  /\ UNCHANGED <<peer, sent, heard, again>>
  /\ \/ /\ ~m.auth
        /\ Read(m, {ErrorTo(m.from)})
        /\ UNCHANGED <<sessions, salts>>
     \/ /\ m.auth
        /\ salts < MaxSalts
        /\ salts' = salts + 1
        /\ sessions' = [sessions EXCEPT ![m.from] = NewSession(
             [by |-> m.by, attempt |-> m.attempt, salt |-> salts'])]
        /\ Read(m, {HelloAck(m.from, salts')})

\* The sequence check of handleData.
Fresh_AdmitsEqual(s, m) == m.seq >= s.seqIn
Fresh(s, m) == m.seq > s.seqIn

\* A datagram with an old number is dropped in silence.
AnswerToOld_Repeated(s, m) == {DataAck(m.from, s.key, s.seqOut)}
AnswerToOld(s, m) == {}

HandleData(m) ==
  LET s == sessions[m.from] IN
  /\ m.type = "data"
  /\ UNCHANGED <<peer, salts, sent>>
  /\ \/ /\ s # None /\ Fresh(s, m) /\ m.key = s.key
        /\ sessions' = [sessions EXCEPT ![m.from] =
                                        Session(s.key, m.seq, s.seqOut + 1)]
        /\ heard' = heard \cup {<<s.key, m.seq>>}
        /\ again' = again \cup (heard \cap {<<s.key, m.seq>>})
        /\ Read(m, {DataAck(m.from, s.key, s.seqOut)})
     \/ /\ s # None /\ ~Fresh(s, m)
        /\ Read(m, AnswerToOld(s, m))
        /\ UNCHANGED <<sessions, heard, again>>
     \/ /\ s # None => Fresh(s, m) /\ m.key # s.key
        /\ Read(m, {ErrorTo(m.from)})       \* no_session, decrypt_failed
        /\ UNCHANGED <<sessions, heard, again>>

HandlePacket == \E m \in net : HandleHello(m) \/ HandleData(m)

\* gcLoop: the sessions that have been silent for longer than the TTL.
GcTick ==
  \E silent \in SUBSET {e \in Endpoints : sessions[e] # None} \ {{}} :
    /\ Fault
    /\ sessions' = [e \in Endpoints |-> IF e \in silent THEN None ELSE sessions[e]]
    /\ UNCHANGED <<peer, net, salts, sent, heard, again, copies>>

\* The table is in memory only.
Restart ==
  /\ Fault
  /\ \E e \in Endpoints : sessions[e] # None
  /\ sessions' = [e \in Endpoints |-> None]
  /\ UNCHANGED <<peer, net, salts, sent, heard, again, copies>>

-----------------------------------------------------------------------------
\* cmd/worker and cmd/client.  Both write one datagram and read one.

Waiting(p) == peer[p].pc \in {"hello", "ping"}

\* runOnce from a new socket; datagrams of an earlier one are gone, or late.
Dial(p, e) ==
  /\ peer[p].pc = "down"
  /\ peer[p].attempt < MaxAttempts
  /\ \A q \in Peers : peer[q].at # e
  /\ \/ Quiet(e) /\ NoFault
     \/ ~Quiet(e) /\ Fault
  /\ peer' = [peer EXCEPT ![p] =
                Process("hello", e, peer[p].attempt + 1, None, 0)]
  /\ \E auth \in BOOLEAN :
       /\ p \in Enrolled => auth
       /\ net' = net \cup {Hello(e, p, peer[p].attempt + 1, auth)}
  /\ UNCHANGED <<sessions, salts, sent, heard, again, copies>>

\* sendPing up to its read.
SendPing(p, key, seq) ==
  /\ peer' = [peer EXCEPT ![p] =
                Process("ping", peer[p].at, peer[p].attempt, key, seq)]
  /\ sent' = sent \cup {<<key, seq>>}

\* An error ends runOnce, which is tried again, and the one-shot client.
Fail(p) ==
  peer' = [peer EXCEPT ![p] = Process(IF p \in OneShot THEN "exit" ELSE "down",
                                      None, peer[p].attempt, None, 0)]

\* handshake from its read on: any hello_ack is taken.
ReadHelloAck(p, m) ==
  LET key == [by |-> p, attempt |-> peer[p].attempt, salt |-> m.salt] IN
  /\ peer[p].pc = "hello" /\ m.type = "hello_ack"
  /\ SendPing(p, key, 0)
  /\ Read(m, {Data(m.to, key, 0)})

\* sendPing from its read on: the answer must open, whatever its number.
ReadDataAck(p, m) ==
  /\ peer[p].pc = "ping" /\ m.type = "data_ack" /\ m.key = peer[p].key
  /\ peer' = [peer EXCEPT ![p] =
                IF p \in OneShot
                THEN Process("exit", None, peer[p].attempt, m.key, peer[p].seq)
                ELSE Process("idle", m.to, peer[p].attempt, m.key, peer[p].seq)]
  /\ Read(m, {})
  /\ UNCHANGED sent

ReadOther(p, m) ==
  /\ Waiting(p)
  /\ ~(peer[p].pc = "hello" /\ m.type = "hello_ack")
  /\ ~(peer[p].pc = "ping" /\ m.type = "data_ack" /\ m.key = peer[p].key)
  /\ Fail(p)
  /\ Read(m, {})
  /\ UNCHANGED sent

Receive(p) ==
  \E m \in net :
    /\ ~ToServer(m) /\ m.to = peer[p].at
    /\ ReadHelloAck(p, m) \/ ReadDataAck(p, m) \/ ReadOther(p, m)
    /\ UNCHANGED <<sessions, salts, heard, again>>

\* cmd/worker sets a deadline of 8 s on each read, cmd/client sets none.
HasDeadline_PingOnly(p) == p \notin OneShot /\ peer[p].pc = "ping"
HasDeadline(p) == p \notin OneShot

\* It passes: nothing is coming, or it comes too late.
Timeout(p) ==
  /\ Waiting(p) /\ HasDeadline(p)
  /\ \/ Quiet(peer[p].at) /\ NoFault
     \/ ~Quiet(peer[p].at) /\ Fault
  /\ Fail(p)
  /\ UNCHANGED <<sessions, net, salts, sent, heard, again, copies>>

\* The ticker of runOnce.
Tick(p) ==
  /\ peer[p].pc = "idle"
  /\ peer[p].seq + 1 < MaxSeq
  /\ SendPing(p, peer[p].key, peer[p].seq + 1)
  /\ net' = net \cup {Data(peer[p].at, peer[p].key, peer[p].seq + 1)}
  /\ UNCHANGED <<sessions, salts, faults, heard, again, copies>>

-----------------------------------------------------------------------------
\* The network loses a datagram, or has no socket to deliver it to.
Lose ==
  \E m \in net :
    /\ Fault
    /\ net' = net \ {m}
    /\ UNCHANGED <<sessions, peer, salts, sent, heard, again, copies>>

Undeliverable ==
  \E m \in net :
    /\ ~ToServer(m)
    /\ \A p \in Peers : peer[p].at # m.to
    /\ net' = net \ {m}
    /\ UNCHANGED <<sessions, peer, salts, faults, sent, heard, again, copies>>

Client(p) ==
  \/ \E e \in Endpoints : Dial(p, e)
  \/ Receive(p)
  \/ Timeout(p)
  \/ Tick(p)

Next ==
  \/ HandlePacket
  \/ GcTick
  \/ Restart
  \/ \E p \in Peers : Client(p)
  \/ Lose
  \/ Undeliverable

Spec == Init /\ [][Next]_vars

FairSpec ==
  /\ Spec
  /\ WF_vars(HandlePacket)
  /\ WF_vars(Undeliverable)
  /\ \A p \in Peers : WF_vars(Client(p))

-----------------------------------------------------------------------------
SessionType == [key : Keys, seqIn : -1 .. MaxSeq - 1, seqOut : 0 .. MaxSeq]
ASSUME TableAssumption == None \notin SessionType

PeerType ==
  [pc : {"down", "hello", "ping", "idle", "exit"}, at : Endpoints \cup {None},
   attempt : 0 .. MaxAttempts, key : Keys \cup {None}, seq : 0 .. MaxSeq - 1]

Hellos == [type : {"hello"}, from : Endpoints, by : Peers,
           attempt : 1 .. MaxAttempts, auth : BOOLEAN]
Datas == [type : {"data"}, from : Endpoints, key : Keys, seq : 0 .. MaxSeq - 1]
HelloAcks == [type : {"hello_ack"}, to : Endpoints, salt : 1 .. MaxSalts]
DataAcks == [type : {"data_ack"}, to : Endpoints, key : Keys, seq : 0 .. MaxSeq]
Errors == [type : {"error"}, to : Endpoints]
Datagrams == Hellos \cup Datas \cup HelloAcks \cup DataAcks \cup Errors

\* Typing of the server's table, of the peers, of the datagrams and of the
\* counters.
TypeOK ==
  /\ sessions \in [Endpoints -> SessionType \cup {None}]
  /\ peer \in [Peers -> PeerType]
  /\ net \subseteq Datagrams
  /\ salts \in 0 .. MaxSalts /\ faults \in 0 .. MaxFaults
  /\ sent \subseteq Pings /\ heard \subseteq Pings /\ again \subseteq Pings
  /\ copies \in 0 .. MaxFaults

HeardOf(key) == {f \in heard : f[1] = key}

\* A worker that reports "keepalive ok seq=n" has n answers more behind it,
\* and sendPing never compares an answer's number with the ping's: its view
\* runs ahead of what the server has counted by no more than the answers
\* the network duplicated, and the server has heard it in this session.
OkMeansHeard ==
  \A p \in Peers :
    peer[p].pc = "idle" =>
      /\ HeardOf(peer[p].key) # {}
      /\ Cardinality(HeardOf(peer[p].key)) >= peer[p].seq + 1 - copies

\* Every reconnection has its cause: a worker starts over at most once for
\* each loss, copy, late datagram, expiry or restart.  Neither a session
\* replaced by a copied hello nor an answer to an earlier ping sets off more.
ReconnectNeedsFault ==
  \A p \in Enrolled \ OneShot : peer[p].attempt <= faults + 1

\* A ping is counted only if it was sealed, and once however often it
\* arrives and in whichever order: each key's pings are a channel that
\* delivers at most once.
PingChannel == INSTANCE AtMostOnce WITH
  Frames <- Pings, offered <- sent,
  copies <- [f \in Pings |-> IF f \in again THEN 2
                           ELSE IF f \in heard THEN 1 ELSE 0]
PingSpec == PingChannel!Spec

\* Whatever is lost, copied, late, expired or restarted, an enrolled worker
\* is acknowledged again once the faults stop.
AcknowledgedAgain ==
  \A p \in Enrolled \ OneShot : []<>(peer[p].pc = "idle")

=============================================================================
