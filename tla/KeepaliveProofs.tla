--------------------------- MODULE KeepaliveProofs ---------------------------
(***************************************************************************)
(* The server counts a ping once, for every number of peers, endpoints,    *)
(* sessions, pings and faults.  A second count is refused because the      *)
(* session's `seqIn` is the largest number heard under its key, and that   *)
(* is so because no key is ever in the table twice, neither at two         *)
(* addresses nor after a restart: each key has a salt of its own.          *)
(*                                                                         *)
(* From the same invariant and one of their own follow what a worker's     *)
(* "keepalive ok" is worth (AnswersInv) and that it reconnects only for a  *)
(* reason (CauseInv).                                                      *)
(***************************************************************************)
EXTENDS KeepalivePath, FiniteSetTheorems, TLAPS

\* What the table knows of the pings that were counted.
Table ==
  /\ \A e \in Endpoints : sessions[e] # None =>
       /\ sessions[e].key.salt <= salts
       /\ sessions[e].seqOut <= sessions[e].seqIn + 1
       /\ \A n \in 0 .. MaxSeq - 1 :
            <<sessions[e].key, n>> \in heard => n <= sessions[e].seqIn
  /\ \A e, f \in Endpoints :
       sessions[e] # None /\ sessions[f] # None
         /\ sessions[e].key.salt = sessions[f].key.salt => e = f

\* A counted ping was sealed, under the key of a session made so far.
Counted ==
  /\ again = {}
  /\ heard \subseteq sent
  /\ \A k \in Keys, n \in 0 .. MaxSeq - 1 : <<k, n>> \in heard => k.salt <= salts

\* A ping in flight was sealed by a peer.
Sealed == \A m \in net : m.type = "data" => <<m.key, m.seq>> \in sent

\* A peer that waits has a socket, and a key once it pings.
Underway ==
  \A p \in Peers :
    /\ peer[p].pc \in {"hello", "ping", "idle"}
         => peer[p].at \in Endpoints /\ peer[p].attempt >= 1
    /\ peer[p].pc \in {"ping", "idle"} => peer[p].key \in Keys

IInv == TypeOK /\ Table /\ Counted /\ Sealed /\ Underway /\ copies <= faults

-----------------------------------------------------------------------------
\* Reading a datagram, or a copy of it, adds the answer to the network.
LEMMA ReadIInv ==
  ASSUME IInv, NEW m \in net, NEW answer, answer \subseteq Datagrams,
         sent \subseteq sent',
         \A a \in answer : a.type = "data" => <<a.key, a.seq>> \in sent',
         Read(m, answer)
  PROVE  /\ net' \subseteq Datagrams
         /\ Sealed'
         /\ faults' \in 0 .. MaxFaults /\ copies' \in 0 .. MaxFaults
         /\ copies' <= faults'
  <1>1. net' \subseteq net \cup answer
    BY DEF Read
  <1>2. net' \subseteq Datagrams
    BY <1>1 DEF IInv, TypeOK
  <1>3. Sealed'
    BY <1>1 DEF IInv, Sealed
  <1>4. /\ faults \in 0 .. MaxFaults /\ copies \in 0 .. MaxFaults
        /\ copies <= faults /\ MaxFaults \in Nat
    BY KeepaliveAssumption DEF IInv, TypeOK
  <1>5. \/ faults' = faults /\ copies' = copies
        \/ /\ faults < MaxFaults /\ faults' = faults + 1
           /\ copies' = copies \/ copies' = copies + 1
    <2>1. copies + 0 = copies
      BY <1>4
    <2> QED
      BY <2>1 DEF Read, Fault, NoFault
  <1>6. /\ faults' \in 0 .. MaxFaults /\ copies' \in 0 .. MaxFaults
        /\ copies' <= faults'
    BY <1>4, <1>5
  <1> QED
    BY <1>2, <1>3, <1>6

\* A datagram of each type.
LEMMA DatagramTypes ==
  ASSUME NEW m \in Datagrams
  PROVE  /\ m.type = "hello" => m \in Hellos
         /\ m.type = "data" => m \in Datas
         /\ m.type = "hello_ack" => m \in HelloAcks
         /\ m.type = "data_ack" => m \in DataAcks
         /\ ToServer(m) => m.from \in Endpoints
         /\ ~ToServer(m) => m.to \in Endpoints
  BY DEF Datagrams, Hellos, Datas, HelloAcks, DataAcks, Errors, ToServer

\* What a handler sends is a datagram.
LEMMA Answers ==
  ASSUME NEW e \in Endpoints
  PROVE  /\ ErrorTo(e) \in Datagrams /\ ErrorTo(e).type = "error"
         /\ \A s \in 1 .. MaxSalts :
              HelloAck(e, s) \in Datagrams /\ HelloAck(e, s).type = "hello_ack"
         /\ \A k \in Keys, n \in 0 .. MaxSeq :
              /\ DataAck(e, k, n) \in Datagrams
              /\ DataAck(e, k, n).type = "data_ack"
         /\ \A k \in Keys, n \in 0 .. MaxSeq - 1 :
              /\ Data(e, k, n) \in Datagrams /\ Data(e, k, n).type = "data"
              /\ Data(e, k, n).key = k /\ Data(e, k, n).seq = n
  BY DEF Datagrams, Datas, HelloAcks, DataAcks, Errors,
         ErrorTo, HelloAck, DataAck, Data

LEMMA InitIInv == Init => IInv
  <1> SUFFICES ASSUME Init PROVE IInv
    OBVIOUS
  <1>1. TypeOK
    <2>1. peer \in [Peers -> PeerType]
      BY KeepaliveAssumption DEF Init, Process, PeerType
    <2> QED
      BY <2>1, KeepaliveAssumption DEF Init, TypeOK
  <1> QED
    BY <1>1, KeepaliveAssumption
       DEF Init, IInv, Process, Table, Counted, Sealed, Underway

-----------------------------------------------------------------------------
\* A step that only reads a datagram and answers it.
LEMMA AnswerIInv ==
  ASSUME IInv, NEW m \in net, NEW answer, answer \subseteq Datagrams,
         \A a \in answer : a.type # "data",
         Read(m, answer),
         UNCHANGED <<sessions, peer, salts, sent, heard, again>>
  PROVE  IInv'
  <1>1. /\ net' \subseteq Datagrams /\ Sealed'
        /\ faults' \in 0 .. MaxFaults /\ copies' \in 0 .. MaxFaults
        /\ copies' <= faults'
    BY ReadIInv
  <1> QED
    BY <1>1 DEF IInv, TypeOK, Table, Counted, Underway

\* A hello replaces the session of its address by one with a salt of its own.
LEMMA HelloIInv ==
  ASSUME IInv, NEW m \in net, HandleHello(m)
  PROVE  IInv'
  <1>1. m \in Hellos /\ m.from \in Endpoints
    BY DatagramTypes DEF IInv, TypeOK, HandleHello, Hellos
  <1>2. CASE Read(m, {ErrorTo(m.from)}) /\ UNCHANGED <<sessions, salts>>
    <2>1. {ErrorTo(m.from)} \subseteq Datagrams
      BY <1>1, Answers
    <2>2. \A a \in {ErrorTo(m.from)} : a.type # "data"
      BY DEF ErrorTo
    <2>3. UNCHANGED <<sessions, peer, salts, sent, heard, again>>
      BY <1>2 DEF HandleHello
    <2> QED
      BY <1>2, <2>1, <2>2, <2>3, AnswerIInv
  <1>3. ASSUME NEW k, k = [by |-> m.by, attempt |-> m.attempt, salt |-> salts'],
               salts < MaxSalts, salts' = salts + 1,
               sessions' = [sessions EXCEPT ![m.from] = NewSession(k)],
               Read(m, {HelloAck(m.from, salts')})
        PROVE  IInv'
    <2>1. salts \in 0 .. MaxSalts /\ MaxSalts \in Nat
      BY KeepaliveAssumption DEF IInv, TypeOK
    <2>2. salts' \in 1 .. MaxSalts
      BY <1>3, <2>1
    <2>3. k \in Keys /\ k.salt = salts + 1
      BY <1>1, <1>3, <2>2 DEF Keys, Hellos
    <2>4. UNCHANGED <<peer, sent, heard, again>>
      BY DEF HandleHello
    <2>5. /\ net' \subseteq Datagrams /\ Sealed'
          /\ faults' \in 0 .. MaxFaults /\ copies' \in 0 .. MaxFaults
          /\ copies' <= faults'
      <3>1. {HelloAck(m.from, salts')} \subseteq Datagrams
        BY <1>1, <2>2, Answers
      <3>2. \A a \in {HelloAck(m.from, salts')} : a.type # "data"
        BY DEF HelloAck
      <3> QED
        BY <1>3, <2>4, <3>1, <3>2, ReadIInv
    <2>6. PICK s : s = NewSession(k)
      OBVIOUS
    <2>7. /\ s \in SessionType /\ s.key = k /\ s.seqIn = -1 /\ s.seqOut = 0
      BY <2>3, <2>6, KeepaliveAssumption DEF NewSession, Session, SessionType
    <2>8. /\ sessions' \in [Endpoints -> SessionType \cup {None}]
          /\ \A e \in Endpoints :
               sessions'[e] = IF e = m.from THEN s ELSE sessions[e]
      BY <1>1, <1>3, <2>6, <2>7 DEF IInv, TypeOK
    <2>9. TypeOK'
      BY <2>2, <2>4, <2>5, <2>8 DEF IInv, TypeOK
    <2>10. Counted'
      BY <1>3, <2>1, <2>4 DEF IInv, Counted, Keys
    <2>11. \A n \in 0 .. MaxSeq - 1 : <<k, n>> \notin heard
      BY <2>1, <2>3 DEF IInv, Counted
    <2>12. \A e \in Endpoints : sessions[e] # None =>
             sessions[e].key.salt \in Int /\ sessions[e].key.salt <= salts
      BY DEF IInv, TypeOK, Table, SessionType, Keys
    <2>13. Table'
      <3>1. ASSUME NEW e \in Endpoints, sessions'[e] # None
            PROVE  /\ sessions'[e].key.salt <= salts'
                   /\ sessions'[e].seqOut <= sessions'[e].seqIn + 1
                   /\ \A n \in 0 .. MaxSeq - 1 :
                        <<sessions'[e].key, n>> \in heard'
                          => n <= sessions'[e].seqIn
        <4>1. CASE e = m.from
          BY <1>3, <2>3, <2>4, <2>7, <2>8, <2>11, <2>1, <4>1
        <4>2. CASE e # m.from
          BY <1>3, <2>1, <2>4, <2>8, <2>12, <3>1, <4>2 DEF IInv, Table
        <4> QED
          BY <4>1, <4>2
      <3>2. ASSUME NEW e \in Endpoints, NEW f \in Endpoints,
                   sessions'[e] # None, sessions'[f] # None,
                   sessions'[e].key.salt = sessions'[f].key.salt
            PROVE  e = f
        BY <2>1, <2>3, <2>7, <2>8, <2>12, <3>2 DEF IInv, Table
      <3> QED
        BY <3>1, <3>2 DEF Table
    <2> QED
      BY <2>4, <2>5, <2>9, <2>10, <2>13 DEF IInv, Underway
  <1> QED
    BY <1>2, <1>3 DEF HandleHello

\* The ping that handleData takes: sealed, and not yet counted.
LEMMA TakenPing ==
  ASSUME IInv, NEW m \in net, m.type = "data", sessions[m.from] # None,
         Fresh(sessions[m.from], m), m.key = sessions[m.from].key
  PROVE  /\ m.from \in Endpoints /\ m.key \in Keys /\ m.seq \in 0 .. MaxSeq - 1
         /\ <<m.key, m.seq>> \in sent
         /\ <<m.key, m.seq>> \in Pings
         /\ <<m.key, m.seq>> \notin heard
  <1>1. m \in Datas /\ sessions[m.from] \in SessionType
    BY DatagramTypes DEF IInv, TypeOK, Datas
  <1>2. m.from \in Endpoints /\ m.key \in Keys /\ m.seq \in 0 .. MaxSeq - 1
    BY <1>1 DEF Datas
  <1>3. <<m.key, m.seq>> \in sent
    BY DEF IInv, Sealed
  <1>4. <<m.key, m.seq>> \in Pings
    BY <1>2 DEF Pings
  <1>5. sessions[m.from].seqIn \in Int
    BY <1>1 DEF SessionType
  <1>6. <<m.key, m.seq>> \notin heard
    BY <1>2, <1>5, KeepaliveAssumption DEF IInv, Table, Fresh
  <1> QED
    BY <1>2, <1>3, <1>4, <1>6

\* A ping that is taken.
LEMMA TakeIInv ==
  ASSUME IInv, NEW m \in net, NEW s, s = sessions[m.from],
         m.type = "data", s # None, Fresh(s, m), m.key = s.key,
         sessions' = [sessions EXCEPT ![m.from] =
                        Session(s.key, m.seq, s.seqOut + 1)],
         heard' = heard \cup {<<s.key, m.seq>>},
         again' = again \cup (heard \cap {<<s.key, m.seq>>}),
         Read(m, {DataAck(m.from, s.key, s.seqOut)}),
         UNCHANGED <<peer, salts, sent>>
  PROVE  IInv'
  <1>1. /\ m.from \in Endpoints /\ m.key \in Keys /\ m.seq \in 0 .. MaxSeq - 1
        /\ <<m.key, m.seq>> \in sent /\ <<m.key, m.seq>> \in Pings
        /\ <<m.key, m.seq>> \notin heard
    BY TakenPing
  <1>2. /\ s.key \in Keys /\ s.seqIn \in -1 .. MaxSeq - 1
        /\ s.seqOut \in 0 .. MaxSeq /\ s.seqOut <= s.seqIn + 1
        /\ s.key.salt <= salts
    BY <1>1 DEF IInv, TypeOK, SessionType, Table
  <1>3. m.seq > s.seqIn
    BY DEF Fresh
  <1>4. PICK t : t = Session(s.key, m.seq, s.seqOut + 1)
    OBVIOUS
  <1>5. s.seqOut + 1 <= m.seq + 1 /\ s.seqOut + 1 \in 0 .. MaxSeq
    BY <1>1, <1>2, <1>3, KeepaliveAssumption
  <1>6. t.key = s.key /\ t.seqIn = m.seq /\ t.seqOut = s.seqOut + 1
    BY <1>4 DEF Session
  <1>7. t.seqOut <= t.seqIn + 1 /\ t \in SessionType
    BY <1>1, <1>2, <1>4, <1>5, <1>6, KeepaliveAssumption
       DEF Session, SessionType
  <1>8. /\ sessions' \in [Endpoints -> SessionType \cup {None}]
        /\ \A e \in Endpoints :
             sessions'[e] = IF e = m.from THEN t ELSE sessions[e]
    BY <1>1, <1>4, <1>7 DEF IInv, TypeOK
  <1>9. /\ net' \subseteq Datagrams /\ Sealed'
        /\ faults' \in 0 .. MaxFaults /\ copies' \in 0 .. MaxFaults
        /\ copies' <= faults'
    <2>1. {DataAck(m.from, s.key, s.seqOut)} \subseteq Datagrams
      BY <1>1, <1>2, Answers
    <2>2. \A a \in {DataAck(m.from, s.key, s.seqOut)} : a.type # "data"
      BY DEF DataAck
    <2> QED
      BY <2>1, <2>2, ReadIInv
  <1>10. again' = {}
    BY <1>1 DEF IInv, Counted
  <1>11. TypeOK'
    BY <1>1, <1>8, <1>9, <1>10 DEF IInv, TypeOK
  <1>12. Counted'
    <2>1. heard' \subseteq sent'
      BY <1>1 DEF IInv, Counted
    <2>2. ASSUME NEW k \in Keys, NEW n \in 0 .. MaxSeq - 1, <<k, n>> \in heard'
          PROVE  k.salt <= salts'
      BY <1>2, <2>2 DEF IInv, Counted
    <2> QED
      BY <1>10, <2>1, <2>2 DEF Counted
  <1>13. Table'
    <2>1. \A e \in Endpoints : sessions[e] # None => sessions[e].key \in Keys
      BY DEF IInv, TypeOK, SessionType
    <2>2. ASSUME NEW e \in Endpoints, sessions'[e] # None
          PROVE  /\ sessions'[e].key.salt <= salts'
                 /\ sessions'[e].seqOut <= sessions'[e].seqIn + 1
                 /\ \A n \in 0 .. MaxSeq - 1 :
                      <<sessions'[e].key, n>> \in heard' => n <= sessions'[e].seqIn
      <3>1. CASE e = m.from
        <4>1. ASSUME NEW n \in 0 .. MaxSeq - 1, <<s.key, n>> \in heard
              PROVE  n <= m.seq
          <5>1. n <= s.seqIn
            BY <1>1, <4>1 DEF IInv, Table
          <5> QED
            BY <1>1, <1>2, <1>3, <4>1, <5>1, KeepaliveAssumption
        <4>2. sessions'[e] = t
          BY <1>8, <3>1
        <4>3. /\ t.key.salt <= salts' /\ t.seqOut <= t.seqIn + 1
          BY <1>2, <1>6, <1>7
        <4>4. ASSUME NEW n \in 0 .. MaxSeq - 1, <<s.key, n>> \in heard'
              PROVE  n <= m.seq
          <5>1. CASE n = m.seq
            BY <1>1, <5>1, KeepaliveAssumption
          <5>2. CASE n # m.seq
            BY <4>1, <4>4, <5>2
          <5> QED
            BY <5>1, <5>2
        <4> QED
          BY <1>6, <4>2, <4>3, <4>4
      <3>2. CASE e # m.from
        <4>1. sessions'[e] = sessions[e]
          BY <1>8, <3>2
        <4>2. sessions[e].key # s.key
          BY <1>1, <2>2, <3>2, <4>1 DEF IInv, Table
        <4>3. \A n : <<sessions[e].key, n>> \in heard'
                       => <<sessions[e].key, n>> \in heard
          BY <4>2
        <4>4. salts' = salts
          OBVIOUS
        <4> QED
          BY <2>2, <4>1, <4>3, <4>4 DEF IInv, Table
      <3> QED
        BY <3>1, <3>2
    <2>3. ASSUME NEW e \in Endpoints, NEW f \in Endpoints,
                 sessions'[e] # None, sessions'[f] # None,
                 sessions'[e].key.salt = sessions'[f].key.salt
          PROVE  e = f
      <3>1. \A g \in Endpoints :
              sessions'[g] # None
                => sessions[g] # None /\ sessions'[g].key = sessions[g].key
        BY <1>1, <1>6, <1>8
      <3> QED
        BY <2>3, <3>1 DEF IInv, Table
    <2> QED
      BY <2>2, <2>3 DEF Table
  <1> QED
    BY <1>9, <1>11, <1>12, <1>13 DEF IInv, Underway

LEMMA DataIInv ==
  ASSUME IInv, NEW m \in net, HandleData(m)
  PROVE  IInv'
  <1>1. PICK s : s = sessions[m.from]
    OBVIOUS
  <1>2. m.type = "data" /\ UNCHANGED <<peer, salts, sent>>
    BY DEF HandleData
  <1>3. m \in Datas /\ m.from \in Endpoints
    BY <1>2, DatagramTypes DEF IInv, TypeOK, Datas
  <1>4. /\ AnswerToOld(s, m) \subseteq Datagrams
        /\ \A a \in AnswerToOld(s, m) : a.type # "data"
    BY DEF AnswerToOld
  <1>5. /\ {ErrorTo(m.from)} \subseteq Datagrams
        /\ \A a \in {ErrorTo(m.from)} : a.type # "data"
    BY <1>3, Answers DEF ErrorTo
  <1>6. \/ /\ s # None /\ Fresh(s, m) /\ m.key = s.key
           /\ sessions' = [sessions EXCEPT ![m.from] =
                             Session(s.key, m.seq, s.seqOut + 1)]
           /\ heard' = heard \cup {<<s.key, m.seq>>}
           /\ again' = again \cup (heard \cap {<<s.key, m.seq>>})
           /\ Read(m, {DataAck(m.from, s.key, s.seqOut)})
        \/ Read(m, AnswerToOld(s, m)) /\ UNCHANGED <<sessions, heard, again>>
        \/ Read(m, {ErrorTo(m.from)}) /\ UNCHANGED <<sessions, heard, again>>
    BY <1>1, Zenon DEF HandleData
  <1>7. CASE Read(m, AnswerToOld(s, m)) /\ UNCHANGED <<sessions, heard, again>>
    <2>1. UNCHANGED <<sessions, peer, salts, sent, heard, again>>
      BY <1>2, <1>7
    <2> QED
      BY <1>4, <1>7, <2>1, AnswerIInv
  <1>8. CASE Read(m, {ErrorTo(m.from)}) /\ UNCHANGED <<sessions, heard, again>>
    <2>1. UNCHANGED <<sessions, peer, salts, sent, heard, again>>
      BY <1>2, <1>8
    <2> QED
      BY <1>5, <1>8, <2>1, AnswerIInv
  <1> QED
    BY <1>1, <1>2, <1>6, <1>7, <1>8, TakeIInv

-----------------------------------------------------------------------------
\* Sessions that are forgotten, by expiry or by a restart.
LEMMA ForgetIInv ==
  ASSUME IInv, NEW gone \in SUBSET Endpoints, Fault,
         sessions' = [e \in Endpoints |-> IF e \in gone THEN None ELSE sessions[e]],
         UNCHANGED <<peer, net, salts, sent, heard, again, copies>>
  PROVE  IInv'
  <1>1. /\ faults' \in 0 .. MaxFaults /\ copies' \in 0 .. MaxFaults
        /\ copies' <= faults'
    BY KeepaliveAssumption DEF IInv, TypeOK, Fault
  <1>2. /\ sessions' \in [Endpoints -> SessionType \cup {None}]
        /\ \A e \in Endpoints : sessions'[e] # None => sessions'[e] = sessions[e]
    BY DEF IInv, TypeOK
  <1>3. TypeOK'
    BY <1>1, <1>2 DEF IInv, TypeOK
  <1>4. Table'
    BY <1>2 DEF IInv, Table
  <1> QED
    BY <1>1, <1>3, <1>4 DEF IInv, Counted, Sealed, Underway

\* A step of peer p that leaves the server alone.
LEMMA PeerIInv ==
  ASSUME IInv, NEW p \in Peers, NEW q \in PeerType,
         peer' = [peer EXCEPT ![p] = q],
         q.pc \in {"hello", "ping", "idle"} => q.at \in Endpoints /\ q.attempt >= 1,
         q.pc \in {"ping", "idle"} => q.key \in Keys,
         sent \subseteq sent', sent' \subseteq Pings,
         net' \subseteq Datagrams, Sealed',
         faults' \in 0 .. MaxFaults, copies' \in 0 .. MaxFaults,
         copies' <= faults',
         UNCHANGED <<sessions, salts, heard, again>>
  PROVE  IInv'
  <1>1. /\ peer' \in [Peers -> PeerType]
        /\ \A r \in Peers : peer'[r] = IF r = p THEN q ELSE peer[r]
    BY DEF IInv, TypeOK
  <1>2. TypeOK'
    BY <1>1 DEF IInv, TypeOK
  <1>3. Underway'
    BY <1>1 DEF IInv, Underway
  <1>4. Table' /\ Counted'
    BY DEF IInv, Table, Counted
  <1> QED
    BY <1>2, <1>3, <1>4 DEF IInv

\* A peer is typed field by field.
LEMMA ProcessTyped ==
  ASSUME NEW pc \in {"down", "hello", "ping", "idle", "exit"},
         NEW at \in Endpoints \cup {None}, NEW attempt \in 0 .. MaxAttempts,
         NEW key \in Keys \cup {None}, NEW seq \in 0 .. MaxSeq - 1
  PROVE  /\ Process(pc, at, attempt, key, seq) \in PeerType
         /\ Process(pc, at, attempt, key, seq).pc = pc
         /\ Process(pc, at, attempt, key, seq).at = at
         /\ Process(pc, at, attempt, key, seq).attempt = attempt
         /\ Process(pc, at, attempt, key, seq).key = key
  BY DEF Process, PeerType

LEMMA PeerFields ==
  ASSUME IInv, NEW p \in Peers
  PROVE  /\ peer[p].pc \in {"down", "hello", "ping", "idle", "exit"}
         /\ peer[p].at \in Endpoints \cup {None}
         /\ peer[p].attempt \in 0 .. MaxAttempts
         /\ peer[p].key \in Keys \cup {None}
         /\ peer[p].seq \in 0 .. MaxSeq - 1
         /\ MaxAttempts \in Nat /\ MaxSeq \in Nat /\ 0 \in 0 .. MaxSeq - 1
         /\ faults \in Nat /\ copies \in Nat
  BY KeepaliveAssumption DEF IInv, TypeOK, PeerType

LEMMA DialIInv ==
  ASSUME IInv, NEW p \in Peers, NEW e \in Endpoints, Dial(p, e)
  PROVE  IInv'
  <1>1. PICK n : n = peer[p].attempt + 1
    OBVIOUS
  <1>2. n \in 1 .. MaxAttempts
    BY <1>1, PeerFields DEF Dial
  <1>3. PICK q : q = Process("hello", e, n, None, 0)
    OBVIOUS
  <1>4. peer' = [peer EXCEPT ![p] = q]
    BY <1>1, <1>3 DEF Dial
  <1>5. q \in PeerType /\ q.pc = "hello" /\ q.at = e /\ q.attempt = n
    <2>1. MaxAttempts \in Nat /\ 0 \in 0 .. MaxSeq - 1
      BY PeerFields
    <2>2. n \in 0 .. MaxAttempts
      BY <1>2, <2>1
    <2>3. /\ "hello" \in {"down", "hello", "ping", "idle", "exit"}
          /\ e \in Endpoints \cup {None} /\ None \in Keys \cup {None}
      OBVIOUS
    <2> QED
      BY ONLY <1>3, <2>1, <2>2, <2>3, ProcessTyped
  <1>6. PICK auth \in BOOLEAN : net' = net \cup {Hello(e, p, n, auth)}
    BY <1>1 DEF Dial
  <1>7. Hello(e, p, n, auth) \in Datagrams /\ Hello(e, p, n, auth).type # "data"
    BY <1>2 DEF Hello, Hellos, Datagrams
  <1>8. UNCHANGED <<sessions, salts, sent, heard, again, copies>>
    BY DEF Dial
  <1>9. net' \subseteq Datagrams /\ Sealed'
    BY <1>6, <1>7, <1>8 DEF IInv, TypeOK, Sealed
  <1>10. faults' \in 0 .. MaxFaults /\ copies' \in 0 .. MaxFaults /\ copies' <= faults'
    BY <1>8, KeepaliveAssumption DEF Dial, IInv, TypeOK, Fault, NoFault
  <1>11. sent \subseteq sent' /\ sent' \subseteq Pings
    BY <1>8 DEF IInv, TypeOK
  <1>12. q.pc \in {"hello", "ping", "idle"} => q.at \in Endpoints /\ q.attempt >= 1
    BY <1>2, <1>5
  <1>13. ~(q.pc \in {"ping", "idle"})
    BY <1>5
  <1> QED
    BY <1>4, <1>5, <1>8, <1>9, <1>10, <1>11, <1>12, <1>13, PeerIInv

\* A peer that sends a ping under a key of its own.
LEMMA SendPingIInv ==
  ASSUME IInv, NEW p \in Peers, NEW key \in Keys, NEW seq \in 0 .. MaxSeq - 1,
         peer[p].at \in Endpoints, peer[p].attempt >= 1, SendPing(p, key, seq),
         net' \subseteq Datagrams, Sealed',
         faults' \in 0 .. MaxFaults, copies' \in 0 .. MaxFaults,
         copies' <= faults',
         UNCHANGED <<sessions, salts, heard, again>>
  PROVE  IInv'
  <1>1. PICK q : q = Process("ping", peer[p].at, peer[p].attempt, key, seq)
    OBVIOUS
  <1>2. peer' = [peer EXCEPT ![p] = q] /\ sent' = sent \cup {<<key, seq>>}
    BY <1>1 DEF SendPing
  <1>3. /\ q \in PeerType /\ q.at = peer[p].at /\ q.attempt = peer[p].attempt
        /\ q.key = key
    <2>1. /\ peer[p].attempt \in 0 .. MaxAttempts
          /\ peer[p].at \in Endpoints \cup {None}
      BY PeerFields
    <2>2. /\ "ping" \in {"down", "hello", "ping", "idle", "exit"}
          /\ key \in Keys \cup {None}
      OBVIOUS
    <2> QED
      BY ONLY <1>1, <2>1, <2>2, seq \in 0 .. MaxSeq - 1, ProcessTyped
  <1>4. sent \subseteq sent' /\ sent' \subseteq Pings
    BY <1>2 DEF IInv, TypeOK, Pings
  <1> QED
    BY <1>2, <1>3, <1>4, PeerIInv

LEMMA ReadHelloAckIInv ==
  ASSUME IInv, NEW p \in Peers, NEW m \in net, m.to = peer[p].at,
         ReadHelloAck(p, m), UNCHANGED <<sessions, salts, heard, again>>
  PROVE  IInv'
  <1>1. PICK key : key = [by |-> p, attempt |-> peer[p].attempt, salt |-> m.salt]
    OBVIOUS
  <1>2. /\ peer[p].pc = "hello" /\ m.type = "hello_ack"
        /\ SendPing(p, key, 0) /\ Read(m, {Data(m.to, key, 0)})
    BY <1>1 DEF ReadHelloAck
  <1>3. peer[p].at \in Endpoints /\ peer[p].attempt >= 1
    BY <1>2 DEF IInv, Underway
  <1>4. m.salt \in 1 .. MaxSalts
    BY <1>2, DatagramTypes DEF IInv, TypeOK, HelloAcks
  <1>5. key \in Keys
    BY <1>1, <1>3, <1>4, PeerFields DEF Keys
  <1>6. sent' = sent \cup {<<key, 0>>}
    BY <1>2 DEF SendPing
  <1>7. {Data(m.to, key, 0)} \subseteq Datagrams
    BY <1>3, <1>5, PeerFields, Answers
  <1>8. \A a \in {Data(m.to, key, 0)} : <<a.key, a.seq>> \in sent'
    BY <1>6 DEF Data
  <1>9. /\ net' \subseteq Datagrams /\ Sealed'
        /\ faults' \in 0 .. MaxFaults /\ copies' \in 0 .. MaxFaults
        /\ copies' <= faults'
    BY <1>2, <1>6, <1>7, <1>8, ReadIInv
  <1> QED
    BY <1>2, <1>3, <1>5, <1>9, PeerFields, SendPingIInv

LEMMA ReadDataAckIInv ==
  ASSUME IInv, NEW p \in Peers, NEW m \in net, m.to = peer[p].at,
         ReadDataAck(p, m), UNCHANGED <<sessions, salts, heard, again>>
  PROVE  IInv'
  <1>1. /\ peer[p].pc = "ping" /\ m.key = peer[p].key /\ Read(m, {})
        /\ UNCHANGED sent
    BY DEF ReadDataAck
  <1>2. /\ m.to \in Endpoints /\ peer[p].attempt >= 1 /\ m.key \in Keys
    BY <1>1 DEF IInv, Underway
  <1>3. /\ net' \subseteq Datagrams /\ Sealed'
        /\ faults' \in 0 .. MaxFaults /\ copies' \in 0 .. MaxFaults
        /\ copies' <= faults'
    BY <1>1, ReadIInv
  <1>4. PICK q : q = IF p \in OneShot
                THEN Process("exit", None, peer[p].attempt, m.key, peer[p].seq)
                ELSE Process("idle", m.to, peer[p].attempt, m.key, peer[p].seq)
    OBVIOUS
  <1>5. peer' = [peer EXCEPT ![p] = q]
    BY <1>4 DEF ReadDataAck
  <1>6. /\ q \in PeerType /\ q.pc \in {"exit", "idle"} /\ q.key = m.key
        /\ q.attempt = peer[p].attempt
        /\ q.pc = "idle" => q.at = m.to
    <2>1. /\ peer[p].attempt \in 0 .. MaxAttempts
          /\ peer[p].seq \in 0 .. MaxSeq - 1
      BY PeerFields
    <2>2. m.key \in Keys \cup {None}
      BY <1>2
    <2>3. CASE p \in OneShot
      <3>1. q = Process("exit", None, peer[p].attempt, m.key, peer[p].seq)
        BY <1>4, <2>3
      <3>2. /\ "exit" \in {"down", "hello", "ping", "idle", "exit"}
            /\ None \in Endpoints \cup {None}
        OBVIOUS
      <3>3. /\ q \in PeerType /\ q.pc = "exit" /\ q.key = m.key
            /\ q.attempt = peer[p].attempt
        BY ONLY <2>1, <2>2, <3>1, <3>2, ProcessTyped
      <3> QED
        BY <3>3
    <2>4. CASE p \notin OneShot
      <3>1. q = Process("idle", m.to, peer[p].attempt, m.key, peer[p].seq)
        BY <1>4, <2>4
      <3>2. /\ "idle" \in {"down", "hello", "ping", "idle", "exit"}
            /\ m.to \in Endpoints \cup {None}
        BY <1>2
      <3>3. /\ q \in PeerType /\ q.pc = "idle" /\ q.key = m.key
            /\ q.attempt = peer[p].attempt /\ q.at = m.to
        BY ONLY <2>1, <2>2, <3>1, <3>2, ProcessTyped
      <3> QED
        BY <3>3
    <2> QED
      BY <2>3, <2>4
  <1> QED
    BY <1>1, <1>2, <1>3, <1>5, <1>6, PeerIInv DEF IInv, TypeOK

\* A peer that gives its connection up.
LEMMA FailIInv ==
  ASSUME IInv, NEW p \in Peers, Fail(p),
         net' \subseteq Datagrams, Sealed',
         faults' \in 0 .. MaxFaults, copies' \in 0 .. MaxFaults,
         copies' <= faults',
         UNCHANGED <<sessions, salts, sent, heard, again>>
  PROVE  IInv'
  <1>0. PICK pc \in {"exit", "down"} :
          pc = IF p \in OneShot THEN "exit" ELSE "down"
    OBVIOUS
  <1>1. PICK q : q = Process(pc, None, peer[p].attempt, None, 0)
    OBVIOUS
  <1>2. peer' = [peer EXCEPT ![p] = q]
    BY <1>0, <1>1 DEF Fail
  <1>3. q \in PeerType /\ q.pc \in {"exit", "down"}
    <2>1. /\ pc \in {"down", "hello", "ping", "idle", "exit"}
          /\ peer[p].attempt \in 0 .. MaxAttempts
          /\ None \in Endpoints \cup {None} /\ None \in Keys \cup {None}
          /\ 0 \in 0 .. MaxSeq - 1
      BY PeerFields
    <2>2. q \in PeerType /\ q.pc = pc
      BY <1>1, <2>1, ProcessTyped
    <2> QED
      BY <2>2
  <1> QED
    BY <1>2, <1>3, PeerIInv DEF IInv, TypeOK

LEMMA ClientIInv ==
  ASSUME IInv, NEW p \in Peers, Client(p)
  PROVE  IInv'
  <1>1. ASSUME NEW e \in Endpoints, Dial(p, e)
        PROVE  IInv'
    BY <1>1, DialIInv
  <1>2. CASE Receive(p)
    <2>1. PICK m \in net :
            /\ m.to = peer[p].at
            /\ ReadHelloAck(p, m) \/ ReadDataAck(p, m) \/ ReadOther(p, m)
            /\ UNCHANGED <<sessions, salts, heard, again>>
      BY <1>2 DEF Receive
    <2>2. CASE ReadOther(p, m)
      <3>1. Fail(p) /\ Read(m, {}) /\ UNCHANGED sent
        BY <2>2 DEF ReadOther
      <3>2. /\ net' \subseteq Datagrams /\ Sealed'
            /\ faults' \in 0 .. MaxFaults /\ copies' \in 0 .. MaxFaults
            /\ copies' <= faults'
        BY <3>1, ReadIInv
      <3> QED
        BY <2>1, <3>1, <3>2, FailIInv
    <2> QED
      BY <2>1, <2>2, ReadHelloAckIInv, ReadDataAckIInv
  <1>3. CASE Timeout(p)
    <2>1. Fail(p) /\ UNCHANGED <<sessions, net, salts, sent, heard, again, copies>>
      BY <1>3 DEF Timeout
    <2>2. faults' \in 0 .. MaxFaults /\ copies' \in 0 .. MaxFaults /\ copies' <= faults'
      BY <1>3, <2>1, KeepaliveAssumption
         DEF Timeout, IInv, TypeOK, Fault, NoFault
    <2>3. net' \subseteq Datagrams /\ Sealed'
      BY <2>1 DEF IInv, TypeOK, Sealed
    <2> QED
      BY <2>1, <2>2, <2>3, FailIInv
  <1>4. CASE Tick(p)
    <2>1. PICK key, seq : key = peer[p].key /\ seq = peer[p].seq + 1
      OBVIOUS
    <2>2. /\ peer[p].pc = "idle" /\ seq < MaxSeq /\ SendPing(p, key, seq)
          /\ net' = net \cup {Data(peer[p].at, key, seq)}
          /\ UNCHANGED <<sessions, salts, faults, heard, again, copies>>
      BY <1>4, <2>1 DEF Tick
    <2>3. /\ peer[p].at \in Endpoints /\ peer[p].attempt >= 1 /\ key \in Keys
          /\ seq \in 0 .. MaxSeq - 1
      BY <2>1, <2>2, PeerFields DEF IInv, Underway
    <2>4. sent' = sent \cup {<<key, seq>>}
      BY <2>2 DEF SendPing
    <2>5. /\ Data(peer[p].at, key, seq) \in Datagrams
          /\ Data(peer[p].at, key, seq).key = key
          /\ Data(peer[p].at, key, seq).seq = seq
      BY <2>3, Answers
    <2>6. net' \subseteq Datagrams /\ Sealed'
      BY <2>2, <2>4, <2>5 DEF IInv, TypeOK, Sealed
    <2>7. faults' \in 0 .. MaxFaults /\ copies' \in 0 .. MaxFaults /\ copies' <= faults'
      BY <2>2 DEF IInv, TypeOK
    <2> QED
      BY <2>2, <2>3, <2>6, <2>7, SendPingIInv
  <1> QED
    BY <1>1, <1>2, <1>3, <1>4 DEF Client

\* A datagram that is gone.
LEMMA GoneIInv ==
  ASSUME IInv, NEW m \in net, net' = net \ {m},
         Fault \/ UNCHANGED faults,
         UNCHANGED <<sessions, peer, salts, sent, heard, again, copies>>
  PROVE  IInv'
  <1>1. faults' \in 0 .. MaxFaults /\ copies' <= faults'
    BY KeepaliveAssumption DEF IInv, TypeOK, Fault
  <1>2. TypeOK'
    BY <1>1 DEF IInv, TypeOK
  <1> QED
    BY <1>1, <1>2 DEF IInv, Table, Counted, Sealed, Underway

LEMMA NextIInv == IInv /\ [Next]_vars => IInv'
  <1> SUFFICES ASSUME IInv, [Next]_vars
               PROVE  IInv'
    OBVIOUS
  <1>1. CASE HandlePacket
    BY <1>1, HelloIInv, DataIInv DEF HandlePacket
  <1>2. CASE GcTick
    <2>1. PICK silent \in SUBSET {e \in Endpoints : sessions[e] # None} :
            /\ Fault
            /\ sessions' = [e \in Endpoints |->
                              IF e \in silent THEN None ELSE sessions[e]]
            /\ UNCHANGED <<peer, net, salts, sent, heard, again, copies>>
      BY <1>2 DEF GcTick
    <2>2. silent \in SUBSET Endpoints
      BY <2>1
    <2> QED
      BY <2>1, <2>2, ForgetIInv
  <1>3. CASE Restart
    <2>1. PICK gone : gone = Endpoints
      OBVIOUS
    <2>2. /\ sessions' = [e \in Endpoints |-> IF e \in gone THEN None ELSE sessions[e]]
          /\ gone \in SUBSET Endpoints
      BY <1>3, <2>1 DEF Restart
    <2> QED
      BY <1>3, <2>2, ForgetIInv DEF Restart
  <1>4. ASSUME NEW p \in Peers, Client(p)
        PROVE  IInv'
    BY <1>4, ClientIInv
  <1>5. CASE Lose
    BY <1>5, GoneIInv DEF Lose
  <1>6. CASE Undeliverable
    BY <1>6, GoneIInv DEF Undeliverable
  <1>7. CASE UNCHANGED vars
    BY <1>7 DEF vars, IInv, TypeOK, Table, Counted, Sealed, Underway
  <1> QED
    BY <1>1, <1>2, <1>3, <1>4, <1>5, <1>6, <1>7 DEF Next

LEMMA InductiveInvariant == Spec => []IInv
  BY InitIInv, NextIInv, PTL DEF Spec

\* The table, the peers and the datagrams keep their types; in particular a
\* session's sequence numbers stay in range.
THEOREM TypesAlways == Spec => []TypeOK
  <1>1. IInv => TypeOK
    BY DEF IInv
  <1> QED
    BY <1>1, InductiveInvariant, PTL

-----------------------------------------------------------------------------
\* How often each ping was counted, as PingChannel has it.
Count == [f \in Pings |-> IF f \in again THEN 2
                          ELSE IF f \in heard THEN 1 ELSE 0]

LEMMA CountStays ==
  ASSUME UNCHANGED <<heard, again>>
  PROVE  Count' = Count
  BY DEF Count

\* A peer only adds pings to those sealed, one at a time.
LEMMA ClientSeals ==
  ASSUME IInv, NEW p \in Peers, Client(p)
  PROVE  /\ UNCHANGED <<heard, again>>
         /\ \/ UNCHANGED sent
            \/ \E key, seq : sent' = sent \cup {<<key, seq>>}
  <1>1. ASSUME NEW e \in Endpoints, Dial(p, e)
        PROVE  UNCHANGED <<sent, heard, again>>
    BY <1>1 DEF Dial
  <1>2. CASE Timeout(p)
    BY <1>2 DEF Timeout
  <1>3. CASE Tick(p)
    BY <1>3 DEF Tick, SendPing
  <1>4. CASE Receive(p)
    <2>1. PICK m \in net :
            /\ ReadHelloAck(p, m) \/ ReadDataAck(p, m) \/ ReadOther(p, m)
            /\ UNCHANGED <<heard, again>>
      BY <1>4 DEF Receive
    <2>2. CASE ReadHelloAck(p, m)
      <3>1. PICK key : SendPing(p, key, 0)
        BY <2>2 DEF ReadHelloAck
      <3> QED
        BY <2>1, <3>1 DEF SendPing
    <2> QED
      BY <2>1, <2>2 DEF ReadDataAck, ReadOther
  <1> QED
    BY <1>1, <1>2, <1>3, <1>4 DEF Client

\* Whatever is lost, copied, late, expired or restarted, the pings of each key
\* are a channel that delivers at most once (cmd/server, the sequence check of
\* handleData): sealing a ping offers it, counting it delivers it.
THEOREM CountedOnce == Spec => PingSpec
  <1>1. Init => PingChannel!Init
    BY DEF Init, PingChannel!Init
  <1>2. IInv /\ [Next]_vars => [PingChannel!Next]_(PingChannel!vars)
    <2> SUFFICES ASSUME IInv, [Next]_vars
                 PROVE  PingChannel!Next \/ UNCHANGED PingChannel!vars
      OBVIOUS
    <2>1. IInv'
      BY NextIInv
    <2>2. ASSUME UNCHANGED <<sent, heard, again>>
          PROVE  UNCHANGED PingChannel!vars
      BY <2>2, CountStays DEF Count, PingChannel!vars
    <2>3. ASSUME NEW p \in Peers, Client(p)
          PROVE  PingChannel!Next \/ UNCHANGED PingChannel!vars
      <3>1. UNCHANGED <<heard, again>>
        BY <2>3, ClientSeals
      <3>2. CASE UNCHANGED sent
        BY <2>2, <3>1, <3>2
      <3>3. ASSUME NEW f, sent' = sent \cup {f}, f \notin sent
            PROVE  PingChannel!Next
        <4>1. f \in Pings
          BY <2>1, <3>3 DEF IInv, TypeOK
        <4>2. PingChannel!Offer(f)
          BY <3>1, <3>3, CountStays DEF PingChannel!Offer, Count
        <4> QED
          BY <4>1, <4>2 DEF PingChannel!Next
      <3>4. CASE \E key, seq : sent' = sent \cup {<<key, seq>>}
        <4>1. PICK f : sent' = sent \cup {f}
          BY <3>4
        <4>2. f \in sent => UNCHANGED sent
          BY <4>1
        <4> QED
          BY <3>2, <3>3, <4>1, <4>2
      <3> QED
        BY <2>3, <3>2, <3>4, ClientSeals
    <2>4. ASSUME NEW m \in net, HandleData(m), ~UNCHANGED <<heard, again>>
          PROVE  PingChannel!Next
      <3>1. PICK s : s = sessions[m.from]
        OBVIOUS
      <3>2. /\ m.type = "data" /\ s # None /\ Fresh(s, m) /\ m.key = s.key
            /\ heard' = heard \cup {<<s.key, m.seq>>} /\ UNCHANGED sent
        BY <2>4, <3>1, Zenon DEF HandleData
      <3>3. PICK f : f = <<m.key, m.seq>>
        OBVIOUS
      <3>4. f \in sent /\ f \in Pings /\ f \notin heard
        BY <3>1, <3>2, <3>3, TakenPing
      <3>5. heard' = heard \cup {f} /\ again = {} /\ again' = {}
        BY <2>1, <3>2, <3>3 DEF IInv, Counted
      <3>6. Count[f] = 0 /\ Count' = [Count EXCEPT ![f] = 1]
        BY <3>4, <3>5 DEF Count
      <3>7. PingChannel!Deliver(f)
        BY <3>2, <3>4, <3>6 DEF PingChannel!Deliver, Count
      <3> QED
        BY <3>4, <3>7 DEF PingChannel!Next
    <2>5. CASE HandlePacket
      <3>1. ASSUME NEW m \in net, HandleHello(m)
            PROVE  UNCHANGED <<sent, heard, again>>
        BY <3>1 DEF HandleHello
      <3>2. ASSUME NEW m \in net, HandleData(m)
            PROVE  UNCHANGED sent
        BY <3>2 DEF HandleData
      <3> QED
        BY <2>2, <2>4, <2>5, <3>1, <3>2 DEF HandlePacket
    <2>6. CASE GcTick \/ Restart \/ Lose \/ Undeliverable \/ UNCHANGED vars
      BY <2>2, <2>6 DEF GcTick, Restart, Lose, Undeliverable, vars
    <2> QED
      BY <2>3, <2>5, <2>6 DEF Next
  <1> QED
    BY <1>1, <1>2, InductiveInvariant, PTL DEF Spec, PingSpec, PingChannel!Spec

-----------------------------------------------------------------------------
(***************************************************************************)
(* What an acknowledgement is worth.  The server answers each ping that it *)
(* counts, once; so the answers of a session that are in flight, with      *)
(* those the worker has taken, are no more than the pings counted and the  *)
(* answers the network has duplicated.                                     *)
(***************************************************************************)

AcksOf(key) == {m \in net : m.type = "data_ack" /\ m.key = key}
InFlight(key) == Cardinality(AcksOf(key))
Tally(key) == Cardinality(HeardOf(key))

\* A ping waits for its answer, the others of the session have theirs.
Answered(p) == IF peer[p].pc = "idle" THEN peer[p].seq + 1 ELSE peer[p].seq
Uses(p, key) == peer[p].pc \in {"ping", "idle"} /\ peer[p].key = key

AnswersInv ==
  /\ IsFiniteSet(net) /\ IsFiniteSet(heard)
  /\ \A k \in Keys : InFlight(k) <= Tally(k)
  /\ \A p \in Peers, k \in Keys :
       Uses(p, k) => Answered(p) + InFlight(k) <= Tally(k) + copies
  /\ \A p \in Peers, k \in Keys :
       Uses(p, k) /\ peer[p].pc = "idle" => Tally(k) > 0

LEMMA Fewer ==
  ASSUME NEW T, IsFiniteSet(T), NEW S \in SUBSET T
  PROVE  /\ IsFiniteSet(S)
         /\ Cardinality(S) \in Nat /\ Cardinality(T) \in Nat
         /\ Cardinality(S) <= Cardinality(T)
  BY FS_Subset, FS_CardinalityType

LEMMA OneMore ==
  ASSUME NEW S, IsFiniteSet(S), NEW x, NEW T \in SUBSET (S \cup {x})
  PROVE  Cardinality(T) <= Cardinality(S) + 1
  <1>1. /\ IsFiniteSet(S \cup {x})
        /\ Cardinality(S \cup {x}) <= Cardinality(S) + 1
    <2>1. Cardinality(S) \in Nat
      BY FS_CardinalityType
    <2>2. CASE x \in S
      <3>1. S \cup {x} = S
        BY <2>2
      <3> QED
        BY <2>1, <3>1
    <2>3. CASE x \notin S
      <3>1. /\ IsFiniteSet(S \cup {x})
            /\ Cardinality(S \cup {x}) = Cardinality(S) + 1
        BY <2>3, FS_AddElement
      <3> QED
        BY <2>1, <3>1
    <2> QED
      BY <2>2, <2>3
  <1>2. /\ Cardinality(T) <= Cardinality(S \cup {x})
        /\ Cardinality(T) \in Nat /\ Cardinality(S \cup {x}) \in Nat
    BY <1>1, Fewer
  <1> QED
    BY <1>1, <1>2, FS_CardinalityType

LEMMA CountsAreNat ==
  ASSUME IsFiniteSet(net), IsFiniteSet(heard)
  PROVE  \A k : /\ IsFiniteSet(AcksOf(k)) /\ InFlight(k) \in Nat
                /\ IsFiniteSet(HeardOf(k)) /\ Tally(k) \in Nat
  <1> SUFFICES ASSUME NEW k
               PROVE  /\ IsFiniteSet(AcksOf(k)) /\ InFlight(k) \in Nat
                      /\ IsFiniteSet(HeardOf(k)) /\ Tally(k) \in Nat
    OBVIOUS
  <1>1. AcksOf(k) \in SUBSET net /\ HeardOf(k) \in SUBSET heard
    BY DEF AcksOf, HeardOf
  <1> QED
    BY <1>1, Fewer DEF InFlight, Tally

\* Reading a datagram adds no answer but those it sends.
LEMMA ReadAcks ==
  ASSUME IInv, IsFiniteSet(net), NEW m \in net, NEW answer, IsFiniteSet(answer),
         Read(m, answer)
  PROVE  /\ IsFiniteSet(net')
         /\ net' \subseteq net \cup answer
         /\ copies' >= copies
  <1>1. IsFiniteSet(net \cup answer)
    BY FS_Union
  <1>2. net' \subseteq net \cup answer
    BY DEF Read
  <1>3. copies \in Nat
    BY KeepaliveAssumption DEF IInv, TypeOK
  <1> QED
    BY <1>1, <1>2, <1>3, FS_Subset DEF Read

\* How a peer that gets no answer may change: it gives its key up, begins
\* with a key, or goes on to its next ping.
Proceeds(p) ==
  \/ peer'[p].pc \notin {"ping", "idle"}
  \/ peer'[p] = peer[p]
  \/ peer'[p].pc = "ping" /\ peer'[p].seq = 0
  \/ /\ peer[p].pc = "idle" /\ peer'[p].pc = "ping"
     /\ peer'[p].key = peer[p].key /\ peer'[p].seq = peer[p].seq + 1

LEMMA QuietAnswers ==
  ASSUME IInv, IInv', AnswersInv, IsFiniteSet(net'), UNCHANGED heard,
         copies' >= copies,
         \A m \in net' : m.type = "data_ack" => m \in net,
         \A p \in Peers : Proceeds(p)
  PROVE  AnswersInv'
  <1>1. ASSUME NEW k \in Keys
        PROVE  /\ InFlight(k)' <= InFlight(k) /\ Tally(k)' = Tally(k)
               /\ InFlight(k)' \in Nat /\ InFlight(k) \in Nat /\ Tally(k) \in Nat
    <2>1. AcksOf(k)' \in SUBSET AcksOf(k) /\ HeardOf(k)' = HeardOf(k)
      BY DEF AcksOf, HeardOf
    <2>2. IsFiniteSet(AcksOf(k)) /\ Tally(k) \in Nat
      BY CountsAreNat DEF AnswersInv
    <2>3. /\ Cardinality(AcksOf(k)') <= Cardinality(AcksOf(k))
          /\ Cardinality(AcksOf(k)') \in Nat /\ Cardinality(AcksOf(k)) \in Nat
      BY <2>1, <2>2, Fewer
    <2> QED
      BY <2>1, <2>2, <2>3 DEF InFlight, Tally
  <1>2. IsFiniteSet(heard')
    BY DEF AnswersInv
  <1>3. \A k \in Keys : InFlight(k)' <= Tally(k)'
    <2> SUFFICES ASSUME NEW k \in Keys PROVE InFlight(k)' <= Tally(k)'
      OBVIOUS
    <2>1. InFlight(k) <= Tally(k)
      BY DEF AnswersInv
    <2> QED
      BY <1>1, <2>1
  <1>4. ASSUME NEW p \in Peers, NEW k \in Keys, Uses(p, k)'
        PROVE  /\ Answered(p)' + InFlight(k)' <= Tally(k)' + copies'
               /\ peer'[p].pc = "idle" => Tally(k)' > 0
    <2>1. /\ copies \in Nat /\ copies' \in Nat
          /\ peer[p].seq \in Nat /\ peer'[p].seq \in Nat
      BY KeepaliveAssumption DEF IInv, TypeOK, PeerType
    <2>2. /\ InFlight(k)' <= InFlight(k) /\ Tally(k)' = Tally(k)
          /\ InFlight(k)' \in Nat /\ InFlight(k) \in Nat /\ Tally(k) \in Nat
      BY <1>1
    <2>3. CASE Uses(p, k) /\ Answered(p)' = Answered(p)
               /\ (peer'[p].pc = "idle" => peer[p].pc = "idle")
      <3>1. Answered(p) + InFlight(k) <= Tally(k) + copies
        BY <2>3 DEF AnswersInv
      <3>2. Answered(p) \in Nat
        BY <2>1 DEF Answered
      <3>3. peer[p].pc = "idle" => Tally(k) > 0
        BY <2>3 DEF AnswersInv
      <3> QED
        BY <2>1, <2>2, <2>3, <3>1, <3>2, <3>3
    <2>4. CASE peer'[p].pc = "ping" /\ peer'[p].seq = 0
      <3>1. Answered(p)' = 0
        BY <2>4 DEF Answered
      <3>2. InFlight(k)' <= Tally(k)'
        BY <1>3
      <3> QED
        BY <2>1, <2>2, <2>4, <3>1, <3>2
    <2>5. \/ peer'[p] = peer[p]
          \/ peer'[p].pc = "ping" /\ peer'[p].seq = 0
          \/ /\ peer[p].pc = "idle" /\ peer'[p].pc = "ping"
             /\ peer'[p].key = peer[p].key /\ peer'[p].seq = peer[p].seq + 1
      BY <1>4 DEF Proceeds, Uses
    <2> QED
      BY <1>4, <2>3, <2>4, <2>5 DEF Uses, Answered
  <1> QED
    BY <1>2, <1>3, <1>4 DEF AnswersInv

\* The server counts a ping and answers it: one more of each.
LEMMA CountedAndAnswered ==
  ASSUME IInv, IInv', AnswersInv, NEW m \in net, NEW key \in Keys, NEW f, NEW a,
         f \notin heard, f[1] = key, heard' = heard \cup {f},
         Read(m, {a}), a.key = key, UNCHANGED peer
  PROVE  AnswersInv'
  <1>1. /\ IsFiniteSet(net') /\ net' \subseteq net \cup {a}
        /\ copies' >= copies
    BY ReadAcks, FS_Singleton DEF AnswersInv
  <1>2. IsFiniteSet(heard')
    BY FS_AddElement DEF AnswersInv
  <1>3. ASSUME NEW k \in Keys
        PROVE  /\ InFlight(k) \in Nat /\ Tally(k) \in Nat
               /\ InFlight(k)' \in Nat /\ Tally(k)' \in Nat
               /\ InFlight(k)' - InFlight(k) <= Tally(k)' - Tally(k)
               /\ Tally(k)' >= Tally(k)
    <2>1. /\ IsFiniteSet(AcksOf(k)) /\ InFlight(k) \in Nat
          /\ IsFiniteSet(HeardOf(k)) /\ Tally(k) \in Nat
      BY CountsAreNat DEF AnswersInv
    <2>2. CASE k = key
      <3>1. HeardOf(k)' = HeardOf(k) \cup {f} /\ f \notin HeardOf(k)
        BY <2>2 DEF HeardOf
      <3>2. Tally(k)' = Tally(k) + 1
        BY <2>1, <3>1, FS_AddElement DEF Tally
      <3>3. AcksOf(k)' \in SUBSET (AcksOf(k) \cup {a})
        BY <1>1 DEF AcksOf
      <3>4. InFlight(k)' <= InFlight(k) + 1
        BY <2>1, <3>3, OneMore DEF InFlight
      <3>5. AcksOf(k)' \in SUBSET (net')
        BY DEF AcksOf
      <3>6. InFlight(k)' \in Nat
        BY <1>1, <3>5, Fewer DEF InFlight
      <3> QED
        BY <2>1, <3>2, <3>4, <3>6
    <2>3. CASE k # key
      <3>1. HeardOf(k)' = HeardOf(k)
        BY <2>3 DEF HeardOf
      <3>2. AcksOf(k)' \in SUBSET AcksOf(k)
        BY <1>1, <2>3 DEF AcksOf
      <3>3. Tally(k)' = Tally(k)
        BY <3>1 DEF Tally
      <3>4. InFlight(k)' <= InFlight(k) /\ InFlight(k)' \in Nat
        BY <2>1, <3>2, Fewer DEF InFlight
      <3> QED
        BY <2>1, <3>3, <3>4
    <2> QED
      BY <2>2, <2>3
  <1>4. \A k \in Keys : InFlight(k)' <= Tally(k)'
    <2> SUFFICES ASSUME NEW k \in Keys PROVE InFlight(k)' <= Tally(k)'
      OBVIOUS
    <2>1. InFlight(k) <= Tally(k)
      BY DEF AnswersInv
    <2> QED
      BY <1>3, <2>1
  <1>5. ASSUME NEW p \in Peers, NEW k \in Keys, Uses(p, k)'
        PROVE  /\ Answered(p)' + InFlight(k)' <= Tally(k)' + copies'
               /\ peer'[p].pc = "idle" => Tally(k)' > 0
    <2>1. /\ copies \in Nat /\ copies' \in Nat
          /\ peer[p].seq \in Nat
      BY KeepaliveAssumption DEF IInv, TypeOK, PeerType
    <2>2. Uses(p, k) /\ Answered(p)' = Answered(p) /\ Answered(p) \in Nat
      BY <1>5, <2>1 DEF Uses, Answered
    <2>3. /\ Answered(p) + InFlight(k) <= Tally(k) + copies
          /\ peer[p].pc = "idle" => Tally(k) > 0
      BY <2>2 DEF AnswersInv
    <2> QED
      BY <1>1, <1>3, <2>1, <2>2, <2>3
  <1> QED
    BY <1>1, <1>2, <1>4, <1>5 DEF AnswersInv

\* The peer takes an answer: one less in flight, or one more copy.
LEMMA TakenAnswer ==
  ASSUME IInv, IInv', AnswersInv, NEW p \in Peers, NEW m \in net,
         ReadDataAck(p, m), UNCHANGED heard
  PROVE  AnswersInv'
  <1>1. /\ peer[p].pc = "ping" /\ m.type = "data_ack" /\ m.key = peer[p].key
        /\ Read(m, {})
    BY DEF ReadDataAck
  <1>2. /\ IsFiniteSet(net') /\ net' \subseteq net /\ copies' >= copies
    BY <1>1, ReadAcks, FS_EmptySet DEF AnswersInv
  <1>3. PICK key \in Keys : key = peer[p].key
    BY <1>1 DEF IInv, Underway
  <1>4. /\ peer'[p].pc = "idle" => /\ peer'[p].key = key
                                  /\ peer'[p].seq = peer[p].seq
        /\ peer'[p].pc \in {"idle", "exit"}
        /\ \A q \in Peers : q # p => peer'[q] = peer[q]
    BY <1>1, <1>3 DEF ReadDataAck, Process, IInv, TypeOK
  <1>5. ASSUME NEW k \in Keys
        PROVE  /\ InFlight(k) \in Nat /\ Tally(k) \in Nat
               /\ InFlight(k)' \in Nat /\ Tally(k)' = Tally(k)
               /\ InFlight(k)' <= InFlight(k)
    <2>1. AcksOf(k)' \in SUBSET AcksOf(k) /\ HeardOf(k)' = HeardOf(k)
      BY <1>2 DEF AcksOf, HeardOf
    <2>2. /\ IsFiniteSet(AcksOf(k)) /\ InFlight(k) \in Nat /\ Tally(k) \in Nat
      BY CountsAreNat DEF AnswersInv
    <2>3. /\ Cardinality(AcksOf(k)') <= Cardinality(AcksOf(k))
          /\ Cardinality(AcksOf(k)') \in Nat
      BY <2>1, <2>2, Fewer
    <2> QED
      BY <2>1, <2>2, <2>3 DEF InFlight, Tally
  <1>6. InFlight(key)' + copies + 1 <= InFlight(key) + copies'
    <2>1. /\ IsFiniteSet(AcksOf(key)) /\ InFlight(key) \in Nat
          /\ copies \in Nat
      BY CountsAreNat, KeepaliveAssumption DEF AnswersInv, IInv, TypeOK
    <2>2. CASE net' = net \ {m} /\ UNCHANGED copies
      <3>1. AcksOf(key)' = AcksOf(key) \ {m} /\ m \in AcksOf(key)
        BY <1>1, <1>3, <2>2 DEF AcksOf
      <3>2. InFlight(key)' = InFlight(key) - 1
        BY <2>1, <3>1, FS_RemoveElement DEF InFlight
      <3> QED
        BY <2>1, <2>2, <3>2
    <2>3. CASE net' = net /\ copies' = copies + 1
      <3>1. AcksOf(key)' = AcksOf(key)
        BY <2>3 DEF AcksOf
      <3> QED
        BY <2>1, <2>3, <3>1 DEF InFlight
    <2>4. ~ToServer(m)
      BY <1>1 DEF ToServer
    <2> QED
      BY <1>1, <2>2, <2>3, <2>4 DEF Read
  <1>7. InFlight(key) >= 1 /\ Tally(key) >= 1
    <2>1. /\ IsFiniteSet(AcksOf(key)) /\ m \in AcksOf(key)
      BY <1>1, <1>3, CountsAreNat DEF AnswersInv, AcksOf
    <2>2. InFlight(key) # 0
      BY <2>1, FS_EmptySet DEF InFlight
    <2>3. InFlight(key) <= Tally(key)
      BY DEF AnswersInv
    <2> QED
      BY <1>5, <2>2, <2>3
  <1>8. \A k \in Keys : InFlight(k)' <= Tally(k)'
    <2> SUFFICES ASSUME NEW k \in Keys PROVE InFlight(k)' <= Tally(k)'
      OBVIOUS
    <2>1. InFlight(k) <= Tally(k)
      BY DEF AnswersInv
    <2> QED
      BY <1>5, <2>1
  <1>9. ASSUME NEW q \in Peers, NEW k \in Keys, Uses(q, k)'
        PROVE  /\ Answered(q)' + InFlight(k)' <= Tally(k)' + copies'
               /\ peer'[q].pc = "idle" => Tally(k)' > 0
    <2>1. /\ copies \in Nat /\ copies' \in Nat /\ peer[q].seq \in Nat
      BY KeepaliveAssumption DEF IInv, TypeOK, PeerType
    <2>2. CASE q = p
      <3>1. k = key /\ peer'[p].pc = "idle"
        BY <1>4, <1>9, <2>2 DEF Uses
      <3>2. Answered(p)' = Answered(p) + 1 /\ Answered(p) \in Nat
        BY <1>1, <1>4, <2>1, <2>2, <3>1 DEF Answered
      <3>3. Answered(p) + InFlight(key) <= Tally(key) + copies
        BY <1>1, <1>3 DEF AnswersInv, Uses
      <3> QED
        BY <1>5, <1>6, <1>7, <2>1, <2>2, <3>1, <3>2, <3>3
    <2>3. CASE q # p
      <3>1. Uses(q, k) /\ Answered(q)' = Answered(q) /\ Answered(q) \in Nat
        BY <1>4, <1>9, <2>1, <2>3 DEF Uses, Answered
      <3>2. /\ Answered(q) + InFlight(k) <= Tally(k) + copies
            /\ peer[q].pc = "idle" => Tally(k) > 0
        BY <3>1 DEF AnswersInv
      <3> QED
        BY <1>2, <1>4, <1>5, <2>1, <2>3, <3>1, <3>2
    <2> QED
      BY <2>2, <2>3
  <1> QED
    BY <1>2, <1>8, <1>9 DEF AnswersInv

LEMMA InitAnswers == Init => AnswersInv
  <1> SUFFICES ASSUME Init PROVE AnswersInv
    OBVIOUS
  <1>1. IsFiniteSet(net) /\ IsFiniteSet(heard)
    BY FS_EmptySet DEF Init
  <1>2. ASSUME NEW k \in Keys
        PROVE  InFlight(k) = 0 /\ Tally(k) = 0
    <2>1. AcksOf(k) = {} /\ HeardOf(k) = {}
      BY DEF Init, AcksOf, HeardOf
    <2> QED
      BY <2>1, FS_EmptySet DEF InFlight, Tally
  <1>3. \A p \in Peers, k \in Keys : ~Uses(p, k)
    BY DEF Init, Process, Uses
  <1> QED
    BY <1>1, <1>2, <1>3 DEF AnswersInv

\* A datagram is read that no answer is sent for, other than the ones named.
LEMMA ReadQuietly ==
  ASSUME IInv, IInv', AnswersInv, NEW m \in net, NEW answer, IsFiniteSet(answer),
         \A a \in answer : a.type # "data_ack", Read(m, answer),
         UNCHANGED heard, \A p \in Peers : Proceeds(p)
  PROVE  AnswersInv'
  <1>1. /\ IsFiniteSet(net') /\ net' \subseteq net \cup answer
        /\ copies' >= copies
    BY ReadAcks DEF AnswersInv
  <1>2. \A n \in net' : n.type = "data_ack" => n \in net
    BY <1>1
  <1> QED
    BY <1>1, <1>2, QuietAnswers

LEMMA HandlerAnswers ==
  ASSUME IInv, IInv', AnswersInv, NEW m \in net, HandleHello(m) \/ HandleData(m)
  PROVE  AnswersInv'
  <1>1. UNCHANGED peer /\ \A p \in Peers : Proceeds(p)
    BY DEF HandleHello, HandleData, Proceeds
  <1>2. CASE HandleHello(m)
    <2>1. /\ UNCHANGED heard
          /\ Read(m, {ErrorTo(m.from)}) \/ Read(m, {HelloAck(m.from, salts')})
      BY <1>2 DEF HandleHello
    <2>2. /\ IsFiniteSet({ErrorTo(m.from)})
          /\ \A a \in {ErrorTo(m.from)} : a.type # "data_ack"
      <3>1. IsFiniteSet({ErrorTo(m.from)})
        BY FS_Singleton
      <3>2. \A a \in {ErrorTo(m.from)} : a.type # "data_ack"
        BY DEF ErrorTo
      <3> QED
        BY <3>1, <3>2
    <2>3. /\ IsFiniteSet({HelloAck(m.from, salts')})
          /\ \A a \in {HelloAck(m.from, salts')} : a.type # "data_ack"
      <3>1. IsFiniteSet({HelloAck(m.from, salts')})
        BY FS_Singleton
      <3>2. \A a \in {HelloAck(m.from, salts')} : a.type # "data_ack"
        BY DEF HelloAck
      <3> QED
        BY <3>1, <3>2
    <2> QED
      BY <1>1, <2>1, <2>2, <2>3, ReadQuietly
  <1>3. CASE HandleData(m)
    <2>1. PICK s : s = sessions[m.from]
      OBVIOUS
    <2>2. m.type = "data"
      BY <1>3 DEF HandleData
    <2>3. \/ /\ s # None /\ Fresh(s, m) /\ m.key = s.key
             /\ heard' = heard \cup {<<s.key, m.seq>>}
             /\ Read(m, {DataAck(m.from, s.key, s.seqOut)})
          \/ Read(m, AnswerToOld(s, m)) /\ UNCHANGED heard
          \/ Read(m, {ErrorTo(m.from)}) /\ UNCHANGED heard
      BY <1>3, <2>1, Zenon DEF HandleData
    <2>4. CASE Read(m, AnswerToOld(s, m)) /\ UNCHANGED heard
      BY <1>1, <2>4, FS_EmptySet, ReadQuietly DEF AnswerToOld
    <2>5. CASE Read(m, {ErrorTo(m.from)}) /\ UNCHANGED heard
      <3>1. /\ IsFiniteSet({ErrorTo(m.from)})
            /\ \A a \in {ErrorTo(m.from)} : a.type # "data_ack"
        <4>1. IsFiniteSet({ErrorTo(m.from)})
          BY FS_Singleton
        <4>2. \A a \in {ErrorTo(m.from)} : a.type # "data_ack"
          BY DEF ErrorTo
        <4> QED
          BY <4>1, <4>2
      <3> QED
        BY <1>1, <2>5, <3>1, ReadQuietly
    <2>6. CASE /\ s # None /\ Fresh(s, m) /\ m.key = s.key
               /\ heard' = heard \cup {<<s.key, m.seq>>}
               /\ Read(m, {DataAck(m.from, s.key, s.seqOut)})
      <3>1. PICK f, a : f = <<s.key, m.seq>> /\ a = DataAck(m.from, s.key, s.seqOut)
        OBVIOUS
      <3>2. m.key \in Keys /\ <<m.key, m.seq>> \notin heard
        BY <2>1, <2>2, <2>6, TakenPing
      <3>3. s.key \in Keys /\ f \notin heard /\ f[1] = s.key /\ a.key = s.key
        BY <2>6, <3>1, <3>2 DEF DataAck
      <3>4. heard' = heard \cup {f} /\ Read(m, {a})
        BY <2>6, <3>1
      <3> QED
        BY <1>1, <3>3, <3>4, CountedAndAnswered
    <2> QED
      BY <2>3, <2>4, <2>5, <2>6
  <1> QED
    BY <1>2, <1>3

LEMMA ClientAnswers ==
  ASSUME IInv, IInv', AnswersInv, NEW p \in Peers, Client(p)
  PROVE  AnswersInv'
  <1>1. /\ peer \in [Peers -> PeerType] /\ copies \in Nat /\ IsFiniteSet(net)
    BY KeepaliveAssumption DEF IInv, TypeOK, AnswersInv
  <1>2. ASSUME NEW q, peer' = [peer EXCEPT ![p] = q],
               \/ q.pc \notin {"ping", "idle"}
               \/ q.pc = "ping" /\ q.seq = 0
               \/ /\ peer[p].pc = "idle" /\ q.pc = "ping"
                  /\ q.key = peer[p].key /\ q.seq = peer[p].seq + 1
        PROVE  \A r \in Peers : Proceeds(r)
    BY <1>1, <1>2 DEF Proceeds
  <1>3. ASSUME Fail(p) PROVE \A r \in Peers : Proceeds(r)
    <2>1. PICK pc \in {"exit", "down"} :
            pc = IF p \in OneShot THEN "exit" ELSE "down"
      OBVIOUS
    <2>2. PICK q : q = Process(pc, None, peer[p].attempt, None, 0)
      OBVIOUS
    <2>3. peer' = [peer EXCEPT ![p] = q]
      BY <1>3, <2>1, <2>2 DEF Fail
    <2>4. q.pc = pc
      BY <2>2 DEF Process
    <2> QED
      BY <1>2, <2>3, <2>4
  <1>4. ASSUME NEW key, NEW seq, SendPing(p, key, seq),
               \/ seq = 0
               \/ /\ peer[p].pc = "idle" /\ key = peer[p].key
                  /\ seq = peer[p].seq + 1
        PROVE  \A r \in Peers : Proceeds(r)
    <2>1. PICK q : q = Process("ping", peer[p].at, peer[p].attempt, key, seq)
      OBVIOUS
    <2>2. q.pc = "ping" /\ q.key = key /\ q.seq = seq
      BY <2>1 DEF Process
    <2> QED
      BY <1>2, <1>4, <2>1, <2>2 DEF SendPing
  <1>5. ASSUME NEW e \in Endpoints, Dial(p, e)
        PROVE  AnswersInv'
    <2>1. PICK auth, q :
            /\ q = Process("hello", e, peer[p].attempt + 1, None, 0)
            /\ peer' = [peer EXCEPT ![p] = q]
            /\ net' = net \cup {Hello(e, p, peer[p].attempt + 1, auth)}
      BY <1>5 DEF Dial
    <2>2. \A r \in Peers : Proceeds(r)
      BY <1>2, <2>1 DEF Process
    <2>3. IsFiniteSet(net')
      BY <1>1, <2>1, FS_AddElement
    <2>4. \A m \in net' : m.type = "data_ack" => m \in net
      BY <2>1 DEF Hello
    <2> QED
      BY <1>1, <1>5, <2>2, <2>3, <2>4, QuietAnswers DEF Dial
  <1>6. CASE Timeout(p)
    BY <1>1, <1>3, <1>6, QuietAnswers DEF Timeout
  <1>7. CASE Tick(p)
    <2>1. PICK d : d = Data(peer[p].at, peer[p].key, peer[p].seq + 1)
      OBVIOUS
    <2>2. net' = net \cup {d} /\ d.type = "data"
      BY <1>7, <2>1 DEF Tick, Data
    <2>3. \A r \in Peers : Proceeds(r)
      BY <1>4, <1>7 DEF Tick
    <2>4. IsFiniteSet(net')
      BY <1>1, <2>2, FS_AddElement
    <2> QED
      BY <1>1, <1>7, <2>2, <2>3, <2>4, QuietAnswers DEF Tick
  <1>8. CASE Receive(p)
    <2>1. PICK m \in net :
            /\ ReadHelloAck(p, m) \/ ReadDataAck(p, m) \/ ReadOther(p, m)
            /\ UNCHANGED heard
      BY <1>8 DEF Receive
    <2>2. CASE ReadHelloAck(p, m)
      <3>1. PICK key : SendPing(p, key, 0) /\ Read(m, {Data(m.to, key, 0)})
        BY <2>2 DEF ReadHelloAck
      <3>2. /\ IsFiniteSet({Data(m.to, key, 0)})
            /\ \A a \in {Data(m.to, key, 0)} : a.type # "data_ack"
        <4>1. IsFiniteSet({Data(m.to, key, 0)})
          BY FS_Singleton
        <4>2. \A a \in {Data(m.to, key, 0)} : a.type # "data_ack"
          BY DEF Data
        <4> QED
          BY <4>1, <4>2
      <3>3. \A r \in Peers : Proceeds(r)
        BY <1>4, <3>1
      <3> QED
        BY <2>1, <3>1, <3>2, <3>3, ReadQuietly
    <2>3. CASE ReadDataAck(p, m)
      BY <2>1, <2>3, TakenAnswer
    <2>4. CASE ReadOther(p, m)
      <3>1. Fail(p) /\ Read(m, {})
        BY <2>4 DEF ReadOther
      <3>2. \A r \in Peers : Proceeds(r)
        BY <1>3, <3>1
      <3> QED
        BY <2>1, <3>1, <3>2, FS_EmptySet, ReadQuietly
    <2> QED
      BY <2>1, <2>2, <2>3, <2>4
  <1> QED
    BY <1>5, <1>6, <1>7, <1>8 DEF Client

LEMMA NextAnswers ==
  ASSUME IInv, IInv', AnswersInv, [Next]_vars
  PROVE  AnswersInv'
  <1>1. CASE HandlePacket
    BY <1>1, HandlerAnswers DEF HandlePacket
  <1>2. ASSUME NEW p \in Peers, Client(p)
        PROVE  AnswersInv'
    BY <1>2, ClientAnswers
  <1>3. CASE GcTick \/ Restart \/ Lose \/ Undeliverable \/ UNCHANGED vars
    <2>1. UNCHANGED <<peer, heard, copies>> /\ net' \subseteq net
      BY <1>3 DEF GcTick, Restart, Lose, Undeliverable, vars
    <2>2. IsFiniteSet(net') /\ copies \in Nat
      BY <2>1, FS_Subset, KeepaliveAssumption DEF AnswersInv, IInv, TypeOK
    <2>3. \A p \in Peers : Proceeds(p)
      BY <2>1 DEF Proceeds
    <2>4. \A m \in net' : m.type = "data_ack" => m \in net
      BY <2>1
    <2> QED
      BY <2>1, <2>2, <2>3, <2>4, QuietAnswers
  <1> QED
    BY <1>1, <1>2, <1>3 DEF Next

LEMMA AnswersAlways == Spec => []AnswersInv
  <1>1. IInv /\ IInv' /\ AnswersInv /\ [Next]_vars => AnswersInv'
    BY NextAnswers
  <1> QED
    BY <1>1, InitAnswers, InductiveInvariant, PTL DEF Spec

\* "keepalive ok seq=n" of cmd/worker: the server has counted a ping of this
\* session, and all but as many of the n+1 as the network duplicated answers
\* (sendPing compares no numbers).
THEOREM OkAlwaysHeard == Spec => []OkMeansHeard
  <1>1. IInv /\ AnswersInv => OkMeansHeard
    <2> SUFFICES ASSUME IInv, AnswersInv, NEW p \in Peers, peer[p].pc = "idle"
                 PROVE  /\ HeardOf(peer[p].key) # {}
                        /\ Tally(peer[p].key) >= peer[p].seq + 1 - copies
      BY DEF OkMeansHeard, Tally
    <2>1. PICK key \in Keys : key = peer[p].key
      BY DEF IInv, Underway
    <2>2. /\ Uses(p, key) /\ Answered(p) = peer[p].seq + 1
      BY <2>1 DEF Uses, Answered
    <2>3. /\ Answered(p) + InFlight(key) <= Tally(key) + copies
          /\ Tally(key) > 0
      BY <2>2 DEF AnswersInv
    <2>4. /\ InFlight(key) \in Nat /\ Tally(key) \in Nat
          /\ copies \in Nat /\ peer[p].seq \in Nat
      BY CountsAreNat, KeepaliveAssumption
         DEF AnswersInv, IInv, TypeOK, PeerType
    <2>5. Tally(key) >= peer[p].seq + 1 - copies
      BY <2>2, <2>3, <2>4
    <2>6. HeardOf(key) # {}
      BY <2>3, FS_EmptySet DEF Tally
    <2> QED
      BY <2>1, <2>5, <2>6
  <1> QED
    BY <1>1, InductiveInvariant, AnswersAlways, PTL

-----------------------------------------------------------------------------
(***************************************************************************)
(* Why a worker reconnects.  It has had one connection more than there     *)
(* were faults only if its last one is smooth: of the exchange with the    *)
(* server nothing is missing and nothing is too many, so no error and no   *)
(* deadline ends it until the next fault.  Two peers never share a socket, *)
(* hence only the peer's own steps and the server's answers matter.        *)
(***************************************************************************)

About(e) == {m \in net : Address(m) = e}
Mine(p, e) == sessions[e] # None /\ sessions[e].key = peer[p].key

HelloSent(p, e) ==
  peer[p].pc = "hello" /\ About(e) = {Hello(e, p, peer[p].attempt, TRUE)}
HelloAnswered(p, e) ==
  /\ peer[p].pc = "hello"
  /\ \E n \in 1 .. MaxSalts :
       /\ About(e) = {HelloAck(e, n)}
       /\ sessions[e] =
            NewSession([by |-> p, attempt |-> peer[p].attempt, salt |-> n])
PingSent(p, e) ==
  /\ peer[p].pc = "ping" /\ About(e) = {Data(e, peer[p].key, peer[p].seq)}
  /\ Mine(p, e) /\ sessions[e].seqIn < peer[p].seq
PingAnswered(p, e) ==
  /\ peer[p].pc = "ping"
  /\ \E n \in 0 .. MaxSeq : About(e) = {DataAck(e, peer[p].key, n)}
  /\ Mine(p, e) /\ sessions[e].seqIn <= peer[p].seq
Rests(p, e) ==
  /\ peer[p].pc = "idle" /\ About(e) = {}
  /\ Mine(p, e) /\ sessions[e].seqIn <= peer[p].seq

SmoothAt(p, e) ==
  \/ HelloSent(p, e)
  \/ HelloAnswered(p, e)
  \/ PingSent(p, e)
  \/ PingAnswered(p, e)
  \/ Rests(p, e)
Smooth(p) == SmoothAt(p, peer[p].at)

OwnSockets ==
  \A p, q \in Peers : peer[p].at = peer[q].at /\ peer[p].at # None => p = q

CauseInv ==
  /\ OwnSockets
  /\ \A p \in Enrolled \ OneShot :
       /\ peer[p].attempt <= faults + 1
       /\ peer[p].attempt > faults => Smooth(p)

LEMMA InitCause == Init => CauseInv
  BY KeepaliveAssumption DEF Init, Process, CauseInv, OwnSockets

\* A socket is taken once: only Dial binds one, and to a free endpoint.
LEMMA SocketsStayApart ==
  ASSUME IInv, OwnSockets, [Next]_vars
  PROVE  OwnSockets'
  <1>1. peer \in [Peers -> PeerType]
    BY DEF IInv, TypeOK
  <1>2. ASSUME NEW p \in Peers, NEW x, peer' = [peer EXCEPT ![p] = x],
               \/ x.at = None
               \/ x.at = peer[p].at
               \/ \A q \in Peers : peer[q].at # x.at
        PROVE  OwnSockets'
    BY <1>1, <1>2 DEF OwnSockets
  <1>3. ASSUME NEW p \in Peers, Fail(p) PROVE OwnSockets'
    <2>1. PICK pc : pc = IF p \in OneShot THEN "exit" ELSE "down"
      OBVIOUS
    <2>2. PICK x : x = Process(pc, None, peer[p].attempt, None, 0)
      OBVIOUS
    <2>3. peer' = [peer EXCEPT ![p] = x]
      BY <1>3, <2>1, <2>2 DEF Fail
    <2> QED
      BY <1>2, <2>2, <2>3 DEF Process
  <1>4. ASSUME NEW p \in Peers, NEW key, NEW seq, SendPing(p, key, seq)
        PROVE  OwnSockets'
    <2>1. PICK x : x = Process("ping", peer[p].at, peer[p].attempt, key, seq)
      OBVIOUS
    <2> QED
      BY <1>2, <1>4, <2>1 DEF SendPing, Process
  <1>5. ASSUME NEW p \in Peers, NEW e \in Endpoints, Dial(p, e)
        PROVE  OwnSockets'
    <2>1. PICK x : x = Process("hello", e, peer[p].attempt + 1, None, 0)
      OBVIOUS
    <2>2. x.at = e /\ peer' = [peer EXCEPT ![p] = x]
      BY <1>5, <2>1 DEF Dial, Process
    <2> QED
      BY <1>2, <1>5, <2>2 DEF Dial
  <1>6. ASSUME NEW p \in Peers, Receive(p)
        PROVE  OwnSockets'
    <2>1. PICK m \in net :
            /\ m.to = peer[p].at
            /\ ReadHelloAck(p, m) \/ ReadDataAck(p, m) \/ ReadOther(p, m)
      BY <1>6 DEF Receive
    <2>2. CASE ReadDataAck(p, m)
      <3>1. PICK x : x = IF p \in OneShot
                THEN Process("exit", None, peer[p].attempt, m.key, peer[p].seq)
                ELSE Process("idle", m.to, peer[p].attempt, m.key, peer[p].seq)
        OBVIOUS
      <3>2. x.at = None \/ x.at = peer[p].at
        BY <2>1, <3>1 DEF Process
      <3> QED
        BY <1>2, <2>2, <3>1, <3>2 DEF ReadDataAck
    <2> QED
      BY <1>3, <1>4, <2>1, <2>2 DEF ReadHelloAck, ReadOther
  <1>7. ASSUME NEW p \in Peers, Client(p)
        PROVE  OwnSockets'
    BY <1>3, <1>4, <1>5, <1>6, <1>7 DEF Client, Timeout, Tick
  <1>8. ASSUME UNCHANGED peer
        PROVE  OwnSockets'
    BY <1>8 DEF OwnSockets
  <1> QED
    BY <1>7, <1>8 DEF Next, HandlePacket, HandleHello, HandleData, GcTick,
                      Restart, Lose, Undeliverable, vars

-----------------------------------------------------------------------------
\* A step that leaves a peer, its session and what is on its way alone.
LEMMA StaysSmooth ==
  ASSUME NEW p, NEW e, e = peer[p].at, Smooth(p), peer'[p] = peer[p],
         sessions'[e] = sessions[e], About(e)' = About(e)
  PROVE  Smooth(p)'
  BY DEF Smooth, SmoothAt, HelloSent, HelloAnswered, PingSent, PingAnswered,
         Rests, Mine

\* A read that is no fault takes the only copy.
LEMMA ReadOnce ==
  ASSUME IInv, UNCHANGED faults, NEW m, NEW answer, Read(m, answer)
  PROVE  net' = (net \ {m}) \cup answer
  <1>1. faults \in Nat
    BY KeepaliveAssumption DEF IInv, TypeOK
  <1>2. ~Fault
    BY <1>1 DEF Fault
  <1> QED
    BY <1>2 DEF Read

\* What it does at an address: nothing, or the answer replaces the datagram.
LEMMA ReadAt ==
  ASSUME IInv, UNCHANGED faults, NEW e, NEW m, NEW answer, Read(m, answer)
  PROVE  /\ Address(m) # e /\ (\A a \in answer : Address(a) # e)
              => About(e)' = About(e)
         /\ About(e) = {m} /\ (\A a \in answer : Address(a) = e)
              => About(e)' = answer
  <1>1. net' = (net \ {m}) \cup answer
    BY ReadOnce
  <1> QED
    BY <1>1 DEF About

LEMMA Addresses ==
  /\ \A e, p, n, auth : Address(Hello(e, p, n, auth)) = e
  /\ \A e, k, n : Address(Data(e, k, n)) = e
  /\ \A e, n : Address(HelloAck(e, n)) = e
  /\ \A e, k, n : Address(DataAck(e, k, n)) = e
  /\ \A e : Address(ErrorTo(e)) = e
  BY DEF Address, ToServer, Hello, Data, HelloAck, DataAck, ErrorTo

LEMMA SmoothFields ==
  ASSUME IInv, NEW p \in Peers, Smooth(p)
  PROVE  /\ peer[p].pc \in {"hello", "ping", "idle"}
         /\ peer[p].at \in Endpoints
         /\ peer[p].pc \in {"ping", "idle"} => peer[p].key \in Keys
         /\ peer[p].attempt \in 1 .. MaxAttempts
         /\ peer[p].seq \in 0 .. MaxSeq - 1
  <1>1. peer[p].pc \in {"hello", "ping", "idle"}
    BY DEF Smooth, SmoothAt, HelloSent, HelloAnswered, PingSent, PingAnswered,
           Rests
  <1> QED
    BY <1>1, PeerFields DEF IInv, Underway

\* The server's step: it answers the hello of a smooth connection with a new
\* session, its ping with an acknowledgement, and leaves the others alone.
LEMMA HandlerSmooth ==
  ASSUME IInv, NEW p \in Peers, Smooth(p), UNCHANGED faults,
         NEW m \in net, HandleHello(m) \/ HandleData(m)
  PROVE  Smooth(p)'
  <1>1. PICK e \in Endpoints : e = peer[p].at
    BY SmoothFields
  <1>2. UNCHANGED peer /\ ToServer(m) /\ Address(m) = m.from
    BY DEF HandleHello, HandleData, ToServer, Address
  <1>3. CASE m.from # e
    <2>1. PICK answer : /\ Read(m, answer)
                        /\ \A a \in answer : Address(a) = m.from
      <3>1. CASE HandleHello(m)
        <4>1. Read(m, {ErrorTo(m.from)}) \/ Read(m, {HelloAck(m.from, salts')})
          BY <3>1 DEF HandleHello
        <4> QED
          BY <4>1, Addresses
      <3>2. CASE HandleData(m)
        <4>1. PICK s : s = sessions[m.from]
          OBVIOUS
        <4>2. \/ Read(m, {DataAck(m.from, s.key, s.seqOut)})
              \/ Read(m, {})
              \/ Read(m, {ErrorTo(m.from)})
          BY <3>2, <4>1, Zenon DEF HandleData, AnswerToOld
        <4> QED
          BY <4>2, Addresses
      <3> QED
        BY <3>1, <3>2
    <2>2. About(e)' = About(e)
      BY <1>2, <1>3, <2>1, ReadAt
    <2>3. sessions'[e] = sessions[e]
      <3>1. sessions' = sessions
              \/ \E s : sessions' = [sessions EXCEPT ![m.from] = s]
        BY Zenon DEF HandleHello, HandleData
      <3> QED
        BY <1>3, <3>1 DEF IInv, TypeOK
    <2> QED
      BY <1>1, <1>2, <2>2, <2>3, StaysSmooth
  <1>4. CASE m.from = e
    <2>1. m \in About(e)
      BY <1>2, <1>4 DEF About
    <2>2. \/ /\ HelloSent(p, e) /\ m = Hello(e, p, peer[p].attempt, TRUE)
             /\ About(e) = {m}
          \/ /\ PingSent(p, e) /\ m = Data(e, peer[p].key, peer[p].seq)
             /\ About(e) = {m}
      <3>1. /\ \A n : ~ToServer(HelloAck(e, n))
            /\ \A k, n : ~ToServer(DataAck(e, k, n))
        BY DEF ToServer, HelloAck, DataAck
      <3> QED
        BY <1>1, <1>2, <2>1, <3>1
           DEF Smooth, SmoothAt, HelloSent, HelloAnswered, PingSent,
               PingAnswered, Rests
    <2>3. ASSUME HelloSent(p, e), m = Hello(e, p, peer[p].attempt, TRUE),
                 About(e) = {m}
          PROVE  HelloAnswered(p, e)'
      <3>1. /\ m.type = "hello" /\ m.auth = TRUE /\ m.by = p
            /\ m.attempt = peer[p].attempt
        BY <2>3 DEF Hello
      <3>2. /\ salts < MaxSalts /\ salts' = salts + 1
            /\ sessions' = [sessions EXCEPT ![e] = NewSession(
                 [by |-> p, attempt |-> peer[p].attempt, salt |-> salts'])]
            /\ Read(m, {HelloAck(e, salts')})
        BY <1>4, <3>1 DEF HandleHello, HandleData
      <3>3. salts' \in 1 .. MaxSalts
        BY <3>2, KeepaliveAssumption DEF IInv, TypeOK
      <3>4. About(e)' = {HelloAck(e, salts')}
        <4>1. PICK a : a = HelloAck(e, salts')
          OBVIOUS
        <4>2. Read(m, {a}) /\ Address(a) = e
          BY <3>2, <4>1, Addresses
        <4> QED
          BY <2>3, <4>1, <4>2, ReadAt
      <3>5. sessions'[e] = NewSession(
              [by |-> p, attempt |-> peer[p].attempt, salt |-> salts'])
        BY <3>2 DEF IInv, TypeOK
      <3> QED
        BY <1>2, <2>3, <3>3, <3>4, <3>5 DEF HelloSent, HelloAnswered
    <2>4. ASSUME PingSent(p, e), m = Data(e, peer[p].key, peer[p].seq),
                 About(e) = {m}
          PROVE  PingAnswered(p, e)'
      <3>1. m.type = "data" /\ m.key = peer[p].key /\ m.seq = peer[p].seq
        BY <2>4 DEF Data
      <3>2. PICK s : s = sessions[e]
        OBVIOUS
      <3>3. s # None /\ s.key = m.key /\ Fresh(s, m)
        BY <2>4, <3>1, <3>2, SmoothFields, KeepaliveAssumption
           DEF PingSent, Mine, Fresh, IInv, TypeOK, SessionType
      <3>4. /\ sessions' = [sessions EXCEPT ![e] =
                              Session(s.key, m.seq, s.seqOut + 1)]
            /\ Read(m, {DataAck(e, s.key, s.seqOut)})
        <4>1. HandleData(m)
          BY <3>1 DEF HandleHello
        <4> QED
          BY <1>4, <3>2, <3>3, <4>1, Zenon DEF HandleData
      <3>5. s \in SessionType /\ s.seqOut \in 0 .. MaxSeq
        BY <3>2, <3>3 DEF IInv, TypeOK, SessionType
      <3>6. About(e)' = {DataAck(e, peer[p].key, s.seqOut)}
        BY <2>4, <3>1, <3>3, <3>4, Addresses, ReadAt
      <3>7. PICK t : t = Session(s.key, m.seq, s.seqOut + 1)
        OBVIOUS
      <3>8. sessions'[e] = t /\ t.key = peer[p].key /\ t.seqIn = peer[p].seq
        BY <3>1, <3>3, <3>4, <3>7 DEF Session, IInv, TypeOK
      <3>9. t # None
        <4>1. s.seqOut <= s.seqIn + 1 /\ s.seqIn < m.seq
          BY <2>4, <3>1, <3>2, <3>3 DEF PingSent, IInv, Table
        <4>2. /\ s.seqIn \in -1 .. MaxSeq - 1 /\ s.key \in Keys
              /\ m.seq \in 0 .. MaxSeq - 1
          BY <3>1, <3>5, PeerFields DEF SessionType
        <4>3. m.seq \in -1 .. MaxSeq - 1 /\ s.seqOut + 1 \in 0 .. MaxSeq
          BY <3>5, <4>1, <4>2, KeepaliveAssumption
        <4>4. t \in SessionType
          BY <3>7, <4>2, <4>3 DEF Session, SessionType
        <4> QED
          BY <4>4, TableAssumption
      <3>10. peer[p].seq \in Nat
        BY PeerFields
      <3> QED
        BY <1>2, <2>4, <3>5, <3>6, <3>8, <3>9, <3>10
           DEF PingSent, PingAnswered, Mine
    <2> QED
      BY <1>1, <1>2, <2>2, <2>3, <2>4 DEF Smooth, SmoothAt
  <1> QED
    BY <1>3, <1>4

\* The peer's own step: it takes the hello_ack, pings, takes the
\* acknowledgement and pings again.
LEMMA OwnSmooth ==
  ASSUME IInv, NEW p \in Peers, p \notin OneShot, Smooth(p), UNCHANGED faults,
         Client(p)
  PROVE  Smooth(p)'
  <1>1. PICK e \in Endpoints : e = peer[p].at
    BY SmoothFields
  <1>2. peer[p].pc \in {"hello", "ping", "idle"} /\ SmoothAt(p, e)
    BY <1>1, SmoothFields DEF Smooth
  <1>3. ASSUME NEW f \in Endpoints, Dial(p, f)
        PROVE  FALSE
    BY <1>2, <1>3 DEF Dial
  <1>4. ~Fault
    BY KeepaliveAssumption DEF Fault, IInv, TypeOK
  <1>5. ~Timeout(p)
    <2>1. SUFFICES ASSUME Timeout(p) PROVE FALSE
      OBVIOUS
    <2>2. About(e) = {} /\ peer[p].pc \in {"hello", "ping"}
      BY <1>1, <1>4, <2>1 DEF Timeout, Quiet, About, Waiting
    <2> QED
      BY <1>2, <2>2
         DEF SmoothAt, HelloSent, HelloAnswered, PingSent, PingAnswered, Rests
  <1>6. CASE Tick(p)
    <2>1. PICK seq : seq = peer[p].seq + 1
      OBVIOUS
    <2>2. /\ peer[p].pc = "idle" /\ SendPing(p, peer[p].key, seq)
          /\ net' = net \cup {Data(e, peer[p].key, seq)}
          /\ UNCHANGED sessions
      BY <1>1, <1>6, <2>1 DEF Tick
    <2>3. Rests(p, e)
      BY <1>2, <2>2
         DEF SmoothAt, HelloSent, HelloAnswered, PingSent, PingAnswered
    <2>4. PICK x : x = Process("ping", e, peer[p].attempt, peer[p].key, seq)
      OBVIOUS
    <2>5. /\ peer'[p] = x /\ x.pc = "ping" /\ x.at = e /\ x.seq = seq
          /\ x.key = peer[p].key
      BY <1>1, <2>2, <2>4 DEF SendPing, Process, IInv, TypeOK
    <2>6. About(e)' = {Data(e, peer[p].key, seq)}
      BY <2>2, <2>3, Addresses DEF Rests, About
    <2>7. sessions[e].seqIn < seq
      BY <2>1, <2>3, PeerFields DEF Rests, Mine, IInv, TypeOK, SessionType
    <2>8. PingSent(p, e)'
      BY <2>2, <2>3, <2>5, <2>6, <2>7 DEF Rests, PingSent, Mine
    <2> QED
      BY <2>5, <2>8 DEF Smooth, SmoothAt
  <1>7. CASE Receive(p)
    <2>1. PICK m \in net :
            /\ ~ToServer(m) /\ m.to = e
            /\ ReadHelloAck(p, m) \/ ReadDataAck(p, m) \/ ReadOther(p, m)
            /\ UNCHANGED sessions
      BY <1>1, <1>7 DEF Receive
    <2>2. m \in About(e)
      BY <2>1 DEF About, Address
    <2>3. \/ \E n \in 1 .. MaxSalts :
               /\ HelloAnswered(p, e) /\ About(e) = {m} /\ m = HelloAck(e, n)
               /\ sessions[e] = NewSession(
                    [by |-> p, attempt |-> peer[p].attempt, salt |-> n])
          \/ \E n : /\ PingAnswered(p, e) /\ About(e) = {m}
                    /\ m = DataAck(e, peer[p].key, n)
      <3>1. /\ \A n, k : ToServer(Hello(e, p, n, k))
            /\ \A k, n : ToServer(Data(e, k, n))
        BY DEF ToServer, Hello, Data
      <3> QED
        BY <1>2, <2>1, <2>2, <3>1
           DEF SmoothAt, HelloSent, HelloAnswered, PingSent, PingAnswered, Rests
    <2>4. ASSUME NEW n \in 1 .. MaxSalts,
                 HelloAnswered(p, e), About(e) = {m}, m = HelloAck(e, n),
                 sessions[e] = NewSession(
                   [by |-> p, attempt |-> peer[p].attempt, salt |-> n])
          PROVE  Smooth(p)'
      <3>1. m.type = "hello_ack" /\ m.salt = n /\ peer[p].pc = "hello"
        BY <2>4 DEF HelloAck, HelloAnswered
      <3>2. PICK key : key = [by |-> p, attempt |-> peer[p].attempt, salt |-> n]
        OBVIOUS
      <3>3. SendPing(p, key, 0) /\ Read(m, {Data(e, key, 0)})
        BY <2>1, <3>1, <3>2 DEF ReadHelloAck, ReadDataAck, ReadOther, Waiting
      <3>4. PICK x : x = Process("ping", e, peer[p].attempt, key, 0)
        OBVIOUS
      <3>5. /\ peer'[p] = x /\ x.pc = "ping" /\ x.at = e /\ x.seq = 0
            /\ x.key = key
        BY <1>1, <3>3, <3>4 DEF SendPing, Process, IInv, TypeOK
      <3>6. About(e)' = {Data(e, key, 0)}
        BY <2>4, <3>3, Addresses, ReadAt
      <3>7. key \in Keys
        BY <3>2, SmoothFields DEF Keys
      <3>8. sessions[e] \in SessionType /\ sessions[e].key = key
              /\ sessions[e].seqIn = -1
        BY <2>4, <3>2, <3>7, KeepaliveAssumption
           DEF NewSession, Session, SessionType
      <3>9. sessions[e] # None
        BY <3>8, TableAssumption
      <3>10. PingSent(p, e)'
        BY <2>1, <3>5, <3>6, <3>8, <3>9 DEF PingSent, Mine
      <3> QED
        BY <3>5, <3>10 DEF Smooth, SmoothAt
    <2>5. ASSUME NEW n, PingAnswered(p, e), About(e) = {m},
                 m = DataAck(e, peer[p].key, n)
          PROVE  Smooth(p)'
      <3>1. m.type = "data_ack" /\ m.key = peer[p].key /\ peer[p].pc = "ping"
        BY <2>5 DEF DataAck, PingAnswered
      <3>2. PICK x : x = Process("idle", e, peer[p].attempt, m.key, peer[p].seq)
        OBVIOUS
      <3>3. Read(m, {}) /\ peer' = [peer EXCEPT ![p] = x]
        BY <2>1, <3>1, <3>2 DEF ReadHelloAck, ReadDataAck, ReadOther, Waiting
      <3>4. /\ peer'[p] = x /\ x.pc = "idle" /\ x.at = e
            /\ x.key = peer[p].key /\ x.seq = peer[p].seq
        BY <3>1, <3>2, <3>3 DEF Process, IInv, TypeOK
      <3>5. About(e)' = {}
        BY <2>5, <3>3, ReadAt
      <3>6. Rests(p, e)'
        BY <2>1, <2>5, <3>4, <3>5 DEF PingAnswered, Rests, Mine
      <3> QED
        BY <3>4, <3>6 DEF Smooth, SmoothAt
    <2> QED
      BY <2>3, <2>4, <2>5
  <1> QED
    BY <1>3, <1>5, <1>6, <1>7 DEF Client

\* Another peer's step, at a socket of its own.
LEMMA OtherSmooth ==
  ASSUME IInv, OwnSockets, NEW p \in Peers, Smooth(p), UNCHANGED faults,
         NEW q \in Peers, q # p, Client(q)
  PROVE  Smooth(p)'
  <1>1. PICK e \in Endpoints : e = peer[p].at
    BY SmoothFields
  <1>2. peer[q].at # e
    BY <1>1, KeepaliveAssumption DEF OwnSockets
  <1>3. ASSUME NEW x, peer' = [peer EXCEPT ![q] = x], UNCHANGED sessions,
               About(e)' = About(e)
        PROVE  Smooth(p)'
    <2>1. peer'[p] = peer[p]
      BY <1>3 DEF IInv, TypeOK
    <2> QED
      BY <1>1, <1>3, <2>1, StaysSmooth
  <1>4. ASSUME Fail(q), UNCHANGED sessions, About(e)' = About(e)
        PROVE  Smooth(p)'
    BY <1>3, <1>4 DEF Fail
  <1>5. ASSUME NEW m, NEW f, f # e, net' = net \cup {m}, Address(m) = f
        PROVE  About(e)' = About(e)
    BY <1>5 DEF About
  <1>6. ASSUME NEW f \in Endpoints, Dial(q, f)
        PROVE  Smooth(p)'
    <2>1. f # e
      BY <1>1, <1>6 DEF Dial
    <2>2. PICK m : net' = net \cup {m} /\ Address(m) = f
      BY <1>6, Addresses DEF Dial
    <2> QED
      BY <1>3, <1>5, <1>6, <2>1, <2>2 DEF Dial
  <1>7. CASE Timeout(q)
    BY <1>4, <1>7 DEF Timeout, About
  <1>8. CASE Tick(q)
    <2>1. PICK m : net' = net \cup {m} /\ Address(m) = peer[q].at
      BY <1>8, Addresses DEF Tick
    <2> QED
      BY <1>2, <1>3, <1>5, <1>8, <2>1 DEF Tick, SendPing
  <1>9. CASE Receive(q)
    <2>1. PICK m \in net :
            /\ ~ToServer(m) /\ m.to = peer[q].at
            /\ ReadHelloAck(q, m) \/ ReadDataAck(q, m) \/ ReadOther(q, m)
            /\ UNCHANGED sessions
      BY <1>9 DEF Receive
    <2>2. Address(m) = m.to
      BY <2>1 DEF Address
    <2>3. CASE ReadHelloAck(q, m)
      <3>1. PICK key : SendPing(q, key, 0) /\ Read(m, {Data(m.to, key, 0)})
        BY <2>3 DEF ReadHelloAck
      <3>2. About(e)' = About(e)
        BY <1>2, <2>1, <2>2, <3>1, Addresses, ReadAt
      <3> QED
        BY <1>3, <2>1, <3>1, <3>2 DEF SendPing
    <2>4. ASSUME Read(m, {}) PROVE About(e)' = About(e)
      BY <1>2, <2>1, <2>2, <2>4, ReadAt
    <2> QED
      BY <1>3, <1>4, <2>1, <2>3, <2>4 DEF ReadDataAck, ReadOther
  <1> QED
    BY <1>6, <1>7, <1>8, <1>9 DEF Client

\* Without a fault a smooth connection stays smooth.
LEMMA SmoothStays ==
  ASSUME IInv, OwnSockets, NEW p \in Peers, p \notin OneShot, Smooth(p),
         UNCHANGED faults, [Next]_vars
  PROVE  Smooth(p)'
  <1>1. ~Fault
    BY KeepaliveAssumption DEF Fault, IInv, TypeOK
  <1>2. CASE HandlePacket
    BY <1>2, HandlerSmooth DEF HandlePacket
  <1>3. ASSUME NEW q \in Peers, Client(q)
        PROVE  Smooth(p)'
    BY <1>3, OwnSmooth, OtherSmooth
  <1>4. CASE Undeliverable
    <2>1. PICK m \in net :
            /\ ~ToServer(m) /\ \A q \in Peers : peer[q].at # m.to
            /\ net' = net \ {m} /\ UNCHANGED <<sessions, peer>>
      BY <1>4 DEF Undeliverable
    <2>2. Address(m) # peer[p].at
      BY <2>1 DEF Address
    <2>3. PICK e : e = peer[p].at
      OBVIOUS
    <2>4. About(e)' = About(e)
      BY <2>1, <2>2, <2>3 DEF About
    <2> QED
      BY <2>1, <2>3, <2>4, StaysSmooth
  <1>5. CASE UNCHANGED vars
    <2>1. PICK e : e = peer[p].at
      OBVIOUS
    <2> QED
      BY <1>5, <2>1, StaysSmooth DEF vars, About
  <1> QED
    BY <1>1, <1>2, <1>3, <1>4, <1>5 DEF Next, GcTick, Restart, Lose

\* How the counters move: a step is a fault at most, and only Dial, from a
\* closed socket, begins an attempt.
LEMMA Attempts ==
  ASSUME IInv, [Next]_vars, NEW p \in Peers
  PROVE  /\ faults' = faults \/ faults' = faults + 1
         /\ \/ peer'[p].attempt = peer[p].attempt
            \/ /\ peer[p].pc = "down"
               /\ peer'[p].attempt = peer[p].attempt + 1
               /\ UNCHANGED faults => \E e \in Endpoints :
                    /\ peer'[p].at = e /\ peer'[p].pc = "hello"
                    /\ p \in Enrolled =>
                         About(e)' = {Hello(e, p, peer'[p].attempt, TRUE)}
  <1>1. faults \in Nat /\ peer \in [Peers -> PeerType]
    BY KeepaliveAssumption DEF IInv, TypeOK
  <1>2. \A m, answer : Read(m, answer) => faults' = faults \/ faults' = faults + 1
    BY DEF Read, Fault, NoFault
  <1>3. ASSUME NEW q \in Peers, NEW x, peer' = [peer EXCEPT ![q] = x],
               x.attempt = peer[q].attempt
        PROVE  peer'[p].attempt = peer[p].attempt
    BY <1>1, <1>3
  <1>4. ASSUME NEW q \in Peers, Fail(q)
        PROVE  peer'[p].attempt = peer[p].attempt
    <2>1. PICK pc : pc = IF q \in OneShot THEN "exit" ELSE "down"
      OBVIOUS
    <2>2. PICK x : x = Process(pc, None, peer[q].attempt, None, 0)
      OBVIOUS
    <2>3. peer' = [peer EXCEPT ![q] = x] /\ x.attempt = peer[q].attempt
      BY <1>4, <2>1, <2>2 DEF Fail, Process
    <2> QED
      BY <1>3, <2>3
  <1>5. ASSUME NEW q \in Peers, NEW key, NEW seq, SendPing(q, key, seq)
        PROVE  peer'[p].attempt = peer[p].attempt
    <2>1. PICK x : x = Process("ping", peer[q].at, peer[q].attempt, key, seq)
      OBVIOUS
    <2> QED
      BY <1>3, <1>5, <2>1 DEF SendPing, Process
  <1>6. CASE HandlePacket
    <2>1. PICK m : HandleHello(m) \/ HandleData(m)
      BY <1>6 DEF HandlePacket
    <2>2. UNCHANGED peer /\ \E answer : Read(m, answer)
      BY <2>1, Zenon DEF HandleHello, HandleData
    <2> QED
      BY <1>2, <2>2
  <1>7. CASE GcTick \/ Restart \/ Lose \/ Undeliverable \/ UNCHANGED vars
    BY <1>7 DEF GcTick, Restart, Lose, Undeliverable, vars, Fault
  <1>8. ASSUME NEW q \in Peers, Timeout(q) \/ Tick(q) \/ Receive(q)
        PROVE  /\ faults' = faults \/ faults' = faults + 1
               /\ peer'[p].attempt = peer[p].attempt
    <2>1. CASE Timeout(q)
      BY <1>4, <2>1 DEF Timeout, Fault, NoFault
    <2>2. CASE Tick(q)
      BY <1>5, <2>2 DEF Tick
    <2>3. CASE Receive(q)
      <3>1. PICK m : ReadHelloAck(q, m) \/ ReadDataAck(q, m) \/ ReadOther(q, m)
        BY <2>3 DEF Receive
      <3>2. CASE ReadHelloAck(q, m)
        BY <1>2, <1>5, <3>2 DEF ReadHelloAck
      <3>3. CASE ReadDataAck(q, m)
        <4>1. PICK x : x = IF q \in OneShot
                THEN Process("exit", None, peer[q].attempt, m.key, peer[q].seq)
                ELSE Process("idle", m.to, peer[q].attempt, m.key, peer[q].seq)
          OBVIOUS
        <4>2. x.attempt = peer[q].attempt
          BY <4>1 DEF Process
        <4>3. peer' = [peer EXCEPT ![q] = x] /\ Read(m, {})
          BY <3>3, <4>1 DEF ReadDataAck
        <4> QED
          BY <1>2, <1>3, <4>2, <4>3
      <3>4. CASE ReadOther(q, m)
        BY <1>2, <1>4, <3>4 DEF ReadOther
      <3> QED
        BY <3>1, <3>2, <3>3, <3>4
    <2> QED
      BY <1>8, <2>1, <2>2, <2>3
  <1>9. ASSUME NEW q \in Peers, NEW e \in Endpoints, Dial(q, e)
        PROVE  /\ faults' = faults \/ faults' = faults + 1
               /\ \/ peer'[p].attempt = peer[p].attempt
                  \/ /\ peer[p].pc = "down"
                     /\ peer'[p].attempt = peer[p].attempt + 1
                     /\ UNCHANGED faults =>
                          /\ peer'[p].at = e /\ peer'[p].pc = "hello"
                          /\ p \in Enrolled =>
                               About(e)' = {Hello(e, p, peer'[p].attempt, TRUE)}
    <2>1. PICK x : x = Process("hello", e, peer[q].attempt + 1, None, 0)
      OBVIOUS
    <2>2. PICK auth \in BOOLEAN :
            /\ q \in Enrolled => auth
            /\ net' = net \cup {Hello(e, q, peer[q].attempt + 1, auth)}
      BY <1>9 DEF Dial
    <2>3. /\ peer' = [peer EXCEPT ![q] = x] /\ peer[q].pc = "down"
          /\ faults' = faults \/ faults' = faults + 1
          /\ UNCHANGED faults => Quiet(e)
      BY <1>1, <1>9, <2>1 DEF Dial, Fault, NoFault
    <2>4. x.at = e /\ x.pc = "hello" /\ x.attempt = peer[q].attempt + 1
      BY <2>1 DEF Process
    <2>5. CASE q # p
      BY <1>1, <2>3, <2>5
    <2>6. CASE q = p
      <3>1. peer'[p] = x
        BY <1>1, <2>3, <2>6
      <3>2. ASSUME Quiet(e), p \in Enrolled
            PROVE  About(e)' = {Hello(e, p, peer'[p].attempt, TRUE)}
        <4>1. net' = net \cup {Hello(e, p, peer'[p].attempt, TRUE)}
          BY <2>2, <2>4, <2>6, <3>1, <3>2
        <4>2. PICK h : h = Hello(e, p, peer'[p].attempt, TRUE)
          OBVIOUS
        <4>3. net' = net \cup {h}
          BY <4>1, <4>2
        <4>4. Address(h) = e
          BY <4>2 DEF Address, ToServer, Hello
        <4>5. About(e)' = {h}
          BY <3>2, <4>3, <4>4 DEF About, Quiet
        <4> QED
          BY <4>2, <4>5
      <3> QED
        BY <2>3, <2>4, <2>6, <3>1, <3>2
    <2> QED
      BY <2>5, <2>6
  <1> QED
    BY <1>6, <1>7, <1>8, <1>9 DEF Next, Client

LEMMA NextCause ==
  ASSUME IInv, CauseInv, [Next]_vars
  PROVE  CauseInv'
  <1>1. OwnSockets'
    BY SocketsStayApart DEF CauseInv
  <1>2. ASSUME NEW p \in Enrolled \ OneShot
        PROVE  /\ peer'[p].attempt <= faults' + 1
               /\ peer'[p].attempt > faults' => Smooth(p)'
    <2>1. p \in Peers
      BY KeepaliveAssumption
    <2>2. /\ peer[p].attempt \in Nat /\ faults \in Nat
      BY <2>1, PeerFields
    <2>3. /\ peer[p].attempt <= faults + 1
          /\ peer[p].attempt > faults => Smooth(p)
      BY DEF CauseInv
    <2>4. peer[p].pc = "down" => peer[p].attempt <= faults
      BY <2>1, <2>2, <2>3, SmoothFields
    <2>5. faults' = faults \/ faults' = faults + 1
      BY <2>1, Attempts
    <2>6. CASE peer'[p].attempt = peer[p].attempt
      <3>1. CASE faults' = faults + 1
        BY <2>2, <2>3, <2>6, <3>1
      <3>2. CASE UNCHANGED faults
        <4>1. Smooth(p) => Smooth(p)'
          BY <2>1, <3>2, SmoothStays DEF CauseInv
        <4> QED
          BY <2>3, <2>6, <3>2, <4>1
      <3> QED
        BY <2>5, <3>1, <3>2
    <2>7. CASE /\ peer[p].pc = "down"
               /\ peer'[p].attempt = peer[p].attempt + 1
               /\ UNCHANGED faults => \E e \in Endpoints :
                    /\ peer'[p].at = e /\ peer'[p].pc = "hello"
                    /\ About(e)' = {Hello(e, p, peer'[p].attempt, TRUE)}
      <3>1. CASE faults' = faults + 1
        BY <2>2, <2>4, <2>7, <3>1
      <3>2. CASE UNCHANGED faults
        <4>1. PICK e \in Endpoints :
                /\ peer'[p].at = e /\ peer'[p].pc = "hello"
                /\ About(e)' = {Hello(e, p, peer'[p].attempt, TRUE)}
          BY <2>7, <3>2
        <4>2. Smooth(p)'
          BY <4>1 DEF Smooth, SmoothAt, HelloSent
        <4> QED
          BY <2>2, <2>4, <2>7, <3>2, <4>2
      <3> QED
        BY <2>5, <3>1, <3>2
    <2> QED
      BY <2>1, <2>6, <2>7, Attempts
  <1> QED
    BY <1>1, <1>2 DEF CauseInv

\* cmd/worker reconnects for a reason: each new connection after the first
\* needs a loss, a copy, a late datagram, an expiry or a restart of its own,
\* and what the faults leave behind (a session replaced by a copied hello, an
\* answer to an earlier ping) sets off no more.
THEOREM ReconnectsForAReason == Spec => []ReconnectNeedsFault
  <1>1. IInv /\ CauseInv /\ [Next]_vars => CauseInv'
    BY NextCause
  <1>2. CauseInv => ReconnectNeedsFault
    BY DEF CauseInv, ReconnectNeedsFault
  <1> QED
    BY <1>1, <1>2, InitCause, InductiveInvariant, PTL DEF Spec
=============================================================================
