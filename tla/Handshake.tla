------------------------------ MODULE Handshake -------------------------------
(***************************************************************************)
(* Noise IK between clients and the tunnel server, from the server's key   *)
(* file to the keys both ends hold: keystore.LoadOrCreateStatic, the key   *)
(* the web side reads from <keyfile>.pub.hex and hands to clients, the     *)
(* handshake code of cmd/tun-client, noisemobile and cmd/tun-server, and a *)
(* network that loses, repeats, delays and damages datagrams.              *)
(*                                                                         *)
(* A client is known by the key derived from its wallet's signature, so    *)
(* several devices of one wallet are several attempts of the same client.  *)
(* What the server's table makes of a session is Tunnel's subject.         *)
(***************************************************************************)
EXTENDS NoiseIK

CONSTANTS Wallets,       \* the clients' static keys
          Addrs,         \* the clients' endpoints
          MaxAttempts,   \* bound: handshakes that clients begin
          MaxSessions,   \* bound: handshakes the server answers
          MaxStatics,    \* bound: static keys the server makes
          MaxFaults,     \* bound: crashes, failed writes, damaged datagrams
          Torn           \* a .pub.hex that is no 64 digits

ASSUME HandshakeAssumption ==
  /\ {MaxAttempts, MaxSessions, MaxStatics, MaxFaults} \subseteq Nat
  /\ NoKey \notin Wallets \cup Nat
  /\ Torn \notin Wallets \cup Nat \cup {NoKey}
  /\ Wallets \cap Nat = {}

VARIABLES keyFile,       \* the server's private key file
          pubFile,       \* <keyfile>.pub.hex
          server,        \* the process: pc, its key, the peers it allows
          pin,           \* per wallet: the server key it was given
          att,           \* handshakes begun by clients
          resp,          \* history: sessions of all servers so far
          net,           \* every datagram sent or damaged
          keys,          \* the number of keys generated so far
          faults

files == <<keyFile, pubFile>>
vars == <<keyFile, pubFile, server, pin, att, resp, net, keys, faults>>

Down == [pc |-> "down", static |-> NoKey, created |-> FALSE, allow |-> {}]

ServerType(known) ==
  [pc : {"down", "rename", "truncate", "publish", "peers", "up"},
   static : known, created : BOOLEAN, allow : SUBSET Wallets]
Known == 1 .. keys \cup {NoKey}
ServerTypes ==
  /\ keys \in Nat
  /\ keyFile \in Known
  /\ pubFile \in Known \cup {Torn}
  /\ server \in ServerType(Known)
  /\ pin \in [Wallets -> Known]
ClientTypes ==
  /\ \A i \in DOMAIN att :
       /\ att[i].pc \in {"await", "up", "failed"}
       /\ att[i].wallet \in Wallets /\ att[i].addr \in Addrs
  /\ \A r \in DOMAIN resp : resp[r].peer \in Wallets
Bounds ==
  /\ Len(att) \in 0 .. MaxAttempts /\ Len(resp) \in 0 .. MaxSessions
  /\ keys <= MaxStatics + Len(att) + Len(resp)
  /\ faults \in 0 .. MaxFaults
TypeOK == ServerTypes /\ ClientTypes /\ Bounds

Init ==
  /\ keyFile = NoKey /\ pubFile = NoKey
  /\ server = Down
  /\ pin = [w \in Wallets |-> NoKey]
  /\ att = <<>> /\ resp = <<>>
  /\ net = {}
  /\ keys = 0 /\ faults = 0

Fault == faults < MaxFaults /\ faults' = faults + 1
NoFault == UNCHANGED faults
ServerOnly == UNCHANGED <<pin, att, resp, net>>
FilesStay == UNCHANGED files

-----------------------------------------------------------------------------
(* LoadOrCreateStatic and the rest of the server's start.                  *)

Goto(pc) == server' = [server EXCEPT !.pc = pc]

\* A key file of another length than a key's is an error.
LoadStatic ==
  /\ server.pc = "down"
  /\ keyFile \notin {NoKey, Torn}
  /\ server' = [Down EXCEPT !.pc = "truncate", !.static = keyFile]
  /\ ServerOnly /\ FilesStay /\ NoFault /\ UNCHANGED keys

CreateStatic ==
  /\ server.pc = "down"
  /\ keyFile = NoKey
  /\ keys < MaxStatics
  /\ keys' = keys + 1
  /\ server' = [Down EXCEPT !.pc = "rename", !.static = keys + 1,
                  !.created = TRUE]
  /\ ServerOnly /\ FilesStay /\ NoFault

\* Mutation: an error of the rename is dropped.
RenameKey_Unchecked ==
  /\ server.pc = "rename"
  /\ \/ keyFile' = server.static /\ NoFault
     \/ UNCHANGED keyFile /\ Fault
  /\ Goto("truncate")
  /\ ServerOnly /\ UNCHANGED <<pubFile, keys>>

\* Mutation: the key file is written in place.
RenameKey_InPlace ==
  /\ server.pc = "rename"
  /\ \/ keyFile' = server.static /\ Goto("truncate") /\ NoFault
     \/ keyFile' = Torn /\ server' = Down /\ Fault
  /\ ServerOnly /\ UNCHANGED <<pubFile, keys>>

\* writePrivateAtomic: the temporary file takes the key file's name, or an
\* error ends the process.
RenameKey ==
  /\ server.pc = "rename"
  /\ \/ keyFile' = server.static /\ Goto("truncate") /\ NoFault
     \/ UNCHANGED keyFile /\ server' = Down /\ Fault
  /\ ServerOnly /\ UNCHANGED <<pubFile, keys>>

\* writePubHex writes in place.
TruncatePub ==
  /\ server.pc = "truncate"
  /\ pubFile' = Torn
  /\ Goto("publish")
  /\ ServerOnly /\ NoFault /\ UNCHANGED <<keyFile, keys>>

WritePub ==
  /\ server.pc = "publish"
  /\ pubFile' = server.static
  /\ Goto("peers")
  /\ ServerOnly /\ NoFault /\ UNCHANGED <<keyFile, keys>>

\* Its error counts only for a key that was just made.
PubFails ==
  /\ server.pc \in {"truncate", "publish"}
  /\ Fault
  /\ IF server.created THEN server' = Down ELSE Goto("peers")
  /\ ServerOnly /\ FilesStay /\ UNCHANGED keys

\* peers.NewFile: the file as its owner left it; one that does not parse ends
\* the process.
LoadPeers ==
  /\ server.pc = "peers"
  /\ \/ /\ \E allowed \in SUBSET Wallets :
             server' = [server EXCEPT !.pc = "up", !.allow = allowed]
        /\ NoFault
     \/ server' = Down /\ Fault
  /\ ServerOnly /\ FilesStay /\ UNCHANGED keys

Crash ==
  /\ server.pc # "down"
  /\ server' = Down
  /\ Fault
  /\ ServerOnly /\ FilesStay /\ UNCHANGED keys

-----------------------------------------------------------------------------
(* The client.                                                             *)

\* by names the attempt that wrote a message A, and nothing else.
Datagram(type, addr, m, by) ==
  [type |-> type, addr |-> addr, m |-> m, by |-> by]

\* e is the key generated for it, which x forgets in the end.
Attempt(pc, wallet, addr, pinned, e, x) ==
  [pc |-> pc, wallet |-> wallet, addr |-> addr, pinned |-> pinned, e |-> e,
   x |-> x]

\* loadServerNoisePubKey: what is no key is not handed out.
Fetch(w) ==
  /\ pubFile \notin {NoKey, Torn}
  /\ pin' = [pin EXCEPT ![w] = pubFile]
  /\ NoFault /\ FilesStay /\ UNCHANGED <<server, att, resp, net, keys>>

\* One attempt at a time at an endpoint: msg A is written and sent.
Begin(w, a) ==
  /\ pin[w] # NoKey
  /\ Len(att) < MaxAttempts
  /\ \A i \in DOMAIN att : att[i].addr = a => att[i].pc # "await"
  /\ LET out == WriteHandshake(NewInitiator(w, pin[w]), keys + 1)
     IN /\ att' = Append(att, Attempt("await", w, a, pin[w], keys + 1, out.x))
        /\ net' = net \cup {Datagram("A", a, out.m, Len(att) + 1)}
  /\ keys' = keys + 1
  /\ NoFault /\ FilesStay /\ UNCHANGED <<server, pin, resp>>

\* Mutation: the error of ReadHandshake is dropped.
Completes_AnyRead(in) == HandshakeComplete(in.x)

Completes(in) == in.ok /\ HandshakeComplete(in.x)

\* The one datagram the handshake reads is a msg B.
ReadAnswer(i, d) ==
  /\ att[i].pc = "await"
  /\ d.type = "B"
  /\ d.addr = att[i].addr
  /\ LET in == ReadHandshake(att[i].x, d.m)
     IN att' = [att EXCEPT ![i] =
          Attempt(IF Completes(in) THEN "up" ELSE "failed",
                  @.wallet, @.addr, @.pinned, @.e, in.x)]
  /\ NoFault /\ FilesStay /\ UNCHANGED <<server, pin, resp, net, keys>>

\* Nothing came in time, or something that is no msg B.
GiveUp(i) ==
  /\ att[i].pc = "await"
  /\ att' = [att EXCEPT ![i] =
       Attempt("failed", @.wallet, @.addr, @.pinned, @.e, @.x)]
  /\ NoFault /\ FilesStay /\ UNCHANGED <<server, pin, resp, net, keys>>

-----------------------------------------------------------------------------
(* handleHandshakeA.                                                       *)

\* Mutation: the error of ReadHandshake is dropped.
Admits_AnyRead(in) == PeerStatic(in.x) \in server.allow

Admits(in) == in.ok /\ PeerStatic(in.x) \in server.allow

\* The peer's key is asked for before msg B is written, which forgets it.
\* A datagram that is not admitted changes nothing.
Answer(d) ==
  /\ server.pc = "up"
  /\ d.type = "A"
  /\ Len(resp) < MaxSessions
  /\ LET in == ReadHandshake(NewResponder(server.static), d.m)
         out == WriteHandshake(in.x, keys + 1)
     IN /\ Admits(in)
        /\ resp' = Append(resp, [peer |-> PeerStatic(in.x), x |-> out.x,
                                 static |-> server.static, e |-> keys + 1,
                                 answers |-> d.by])
        /\ net' = net \cup {Datagram("B", d.addr, out.m, NoKey)}
  /\ keys' = keys + 1
  /\ NoFault /\ FilesStay /\ UNCHANGED <<server, pin, att>>

\* A copy of a datagram is damaged on its way: any part of it, and the
\* ephemeral key may become one that validatePublicKey refuses.
Damage(d) ==
  /\ Fault
  /\ \E m \in {Message(0, d.m.ns, d.m.text), Message(NoKey, d.m.ns, d.m.text),
               Message(d.m.ne, d.m.ns, Garbage),
               Message(d.m.ne, IF d.type = "A" THEN Garbage ELSE d.m.ns,
                       d.m.text)} :
       net' = net \cup {Datagram(d.type, d.addr, m, NoKey)}
  /\ FilesStay /\ UNCHANGED <<server, pin, att, resp, keys>>

Boot ==
  \/ LoadStatic \/ CreateStatic \/ RenameKey
  \/ TruncatePub \/ WritePub \/ PubFails
  \/ LoadPeers

ClientStep ==
  \/ \E w \in Wallets : Fetch(w) \/ \E a \in Addrs : Begin(w, a)
  \/ \E i \in DOMAIN att : GiveUp(i) \/ \E d \in net : ReadAnswer(i, d)

Next ==
  \/ Boot
  \/ Crash
  \/ ClientStep
  \/ \E d \in net : Answer(d) \/ Damage(d)

Spec == Init /\ [][Next]_vars

\* systemd starts the server again, and its start goes on.
FairSpec == Spec /\ WF_vars(Boot)

-----------------------------------------------------------------------------
(* Properties.                                                             *)

\* What each end knows of the other: who it is, what was said, and the keys
\* of both directions.
Agree(i, r) ==
  /\ resp[r].peer = att[i].wallet
  /\ resp[r].static = att[i].pinned
  /\ resp[r].x.h = att[i].x.h
  /\ Tx(att[i].x) = Rx(resp[r].x)
  /\ Rx(att[i].x) = Tx(resp[r].x)
  /\ Tx(att[i].x) # Rx(att[i].x)

\* A client that is up shares its keys with exactly one session of the server
\* with the key it was given, which knows it by its wallet's key; and no two
\* clients share one: not with late, repeated or damaged messages, and not
\* because a failed read also counts as a message of the handshake.
Agreement ==
  \A i \in DOMAIN att : att[i].pc = "up" =>
    \E r \in DOMAIN resp :
      /\ Agree(i, r)
      /\ \A s \in DOMAIN resp \ {r} : ~Agree(i, s)
      /\ \A j \in DOMAIN att \ {i} : att[j].pc = "up" => ~Agree(j, r)

\* Every session of the server answers a message A as a client of that wallet
\* wrote it for the key of this server; the key is not asked for too late, nor
\* taken from a message of which only a part opened.
AnswersItsPeer ==
  \A r \in DOMAIN resp :
    /\ resp[r].answers \in DOMAIN att
    /\ resp[r].peer = att[resp[r].answers].wallet
    /\ resp[r].static = att[resp[r].answers].pinned

\* A repeated message A gives another session, with keys never used before.
FreshSessions ==
  \A r, s \in DOMAIN resp : r # s =>
    {resp[r].x.cs1, resp[r].x.cs2} \cap {resp[s].x.cs1, resp[s].x.cs2} = {}

\* The key that clients are given is the one the server keeps, whenever it
\* crashes and whichever of its writes fails: no client is left with a key that
\* no server has.
PinLasts ==
  /\ \A w \in Wallets : pin[w] # NoKey => keyFile = pin[w]
  /\ server.pc = "up" => keyFile = server.static

\* Wherever the server dies, and whatever it has written by then, it comes up
\* again.
ComesUp == []<>(server.pc = "up")

-----------------------------------------------------------------------------
(* The inductive invariant.                                                *)

\* The private key is on its disk before anything is derived from it, and no
\* later start makes another.
Kept ==
  /\ keys \in Nat
  /\ keyFile \in Nat \cup {NoKey}
  /\ server \in ServerType(Nat \cup {NoKey})
  /\ pin \in [Wallets -> Nat \cup {NoKey}]
  /\ server.pc = "rename" => keyFile = NoKey /\ server.static \in Nat
  /\ server.pc \in {"truncate", "publish", "peers", "up"} =>
       keyFile \in Nat /\ server.static = keyFile
  /\ pubFile \notin {NoKey, Torn} => pubFile \in Nat /\ keyFile = pubFile
  /\ \A w \in Wallets : pin[w] # NoKey => keyFile = pin[w]

IsSeq(s) == s \in Seq({s[i] : i \in DOMAIN s})

\* What a client of wallet w begins with, and what a server answers it.
Opening(w, p, e) == WriteA(NewInitiator(w, p), e)
Reply(w, p, e, k) ==
  WriteHandshake(ReadHandshake(NewResponder(p), Opening(w, p, e).m).x, k)

Opened(i) == Opening(att[i].wallet, att[i].pinned, att[i].e)
Replied(r) ==
  LET i == resp[r].answers
  IN Reply(att[i].wallet, att[i].pinned, att[i].e, resp[r].e)

\* The parts of a damaged message cannot make up for each other: the key that
\* was damaged is in the hash that its texts were sealed with.
DeadA(m) ==
  \/ m.ns = Garbage
  \/ m.text = Garbage
  \/ m.ne \in {0, NoKey} /\ m.ns.ad[4] \in Nat \ {0}
DeadB(m) ==
  \/ m.text = Garbage
  \/ m.ne \in {0, NoKey} /\ m.text.ad[7] \in Nat \ {0}

\* Every message on its way is as it was written, or dead.
WireA(d) ==
  \/ d.by = NoKey /\ DeadA(d.m)
  \/ d.by \in DOMAIN att /\ d.m = Opened(d.by).m
WireB(d) ==
  \/ DeadB(d.m)
  \/ \E r \in DOMAIN resp : d.m = Replied(r).m
OnTheWire ==
  \A d \in net : (d.type = "A" => WireA(d)) /\ (d.type = "B" => WireB(d))

AttemptsInv ==
  /\ IsSeq(att)
  /\ \A i \in DOMAIN att :
       /\ att[i].wallet \in Wallets /\ att[i].pinned \in Nat
       /\ att[i].e \in 1 .. keys
       /\ att[i].pc = "await" => att[i].x = Opened(i).x
  /\ \A i, j \in DOMAIN att : att[i].e = att[j].e => i = j

SessionsInv ==
  /\ IsSeq(resp)
  /\ \A r \in DOMAIN resp :
       resp[r].e \in 1 .. keys /\ resp[r].x = Replied(r).x
  /\ \A r, s \in DOMAIN resp : resp[r].e = resp[s].e => r = s

\* A client that is up ended with what the session has that answered it.
Pair(i, r) ==
  /\ resp[r].answers = i
  /\ att[i].x.i
  /\ att[i].x.h = resp[r].x.h
  /\ att[i].x.cs1 = resp[r].x.cs1
  /\ att[i].x.cs2 = resp[r].x.cs2
Paired ==
  \A i \in DOMAIN att :
    att[i].pc = "up" => \E r \in DOMAIN resp : Pair(i, r)

IInv ==
  /\ Kept
  /\ AttemptsInv
  /\ SessionsInv
  /\ AnswersItsPeer
  /\ OnTheWire
  /\ Paired
=============================================================================
