------------------------------ MODULE Pairings -------------------------------
(***************************************************************************)
(* What a signed-in user does to the devices of the account: pairing a     *)
(* client's Noise key and unpairing it (noiseIdentityService.js), adding a *)
(* browser as a device and removing a device (deviceService.js), over the  *)
(* leases of the server's control plane, which the portal asks for and     *)
(* gives back by HTTP calls of four seconds at most (controlPlane.js).     *)
(*                                                                         *)
(* A request awaits the database between two queries and the control plane *)
(* after its last one; there is no transaction, so requests interleave at  *)
(* every query and a failure leaves what was written before it.  A call    *)
(* whose caller gave up may still be carried out, later.                   *)
(***************************************************************************)
EXTENDS Leases, FiniteSets

CONSTANTS Server,        \* the daemon whose leases the portal manages
          Procs,         \* bound: requests in progress at once
          Users,         \* accounts that have a wallet and a session
          KeysOf,        \* the Noise keys that signatures of their wallet yield
          Tokens,        \* what the portal draws device tokens from: four digits,
                         \* without a look at those in use or once used
          MaxSlots,      \* devices a user may have (5)
          MaxLate        \* bound: calls that outlive their request at once

Keys == UNION {KeysOf[u] : u \in Users}

ASSUME PairingAssumption ==
  /\ Server \in Daemons
  /\ Tokens \cup Keys \subseteq ClientIds /\ Tokens \cap Keys = {}
  /\ \A u, v \in Users : KeysOf[u] \cap KeysOf[v] # {} => u = v
  /\ None \notin ClientIds /\ None \notin Users /\ None \notin Procs
  /\ MaxSlots \in Nat /\ MaxLate \in Nat

VARIABLES noiseKey,      \* users.noise_public_key; None is NULL
          devices,       \* rows [user, slot, id]; a paired client's id is its key
          logged,        \* the last Noise event of each user on the chain
          req,           \* per process, the request in progress
          calls,         \* lease calls the daemon has not answered
          odd            \* history: ids whose records may disagree, see below

pairingVars == <<leases, noiseKey, devices, logged, req, calls, odd>>

\* A request is `alone` while no other concerns the same device.
Request(op, at, u, id, slot, alone) ==
  [op |-> op, at |-> at, user |-> u, id |-> id, slot |-> slot, alone |-> alone]
Idle == Request("none", "idle", None, None, 0, TRUE)

\* Whom and what the steps of each request are about.
Sound(r) ==
  \/ r = Idle
  \/ /\ r = Request(r.op, r.at, r.user, r.id, r.slot, r.alone)
     /\ r.user \in Users /\ r.slot \in Nat /\ r.alone \in BOOLEAN
     /\ \/ /\ r.op = "bind"
           /\ r.at \in {"store", "find", "slots", "insert", "block"}
           /\ r.id \in KeysOf[r.user]
        \/ /\ r.op = "unbind"
           /\ \/ r.at = "read" /\ r.id = None
              \/ r.at = "clear" /\ r.id \in KeysOf[r.user] \cup {None}
              \/ r.at \in {"delete", "block"} /\ r.id \in KeysOf[r.user]
        \/ /\ r.op = "add"
           /\ r.at \in {"count", "slots", "insert", "call"}
           /\ r.id \in Tokens
        \/ /\ r.op = "remove"
           /\ r.at \in {"delete", "call"}
           /\ r.id \in Tokens \cup KeysOf[r.user]

\* A key is in users and on devices of the account whose wallet yields it.
PairingTypeOK ==
  /\ TypeOK
  /\ noiseKey \in [Users -> Keys \cup {None}]
  /\ \A u \in Users : noiseKey[u] \in KeysOf[u] \cup {None}
  /\ devices \subseteq [user : Users, slot : Nat, id : Tokens \cup Keys]
  /\ \A d \in devices : d.id \in Tokens \cup KeysOf[d.user]
  /\ logged \in [Users -> {"none", "bound", "unbound"}]
  /\ DOMAIN req = Procs /\ \A p \in Procs : Sound(req[p])
  /\ calls \subseteq [op : {"allocate", "release"}, id : Tokens \cup Keys,
                      by : Procs \cup {None}]
  /\ odd \subseteq Tokens \cup Keys

PairingInit ==
  /\ Init
  /\ noiseKey = [u \in Users |-> None]
  /\ devices = {}
  /\ logged = [u \in Users |-> "none"]
  /\ req = [p \in Procs |-> Idle]
  /\ calls = {}
  /\ odd = {}

-----------------------------------------------------------------------------
\* The history.  The records of a device (key, row, block; or row and lease)
\* may disagree once a request about it failed halfway, met another or an
\* unanswered call, found no slot, or once another key took its place.  They
\* agree again after one that ran alone to its end.

AboutKeys(r) == r.op \in {"bind", "unbind"} \/ r.id \in Keys

Concerns(r) == IF AboutKeys(r) THEN KeysOf[r.user] ELSE {r.id}

Meets(q, r) == req[q] # Idle /\ Concerns(req[q]) \cap Concerns(r) # {}

Wrote(r) ==
  \/ r.op = "bind" /\ r.at # "store"
  \/ r.op = "unbind" /\ r.at \in {"delete", "block"}
  \/ r.op \in {"add", "remove"} /\ r.at = "call"

Settled(r) == r.alone /\ ~(r.op = "remove" /\ r.id \in Keys)

-----------------------------------------------------------------------------
Begin(p, r) ==
  /\ req[p] = Idle
  /\ req' = [q \in Procs |->
       IF q = p THEN [r EXCEPT !.alone = /\ \A s \in Procs : ~Meets(s, r)
                                         /\ \A c \in calls : c.id # r.id]
       ELSE IF Meets(q, r) THEN [req[q] EXCEPT !.alone = FALSE]
       ELSE req[q]]
  /\ UNCHANGED <<leases, noiseKey, devices, logged, calls, odd>>

GoOn(p, at) == req' = [req EXCEPT ![p].at = at]

Finish(p) ==
  /\ req' = [req EXCEPT ![p] = Idle]
  /\ odd' = IF Settled(req[p]) THEN odd \ {req[p].id}
            ELSE odd \cup ({req[p].id} \ {None})

\* A query fails, or the portal stops.
Fail(p) ==
  /\ req[p] # Idle
  /\ req[p].at # "call"
  /\ req' = [req EXCEPT ![p] = Idle]
  /\ odd' = IF Wrote(req[p]) THEN odd \cup {req[p].id} ELSE odd
  /\ UNCHANGED <<leases, noiseKey, devices, logged, calls>>

RowsOf(u) == {d \in devices : d.user = u}
\* Mutation: DELETE without its condition on device_token.
Named_AnyToken(d, u, id) == d.user = u
Named(d, u, id) == d.user = u /\ d.id = id
Row(u, id) == {d \in devices : Named(d, u, id)}

\* verifyAndBindNoiseIdentity: UPDATE users.
StoreKey(p) ==
  LET r == req[p]
      before == noiseKey[r.user] IN
  /\ r.op = "bind" /\ r.at = "store"
  /\ noiseKey' = [noiseKey EXCEPT ![r.user] = r.id]
  /\ odd' = odd \cup ({before} \ {None, r.id})
  /\ GoOn(p, "find")
  /\ UNCHANGED <<leases, devices, logged, calls>>

\* upsertNoiseDeviceRow: a row the key has is used again.
FindRow(p) ==
  /\ req[p].at = "find"
  /\ GoOn(p, IF \E d \in devices : d.user = req[p].user /\ d.id = req[p].id
             THEN "block" ELSE "slots")
  /\ UNCHANGED <<leases, noiseKey, devices, logged, calls, odd>>

\* processDeviceSession: a user with MaxSlots devices gets no other.
CountRows(p) ==
  /\ req[p].op = "add" /\ req[p].at = "count"
  /\ IF Cardinality(RowsOf(req[p].user)) >= MaxSlots
     THEN req' = [req EXCEPT ![p] = Idle] ELSE GoOn(p, "slots")
  /\ UNCHANGED <<leases, noiseKey, devices, logged, calls, odd>>

FreeSlots(u) == (1 .. MaxSlots + 1) \ {d.slot : d \in RowsOf(u)}

\* The lowest free slot; a pairing without one goes on without a row.
PickSlot(p) ==
  LET r == req[p] IN
  /\ r.at = "slots"
  /\ \E s \in FreeSlots(r.user) :
       /\ \A t \in FreeSlots(r.user) : s <= t
       /\ req' = [req EXCEPT ![p] =
            IF r.op = "bind" /\ s > MaxSlots
            THEN Request("bind", "block", r.user, r.id, 0, FALSE)
            ELSE Request(r.op, "insert", r.user, r.id, s, r.alone)]
  /\ UNCHANGED <<leases, noiseKey, devices, logged, calls, odd>>

\* CHECK (id BETWEEN 1 AND 5), PRIMARY KEY (user_id, id), UNIQUE (device_token).
Insertable(r) ==
  /\ r.slot <= MaxSlots
  /\ \A d \in devices : <<d.user, d.slot>> # <<r.user, r.slot>> /\ d.id # r.id

Call(op, id, by) == [op |-> op, id |-> id, by |-> by]

InsertRow(p) ==
  LET r == req[p] IN
  /\ r.at = "insert"
  /\ Insertable(r)
  /\ devices' = devices \cup {[user |-> r.user, slot |-> r.slot, id |-> r.id]}
  /\ IF r.op = "bind"
     THEN GoOn(p, "block") /\ UNCHANGED calls
     ELSE GoOn(p, "call") /\ calls' = calls \cup {Call("allocate", r.id, p)}
  /\ UNCHANGED <<leases, noiseKey, logged, odd>>

InsertFails(p) ==
  /\ req[p].at = "insert"
  /\ ~Insertable(req[p])
  /\ Fail(p)

\* createBlock, for the audit of the pairing; its own failures are Fail's.
LogEvent(p) ==
  LET r == req[p] IN
  /\ r.at = "block"
  /\ logged' = [logged EXCEPT ![r.user] =
                  IF r.op = "bind" THEN "bound" ELSE "unbound"]
  /\ Finish(p)
  /\ UNCHANGED <<leases, noiseKey, devices, calls>>

-----------------------------------------------------------------------------
\* unbindNoiseIdentityForUser: SELECT, UPDATE, DELETE.
ReadKey(p) ==
  LET r == req[p] IN
  /\ r.at = "read"
  /\ req' = [req EXCEPT ![p] = Request("unbind", "clear", r.user,
                                       noiseKey[r.user], 0, r.alone)]
  /\ UNCHANGED <<leases, noiseKey, devices, logged, calls, odd>>

ClearKey(p) ==
  LET r == req[p] IN
  /\ r.at = "clear"
  /\ noiseKey' = [noiseKey EXCEPT ![r.user] = None]
  /\ IF r.id = None THEN Finish(p) ELSE GoOn(p, "delete") /\ UNCHANGED odd
  /\ UNCHANGED <<leases, devices, logged, calls>>

\* Mutation: the row of the client is kept.
DeletePaired_KeepsRow(p) ==
  LET r == req[p] IN
  /\ r.op = "unbind" /\ r.at = "delete"
  /\ GoOn(p, "block")
  /\ UNCHANGED <<leases, noiseKey, devices, logged, calls, odd>>

DeletePaired(p) ==
  LET r == req[p] IN
  /\ r.op = "unbind" /\ r.at = "delete"
  /\ devices' = devices \ Row(r.user, r.id)
  /\ GoOn(p, "block")
  /\ UNCHANGED <<leases, noiseKey, logged, calls, odd>>

\* removeDevice: the lease is given back if there was a row.  A paired client
\* can be removed too: its key stays in users.
DeleteDevice(p) ==
  LET r == req[p] IN
  /\ r.op = "remove" /\ r.at = "delete"
  /\ devices' = devices \ Row(r.user, r.id)
  /\ IF Row(r.user, r.id) = {}
     THEN req' = [req EXCEPT ![p] = Idle] /\ UNCHANGED calls
     ELSE GoOn(p, "call") /\ calls' = calls \cup {Call("release", r.id, p)}
  /\ UNCHANGED <<leases, noiseKey, logged, odd>>

-----------------------------------------------------------------------------
\* The daemon handles a call.
CarryOut(c) ==
  \/ c.op = "allocate" /\ Allocate(Server, c.id, None)
  \/ c.op = "release" /\ Release(Server, c.id)
  \/ /\ \/ c.op = "allocate" /\ (leases[Server][c.id] # None \/ Free(Server) = {})
        \/ c.op = "release" /\ leases[Server][c.id] = None
     /\ UNCHANGED leases

Answer(c) ==
  /\ CarryOut(c)
  /\ calls' = calls \ {c}
  /\ IF c.by = None THEN UNCHANGED <<req, odd>>
     ELSE /\ req' = [req EXCEPT ![c.by] = Idle]
          /\ odd' = IF /\ Settled(req[c.by])
                       /\ c.op = "allocate" => leases'[Server][c.id] # None
                    THEN odd \ {c.id} ELSE odd \cup {c.id}
  /\ UNCHANGED <<noiseKey, devices, logged>>

\* The call is refused, lost, or later than TIMEOUT_MS; the request takes no
\* notice.  A portal that stops leaves its call in the same two ways.
GiveUp(c) ==
  /\ c.by # None
  /\ req' = [req EXCEPT ![c.by] = Idle]
  /\ odd' = odd \cup {c.id}
  /\ \/ calls' = calls \ {c}
     \/ /\ Cardinality({d \in calls : d.by = None}) < MaxLate
        /\ calls' = (calls \ {c}) \cup {Call(c.op, c.id, None)}
  /\ UNCHANGED <<leases, noiseKey, devices, logged>>

\* Clients that ask the daemon themselves, and its dying in a write.
Others ==
  /\ \/ \E c \in ClientIds \ (Tokens \cup Keys) :
          Release(Server, c) \/ \E text \in Requests : Allocate(Server, c, text)
     \/ TornWrite(Server)
  /\ odd' = odd \cup {t \in Tokens : leases'[Server][t] # leases[Server][t]}
  /\ UNCHANGED <<noiseKey, devices, logged, req, calls>>

Ask(p) ==
  \E u \in Users :
    \/ \E k \in KeysOf[u] : Begin(p, Request("bind", "store", u, k, 0, TRUE))
    \/ Begin(p, Request("unbind", "read", u, None, 0, TRUE))
    \/ \E t \in Tokens : Begin(p, Request("add", "count", u, t, 0, TRUE))
    \/ \E d \in RowsOf(u) : Begin(p, Request("remove", "delete", u, d.id, 0, TRUE))

Bind(p) == StoreKey(p) \/ FindRow(p)
Unbind(p) == ReadKey(p) \/ ClearKey(p) \/ DeletePaired(p)
Device(p) ==
  CountRows(p) \/ PickSlot(p) \/ InsertRow(p) \/ InsertFails(p) \/ DeleteDevice(p)

PairingNext ==
  \/ \E p \in Procs :
       Ask(p) \/ Bind(p) \/ Unbind(p) \/ Device(p) \/ LogEvent(p) \/ Fail(p)
  \/ \E c \in calls : Answer(c) \/ GiveUp(c)
  \/ Others

PairingSpec == PairingInit /\ [][PairingNext]_pairingVars

-----------------------------------------------------------------------------
AtRest(id) == \A p \in Procs : req[p] = Idle \/ id \notin Concerns(req[p])

\* Whatever requests failed, met or went unanswered before, after one that ran
\* alone to its end a client's pairing is one story: the key in users, which
\* the server admits by, the device the user is shown, and the chain's last
\* event.  Nothing else than the events at `odd` makes them disagree.
OneStory ==
  \A u \in Users :
    /\ \A k \in KeysOf[u] \ odd : AtRest(k) =>
         (noiseKey[u] = k <=> \E d \in devices : d.user = u /\ d.id = k)
    /\ (\A k \in KeysOf[u] : AtRest(k) /\ k \notin odd) =>
         (noiseKey[u] # None <=> logged[u] = "bound")

\* In the same sense a browser that is listed has a lease and one that is not
\* listed has none, also when its token is drawn again.
LeaseForDevice ==
  \A t \in Tokens \ odd : AtRest(t) =>
    (leases[Server][t] # None <=> \E d \in devices : d.id = t)
=============================================================================
