------------------------------- MODULE Portal -------------------------------
(***************************************************************************)
(* Signing in to the web portal with a wallet: the challenge, the account, *)
(* the block on the partner chain, the device's slot and the session       *)
(* (webui/controllers/walletAuthController.js and the services it calls).  *)
(*                                                                         *)
(* A handler awaits the database between any two of its queries, so the    *)
(* requests interleave at every query, in one instance of the portal or in *)
(* several.  There are no transactions: what a request has committed stays *)
(* when a later query of it fails.  at[p] is the query p will do next.     *)
(***************************************************************************)
EXTENDS PartnerChain, FiniteSets

CONSTANTS Procs,         \* bound: requests and start-ups in progress at once
          Wallets,
          Tokens,        \* device tokens the portal draws from
          MaxSlots,      \* devices a user may have (5)
          MaxBlocks,     \* bound: blocks on the chain
          MaxChallenges  \* bound: challenges per wallet and purpose

ASSUME NoneAssumption == None \notin Users /\ None \notin Wallets
ASSUME BoundAssumption ==
  /\ MaxSlots \in Nat
  /\ MaxBlocks \in Nat
  /\ MaxChallenges \in Nat

Purposes == {"register", "login"}
Challenges == [wallet : Wallets, purpose : Purposes, n : 1 .. MaxChallenges]

VARIABLES members,       \* users: ids of the rows
          walletOf,      \* users.wallet_address, UNIQUE; None is NULL
          challenge,     \* wallet_auth_nonces: what became of each challenge
          devices,       \* devices: rows [user, slot, token]
          sessions,      \* users with a session in some browser
          at, with, user, block, row     \* per request, its local variables

tables == <<blocks, members, walletOf, challenge, devices, sessions>>
locals == <<with, user, block, row>>
vars == <<blocks, members, walletOf, challenge, devices, sessions,
          at, with, user, block, row>>

Queries == {"idle", "genesis", "mark", "lookup", "create", "link", "latest",
            "append", "count", "slots", "insert", "sign in"}
Rows == [user : Users, slot : Nat \ {0}, token : Tokens]

\* A row's hash is the hash of its contents.
IsBlock(b) ==
  /\ b = Sealed(b)
  /\ b.index \in Nat
  /\ b.user \in Users \cup {None}
  /\ b.event \in Events

TablesTypeOK ==
  /\ \A b \in blocks : IsBlock(b)
  /\ members \subseteq Users
  /\ walletOf \in [Users -> Wallets \cup {None}]
  /\ challenge \in [Challenges -> {"none", "live", "closed"}]
  /\ devices \subseteq Rows
  /\ sessions \subseteq Users

LocalsTypeOK ==
  /\ at \in [Procs -> Queries]
  /\ with \in [Procs -> Challenges \cup {None}]
  /\ user \in [Procs -> Users \cup {None}]
  /\ \A p \in Procs : at[p] = "append" => IsBlock(block[p])
  /\ row \in [Procs -> Rows \cup {None}]

TypeOK == TablesTypeOK /\ LocalsTypeOK

Init ==
  /\ blocks = {}
  /\ members = {}
  /\ walletOf = [u \in Users |-> None]
  /\ challenge = [c \in Challenges |-> "none"]
  /\ devices = {}
  /\ sessions = {}
  /\ at = [p \in Procs |-> "idle"]
  /\ with = [p \in Procs |-> None]
  /\ user = [p \in Procs |-> None]
  /\ block = [p \in Procs |-> None]
  /\ row = [p \in Procs |-> None]

Go(p, q) == at' = [at EXCEPT ![p] = q]

\* The request is answered, with success or with an error.
Done(p) ==
  /\ Go(p, "idle")
  /\ with' = [with EXCEPT ![p] = None]
  /\ user' = [user EXCEPT ![p] = None]
  /\ block' = [block EXCEPT ![p] = None]
  /\ row' = [row EXCEPT ![p] = None]

Wallet(p) == with[p].wallet
Registers(p) == with[p].purpose = "register"

-----------------------------------------------------------------------------
\* initPrivateBlockchain, as an instance starts: the genesis block is looked
\* for, and inserted ON CONFLICT DO NOTHING.
StartUp(p) ==
  /\ at[p] = "idle"
  /\ IF Vacant(0) THEN Go(p, "genesis") ELSE UNCHANGED at
  /\ UNCHANGED <<tables, locals>>

InsertGenesis(p) ==
  /\ at[p] = "genesis"
  /\ \/ Insert(Genesis)
     \/ ~Vacant(0) /\ UNCHANGED blocks
  /\ Go(p, "idle")
  /\ UNCHANGED <<members, walletOf, challenge, devices, sessions, locals>>

-----------------------------------------------------------------------------
\* issueWalletNonce.
IssueChallenge(c) ==
  /\ ~Vacant(0)
  /\ challenge[c] = "none"
  /\ challenge' = [challenge EXCEPT ![c] = "live"]
  /\ UNCHANGED <<blocks, members, walletOf, devices, sessions, at, locals>>

\* Five minutes pass.
Expire(c) ==
  /\ challenge[c] = "live"
  /\ challenge' = [challenge EXCEPT ![c] = "closed"]
  /\ UNCHANGED <<blocks, members, walletOf, devices, sessions, at, locals>>

\* A request arrives; verifyWalletSignature finds its challenge unused and the
\* signature good.  Otherwise it is refused and nothing changes.
FindChallenge(p, c) ==
  /\ at[p] = "idle"
  /\ challenge[c] = "live"
  /\ with' = [with EXCEPT ![p] = c]
  /\ Go(p, "mark")
  /\ UNCHANGED <<tables, user, block, row>>

\* UPDATE wallet_auth_nonces SET used: by id, whatever happened since.
MarkUsed(p) ==
  /\ at[p] = "mark"
  /\ challenge' = [challenge EXCEPT ![with[p]] = "closed"]
  /\ Go(p, "lookup")
  /\ UNCHANGED <<blocks, members, walletOf, devices, sessions, locals>>

Owners(w) == {u \in Users : walletOf[u] = w}

\* getUserByWallet, for a registration: 409 if there is an account.
LookupToRegister(p) ==
  /\ at[p] = "lookup"
  /\ Registers(p)
  /\ IF Owners(Wallet(p)) # {} THEN Done(p)
     ELSE Go(p, "create") /\ UNCHANGED locals
  /\ UNCHANGED tables

\* getUserByWallet, for a login: 404 if there is no account.
LookupToLogin(p) ==
  /\ at[p] = "lookup"
  /\ ~Registers(p)
  /\ \/ Owners(Wallet(p)) = {} /\ Done(p)
     \/ \E u \in Owners(Wallet(p)) :
          /\ user' = [user EXCEPT ![p] = u]
          /\ Go(p, "latest")
          /\ UNCHANGED <<with, block, row>>
  /\ UNCHANGED tables

\* generateUser: a row with an id nobody has.
CreateUser(p) ==
  /\ at[p] = "create"
  /\ \E u \in Users \ members :
       /\ members' = members \cup {u}
       /\ user' = [user EXCEPT ![p] = u]
  /\ Go(p, "link")
  /\ UNCHANGED <<blocks, walletOf, challenge, devices, sessions>>
  /\ UNCHANGED <<with, block, row>>

\* Mutation: wallet_address is not UNIQUE.
LinkWallet_Any(p) ==
  /\ at[p] = "link"
  /\ walletOf' = [walletOf EXCEPT ![user[p]] = Wallet(p)]
  /\ Go(p, "latest")
  /\ UNCHANGED <<blocks, members, challenge, devices, sessions, locals>>

\* Mutation: the wallet is taken from who has it.
LinkWallet_Takes(p) ==
  /\ at[p] = "link"
  /\ walletOf' = [u \in Users |-> IF u = user[p] THEN Wallet(p)
                                  ELSE IF walletOf[u] = Wallet(p) THEN None
                                  ELSE walletOf[u]]
  /\ Go(p, "latest")
  /\ UNCHANGED <<blocks, members, challenge, devices, sessions, locals>>

\* linkWalletToUser; UNIQUE (wallet_address) refuses the second account, whose
\* row stays behind without a wallet.
LinkWallet(p) ==
  /\ at[p] = "link"
  /\ IF Owners(Wallet(p)) # {} THEN Done(p) /\ UNCHANGED walletOf
     ELSE /\ walletOf' = [walletOf EXCEPT ![user[p]] = Wallet(p)]
          /\ Go(p, "latest")
          /\ UNCHANGED locals
  /\ UNCHANGED <<blocks, members, challenge, devices, sessions>>

EventOf(p) == IF Registers(p) THEN "JOINED" ELSE "AUTHENTICATED"

\* createBlock, its SELECT.
ReadLatest(p) ==
  /\ at[p] = "latest"
  /\ \E b \in blocks :
       /\ Latest(b)
       /\ b.index + 1 < MaxBlocks
       /\ block' = [block EXCEPT ![p] = Successor(b, user[p], EventOf(p))]
  /\ Go(p, "append")
  /\ UNCHANGED <<tables, with, user, row>>

\* Mutation: the error of createBlock is logged and ignored.
AppendBlock_Ignored(p) ==
  /\ at[p] = "append"
  /\ \/ Insert(block[p])
     \/ ~Vacant(block[p].index) /\ UNCHANGED blocks
  /\ Go(p, "count")
  /\ block' = [block EXCEPT ![p] = None]
  /\ UNCHANGED <<members, walletOf, challenge, devices, sessions>>
  /\ UNCHANGED <<with, user, row>>

\* createBlock, its INSERT: a writer that was overtaken fails the request.
AppendBlock(p) ==
  /\ at[p] = "append"
  /\ \/ /\ Insert(block[p])
        /\ Go(p, "count")
        /\ block' = [block EXCEPT ![p] = None]
        /\ UNCHANGED <<with, user, row>>
     \/ ~Vacant(block[p].index) /\ Done(p) /\ UNCHANGED blocks
  /\ UNCHANGED <<members, walletOf, challenge, devices, sessions>>

-----------------------------------------------------------------------------
DevicesOf(u) == {d \in devices : d.user = u}

\* processDeviceSession: a login from a browser whose cookie names a device of
\* the user takes no further slot.
KnownDevice(p) ==
  /\ at[p] = "count"
  /\ ~Registers(p)
  /\ DevicesOf(user[p]) # {}
  /\ Go(p, "sign in")
  /\ UNCHANGED <<tables, locals>>

\* getDeviceCount: 403 if every slot is taken.
CountDevices(p) ==
  /\ at[p] = "count"
  /\ IF Cardinality(DevicesOf(user[p])) >= MaxSlots THEN Done(p)
     ELSE Go(p, "slots") /\ UNCHANGED locals
  /\ UNCHANGED tables

\* The lowest slot no row of the user has.
FreeSlot(u, s) ==
  /\ s \notin {d.slot : d \in DevicesOf(u)}
  /\ \A t \in 1 .. s - 1 : t \in {d.slot : d \in DevicesOf(u)}

\* addNewDevice, its SELECT, with the token drawn before it.
PickSlot(p) ==
  /\ at[p] = "slots"
  /\ \E s \in 1 .. MaxSlots + 1, t \in Tokens :
       /\ FreeSlot(user[p], s)
       /\ row' = [row EXCEPT ![p] = [user |-> user[p], slot |-> s, token |-> t]]
  /\ Go(p, "insert")
  /\ UNCHANGED <<tables, with, user, block>>

\* Mutation: no PRIMARY KEY (user_id, id).
Insertable_AnySlot(r) ==
  /\ r.slot <= MaxSlots
  /\ \A d \in devices : d.token # r.token

\* The constraints of the table devices: CHECK (id BETWEEN 1 AND 5),
\* PRIMARY KEY (user_id, id) and UNIQUE (device_token).
Insertable(r) ==
  /\ r.slot <= MaxSlots
  /\ \A d \in devices : <<d.user, d.slot>> # <<r.user, r.slot>>
  /\ \A d \in devices : d.token # r.token

\* addNewDevice, its INSERT.
InsertDevice(p) ==
  /\ at[p] = "insert"
  /\ \/ /\ Insertable(row[p])
        /\ devices' = devices \cup {row[p]}
        /\ Go(p, "sign in")
        /\ row' = [row EXCEPT ![p] = None]
        /\ UNCHANGED <<with, user, block>>
     \/ ~Insertable(row[p]) /\ Done(p) /\ UNCHANGED devices
  /\ UNCHANGED <<blocks, members, walletOf, challenge, sessions>>

\* The call for a lease has returned or failed; setLoginSession.
SignIn(p) ==
  /\ at[p] = "sign in"
  /\ sessions' = sessions \cup {user[p]}
  /\ Done(p)
  /\ UNCHANGED <<blocks, members, walletOf, challenge, devices>>

-----------------------------------------------------------------------------
\* logoutUser, from the last browser the user is signed in with.
Logout(u) ==
  /\ u \in sessions
  /\ sessions' = sessions \ {u}
  /\ UNCHANGED <<blocks, members, walletOf, challenge, devices, at, locals>>

\* removeDevice: another device of the user, or the last browser's own, which
\* ends its session.
RemoveDevice(d) ==
  /\ d.user \in sessions
  /\ devices' = devices \ {d}
  /\ sessions' \in {sessions, sessions \ {d.user}}
  /\ UNCHANGED <<blocks, members, walletOf, challenge, at, locals>>

\* A query fails, or the instance stops.
Fail(p) ==
  /\ at[p] # "idle"
  /\ Done(p)
  /\ UNCHANGED tables

Verify(p) == (\E c \in Challenges : FindChallenge(p, c)) \/ MarkUsed(p)
Account(p) ==
  LookupToRegister(p) \/ LookupToLogin(p) \/ CreateUser(p) \/ LinkWallet(p)
Chain(p) == StartUp(p) \/ InsertGenesis(p) \/ ReadLatest(p) \/ AppendBlock(p)
Device(p) ==
  KnownDevice(p) \/ CountDevices(p) \/ PickSlot(p) \/ InsertDevice(p)

Next ==
  \/ \E p \in Procs :
       Verify(p) \/ Account(p) \/ Chain(p) \/ Device(p) \/ SignIn(p) \/ Fail(p)
  \/ \E c \in Challenges : IssueChallenge(c) \/ Expire(c)
  \/ \E u \in Users : Logout(u)
  \/ \E d \in devices : RemoveDevice(d)

Spec == Init /\ [][Next]_vars

-----------------------------------------------------------------------------
(* Properties.                                                             *)

\* verifyBlockchain finds the chain valid at every moment, whichever writers
\* raced, failed or started up at once: no fork, no gap, no second genesis.
ChainVerifies == Valid

\* A wallet joins the network once: however many registrations of one wallet
\* run at the same time, one PARTNER_JOINED_NETWORK block stands for it.
JoinedOnce ==
  \A b, c \in blocks :
    /\ b.event = "JOINED" /\ c.event = "JOINED"
    /\ walletOf[b.user] = walletOf[c.user]
    => b = c

\* Who has a session has proved a wallet, and the chain says so.
SessionOnRecord ==
  \A u \in sessions :
    /\ walletOf[u] # None
    /\ \E b \in blocks : b.user = u /\ b.event \in {"JOINED", "AUTHENTICATED"}

\* A user never has more devices than slots, although two requests may count
\* the devices before either inserts one.
WithinSlots ==
  \A u \in Users : Cardinality({d \in devices : d.user = u}) <= MaxSlots

\* An account keeps its wallet, and no other account ever gets it.
WalletStays ==
  [][\A u \in Users : walletOf[u] # None =>
       /\ walletOf'[u] = walletOf[u]
       /\ \A v \in Users \ {u} : walletOf'[v] # walletOf[u]]_vars

\* The rows in the order of their index, as readers are given them: at place
\* i, what has i - 1 rows before it.
InOrder ==
  [i \in 1 .. Cardinality(blocks) |->
     {b.hash : b \in {c \in blocks : Cardinality(Before(c)) = i - 1}}]

L == INSTANCE AppendOnlyChain WITH hashes <- InOrder

\* The chain is a list that only grows (AppendOnlyChain): start-ups and writers
\* that race never replace, remove or reorder a block that a reader has seen.
AppendOnlySpec == L!Spec
=============================================================================
