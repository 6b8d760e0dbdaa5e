---------------------------- MODULE PortalProofs ----------------------------
(***************************************************************************)
(* The partner chain stays valid, a wallet joins once and keeps its        *)
(* account, a session has a wallet and a block behind it, and the devices  *)
(* of a user fit its slots, for every number of requests, users, wallets   *)
(* and devices.                                                            *)
(***************************************************************************)
EXTENDS Portal, FiniteSetTheorems, SequenceTheorems, TLAPS

USE NoneAssumption, BoundAssumption

-----------------------------------------------------------------------------
(* The inductive invariant.                                                *)

HasChallenge == {"mark", "lookup", "create", "link", "latest", "append",
                 "count", "slots", "insert", "sign in"}
HasUser == {"link", "latest", "append", "count", "slots", "insert", "sign in"}
HasWallet == HasUser \ {"link"}
HasBlock == {"count", "slots", "insert", "sign in"}
Joining(p) == at[p] \in {"latest", "append"} /\ Registers(p)

OnRecord(u) ==
  \E b \in blocks : b.user = u /\ b.event \in {"JOINED", "AUTHENTICATED"}

\* What a request knows at each of its queries.
Knows(p) ==
  /\ at[p] \in HasChallenge => with[p] \in Challenges
  /\ at[p] \in HasUser => user[p] \in members
  /\ at[p] = "link" => walletOf[user[p]] = None
  /\ at[p] \in HasWallet => walletOf[user[p]] = Wallet(p)
  /\ at[p] \in HasBlock => OnRecord(user[p])
  /\ at[p] = "insert" => row[p] \in Rows

Placed ==
  /\ block = [p \in Procs |-> block[p]]
  /\ \A p \in Procs : Knows(p)

\* A user id is created before it gets a wallet; a wallet has one owner.
Accounts ==
  /\ \A u \in Users \ members : walletOf[u] = None
  /\ \A u, v \in Users : walletOf[u] = walletOf[v] /\ walletOf[u] # None => u = v

\* Each block follows the only block before it.
Follows(b) == \E c \in blocks : c.index + 1 = b.index /\ b.previous = c.hash
Linked ==
  /\ \A b, c \in blocks : b.index = c.index => b = c
  /\ \A b \in blocks :
       (b.index = 0 /\ b.previous = GenesisPrevious) \/ Follows(b)

\* A block to be inserted still follows a block of the chain, and speaks of
\* the request's own user.
Drafted ==
  \A p \in Procs : at[p] = "append" =>
    /\ Follows(block[p])
    /\ block[p].user = user[p]
    /\ block[p].event = EventOf(p)

\* Two registrations in progress have created two users.
Apart ==
  \A p, q \in Procs : p # q /\ user[p] = user[q] =>
    /\ at[p] = "link" => at[q] # "link"
    /\ Joining(p) => ~Joining(q)

\* A user has joined at most once, and not before its registration says so.
Joined ==
  /\ \A b \in blocks : b.event = "JOINED" =>
       b.user \in Users /\ walletOf[b.user] # None
  /\ \A b, c \in blocks :
       b.event = "JOINED" /\ c.event = "JOINED" /\ b.user = c.user => b = c
  /\ \A p \in Procs : Joining(p) =>
       \A b \in blocks : b.event = "JOINED" => b.user # user[p]

IInv == /\ TypeOK /\ Placed /\ Accounts /\ Linked /\ Drafted /\ Apart /\ Joined
        /\ SessionOnRecord

-----------------------------------------------------------------------------
(* Blocks.                                                                 *)

\* A block built on a block of the chain is a block.
LEMMA SuccessorIsBlock ==
  \A b, u, e : IsBlock(b) /\ u \in Users /\ e \in Events =>
    /\ IsBlock(Successor(b, u, e))
    /\ Successor(b, u, e).index = b.index + 1
    /\ Successor(b, u, e).previous = b.hash
    /\ Successor(b, u, e).user = u
    /\ Successor(b, u, e).event = e
  BY DEF IsBlock, Successor, Sealed, Hash

\* So is the genesis block.
LEMMA GenesisIsBlock ==
  /\ IsBlock(Genesis)
  /\ Genesis.index = 0
  /\ Genesis.previous = GenesisPrevious
  /\ Genesis.event = "GENESIS"
  BY DEF IsBlock, Genesis, Sealed, Hash, Events

\* A chain whose blocks each follow the only block before them is one that
\* verifyBlockchain accepts.
LEMMA LinkedIsValid ==
  ASSUME \A b \in blocks : IsBlock(b), Linked
  PROVE  Valid
  <1> SUFFICES ASSUME NEW b \in blocks
               PROVE  FollowsRowBefore(b) /\ b.hash = Hash(b)
    BY DEF Valid
  <1>1. b.hash = Hash(b)
    <2>1. b = Sealed(b)
      BY DEF IsBlock
    <2> QED
      BY <2>1 DEF Sealed, Hash
  <1>2. CASE b.index = 0 /\ b.previous = GenesisPrevious
    <2>1. Before(b) = {}
      BY <1>2 DEF Before, IsBlock, Linked
    <2> QED
      BY <1>1, <1>2, <2>1 DEF FollowsRowBefore
  <1>3. CASE Follows(b)
    <2>1. PICK c \in blocks : c.index + 1 = b.index /\ b.previous = c.hash
      BY <1>3 DEF Follows
    <2>2. c \in Before(b)
      BY <2>1 DEF Before, IsBlock
    <2>3. ASSUME NEW d \in Before(b), \A e \in Before(b) : e.index <= d.index
          PROVE  d = c
      <3>1. /\ d \in blocks /\ d # b
            /\ d.index <= b.index /\ c.index <= d.index
        BY <2>2, <2>3 DEF Before
      <3>2. d.index \in Nat /\ c.index \in Nat /\ b.index \in Nat
        BY <3>1 DEF IsBlock
      <3>3. d.index # b.index
        BY <3>1 DEF Linked
      <3>4. d.index = c.index
        BY <2>1, <3>1, <3>2, <3>3
      <3> QED
        BY <3>1, <3>4 DEF Linked
    <2> QED
      BY <1>1, <2>1, <2>2, <2>3 DEF FollowsRowBefore
  <1> QED
    BY <1>2, <1>3 DEF Linked

-----------------------------------------------------------------------------
(* Steps that most actions are made of.                                    *)

\* No process comes to hold a new user it may create or register.
Shrinks ==
  \A q \in Procs :
    /\ at'[q] = "link" => at[q] = "link" /\ user'[q] = user[q]
    /\ Joining(q)' => Joining(q) /\ user'[q] = user[q]

\* Then no two of them hold the same one.
LEMMA ShrinksKeepsApart ==
  ASSUME Apart, Shrinks
  PROVE  Apart'
  <1> SUFFICES ASSUME NEW p \in Procs, NEW q \in Procs, p # q,
                      user'[p] = user'[q]
               PROVE  /\ at'[p] = "link" => at'[q] # "link"
                      /\ Joining(p)' => ~Joining(q)'
    BY DEF Apart
  <1>1. at'[p] = "link" => at'[q] # "link"
    BY DEF Apart, Shrinks
  <1>2. Joining(p)' => ~Joining(q)'
    <2> SUFFICES ASSUME Joining(p)', Joining(q)'
                 PROVE  FALSE
      OBVIOUS
    <2>1. Joining(p) /\ Joining(q) /\ user[p] = user[q]
      BY DEF Shrinks
    <2> QED
      BY <2>1 DEF Apart
  <1> QED
    BY <1>1, <1>2

\* What holds of the tables alone.
LEMMA TablesKeep ==
  ASSUME IInv, UNCHANGED <<blocks, members, walletOf>>
  PROVE  /\ Accounts' /\ Linked'
         /\ \A u : OnRecord(u)' = OnRecord(u)
         /\ \A b : Follows(b)' = Follows(b)
  BY DEF IInv, Accounts, Linked, Follows, OnRecord

\* Where Shrinks holds, no registration is begun either.
LEMMA ShrinksKeepsJoined ==
  ASSUME IInv, UNCHANGED <<blocks, walletOf>>, Shrinks
  PROVE  Joined'
  <1>1. ASSUME NEW q \in Procs, Joining(q)',
               NEW b \in blocks, b.event = "JOINED"
        PROVE  b.user # user'[q]
    BY <1>1 DEF IInv, Joined, Shrinks
  <1> QED
    BY <1>1 DEF IInv, Joined

\* A request that is answered forgets everything.
LEMMA DoneKeeps ==
  ASSUME IInv, NEW p \in Procs, Done(p),
         UNCHANGED <<blocks, members, walletOf>>
  PROVE  LocalsTypeOK' /\ Placed' /\ Accounts' /\ Linked' /\ Drafted' /\ Apart'
         /\ Joined'
  <1>1. /\ TypeOK /\ Placed /\ Drafted /\ Apart
        /\ at' = [at EXCEPT ![p] = "idle"]
        /\ with' = [with EXCEPT ![p] = None]
        /\ user' = [user EXCEPT ![p] = None]
        /\ block' = [block EXCEPT ![p] = None]
        /\ row' = [row EXCEPT ![p] = None]
    BY DEF IInv, Done, Go
  <1>2. at'[p] = "idle"
    BY <1>1 DEF TypeOK, LocalsTypeOK
  <1>3. \A q \in Procs : q # p =>
          /\ at'[q] = at[q] /\ with'[q] = with[q] /\ user'[q] = user[q]
          /\ block'[q] = block[q] /\ row'[q] = row[q]
    BY <1>1 DEF TypeOK, LocalsTypeOK, Placed
  <1>4. LocalsTypeOK'
    BY <1>1, <1>2, <1>3 DEF TypeOK, LocalsTypeOK, Queries
  <1>5. Placed'
    <2>1. block' = [q \in Procs |-> block'[q]]
      BY <1>1 DEF Placed
    <2>2. ASSUME NEW q \in Procs
          PROVE  Knows(q)'
      <3>1. CASE q = p
        BY <1>2, <3>1
        DEF Knows, HasChallenge, HasUser, HasWallet, HasBlock
      <3>2. CASE q # p
        BY <1>1, <1>3, <3>2 DEF Placed, Knows, Wallet, OnRecord
      <3> QED
        BY <3>1, <3>2
    <2> QED
      BY <2>1, <2>2 DEF Placed
  <1>6. Drafted'
    BY <1>1, <1>2, <1>3, TablesKeep DEF Drafted, EventOf, Registers
  <1>7. Shrinks
    BY <1>1, <1>2, <1>3 DEF Shrinks, Joining, Registers
  <1> QED
    BY <1>1, <1>4, <1>5, <1>6, <1>7, TablesKeep, ShrinksKeepsApart,
       ShrinksKeepsJoined

\* A request goes on to a query that needs nothing it does not have.
LEMMA GoKeeps ==
  ASSUME IInv, NEW p \in Procs, NEW q \in Queries, Go(p, q),
         UNCHANGED locals, UNCHANGED <<blocks, members, walletOf>>,
         q \notin {"link", "latest", "append", "insert"},
         q \in HasChallenge => at[p] \in HasChallenge,
         q \in HasUser => at[p] \in HasUser,
         q \in HasWallet => at[p] \in HasWallet,
         q \in HasBlock => at[p] \in HasBlock
  PROVE  LocalsTypeOK' /\ Placed' /\ Accounts' /\ Linked' /\ Drafted' /\ Apart'
         /\ Joined'
  <1>1. /\ TypeOK /\ Placed /\ Drafted /\ Apart
        /\ at' = [at EXCEPT ![p] = q]
        /\ UNCHANGED <<with, user, block, row>>
    BY DEF IInv, Go, locals
  <1>2. at'[p] = q /\ \A r \in Procs : r # p => at'[r] = at[r]
    BY <1>1 DEF TypeOK, LocalsTypeOK
  <1>3. LocalsTypeOK'
    BY <1>1, <1>2 DEF TypeOK, LocalsTypeOK
  <1>4. Placed'
    <2>1. block' = [r \in Procs |-> block'[r]]
      BY <1>1 DEF Placed
    <2>2. ASSUME NEW r \in Procs
          PROVE  Knows(r)'
      <3>1. CASE r = p
        BY <1>1, <1>2, <3>1 DEF Placed, Knows, Wallet, OnRecord
      <3>2. CASE r # p
        BY <1>1, <1>2, <3>2 DEF Placed, Knows, Wallet, OnRecord
      <3> QED
        BY <3>1, <3>2
    <2> QED
      BY <2>1, <2>2 DEF Placed
  <1>5. Drafted'
    BY <1>1, <1>2, TablesKeep DEF Drafted, EventOf, Registers
  <1>6. Shrinks
    BY <1>1, <1>2 DEF Shrinks, Joining, Registers
  <1> QED
    BY <1>1, <1>3, <1>4, <1>5, <1>6, TablesKeep, ShrinksKeepsApart,
       ShrinksKeepsJoined

\* The other requests know what they knew, while tables grow around them.
LEMMA OthersKnow ==
  ASSUME IInv, NEW p \in Procs, blocks \subseteq blocks', members \subseteq members',
         \A q \in Procs : q # p => /\ at'[q] = at[q] /\ with'[q] = with[q]
                                   /\ user'[q] = user[q] /\ row'[q] = row[q],
         \A u \in members : walletOf'[u] = walletOf[u] \/ user[p] = u,
         \A q \in Procs : q # p /\ at[q] \in HasUser /\ user[q] = user[p] =>
                            walletOf'[user[q]] = walletOf[user[q]]
  PROVE  \A q \in Procs : q # p => Knows(q)'
  <1> SUFFICES ASSUME NEW q \in Procs, q # p
               PROVE  Knows(q)'
    OBVIOUS
  <1>1. Knows(q)
    BY DEF IInv, Placed
  <1>2. at[q] \in HasUser => walletOf'[user[q]] = walletOf[user[q]]
    BY <1>1 DEF Knows
  <1>3. at[q] \in HasBlock => OnRecord(user[q])'
    BY <1>1 DEF Knows, OnRecord
  <1> QED
    BY <1>1, <1>2, <1>3 DEF Knows, Wallet, HasUser, HasWallet

-----------------------------------------------------------------------------
(* Each step keeps the invariant.                                          *)

\* A step that leaves blocks, accounts and requests alone.
LEMMA QuietKeeps ==
  ASSUME IInv, UNCHANGED <<blocks, members, walletOf>>, UNCHANGED <<at, locals>>
  PROVE  LocalsTypeOK' /\ Placed' /\ Accounts' /\ Linked' /\ Drafted' /\ Apart'
         /\ Joined'
  <1> USE DEF IInv, locals
  <1>1. LocalsTypeOK'
    BY DEF TypeOK, LocalsTypeOK
  <1>2. Placed'
    BY DEF Placed, Knows, Wallet, OnRecord
  <1>3. Drafted'
    BY DEF Drafted, Follows, EventOf, Registers
  <1>4. Shrinks
    BY DEF Shrinks, Joining, Registers
  <1> QED
    BY <1>1, <1>2, <1>3, <1>4, TablesKeep, ShrinksKeepsApart,
       ShrinksKeepsJoined

\* Challenges come and go, users log out and remove devices.
LEMMA EnvironmentKeeps ==
  ASSUME IInv,
         \/ \E c \in Challenges : IssueChallenge(c) \/ Expire(c)
         \/ \E u \in Users : Logout(u)
         \/ \E d \in devices : RemoveDevice(d)
         \/ UNCHANGED vars
  PROVE  IInv'
  <1>1. UNCHANGED <<blocks, members, walletOf>> /\ UNCHANGED <<at, locals>>
    BY DEF IssueChallenge, Expire, Logout, RemoveDevice, vars, locals
  <1>2. /\ challenge' \in [Challenges -> {"none", "live", "closed"}]
        /\ devices' \subseteq devices
        /\ sessions' \subseteq sessions
    BY DEF IInv, TypeOK, TablesTypeOK, IssueChallenge, Expire, Logout,
           RemoveDevice, vars
  <1>3. TablesTypeOK'
    BY <1>1, <1>2 DEF IInv, TypeOK, TablesTypeOK
  <1>4. SessionOnRecord'
    BY <1>1, <1>2 DEF IInv, SessionOnRecord
  <1> QED
    BY <1>1, <1>3, <1>4, QuietKeeps DEF IInv, TypeOK

\* A start-up looked for the genesis block.
LEMMA StartUpKeeps ==
  ASSUME IInv, NEW p \in Procs, StartUp(p)
  PROVE  IInv'
  <1>1. UNCHANGED <<blocks, members, walletOf, devices, sessions>>
    BY DEF StartUp, tables
  <1>2. TablesTypeOK'
    <2>1. UNCHANGED challenge
      BY DEF StartUp, tables
    <2> QED
      BY <1>1, <2>1 DEF IInv, TypeOK, TablesTypeOK
  <1>3. SessionOnRecord'
    BY <1>1 DEF IInv, SessionOnRecord
  <1>4. CASE Go(p, "genesis") /\ UNCHANGED locals
    BY <1>1, <1>2, <1>3, <1>4, GoKeeps
    DEF StartUp, IInv, TypeOK, Queries, HasChallenge, HasUser, HasWallet, HasBlock
  <1>5. CASE UNCHANGED at /\ UNCHANGED locals
    BY <1>1, <1>2, <1>3, <1>5, QuietKeeps DEF IInv, TypeOK
  <1> QED
    BY <1>4, <1>5 DEF StartUp

\* A challenge was marked as used.
LEMMA MarkUsedKeeps ==
  ASSUME IInv, NEW p \in Procs, MarkUsed(p)
  PROVE  IInv'
  <1>1. UNCHANGED <<blocks, members, walletOf, devices, sessions>>
    BY DEF MarkUsed, tables
  <1>2. TablesTypeOK'
    BY <1>1 DEF IInv, TypeOK, TablesTypeOK, MarkUsed
  <1>3. SessionOnRecord'
    BY <1>1 DEF IInv, SessionOnRecord
  <1>4. CASE Go(p, "lookup") /\ UNCHANGED locals
    BY <1>1, <1>2, <1>3, <1>4, GoKeeps
    DEF MarkUsed, IInv, TypeOK, Queries, HasChallenge, HasUser, HasWallet, HasBlock
  <1> QED
    BY <1>4 DEF MarkUsed

\* A registration looked for an account.
LEMMA LookupToRegisterKeeps ==
  ASSUME IInv, NEW p \in Procs, LookupToRegister(p)
  PROVE  IInv'
  <1>1. UNCHANGED <<blocks, members, walletOf, devices, sessions>>
    BY DEF LookupToRegister, tables
  <1>2. TablesTypeOK'
    <2>1. UNCHANGED challenge
      BY DEF LookupToRegister, tables
    <2> QED
      BY <1>1, <2>1 DEF IInv, TypeOK, TablesTypeOK
  <1>3. SessionOnRecord'
    BY <1>1 DEF IInv, SessionOnRecord
  <1>4. CASE Go(p, "create") /\ UNCHANGED locals
    BY <1>1, <1>2, <1>3, <1>4, GoKeeps
    DEF LookupToRegister, IInv, TypeOK, Queries, HasChallenge, HasUser, HasWallet, HasBlock
  <1>5. CASE Done(p)
    BY <1>1, <1>2, <1>3, <1>5, DoneKeeps DEF IInv, TypeOK
  <1> QED
    BY <1>4, <1>5 DEF LookupToRegister

\* A login came from a known device.
LEMMA KnownDeviceKeeps ==
  ASSUME IInv, NEW p \in Procs, KnownDevice(p)
  PROVE  IInv'
  <1>1. UNCHANGED <<blocks, members, walletOf, devices, sessions>>
    BY DEF KnownDevice, tables
  <1>2. TablesTypeOK'
    <2>1. UNCHANGED challenge
      BY DEF KnownDevice, tables
    <2> QED
      BY <1>1, <2>1 DEF IInv, TypeOK, TablesTypeOK
  <1>3. SessionOnRecord'
    BY <1>1 DEF IInv, SessionOnRecord
  <1>4. CASE Go(p, "sign in") /\ UNCHANGED locals
    BY <1>1, <1>2, <1>3, <1>4, GoKeeps
    DEF KnownDevice, IInv, TypeOK, Queries, HasChallenge, HasUser, HasWallet, HasBlock
  <1> QED
    BY <1>4 DEF KnownDevice

\* The devices were counted.
LEMMA CountDevicesKeeps ==
  ASSUME IInv, NEW p \in Procs, CountDevices(p)
  PROVE  IInv'
  <1>1. UNCHANGED <<blocks, members, walletOf, devices, sessions>>
    BY DEF CountDevices, tables
  <1>2. TablesTypeOK'
    <2>1. UNCHANGED challenge
      BY DEF CountDevices, tables
    <2> QED
      BY <1>1, <2>1 DEF IInv, TypeOK, TablesTypeOK
  <1>3. SessionOnRecord'
    BY <1>1 DEF IInv, SessionOnRecord
  <1>4. CASE Go(p, "slots") /\ UNCHANGED locals
    BY <1>1, <1>2, <1>3, <1>4, GoKeeps
    DEF CountDevices, IInv, TypeOK, Queries, HasChallenge, HasUser, HasWallet, HasBlock
  <1>5. CASE Done(p)
    BY <1>1, <1>2, <1>3, <1>5, DoneKeeps DEF IInv, TypeOK
  <1> QED
    BY <1>4, <1>5 DEF CountDevices

\* A request failed.
LEMMA FailKeeps ==
  ASSUME IInv, NEW p \in Procs, Fail(p)
  PROVE  IInv'
  <1>1. UNCHANGED <<blocks, members, walletOf, devices, sessions>>
    BY DEF Fail, tables
  <1>2. TablesTypeOK'
    <2>1. UNCHANGED challenge
      BY DEF Fail, tables
    <2> QED
      BY <1>1, <2>1 DEF IInv, TypeOK, TablesTypeOK
  <1>3. SessionOnRecord'
    BY <1>1 DEF IInv, SessionOnRecord
  <1>4. CASE Done(p)
    BY <1>1, <1>2, <1>3, <1>4, DoneKeeps DEF IInv, TypeOK
  <1> QED
    BY <1>4 DEF Fail

\* A request found its challenge.
LEMMA FindChallengeKeeps ==
  ASSUME IInv, NEW p \in Procs, NEW c \in Challenges, FindChallenge(p, c)
  PROVE  IInv'
  <1>1. /\ TypeOK /\ Placed /\ Drafted /\ Apart /\ SessionOnRecord
        /\ at' = [at EXCEPT ![p] = "mark"]
        /\ with' = [with EXCEPT ![p] = c]
        /\ UNCHANGED <<blocks, members, walletOf, challenge, devices, sessions>>
        /\ UNCHANGED <<user, block, row>>
    BY DEF IInv, FindChallenge, Go, tables
  <1>2. /\ at'[p] = "mark" /\ with'[p] = c
        /\ \A q \in Procs : q # p => at'[q] = at[q] /\ with'[q] = with[q]
    BY <1>1 DEF TypeOK, LocalsTypeOK
  <1>3. TypeOK' /\ SessionOnRecord'
    <2>1. TablesTypeOK' /\ SessionOnRecord'
      BY <1>1 DEF TypeOK, TablesTypeOK, SessionOnRecord
    <2>2. LocalsTypeOK'
      BY <1>1, <1>2 DEF TypeOK, LocalsTypeOK, Queries
    <2> QED
      BY <2>1, <2>2 DEF TypeOK
  <1>4. Placed'
    <2>1. Knows(p)'
      BY <1>2 DEF Knows, HasChallenge, HasUser, HasWallet, HasBlock
    <2>2. \A q \in Procs : q # p => Knows(q)'
      BY <1>1, <1>2, OthersKnow
    <2> QED
      BY <1>1, <2>1, <2>2 DEF Placed
  <1>5. Drafted'
    BY <1>1, <1>2 DEF Drafted, Follows, EventOf, Registers
  <1>6. Shrinks
    BY <1>1, <1>2 DEF Shrinks, Joining, Registers
  <1> QED
    BY <1>1, <1>3, <1>4, <1>5, <1>6, TablesKeep, ShrinksKeepsApart,
       ShrinksKeepsJoined DEF IInv

\* A login found its account.
LEMMA LookupToLoginKeeps ==
  ASSUME IInv, NEW p \in Procs, LookupToLogin(p)
  PROVE  IInv'
  <1>1. /\ TypeOK /\ Placed /\ Drafted /\ Apart /\ SessionOnRecord
        /\ at[p] = "lookup" /\ ~Registers(p) /\ Knows(p)
        /\ UNCHANGED <<blocks, members, walletOf, challenge, devices, sessions>>
    BY DEF IInv, LookupToLogin, tables, Placed
  <1>2. TablesTypeOK' /\ SessionOnRecord'
    BY <1>1 DEF TypeOK, TablesTypeOK, SessionOnRecord
  <1>3. CASE Done(p)
    BY <1>1, <1>2, <1>3, DoneKeeps DEF IInv, TypeOK
  <1>4. ASSUME NEW u \in Owners(Wallet(p)),
               user' = [user EXCEPT ![p] = u],
               at' = [at EXCEPT ![p] = "latest"],
               UNCHANGED <<with, block, row>>
        PROVE  IInv'
    <2>1. /\ at'[p] = "latest" /\ user'[p] = u
          /\ \A q \in Procs : q # p => at'[q] = at[q] /\ user'[q] = user[q]
      BY <1>1, <1>4 DEF TypeOK, LocalsTypeOK
    <2>2. with[p] \in Challenges /\ Wallet(p) \in Wallets
      BY <1>1 DEF Knows, HasChallenge, Wallet, Challenges
    <2>3. u \in Users /\ walletOf[u] = Wallet(p) /\ u \in members
      BY <2>2 DEF Owners, IInv, Accounts
    <2>4. LocalsTypeOK'
      BY <1>1, <1>4, <2>1, <2>3 DEF TypeOK, LocalsTypeOK, Queries
    <2>5. Placed'
      <3>1. Knows(p)'
        <4>1. /\ with'[p] \in Challenges
              /\ user'[p] \in members'
              /\ walletOf'[user'[p]] = Wallet(p)'
          BY <1>1, <1>4, <2>1, <2>2, <2>3 DEF Wallet
        <4>2. at'[p] \notin HasBlock
          BY <2>1 DEF HasBlock
        <4> QED
          BY <2>1, <4>1, <4>2 DEF Knows
      <3>2. \A q \in Procs : q # p => Knows(q)'
        BY <1>1, <1>4, <2>1, OthersKnow
      <3> QED
        BY <1>1, <1>4, <3>1, <3>2 DEF Placed
    <2>6. Drafted'
      BY <1>1, <1>4, <2>1 DEF Drafted, Follows, EventOf, Registers
    <2>7. Shrinks
      BY <1>1, <1>4, <2>1 DEF Shrinks, Joining, Registers
    <2> QED
      BY <1>1, <1>2, <2>4, <2>5, <2>6, <2>7, TablesKeep, ShrinksKeepsApart,
         ShrinksKeepsJoined DEF IInv, TypeOK
  <1> QED
    BY <1>3, <1>4 DEF LookupToLogin, Go

\* A registration created a user nobody else holds.
LEMMA CreateUserKeeps ==
  ASSUME IInv, NEW p \in Procs, CreateUser(p)
  PROVE  IInv'
  <1>1. PICK u \in Users \ members :
          /\ members' = members \cup {u}
          /\ user' = [user EXCEPT ![p] = u]
    BY DEF CreateUser
  <1>2. /\ TypeOK /\ Placed /\ Accounts /\ Drafted /\ Apart /\ SessionOnRecord
        /\ at[p] = "create"
        /\ at' = [at EXCEPT ![p] = "link"]
        /\ UNCHANGED <<blocks, walletOf, challenge, devices, sessions>>
        /\ UNCHANGED <<with, block, row>>
    BY DEF IInv, CreateUser, Go
  <1>3. /\ at'[p] = "link" /\ user'[p] = u /\ walletOf[u] = None
        /\ \A q \in Procs : q # p => at'[q] = at[q] /\ user'[q] = user[q]
        /\ \A q \in Procs : at[q] \in HasUser => user[q] # u
    BY <1>1, <1>2 DEF TypeOK, LocalsTypeOK, Accounts, Placed, Knows
  <1>4. TypeOK' /\ SessionOnRecord'
    <2>1. TablesTypeOK' /\ SessionOnRecord'
      BY <1>1, <1>2 DEF TypeOK, TablesTypeOK, SessionOnRecord
    <2>2. LocalsTypeOK'
      BY <1>1, <1>2, <1>3 DEF TypeOK, LocalsTypeOK, Queries
    <2> QED
      BY <2>1, <2>2 DEF TypeOK
  <1>5. Placed'
    <2>1. Knows(p)'
      <3> Knows(p)
        BY <1>2 DEF Placed
      <3>1. /\ with'[p] \in Challenges
            /\ user'[p] \in members'
            /\ walletOf'[user'[p]] = None
        <4>1. with'[p] \in Challenges
          BY <1>2 DEF Knows, HasChallenge
        <4>2. user'[p] \in members'
          BY <1>1, <1>3
        <4>3. walletOf'[user'[p]] = None
          BY <1>2, <1>3
        <4> QED
          BY <4>1, <4>2, <4>3
      <3>2. at'[p] \notin HasWallet /\ at'[p] \notin HasBlock
        BY <1>3 DEF HasUser, HasWallet, HasBlock
      <3> QED
        BY <1>3, <3>1, <3>2 DEF Knows
    <2>2. \A q \in Procs : q # p => Knows(q)'
      BY <1>1, <1>2, <1>3, OthersKnow
    <2> QED
      BY <1>2, <2>1, <2>2 DEF Placed
  <1>6. Accounts' /\ Linked'
    BY <1>1, <1>2 DEF IInv, Accounts, Linked, Follows
  <1>7. Drafted'
    BY <1>2, <1>3 DEF Drafted, Follows, EventOf, Registers
  <1>8. ASSUME NEW q \in Procs, Joining(q)'
        PROVE  q # p /\ Joining(q) /\ user'[q] = user[q]
    BY <1>2, <1>3, <1>8 DEF Joining, Registers
  <1>9. Apart'
    <2>1. \A q \in Procs : q # p /\ at[q] = "link" => user'[q] # user'[p]
      BY <1>3 DEF HasUser
    <2> QED
      BY <1>2, <1>3, <1>8, <2>1 DEF Apart
  <1>10. Joined'
    BY <1>2, <1>8 DEF IInv, Joined
  <1> QED
    BY <1>2, <1>4, <1>5, <1>6, <1>7, <1>9, <1>10 DEF IInv

\* createBlock read the latest block.
LEMMA ReadLatestKeeps ==
  ASSUME IInv, NEW p \in Procs, ReadLatest(p)
  PROVE  IInv'
  <1>1. PICK b \in blocks :
          block' = [block EXCEPT ![p] = Successor(b, user[p], EventOf(p))]
    BY DEF ReadLatest
  <1>2. /\ TypeOK /\ Placed /\ Drafted /\ Apart /\ SessionOnRecord
        /\ at[p] = "latest" /\ Knows(p)
        /\ at' = [at EXCEPT ![p] = "append"]
        /\ UNCHANGED <<blocks, members, walletOf, challenge, devices, sessions>>
        /\ UNCHANGED <<with, user, row>>
    BY DEF IInv, ReadLatest, Go, tables, Placed
  <1>3. /\ at'[p] = "append"
        /\ block'[p] = Successor(b, user[p], EventOf(p))
        /\ \A q \in Procs : q # p => at'[q] = at[q] /\ block'[q] = block[q]
    BY <1>1, <1>2 DEF TypeOK, LocalsTypeOK, Placed
  <1>4. /\ IsBlock(block'[p])
        /\ block'[p].index = b.index + 1
        /\ block'[p].previous = b.hash
        /\ block'[p].user = user[p]
        /\ block'[p].event = EventOf(p)
    <2>1. user[p] \in Users /\ EventOf(p) \in Events /\ IsBlock(b)
      BY <1>2 DEF Knows, HasUser, TypeOK, TablesTypeOK, EventOf, Events
    <2> QED
      BY <1>3, <2>1, SuccessorIsBlock
  <1>5. TypeOK' /\ SessionOnRecord'
    <2>1. TablesTypeOK' /\ SessionOnRecord'
      BY <1>2 DEF TypeOK, TablesTypeOK, SessionOnRecord
    <2>2. at' \in [Procs -> Queries]
      BY <1>2 DEF TypeOK, LocalsTypeOK, Queries
    <2>3. LocalsTypeOK'
      BY <1>2, <1>3, <1>4, <2>2 DEF TypeOK, LocalsTypeOK
    <2> QED
      BY <2>1, <2>3 DEF TypeOK
  <1>6. Placed'
    <2>1. Knows(p)'
      BY <1>2, <1>3
      DEF Knows, HasChallenge, HasUser, HasWallet, HasBlock, Wallet
    <2>2. \A q \in Procs : q # p => Knows(q)'
      BY <1>2, <1>3, OthersKnow
    <2>3. block' = [q \in Procs |-> block'[q]]
      BY <1>1, <1>2 DEF Placed
    <2> QED
      BY <2>1, <2>2, <2>3 DEF Placed
  <1>7. Drafted'
    <2>1. ASSUME NEW q \in Procs, at'[q] = "append"
          PROVE  /\ Follows(block[q])'
                 /\ block'[q].user = user'[q]
                 /\ block'[q].event = EventOf(q)'
      <3>1. CASE q = p
        BY <1>2, <1>4, <3>1 DEF Follows, EventOf, Registers
      <3>2. CASE q # p
        BY <1>2, <1>3, <2>1, <3>2 DEF Drafted, Follows, EventOf, Registers
      <3> QED
        BY <3>1, <3>2
    <2> QED
      BY <2>1 DEF Drafted
  <1>8. Shrinks
    BY <1>2, <1>3 DEF Shrinks, Joining, Registers
  <1> QED
    BY <1>2, <1>5, <1>6, <1>7, <1>8, TablesKeep, ShrinksKeepsApart,
       ShrinksKeepsJoined DEF IInv

\* The new user got the wallet, or the request failed.
LEMMA LinkWalletKeeps ==
  ASSUME IInv, NEW p \in Procs, LinkWallet(p)
  PROVE  IInv'
  <1>1. /\ TypeOK /\ Placed /\ Accounts /\ Drafted /\ Apart /\ Joined
        /\ SessionOnRecord
        /\ at[p] = "link" /\ Knows(p)
        /\ UNCHANGED <<blocks, members, challenge, devices, sessions>>
    BY DEF IInv, LinkWallet, Placed
  <1>2. CASE Done(p) /\ UNCHANGED walletOf
    <2>1. TablesTypeOK' /\ SessionOnRecord'
      BY <1>1, <1>2 DEF TypeOK, TablesTypeOK, SessionOnRecord
    <2> QED
      BY <1>1, <1>2, <2>1, DoneKeeps DEF IInv, TypeOK
  <1>3. CASE /\ Owners(Wallet(p)) = {}
             /\ walletOf' = [walletOf EXCEPT ![user[p]] = Wallet(p)]
             /\ Go(p, "latest")
             /\ UNCHANGED locals
    <2> DEFINE u == user[p]
               w == Wallet(p)
    <2>1. /\ at' = [at EXCEPT ![p] = "latest"]
          /\ UNCHANGED <<with, user, block, row>>
      BY <1>3 DEF Go, locals
    <2>2. at'[p] = "latest" /\ \A q \in Procs : q # p => at'[q] = at[q]
      BY <1>1, <2>1 DEF TypeOK, LocalsTypeOK
    <2>3. /\ with[p] \in Challenges
          /\ u \in members /\ u \in Users
          /\ walletOf[u] = None
      BY <1>1 DEF Knows, HasChallenge, HasUser, TypeOK, TablesTypeOK
    <2>4. w \in Wallets
      BY <2>3 DEF Wallet, Challenges
    <2>5. /\ walletOf' \in [Users -> Wallets \cup {None}]
          /\ walletOf'[u] = w
          /\ \A v \in Users : v # u => walletOf'[v] = walletOf[v]
      BY <1>1, <1>3, <2>3, <2>4 DEF TypeOK, TablesTypeOK
    <2>6. \A v \in Users : walletOf[v] # w
      BY <1>3 DEF Owners
    <2>7. ASSUME NEW q \in Procs, q # p, at[q] \in HasUser
          PROVE  user[q] # u
      <3>1. Knows(q)
        BY <1>1 DEF Placed
      <3>2. CASE at[q] = "link"
        BY <1>1, <2>7, <3>2 DEF Apart
      <3>3. CASE at[q] \in HasWallet
        <4>1. Wallet(q) \in Wallets
          BY <3>1, <3>3 DEF Knows, HasWallet, HasUser, HasChallenge, Wallet,
                            Challenges
        <4> QED
          BY <2>3, <3>1, <3>3, <4>1 DEF Knows
      <3> QED
        BY <2>7, <3>2, <3>3 DEF HasWallet
    <2>8. TypeOK'
      <3>1. TablesTypeOK'
        BY <1>1, <2>5 DEF TypeOK, TablesTypeOK
      <3>2. LocalsTypeOK'
        BY <1>1, <2>1, <2>2 DEF TypeOK, LocalsTypeOK, Queries
      <3> QED
        BY <3>1, <3>2 DEF TypeOK
    <2>9. Placed'
      <3>1. Knows(p)'
        <4>1. /\ with'[p] \in Challenges
              /\ user'[p] \in members'
              /\ walletOf'[user'[p]] = Wallet(p)'
          BY <1>1, <2>1, <2>3, <2>5 DEF Wallet
        <4>2. at'[p] \notin HasBlock
          BY <2>2 DEF HasBlock
        <4> QED
          BY <2>2, <4>1, <4>2 DEF Knows
      <3>2. members \subseteq Users
        BY <1>1 DEF TypeOK, TablesTypeOK
      <3>3. \A q \in Procs : q # p => Knows(q)'
        BY <1>1, <2>1, <2>2, <2>5, <2>7, <3>2, OthersKnow
      <3> QED
        BY <1>1, <2>1, <3>1, <3>3 DEF Placed
    <2>10. Accounts' /\ Linked'
      <3>1. Linked'
        BY <1>1 DEF IInv, Linked, Follows
      <3>2. Accounts'
        BY <1>1, <2>3, <2>5, <2>6 DEF Accounts
      <3> QED
        BY <3>1, <3>2
    <2>11. Drafted'
      BY <1>1, <2>1, <2>2 DEF Drafted, Follows, EventOf, Registers
    <2>12. ASSUME NEW q \in Procs, q # p, Joining(q)'
           PROVE  Joining(q) /\ user'[q] = user[q] /\ user[q] # u
      BY <2>1, <2>2, <2>7, <2>12 DEF Joining, Registers, HasUser
    <2>13. Apart'
      BY <1>1, <2>1, <2>2, <2>12 DEF Apart, Joining
    <2>14. Joined'
      <3>1. ASSUME NEW b \in blocks, b.event = "JOINED"
            PROVE  b.user \in Users /\ walletOf'[b.user] # None /\ b.user # u
        BY <1>1, <2>3, <2>5, <3>1 DEF Joined
      <3>2. ASSUME NEW q \in Procs, Joining(q)', NEW b \in blocks,
                   b.event = "JOINED"
            PROVE  b.user # user'[q]
        BY <1>1, <2>1, <2>12, <3>1, <3>2 DEF Joined
      <3> QED
        BY <1>1, <3>1, <3>2 DEF Joined
    <2>15. SessionOnRecord'
      <3>1. \A v \in sessions : v \in Users /\ walletOf'[v] # None
        BY <1>1, <2>3, <2>5 DEF SessionOnRecord, TypeOK, TablesTypeOK
      <3> QED
        BY <1>1, <3>1 DEF SessionOnRecord
    <2> QED
      BY <2>8, <2>9, <2>10, <2>11, <2>13, <2>14, <2>15 DEF IInv
  <1> QED
    BY <1>2, <1>3 DEF LinkWallet

\* A start-up inserted the genesis block, or found it.
LEMMA InsertGenesisKeeps ==
  ASSUME IInv, NEW p \in Procs, InsertGenesis(p)
  PROVE  IInv'
  <1>1. /\ TypeOK /\ Placed /\ Linked /\ Drafted /\ Apart /\ Joined
        /\ SessionOnRecord
        /\ Go(p, "idle") /\ UNCHANGED locals
        /\ UNCHANGED <<members, walletOf, challenge, devices, sessions>>
    BY DEF IInv, InsertGenesis
  <1>2. CASE UNCHANGED blocks
    <2>1. TablesTypeOK' /\ SessionOnRecord'
      BY <1>1, <1>2 DEF TypeOK, TablesTypeOK, SessionOnRecord
    <2> QED
      BY <1>1, <1>2, <2>1, GoKeeps
      DEF IInv, TypeOK, Queries, HasChallenge, HasUser, HasWallet, HasBlock
  <1>3. CASE Insert(Genesis)
    <2>1. blocks' = blocks \cup {Genesis} /\ \A c \in blocks : c.index # 0
      BY <1>3, GenesisIsBlock DEF Insert, Vacant
    <2>2. /\ at' = [at EXCEPT ![p] = "idle"]
          /\ UNCHANGED <<with, user, block, row>>
      BY <1>1 DEF Go, locals
    <2>3. at'[p] = "idle" /\ \A q \in Procs : q # p => at'[q] = at[q]
      BY <1>1, <2>2 DEF TypeOK, LocalsTypeOK
    <2>4. TypeOK'
      <3>1. TablesTypeOK'
        BY <1>1, <2>1, GenesisIsBlock DEF TypeOK, TablesTypeOK
      <3>2. LocalsTypeOK'
        BY <1>1, <2>2, <2>3 DEF TypeOK, LocalsTypeOK, Queries
      <3> QED
        BY <3>1, <3>2 DEF TypeOK
    <2>5. Placed'
      <3>1. Knows(p)'
        BY <2>3 DEF Knows, HasChallenge, HasUser, HasWallet, HasBlock
      <3>2. \A q \in Procs : q # p => Knows(q)'
        BY <1>1, <2>1, <2>2, <2>3, OthersKnow
      <3> QED
        BY <1>1, <2>2, <3>1, <3>2 DEF Placed
    <2>6. Accounts'
      BY <1>1 DEF IInv, Accounts
    <2>7. Linked'
      BY <1>1, <2>1, GenesisIsBlock DEF Linked, Follows
    <2>8. Drafted'
      BY <1>1, <2>1, <2>2, <2>3 DEF Drafted, Follows, EventOf, Registers
    <2>9. Shrinks
      BY <1>1, <2>2, <2>3 DEF Shrinks, Joining, Registers
    <2>10. Joined'
      <3>1. \A b \in blocks' : b.event = "JOINED" => b \in blocks
        BY <2>1, GenesisIsBlock
      <3>2. \A q \in Procs : Joining(q)' => Joining(q) /\ user'[q] = user[q]
        BY <2>9 DEF Shrinks
      <3> QED
        BY <1>1, <2>1, <3>1, <3>2 DEF Joined
    <2>11. SessionOnRecord'
      BY <1>1, <2>1 DEF SessionOnRecord
    <2> QED
      BY <1>1, <2>4, <2>5, <2>6, <2>7, <2>8, <2>9, <2>10, <2>11,
         ShrinksKeepsApart DEF IInv
  <1> QED
    BY <1>2, <1>3 DEF InsertGenesis

\* createBlock inserted its block, or was overtaken.
LEMMA AppendBlockKeeps ==
  ASSUME IInv, NEW p \in Procs, AppendBlock(p)
  PROVE  IInv'
  <1>1. /\ TypeOK /\ Placed /\ Linked /\ Drafted /\ Apart /\ Joined
        /\ SessionOnRecord
        /\ at[p] = "append" /\ Knows(p)
        /\ UNCHANGED <<members, walletOf, challenge, devices, sessions>>
    BY DEF IInv, AppendBlock, Placed
  <1>2. CASE Done(p) /\ UNCHANGED blocks
    <2>1. TablesTypeOK' /\ SessionOnRecord'
      BY <1>1, <1>2 DEF TypeOK, TablesTypeOK, SessionOnRecord
    <2> QED
      BY <1>1, <1>2, <2>1, DoneKeeps DEF IInv, TypeOK
  <1>3. CASE /\ Insert(block[p])
             /\ Go(p, "count")
             /\ block' = [block EXCEPT ![p] = None]
             /\ UNCHANGED <<with, user, row>>
    <2> DEFINE b == block[p]
    <2>1. blocks' = blocks \cup {b} /\ \A c \in blocks : c.index # b.index
      BY <1>3 DEF Insert, Vacant
    <2>2. at' = [at EXCEPT ![p] = "count"]
      BY <1>3 DEF Go
    <2>3. /\ at'[p] = "count"
          /\ \A q \in Procs : q # p => at'[q] = at[q] /\ block'[q] = block[q]
      BY <1>1, <1>3, <2>2 DEF TypeOK, LocalsTypeOK, Placed
    <2>4. /\ IsBlock(b) /\ Follows(b)
          /\ b.user = user[p] /\ b.event = EventOf(p)
      BY <1>1 DEF TypeOK, LocalsTypeOK, Drafted
    <2>5. /\ with[p] \in Challenges
          /\ user[p] \in members /\ user[p] \in Users
          /\ walletOf[user[p]] = Wallet(p) /\ Wallet(p) # None
      BY <1>1 DEF Knows, HasChallenge, HasUser, HasWallet, TypeOK,
                  TablesTypeOK, Wallet, Challenges
    <2>6. TypeOK'
      <3>1. TablesTypeOK'
        BY <1>1, <2>1, <2>4 DEF TypeOK, TablesTypeOK
      <3>2. LocalsTypeOK'
        BY <1>1, <1>3, <2>2, <2>3 DEF TypeOK, LocalsTypeOK, Queries
      <3> QED
        BY <3>1, <3>2 DEF TypeOK
    <2>7. Placed'
      <3>1. Knows(p)'
        <4>1. /\ with'[p] \in Challenges
              /\ user'[p] \in members'
              /\ walletOf'[user'[p]] = Wallet(p)'
          BY <1>1, <1>3, <2>5 DEF Wallet
        <4>2. OnRecord(user[p])'
          BY <1>3, <2>1, <2>4 DEF OnRecord, EventOf
        <4> QED
          BY <2>3, <4>1, <4>2 DEF Knows
      <3>2. \A q \in Procs : q # p => Knows(q)'
        BY <1>1, <1>3, <2>1, <2>3, OthersKnow
      <3>3. block' = [q \in Procs |-> block'[q]]
        BY <1>1, <1>3 DEF Placed
      <3> QED
        BY <3>1, <3>2, <3>3 DEF Placed
    <2>8. Accounts'
      BY <1>1 DEF IInv, Accounts
    <2>9. Linked'
      <3>1. \E c \in blocks' : c.index + 1 = b.index /\ b.previous = c.hash
        BY <2>1, <2>4 DEF Follows
      <3> QED
        BY <1>1, <2>1, <3>1 DEF Linked, Follows
    <2>10. Drafted'
      BY <1>1, <1>3, <2>1, <2>3 DEF Drafted, Follows, EventOf, Registers
    <2>11. ASSUME NEW q \in Procs, Joining(q)'
           PROVE  q # p /\ Joining(q) /\ user'[q] = user[q]
      BY <1>3, <2>3, <2>11 DEF Joining, Registers
    <2>12. Shrinks
      BY <1>3, <2>3, <2>11 DEF Shrinks
    <2>13. Joined'
      <3>1. ASSUME NEW c \in blocks, c.event = "JOINED", b.event = "JOINED"
            PROVE  c.user # b.user
        <4>1. Joining(p)
          BY <1>1, <2>4, <3>1 DEF Joining, EventOf
        <4> QED
          BY <1>1, <2>4, <3>1, <4>1 DEF Joined
      <3>2. ASSUME NEW q \in Procs, Joining(q)', b.event = "JOINED"
            PROVE  b.user # user'[q]
        <4>1. Joining(p)
          BY <1>1, <2>4, <3>2 DEF Joining, EventOf
        <4> QED
          BY <1>1, <2>4, <2>11, <3>2, <4>1 DEF Apart
      <3>3. ASSUME NEW q \in Procs, Joining(q)', NEW c \in blocks,
                   c.event = "JOINED"
            PROVE  c.user # user'[q]
        BY <1>1, <2>11, <3>3 DEF Joined
      <3>4. /\ b.user \in Users /\ walletOf[b.user] # None
            /\ UNCHANGED walletOf
        BY <1>1, <2>4, <2>5
      <3>5. \A c \in blocks' : c.event = "JOINED" =>
              c.user \in Users /\ walletOf'[c.user] # None
        BY <1>1, <2>1, <3>4 DEF Joined
      <3>6. \A c, d \in blocks' :
              c.event = "JOINED" /\ d.event = "JOINED" /\ c.user = d.user
              => c = d
        BY <1>1, <2>1, <3>1 DEF Joined
      <3>7. \A q \in Procs : Joining(q)' =>
              \A c \in blocks' : c.event = "JOINED" => c.user # user'[q]
        BY <2>1, <3>2, <3>3
      <3> QED
        BY <3>5, <3>6, <3>7 DEF Joined
    <2>14. SessionOnRecord'
      BY <1>1, <2>1 DEF SessionOnRecord
    <2> QED
      BY <1>1, <2>6, <2>7, <2>8, <2>9, <2>10, <2>12, <2>13, <2>14,
         ShrinksKeepsApart DEF IInv
  <1> QED
    BY <1>2, <1>3 DEF AppendBlock

\* A slot and a token were chosen.
LEMMA PickSlotKeeps ==
  ASSUME IInv, NEW p \in Procs, PickSlot(p)
  PROVE  IInv'
  <1>1. PICK s \in 1 .. MaxSlots + 1, t \in Tokens :
          row' = [row EXCEPT ![p] = [user |-> user[p], slot |-> s, token |-> t]]
    BY DEF PickSlot
  <1>2. /\ TypeOK /\ Placed /\ Drafted /\ Apart /\ SessionOnRecord
        /\ at[p] = "slots" /\ Knows(p)
        /\ at' = [at EXCEPT ![p] = "insert"]
        /\ UNCHANGED <<blocks, members, walletOf, challenge, devices, sessions>>
        /\ UNCHANGED <<with, user, block>>
    BY DEF IInv, PickSlot, Go, tables, Placed
  <1>3. /\ at'[p] = "insert"
        /\ row'[p] = [user |-> user[p], slot |-> s, token |-> t]
        /\ \A q \in Procs : q # p => at'[q] = at[q] /\ row'[q] = row[q]
    BY <1>1, <1>2 DEF TypeOK, LocalsTypeOK
  <1>4. row'[p] \in Rows
    <2>1. user[p] \in Users
      BY <1>2 DEF Knows, HasUser, TypeOK, TablesTypeOK
    <2>2. s \in Nat \ {0}
      OBVIOUS
    <2> QED
      BY <1>3, <2>1, <2>2 DEF Rows
  <1>5. TypeOK' /\ SessionOnRecord'
    <2>1. TablesTypeOK' /\ SessionOnRecord'
      BY <1>2 DEF TypeOK, TablesTypeOK, SessionOnRecord
    <2>2. row' \in [Procs -> Rows \cup {None}]
      BY <1>1, <1>2, <1>3, <1>4 DEF TypeOK, LocalsTypeOK
    <2>3. LocalsTypeOK'
      BY <1>2, <1>3, <2>2 DEF TypeOK, LocalsTypeOK, Queries
    <2> QED
      BY <2>1, <2>3 DEF TypeOK
  <1>6. Placed'
    <2>1. Knows(p)'
      BY <1>2, <1>3, <1>4
      DEF Knows, HasChallenge, HasUser, HasWallet, HasBlock, Wallet, OnRecord
    <2>2. \A q \in Procs : q # p => Knows(q)'
      BY <1>2, <1>3, OthersKnow
    <2> QED
      BY <1>2, <2>1, <2>2 DEF Placed
  <1>7. Drafted'
    BY <1>2, <1>3 DEF Drafted, Follows, EventOf, Registers
  <1>8. Shrinks
    BY <1>2, <1>3 DEF Shrinks, Joining, Registers
  <1> QED
    BY <1>2, <1>5, <1>6, <1>7, <1>8, TablesKeep, ShrinksKeepsApart,
       ShrinksKeepsJoined DEF IInv

\* A device row was inserted, or refused.
LEMMA InsertDeviceKeeps ==
  ASSUME IInv, NEW p \in Procs, InsertDevice(p)
  PROVE  IInv'
  <1>1. /\ TypeOK /\ Placed /\ Drafted /\ Apart /\ SessionOnRecord
        /\ at[p] = "insert" /\ Knows(p)
        /\ UNCHANGED <<blocks, members, walletOf, challenge, sessions>>
    BY DEF IInv, InsertDevice, Placed
  <1>2. row[p] \in Rows
    BY <1>1 DEF Knows
  <1>3. devices' \subseteq devices \cup {row[p]}
    BY DEF InsertDevice
  <1>4. TablesTypeOK' /\ SessionOnRecord'
    BY <1>1, <1>2, <1>3 DEF TypeOK, TablesTypeOK, SessionOnRecord
  <1>5. CASE Done(p)
    BY <1>1, <1>4, <1>5, DoneKeeps DEF IInv, TypeOK
  <1>6. CASE /\ Go(p, "sign in")
             /\ row' = [row EXCEPT ![p] = None]
             /\ UNCHANGED <<with, user, block>>
    <2>1. at' = [at EXCEPT ![p] = "sign in"]
      BY <1>6 DEF Go
    <2>2. /\ at'[p] = "sign in"
          /\ \A q \in Procs : q # p => at'[q] = at[q] /\ row'[q] = row[q]
      BY <1>1, <1>6, <2>1 DEF TypeOK, LocalsTypeOK
    <2>3. LocalsTypeOK'
      BY <1>1, <1>6, <2>1, <2>2 DEF TypeOK, LocalsTypeOK, Queries
    <2>4. Placed'
      <3>1. Knows(p)'
        BY <1>1, <1>6, <2>2
        DEF Knows, HasChallenge, HasUser, HasWallet, HasBlock, Wallet, OnRecord
      <3>2. \A q \in Procs : q # p => Knows(q)'
        BY <1>1, <1>6, <2>2, OthersKnow
      <3> QED
        BY <1>1, <1>6, <3>1, <3>2 DEF Placed
    <2>5. Drafted'
      BY <1>1, <1>6, <2>2 DEF Drafted, Follows, EventOf, Registers
    <2>6. Shrinks
      BY <1>1, <1>6, <2>2 DEF Shrinks, Joining, Registers
    <2> QED
      BY <1>1, <1>4, <2>3, <2>4, <2>5, <2>6, TablesKeep, ShrinksKeepsApart,
         ShrinksKeepsJoined DEF IInv, TypeOK
  <1> QED
    BY <1>5, <1>6 DEF InsertDevice

\* The session began.
LEMMA SignInKeeps ==
  ASSUME IInv, NEW p \in Procs, SignIn(p)
  PROVE  IInv'
  <1>1. /\ TypeOK /\ SessionOnRecord
        /\ at[p] = "sign in" /\ Knows(p) /\ Done(p)
        /\ sessions' = sessions \cup {user[p]}
        /\ UNCHANGED <<blocks, members, walletOf, challenge, devices>>
    BY DEF IInv, SignIn, Placed
  <1>2. /\ user[p] \in Users /\ OnRecord(user[p])
        /\ walletOf[user[p]] # None
    BY <1>1 DEF Knows, HasChallenge, HasUser, HasWallet, HasBlock, TypeOK,
                TablesTypeOK, Wallet, Challenges
  <1>3. TablesTypeOK'
    BY <1>1, <1>2 DEF TypeOK, TablesTypeOK
  <1>4. SessionOnRecord'
    BY <1>1, <1>2 DEF SessionOnRecord, OnRecord
  <1> QED
    BY <1>1, <1>3, <1>4, DoneKeeps DEF IInv, TypeOK

\* The tables are empty at first.
LEMMA InitHasIInv == Init => IInv
  <1> SUFFICES ASSUME Init PROVE IInv
    OBVIOUS
  <1> USE DEF Init
  <1>1. TypeOK
    BY DEF TypeOK, TablesTypeOK, LocalsTypeOK, Queries
  <1>2. Placed
    BY DEF Placed, Knows, HasChallenge, HasUser, HasWallet, HasBlock
  <1>3. Accounts /\ Linked /\ Joined /\ SessionOnRecord
    BY DEF Accounts, Linked, Joined, Joining, SessionOnRecord
  <1>4. Drafted /\ Apart
    BY DEF Drafted, Apart, Joining
  <1> QED
    BY <1>1, <1>2, <1>3, <1>4 DEF IInv

\* Every step keeps the invariant.
LEMMA NextKeepsIInv == IInv /\ [Next]_vars => IInv'
  <1> SUFFICES ASSUME IInv, [Next]_vars PROVE IInv'
    OBVIOUS
  <1>1. ASSUME NEW p \in Procs,
               Verify(p) \/ Account(p) \/ Chain(p) \/ Device(p) \/ SignIn(p)
               \/ Fail(p)
        PROVE  IInv'
    <2>1. CASE Verify(p)
      BY <2>1, FindChallengeKeeps, MarkUsedKeeps DEF Verify
    <2>2. CASE Account(p)
      BY <2>2, LookupToRegisterKeeps, LookupToLoginKeeps, CreateUserKeeps,
         LinkWalletKeeps DEF Account
    <2>3. CASE Chain(p)
      BY <2>3, StartUpKeeps, InsertGenesisKeeps, ReadLatestKeeps,
         AppendBlockKeeps DEF Chain
    <2>4. CASE Device(p)
      BY <2>4, KnownDeviceKeeps, CountDevicesKeeps, PickSlotKeeps,
         InsertDeviceKeeps DEF Device
    <2> QED
      BY <1>1, <2>1, <2>2, <2>3, <2>4, SignInKeeps, FailKeeps
  <1>2. CASE \/ \E c \in Challenges : IssueChallenge(c) \/ Expire(c)
             \/ \E u \in Users : Logout(u)
             \/ \E d \in devices : RemoveDevice(d)
             \/ UNCHANGED vars
    BY <1>2, EnvironmentKeeps
  <1> QED
    BY <1>1, <1>2 DEF Next

-----------------------------------------------------------------------------
(* The theorems.                                                           *)

\* The invariant is inductive: every query of every request keeps it.
THEOREM IInvAlways == Spec => []IInv
  <1> QED
    BY InitHasIInv, NextKeepsIInv, PTL DEF Spec

\* Tables and requests have their types.
THEOREM TypesAlways == Spec => []TypeOK
  <1>1. IInv => TypeOK
    BY DEF IInv
  <1> QED
    BY <1>1, IInvAlways, PTL

\* Whichever writers race, fail or start up at once, verifyBlockchain finds
\* the chain valid.
THEOREM ChainAlwaysVerifies == Spec => []ChainVerifies
  <1>1. IInv => ChainVerifies
    BY LinkedIsValid DEF IInv, TypeOK, TablesTypeOK, ChainVerifies
  <1> QED
    BY <1>1, IInvAlways, PTL

\* A wallet joins the network once.
THEOREM WalletJoinsOnce == Spec => []JoinedOnce
  <1>1. IInv => JoinedOnce
    <2> SUFFICES ASSUME IInv, NEW b \in blocks, NEW c \in blocks,
                        b.event = "JOINED", c.event = "JOINED",
                        walletOf[b.user] = walletOf[c.user]
                 PROVE  b = c
      BY DEF JoinedOnce
    <2>1. b.user \in Users /\ c.user \in Users /\ walletOf[b.user] # None
      BY DEF IInv, Joined
    <2>2. b.user = c.user
      BY <2>1 DEF IInv, Accounts
    <2> QED
      BY <2>2 DEF IInv, Joined
  <1> QED
    BY <1>1, IInvAlways, PTL

\* Who has a session has a wallet, and a block that says so.
THEOREM SessionsOnRecord == Spec => []SessionOnRecord
  <1>1. IInv => SessionOnRecord
    BY DEF IInv
  <1> QED
    BY <1>1, IInvAlways, PTL

\* An account keeps its wallet, and no other account ever gets it.
THEOREM WalletAlwaysStays == Spec => WalletStays
  <1> DEFINE Kept == \A u \in Users : walletOf[u] # None =>
                       /\ walletOf'[u] = walletOf[u]
                       /\ \A v \in Users \ {u} : walletOf'[v] # walletOf[u]
  <1>1. IInv /\ [Next]_vars => [Kept]_vars
    <2> SUFFICES ASSUME IInv, Next PROVE Kept
      OBVIOUS
    <2>1. CASE UNCHANGED walletOf
      BY <2>1 DEF IInv, Accounts
    <2>2. CASE \E p \in Procs : LinkWallet(p)
      <3>1. PICK p \in Procs : LinkWallet(p)
        BY <2>2
      <3>2. CASE UNCHANGED walletOf
        BY <3>2 DEF IInv, Accounts
      <3>3. CASE /\ Owners(Wallet(p)) = {}
                 /\ walletOf' = [walletOf EXCEPT ![user[p]] = Wallet(p)]
        <4>1. walletOf[user[p]] = None /\ walletOf \in [Users -> Wallets \cup {None}]
          BY <3>1 DEF IInv, Placed, Knows, LinkWallet, TypeOK, TablesTypeOK
        <4>2. \A v \in Users : walletOf[v] # Wallet(p)
          BY <3>3 DEF Owners
        <4> QED
          BY <3>3, <4>1, <4>2 DEF IInv, Accounts
      <3> QED
        BY <3>1, <3>2, <3>3 DEF LinkWallet
    <2>3. (\E p \in Procs : LinkWallet(p)) \/ UNCHANGED walletOf
      BY DEF Next, Verify, Account, Chain, Device, FindChallenge, MarkUsed,
             LookupToRegister, LookupToLogin, CreateUser, StartUp,
             InsertGenesis, ReadLatest, AppendBlock, KnownDevice,
             CountDevices, PickSlot, InsertDevice, SignIn, Fail,
             IssueChallenge, Expire, Logout, RemoveDevice, tables
    <2> QED
      BY <2>1, <2>2, <2>3
  <1> QED
    BY <1>1, IInvAlways, PTL DEF Spec, WalletStays

-----------------------------------------------------------------------------
(* The devices.  What a request counted is stale when it inserts; that the *)
(* rows of a user still fit the slots rests on the table's constraints.    *)

\* The primary key and the range of the slots.
OneRowASlot ==
  /\ \A d \in devices : d.slot <= MaxSlots
  /\ \A d, e \in devices : d.user = e.user /\ d.slot = e.slot => d = e

\* Rows that do not share a slot are no more than there are slots.
LEMMA RowsFitSlots ==
  ASSUME devices \subseteq Rows, OneRowASlot, NEW u
  PROVE  Cardinality(DevicesOf(u)) <= MaxSlots
  <1> DEFINE slotOf == [d \in DevicesOf(u) |-> d.slot]
  <1>1. slotOf \in Injection(DevicesOf(u), 1 .. MaxSlots)
    <2>1. \A d \in DevicesOf(u) : d.slot \in 1 .. MaxSlots
      BY BoundAssumption DEF OneRowASlot, Rows, DevicesOf
    <2>2. \A d, e \in DevicesOf(u) : slotOf[d] = slotOf[e] => d = e
      BY DEF OneRowASlot, DevicesOf
    <2> QED
      BY <2>1, <2>2 DEF Injection, IsInjective
  <1>2. IsFiniteSet(1 .. MaxSlots) /\ Cardinality(1 .. MaxSlots) = MaxSlots
    BY FS_Interval, BoundAssumption
  <1>3. Cardinality(DevicesOf(u)) <= Cardinality(1 .. MaxSlots)
    BY <1>1, <1>2, FS_Injection
  <1> QED
    BY <1>2, <1>3

\* A step inserts a row that the constraints admit, or no row.
LEMMA NextTouchesDevices ==
  ASSUME Next
  PROVE  \/ devices' \subseteq devices
         \/ \E p \in Procs : /\ Insertable(row[p])
                             /\ devices' = devices \cup {row[p]}
  <1> DEFINE Quiet == UNCHANGED devices
  <1>1. ASSUME NEW p \in Procs, Verify(p) \/ Account(p)
        PROVE  Quiet
    BY <1>1, Zenon DEF Verify, FindChallenge, MarkUsed, Account, LookupToRegister,
       LookupToLogin, CreateUser, LinkWallet, tables
  <1>2. ASSUME NEW p \in Procs, Chain(p)
        PROVE  Quiet
    BY <1>2, Zenon DEF Chain, StartUp, InsertGenesis, ReadLatest, AppendBlock, tables
  <1>3. ASSUME NEW p \in Procs,
               KnownDevice(p) \/ CountDevices(p) \/ PickSlot(p)
        PROVE  Quiet
    BY <1>3, Zenon DEF KnownDevice, CountDevices, PickSlot, tables
  <1>4. ASSUME NEW p \in Procs, SignIn(p) \/ Fail(p)
        PROVE  Quiet
    BY <1>4, Zenon DEF SignIn, Fail, tables
  <1>5. ASSUME NEW p \in Procs, InsertDevice(p)
        PROVE  Quiet \/ (Insertable(row[p]) /\ devices' = devices \cup {row[p]})
    BY <1>5, Zenon DEF InsertDevice
  <1>6. ASSUME NEW c \in Challenges, IssueChallenge(c) \/ Expire(c)
        PROVE  Quiet
    BY <1>6, Zenon DEF IssueChallenge, Expire
  <1>7. ASSUME NEW u \in Users, Logout(u)
        PROVE  Quiet
    BY <1>7, Zenon DEF Logout
  <1>8. ASSUME NEW d \in devices, RemoveDevice(d)
        PROVE  devices' \subseteq devices
    BY <1>8 DEF RemoveDevice
  <1>9. Quiet => devices' \subseteq devices
    OBVIOUS
  <1> QED
    BY <1>1, <1>2, <1>3, <1>4, <1>5, <1>6, <1>7, <1>8, <1>9, Zenon
       DEF Next, Device

\* No step puts two rows in one slot.
LEMMA OneRowASlotAlways == Spec => []OneRowASlot
  <1>1. Init => OneRowASlot
    BY DEF Init, OneRowASlot
  <1>2. IInv /\ OneRowASlot /\ [Next]_vars => OneRowASlot'
    <2> SUFFICES ASSUME IInv, OneRowASlot, [Next]_vars
                 PROVE  OneRowASlot'
      OBVIOUS
    <2>1. CASE devices' \subseteq devices
      BY <2>1 DEF OneRowASlot
    <2>2. ASSUME NEW p \in Procs, Insertable(row[p]),
                 devices' = devices \cup {row[p]}
          PROVE  OneRowASlot'
      BY <2>2 DEF OneRowASlot, Insertable
    <2>3. CASE Next
      BY <2>1, <2>2, <2>3, NextTouchesDevices
    <2>4. CASE UNCHANGED vars
      BY <2>1, <2>4 DEF vars
    <2> QED
      BY <2>3, <2>4
  <1> QED
    BY <1>1, <1>2, IInvAlways, PTL DEF Spec

\* A user never has more devices than slots, whichever requests counted the
\* devices before another inserted one (deviceService.js: addNewDevice).
THEOREM DevicesFitSlots == Spec => []WithinSlots
  <1>1. IInv /\ OneRowASlot => WithinSlots
    BY RowsFitSlots, Zenon DEF IInv, TypeOK, TablesTypeOK, WithinSlots, DevicesOf
  <1> QED
    BY <1>1, IInvAlways, OneRowASlotAlways, PTL

-----------------------------------------------------------------------------
(* The chain only grows, as AppendOnlyChain says.  A writer that was not   *)
(* overtaken has built on the last row: with no index missing below any    *)
(* row, the index it inserts is vacant only if nothing comes after.        *)

\* No index is missing below a row, and a row comes after as many others as
\* its index says.
NoGap ==
  /\ IsFiniteSet(blocks)
  /\ \A b \in blocks : \A i \in 0 .. b.index : ~Vacant(i)
  /\ \A b \in blocks : Cardinality(Before(b)) = b.index

\* What an INSERT is given: the genesis block, or the successor of a row.
Fits(b) == IsBlock(b) /\ (b.index = 0 \/ Follows(b))

\* A row that fits goes at the end: all the others come before it.
LEMMA InsertedIsLast ==
  ASSUME IInv, NoGap, NEW b, Fits(b), Vacant(b.index)
  PROVE  /\ \A c \in blocks : c.index < b.index
         /\ b.index = Cardinality(blocks)
  <1>1. \A c \in blocks : c.index \in Nat
    BY DEF IInv, TypeOK, TablesTypeOK, IsBlock
  <1>2. b.index \in Nat
    BY DEF Fits, IsBlock
  <1>3. ASSUME NEW c \in blocks
        PROVE  c.index < b.index
    <2>1. ~(b.index \in 0 .. c.index)
      BY <1>3 DEF NoGap
    <2> QED
      BY <1>1, <1>2, <2>1
  <1>4. CASE b.index = 0
    <2>1. blocks = {}
      BY <1>1, <1>3, <1>4
    <2> QED
      BY <1>3, <1>4, <2>1, FS_EmptySet
  <1>5. CASE Follows(b)
    <2>1. PICK c \in blocks : c.index + 1 = b.index
      BY <1>5 DEF Follows
    <2>2. blocks = Before(c) \cup {c} /\ c \notin Before(c)
      <3>1. ASSUME NEW d \in blocks, d \notin Before(c)
            PROVE  d = c
        <4>1. d.index = c.index
          BY <1>1, <1>3, <2>1, <3>1 DEF Before
        <4> QED
          BY <4>1 DEF IInv, Linked
      <3> QED
        BY <1>1, <3>1 DEF Before
    <2>3. IsFiniteSet(Before(c)) /\ Cardinality(Before(c)) = c.index
      BY FS_Subset DEF NoGap, Before
    <2>4. Cardinality(blocks) = c.index + 1
      BY <2>2, <2>3, FS_AddElement
    <2> QED
      BY <1>3, <2>1, <2>4
  <1> QED
    BY <1>4, <1>5 DEF Fits

\* So nothing comes to be missing.
LEMMA InsertKeepsNoGap ==
  ASSUME IInv, NoGap, NEW b, Fits(b), Insert(b)
  PROVE  NoGap'
  <1>1. /\ \A c \in blocks : c.index < b.index /\ c.index \in Nat
        /\ b.index = Cardinality(blocks)
        /\ b.index \in Nat
        /\ blocks' = blocks \cup {b}
    BY InsertedIsLast DEF Insert, IInv, TypeOK, TablesTypeOK, IsBlock, Fits
  <1>2. IsFiniteSet(blocks')
    BY <1>1, FS_AddElement DEF NoGap
  <1>3. ASSUME NEW c \in blocks', NEW i \in 0 .. c.index
        PROVE  ~Vacant(i)'
    <2>1. CASE i = b.index
      BY <1>1, <2>1 DEF Vacant
    <2>2. CASE c \in blocks
      BY <1>1, <1>3, <2>2 DEF NoGap, Vacant
    <2>3. CASE c = b /\ i # b.index
      <3>1. Follows(b)
        BY <1>1, <1>3, <2>3 DEF Fits
      <3>2. PICK d \in blocks : d.index + 1 = b.index
        BY <3>1 DEF Follows
      <3>3. i \in 0 .. d.index
        BY <1>1, <1>3, <2>3, <3>2
      <3> QED
        BY <1>1, <3>3 DEF NoGap, Vacant
    <2> QED
      BY <1>1, <2>1, <2>2, <2>3
  <1>4. ASSUME NEW c \in blocks'
        PROVE  Cardinality(Before(c)') = c.index
    <2>1. CASE c \in blocks
      <3>1. Before(c)' = Before(c)
        BY <1>1, <2>1 DEF Before
      <3> QED
        BY <2>1, <3>1 DEF NoGap
    <2>2. CASE c = b
      <3>1. Before(c)' = blocks
        BY <1>1, <2>2 DEF Before
      <3> QED
        BY <1>1, <2>2, <3>1
    <2> QED
      BY <1>1, <2>1, <2>2
  <1> QED
    BY <1>2, <1>3, <1>4 DEF NoGap

\* The rows by their index.
Listed(B) ==
  [i \in 1 .. Cardinality(B) |-> {b.hash : b \in {c \in B : c.index = i - 1}}]

LEMMA ListedIsSeq ==
  ASSUME NEW B, IsFiniteSet(B)
  PROVE  /\ Listed(B) \in [1 .. Cardinality(B) -> SUBSET {b.hash : b \in B}]
         /\ Listed(B) \in Seq(SUBSET {b.hash : b \in B})
         /\ Len(Listed(B)) = Cardinality(B)
         /\ Cardinality(B) \in Nat
  <1> DEFINE n == Cardinality(B)
             S == SUBSET {b.hash : b \in B}
  <1>1. n \in Nat
    BY FS_CardinalityType
  <1>2. Listed(B) \in [1 .. n -> S]
    BY DEF Listed
  <1> HIDE DEF n, S
  <1>3. Listed(B) \in Seq(S) /\ Len(Listed(B)) = n
    BY <1>1, <1>2
  <1> QED
    BY <1>1, <1>2, <1>3 DEF n, S

\* One more row at the end leaves the rows before it where they are, and its
\* hash is listed at none of their places: a hash is computed from its index.
LEMMA ListedGrows ==
  ASSUME NEW B, IsFiniteSet(B), \A c \in B : IsBlock(c),
         NEW b, IsBlock(b), b.index = Cardinality(B),
         \A c \in B : c.index < b.index
  PROVE  /\ Len(Listed(B \cup {b})) = Len(Listed(B)) + 1
         /\ \A i \in DOMAIN Listed(B) :
              /\ Listed(B \cup {b})[i] = Listed(B)[i]
              /\ Listed(B)[i] # Listed(B \cup {b})[Len(Listed(B)) + 1]
  <1> DEFINE n == Cardinality(B)
             C == B \cup {b}
             old == Listed(B)
             new == Listed(C)
  <1>1. n \in Nat /\ b \notin B
    BY FS_CardinalityType
  <1>2. IsFiniteSet(C) /\ Cardinality(C) = n + 1
    BY <1>1, FS_AddElement
  <1>3. Len(old) = n /\ DOMAIN old = 1 .. n
    BY ListedIsSeq DEF Listed
  <1>4. Len(new) = n + 1
    BY <1>2, ListedIsSeq
  <1>5. ASSUME NEW i \in 1 .. n
        PROVE  /\ new[i] = {c.hash : c \in {d \in C : d.index = i - 1}}
               /\ old[i] = {c.hash : c \in {d \in B : d.index = i - 1}}
    <2>1. i \in 1 .. n + 1
      BY <1>1, <1>5
    <2> QED
      BY <1>2, <1>5, <2>1 DEF Listed
  <1>6. ASSUME NEW i \in 1 .. n
        PROVE  new[i] = old[i]
    <2>1. {d \in C : d.index = i - 1} = {d \in B : d.index = i - 1}
      BY <1>1, <1>6
    <2> QED
      BY <1>5, <1>6, <2>1
  <1>7. b.hash \in new[n + 1]
    <2>1. new[n + 1] = {c.hash : c \in {d \in C : d.index = (n + 1) - 1}}
      BY <1>1, <1>2 DEF Listed
    <2>2. b \in {d \in C : d.index = (n + 1) - 1}
      BY <1>1
    <2> QED
      BY <2>1, <2>2
  <1>8. ASSUME NEW i \in 1 .. n
        PROVE  b.hash \notin old[i]
    <2>1. ASSUME NEW c \in B
          PROVE  c.hash # b.hash
      <3>1. ASSUME NEW d, IsBlock(d)
            PROVE  d.hash = Hash(d)
        BY <3>1 DEF IsBlock, Sealed
      <3>2. c.index \in Nat /\ b.index \in Nat /\ c.index # b.index
        BY <2>1 DEF IsBlock
      <3>3. Hash(c) # Hash(b)
        BY <3>2 DEF Hash
      <3> QED
        BY <2>1, <3>1, <3>3
    <2> QED
      BY <1>5, <1>8, <2>1
  <1> HIDE DEF n, C, old, new
  <1>9. ASSUME NEW i \in DOMAIN old
        PROVE  new[i] = old[i] /\ old[i] # new[Len(old) + 1]
    BY <1>3, <1>6, <1>7, <1>8, <1>9
  <1> QED
    BY <1>3, <1>4, <1>9 DEF C, old, new

\* An INSERT adds one entry at the end of the list and changes no other.
LEMMA InsertGrows ==
  ASSUME IInv, NoGap, NEW b, Fits(b), Insert(b)
  PROVE  L!Extend
  <1>1. /\ blocks' = blocks \cup {b}
        /\ b.index = Cardinality(blocks)
        /\ \A c \in blocks : c.index < b.index
    BY InsertedIsLast DEF Insert
  <1>2. InOrder = Listed(blocks)
    BY DEF NoGap, InOrder, Listed
  <1>3. InOrder' = Listed(blocks')
    BY InsertKeepsNoGap DEF NoGap, InOrder, Listed
  <1>4. IsBlock(b) /\ \A c \in blocks : IsBlock(c)
    BY DEF Fits, IInv, TypeOK, TablesTypeOK
  <1>5. IsFiniteSet(blocks)
    BY DEF NoGap
  <1> QED
    BY <1>1, <1>2, <1>3, <1>4, <1>5, ListedGrows
    DEF L!Extend, L!Settled, L!NewAtEnd

\* A step inserts a row that fits, or no row.
LEMMA NextTouchesBlocks ==
  ASSUME IInv, [Next]_vars
  PROVE  UNCHANGED blocks \/ \E b : Fits(b) /\ Insert(b)
  <1>1. ASSUME NEW p \in Procs, InsertGenesis(p)
        PROVE  UNCHANGED blocks \/ (Fits(Genesis) /\ Insert(Genesis))
    BY <1>1, GenesisIsBlock DEF InsertGenesis, Fits
  <1>2. ASSUME NEW p \in Procs, AppendBlock(p)
        PROVE  UNCHANGED blocks \/ (Fits(block[p]) /\ Insert(block[p]))
    <2>1. IsBlock(block[p]) /\ Follows(block[p])
      BY <1>2 DEF AppendBlock, IInv, TypeOK, LocalsTypeOK, Drafted
    <2> QED
      BY <1>2, <2>1, Zenon DEF AppendBlock, Fits
  <1>3. ASSUME NEW p \in Procs, Verify(p) \/ Account(p)
        PROVE  UNCHANGED blocks
    BY <1>3, Zenon DEF Verify, FindChallenge, MarkUsed, Account, LookupToRegister,
       LookupToLogin, CreateUser, LinkWallet, tables
  <1>4. ASSUME NEW p \in Procs, StartUp(p) \/ ReadLatest(p)
        PROVE  UNCHANGED blocks
    BY <1>4, Zenon DEF StartUp, ReadLatest, tables
  <1>5. ASSUME NEW p \in Procs, Device(p)
        PROVE  UNCHANGED blocks
    BY <1>5, Zenon DEF Device, KnownDevice, CountDevices, PickSlot, InsertDevice,
       tables
  <1>6. ASSUME NEW p \in Procs, SignIn(p) \/ Fail(p)
        PROVE  UNCHANGED blocks
    BY <1>6, Zenon DEF SignIn, Fail, tables
  <1>7. ASSUME \/ \E c \in Challenges : IssueChallenge(c) \/ Expire(c)
               \/ \E u \in Users : Logout(u)
               \/ \E d \in devices : RemoveDevice(d)
               \/ UNCHANGED vars
        PROVE  UNCHANGED blocks
    BY <1>7, Zenon DEF IssueChallenge, Expire, Logout, RemoveDevice, vars
  <1> QED
    BY <1>1, <1>2, <1>3, <1>4, <1>5, <1>6, <1>7, Zenon DEF Next, Chain

LEMMA NoGapAlways == Spec => []NoGap
  <1>1. Init => NoGap
    BY FS_EmptySet DEF Init, NoGap
  <1>2. IInv /\ NoGap /\ [Next]_vars => NoGap'
    <2> SUFFICES ASSUME IInv, NoGap, [Next]_vars
                 PROVE  NoGap'
      OBVIOUS
    <2>1. CASE UNCHANGED blocks
      BY <2>1 DEF NoGap, Vacant, Before
    <2>2. ASSUME NEW b, Fits(b), Insert(b)
          PROVE  NoGap'
      BY <2>2, InsertKeepsNoGap
    <2> QED
      BY <2>1, <2>2, NextTouchesBlocks
  <1> QED
    BY <1>1, <1>2, IInvAlways, PTL DEF Spec

\* The chain implements the append-only list: each of the portal's steps adds
\* one block at the end or leaves the list as it is, whichever start-ups and
\* writers raced for the index (blockchainService.js: createBlock).
THEOREM ChainIsAppendOnly == Spec => AppendOnlySpec
  <1>1. Init => L!Init
    <2> SUFFICES ASSUME Init
                 PROVE  InOrder = <<>>
      BY DEF L!Init
    <2>1. Cardinality(blocks) = 0
      BY FS_EmptySet DEF Init
    <2> QED
      BY <2>1 DEF InOrder
  <1>2. IInv /\ NoGap /\ [Next]_vars => [L!Extend]_InOrder
    <2> SUFFICES ASSUME IInv, NoGap, [Next]_vars
                 PROVE  L!Extend \/ UNCHANGED InOrder
      OBVIOUS
    <2>1. CASE UNCHANGED blocks
      BY <2>1 DEF InOrder, Before
    <2>2. ASSUME NEW b, Fits(b), Insert(b)
          PROVE  L!Extend
      BY <2>2, InsertGrows
    <2> QED
      BY <2>1, <2>2, NextTouchesBlocks
  <1> QED
    BY <1>1, <1>2, IInvAlways, NoGapAlways, PTL DEF Spec, AppendOnlySpec, L!Spec
=============================================================================
