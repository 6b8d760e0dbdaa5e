---------------------------- MODULE PairingsProofs ------------------------
(***************************************************************************)
(* For any number of daemons and clients, any network and any range: the   *)
(* table of leases stays well typed, two clients of a daemon hold the same *)
(* address only in different spellings, and a lease is never swapped.      *)
(* UniqueInTable is inductive with TypeOK.  What a grant needs is that the *)
(* text it hands out is in nobody's hands, which the first lemma says of   *)
(* the two ways to choose one.                                             *)
(*                                                                         *)
(* The second part is about the portal that asks for those leases: the     *)
(* records of a device agree again after a request that ran alone.         *)
(***************************************************************************)
EXTENDS Pairings, TLAPS

\* In terms of texts, which is what the daemon compares.
UniqueInTable ==
  \A d \in Daemons : \A b, c \in ClientIds :
    leases[d][c] # None =>
      /\ leases[d][c] # Gateway
      /\ leases[d][c].host \in Range
      /\ leases[d][b] = leases[d][c] => b = c

\* An address of the range that nobody holds.
Fresh(d, text) ==
  /\ text \in Texts
  /\ text \notin Used(d)
  /\ text # Gateway
  /\ text.host \in Range

LEMMA AcceptableIsFresh ==
  \A d \in Daemons : \A text \in Texts \cup {None} :
    Acceptable(d, text) => Fresh(d, text)
  BY DEF Acceptable, Fresh

LEMMA LowestIsFresh ==
  \A d \in Daemons : \A i \in LowestFree(d) : Fresh(d, Plain(i))
  <1> SUFFICES ASSUME NEW d \in Daemons, NEW i \in LowestFree(d)
               PROVE  Fresh(d, Plain(i))
    OBVIOUS
  <1>1. i \in Range /\ Plain(i) # Gateway /\ Plain(i) \notin Used(d)
    BY DEF LowestFree, Free
  <1>2. Plain(i) \in Texts /\ Plain(i).host = i
    BY <1>1, NetAssumption, RangeAssumption DEF Plain, Texts, Range
  <1> QED
    BY <1>1, <1>2 DEF Fresh

LEMMA RequestsAreTexts == Requests \subseteq Texts \cup {None}
  BY RangeAssumption DEF Requests, Texts

\* A step grants one client a free address, ends one lease or ends all of a
\* daemon's.
LEMMA StepCases ==
  ASSUME TypeOK, Next
  PROVE  \/ \E d \in Daemons : \E c \in ClientIds : \E text \in Texts :
              leases[d][c] = None /\ Fresh(d, text) /\ Grant(d, c, text)
         \/ \E d \in Daemons : \E c \in ClientIds : Release(d, c)
         \/ \E d \in Daemons : TornWrite(d)
  <1>1. ASSUME NEW d \in Daemons, NEW c \in ClientIds, NEW text \in Requests,
               Allocate(d, c, text)
        PROVE  \E given \in Texts :
                 leases[d][c] = None /\ Fresh(d, given) /\ Grant(d, c, given)
    <2>1. CASE Acceptable(d, text) /\ Grant(d, c, text)
      <3>1. Fresh(d, text)
        BY <2>1, RequestsAreTexts, AcceptableIsFresh
      <3>2. text \in Texts
        BY <3>1 DEF Fresh
      <3> QED
        BY <1>1, <2>1, <3>1, <3>2 DEF Allocate
    <2>2. CASE \E i \in LowestFree(d) : Grant(d, c, Plain(i))
      <3>1. PICK i \in LowestFree(d) : Grant(d, c, Plain(i))
        BY <2>2
      <3>2. Fresh(d, Plain(i)) /\ Plain(i) \in Texts
        BY LowestIsFresh DEF Fresh
      <3> QED
        BY <1>1, <3>1, <3>2 DEF Allocate
    <2> QED
      BY <1>1, <2>1, <2>2 DEF Allocate
  <1> QED
    BY <1>1 DEF Next

LEMMA InductiveStep ==
  ASSUME TypeOK, UniqueInTable, [Next]_vars
  PROVE  TypeOK' /\ UniqueInTable'
  <1>1. CASE UNCHANGED vars
    BY <1>1 DEF vars, TypeOK, UniqueInTable
  <1>2. ASSUME NEW d \in Daemons, NEW c \in ClientIds, NEW text \in Texts,
               leases[d][c] = None, Fresh(d, text), Grant(d, c, text)
        PROVE  TypeOK' /\ UniqueInTable'
    <2>1. TypeOK'
      BY <1>2 DEF Grant, TypeOK
    <2>2. text # None
      BY NoneAssumption
    <2>3. \A b \in ClientIds : leases[d][b] # text
      BY <1>2, <2>2 DEF Used, Fresh
    <2>4. UniqueInTable'
      BY <1>2, <2>2, <2>3 DEF Grant, TypeOK, UniqueInTable, Fresh
    <2> QED
      BY <2>1, <2>4
  <1>3. ASSUME NEW d \in Daemons, NEW c \in ClientIds, Release(d, c)
        PROVE  TypeOK' /\ UniqueInTable'
    BY <1>3 DEF Release, TypeOK, UniqueInTable
  <1>4. ASSUME NEW d \in Daemons, TornWrite(d)
        PROVE  TypeOK' /\ UniqueInTable'
    BY <1>4 DEF TornWrite, TypeOK, UniqueInTable
  <1> QED
    BY <1>1, <1>2, <1>3, <1>4, StepCases

LEMMA InductiveInvariant == Spec => [](TypeOK /\ UniqueInTable)
  <1>1. Init => TypeOK /\ UniqueInTable
    BY DEF Init, TypeOK, UniqueInTable
  <1> QED
    BY <1>1, InductiveStep, PTL DEF Spec

\* The table holds texts, one per client at most.
THEOREM TypeCorrect == Spec => []TypeOK
  BY InductiveInvariant, PTL

\* A text is its address and the way that is spelled.
LEMMA TextIs ==
  \A s, t \in Texts :
    Address(s) = Address(t) /\ s.spelling = t.spelling => s = t
  BY DEF Texts, Address

LEMMA TextsGiveAddresses ==
  ASSUME TypeOK, UniqueInTable
  PROVE  SharedOnlyBySpelling
  <1> SUFFICES ASSUME NEW d \in Daemons, NEW b \in ClientIds, NEW c \in ClientIds,
                      leases[d][c] # None
               PROVE  /\ leases[d][c].host \in Range
                      /\ Address(leases[d][c]) = Address(Gateway) =>
                           leases[d][c].spelling # Plainly
                      /\ /\ b # c /\ leases[d][b] # None
                         /\ Address(leases[d][b]) = Address(leases[d][c])
                         => leases[d][b].spelling # leases[d][c].spelling
    BY DEF SharedOnlyBySpelling
  <1>1. leases[d][c] \in Texts /\ leases[d][b] \in Texts \cup {None}
    BY DEF TypeOK
  <1>2. Gateway \in Texts /\ Gateway.spelling = Plainly
    BY NetAssumption, RangeAssumption DEF Gateway, Plain, Texts
  <1>3. /\ leases[d][c] # Gateway /\ leases[d][c].host \in Range
        /\ leases[d][b] = leases[d][c] => b = c
    BY DEF UniqueInTable
  <1> QED
    BY <1>1, <1>2, <1>3, TextIs

\* One address has two holders, or the gateway's has one, only in different
\* spellings, whatever was requested, released or lost.
THEOREM LeasesUnique == Spec => []SharedOnlyBySpelling
  BY InductiveInvariant, TextsGiveAddresses, PTL

\* A client's lease is never swapped for another one.
THEOREM LeasesNeverSwapped == Spec => NeverSwapped
  <1> DEFINE Same ==
        \A d \in Daemons : \A c \in ClientIds :
          leases[d][c] # None => leases'[d][c] \in {leases[d][c], None}
  <1>1. ASSUME TypeOK, [Next]_vars
        PROVE  [Same]_vars
    <2>1. CASE UNCHANGED vars
      BY <2>1
    <2>2. ASSUME NEW d \in Daemons, NEW c \in ClientIds, NEW text \in Texts,
                 leases[d][c] = None, Grant(d, c, text)
          PROVE  Same
      BY <1>1, <2>2 DEF Grant, TypeOK
    <2>3. ASSUME NEW d \in Daemons, NEW c \in ClientIds, Release(d, c)
          PROVE  Same
      BY <1>1, <2>3 DEF Release, TypeOK
    <2>4. ASSUME NEW d \in Daemons, TornWrite(d)
          PROVE  Same
      BY <1>1, <2>4 DEF TornWrite, TypeOK
    <2> HIDE DEF Same
    <2> QED
      BY <1>1, <2>1, <2>2, <2>3, <2>4, StepCases
  <1> QED
    BY <1>1, TypeCorrect, PTL DEF Spec, NeverSwapped

-----------------------------------------------------------------------------
(***************************************************************************)
(* Pairings.  What follows holds for any accounts, keys, tokens, slots and *)
(* any number of requests in progress and of calls that outlive theirs.    *)
(***************************************************************************)

\* Something was written for this id and the request is still under way.
Pending(id) == \E p \in Procs : req[p].id = id /\ Wrote(req[p])
Listed(id) == \E d \in devices : d.id = id

\* device_token is unique.
OneRow == \A d, e \in devices : d.id = e.id => d = e

\* Of two requests about one device neither counts as alone.
NotAlone ==
  \A p, q \in Procs :
    p # q /\ req[p] # Idle /\ req[q] # Idle
      /\ Concerns(req[p]) \cap Concerns(req[q]) # {} => ~req[p].alone

\* A call that outlived its request leaves the token at odds, and nobody alone
\* with it.
Late ==
  \A c \in calls : c.by = None /\ c.id \in Tokens =>
    c.id \in odd /\ \A p \in Procs : req[p].id = c.id => ~req[p].alone

\* Another call is the one its request waits for.
Calling ==
  \A c \in calls : c.by # None =>
    /\ req[c.by].at = "call"
    /\ req[c.by].id = c.id
    /\ req[c.by].op = IF c.op = "allocate" THEN "add" ELSE "remove"

\* What a request that is alone has found and done stays as it was.
AloneSoFar ==
  \A p \in Procs : LET r == req[p] IN
    r.alone =>
      /\ r.op = "bind" /\ r.at # "store" => noiseKey[r.user] = r.id
      /\ r.op = "bind" /\ r.at = "block" => Listed(r.id)
      /\ r.op = "unbind" /\ r.at = "clear" => noiseKey[r.user] = r.id
      /\ r.op = "unbind" /\ r.at \in {"delete", "block"} => noiseKey[r.user] = None
      /\ r.op = "unbind" /\ r.at = "block" => ~Listed(r.id)
      /\ r.op = "add" /\ r.at = "call" => Listed(r.id)
      /\ r.op = "remove" /\ r.at = "call" => ~Listed(r.id)

\* A key that an unbind is about to clear without having read it was stored
\* since, by a request that was not alone.
Overtaken ==
  \A p \in Procs : LET r == req[p] IN
    r.op = "unbind" /\ r.at = "clear" /\ noiseKey[r.user] \notin {r.id, None} =>
      noiseKey[r.user] \in odd \/ Pending(noiseKey[r.user])

Leased ==
  \A t \in Tokens :
    t \in odd \/ Pending(t) \/ (leases[Server][t] # None <=> Listed(t))

Paired ==
  \A u \in Users : \A k \in KeysOf[u] :
    k \in odd \/ Pending(k) \/ (noiseKey[u] = k <=> Listed(k))

Told ==
  \A u \in Users :
    \/ \E k \in KeysOf[u] : k \in odd \/ Pending(k)
    \/ noiseKey[u] # None <=> logged[u] = "bound"

PairingInv ==
  /\ PairingTypeOK /\ OneRow
  /\ NotAlone /\ Late /\ Calling /\ AloneSoFar
  /\ Overtaken /\ Leased /\ Paired /\ Told

LEMMA IdsApart ==
  /\ Tokens \cap Keys = {}
  /\ None \notin Tokens \cup Keys
  /\ Tokens \cup Keys \subseteq ClientIds
  /\ \A u \in Users : KeysOf[u] \subseteq Keys
  /\ \A u, v \in Users : \A k \in KeysOf[u] : k \in KeysOf[v] => u = v
  BY PairingAssumption DEF Keys

\* The shape of a request, for each of its operations.
LEMMA SoundShape ==
  ASSUME NEW r, Sound(r)
  PROVE  /\ r.alone \in BOOLEAN
         /\ r.user \in Users \cup {None}
         /\ r.id \in Tokens \cup Keys \cup {None}
         /\ r # Idle => r.user \in Users /\ r.op # "none" /\ r.at # "idle"
         /\ r.op = "none" => r = Idle
         /\ Idle.id = None /\ Idle.alone /\ ~Wrote(Idle)
         /\ r.op \in {"bind", "add"} => r.id # None
         /\ Wrote(r) => r # Idle /\ r.id \in Concerns(r)
  <1>1. /\ Idle.op = "none" /\ Idle.at = "idle" /\ Idle.user = None
        /\ Idle.id = None /\ Idle.alone = TRUE /\ ~Wrote(Idle)
    BY DEF Idle, Request, Wrote
  <1>2. CASE r = Idle
    BY <1>1, <1>2
  <1>3. CASE r # Idle
    <2>1. /\ r.user \in Users /\ r.alone \in BOOLEAN
          /\ r.op \in {"bind", "unbind", "add", "remove"} /\ r.at # "idle"
      BY <1>3 DEF Sound
    <2>2. r.id \in Tokens \cup Keys \cup {None}
      BY <1>3, IdsApart DEF Sound
    <2>3. r.op \in {"bind", "add"} => r.id # None
      BY <1>3, <2>1, IdsApart DEF Sound
    <2>4. Wrote(r) => r.id \in Concerns(r)
      BY <1>3, <2>1, IdsApart DEF Sound, Wrote, Concerns, AboutKeys
    <2> QED
      BY <1>1, <1>3, <2>1, <2>2, <2>3, <2>4
  <1> QED
    BY <1>2, <1>3

\* Whom a request gets in the way of.
LEMMA ConcernsToken ==
  ASSUME NEW r, Sound(r), NEW t \in Tokens
  PROVE  t \in Concerns(r) <=> r.id = t
  BY IdsApart DEF Sound, Idle, Request, Concerns, AboutKeys

LEMMA ConcernsKey ==
  ASSUME NEW r, Sound(r), NEW u \in Users, NEW k \in KeysOf[u]
  PROVE  k \in Concerns(r) <=> r # Idle /\ r.user = u /\ AboutKeys(r)
  BY IdsApart DEF Sound, Idle, Request, Concerns, AboutKeys

\* What a request is about, by the step it is at.
LEMMA RequestAt ==
  ASSUME NEW r, Sound(r), r.at # "idle"
  PROVE  /\ r # Idle /\ r.user \in Users /\ r.slot \in Nat /\ r.alone \in BOOLEAN
         /\ r.at \in {"store", "find"} => r.op = "bind"
         /\ r.at \in {"read", "clear"} => r.op = "unbind"
         /\ r.at \in {"slots", "insert"} => r.op \in {"bind", "add"}
         /\ r.at = "block" => r.op \in {"bind", "unbind"}
         /\ r.op = "bind" => r.id \in KeysOf[r.user]
         /\ r.at = "clear" => r.id \in KeysOf[r.user] \cup {None}
         /\ r.op = "unbind" /\ r.at \in {"delete", "block"}
              => r.id \in KeysOf[r.user]
         /\ r.op = "add" => r.id \in Tokens
         /\ r.op = "remove" => r.id \in Tokens \cup KeysOf[r.user]
  <1>1. r # Idle
    BY DEF Idle, Request
  <1>2. r.user \in Users /\ r.slot \in Nat /\ r.alone \in BOOLEAN
    BY <1>1 DEF Sound
  <1>3. /\ r.at \in {"store", "find"} => r.op = "bind"
        /\ r.at \in {"read", "clear"} => r.op = "unbind"
        /\ r.at \in {"slots", "insert"} => r.op \in {"bind", "add"}
        /\ r.at = "block" => r.op \in {"bind", "unbind"}
    BY <1>1 DEF Sound
  <1>4. /\ r.op = "bind" => r.id \in KeysOf[r.user]
        /\ r.op = "add" => r.id \in Tokens
        /\ r.op = "remove" => r.id \in Tokens \cup KeysOf[r.user]
    BY <1>1 DEF Sound
  <1>5. /\ r.at = "clear" => r.id \in KeysOf[r.user] \cup {None}
        /\ r.op = "unbind" /\ r.at \in {"delete", "block"}
             => r.id \in KeysOf[r.user]
    BY <1>1 DEF Sound
  <1> QED
    BY <1>1, <1>2, <1>3, <1>4, <1>5

To(r, at) == Request(r.op, at, r.user, r.id, r.slot, r.alone)

LEMMA FieldsOf ==
  ASSUME NEW op, NEW at, NEW u, NEW id, NEW slot, NEW alone
  PROVE  LET r == Request(op, at, u, id, slot, alone) IN
         /\ r.op = op /\ r.at = at /\ r.user = u /\ r.id = id
         /\ r.slot = slot /\ r.alone = alone
         /\ r = Request(r.op, r.at, r.user, r.id, r.slot, r.alone)
  BY DEF Request

LEMMA GoOnTo ==
  ASSUME PairingTypeOK, NEW p \in Procs, req[p] # Idle, NEW at, GoOn(p, at)
  PROVE  req' = [req EXCEPT ![p] = To(req[p], at)]
  <1>1. req[p] = Request(req[p].op, req[p].at, req[p].user, req[p].id,
                         req[p].slot, req[p].alone)
    BY DEF PairingTypeOK, Sound
  <1>2. [req[p] EXCEPT !.at = at] = To(req[p], at)
    BY <1>1 DEF To, Request
  <1> QED
    BY <1>2 DEF GoOn

\* A request that goes on, or ends, gets in nobody's way it was not in before.
LEMMA Narrowed ==
  ASSUME PairingTypeOK, NotAlone, NEW p \in Procs, req[p] # Idle,
         NEW r, Sound(r), req' = [req EXCEPT ![p] = r],
         \/ r = Idle
         \/ Concerns(r) = Concerns(req[p]) /\ (r.alone => req[p].alone)
  PROVE  /\ DOMAIN req' = Procs /\ \A q \in Procs : Sound(req'[q])
         /\ req'[p] = r /\ \A q \in Procs \ {p} : req'[q] = req[q]
         /\ NotAlone'
  <1>1. req'[p] = r /\ \A q \in Procs \ {p} : req'[q] = req[q]
    BY DEF PairingTypeOK
  <1>2. DOMAIN req' = Procs /\ \A q \in Procs : Sound(req'[q])
    BY <1>1 DEF PairingTypeOK
  <1>3. ASSUME NEW q \in Procs, NEW s \in Procs, q # s, req'[q] # Idle,
               req'[s] # Idle,
               Concerns(req'[q]) \cap Concerns(req'[s]) # {}
        PROVE  ~req'[q].alone
    <2>1. req[q] # Idle /\ req[s] # Idle
      BY <1>1, <1>3
    <2>2. /\ Concerns(req'[q]) = Concerns(req[q])
          /\ Concerns(req'[s]) = Concerns(req[s])
          /\ req'[q].alone => req[q].alone
      BY <1>1, <1>3
    <2> QED
      BY <1>3, <2>1, <2>2 DEF NotAlone
  <1> QED
    BY <1>1, <1>2, <1>3 DEF NotAlone

\* While a request about an account's pairing, or a token, is in progress no
\* other one about it is alone.
LEMMA NoneAloneWithKey ==
  ASSUME PairingTypeOK, NotAlone, NEW p \in Procs, req[p] # Idle,
         NEW u \in Users, NEW k \in KeysOf[u],
         AboutKeys(req[p]), req[p].user = u
  PROVE  \A q \in Procs \ {p} :
           req[q].alone => ~AboutKeys(req[q]) \/ req[q].user # u
  <1> SUFFICES ASSUME NEW q \in Procs \ {p}, AboutKeys(req[q]), req[q].user = u
               PROVE  ~req[q].alone
    OBVIOUS
  <1>1. req[q] # Idle
    BY PairingAssumption DEF Idle, Request
  <1>2. k \in Concerns(req[p]) /\ k \in Concerns(req[q])
    BY DEF Concerns
  <1> QED
    BY <1>1, <1>2 DEF NotAlone

LEMMA NoneAloneWithToken ==
  ASSUME PairingTypeOK, NotAlone, NEW p \in Procs, NEW t \in Tokens,
         req[p].id = t
  PROVE  \A q \in Procs \ {p} : req[q].alone => req[q].id # t
  <1> SUFFICES ASSUME NEW q \in Procs \ {p}, req[q].id = t
               PROVE  ~req[q].alone
    OBVIOUS
  <1>1. req[p] # Idle /\ req[q] # Idle
    BY IdsApart DEF Idle, Request
  <1>2. t \in Concerns(req[p]) /\ t \in Concerns(req[q])
    BY ConcernsToken DEF PairingTypeOK
  <1> QED
    BY <1>1, <1>2 DEF NotAlone

LEMMA NoneAloneWithId ==
  ASSUME PairingTypeOK, NotAlone, NEW p \in Procs, req[p] # Idle,
         req[p].id # None
  PROVE  \A q \in Procs \ {p} :
           req[q].alone /\ req[q] # Idle => req[q].id # req[p].id
  <1> SUFFICES ASSUME NEW q \in Procs \ {p}, req[q] # Idle, req[q].id = req[p].id
               PROVE  ~req[q].alone
    OBVIOUS
  <1>1. \A s \in {p, q} : req[s].id \in Concerns(req[s])
    BY IdsApart DEF PairingTypeOK, Sound, Concerns, AboutKeys
  <1>2. PICK x : x = req[p].id
    OBVIOUS
  <1>3. x \in Concerns(req[p]) /\ x \in Concerns(req[q])
    BY <1>1, <1>2
  <1> QED
    BY <1>3 DEF NotAlone

\* In a step of p that answers no call.
LEMMA Moved ==
  ASSUME PairingInv, NEW p \in Procs, req[p] # Idle, req[p].at # "call",
         NEW n, Sound(n), req' = [req EXCEPT ![p] = n],
         \/ n = Idle
         \/ /\ Concerns(n) = Concerns(req[p])
            /\ n.alone => req[p].alone
            /\ n.id \in Tokens => n.id = req[p].id
  PROVE  /\ DOMAIN req' = Procs /\ \A q \in Procs : Sound(req'[q])
         /\ req'[p] = n /\ \A q \in Procs \ {p} : req'[q] = req[q]
         /\ NotAlone'
         /\ calls' = calls /\ odd \cap Tokens \subseteq odd' => Late' /\ Calling'
  <1>1. /\ DOMAIN req' = Procs /\ \A q \in Procs : Sound(req'[q])
        /\ req'[p] = n /\ \A q \in Procs \ {p} : req'[q] = req[q]
        /\ NotAlone'
    BY Narrowed DEF PairingInv
  <1>2. ASSUME calls' = calls, odd \cap Tokens \subseteq odd'
        PROVE  Late' /\ Calling'
    <2>1. Idle.id \notin Tokens
      BY IdsApart DEF Idle, Request
    <2>2. Late'
      BY <1>1, <1>2, <2>1 DEF PairingInv, Late
    <2>3. Calling'
      BY <1>1, <1>2 DEF PairingInv, PairingTypeOK, Calling
    <2> QED
      BY <2>2, <2>3
  <1> QED
    BY <1>1, <1>2

\* A step that only reads: the records and the history stay.
LEMMA QuietStep ==
  ASSUME PairingInv, NEW p \in Procs, req[p] # Idle, req[p].at # "call",
         NEW n, Sound(n), req' = [req EXCEPT ![p] = n],
         \/ n = Idle
         \/ /\ Concerns(n) = Concerns(req[p])
            /\ n.alone => req[p].alone
            /\ n.id \in Tokens => n.id = req[p].id,
         Wrote(req[p]) => Wrote(n) /\ n.id = req[p].id,
         n.at # "call",
         n.op \in {"unbind", "remove"} =>
           n.at \in {"clear", "delete"} /\ ~Wrote(n),
         n.alone /\ n.op \in {"bind", "unbind"} /\ n.at # "store" =>
           noiseKey[n.user] = n.id,
         n.op = "unbind" => noiseKey[n.user] = n.id,
         n.alone /\ n.op = "bind" /\ n.at = "block" => Listed(n.id),
         UNCHANGED <<leases, noiseKey, devices, logged, calls, odd>>
  PROVE  PairingInv'
  <1>1. /\ DOMAIN req' = Procs /\ \A q \in Procs : Sound(req'[q])
        /\ req'[p] = n /\ \A q \in Procs \ {p} : req'[q] = req[q]
        /\ NotAlone' /\ Late' /\ Calling'
    BY Moved
  <1>2. \A id : Pending(id) => Pending(id)'
    BY <1>1 DEF Pending
  <1>3. PairingTypeOK' /\ OneRow'
    BY <1>1 DEF PairingInv, PairingTypeOK, TypeOK, OneRow
  <1>4. AloneSoFar'
    BY <1>1 DEF PairingInv, AloneSoFar, Listed, Wrote
  <1>5. Overtaken'
    BY <1>1, <1>2 DEF PairingInv, Overtaken
  <1>6. Leased' /\ Paired' /\ Told'
    BY <1>2 DEF PairingInv, Leased, Paired, Told, Listed
  <1> QED
    BY <1>1, <1>3, <1>4, <1>5, <1>6 DEF PairingInv

LEMMA StoreKeyKeeps ==
  ASSUME PairingInv, NEW p \in Procs, StoreKey(p)
  PROVE  PairingInv'
  <1> DEFINE r == req[p]
             n == To(r, "find")
  <1>0. PICK u \in Users : \E k \in KeysOf[u] : r.user = u /\ r.id = k
    <2>1. Sound(r) /\ r.op = "bind" /\ r.at = "store"
      BY DEF PairingInv, PairingTypeOK, StoreKey
    <2> HIDE DEF n, r
    <2> QED
      BY <2>1, RequestAt
  <1>k. PICK k \in KeysOf[u] : r.user = u /\ r.id = k
    BY <1>0
  <1>1. /\ r.op = "bind" /\ r.at = "store" /\ r # Idle
        /\ r.user = u /\ r.id = k
        /\ AboutKeys(r)
    BY <1>k
    DEF PairingInv, PairingTypeOK, StoreKey, Sound, Idle, Request, AboutKeys
  <1>2. /\ n.op = "bind" /\ n.at = "find" /\ n.user = u /\ n.id = k
        /\ n.alone = r.alone /\ n.slot = r.slot
        /\ Sound(n) /\ Concerns(n) = Concerns(r)
    BY <1>1
    DEF PairingInv, PairingTypeOK, Sound, To, Request, Idle, Concerns, AboutKeys
  <1>3. req' = [req EXCEPT ![p] = n]
    BY <1>1, GoOnTo DEF PairingInv, StoreKey
  <1>4. /\ DOMAIN req' = Procs /\ \A q \in Procs : Sound(req'[q])
        /\ req'[p] = n /\ \A q \in Procs \ {p} : req'[q] = req[q]
        /\ NotAlone'
        /\ calls' = calls /\ odd \cap Tokens \subseteq odd' =>
             Late' /\ Calling'
    BY <1>1, <1>2, <1>3, Moved
  <1> HIDE DEF n
  <1>5. /\ UNCHANGED <<leases, devices, logged, calls>>
        /\ noiseKey' = [noiseKey EXCEPT ![u] = k]
        /\ odd \subseteq odd'
        /\ odd' = odd \cup ({noiseKey[u]} \ {None, k})
    BY <1>1 DEF StoreKey
  <1>6. Wrote(n) /\ ~Wrote(r)
    BY <1>1, <1>2 DEF Wrote
  <1>7. /\ \A id : Pending(id) => Pending(id)'
        /\ Pending(k)'
    BY <1>2, <1>4, <1>6 DEF Pending
  <1>10. PairingTypeOK' /\ OneRow'
    BY <1>1, <1>4, <1>5, IdsApart DEF PairingInv, PairingTypeOK, TypeOK, OneRow
  <1>13. AloneSoFar'
    <2>1. \A q \in Procs \ {p} : req[q].alone /\ AboutKeys(req[q]) => req[q].user # u
      BY <1>1, NoneAloneWithKey DEF PairingInv
    <2> QED
      BY <1>1, <1>2, <1>4, <1>5, <2>1
      DEF PairingInv, PairingTypeOK, AloneSoFar, Listed, AboutKeys
  <1>14. Overtaken'
    BY <1>1, <1>2, <1>4, <1>5, <1>7, <1>10
    DEF PairingInv, Overtaken, PairingTypeOK
  <1>15. Leased'
    BY <1>5, <1>7 DEF PairingInv, Leased, Listed
  <1>16. Paired'
    BY <1>1, <1>5, <1>7, IdsApart DEF PairingInv, PairingTypeOK, Paired, Listed
  <1>17. Told'
    BY <1>1, <1>5, <1>7 DEF PairingInv, PairingTypeOK, Told
  <1> QED
    BY <1>4, <1>5, <1>10, <1>13, <1>14, <1>15, <1>16, <1>17 DEF PairingInv

LEMMA FindRowKeeps ==
  ASSUME PairingInv, NEW p \in Procs, FindRow(p)
  PROVE  PairingInv'
  <1> DEFINE r == req[p]
             found == \E d \in devices : d.user = r.user /\ d.id = r.id
             n == To(r, IF found THEN "block" ELSE "slots")
  <1>1. /\ r.op = "bind" /\ r.at = "find" /\ r # Idle /\ Sound(r)
        /\ r.alone => noiseKey[r.user] = r.id
    <2>1. Sound(r) /\ r.at = "find"
      BY DEF PairingInv, PairingTypeOK, FindRow
    <2>2. r.op = "bind" /\ r.alone /\ r.at # "store" => noiseKey[r.user] = r.id
      BY DEF PairingInv, AloneSoFar
    <2> HIDE DEF n, r
    <2> QED
      BY <2>1, <2>2, RequestAt
  <1>2. req' = [req EXCEPT ![p] = n]
    BY <1>1, GoOnTo DEF PairingInv, FindRow
  <1>3. /\ n.op = "bind" /\ n.at \in {"block", "slots"}
        /\ n.user = r.user /\ n.id = r.id /\ n.alone = r.alone
        /\ Sound(n) /\ Concerns(n) = Concerns(r)
    BY <1>1 DEF Sound, To, Request, Idle, Concerns, AboutKeys
  <1>4. n.at = "block" => Listed(n.id)
    BY <1>3 DEF To, Request, Listed
  <1> HIDE DEF n
  <1> QED
    BY <1>1, <1>2, <1>3, <1>4, QuietStep DEF FindRow, Wrote

LEMMA CountRowsKeeps ==
  ASSUME PairingInv, NEW p \in Procs, CountRows(p)
  PROVE  PairingInv'
  <1> DEFINE r == req[p]
             n == IF Cardinality(RowsOf(r.user)) >= MaxSlots THEN Idle
                  ELSE To(r, "slots")
  <1>1. r.op = "add" /\ r.at = "count" /\ r # Idle /\ Sound(r)
    <2>1. Sound(r) /\ r.op = "add" /\ r.at = "count"
      BY DEF PairingInv, PairingTypeOK, CountRows
    <2> HIDE DEF n, r
    <2> QED
      BY <2>1, RequestAt
  <1>2. req' = [req EXCEPT ![p] = n]
    BY <1>1, GoOnTo DEF PairingInv, CountRows
  <1>3. /\ Sound(n) /\ n.at \in {"idle", "slots"} /\ n.op \in {"none", "add"}
        /\ \/ n = Idle
           \/ n.id = r.id /\ n.alone = r.alone /\ Concerns(n) = Concerns(r)
    BY <1>1 DEF Sound, To, Request, Idle, Concerns, AboutKeys
  <1> HIDE DEF n
  <1> QED
    BY <1>1, <1>2, <1>3, QuietStep DEF CountRows, Wrote

LEMMA PickSlotKeeps ==
  ASSUME PairingInv, NEW p \in Procs, PickSlot(p)
  PROVE  PairingInv'
  <1> DEFINE r == req[p]
  <1>1. /\ r.op \in {"bind", "add"} /\ r.at = "slots" /\ r # Idle /\ Sound(r)
        /\ r.op = "bind" /\ r.alone => noiseKey[r.user] = r.id
    <2>1. Sound(r) /\ r.at = "slots"
      BY DEF PairingInv, PairingTypeOK, PickSlot
    <2>2. r.op = "bind" /\ r.alone /\ r.at # "store" => noiseKey[r.user] = r.id
      BY DEF PairingInv, AloneSoFar
    <2> HIDE DEF r
    <2> QED
      BY <2>1, <2>2, RequestAt
  <1>2. PICK s \in 1 .. MaxSlots + 1 :
          req' = [req EXCEPT ![p] =
            IF r.op = "bind" /\ s > MaxSlots
            THEN Request("bind", "block", r.user, r.id, 0, FALSE)
            ELSE Request(r.op, "insert", r.user, r.id, s, r.alone)]
    BY DEF PickSlot, FreeSlots
  <1> DEFINE n == IF r.op = "bind" /\ s > MaxSlots
                  THEN Request("bind", "block", r.user, r.id, 0, FALSE)
                  ELSE Request(r.op, "insert", r.user, r.id, s, r.alone)
  <1>3. /\ n.op = r.op /\ n.at \in {"block", "insert"}
        /\ n.user = r.user /\ n.id = r.id /\ (n.alone => r.alone)
        /\ n.at = "block" => n.op = "bind" /\ ~n.alone
    BY <1>1 DEF Request
  <1>4. Sound(n) /\ Concerns(n) = Concerns(r)
    <2>1. s \in Nat
      BY PairingAssumption
    <2> QED
      BY <1>1, <1>3, <2>1 DEF Sound, Request, Idle, Concerns, AboutKeys
  <1>5. req' = [req EXCEPT ![p] = n]
    BY <1>2
  <1>6. UNCHANGED <<leases, noiseKey, devices, logged, calls, odd>>
    BY DEF PickSlot
  <1>7. Wrote(r) => Wrote(n)
    BY <1>1, <1>3 DEF Wrote
  <1> HIDE DEF n
  <1> QED
    BY <1>1, <1>3, <1>4, <1>5, <1>6, <1>7, QuietStep

LEMMA ReadKeyKeeps ==
  ASSUME PairingInv, NEW p \in Procs, ReadKey(p)
  PROVE  PairingInv'
  <1> DEFINE r == req[p]
             n == Request("unbind", "clear", r.user, noiseKey[r.user], 0, r.alone)
  <1>1. /\ r.op = "unbind" /\ r.at = "read" /\ r # Idle /\ Sound(r)
        /\ r.user \in Users /\ r.alone \in BOOLEAN
    <2>1. Sound(r) /\ r.at = "read"
      BY DEF PairingInv, PairingTypeOK, ReadKey
    <2> HIDE DEF n, r
    <2> QED
      BY <2>1, RequestAt
  <1>2. noiseKey[r.user] \in KeysOf[r.user] \cup {None}
    BY <1>1 DEF PairingInv, PairingTypeOK
  <1>3. /\ n.op = "unbind" /\ n.at = "clear" /\ n.user = r.user
        /\ n.id = noiseKey[r.user] /\ n.alone = r.alone /\ n.slot = 0
        /\ n = Request(n.op, n.at, n.user, n.id, n.slot, n.alone)
    BY DEF Request
  <1>4. Sound(n) /\ Concerns(n) = Concerns(r)
    <2> HIDE DEF n, r
    <2>1. Concerns(n) = Concerns(r)
      BY <1>1, <1>3 DEF Concerns, AboutKeys
    <2>2. n.id \in KeysOf[n.user] \cup {None}
      BY <1>2, <1>3
    <2>3. n.user \in Users /\ n.slot \in Nat /\ n.alone \in BOOLEAN
      BY <1>1, <1>3
    <2>4. Sound(n)
      BY <1>3, <2>2, <2>3 DEF Sound
    <2> QED
      BY <2>1, <2>4
  <1>5. n.id \notin Tokens
    BY <1>1, <1>2, <1>3, IdsApart
  <1> HIDE DEF n
  <1> QED
    BY <1>1, <1>3, <1>4, <1>5, QuietStep DEF ReadKey, Wrote, n

LEMMA FailKeeps ==
  ASSUME PairingInv, NEW p \in Procs, Fail(p)
  PROVE  PairingInv'
  <1> DEFINE r == req[p]
  <1>1. /\ Sound(Idle) /\ r # Idle /\ r.at # "call"
        /\ r.id \in Tokens \cup Keys \cup {None}
        /\ Wrote(r) => r.id # None
    <2>1. Sound(r) /\ Sound(Idle)
      BY DEF PairingInv, PairingTypeOK, Sound
    <2>2. r # Idle /\ r.at # "call"
      BY DEF Fail
    <2>3. Wrote(r) => r.op \in {"bind", "unbind"}
      BY <2>2 DEF Wrote
    <2> HIDE DEF r
    <2>4. /\ r.id \in Tokens \cup Keys \cup {None}
          /\ Wrote(r) => r.id \in Concerns(r)
          /\ r.user \in Users
      BY <2>1, <2>2, SoundShape
    <2>5. Wrote(r) => r.id # None
      BY <2>3, <2>4, IdsApart DEF Concerns, AboutKeys
    <2> QED
      BY <2>1, <2>2, <2>4, <2>5
  <1>2. /\ req' = [req EXCEPT ![p] = Idle]
        /\ odd' = IF Wrote(r) THEN odd \cup {r.id} ELSE odd
        /\ UNCHANGED <<leases, noiseKey, devices, logged, calls>>
    BY DEF Fail
  <1>3. /\ DOMAIN req' = Procs /\ \A q \in Procs : Sound(req'[q])
        /\ req'[p] = Idle /\ \A q \in Procs \ {p} : req'[q] = req[q]
        /\ NotAlone' /\ Late' /\ Calling'
    BY <1>1, <1>2, Moved
  <1>4. \A id : Pending(id) \/ id \in odd => Pending(id)' \/ id \in odd'
    BY <1>2, <1>3 DEF Pending
  <1>5. PairingTypeOK' /\ OneRow'
    BY <1>1, <1>2, <1>3 DEF PairingInv, PairingTypeOK, TypeOK, OneRow
  <1>6. AloneSoFar'
    BY <1>2, <1>3 DEF PairingInv, AloneSoFar, Listed, Idle, Request
  <1>7. Overtaken'
    BY <1>2, <1>3, <1>4 DEF PairingInv, Overtaken, Idle, Request
  <1>8. Leased' /\ Paired' /\ Told'
    BY <1>2, <1>4 DEF PairingInv, Leased, Paired, Told, Listed
  <1> QED
    BY <1>3, <1>5, <1>6, <1>7, <1>8 DEF PairingInv

LEMMA ClearKeyKeeps ==
  ASSUME PairingInv, NEW p \in Procs, ClearKey(p)
  PROVE  PairingInv'
  <1> DEFINE r == req[p]
             n == IF r.id = None THEN Idle ELSE To(r, "delete")
  <1>1. /\ r.op = "unbind" /\ r.at = "clear" /\ r # Idle /\ Sound(r)
        /\ r.user \in Users /\ r.id \in KeysOf[r.user] \cup {None}
        /\ AboutKeys(r) /\ ~Wrote(r)
    <2>1. Sound(r) /\ r.at = "clear"
      BY DEF PairingInv, PairingTypeOK, ClearKey
    <2> HIDE DEF n, r
    <2> QED
      BY <2>1, RequestAt DEF AboutKeys, Wrote
  <1>2. /\ req' = [req EXCEPT ![p] = n]
        /\ odd' = odd
        /\ noiseKey' = [noiseKey EXCEPT ![r.user] = None]
        /\ UNCHANGED <<leases, devices, logged, calls>>
    <2>1. CASE r.id = None
      <3>1. None \notin odd
        BY IdsApart DEF PairingInv, PairingTypeOK
      <3>2. Finish(p)
        BY <2>1 DEF ClearKey
      <3>3. odd' = odd
        BY <2>1, <3>1, <3>2 DEF Finish
      <3> QED
        BY <2>1, <3>2, <3>3 DEF ClearKey, Finish
    <2>2. CASE r.id # None
      BY <1>1, <2>2, GoOnTo DEF ClearKey, PairingInv
    <2> QED
      BY <2>1, <2>2
  <1>3. /\ Sound(n)
        /\ \/ n = Idle /\ r.id = None
           \/ /\ n.op = "unbind" /\ n.at = "delete" /\ n.user = r.user
              /\ n.id = r.id /\ n.alone = r.alone /\ Concerns(n) = Concerns(r)
              /\ Wrote(n)
    BY <1>1 DEF Sound, To, Request, Idle, Concerns, AboutKeys, Wrote
  <1>4. /\ DOMAIN req' = Procs /\ \A q \in Procs : Sound(req'[q])
        /\ req'[p] = n /\ \A q \in Procs \ {p} : req'[q] = req[q]
        /\ NotAlone' /\ Late' /\ Calling'
    BY <1>1, <1>2, <1>3, Moved
  <1> HIDE DEF n
  <1>5. /\ \A id : Pending(id) => Pending(id)'
        /\ \A id : id = r.id => id = None \/ Pending(id)'
    BY <1>1, <1>3, <1>4 DEF Pending
  <1>6. PairingTypeOK' /\ OneRow'
    BY <1>1, <1>2, <1>4 DEF PairingInv, PairingTypeOK, TypeOK, OneRow
  \* The key that was cleared, if any, is the one that was read or at odds.
  <1>7. \/ noiseKey[r.user] \in odd \cup {None}
        \/ \E k \in KeysOf[r.user] : k = noiseKey[r.user] /\ Pending(k)'
    BY <1>1, <1>5 DEF PairingInv, PairingTypeOK, Overtaken
  <1>8. AloneSoFar'
    <2>1. ASSUME NEW q \in Procs \ {p}, req[q].alone, AboutKeys(req[q]),
                 req[q].user = r.user, noiseKey[r.user] # None
          PROVE  FALSE
      <3>1. PICK k \in KeysOf[r.user] : k = noiseKey[r.user]
        BY <1>1, <2>1 DEF PairingInv, PairingTypeOK
      <3>2. AboutKeys(req[p]) /\ req[p] # Idle /\ req[p].user = r.user
        BY <1>1
      <3>3. PairingTypeOK /\ NotAlone
        BY DEF PairingInv
      <3> QED
        BY ONLY <1>1, <2>1, <3>1, <3>2, <3>3, NoneAloneWithKey
    <2> QED
      BY <1>1, <1>2, <1>3, <1>4, <2>1
      DEF PairingInv, PairingTypeOK, AloneSoFar, Listed, AboutKeys, Idle,
          Request
  <1>9. Overtaken'
    BY <1>1, <1>2, <1>3, <1>4, <1>5
    DEF PairingInv, PairingTypeOK, Overtaken, Idle, Request
  <1>10. Leased'
    BY <1>2, <1>5 DEF PairingInv, Leased, Listed
  <1>11. Paired'
    BY <1>1, <1>2, <1>5, <1>7, IdsApart
    DEF PairingInv, PairingTypeOK, Paired, Listed
  <1>12. Told'
    BY <1>1, <1>2, <1>5, <1>7 DEF PairingInv, PairingTypeOK, Told
  <1> QED
    BY <1>4, <1>6, <1>8, <1>9, <1>10, <1>11, <1>12 DEF PairingInv

LEMMA DeletePairedKeeps ==
  ASSUME PairingInv, NEW p \in Procs, DeletePaired(p)
  PROVE  PairingInv'
  <1> DEFINE r == req[p]
             n == To(r, "block")
  <1>1. /\ r.op = "unbind" /\ r.at = "delete" /\ r # Idle /\ Sound(r)
        /\ r.user \in Users /\ r.id \in KeysOf[r.user]
        /\ AboutKeys(r) /\ Wrote(r)
    <2>1. Sound(r) /\ r.op = "unbind" /\ r.at = "delete"
      BY DEF PairingInv, PairingTypeOK, DeletePaired
    <2> HIDE DEF n, r
    <2> QED
      BY <2>1, RequestAt DEF AboutKeys, Wrote
  <1>0. PICK u \in Users : r.user = u
    BY <1>1
  <1>k. PICK k \in KeysOf[u] : r.user = u /\ r.id = k
    BY <1>0, <1>1
  <1>2. /\ req' = [req EXCEPT ![p] = n]
        /\ devices' = {d \in devices : d.id # k}
        /\ UNCHANGED <<leases, noiseKey, logged, calls, odd>>
    <2>1. \A d \in devices : d.id = k => d.user = u
      BY IdsApart DEF PairingInv, PairingTypeOK
    <2> QED
      BY <1>1, <1>k, <2>1, GoOnTo DEF DeletePaired, PairingInv, Row, Named
  <1>3. /\ Sound(n)
        /\ n.op = "unbind" /\ n.at = "block" /\ n.user = r.user
        /\ n.id = r.id /\ n.alone = r.alone /\ Concerns(n) = Concerns(r)
        /\ Wrote(n)
    BY <1>1 DEF Sound, To, Request, Idle, Concerns, AboutKeys, Wrote
  <1>4. /\ DOMAIN req' = Procs /\ \A q \in Procs : Sound(req'[q])
        /\ req'[p] = n /\ \A q \in Procs \ {p} : req'[q] = req[q]
        /\ NotAlone' /\ Late' /\ Calling'
    BY <1>1, <1>2, <1>3, Moved
  <1> HIDE DEF n
  <1>5. /\ \A id : Pending(id) => Pending(id)'
        /\ Pending(k)'
        /\ \A id : id # k => Listed(id)' = Listed(id)
        /\ ~Listed(k)'
    BY <1>2, <1>3, <1>4, <1>k DEF Pending, Listed
  <1>6. PairingTypeOK' /\ OneRow'
    BY <1>1, <1>2, <1>4 DEF PairingInv, PairingTypeOK, TypeOK, OneRow
  <1>8. AloneSoFar'
    <2>1. \A q \in Procs \ {p} : req[q].alone /\ req[q] # Idle => req[q].id # k
      BY <1>1, <1>k, NoneAloneWithId, IdsApart DEF PairingInv
    <2> QED
      BY <1>1, <1>2, <1>3, <1>4, <1>5, <1>k, <2>1
      DEF PairingInv, AloneSoFar, Idle, Request
  <1>9. Overtaken'
    BY <1>1, <1>2, <1>3, <1>4, <1>5 DEF PairingInv, Overtaken
  <1>10. Leased'
    BY <1>2, <1>5, <1>k, IdsApart DEF PairingInv, Leased
  <1>11. Paired'
    BY <1>2, <1>5 DEF PairingInv, Paired
  <1>12. Told'
    BY <1>2, <1>5 DEF PairingInv, Told
  <1> QED
    BY <1>4, <1>6, <1>8, <1>9, <1>10, <1>11, <1>12 DEF PairingInv

LEMMA InsertRowKeeps ==
  ASSUME PairingInv, NEW p \in Procs, InsertRow(p)
  PROVE  PairingInv'
  <1> DEFINE r == req[p]
             n == To(r, IF r.op = "bind" THEN "block" ELSE "call")
             d == [user |-> r.user, slot |-> r.slot, id |-> r.id]
  <1>1. /\ r.op \in {"bind", "add"} /\ r.at = "insert" /\ r # Idle /\ Sound(r)
        /\ r.user \in Users /\ r.slot \in Nat
        /\ r.op = "bind" => r.id \in KeysOf[r.user] /\ Wrote(r)
        /\ r.op = "add" => r.id \in Tokens
    <2>1. Sound(r) /\ r.at = "insert"
      BY DEF PairingInv, PairingTypeOK, InsertRow
    <2> HIDE DEF n, r
    <2> QED
      BY <2>1, RequestAt DEF Wrote
  <1>k. PICK k \in Tokens \cup Keys : r.id = k
    BY <1>1, IdsApart
  <1>2. /\ req' = [req EXCEPT ![p] = n]
        /\ devices' = devices \cup {d}
        /\ calls' = calls \cup (IF r.op = "bind" THEN {} ELSE {Call("allocate", k, p)})
        /\ UNCHANGED <<leases, noiseKey, logged, odd>>
    <2>1. CASE r.op = "bind"
      BY <1>1, <1>k, <2>1, GoOnTo DEF InsertRow, PairingInv
    <2>2. CASE r.op # "bind"
      BY <1>1, <1>k, <2>2, GoOnTo DEF InsertRow, PairingInv
    <2> QED
      BY <2>1, <2>2
  <1>3. /\ Sound(n)
        /\ n.op = r.op /\ n.at = (IF r.op = "bind" THEN "block" ELSE "call")
        /\ n.user = r.user /\ n.id = k /\ n.alone = r.alone
        /\ Concerns(n) = Concerns(r) /\ Wrote(n)
    BY <1>1, <1>k DEF Sound, To, Request, Idle, Concerns, AboutKeys, Wrote
  <1>4. /\ DOMAIN req' = Procs /\ \A q \in Procs : Sound(req'[q])
        /\ req'[p] = n /\ \A q \in Procs \ {p} : req'[q] = req[q]
        /\ NotAlone'
    BY <1>1, <1>2, <1>3, <1>k, Moved
  <1> HIDE DEF n
  <1>d. d.id = k /\ d.user = r.user /\ \A e \in devices : e.id # k
    BY <1>k DEF InsertRow, Insertable
  <1>5. /\ \A id : Pending(id) => Pending(id)'
        /\ Pending(k)'
        /\ \A id : id # k => Listed(id)' = Listed(id)
        /\ Listed(k)'
    <2> HIDE DEF d
    <2> QED
      BY <1>2, <1>3, <1>4, <1>k, <1>d DEF Pending, Listed
  <1>6. PairingTypeOK' /\ OneRow'
    <2>1. devices' \subseteq [user : Users, slot : Nat, id : Tokens \cup Keys]
      BY <1>1, <1>2, <1>k DEF PairingInv, PairingTypeOK
    <2>2. \A e \in devices' : e.id \in Tokens \cup KeysOf[e.user]
      BY <1>1, <1>2, <1>k DEF PairingInv, PairingTypeOK
    <2>3. calls' \subseteq [op : {"allocate", "release"}, id : Tokens \cup Keys,
                            by : Procs \cup {None}]
      BY <1>1, <1>2, <1>k DEF PairingInv, PairingTypeOK, Call
    <2> QED
      BY <1>2, <1>4, <1>d, <2>1, <2>2, <2>3
      DEF PairingInv, PairingTypeOK, TypeOK, OneRow
  <1>7. Late' /\ Calling'
    <2>1. ASSUME NEW c \in calls, c.by # None
          PROVE  c.by \in Procs \ {p}
      BY <1>1, <2>1 DEF PairingInv, PairingTypeOK, Calling
    <2>2. ASSUME NEW c \in calls' \ calls
          PROVE  c.by = p /\ c.id = k /\ c.op = "allocate" /\ r.op = "add"
      BY <1>1, <1>2, <2>2 DEF Call
    <2>3. Late'
      BY <1>2, <1>3, <1>4, <1>k, <2>2, PairingAssumption DEF PairingInv, Late
    <2>4. Calling'
      BY <1>3, <1>4, <2>1, <2>2 DEF PairingInv, Calling
    <2> QED
      BY <2>3, <2>4
  <1>8. AloneSoFar'
    <2>1. \A q \in Procs \ {p} : req[q].alone /\ req[q] # Idle => req[q].id # k
      BY <1>1, <1>k, NoneAloneWithId, IdsApart DEF PairingInv
    <2>2. n.alone /\ n.op = "bind" => noiseKey[n.user] = n.id
      BY <1>1, <1>3, <1>k DEF PairingInv, AloneSoFar
    <2> QED
      BY <1>1, <1>2, <1>3, <1>4, <1>5, <2>1, <2>2
      DEF PairingInv, AloneSoFar, Idle, Request
  <1>9. Overtaken'
    BY <1>1, <1>2, <1>3, <1>4, <1>5 DEF PairingInv, Overtaken
  <1>10. Leased' /\ Paired' /\ Told'
    BY <1>2, <1>5 DEF PairingInv, Leased, Paired, Told
  <1> QED
    BY <1>4, <1>6, <1>7, <1>8, <1>9, <1>10 DEF PairingInv

LEMMA DeleteDeviceKeeps ==
  ASSUME PairingInv, NEW p \in Procs, DeleteDevice(p)
  PROVE  PairingInv'
  <1> DEFINE r == req[p]
             none == Row(r.user, r.id) = {}
             n == IF none THEN Idle ELSE To(r, "call")
  <1>1. /\ r.op = "remove" /\ r.at = "delete" /\ r # Idle /\ Sound(r)
        /\ r.user \in Users /\ r.id \in Tokens \cup KeysOf[r.user]
        /\ ~Wrote(r)
    <2>1. Sound(r) /\ r.op = "remove" /\ r.at = "delete"
      BY DEF PairingInv, PairingTypeOK, DeleteDevice
    <2> HIDE DEF n, r
    <2> QED
      BY <2>1, RequestAt DEF Wrote
  <1>k. PICK k \in Tokens \cup Keys : r.id = k
    BY <1>1, IdsApart
  <1>2. /\ req' = [req EXCEPT ![p] = n]
        /\ devices' = devices \ Row(r.user, k)
        /\ calls' = calls \cup (IF none THEN {} ELSE {Call("release", k, p)})
        /\ UNCHANGED <<leases, noiseKey, logged, odd>>
    <2>1. CASE none
      BY <1>1, <1>k, <2>1 DEF DeleteDevice
    <2>2. CASE ~none
      BY <1>1, <1>k, <2>2, GoOnTo DEF DeleteDevice, PairingInv
    <2> QED
      BY <2>1, <2>2
  <1>3. /\ Sound(n)
        /\ \/ n = Idle /\ none
           \/ /\ n.op = "remove" /\ n.at = "call" /\ n.user = r.user
              /\ n.id = k /\ n.alone = r.alone /\ Concerns(n) = Concerns(r)
              /\ Wrote(n) /\ ~none
    BY <1>1, <1>k DEF Sound, To, Request, Idle, Concerns, AboutKeys, Wrote
  <1>4. /\ DOMAIN req' = Procs /\ \A q \in Procs : Sound(req'[q])
        /\ req'[p] = n /\ \A q \in Procs \ {p} : req'[q] = req[q]
        /\ NotAlone'
    BY <1>1, <1>2, <1>3, <1>k, Moved
  <1> HIDE DEF n
  \* The one row of this id, if the user has it, is gone.
  <1>5. /\ \A id : Pending(id) => Pending(id)'
        /\ none => UNCHANGED devices
        /\ ~none => Pending(k)'
        /\ \A id : id # k => Listed(id)' = Listed(id)
    <2>1. none => UNCHANGED devices
      BY <1>2, <1>k
    <2> QED
      BY <1>1, <1>2, <1>3, <1>4, <1>k, <2>1 DEF Pending, Listed, Row, Named
  <1>6. PairingTypeOK' /\ OneRow'
    <2>1. calls' \subseteq [op : {"allocate", "release"}, id : Tokens \cup Keys,
                            by : Procs \cup {None}]
      BY <1>2 DEF PairingInv, PairingTypeOK, Call
    <2> QED
      BY <1>2, <1>4, <2>1 DEF PairingInv, PairingTypeOK, TypeOK, OneRow
  <1>7. Late' /\ Calling'
    <2>1. ASSUME NEW c \in calls, c.by # None
          PROVE  c.by \in Procs \ {p}
      BY <1>1, <2>1 DEF PairingInv, PairingTypeOK, Calling
    <2>2. ASSUME NEW c \in calls' \ calls
          PROVE  c.by = p /\ c.id = k /\ c.op = "release" /\ ~none
      BY <1>1, <1>2, <2>2 DEF Call
    <2>3. Late'
      BY <1>2, <1>3, <1>4, <1>k, <2>2, PairingAssumption, IdsApart
      DEF PairingInv, Late, Idle, Request
    <2>4. Calling'
      BY <1>3, <1>4, <2>1, <2>2 DEF PairingInv, Calling
    <2> QED
      BY <2>3, <2>4
  <1>8. AloneSoFar'
    <2>1. \A q \in Procs \ {p} : req[q].alone /\ req[q] # Idle => req[q].id # k
      BY <1>1, <1>k, NoneAloneWithId, IdsApart DEF PairingInv
    <2>2. ~none => ~Listed(k)'
      BY <1>2, <1>k DEF PairingInv, OneRow, Row, Named, Listed
    <2> QED
      BY <1>1, <1>2, <1>3, <1>4, <1>5, <2>1, <2>2
      DEF PairingInv, AloneSoFar, Idle, Request
  <1>9. Overtaken'
    BY <1>1, <1>2, <1>3, <1>4, <1>5 DEF PairingInv, Overtaken, Idle, Request
  <1>10. Leased' /\ Paired' /\ Told'
    BY <1>2, <1>5 DEF PairingInv, Leased, Paired, Told, Listed
  <1> QED
    BY <1>4, <1>6, <1>7, <1>8, <1>9, <1>10 DEF PairingInv

LEMMA LogEventKeeps ==
  ASSUME PairingInv, NEW p \in Procs, LogEvent(p)
  PROVE  PairingInv'
  <1> DEFINE r == req[p]
  <1>1. /\ r.op \in {"bind", "unbind"} /\ r.at = "block" /\ r # Idle /\ Sound(r)
        /\ r.user \in Users /\ r.id \in KeysOf[r.user] /\ Sound(Idle)
        /\ Settled(r) <=> r.alone
    <2>1. Sound(r) /\ r.at = "block"
      BY DEF PairingInv, PairingTypeOK, LogEvent
    <2>2. Sound(Idle)
      BY DEF Sound
    <2> HIDE DEF r
    <2> QED
      BY <2>1, <2>2, RequestAt DEF Settled
  <1>0. PICK u \in Users : r.user = u
    BY <1>1
  <1>k. PICK k \in KeysOf[u] : r.user = u /\ r.id = k
    BY <1>0, <1>1
  <1>2. /\ req' = [req EXCEPT ![p] = Idle]
        /\ odd' = IF r.alone THEN odd \ {k} ELSE odd \cup {k}
        /\ logged' = [logged EXCEPT ![u] =
                        IF r.op = "bind" THEN "bound" ELSE "unbound"]
        /\ UNCHANGED <<leases, noiseKey, devices, calls>>
    BY <1>1, <1>k, IdsApart DEF LogEvent, Finish
  <1>3. /\ DOMAIN req' = Procs /\ \A q \in Procs : Sound(req'[q])
        /\ req'[p] = Idle /\ \A q \in Procs \ {p} : req'[q] = req[q]
        /\ NotAlone' /\ Late' /\ Calling'
    <2>1. odd \cap Tokens \subseteq odd'
      BY <1>2, <1>k, IdsApart
    <2> QED
      BY <1>1, <1>2, <2>1, Moved
  \* Whatever was pending or at odds is, but for the key of a request that was
  \* alone: its records agree.
  <1>4. /\ \A id : Pending(id) \/ id \in odd =>
             Pending(id)' \/ id \in odd' \/ (id = k /\ r.alone)
        /\ r.alone \/ k \in odd'
        /\ r.alone => /\ noiseKey[u] = k <=> Listed(k)
                      /\ noiseKey[u] # None <=> r.op = "bind"
    <2>1. \A id : Pending(id) \/ id \in odd =>
             Pending(id)' \/ id \in odd' \/ (id = k /\ r.alone)
      BY <1>2, <1>3, <1>k DEF Pending
    <2>2. r.alone => /\ noiseKey[u] = k <=> Listed(k)
                     /\ noiseKey[u] # None <=> r.op = "bind"
      BY <1>1, <1>k, IdsApart DEF PairingInv, AloneSoFar
    <2> QED
      BY <1>2, <2>1, <2>2
  <1>5. PairingTypeOK' /\ OneRow'
    BY <1>1, <1>2, <1>3, <1>k, IdsApart
    DEF PairingInv, PairingTypeOK, TypeOK, OneRow
  <1>6. AloneSoFar'
    BY <1>2, <1>3 DEF PairingInv, AloneSoFar, Listed, Idle, Request
  <1>7. Overtaken'
    <2>1. SUFFICES ASSUME NEW q \in Procs \ {p}, req[q].op = "unbind",
                          req[q].at = "clear",
                          noiseKey[req[q].user] \notin {req[q].id, None},
                          noiseKey[req[q].user] = k, r.alone
                   PROVE  FALSE
      BY <1>2, <1>3, <1>4 DEF PairingInv, Overtaken, Idle, Request
    <2>2. req[q].user = u /\ AboutKeys(req[q]) /\ req[q] # Idle
      <3>1. /\ req[q].user \in Users /\ req[q] # Idle
            /\ noiseKey[req[q].user] \in KeysOf[req[q].user] \cup {None}
        BY <2>1, SoundShape DEF PairingInv, PairingTypeOK, Idle, Request
      <3> QED
        BY <1>k, <2>1, <3>1, IdsApart DEF AboutKeys
    <2> QED
      <3>1. AboutKeys(req[p]) /\ req[p].user = u /\ p \in Procs \ {q}
        BY <1>1, <1>k DEF AboutKeys
      <3> QED
        BY <1>k, <2>1, <2>2, <3>1, NoneAloneWithKey DEF PairingInv
  <1>8. Leased'
    BY <1>2, <1>4, <1>k, IdsApart DEF PairingInv, Leased, Listed
  <1>9. Paired'
    BY <1>2, <1>4, <1>k, IdsApart DEF PairingInv, Paired, Listed
  <1>10. Told'
    <2>1. SUFFICES ASSUME NEW v \in Users
                   PROVE  \/ \E x \in KeysOf[v] : x \in odd' \/ Pending(x)'
                          \/ noiseKey'[v] # None <=> logged'[v] = "bound"
      BY DEF Told
    <2>2. CASE v = u
      BY <1>2, <1>4, <1>k, <2>2 DEF PairingInv, PairingTypeOK
    <2>3. CASE v # u
      BY <1>2, <1>4, <1>k, <2>3, IdsApart DEF PairingInv, PairingTypeOK, Told
    <2> QED
      BY <2>2, <2>3
  <1> QED
    BY <1>3, <1>5, <1>6, <1>7, <1>8, <1>9, <1>10 DEF PairingInv

LEMMA LeaseTypes ==
  ASSUME TypeOK, Next
  PROVE  TypeOK'
  <1>1. ASSUME NEW d \in Daemons, NEW c \in ClientIds, NEW text \in Texts,
               Grant(d, c, text)
        PROVE  TypeOK'
    BY <1>1 DEF Grant, TypeOK
  <1>2. ASSUME NEW d \in Daemons, NEW c \in ClientIds, Release(d, c)
        PROVE  TypeOK'
    BY <1>2 DEF Release, TypeOK
  <1>3. ASSUME NEW d \in Daemons, TornWrite(d)
        PROVE  TypeOK'
    BY <1>3 DEF TornWrite, TypeOK
  <1> QED
    BY <1>1, <1>2, <1>3, StepCases

\* What the daemon does with a call, when it does it.
LEMMA CarriedOut ==
  ASSUME PairingTypeOK, NEW c \in calls, CarryOut(c)
  PROVE  /\ [Next]_vars
         /\ TypeOK'
         /\ \A t \in ClientIds \ {c.id} : leases'[Server][t] = leases[Server][t]
         /\ c.op = "release" => leases'[Server][c.id] = None
  <1>1. /\ c.id \in ClientIds /\ Server \in Daemons /\ None \in Requests
        /\ TypeOK /\ c.op \in {"allocate", "release"}
    BY IdsApart, PairingAssumption DEF PairingTypeOK, Requests
  <1>2. CASE c.op = "allocate" /\ Allocate(Server, c.id, None)
    <2>1. Next
      BY <1>1, <1>2 DEF Next
    <2>2. \A t \in ClientIds \ {c.id} : leases'[Server][t] = leases[Server][t]
      BY <1>1, <1>2 DEF Allocate, Grant, TypeOK
    <2> QED
      BY <1>1, <1>2, <2>1, <2>2, LeaseTypes
  <1>3. CASE c.op = "release" /\ Release(Server, c.id)
    <2>1. Next
      BY <1>1, <1>3 DEF Next
    <2>2. /\ \A t \in ClientIds \ {c.id} : leases'[Server][t] = leases[Server][t]
          /\ leases'[Server][c.id] = None
      BY <1>1, <1>3 DEF Release, TypeOK
    <2> QED
      BY <1>1, <2>1, <2>2, LeaseTypes
  <1>4. CASE /\ UNCHANGED leases
             /\ c.op = "release" => leases[Server][c.id] = None
    BY <1>1, <1>4 DEF vars, TypeOK
  <1> QED
    BY <1>1, <1>2, <1>3, <1>4 DEF CarryOut

LEMMA AnswerKeeps ==
  ASSUME PairingInv, NEW c \in calls, Answer(c)
  PROVE  PairingInv'
  <1>1. /\ TypeOK'
        /\ \A t \in ClientIds \ {c.id} : leases'[Server][t] = leases[Server][t]
        /\ c.op = "release" => leases'[Server][c.id] = None
    BY CarriedOut DEF PairingInv, Answer
  <1>2. /\ calls' = calls \ {c}
        /\ UNCHANGED <<noiseKey, devices, logged>>
        /\ c.op \in {"allocate", "release"} /\ c.id \in Tokens \cup Keys
        /\ c.by \in Procs \cup {None}
    BY DEF Answer, PairingInv, PairingTypeOK
  <1>3. CASE c.by = None
    <2>1. UNCHANGED <<req, odd>> /\ c.id \notin Tokens \ odd
      BY <1>3 DEF Answer, PairingInv, Late
    <2>2. PairingTypeOK' /\ OneRow'
      BY <1>1, <1>2, <2>1 DEF PairingInv, PairingTypeOK, OneRow
    <2>3. Leased'
      BY <1>1, <1>2, <2>1, IdsApart DEF PairingInv, Leased, Pending, Listed
    <2>4. NotAlone' /\ Late' /\ Calling'
      BY <1>2, <2>1 DEF PairingInv, NotAlone, Late, Calling
    <2>5. AloneSoFar' /\ Overtaken' /\ Paired' /\ Told'
      BY <1>2, <2>1
      DEF PairingInv, AloneSoFar, Overtaken, Paired, Told, Pending, Listed
    <2> QED
      BY <2>2, <2>3, <2>4, <2>5 DEF PairingInv
  <1>4. CASE c.by # None
    <2>0. PICK p \in Procs : p = c.by
      BY <1>2, <1>4
    <2> DEFINE r == req[p]
    <2>1. /\ r.at = "call" /\ r.id = c.id /\ r # Idle /\ Sound(Idle)
          /\ r.op = IF c.op = "allocate" THEN "add" ELSE "remove"
          /\ c.op = "allocate" => c.id \in Tokens
      BY <1>2, <1>4, <2>0
      DEF PairingInv, PairingTypeOK, Calling, Idle, Request, Sound
    <2>k. PICK k \in Tokens \cup Keys : k = c.id
      BY <1>2
    <2> DEFINE agree == Settled(r) /\ (c.op = "allocate" => leases'[Server][k] # None)
    <2>2. /\ req' = [req EXCEPT ![p] = Idle]
          /\ odd' = IF agree THEN odd \ {k} ELSE odd \cup {k}
      BY <1>4, <2>0, <2>k DEF Answer
    <2>3. /\ DOMAIN req' = Procs /\ \A q \in Procs : Sound(req'[q])
          /\ req'[p] = Idle /\ \A q \in Procs \ {p} : req'[q] = req[q]
          /\ NotAlone'
      BY <2>1, <2>2, Narrowed DEF PairingInv
    <2>4. agree => /\ k \in Tokens /\ r.alone
                   /\ leases'[Server][k] # None <=> Listed(k)
      <3>1. ASSUME agree
            PROVE  k \in Tokens /\ r.alone
        BY <1>2, <2>1, <2>k, <3>1 DEF Settled
      <3>2. ASSUME agree
            PROVE  leases'[Server][k] # None <=> Listed(k)
        BY <1>1, <1>2, <2>1, <2>k, <3>1, <3>2 DEF PairingInv, AloneSoFar
      <3> QED
        BY <3>1, <3>2
    <2> HIDE DEF agree
    <2>5. \A id : Pending(id) \/ id \in odd =>
            Pending(id)' \/ id \in odd' \/ (id = k /\ agree)
      BY <2>1, <2>2, <2>3, <2>k DEF Pending
    <2>6. PairingTypeOK' /\ OneRow'
      BY <1>1, <1>2, <2>2, <2>3, <2>k DEF PairingInv, PairingTypeOK, OneRow
    <2>7. Late'
      BY <1>2, <2>1, <2>2, <2>3, <2>4, <2>k, IdsApart
      DEF PairingInv, Late, Idle, Request
    <2>8. Calling'
      <3>1. ASSUME NEW e \in calls, e.by = p
            PROVE  e = c
        BY <1>2, <1>4, <2>0, <2>1, <3>1 DEF PairingInv, PairingTypeOK, Calling
      <3> QED
        BY <1>2, <2>0, <2>3, <3>1 DEF PairingInv, PairingTypeOK, Calling
    <2>9. AloneSoFar'
      BY <1>2, <2>3 DEF PairingInv, AloneSoFar, Listed, Idle, Request
    <2>10. Overtaken'
      <3>1. \A q \in Procs :
              req[q].op = "unbind"
                /\ noiseKey[req[q].user] \notin {req[q].id, None} =>
              noiseKey[req[q].user] \notin Tokens
        BY IdsApart, SoundShape DEF PairingInv, PairingTypeOK, Idle, Request
      <3> QED
        BY <1>2, <2>3, <2>4, <2>5, <3>1 DEF PairingInv, Overtaken, Idle, Request
    <2>11. Leased'
      <3>1. \A t \in Tokens \ {k} : leases'[Server][t] = leases[Server][t]
        BY <1>1, <2>k, IdsApart
      <3> QED
        BY <1>2, <2>2, <2>4, <2>5, <3>1 DEF PairingInv, Leased, Listed
    <2>12. Paired' /\ Told'
      BY <1>2, <2>4, <2>5, IdsApart DEF PairingInv, Paired, Told, Listed
    <2> QED
      BY <2>3, <2>6, <2>7, <2>8, <2>9, <2>10, <2>11, <2>12 DEF PairingInv
  <1> QED
    BY <1>3, <1>4

LEMMA GiveUpKeeps ==
  ASSUME PairingInv, NEW c \in calls, GiveUp(c)
  PROVE  PairingInv'
  <1>1. /\ c.op \in {"allocate", "release"} /\ c.id \in Tokens \cup Keys
        /\ c.by \in Procs /\ c.by # None
    BY DEF GiveUp, PairingInv, PairingTypeOK
  <1>0. PICK p \in Procs : p = c.by
    BY <1>1
  <1> DEFINE r == req[p]
  <1>k. PICK k \in Tokens \cup Keys : k = c.id
    BY <1>1
  <1>2. /\ r.at = "call" /\ r.id = k /\ r # Idle /\ Sound(Idle)
        /\ r.op = IF c.op = "allocate" THEN "add" ELSE "remove"
    BY <1>0, <1>1, <1>k
    DEF PairingInv, PairingTypeOK, Calling, Idle, Request, Sound
  <1>3. /\ req' = [req EXCEPT ![p] = Idle]
        /\ odd' = odd \cup {k}
        /\ calls \ {c} \subseteq calls'
        /\ calls' \subseteq (calls \ {c}) \cup {Call(c.op, k, None)}
        /\ UNCHANGED <<leases, noiseKey, devices, logged>>
    BY <1>0, <1>k DEF GiveUp
  <1>4. /\ DOMAIN req' = Procs /\ \A q \in Procs : Sound(req'[q])
        /\ req'[p] = Idle /\ \A q \in Procs \ {p} : req'[q] = req[q]
        /\ NotAlone'
    BY <1>2, <1>3, Narrowed DEF PairingInv
  <1>5. \A id : Pending(id) \/ id \in odd => Pending(id)' \/ id \in odd'
    BY <1>2, <1>3, <1>4 DEF Pending
  <1>6. PairingTypeOK' /\ OneRow'
    <2>1. calls' \subseteq [op : {"allocate", "release"}, id : Tokens \cup Keys,
                            by : Procs \cup {None}]
      BY <1>1, <1>3 DEF PairingInv, PairingTypeOK, Call
    <2> QED
      BY <1>3, <1>4, <2>1 DEF PairingInv, PairingTypeOK, TypeOK, OneRow
  <1>7. Late'
    <2>1. \A q \in Procs \ {p} : req[q].alone /\ req[q] # Idle => req[q].id # k
      BY <1>2, NoneAloneWithId, IdsApart DEF PairingInv
    <2>2. Idle.id \notin Tokens \cup Keys
      BY IdsApart DEF Idle, Request
    <2>3. \A q \in Procs : req'[q].id = k => ~req'[q].alone
      BY <1>4, <2>1, <2>2
    <2>4. \A e \in calls' : e \in calls \/ e.id = k
      BY <1>3 DEF Call
    <2>5. ASSUME NEW e \in calls', e.by = None, e.id \in Tokens
          PROVE  e.id \in odd' /\ \A q \in Procs : req'[q].id = e.id => ~req'[q].alone
      <3>1. CASE e.id = k
        BY <1>3, <2>3, <3>1
      <3>2. CASE e.id # k
        BY <1>3, <1>4, <2>2, <2>4, <2>5, <3>2 DEF PairingInv, Late
      <3> QED
        BY <3>1, <3>2
    <2> QED
      BY <2>5 DEF Late
  <1>8. Calling'
    <2>1. ASSUME NEW e \in calls, e.by = p
          PROVE  e = c
      BY <1>0, <1>1, <1>2, <1>k, <2>1 DEF PairingInv, PairingTypeOK, Calling
    <2>2. \A e \in calls' : e.by # None => e \in calls \ {c}
      BY <1>3 DEF Call
    <2> QED
      BY <1>4, <2>1, <2>2 DEF PairingInv, PairingTypeOK, Calling
  <1>9. AloneSoFar'
    BY <1>3, <1>4 DEF PairingInv, AloneSoFar, Listed, Idle, Request
  <1>10. Overtaken'
    BY <1>3, <1>4, <1>5 DEF PairingInv, Overtaken, Idle, Request
  <1>11. Leased' /\ Paired' /\ Told'
    BY <1>3, <1>5 DEF PairingInv, Leased, Paired, Told, Listed
  <1> QED
    BY <1>4, <1>6, <1>7, <1>8, <1>9, <1>10, <1>11 DEF PairingInv

LEMMA OthersStep ==
  ASSUME PairingTypeOK, Others
  PROVE  Next /\ TypeOK'
  <1>1. Server \in Daemons
    BY PairingAssumption
  <1>2. Next
    BY <1>1 DEF Others, Next
  <1> QED
    BY <1>2, LeaseTypes DEF PairingTypeOK

LEMMA OthersKeep ==
  ASSUME PairingInv, Others
  PROVE  PairingInv'
  <1>1. /\ TypeOK'
        /\ UNCHANGED <<noiseKey, devices, logged, req, calls>>
        /\ odd' = odd \cup {t \in Tokens : leases'[Server][t] # leases[Server][t]}
    BY OthersStep DEF PairingInv, Others
  <1>2. PairingTypeOK' /\ OneRow'
    BY <1>1 DEF PairingInv, PairingTypeOK, OneRow
  <1>3. NotAlone' /\ Late' /\ Calling' /\ AloneSoFar'
    BY <1>1 DEF PairingInv, NotAlone, Late, Calling, AloneSoFar, Listed
  <1>4. Overtaken' /\ Leased' /\ Paired' /\ Told'
    BY <1>1 DEF PairingInv, Overtaken, Leased, Paired, Told, Pending, Listed
  <1> QED
    BY <1>2, <1>3, <1>4 DEF PairingInv

LEMMA AloneField ==
  ASSUME NEW r, r = Request(r.op, r.at, r.user, r.id, r.slot, r.alone), NEW b
  PROVE  [r EXCEPT !.alone = b] = Request(r.op, r.at, r.user, r.id, r.slot, b)
  BY DEF Request

\* A request begins: those about the same device are no longer alone.
LEMMA BeginKeeps ==
  ASSUME PairingInv, NEW p \in Procs, NEW r, Begin(p, r), Sound(r),
         r # Idle, ~Wrote(r), r.at \notin {"call", "clear"}
  PROVE  PairingInv'
  <1> DEFINE free == /\ \A s \in Procs : ~Meets(s, r)
                     /\ \A c \in calls : c.id # r.id
             n == Request(r.op, r.at, r.user, r.id, r.slot, free)
             Mate(q) == Request(req[q].op, req[q].at, req[q].user, req[q].id,
                                req[q].slot, FALSE)
  <1>1. /\ req[p] = Idle
        /\ UNCHANGED <<leases, noiseKey, devices, logged, calls, odd>>
        /\ DOMAIN req' = Procs
    BY DEF Begin
  <1>2. /\ r = Request(r.op, r.at, r.user, r.id, r.slot, r.alone)
        /\ r.op # "none"
    BY DEF Sound
  <1>3. req'[p] = n
    <2>1. [r EXCEPT !.alone = free] = n
      BY <1>2, AloneField
    <2> QED
      BY <2>1 DEF Begin
  <1>4. /\ Sound(n) /\ n # Idle /\ n.op = r.op /\ n.at = r.at /\ n.id = r.id
        /\ n.user = r.user /\ n.alone = free /\ Concerns(n) = Concerns(r)
        /\ ~Wrote(n)
    <2>1. /\ n.op = r.op /\ n.at = r.at /\ n.user = r.user /\ n.id = r.id
          /\ n.slot = r.slot /\ n.alone = free /\ free \in BOOLEAN
          /\ n = Request(n.op, n.at, n.user, n.id, n.slot, n.alone)
          /\ Idle.op = "none"
      BY DEF Request, Idle
    <2> HIDE DEF n, free
    <2> QED
      BY <1>2, <2>1 DEF Sound, Concerns, AboutKeys, Wrote
  <1>5. ASSUME NEW q \in Procs \ {p}
        PROVE  /\ Sound(req'[q])
               /\ req'[q] = Idle <=> req[q] = Idle
               /\ req'[q].op = req[q].op /\ req'[q].at = req[q].at
               /\ req'[q].id = req[q].id /\ req'[q].user = req[q].user
               /\ Concerns(req'[q]) = Concerns(req[q])
               /\ Wrote(req'[q]) = Wrote(req[q])
               /\ req'[q].alone => req[q].alone
               /\ Meets(q, r) => ~req'[q].alone
    <2>1. CASE ~Meets(q, r)
      BY <2>1, <1>1 DEF Begin, PairingInv, PairingTypeOK
    <2>2. CASE Meets(q, r)
      <3>1. /\ req[q] # Idle /\ Sound(req[q])
            /\ req[q] = Request(req[q].op, req[q].at, req[q].user, req[q].id,
                                req[q].slot, req[q].alone)
            /\ req[q].op # "none"
        BY <2>2 DEF Meets, PairingInv, PairingTypeOK, Sound
      <3>2. [req[q] EXCEPT !.alone = FALSE] = Mate(q)
        BY <3>1, AloneField
      <3>3. req'[q] = Mate(q)
        BY <2>2, <3>2 DEF Begin
      <3>4. /\ Mate(q).op = req[q].op /\ Mate(q).at = req[q].at
            /\ Mate(q).user = req[q].user /\ Mate(q).id = req[q].id
            /\ Mate(q).slot = req[q].slot /\ Mate(q).alone = FALSE
            /\ Mate(q) = Request(Mate(q).op, Mate(q).at, Mate(q).user,
                                 Mate(q).id, Mate(q).slot, Mate(q).alone)
            /\ Idle.op = "none"
        BY DEF Request, Idle
      <3> HIDE DEF Mate
      <3>5. req'[q].op # "none" /\ req'[q] # Idle
        BY <3>1, <3>3, <3>4
      <3>6. Sound(req'[q])
        BY <3>1, <3>3, <3>4 DEF Sound
      <3>7. /\ Concerns(req'[q]) = Concerns(req[q])
            /\ Wrote(req'[q]) = Wrote(req[q])
        BY <3>3, <3>4 DEF Concerns, AboutKeys, Wrote
      <3> QED
        BY <3>1, <3>3, <3>4, <3>5, <3>6, <3>7
    <2> QED
      BY <2>1, <2>2
  <1> HIDE DEF n
  <1>6. /\ ~Wrote(Idle) /\ Idle.at = "idle"
        /\ \A id : Pending(id)' <=> Pending(id)
    <2>1. ~Wrote(Idle) /\ Idle.at = "idle"
      BY DEF Wrote, Idle, Request
    <2> QED
      BY <1>1, <1>3, <1>4, <1>5, <2>1 DEF Pending
  <1>7. PairingTypeOK' /\ OneRow'
    BY <1>1, <1>3, <1>4, <1>5 DEF PairingInv, PairingTypeOK, TypeOK, OneRow
  <1>8. NotAlone'
    <2>1. ASSUME NEW q \in Procs \ {p}, req[q] # Idle,
                 Concerns(req[q]) \cap Concerns(r) # {}
          PROVE  ~req'[p].alone /\ ~req'[q].alone
      BY <1>3, <1>4, <1>5, <2>1 DEF Meets
    <2>2. ASSUME NEW q \in Procs, NEW s \in Procs, q # s, req'[q] # Idle,
                 req'[s] # Idle, Concerns(req'[q]) \cap Concerns(req'[s]) # {}
          PROVE  ~req'[q].alone
      <3>1. CASE q = p
        BY <1>3, <1>4, <1>5, <2>1, <2>2, <3>1
      <3>2. CASE s = p
        BY <1>3, <1>4, <1>5, <2>1, <2>2, <3>2
      <3>3. CASE q # p /\ s # p
        BY <1>5, <2>2, <3>3 DEF PairingInv, NotAlone
      <3> QED
        BY <3>1, <3>2, <3>3
    <2> QED
      BY <2>2 DEF NotAlone
  <1>9. Late'
    <2>1. \A c \in calls : c.id = n.id => ~n.alone
      BY <1>4
    <2> QED
      BY <1>1, <1>3, <1>5, <2>1 DEF PairingInv, Late
  <1>10. Calling'
    BY <1>1, <1>3, <1>4, <1>5, <1>6 DEF PairingInv, PairingTypeOK, Calling
  <1>11. AloneSoFar'
    <2>1. ASSUME NEW q \in Procs, q # p, req'[q].alone
          PROVE  LET x == req[q] IN
                 /\ x.op = "bind" /\ x.at # "store" => noiseKey[x.user] = x.id
                 /\ x.op = "bind" /\ x.at = "block" => Listed(x.id)
                 /\ x.op = "unbind" /\ x.at = "clear" => noiseKey[x.user] = x.id
                 /\ x.op = "unbind" /\ x.at \in {"delete", "block"} =>
                      noiseKey[x.user] = None
                 /\ x.op = "unbind" /\ x.at = "block" => ~Listed(x.id)
                 /\ x.op = "add" /\ x.at = "call" => Listed(x.id)
                 /\ x.op = "remove" /\ x.at = "call" => ~Listed(x.id)
      BY <1>5, <2>1 DEF PairingInv, AloneSoFar
    <2>2. /\ n.op = "bind" => n.at = "store"
          /\ n.op = "unbind" => n.at \notin {"clear", "delete", "block"}
          /\ n.at # "call"
      BY <1>4 DEF Wrote
    <2> QED
      BY <1>1, <1>3, <1>5, <2>1, <2>2 DEF AloneSoFar, Listed
  <1>12. Overtaken'
    BY <1>1, <1>3, <1>4, <1>5, <1>6 DEF PairingInv, Overtaken
  <1>13. Leased' /\ Paired' /\ Told'
    BY <1>1, <1>6 DEF PairingInv, Leased, Paired, Told, Listed
  <1> QED
    BY <1>7, <1>8, <1>9, <1>10, <1>11, <1>12, <1>13 DEF PairingInv

LEMMA AskKeeps ==
  ASSUME PairingInv, NEW p \in Procs, Ask(p)
  PROVE  PairingInv'
  <1>1. PICK u \in Users :
          \/ \E k \in KeysOf[u] : Begin(p, Request("bind", "store", u, k, 0, TRUE))
          \/ Begin(p, Request("unbind", "read", u, None, 0, TRUE))
          \/ \E t \in Tokens : Begin(p, Request("add", "count", u, t, 0, TRUE))
          \/ \E d \in RowsOf(u) : Begin(p, Request("remove", "delete", u, d.id, 0, TRUE))
    BY DEF Ask
  <1> DEFINE Fit(r) == Sound(r) /\ r # Idle /\ ~Wrote(r) /\ r.at \notin {"call", "clear"}
  <1>2. \A k \in KeysOf[u] : Fit(Request("bind", "store", u, k, 0, TRUE))
    BY DEF Sound, Request, Idle, Wrote
  <1>3. Fit(Request("unbind", "read", u, None, 0, TRUE))
    BY DEF Sound, Request, Idle, Wrote
  <1>4. \A t \in Tokens : Fit(Request("add", "count", u, t, 0, TRUE))
    BY DEF Sound, Request, Idle, Wrote
  <1>5. \A d \in RowsOf(u) : Fit(Request("remove", "delete", u, d.id, 0, TRUE))
    <2>1. \A d \in RowsOf(u) : d.id \in Tokens \cup KeysOf[u]
      BY DEF RowsOf, PairingInv, PairingTypeOK
    <2> QED
      BY <2>1 DEF Sound, Request, Idle, Wrote
  <1>6. ASSUME NEW r, Fit(r), Begin(p, r)
        PROVE  PairingInv'
    <2>1. /\ Sound(r) /\ r # Idle /\ ~Wrote(r)
          /\ r.at \notin {"call", "clear"} /\ Begin(p, r)
      BY <1>6
    <2> QED
      BY <2>1, BeginKeeps
  <1> HIDE DEF Fit
  <1>7. CASE \E k \in KeysOf[u] :
               Begin(p, Request("bind", "store", u, k, 0, TRUE))
    BY <1>2, <1>6, <1>7
  <1>8. CASE Begin(p, Request("unbind", "read", u, None, 0, TRUE))
    BY <1>3, <1>6, <1>8
  <1>9. CASE \E t \in Tokens :
               Begin(p, Request("add", "count", u, t, 0, TRUE))
    BY <1>4, <1>6, <1>9
  <1>10. CASE \E d \in RowsOf(u) :
                Begin(p, Request("remove", "delete", u, d.id, 0, TRUE))
    BY <1>5, <1>6, <1>10
  <1> QED
    BY <1>1, <1>7, <1>8, <1>9, <1>10

LEMMA PairingStep ==
  ASSUME PairingInv, [PairingNext]_pairingVars
  PROVE  PairingInv'
  <1>1. CASE UNCHANGED pairingVars
    <2>1. UNCHANGED <<req, leases, noiseKey, devices, logged, calls, odd>>
      BY <1>1 DEF pairingVars
    <2>2. PairingTypeOK' /\ OneRow' /\ NotAlone' /\ Late' /\ Calling'
      BY <2>1 DEF PairingInv, PairingTypeOK, TypeOK, OneRow, NotAlone, Late,
                  Calling
    <2>3. AloneSoFar' /\ Overtaken' /\ Told'
      BY <2>1 DEF PairingInv, AloneSoFar, Overtaken, Told, Pending, Listed
    <2>4. Leased' /\ Paired'
      BY <2>1 DEF PairingInv, Leased, Paired, Pending, Listed
    <2> QED
      BY <2>2, <2>3, <2>4 DEF PairingInv
  <1>2. ASSUME NEW p \in Procs,
               Ask(p) \/ Bind(p) \/ Unbind(p) \/ Device(p) \/ LogEvent(p) \/ Fail(p)
        PROVE  PairingInv'
    <2>1. CASE Ask(p)
      BY <2>1, AskKeeps
    <2>2. CASE Bind(p)
      BY <2>2, StoreKeyKeeps, FindRowKeeps DEF Bind
    <2>3. CASE Unbind(p)
      BY <2>3, ReadKeyKeeps, ClearKeyKeeps, DeletePairedKeeps DEF Unbind
    <2>4. CASE Device(p)
      BY <2>4, CountRowsKeeps, PickSlotKeeps, InsertRowKeeps, FailKeeps,
         DeleteDeviceKeeps DEF Device, InsertFails
    <2>5. CASE LogEvent(p)
      BY <2>5, LogEventKeeps
    <2>6. CASE Fail(p)
      BY <2>6, FailKeeps
    <2> QED
      BY <1>2, <2>1, <2>2, <2>3, <2>4, <2>5, <2>6
  <1>3. ASSUME NEW c \in calls, Answer(c) \/ GiveUp(c)
        PROVE  PairingInv'
    BY <1>3, AnswerKeeps, GiveUpKeeps
  <1>4. CASE Others
    BY <1>4, OthersKeep
  <1> QED
    BY <1>1, <1>2, <1>3, <1>4 DEF PairingNext

LEMMA PairingInductive == PairingSpec => []PairingInv
  <1>1. PairingInit => PairingInv
    <2> SUFFICES ASSUME PairingInit
                 PROVE  PairingInv
      OBVIOUS
    <2>1. /\ DOMAIN req = Procs /\ devices = {} /\ calls = {} /\ odd = {}
          /\ \A p \in Procs : req[p] = Idle
          /\ Sound(Idle) /\ Idle.op = "none" /\ ~Wrote(Idle)
      BY DEF PairingInit, Sound, Idle, Request, Wrote
    <2>2. TypeOK /\ \A t \in ClientIds : leases[Server][t] = None
      BY PairingAssumption DEF PairingInit, Init, TypeOK
    <2>3. PairingTypeOK /\ OneRow
      BY <2>1, <2>2 DEF PairingInit, PairingTypeOK, OneRow
    <2>4. NotAlone /\ Late /\ Calling /\ AloneSoFar /\ Overtaken
      BY <2>1 DEF NotAlone, Late, Calling, AloneSoFar, Overtaken
    <2>5. Leased /\ Paired /\ Told
      BY <2>1, <2>2, IdsApart DEF PairingInit, Leased, Paired, Told, Listed
    <2> QED
      BY <2>3, <2>4, <2>5 DEF PairingInv
  <1> QED
    BY <1>1, PairingStep, PTL DEF PairingSpec

\* Keys, rows, requests and calls stay in their types, and a key stays with
\* the account whose wallet yields it.
THEOREM PairingTypes == PairingSpec => []PairingTypeOK
  <1>1. PairingInv => PairingTypeOK
    BY DEF PairingInv
  <1> QED
    BY <1>1, PairingInductive, PTL

\* After a request that ran alone to its end a client's key, row and block
\* tell one story, whatever failed or met before.
THEOREM StoryAlwaysOne == PairingSpec => []OneStory
  <1>1. ASSUME PairingInv
        PROVE  OneStory
    <2>1. ASSUME NEW id \in Tokens \cup Keys, AtRest(id)
          PROVE  ~Pending(id)
      BY <1>1, <2>1, SoundShape DEF PairingInv, PairingTypeOK, AtRest, Pending
    <2>2. ASSUME NEW u \in Users, NEW k \in KeysOf[u], k \notin odd, AtRest(k)
          PROVE  noiseKey[u] = k <=> \E d \in devices : d.user = u /\ d.id = k
      BY <1>1, <2>1, <2>2, IdsApart
      DEF PairingInv, PairingTypeOK, Paired, Listed
    <2>3. ASSUME NEW u \in Users, \A k \in KeysOf[u] : AtRest(k) /\ k \notin odd
          PROVE  noiseKey[u] # None <=> logged[u] = "bound"
      BY <1>1, <2>1, <2>3, IdsApart DEF PairingInv, Told
    <2> QED
      BY <2>2, <2>3 DEF OneStory
  <1> QED
    BY <1>1, PairingInductive, PTL

\* In the same sense a listed browser has a lease and another has none.
THEOREM LeasesForDevices == PairingSpec => []LeaseForDevice
  <1>1. ASSUME PairingInv
        PROVE  LeaseForDevice
    <2>1. ASSUME NEW t \in Tokens, AtRest(t)
          PROVE  ~Pending(t)
      BY <1>1, <2>1, SoundShape DEF PairingInv, PairingTypeOK, AtRest, Pending
    <2> QED
      BY <1>1, <2>1 DEF PairingInv, Leased, LeaseForDevice, Listed
  <1> QED
    BY <1>1, PairingInductive, PTL

\* What the portal asks of the daemon, late calls included, are steps of its
\* leases: a client that has a lease is never moved by it to another address, and
\* two clients share one only under different spellings.
THEOREM PortalKeepsLeases ==
  PairingSpec => Spec /\ NeverSwapped /\ []SharedOnlyBySpelling
  <1>1. PairingInit => Init
    BY DEF PairingInit
  <1>2. ASSUME PairingInv, [PairingNext]_pairingVars
        PROVE  [Next]_vars
    <2>1. CASE UNCHANGED leases
      BY <2>1 DEF vars
    <2>2. ASSUME NEW c \in calls, Answer(c)
          PROVE  [Next]_vars
      BY <1>2, <2>2, CarriedOut DEF PairingInv, Answer
    <2>3. CASE Others
      BY <1>2, <2>3, OthersStep DEF PairingInv
    <2>4. ASSUME NEW c \in calls, GiveUp(c)
          PROVE  UNCHANGED leases
      BY <2>4 DEF GiveUp
    <2>5. ASSUME NEW p \in Procs,
                 Ask(p) \/ Bind(p) \/ Unbind(p) \/ Device(p) \/ LogEvent(p) \/ Fail(p)
          PROVE  UNCHANGED leases
      BY <2>5
      DEF Ask, Begin, Bind, StoreKey, FindRow, Unbind, ReadKey, ClearKey,
         DeletePaired, Device, CountRows, PickSlot, InsertRow, InsertFails,
         DeleteDevice, LogEvent, Fail
    <2> QED
      BY <1>2, <2>1, <2>2, <2>3, <2>4, <2>5 DEF PairingNext, pairingVars
  <1>3. PairingSpec => Spec
    BY <1>1, <1>2, PairingInductive, PTL DEF PairingSpec, Spec
  <1> QED
    BY <1>3, LeasesUnique, LeasesNeverSwapped, PTL
=============================================================================
