--------------------------- MODULE HandshakeProofs ----------------------------
(***************************************************************************)
(* Proofs about Handshake, for any numbers of keys, attempts, sessions and *)
(* faults.  The first part is algebra: what goes into the hashes and keys  *)
(* of both ends, and that a text opens only for who put the same in.  The  *)
(* second is the invariant: every message on its way is as somebody wrote  *)
(* it or dead, every session is what its message A and its key make it.    *)
(***************************************************************************)
EXTENDS Handshake, SequenceTheorems, TLAPS

-----------------------------------------------------------------------------
(* What the handshake's hashes and keys are made of.                       *)

LEMMA AppendAt ==
  ASSUME NEW S, NEW s \in Seq(S), NEW x \in S, NEW n \in Nat, Len(s) = n
  PROVE  /\ Append(s, x) \in Seq(S)
         /\ Len(Append(s, x)) = n + 1
         /\ Append(s, x)[n + 1] = x
         /\ \A i \in 1 .. n : Append(s, x)[i] = s[i]
  BY AppendProperties

LEMMA Appended4 ==
  ASSUME NEW S, NEW a \in S, NEW b \in S, NEW c \in S, NEW d \in S
  PROVE  LET s == Append(Append(Append(<<a>>, b), c), d)
         IN s \in Seq(S) /\ Len(s) = 4 /\ s[3] = c /\ s[4] = d
  <1>1. <<a>> \in Seq(S) /\ Len(<<a>>) = 1
    OBVIOUS
  <1>2. PICK s2 : s2 = Append(<<a>>, b)
    OBVIOUS
  <1>3. s2 \in Seq(S) /\ Len(s2) = 1 + 1
    BY <1>1, <1>2, AppendAt
  <1>4. PICK s3 : s3 = Append(s2, c)
    OBVIOUS
  <1>5. s3 \in Seq(S) /\ Len(s3) = 2 + 1 /\ s3[2 + 1] = c
    BY <1>3, <1>4, AppendAt
  <1>6. PICK s4 : s4 = Append(s3, d)
    OBVIOUS
  <1>7. s4 \in Seq(S) /\ Len(s4) = 3 + 1 /\ s4[3 + 1] = d /\ s4[3] = c
    BY <1>5, <1>6, AppendAt
  <1> QED
    BY <1>2, <1>4, <1>6, <1>7

LEMMA Appended5 ==
  ASSUME NEW S, NEW a \in S, NEW b \in S, NEW c \in S, NEW d \in S, NEW e \in S
  PROVE  LET s == Append(Append(Append(Append(<<a>>, b), c), d), e)
         IN s \in Seq(S) /\ Len(s) = 5 /\ s[4] = d /\ s[5] = e
  <1>1. PICK s4 : s4 = Append(Append(Append(<<a>>, b), c), d)
    OBVIOUS
  <1>2. s4 \in Seq(S) /\ Len(s4) = 3 + 1 /\ s4[3 + 1] = d
    BY <1>1, Appended4
  <1>3. PICK s5 : s5 = Append(s4, e)
    OBVIOUS
  <1>4. s5 \in Seq(S) /\ Len(s5) = 4 + 1 /\ s5[4 + 1] = e /\ s5[4] = d
    BY <1>2, <1>3, AppendAt
  <1> QED
    BY <1>1, <1>3, <1>4

LEMMA Sixth ==
  ASSUME NEW S, NEW s \in Seq(S), Len(s) = 5, NEW x \in S
  PROVE  /\ Append(s, x) \in Seq(S) /\ Len(Append(s, x)) = 6
         /\ Append(s, x)[6] = x
         /\ Append(s, x)[4] = s[4] /\ Append(s, x)[5] = s[5]
  <1>1. PICK t : t = Append(s, x)
    OBVIOUS
  <1>2. /\ t \in Seq(S) /\ Len(t) = 5 + 1 /\ t[5 + 1] = x
        /\ \A i \in 1 .. 5 : t[i] = s[i]
    BY <1>1, AppendAt
  <1> QED
    BY <1>1, <1>2

LEMMA Seventh ==
  ASSUME NEW S, NEW t \in Seq(S), Len(t) = 6, NEW y \in S
  PROVE  Append(t, y)[7] = y /\ Append(t, y)[4] = t[4]
  <1>1. PICK u : u = Append(t, y)
    OBVIOUS
  <1>2. u[6 + 1] = y /\ \A i \in 1 .. 6 : u[i] = t[i]
    BY <1>1, AppendAt
  <1> QED
    BY <1>1, <1>2

LEMMA AppendedTwo ==
  ASSUME NEW S, NEW s \in Seq(S), Len(s) = 5, NEW x \in S, NEW y \in S
  PROVE  /\ Append(s, x) \in Seq(S) /\ Len(Append(s, x)) = 6
         /\ Append(s, x)[6] = x
         /\ \A i \in {4, 5} : Append(s, x)[i] = s[i]
         /\ Append(Append(s, x), y)[7] = y
         /\ Append(Append(s, x), y)[4] = s[4]
  <1>1. PICK t : t = Append(s, x)
    OBVIOUS
  <1>2. /\ t \in Seq(S) /\ Len(t) = 6 /\ t[6] = x
        /\ t[4] = s[4] /\ t[5] = s[5]
    BY ONLY s \in Seq(S), Len(s) = 5, x \in S, <1>1, Sixth
  <1>3. t \in Seq(S) /\ Len(t) = 6
    BY <1>2
  <1>4. Append(t, y)[7] = y /\ Append(t, y)[4] = t[4]
    BY ONLY <1>3, y \in S, Seventh
  <1> QED
    BY <1>1, <1>2, <1>4

LEMMA Appended6 ==
  ASSUME NEW a, NEW b, NEW c, NEW d, NEW e, NEW f
  PROVE  LET s == Append(Append(Append(Append(Append(<<a>>, b), c), d), e), f)
         IN Len(s) = 6 /\ s[5] = e /\ s[6] = f
  <1>1. PICK S : S = {a, b, c, d, e, f}
    OBVIOUS
  <1>2. /\ a \in S /\ b \in S /\ c \in S
        /\ d \in S /\ e \in S /\ f \in S
    BY <1>1
  <1>3. PICK s : s = Append(Append(Append(Append(<<a>>, b), c), d), e)
    OBVIOUS
  <1>4. s \in Seq(S) /\ Len(s) = 5 /\ s[5] = e
    BY ONLY <1>2, <1>3, Appended5
  <1>5. /\ Len(Append(s, f)) = 6 /\ Append(s, f)[6] = f
        /\ Append(s, f)[5] = s[5]
    BY ONLY <1>2, <1>4, AppendedTwo
  <1> QED
    BY <1>3, <1>4, <1>5

LEMMA Appended7 ==
  ASSUME NEW a, NEW b, NEW c, NEW d, NEW e, NEW f, NEW g
  PROVE  LET s == Append(Append(Append(
                    Append(Append(Append(<<a>>, b), c), d), e), f), g)
         IN s[4] = d /\ s[7] = g
  <1>1. PICK S : S = {a, b, c, d, e, f, g}
    OBVIOUS
  <1>2. /\ a \in S /\ b \in S /\ c \in S /\ d \in S
        /\ e \in S /\ f \in S /\ g \in S
    BY <1>1
  <1>3. PICK s : s = Append(Append(Append(Append(<<a>>, b), c), d), e)
    OBVIOUS
  <1>4. s \in Seq(S) /\ Len(s) = 5 /\ s[4] = d
    BY ONLY <1>2, <1>3, Appended5
  <1>5. /\ Append(Append(s, f), g)[7] = g
        /\ Append(Append(s, f), g)[4] = s[4]
    BY ONLY <1>2, <1>4, AppendedTwo
  <1> QED
    BY <1>3, <1>4, <1>5

-----------------------------------------------------------------------------
(* Message A.                                                              *)

\* The hash that its static key is sealed with.
HashA(p, e) == Append(Append(Append(<<Name>>, Prologue), p), e)

LEMMA HashAFields ==
  ASSUME NEW p, NEW e
  PROVE  HashA(p, e)[3] = p /\ HashA(p, e)[4] = e
  <1>1. PICK S : S = {Name, Prologue, p, e}
    OBVIOUS
  <1> QED
    BY <1>1, Appended4 DEF HashA

\* The initiator's state once it is written; ns and text are its two texts.
StateA(w, p, e, ns, text) ==
  Symmetric(Append(Append(HashA(p, e), ns), text),
            Append(Append(<<Name>>, DH(e, p)), DH(w, p)),
            Append(Append(<<Name>>, DH(e, p)), DH(w, p)), 1)

LEMMA StartState ==
  ASSUME NEW p, NEW e
  PROVE  MixKey(MixHash(MixHash(MixHash(InitSymmetric, Prologue), p), e),
                DH(e, p))
         = Symmetric(HashA(p, e), Append(<<Name>>, DH(e, p)),
                     Append(<<Name>>, DH(e, p)), 0)
  BY DEF MixKey, MixHash, InitSymmetric, Symmetric, HashA

\* Message A with its texts, and the session that wrote it.
OpeningShape(w, p, e, ns, text) ==
  /\ Opening(w, p, e).m = Message(e, ns, text)
  /\ Opening(w, p, e).x =
       Session(TRUE, 1, w, e, p, NoKey, StateA(w, p, e, ns, text))
  /\ ns.plain = w /\ ns.ad = HashA(p, e)
  /\ ns.k = Append(<<Name>>, DH(e, p)) /\ ns.n = 0
  /\ text.k = Append(Append(<<Name>>, DH(e, p)), DH(w, p))
  /\ text.n = 0 /\ text.ad = Append(HashA(p, e), ns)

LEMMA OpeningIs ==
  ASSUME NEW w, NEW p, NEW e
  PROVE  \E ns, text : OpeningShape(w, p, e, ns, text)
  <1>1. PICK x : x = NewInitiator(w, p)
    OBVIOUS
  <1>2. /\ x.i = TRUE /\ x.s = w /\ x.rs = p /\ x.re = NoKey
        /\ x.ss = MixHash(MixHash(InitSymmetric, Prologue), p)
    BY <1>1 DEF NewInitiator, InitSession, Session
  <1>3. PICK es : es = MixKey(MixHash(x.ss, e), DH(e, p))
    OBVIOUS
  <1>4. es = Symmetric(HashA(p, e), Append(<<Name>>, DH(e, p)),
                       Append(<<Name>>, DH(e, p)), 0)
    BY <1>2, <1>3, StartState
  <1>5. PICK ns : ns = Sealed(es, w)
    OBVIOUS
  <1>6. /\ ns.plain = w /\ ns.ad = HashA(p, e)
        /\ ns.k = Append(<<Name>>, DH(e, p)) /\ ns.n = 0
    BY <1>4, <1>5 DEF Sealed, Symmetric
  <1>7. PICK both : both = MixKey(AfterSeal(es, ns), DH(w, p))
    OBVIOUS
  <1>8. both = Symmetric(Append(HashA(p, e), ns),
                         Append(Append(<<Name>>, DH(e, p)), DH(w, p)),
                         Append(Append(<<Name>>, DH(e, p)), DH(w, p)), 0)
    BY <1>4, <1>7 DEF MixKey, AfterSeal, Symmetric
  <1>9. PICK text : text = Sealed(both, NoKey)
    OBVIOUS
  <1>10. /\ text.k = Append(Append(<<Name>>, DH(e, p)), DH(w, p))
         /\ text.n = 0 /\ text.ad = Append(HashA(p, e), ns)
    BY <1>8, <1>9 DEF Sealed, Symmetric
  <1>11. AfterSeal(both, text) = StateA(w, p, e, ns, text)
    BY <1>8 DEF AfterSeal, StateA, Symmetric
  <1>12. WriteA(x, e) =
           [x |-> Session(TRUE, 1, w, e, p, NoKey, StateA(w, p, e, ns, text)),
            m |-> Message(e, ns, text)]
    BY <1>2, <1>3, <1>5, <1>7, <1>9, <1>11, Zenon DEF WriteA
  <1>13. /\ Opening(w, p, e).m = Message(e, ns, text)
         /\ Opening(w, p, e).x =
              Session(TRUE, 1, w, e, p, NoKey, StateA(w, p, e, ns, text))
    BY <1>1, <1>12 DEF Opening
  <1> QED
    BY <1>6, <1>10, <1>13 DEF OpeningShape

\* A message A that opens was written for this key, and no part of it was
\* damaged.
LEMMA OpenedA ==
  ASSUME NEW s, NEW m, ReadHandshake(NewResponder(s), m).ok
  PROVE  m.ns.ad = HashA(s, Validated(m.ne, NoKey)) /\ ~DeadA(m)
  <1>1. PICK x : x = NewResponder(s)
    OBVIOUS
  <1>2. /\ x.mc = 0 /\ x.s = s /\ x.re = NoKey
        /\ x.ss = MixHash(MixHash(InitSymmetric, Prologue), s)
    BY <1>1 DEF NewResponder, InitSession, Session
  <1>3. PICK re : re = Validated(m.ne, NoKey)
    OBVIOUS
  <1>4. PICK es : es = MixKey(MixHash(x.ss, re), DH(re, s))
    OBVIOUS
  <1>5. es.h = HashA(s, re) /\ es.k = Append(<<Name>>, DH(re, s))
    BY <1>2, <1>4, StartState DEF Symmetric
  <1>6. PICK rs : rs = IF Opens(es, m.ns) THEN m.ns.plain ELSE x.rs
    OBVIOUS
  <1>7. PICK both : both = MixKey(AfterOpen(es, m.ns), DH(s, rs))
    OBVIOUS
  <1>8. PICK in : in = ReadHandshake(x, m)
    OBVIOUS
  <1>9. in = ReadA(x, m)
    BY <1>2, <1>8, Zenon DEF ReadHandshake
  <1>10. in = [x |-> Session(x.i, 1, s, x.e, rs, re, AfterOpen(both, m.text)),
               ok |-> Opens(es, m.ns) /\ Opens(both, m.text)]
    BY <1>2, <1>3, <1>4, <1>6, <1>7, <1>9, Zenon DEF ReadA
  <1>11. Opens(es, m.ns) /\ Opens(both, m.text)
    <2>1. in.ok
      BY <1>1, <1>8
    <2>2. in.ok = (Opens(es, m.ns) /\ Opens(both, m.text))
      BY <1>10
    <2> QED
      BY <2>1, <2>2, Zenon
  <1>12. es.k # <<>> /\ both.k # <<>>
    <2>1. both.k = Append(es.ck, DH(s, rs))
      BY <1>7 DEF MixKey, AfterOpen, AfterSeal, MixHash, Symmetric
    <2>2. es.ck = Append(<<Name>>, DH(re, s))
      BY <1>2, <1>4, StartState DEF Symmetric
    <2> QED
      BY <1>5, <2>1, <2>2
  <1>13. m.ns # Garbage /\ m.text # Garbage /\ m.ns.ad = HashA(s, re)
    BY <1>5, <1>11, <1>12 DEF Opens, Garbage
  <1>14. m.ns.ad[4] = re
    BY <1>13, HashAFields
  <1>15. m.ne \in {0, NoKey} => re \notin Nat \ {0}
    BY <1>3, HandshakeAssumption DEF Validated
  <1> QED
    BY <1>3, <1>13, <1>14, <1>15 DEF DeadA

\* The responder then has what the initiator has.
LEMMA Mirror ==
  ASSUME NEW w, NEW p, NEW e, e # NoKey,
         NEW y, y = ReadHandshake(NewResponder(p), Opening(w, p, e).m).x
  PROVE  /\ y.mc = 1 /\ y.re = e /\ y.rs = w
         /\ y.ss = Opening(w, p, e).x.ss
  <1>1. PICK x : x = NewResponder(p)
    OBVIOUS
  <1>2. /\ x.mc = 0 /\ x.s = p /\ x.re = NoKey
        /\ x.ss = MixHash(MixHash(InitSymmetric, Prologue), p)
    BY <1>1 DEF NewResponder, InitSession, Session
  <1>a. PICK ns, text : OpeningShape(w, p, e, ns, text)
    BY OpeningIs
  <1>3. /\ Opening(w, p, e).m = Message(e, ns, text)
       /\ Opening(w, p, e).x =
            Session(TRUE, 1, w, e, p, NoKey, StateA(w, p, e, ns, text))
       /\ ns.plain = w /\ ns.ad = HashA(p, e)
       /\ ns.k = Append(<<Name>>, DH(e, p)) /\ ns.n = 0
       /\ text.k = Append(Append(<<Name>>, DH(e, p)), DH(w, p))
       /\ text.n = 0 /\ text.ad = Append(HashA(p, e), ns)
    BY <1>a DEF OpeningShape
  <1>4. PICK m : m = Opening(w, p, e).m
    OBVIOUS
  <1>5. m.ne = e /\ m.ns = ns /\ m.text = text
    BY <1>3, <1>4 DEF Message
  <1>6. Validated(m.ne, x.re) = e
    BY <1>5 DEF Validated
  <1>7. PICK es : es = MixKey(MixHash(x.ss, e), DH(e, p))
    OBVIOUS
  <1>8. es = Symmetric(HashA(p, e), Append(<<Name>>, DH(e, p)),
                       Append(<<Name>>, DH(e, p)), 0)
    BY <1>2, <1>7, StartState
  <1>9. Opens(es, ns)
    BY <1>3, <1>8 DEF Opens, Symmetric
  <1>10. PICK both : both = MixKey(AfterOpen(es, ns), DH(p, w))
    OBVIOUS
  <1>11. DH(p, w) = DH(w, p)
    BY DEF DH
  <1>12. both = Symmetric(Append(HashA(p, e), ns),
                          Append(Append(<<Name>>, DH(e, p)), DH(w, p)),
                          Append(Append(<<Name>>, DH(e, p)), DH(w, p)), 0)
    BY <1>8, <1>9, <1>10, <1>11 DEF MixKey, AfterOpen, AfterSeal, Symmetric
  <1>13. Opens(both, text)
    BY <1>3, <1>12 DEF Opens, Symmetric
  <1>14. AfterOpen(both, text) = StateA(w, p, e, ns, text)
    BY <1>12, <1>13 DEF AfterOpen, AfterSeal, StateA, Symmetric
  <1>15. PICK in : in = ReadHandshake(x, m)
    OBVIOUS
  <1>16. in = ReadA(x, m)
    BY <1>2, <1>15, Zenon DEF ReadHandshake
  <1>17. in = [x |-> Session(x.i, 1, p, x.e, w, e, StateA(w, p, e, ns, text)),
               ok |-> Opens(es, ns) /\ Opens(both, text)]
    BY <1>2, <1>3, <1>5, <1>6, <1>7, <1>9, <1>10, <1>14, <1>16, Zenon
       DEF ReadA
  <1>18. /\ in.x.mc = 1 /\ in.x.re = e /\ in.x.rs = w
         /\ in.x.ss = StateA(w, p, e, ns, text)
    BY <1>17 DEF Session
  <1>19. Opening(w, p, e).x.ss = StateA(w, p, e, ns, text)
    BY <1>3 DEF Session
  <1> QED
    BY <1>1, <1>4, <1>15, <1>18, <1>19

-----------------------------------------------------------------------------
(* Message B.                                                              *)

\* What both ends make of it: k is the responder's key.
StateB(w, p, e, k) ==
  MixKey(MixKey(MixHash(Opening(w, p, e).x.ss, k), DH(k, e)), DH(k, w))

LEMMA StateBFields ==
  ASSUME NEW w, NEW p, NEW e, NEW k
  PROVE  /\ StateB(w, p, e, k).k # <<>>
         /\ StateB(w, p, e, k).h[4] = e /\ StateB(w, p, e, k).h[7] = k
         /\ Len(Append(StateB(w, p, e, k).ck, 1)) = 6
         /\ Append(StateB(w, p, e, k).ck, 1)[5] = DH(k, w)
         /\ Append(StateB(w, p, e, k).ck, 1)[6] = 1
         /\ Append(StateB(w, p, e, k).ck, 2)[5] = DH(k, w)
         /\ Append(StateB(w, p, e, k).ck, 2)[6] = 2
  <1>a. PICK ns, text : OpeningShape(w, p, e, ns, text)
    BY OpeningIs
  <1>1. Opening(w, p, e).x =
          Session(TRUE, 1, w, e, p, NoKey, StateA(w, p, e, ns, text))
    BY <1>a DEF OpeningShape
  <1>2. PICK ss : ss = Opening(w, p, e).x.ss
    OBVIOUS
  <1>3. ss = StateA(w, p, e, ns, text)
    BY <1>1, <1>2 DEF Session
  <1>4. /\ ss.h = Append(Append(HashA(p, e), ns), text)
        /\ ss.ck = Append(Append(<<Name>>, DH(e, p)), DH(w, p))
    BY <1>3 DEF StateA, Symmetric
  <1>5. PICK both : both = StateB(w, p, e, k)
    OBVIOUS
  <1>6. /\ both.h = Append(ss.h, k)
        /\ both.ck = Append(Append(ss.ck, DH(k, e)), DH(k, w))
        /\ both.k = both.ck
    BY <1>2, <1>5 DEF StateB, MixKey, MixHash, Symmetric
  <1>7. both.h[4] = e /\ both.h[7] = k
    BY <1>4, <1>6, Appended7 DEF HashA
  <1>8. /\ Len(Append(both.ck, 1)) = 6
        /\ Append(both.ck, 1)[5] = DH(k, w) /\ Append(both.ck, 1)[6] = 1
        /\ Append(both.ck, 2)[5] = DH(k, w) /\ Append(both.ck, 2)[6] = 2
    BY <1>4, <1>6, Appended6
  <1>9. both.k # <<>>
    BY <1>4, <1>6
  <1> QED
    BY <1>5, <1>7, <1>8, <1>9

LEMMA ReplyIs ==
  ASSUME NEW w, NEW p, NEW e, NEW k, e # NoKey
  PROVE  LET both == StateB(w, p, e, k)
             text == Sealed(both, NoKey)
             y == Reply(w, p, e, k)
         IN /\ y.m = Message(k, NoText, text)
            /\ y.x.h = Append(both.h, text)
            /\ y.x.cs1 = Append(both.ck, 1) /\ y.x.cs2 = Append(both.ck, 2)
  <1>1. PICK x : x = ReadHandshake(NewResponder(p), Opening(w, p, e).m).x
    OBVIOUS
  <1>2. /\ x.mc = 1 /\ x.re = e /\ x.rs = w
        /\ x.ss = Opening(w, p, e).x.ss
    BY <1>1, Mirror
  <1>3. PICK both : both = StateB(w, p, e, k)
    OBVIOUS
  <1>4. both = KeysB(x, k)
    BY <1>2, <1>3, Zenon DEF KeysB, StateB
  <1>5. PICK text : text = Sealed(both, NoKey)
    OBVIOUS
  <1>6. PICK ss : ss = AfterSeal(both, text)
    OBVIOUS
  <1>7. ss.h = Append(both.h, text) /\ ss.ck = both.ck
    BY <1>6 DEF AfterSeal, Symmetric
  <1>8. PICK y : y = Reply(w, p, e, k)
    OBVIOUS
  <1>9. y = WriteB(x, k)
    BY <1>1, <1>2, <1>8 DEF Reply, WriteHandshake
  <1>10. y = [x |-> Finished(x, ss), m |-> Message(k, NoText, text)]
    BY <1>4, <1>5, <1>6, <1>9, Zenon DEF WriteB
  <1>11. /\ y.m = Message(k, NoText, text) /\ y.x.h = ss.h
         /\ y.x.cs1 = Append(ss.ck, 1) /\ y.x.cs2 = Append(ss.ck, 2)
    BY <1>2, <1>10 DEF Finished, Split
  <1> QED
    BY <1>3, <1>5, <1>7, <1>8, <1>11

\* What the initiator makes of a message B.
LEMMA ReadBIs ==
  ASSUME NEW w, NEW p, NEW e, NEW m
  PROVE  LET in == ReadHandshake(Opening(w, p, e).x, m)
             both == StateB(w, p, e, Validated(m.ne, NoKey))
         IN /\ in.ok => Opens(both, m.text)
            /\ in.x.h = Append(both.h, m.text)
            /\ in.x.cs1 = Append(both.ck, 1) /\ in.x.cs2 = Append(both.ck, 2)
  <1>1. PICK x : x = Opening(w, p, e).x
    OBVIOUS
  <1>a. PICK ns, text : OpeningShape(w, p, e, ns, text)
    BY OpeningIs
  <1>2. x.mc = 1 /\ x.s = w /\ x.e = e /\ x.re = NoKey
    BY <1>1, <1>a DEF OpeningShape, Session
  <1>3. PICK re : re = Validated(m.ne, NoKey)
    OBVIOUS
  <1>4. PICK both : both = StateB(w, p, e, re)
    OBVIOUS
  <1>5. DH(x.e, re) = DH(re, e) /\ DH(x.s, re) = DH(re, w)
    BY <1>2 DEF DH
  <1>6. both = MixKey(MixKey(MixHash(x.ss, re), DH(x.e, re)), DH(x.s, re))
    BY <1>1, <1>4, <1>5, Zenon DEF StateB
  <1>7. PICK ss : ss = AfterOpen(both, m.text)
    OBVIOUS
  <1>8. ss.h = Append(both.h, m.text) /\ ss.ck = both.ck
    BY <1>7 DEF AfterOpen, AfterSeal, MixHash, Symmetric
  <1>9. PICK in : in = ReadHandshake(x, m)
    OBVIOUS
  <1>10. in = ReadB(x, m)
    BY <1>2, <1>9 DEF ReadHandshake
  <1>11. in = [x |-> Finished(x, ss), ok |-> Opens(both, m.text)]
    BY <1>2, <1>3, <1>6, <1>7, <1>10, Zenon DEF ReadB
  <1>12. /\ in.x.h = ss.h
         /\ in.x.cs1 = Append(ss.ck, 1) /\ in.x.cs2 = Append(ss.ck, 2)
    BY <1>2, <1>11 DEF Finished, Split
  <1>13. in.ok => Opens(both, m.text)
    <2>1. in.ok = Opens(both, m.text)
      BY <1>11
    <2> QED
      BY <2>1, Zenon
  <1> QED
    BY <1>1, <1>3, <1>4, <1>8, <1>9, <1>12, <1>13

\* A damaged message B does not open.
LEMMA OpenedB ==
  ASSUME NEW w, NEW p, NEW e, NEW m, ReadHandshake(Opening(w, p, e).x, m).ok
  PROVE  ~DeadB(m)
  <1>1. PICK re : re = Validated(m.ne, NoKey)
    OBVIOUS
  <1>2. PICK both : both = StateB(w, p, e, re)
    OBVIOUS
  <1>3a. PICK in : in = ReadHandshake(Opening(w, p, e).x, m)
    OBVIOUS
  <1>3. Opens(both, m.text)
    <2>1. in.ok => Opens(both, m.text)
      BY <1>1, <1>2, <1>3a, ReadBIs
    <2>2. in.ok
      BY <1>3a
    <2> QED
      BY <2>1, <2>2, Zenon
  <1>4. both.k # <<>> /\ both.h[7] = re
    BY <1>2, StateBFields
  <1>5. m.text # Garbage /\ m.text.ad[7] = re
    BY <1>3, <1>4 DEF Opens, Garbage
  <1>6. m.ne \in {0, NoKey} => re \notin Nat \ {0}
    BY <1>1, HandshakeAssumption DEF Validated
  <1> QED
    BY <1>5, <1>6 DEF DeadB

\* One that is as some session wrote it opens only for the attempt that the
\* session answers, and both then have the same.
LEMMA SameEnd ==
  ASSUME NEW w, NEW p, NEW e,
         NEW v, NEW q, NEW f, NEW k, f # NoKey, k # NoKey,
         ReadHandshake(Opening(w, p, e).x, Reply(v, q, f, k).m).ok
  PROVE  /\ e = f
         /\ w = v /\ p = q =>
              LET x == ReadHandshake(Opening(w, p, e).x, Reply(v, q, f, k).m).x
                  y == Reply(v, q, f, k).x
              IN x.h = y.h /\ x.cs1 = y.cs1 /\ x.cs2 = y.cs2
  <1>1. PICK y : y = Reply(v, q, f, k)
    OBVIOUS
  <1>2. PICK theirs : theirs = StateB(v, q, f, k)
    OBVIOUS
  <1>3. PICK text : text = Sealed(theirs, NoKey)
    OBVIOUS
  <1>4. /\ y.m = Message(k, NoText, text)
        /\ y.x.h = Append(theirs.h, text)
        /\ y.x.cs1 = Append(theirs.ck, 1) /\ y.x.cs2 = Append(theirs.ck, 2)
    BY <1>1, <1>2, <1>3, ReplyIs
  <1>5. PICK m : m = y.m
    OBVIOUS
  <1>6. m.text = text /\ Validated(m.ne, NoKey) = k
    BY <1>4, <1>5 DEF Message, Validated
  <1>7. PICK ours : ours = StateB(w, p, e, k)
    OBVIOUS
  <1>8. PICK in : in = ReadHandshake(Opening(w, p, e).x, m)
    OBVIOUS
  <1>9. /\ in.ok => Opens(ours, text)
        /\ in.x.h = Append(ours.h, text)
        /\ in.x.cs1 = Append(ours.ck, 1) /\ in.x.cs2 = Append(ours.ck, 2)
    BY <1>6, <1>7, <1>8, ReadBIs
  <1>10. in.ok
    BY <1>1, <1>5, <1>8
  <1>11. text.ad = ours.h /\ text.ad = theirs.h
    <2>1. Opens(ours, text)
      BY <1>9, <1>10, Zenon
    <2> QED
      BY <1>3, <2>1 DEF Opens, Sealed
  <1>12. e = f
    <2>1. ours.h[4] = e
      BY <1>7, StateBFields
    <2>2. theirs.h[4] = f
      BY <1>2, StateBFields
    <2> QED
      BY <1>11, <2>1, <2>2
  <1>13. w = v /\ p = q => ours = theirs
    BY <1>2, <1>7, <1>12
  <1> QED
    BY <1>1, <1>4, <1>5, <1>8, <1>9, <1>12, <1>13

\* Each end keeps its part, which decides which key it sends with.
LEMMA Roles ==
  ASSUME NEW w, NEW p, NEW e, NEW m,
         NEW x, x = ReadHandshake(Opening(w, p, e).x, m).x,
         NEW v, NEW q, NEW f, NEW k, f # NoKey,
         NEW y, y = Reply(v, q, f, k).x
  PROVE  x.i /\ ~y.i
  <1>1. x.i
    <2>1. PICK s : s = NewInitiator(w, p)
      OBVIOUS
    <2>2. s.i
      BY <2>1 DEF NewInitiator, InitSession, Session
    <2>3. PICK o : o = Opening(w, p, e).x
      OBVIOUS
    <2>4. o.i = s.i
      BY <2>1, <2>3, Zenon DEF Opening, WriteA, Session
    <2>5. o.i /\ o.mc = 1
      BY <2>1, <2>2, <2>3, <2>4, Zenon DEF Opening, WriteA, Session
    <2> QED
      BY <2>3, <2>5, Zenon DEF ReadHandshake, ReadA, ReadB, Finished, Session
  <1>2. ~y.i
    <2>1. PICK s : s = NewResponder(q)
      OBVIOUS
    <2>2. ~s.i /\ s.mc = 0
      BY <2>1, Zenon DEF NewResponder, InitSession, Session
    <2>3. PICK z : z = ReadHandshake(s, Opening(v, q, f).m).x
      OBVIOUS
    <2>4. ~z.i
      BY <2>2, <2>3, Zenon DEF ReadHandshake, ReadA, Session
    <2>5. z.mc = 1
      BY <2>1, <2>3, Mirror
    <2>6. y = WriteB(z, k).x
      BY <2>1, <2>3, <2>5 DEF Reply, WriteHandshake
    <2>7. PICK ss : y = Finished(z, ss)
      BY <2>6, Zenon DEF WriteB
    <2>8. y.i = z.i
      <3>1. Finished(z, ss).i = z.i
        BY DEF Finished
      <3> QED
        BY <2>7, <3>1, Zenon
    <2> QED
      BY <2>4, <2>8, Zenon
  <1> QED
    BY <1>1, <1>2

-----------------------------------------------------------------------------
(* Sequences that grow and change.                                         *)

LEMMA IsSeqDomain ==
  ASSUME NEW s, IsSeq(s)
  PROVE  Len(s) \in Nat /\ DOMAIN s = 1 .. Len(s)
  BY LenProperties DEF IsSeq

LEMMA SeqOverRange ==
  ASSUME NEW S, NEW s \in Seq(S)
  PROVE  IsSeq(s)
  <1>1. Len(s) \in Nat /\ s \in [1 .. Len(s) -> S]
    BY LenProperties
  <1> QED
    BY <1>1, IsASeq DEF IsSeq

LEMMA SeqGrows ==
  ASSUME NEW s, IsSeq(s), NEW x
  PROVE  LET t == Append(s, x)
         IN /\ IsSeq(t)
            /\ DOMAIN t = DOMAIN s \cup {Len(s) + 1}
            /\ t[Len(s) + 1] = x
            /\ \A i \in DOMAIN s : t[i] = s[i]
            /\ Len(t) = Len(s) + 1
  <1>1. PICK S : S = {s[i] : i \in DOMAIN s} \cup {x}
    OBVIOUS
  <1>2. s \in Seq(S) /\ x \in S
    BY <1>1 DEF IsSeq
  <1>3. PICK t : t = Append(s, x)
    OBVIOUS
  <1>4. /\ t \in Seq(S) /\ Len(t) = Len(s) + 1
        /\ t[Len(s) + 1] = x
        /\ \A i \in 1 .. Len(s) : t[i] = s[i]
    BY <1>2, <1>3, AppendProperties
  <1>5. IsSeq(t)
    BY <1>4, SeqOverRange
  <1> QED
    BY <1>3, <1>4, <1>5, IsSeqDomain

LEMMA SeqChanges ==
  ASSUME NEW s, IsSeq(s), NEW i \in DOMAIN s, NEW v
  PROVE  LET t == [s EXCEPT ![i] = v]
         IN /\ IsSeq(t) /\ DOMAIN t = DOMAIN s
            /\ \A j \in DOMAIN s : t[j] = IF j = i THEN v ELSE s[j]
            /\ Len(t) = Len(s)
  <1>1. PICK t : t = [s EXCEPT ![i] = v]
    OBVIOUS
  <1>2. PICK S : S = {s[j] : j \in DOMAIN s} \cup {v}
    OBVIOUS
  <1>3. s \in Seq(S) /\ v \in S
    BY <1>2 DEF IsSeq
  <1>4. t \in Seq(S) /\ Len(t) = Len(s)
    BY <1>1, <1>3, ExceptSeq, IsSeqDomain
  <1>5. IsSeq(t)
    BY <1>4, SeqOverRange
  <1> QED
    BY <1>1, <1>4, <1>5

-----------------------------------------------------------------------------
(* The server's key and its files.                                         *)

LEMMA InitKept == Init => Kept
  BY HandshakeAssumption DEF Init, Kept, Down, ServerType

LEMMA DownIsServerState == Down \in ServerType(Nat \cup {NoKey})
  BY DEF Down, ServerType

\* Steps that leave the server, its files and the pins alone.
LEMMA QuietKept ==
  ASSUME Kept, UNCHANGED <<keyFile, pubFile, server, pin>>, keys' \in Nat
  PROVE  Kept'
  BY DEF Kept

\* A start that ends in an error.
LEMMA DownKept ==
  ASSUME Kept, server' = Down, UNCHANGED <<keyFile, pubFile, pin, keys>>
  PROVE  Kept'
  <1>1. server' \in ServerType(Nat \cup {NoKey}) /\ server'.pc = "down"
    BY DownIsServerState DEF Down
  <1> QED
    BY <1>1 DEF Kept

\* A server that goes on holds the key it held.
LEMMA ServerGoesOn ==
  ASSUME Kept, NEW pc \in {"truncate", "publish", "peers"}, Goto(pc)
  PROVE  /\ server' \in ServerType(Nat \cup {NoKey})
         /\ server'.pc = pc /\ server'.static = server.static
  BY DEF Kept, Goto, ServerType

LEMMA BootKept ==
  ASSUME Kept, Boot
  PROVE  Kept'
  <1> USE HandshakeAssumption, DownIsServerState
  <1>1. CASE LoadStatic
    BY <1>1 DEF LoadStatic, Kept, Down, ServerType, ServerOnly, FilesStay, files
  <1>2. CASE CreateStatic
    <2>1. /\ keys' = keys + 1 /\ keyFile = NoKey
          /\ server' = [Down EXCEPT !.pc = "rename", !.static = keys + 1,
                         !.created = TRUE]
          /\ UNCHANGED <<keyFile, pubFile, pin>>
      BY <1>2 DEF CreateStatic, ServerOnly, FilesStay, files
    <2>2. server' = [pc |-> "rename", static |-> keys + 1, created |-> TRUE,
                     allow |-> {}]
      BY <2>1 DEF Down
    <2>3. keys + 1 \in Nat
      BY DEF Kept
    <2>4. server' \in ServerType(Nat \cup {NoKey}) /\ server'.pc = "rename"
          /\ server'.static \in Nat
      BY <2>2, <2>3 DEF ServerType
    <2> QED
      BY <2>1, <2>3, <2>4 DEF Kept
  <1>3. CASE RenameKey
    <2>1. UNCHANGED <<pubFile, pin, keys>> /\ server.static \in Nat
          /\ keyFile = NoKey
      BY <1>3 DEF RenameKey, ServerOnly, Kept
    <2>2. CASE keyFile' = server.static /\ Goto("truncate")
      <3>1. /\ server' \in ServerType(Nat \cup {NoKey})
            /\ server'.pc = "truncate" /\ server'.static = server.static
        BY <2>2, ServerGoesOn
      <3>2. pubFile \in {NoKey, Torn} /\ \A w \in Wallets : pin[w] = NoKey
        BY <2>1, HandshakeAssumption DEF Kept
      <3> QED
        BY <2>1, <2>2, <3>1, <3>2 DEF Kept
    <2>3. CASE UNCHANGED keyFile /\ server' = Down
      BY <2>1, <2>3, DownKept
    <2> QED
      BY <1>3, <2>2, <2>3 DEF RenameKey
  <1>4. CASE TruncatePub
    BY <1>4 DEF TruncatePub, Goto, Kept, ServerType, ServerOnly
  <1>5. CASE WritePub
    BY <1>5 DEF WritePub, Goto, Kept, ServerType, ServerOnly
  <1>6. CASE PubFails
    <2>1. UNCHANGED <<keyFile, pubFile, pin, keys>>
      BY <1>6 DEF PubFails, ServerOnly, FilesStay, files
    <2>2. CASE server' = Down
      BY <2>1, <2>2, DownKept
    <2>3. CASE Goto("peers")
      <3>1. /\ server' \in ServerType(Nat \cup {NoKey})
            /\ server'.pc = "peers" /\ server'.static = server.static
        BY <2>3, ServerGoesOn
      <3>2. server.pc \in {"truncate", "publish"}
        BY <1>6 DEF PubFails
      <3> QED
        BY <2>1, <3>1, <3>2 DEF Kept
    <2> QED
      BY <1>6, <2>2, <2>3 DEF PubFails
  <1>7. CASE LoadPeers
    <2>1. UNCHANGED <<keyFile, pubFile, pin, keys>> /\ server.pc = "peers"
      BY <1>7 DEF LoadPeers, ServerOnly, FilesStay, files
    <2>2. ASSUME NEW allowed \in SUBSET Wallets,
                 server' = [server EXCEPT !.pc = "up", !.allow = allowed]
          PROVE  Kept'
      <3>1. /\ server' \in ServerType(Nat \cup {NoKey})
            /\ server'.pc = "up" /\ server'.static = server.static
        BY <2>2 DEF Kept, ServerType
      <3> QED
        BY <2>1, <3>1 DEF Kept
    <2>3. CASE server' = Down
      BY <2>1, <2>3, DownKept
    <2> QED
      BY <1>7, <2>2, <2>3 DEF LoadPeers
  <1> QED
    BY <1>1, <1>2, <1>3, <1>4, <1>5, <1>6, <1>7 DEF Boot

LEMMA NextKept ==
  ASSUME Kept, [Next]_vars
  PROVE  Kept'
  <1>1. CASE Boot
    BY <1>1, BootKept
  <1>2. CASE Crash
    BY <1>2, DownIsServerState
       DEF Crash, Kept, Down, ServerOnly, FilesStay, files
  <1>3. ASSUME NEW w \in Wallets, Fetch(w)
        PROVE  Kept'
    BY <1>3 DEF Fetch, Kept, FilesStay, files
  <1>4. ASSUME NEW w \in Wallets, NEW a \in Addrs, Begin(w, a)
        PROVE  Kept'
    BY <1>4, QuietKept DEF Begin, Kept, FilesStay, files
  <1>5. ASSUME NEW i \in DOMAIN att, NEW d \in net,
               GiveUp(i) \/ ReadAnswer(i, d)
        PROVE  Kept'
    BY <1>5, QuietKept DEF GiveUp, ReadAnswer, Kept, FilesStay, files
  <1>6. ASSUME NEW i \in DOMAIN att, GiveUp(i)
        PROVE  Kept'
    BY <1>6, QuietKept DEF GiveUp, Kept, FilesStay, files
  <1>7. ASSUME NEW d \in net, Answer(d) \/ Damage(d)
        PROVE  Kept'
    <2>1. CASE Answer(d)
      <3>1. keys' = keys + 1 /\ UNCHANGED <<files, server, pin>>
        BY <2>1, Zenon DEF Answer, FilesStay
      <3> QED
        BY <3>1, QuietKept DEF Kept, files
    <2>2. CASE Damage(d)
      <3>1. UNCHANGED <<files, server, pin, keys>>
        BY <2>2, Zenon DEF Damage, FilesStay
      <3> QED
        BY <3>1, QuietKept DEF Kept, files
    <2> QED
      BY <1>7, <2>1, <2>2
  <1>8. CASE UNCHANGED vars
    BY <1>8, QuietKept DEF vars, Kept
  <1> QED
    BY <1>1, <1>2, <1>3, <1>4, <1>5, <1>6, <1>7, <1>8 DEF Next, ClientStep

-----------------------------------------------------------------------------
(* The attempts, the sessions and the network.                             *)

LEMMA InitIInv == Init => IInv
  <1> SUFFICES ASSUME Init PROVE IInv
    OBVIOUS
  <1>1. IsSeq(<<>>)
    BY DEF IsSeq
  <1> QED
    BY <1>1, InitKept DEF Init, IInv, OnTheWire, AnswersItsPeer, AttemptsInv,
                          SessionsInv, Paired

\* No step takes back what was sent or begun.
Grows ==
  /\ keys' \in Nat /\ keys <= keys'
  /\ DOMAIN att \subseteq DOMAIN att'
  /\ \A i \in DOMAIN att : /\ att'[i].wallet = att[i].wallet
                           /\ att'[i].pinned = att[i].pinned
                           /\ att'[i].e = att[i].e
  /\ DOMAIN resp \subseteq DOMAIN resp'
  /\ \A r \in DOMAIN resp : resp'[r] = resp[r]

LEMMA SameMessages ==
  ASSUME IInv, Grows
  PROVE  /\ \A i \in DOMAIN att : Opened(i)' = Opened(i)
         /\ \A r \in DOMAIN resp : Replied(r)' = Replied(r)
  <1>1. ASSUME NEW i \in DOMAIN att
        PROVE  Opened(i)' = Opened(i)
    BY DEF Grows, Opened
  <1>2. ASSUME NEW r \in DOMAIN resp
        PROVE  Replied(r)' = Replied(r)
    <2>1. resp[r].answers \in DOMAIN att
      BY DEF IInv, AnswersItsPeer
    <2> QED
      BY <2>1 DEF Grows, Replied
  <1> QED
    BY <1>1, <1>2

LEMMA WireStays ==
  ASSUME IInv, Grows, NEW d \in net
  PROVE  (d.type = "A" => WireA(d)') /\ (d.type = "B" => WireB(d)')
  <1>1. ASSUME WireA(d)
        PROVE  WireA(d)'
    BY <1>1, SameMessages DEF WireA, Grows
  <1>2. ASSUME WireB(d)
        PROVE  WireB(d)'
    BY <1>2, SameMessages DEF WireB, Grows
  <1> QED
    BY <1>1, <1>2 DEF IInv, OnTheWire

LEMMA SessionsStay ==
  ASSUME IInv, Grows, UNCHANGED resp
  PROVE  SessionsInv' /\ AnswersItsPeer'
  <1>1. AnswersItsPeer'
    BY DEF IInv, AnswersItsPeer, Grows
  <1>2. 1 .. keys \subseteq 1 .. keys'
    BY DEF IInv, Kept, Grows
  <1>3. SessionsInv'
    BY <1>2, SameMessages DEF IInv, SessionsInv
  <1> QED
    BY <1>1, <1>3

\* What a client ended with stays paired.
LEMMA PairStays ==
  ASSUME IInv, Grows, NEW i \in DOMAIN att, att'[i] = att[i],
         att[i].pc = "up"
  PROVE  \E r \in DOMAIN resp' : Pair(i, r)'
  <1>1. PICK r \in DOMAIN resp : Pair(i, r)
    BY DEF IInv, Paired
  <1>2. r \in DOMAIN resp' /\ resp'[r] = resp[r]
    BY DEF Grows
  <1>3. Pair(i, r)'
    BY <1>1, <1>2, Zenon DEF Pair
  <1> QED
    BY <1>2, <1>3

LEMMA QuietIInv ==
  ASSUME IInv, Kept', keys <= keys', UNCHANGED <<att, resp, net>>
  PROVE  IInv'
  <1>1. Grows
    BY DEF Kept, Grows
  <1>2. OnTheWire'
    BY <1>1, WireStays DEF OnTheWire
  <1>3. SessionsInv' /\ AnswersItsPeer'
    BY <1>1, SessionsStay
  <1>4. AttemptsInv'
    <2>1. 1 .. keys \subseteq 1 .. keys'
      BY DEF IInv, Kept
    <2> QED
      BY <1>1, <2>1, SameMessages DEF IInv, AttemptsInv
  <1>5. Paired'
    BY <1>1, PairStays DEF Paired
  <1> QED
    BY <1>2, <1>3, <1>4, <1>5 DEF IInv

LEMMA BeginIInv ==
  ASSUME IInv, Kept', NEW w \in Wallets, NEW a \in Addrs, Begin(w, a)
  PROVE  IInv'
  <1>1. PICK k : k = keys + 1
    OBVIOUS
  <1>2. PICK out : out = WriteHandshake(NewInitiator(w, pin[w]), k)
    OBVIOUS
  <1>3. PICK new : new = Attempt("await", w, a, pin[w], k, out.x)
    OBVIOUS
  <1>4. PICK n : n = Len(att) + 1
    OBVIOUS
  <1>5. /\ att' = Append(att, new)
        /\ net' = net \cup {Datagram("A", a, out.m, n)}
        /\ keys' = k /\ UNCHANGED resp
        /\ pin[w] # NoKey
    BY <1>1, <1>2, <1>3, <1>4, Zenon DEF Begin
  <1>6. /\ new.wallet = w /\ new.pinned = pin[w] /\ new.e = k
        /\ new.pc = "await" /\ new.x = out.x /\ pin[w] \in Nat
    BY <1>3, <1>5 DEF Attempt, IInv, Kept
  <1>7. /\ IsSeq(att)' /\ DOMAIN att' = DOMAIN att \cup {n}
        /\ att'[n] = new
        /\ \A i \in DOMAIN att : att'[i] = att[i]
        /\ n \notin DOMAIN att
    BY <1>4, <1>5, SeqGrows, IsSeqDomain DEF IInv, AttemptsInv
  <1>8. /\ keys \in Nat /\ k \in Nat /\ keys < k
        /\ 1 .. keys \subseteq 1 .. k /\ k \in 1 .. k
    BY <1>1 DEF IInv, Kept
  <1>9. Grows
    BY <1>5, <1>7, <1>8 DEF Grows
  <1>10. out = Opened(n)'
    <2>1. out = Opening(w, pin[w], k)
      BY <1>2 DEF Opening, WriteHandshake, NewInitiator, InitSession, Session
    <2> QED
      BY <1>6, <1>7, <2>1 DEF Opened
  <1>11. OnTheWire'
    <2> SUFFICES ASSUME NEW d \in net'
                 PROVE  /\ d.type = "A" => WireA(d)'
                        /\ d.type = "B" => WireB(d)'
      BY DEF OnTheWire
    <2>1. CASE d \in net
      BY <1>9, <2>1, WireStays
    <2>2. CASE d = Datagram("A", a, out.m, n)
      <3>1. d.type = "A" /\ d.by = n /\ d.m = out.m
        BY <2>2 DEF Datagram
      <3> QED
        BY <1>7, <1>10, <3>1 DEF WireA
    <2> QED
      BY <1>5, <2>1, <2>2
  <1>12. AttemptsInv'
    <2>1. ASSUME NEW i \in DOMAIN att'
          PROVE  /\ att'[i].wallet \in Wallets /\ att'[i].pinned \in Nat
                 /\ att'[i].e \in 1 .. keys'
                 /\ att'[i].pc = "await" => att'[i].x = Opened(i)'.x
      <3>1. CASE i \in DOMAIN att
        BY <1>5, <1>7, <1>8, <1>9, <3>1, SameMessages DEF IInv, AttemptsInv
      <3>2. CASE i = n
        BY <1>5, <1>6, <1>7, <1>8, <1>10, <3>2
      <3> QED
        BY <1>7, <3>1, <3>2
    <2>2. ASSUME NEW i \in DOMAIN att', NEW j \in DOMAIN att',
                 att'[i].e = att'[j].e
          PROVE  i = j
      <3>1. \A l \in DOMAIN att : att'[l].e \in 1 .. keys
        BY <1>7 DEF IInv, AttemptsInv
      <3>2. \A l \in DOMAIN att : att'[l].e # att'[n].e
        BY <1>6, <1>7, <1>8, <3>1
      <3>3. CASE i \in DOMAIN att /\ j \in DOMAIN att
        BY <1>7, <2>2, <3>3 DEF IInv, AttemptsInv
      <3> QED
        BY <1>7, <2>2, <3>2, <3>3
    <2> QED
      BY <1>7, <2>1, <2>2 DEF AttemptsInv
  <1>13. Paired'
    <2> SUFFICES ASSUME NEW i \in DOMAIN att', att'[i].pc = "up"
                 PROVE  \E r \in DOMAIN resp' : Pair(i, r)'
      BY DEF Paired
    <2>1. i \in DOMAIN att
      BY <1>6, <1>7
    <2> QED
      BY <1>7, <1>9, <2>1, PairStays
  <1> QED
    BY <1>5, <1>9, <1>11, <1>12, <1>13, SessionsStay DEF IInv

\* A session answers attempt i and holds what x holds.
Matched(i, x) ==
  \E r \in DOMAIN resp :
    /\ resp[r].answers = i
    /\ x.i
    /\ x.h = resp[r].x.h
    /\ x.cs1 = resp[r].x.cs1
    /\ x.cs2 = resp[r].x.cs2

\* What becomes of an attempt that waits: its wallet, the key it pinned and its
\* own key stay.
LEMMA ProgressIInv ==
  ASSUME IInv, Kept', UNCHANGED <<resp, net, keys>>,
         NEW i \in DOMAIN att, NEW pc, NEW x, pc # "await",
         att' = [att EXCEPT ![i] = Attempt(pc, att[i].wallet, att[i].addr,
                                           att[i].pinned, att[i].e, x)],
         pc = "up" => Matched(i, x)
  PROVE  IInv'
  <1>1. PICK v : v = Attempt(pc, att[i].wallet, att[i].addr, att[i].pinned,
                             att[i].e, x)
    OBVIOUS
  <1>2. /\ v.wallet = att[i].wallet /\ v.pinned = att[i].pinned
        /\ v.e = att[i].e /\ v.pc = pc /\ v.x = x
    BY <1>1 DEF Attempt
  <1>3. /\ IsSeq(att)' /\ DOMAIN att' = DOMAIN att
        /\ \A j \in DOMAIN att : att'[j] = IF j = i THEN v ELSE att[j]
    BY <1>1, SeqChanges DEF IInv, AttemptsInv
  <1>4. Grows
    BY <1>2, <1>3 DEF IInv, Kept, Grows
  <1>5. OnTheWire'
    BY <1>4, WireStays DEF OnTheWire
  <1>6. AttemptsInv'
    <2>1. ASSUME NEW j \in DOMAIN att
          PROVE  /\ att'[j].wallet = att[j].wallet
                 /\ att'[j].pinned = att[j].pinned
                 /\ att'[j].e = att[j].e
                 /\ att'[j].pc = "await" => att'[j] = att[j]
      <3>1. CASE j = i
        BY <1>2, <1>3, <3>1
      <3>2. CASE j # i
        BY <1>3, <3>2
      <3> QED
        BY <3>1, <3>2
    <2>2. \A j \in DOMAIN att : Opened(j)' = Opened(j)
      BY <1>4, SameMessages
    <2>3. AttemptsInv
      BY DEF IInv
    <2>4. keys' = keys
      OBVIOUS
    <2>5. ASSUME NEW j \in DOMAIN att'
          PROVE  /\ att'[j].wallet \in Wallets /\ att'[j].pinned \in Nat
                 /\ att'[j].e \in 1 .. keys'
                 /\ att'[j].pc = "await" => att'[j].x = Opened(j)'.x
      <3>1. j \in DOMAIN att
        BY <1>3, <2>5
      <3>2. /\ att[j].wallet \in Wallets /\ att[j].pinned \in Nat
            /\ att[j].e \in 1 .. keys
            /\ att[j].pc = "await" => att[j].x = Opened(j).x
        BY <2>3, <3>1 DEF AttemptsInv
      <3> QED
        BY ONLY <2>1, <2>2, <2>4, <3>1, <3>2
    <2>6. ASSUME NEW j \in DOMAIN att', NEW l \in DOMAIN att',
                 att'[j].e = att'[l].e
          PROVE  j = l
      <3>1. j \in DOMAIN att /\ l \in DOMAIN att
        BY <1>3, <2>6
      <3>2. att[j].e = att[l].e
        BY <2>1, <2>6, <3>1
      <3> QED
        BY <2>3, <3>1, <3>2 DEF AttemptsInv
    <2> QED
      BY <1>3, <2>5, <2>6 DEF AttemptsInv
  <1>7. Paired'
    <2> SUFFICES ASSUME NEW j \in DOMAIN att', att'[j].pc = "up"
                 PROVE  \E r \in DOMAIN resp' : Pair(j, r)'
      BY DEF Paired
    <2>1. CASE j = i
      <3>1. PICK r \in DOMAIN resp :
              /\ resp[r].answers = i /\ x.i /\ x.h = resp[r].x.h
              /\ x.cs1 = resp[r].x.cs1 /\ x.cs2 = resp[r].x.cs2
        BY <1>2, <1>3, <2>1 DEF Matched
      <3>2. att'[i].x = x
        BY <1>2, <1>3
      <3>3. Pair(i, r)'
        BY <3>1, <3>2, Zenon DEF Pair
      <3> QED
        BY <2>1, <3>3
    <2>2. CASE j # i
      BY <1>3, <1>4, <2>2, PairStays
    <2> QED
      BY <2>1, <2>2
  <1> QED
    BY <1>4, <1>5, <1>6, <1>7, SessionsStay DEF IInv

\* The answer that an attempt takes is that of a session that answers it.
LEMMA TakenAnswer ==
  ASSUME IInv, NEW i \in DOMAIN att, att[i].pc = "await",
         NEW d \in net, d.type = "B",
         NEW in, in = ReadHandshake(att[i].x, d.m), in.ok
  PROVE  Matched(i, in.x)
  <1>1. PICK w, p, e : w = att[i].wallet /\ p = att[i].pinned /\ e = att[i].e
    OBVIOUS
  <1>2. in = ReadHandshake(Opening(w, p, e).x, d.m)
    BY <1>1 DEF IInv, AttemptsInv, Opened
  <1>3. ReadHandshake(Opening(w, p, e).x, d.m).ok
    BY <1>2, Zenon
  <1>4. ~DeadB(d.m)
    BY <1>3, OpenedB
  <1>5. PICK r \in DOMAIN resp : d.m = Replied(r).m
    BY <1>4 DEF IInv, OnTheWire, WireB
  <1>6. PICK j : j = resp[r].answers
    OBVIOUS
  <1>7. PICK v, q, f, k : /\ v = att[j].wallet /\ q = att[j].pinned
                          /\ f = att[j].e /\ k = resp[r].e
    OBVIOUS
  <1>8. Replied(r) = Reply(v, q, f, k)
    BY <1>6, <1>7 DEF Replied
  <1>9. j \in DOMAIN att /\ f \in 1 .. keys /\ k \in 1 .. keys /\ keys \in Nat
    BY <1>6, <1>7 DEF IInv, Kept, AnswersItsPeer, AttemptsInv, SessionsInv
  <1>10. f # NoKey /\ k # NoKey
    BY <1>9, HandshakeAssumption
  <1>11. d.m = Reply(v, q, f, k).m
    BY <1>5, <1>8
  <1>12. ReadHandshake(Opening(w, p, e).x, Reply(v, q, f, k).m).ok
    BY <1>3, <1>11, Zenon
  <1>13. e = f
    BY <1>10, <1>12, SameEnd
  <1>14. i = j
    BY <1>1, <1>7, <1>9, <1>13 DEF IInv, AttemptsInv
  <1>15. w = v /\ p = q
    BY <1>1, <1>7, <1>14
  <1>16. PICK y : y = Reply(v, q, f, k).x
    OBVIOUS
  <1>17. in.x.h = y.h /\ in.x.cs1 = y.cs1 /\ in.x.cs2 = y.cs2
    BY <1>2, <1>10, <1>11, <1>12, <1>15, <1>16, SameEnd
  <1>18. y = resp[r].x
    BY <1>8, <1>16 DEF IInv, SessionsInv
  <1>19. in.x.i
    BY <1>2, <1>10, <1>16, Roles
  <1> QED
    BY <1>6, <1>14, <1>17, <1>18, <1>19 DEF Matched

LEMMA ReadAnswerIInv ==
  ASSUME IInv, Kept', NEW i \in DOMAIN att, NEW d \in net, ReadAnswer(i, d)
  PROVE  IInv'
  <1>1. PICK in : in = ReadHandshake(att[i].x, d.m)
    OBVIOUS
  <1>2. PICK pc : pc = IF Completes(in) THEN "up" ELSE "failed"
    OBVIOUS
  <1>3. /\ att[i].pc = "await" /\ d.type = "B"
        /\ att' = [att EXCEPT ![i] =
             Attempt(pc, att[i].wallet, att[i].addr, att[i].pinned, att[i].e,
                     in.x)]
        /\ UNCHANGED <<resp, net, keys>>
    BY <1>1, <1>2, Zenon DEF ReadAnswer
  <1>4. pc # "await" /\ (pc = "up" => in.ok)
    BY <1>2 DEF Completes
  <1>5. ASSUME pc = "up"
        PROVE  Matched(i, in.x)
    BY <1>1, <1>3, <1>4, <1>5, TakenAnswer
  <1> QED
    BY <1>3, <1>4, <1>5, ProgressIInv, Zenon

LEMMA DamageIInv ==
  ASSUME IInv, Kept', NEW d \in net, Damage(d)
  PROVE  IInv'
  <1>1. PICK m : /\ \/ m = Message(0, d.m.ns, d.m.text)
                    \/ m = Message(NoKey, d.m.ns, d.m.text)
                    \/ m = Message(d.m.ne, d.m.ns, Garbage)
                    \/ m = Message(d.m.ne, IF d.type = "A" THEN Garbage
                                           ELSE d.m.ns, d.m.text)
                 /\ net' = net \cup {Datagram(d.type, d.addr, m, NoKey)}
    BY DEF Damage
  <1>2. UNCHANGED <<att, resp, keys>>
    BY DEF Damage
  <1>3. Grows
    BY <1>2 DEF IInv, Kept, Grows
  <1>4. keys \in Nat
    BY DEF IInv, Kept
  <1>5. ASSUME d.type = "A"
        PROVE  DeadA(m)
    <2>1. CASE m.ne \in {0, NoKey} /\ m.ns = d.m.ns /\ m.text = d.m.text
      <3>1. CASE DeadA(d.m)
        BY <2>1, <3>1 DEF DeadA
      <3>2. CASE d.by \in DOMAIN att /\ d.m = Opened(d.by).m
        <4>1. PICK w, p, e : /\ w = att[d.by].wallet /\ p = att[d.by].pinned
                             /\ e = att[d.by].e
          OBVIOUS
        <4>2. d.m = Opening(w, p, e).m /\ e \in 1 .. keys
          BY <3>2, <4>1 DEF Opened, IInv, AttemptsInv
        <4>3. PICK ns, text : OpeningShape(w, p, e, ns, text)
          BY OpeningIs
        <4>4. d.m.ns.ad = HashA(p, e)
          BY <4>2, <4>3 DEF OpeningShape, Message
        <4>5. d.m.ns.ad[4] = e
          BY <4>4, HashAFields
        <4> QED
          BY <1>4, <2>1, <4>2, <4>5 DEF DeadA
      <3> QED
        BY <1>5, <3>1, <3>2 DEF IInv, OnTheWire, WireA
    <2>2. CASE m.ns = Garbage \/ m.text = Garbage
      BY <2>2 DEF DeadA
    <2> QED
      BY <1>1, <1>5, <2>1, <2>2 DEF Message
  <1>6. ASSUME d.type = "B"
        PROVE  DeadB(m) \/ \E r \in DOMAIN resp : m = Replied(r).m
    <2>1. CASE DeadB(d.m)
      <3>1. CASE m.ne \in {0, NoKey} /\ m.text = d.m.text
        BY <2>1, <3>1 DEF DeadB
      <3>2. CASE m.text = Garbage
        BY <3>2 DEF DeadB
      <3>3. CASE m.ne = d.m.ne /\ m.text = d.m.text
        BY <2>1, <3>3 DEF DeadB
      <3> QED
        BY <1>1, <3>1, <3>2, <3>3 DEF Message
    <2>2. ASSUME NEW r \in DOMAIN resp, d.m = Replied(r).m
          PROVE  DeadB(m) \/ m = Replied(r).m
      <3>1. PICK j : j = resp[r].answers
        OBVIOUS
      <3>2. PICK v, q, f, k : /\ v = att[j].wallet /\ q = att[j].pinned
                              /\ f = att[j].e /\ k = resp[r].e
        OBVIOUS
      <3>3. Replied(r) = Reply(v, q, f, k)
        BY <3>1, <3>2 DEF Replied
      <3>4. f \in 1 .. keys /\ k \in 1 .. keys
        BY <3>1, <3>2 DEF IInv, AnswersItsPeer, AttemptsInv, SessionsInv
      <3>5. f # NoKey
        BY <1>4, <3>4, HandshakeAssumption
      <3>6. PICK both : both = StateB(v, q, f, k)
        OBVIOUS
      <3>7. PICK text : text = Sealed(both, NoKey)
        OBVIOUS
      <3>8. d.m = Message(k, NoText, text)
        BY <2>2, <3>3, <3>5, <3>6, <3>7, ReplyIs
      <3>9. text.ad[7] = k
        <4>1. both.h[7] = k
          BY <3>6, StateBFields
        <4>2. text.ad = both.h
          BY <3>7 DEF Sealed
        <4> QED
          BY <4>1, <4>2
      <3>10. d.m.ne = k /\ d.m.ns = NoText /\ d.m.text = text
        BY <3>8 DEF Message
      <3>11. CASE m.ne \in {0, NoKey} /\ m.text = text
        BY <1>4, <3>4, <3>9, <3>11 DEF DeadB
      <3>12. CASE m.text = Garbage
        BY <3>12 DEF DeadB
      <3>13. CASE m = Message(k, NoText, text)
        BY <2>2, <3>8, <3>13
      <3>14. \/ m = Message(0, NoText, text) \/ m = Message(NoKey, NoText, text)
             \/ m = Message(k, NoText, Garbage) \/ m = Message(k, NoText, text)
        BY <1>1, <1>6, <3>10
      <3> QED
        BY <3>11, <3>12, <3>13, <3>14 DEF Message
    <2> QED
      BY <1>6, <2>1, <2>2 DEF IInv, OnTheWire, WireB
  <1>7. OnTheWire'
    <2> SUFFICES ASSUME NEW c \in net'
                 PROVE  /\ c.type = "A" => WireA(c)'
                        /\ c.type = "B" => WireB(c)'
      BY DEF OnTheWire
    <2>1. CASE c \in net
      BY <1>3, <2>1, WireStays
    <2>2. CASE c = Datagram(d.type, d.addr, m, NoKey)
      <3>1. c.type = d.type /\ c.m = m /\ c.by = NoKey
        BY <2>2 DEF Datagram
      <3>2. ASSUME c.type = "A"
            PROVE  WireA(c)'
        BY <1>5, <3>1, <3>2 DEF WireA
      <3>3. ASSUME c.type = "B"
            PROVE  WireB(c)'
        BY <1>2, <1>3, <1>6, <3>1, <3>3, SameMessages DEF WireB
      <3> QED
        BY <3>2, <3>3
    <2> QED
      BY <1>1, <2>1, <2>2
  <1>8. AttemptsInv'
    BY <1>2, <1>3, SameMessages DEF IInv, AttemptsInv
  <1>9. Paired'
    BY <1>2, <1>3, PairStays DEF Paired
  <1> QED
    BY <1>2, <1>3, <1>7, <1>8, <1>9, SessionsStay DEF IInv

LEMMA AnswerIInv ==
  ASSUME IInv, Kept', NEW d \in net, Answer(d)
  PROVE  IInv'
  <1>1. PICK k : k = keys + 1
    OBVIOUS
  <1>2. PICK in : in = ReadHandshake(NewResponder(server.static), d.m)
    OBVIOUS
  <1>3. PICK out : out = WriteHandshake(in.x, k)
    OBVIOUS
  <1>4. PICK new : new = [peer |-> PeerStatic(in.x), x |-> out.x,
                          static |-> server.static, e |-> k,
                          answers |-> d.by]
    OBVIOUS
  <1>5. /\ Admits(in)
        /\ resp' = Append(resp, new)
        /\ net' = net \cup {Datagram("B", d.addr, out.m, NoKey)}
        /\ keys' = k
        /\ UNCHANGED att
        /\ d.type = "A"
    BY <1>1, <1>2, <1>3, <1>4, Zenon DEF Answer
  <1>6. in.ok
    BY <1>5, Zenon DEF Admits
  <1>7. ReadHandshake(NewResponder(server.static), d.m).ok
    BY <1>2, <1>6, Zenon
  <1>8. /\ d.m.ns.ad = HashA(server.static, Validated(d.m.ne, NoKey))
        /\ ~DeadA(d.m)
    BY <1>7, OpenedA
  <1>9. d.by \in DOMAIN att /\ d.m = Opened(d.by).m
    BY <1>5, <1>8 DEF IInv, OnTheWire, WireA
  <1>10. PICK w, p, e : /\ w = att[d.by].wallet /\ p = att[d.by].pinned
                        /\ e = att[d.by].e
    OBVIOUS
  <1>11. d.m = Opening(w, p, e).m /\ e \in 1 .. keys /\ keys \in Nat
    BY <1>9, <1>10 DEF Opened, IInv, AttemptsInv, Kept
  <1>12. e # NoKey
    BY <1>11, HandshakeAssumption
  <1>13. server.static = p
    <2>1. PICK ns, text : OpeningShape(w, p, e, ns, text)
      BY OpeningIs
    <2>2. d.m.ns.ad = HashA(p, e)
      BY <1>11, <2>1 DEF OpeningShape, Message
    <2>3. d.m.ns.ad[3] = p
      BY <2>2, HashAFields
    <2>4. d.m.ns.ad[3] = server.static
      BY <1>8, HashAFields
    <2> QED
      BY <2>3, <2>4
  <1>14. in = ReadHandshake(NewResponder(p), Opening(w, p, e).m)
    BY <1>2, <1>11, <1>13
  <1>15. PeerStatic(in.x) = w
    BY <1>12, <1>14, Mirror DEF PeerStatic
  <1>16. out = Reply(w, p, e, k)
    BY <1>3, <1>14 DEF Reply
  <1>17. /\ new.answers = d.by /\ new.e = k /\ new.x = out.x
         /\ new.peer = w /\ new.static = p
    BY <1>4, <1>13, <1>15
  <1>18. PICK n : n = Len(resp) + 1
    OBVIOUS
  <1>19. /\ IsSeq(resp)' /\ DOMAIN resp' = DOMAIN resp \cup {n}
         /\ resp'[n] = new
         /\ \A r \in DOMAIN resp : resp'[r] = resp[r]
    BY <1>5, <1>18, SeqGrows, IsSeqDomain DEF IInv, SessionsInv
  <1>20. /\ k \in Nat /\ keys < k
         /\ 1 .. keys \subseteq 1 .. k /\ k \in 1 .. k
    BY <1>1, <1>11
  <1>21. Grows
    BY <1>5, <1>11, <1>19, <1>20 DEF Grows
  <1>22. out = Replied(n)'
    BY <1>5, <1>10, <1>16, <1>17, <1>19 DEF Replied
  <1>23. AnswersItsPeer'
    BY <1>5, <1>9, <1>10, <1>17, <1>19 DEF IInv, AnswersItsPeer
  <1>24. SessionsInv'
    <2>1. ASSUME NEW r \in DOMAIN resp'
          PROVE  resp'[r].e \in 1 .. keys' /\ resp'[r].x = Replied(r)'.x
      <3>1. CASE r \in DOMAIN resp
        BY <1>5, <1>19, <1>20, <1>21, <3>1, SameMessages
           DEF IInv, SessionsInv
      <3>2. CASE r = n
        BY <1>5, <1>17, <1>19, <1>20, <1>22, <3>2
      <3> QED
        BY <1>19, <3>1, <3>2
    <2>2. ASSUME NEW r \in DOMAIN resp', NEW s \in DOMAIN resp',
                 resp'[r].e = resp'[s].e
          PROVE  r = s
      <3>1. \A l \in DOMAIN resp : resp'[l].e \in 1 .. keys
        BY <1>19 DEF IInv, SessionsInv
      <3>2. \A l \in DOMAIN resp : resp'[l].e # resp'[n].e
        BY <1>11, <1>17, <1>19, <1>20, <3>1
      <3>3. CASE r \in DOMAIN resp /\ s \in DOMAIN resp
        BY <1>19, <2>2, <3>3 DEF IInv, SessionsInv
      <3> QED
        BY <1>19, <2>2, <3>2, <3>3
    <2> QED
      BY <1>19, <2>1, <2>2 DEF SessionsInv
  <1>25. OnTheWire'
    <2> SUFFICES ASSUME NEW c \in net'
                 PROVE  /\ c.type = "A" => WireA(c)'
                        /\ c.type = "B" => WireB(c)'
      BY DEF OnTheWire
    <2>1. CASE c \in net
      BY <1>21, <2>1, WireStays
    <2>2. CASE c = Datagram("B", d.addr, out.m, NoKey)
      <3>1. c.type = "B" /\ c.m = out.m
        BY <2>2 DEF Datagram
      <3> QED
        BY <1>19, <1>22, <3>1 DEF WireB
    <2> QED
      BY <1>5, <2>1, <2>2
  <1>26. AttemptsInv'
    BY <1>5, <1>20, <1>21, SameMessages DEF IInv, AttemptsInv
  <1>27. Paired'
    BY <1>5, <1>21, PairStays DEF Paired
  <1> QED
    BY <1>23, <1>24, <1>25, <1>26, <1>27 DEF IInv

LEMMA InductiveStep ==
  ASSUME IInv, [Next]_vars
  PROVE  IInv'
  <1>1. Kept'
    BY NextKept DEF IInv
  <1>2. CASE Boot \/ Crash
    <2>1. UNCHANGED <<att, resp, net>>
      BY <1>2 DEF Boot, Crash, LoadStatic, CreateStatic, RenameKey,
                  TruncatePub, WritePub, PubFails, LoadPeers, ServerOnly
    <2>2. keys' \in {keys, keys + 1}
      BY <1>2 DEF Boot, Crash, LoadStatic, CreateStatic, RenameKey,
                  TruncatePub, WritePub, PubFails, LoadPeers
    <2>3. keys <= keys'
      BY <2>2 DEF IInv, Kept
    <2> QED
      BY <1>1, <2>1, <2>3, QuietIInv
  <1>3. ASSUME NEW w \in Wallets, Fetch(w)
        PROVE  IInv'
    <2>1. UNCHANGED <<att, resp, net, keys>>
      BY <1>3 DEF Fetch
    <2>2. keys <= keys'
      BY <2>1 DEF IInv, Kept
    <2> QED
      BY <1>1, <2>1, <2>2, QuietIInv
  <1>4. ASSUME NEW w \in Wallets, NEW a \in Addrs, Begin(w, a)
        PROVE  IInv'
    BY <1>1, <1>4, BeginIInv
  <1>5. ASSUME NEW i \in DOMAIN att, GiveUp(i)
        PROVE  IInv'
    <2>1. att' = [att EXCEPT ![i] =
                    Attempt("failed", att[i].wallet, att[i].addr,
                            att[i].pinned, att[i].e, att[i].x)]
      BY <1>5, Zenon DEF GiveUp
    <2>2. UNCHANGED <<resp, net, keys>>
      BY <1>5, Zenon DEF GiveUp
    <2>3. PICK pc : pc = "failed" /\ pc # "await" /\ pc # "up"
      OBVIOUS
    <2>4. att' = [att EXCEPT ![i] =
                    Attempt(pc, att[i].wallet, att[i].addr,
                            att[i].pinned, att[i].e, att[i].x)]
      BY <2>1, <2>3
    <2> QED
      BY <1>1, <2>2, <2>3, <2>4, ProgressIInv, Zenon
  <1>6. ASSUME NEW i \in DOMAIN att, NEW d \in net, ReadAnswer(i, d)
        PROVE  IInv'
    BY <1>1, <1>6, ReadAnswerIInv
  <1>7. ASSUME NEW d \in net, Answer(d)
        PROVE  IInv'
    BY <1>1, <1>7, AnswerIInv
  <1>8. ASSUME NEW d \in net, Damage(d)
        PROVE  IInv'
    BY <1>1, <1>8, DamageIInv
  <1>9. CASE UNCHANGED vars
    <2>1. UNCHANGED <<att, resp, net, keys>>
      BY <1>9 DEF vars
    <2>2. keys <= keys'
      BY <2>1 DEF IInv, Kept
    <2> QED
      BY <1>1, <2>1, <2>2, QuietIInv
  <1> QED
    BY <1>2, <1>3, <1>4, <1>5, <1>6, <1>7, <1>8, <1>9
       DEF Next, ClientStep

THEOREM InductiveInvariant == Spec => []IInv
  BY InitIInv, InductiveStep, PTL DEF Spec

-----------------------------------------------------------------------------
(* What follows from it.                                                   *)

\* The keys of a session are made of its own key and its peer's.
LEMMA SessionKeys ==
  ASSUME IInv, NEW r \in DOMAIN resp
  PROVE  /\ resp[r].peer \in Wallets /\ resp[r].e \in Nat
         /\ resp[r].x.cs1[5] = DH(resp[r].e, resp[r].peer)
         /\ resp[r].x.cs2[5] = DH(resp[r].e, resp[r].peer)
         /\ resp[r].x.cs1[6] = 1 /\ resp[r].x.cs2[6] = 2
         /\ ~resp[r].x.i
  <1>1. PICK j : j = resp[r].answers
    OBVIOUS
  <1>2. PICK v, q, f, k : /\ v = att[j].wallet /\ q = att[j].pinned
                          /\ f = att[j].e /\ k = resp[r].e
    OBVIOUS
  <1>3. resp[r].x = Reply(v, q, f, k).x
    BY <1>1, <1>2 DEF IInv, SessionsInv, Replied
  <1>4. /\ f \in 1 .. keys /\ k \in 1 .. keys /\ keys \in Nat
        /\ resp[r].peer = v /\ v \in Wallets
    BY <1>1, <1>2
       DEF IInv, Kept, AnswersItsPeer, AttemptsInv, SessionsInv
  <1>5. f # NoKey
    BY <1>4, HandshakeAssumption
  <1>6. PICK both : both = StateB(v, q, f, k)
    OBVIOUS
  <1>7. /\ resp[r].x.cs1 = Append(both.ck, 1)
        /\ resp[r].x.cs2 = Append(both.ck, 2)
    BY <1>3, <1>5, <1>6, ReplyIs
  <1>8. /\ Append(both.ck, 1)[5] = DH(k, v) /\ Append(both.ck, 1)[6] = 1
        /\ Append(both.ck, 2)[5] = DH(k, v) /\ Append(both.ck, 2)[6] = 2
    BY <1>6, StateBFields
  <1>9. ~resp[r].x.i
    BY <1>3, <1>5, Roles
  <1> QED
    <2>1. /\ resp[r].peer \in Wallets /\ resp[r].e \in Nat
          /\ resp[r].x.cs1[5] = DH(resp[r].e, resp[r].peer)
          /\ resp[r].x.cs2[5] = DH(resp[r].e, resp[r].peer)
          /\ resp[r].x.cs1[6] = 1 /\ resp[r].x.cs2[6] = 2
      <3>1. resp[r].peer = v /\ resp[r].e = k /\ v \in Wallets /\ k \in Nat
        BY <1>2, <1>4
      <3>2. PICK c1, c2 : c1 = resp[r].x.cs1 /\ c2 = resp[r].x.cs2
        OBVIOUS
      <3>3. /\ c1[5] = DH(k, v) /\ c1[6] = 1
            /\ c2[5] = DH(k, v) /\ c2[6] = 2
        BY <1>7, <1>8, <3>2
      <3> QED
        BY <3>1, <3>2, <3>3, Zenon
    <2> QED
      BY <1>9, <2>1, Zenon

LEMMA KeysDiffer ==
  ASSUME IInv, NEW r \in DOMAIN resp, NEW s \in DOMAIN resp, r # s
  PROVE  /\ resp[r].x.cs1[5] # resp[s].x.cs1[5]
         /\ resp[r].x.cs1[5] # resp[s].x.cs2[5]
         /\ resp[r].x.cs2[5] # resp[s].x.cs1[5]
         /\ resp[r].x.cs2[5] # resp[s].x.cs2[5]
  <1>1. resp[r].e # resp[s].e
    BY DEF IInv, SessionsInv
  <1>2. resp[r].e # resp[s].peer
    BY SessionKeys, HandshakeAssumption
  <1>3. DH(resp[r].e, resp[r].peer) # DH(resp[s].e, resp[s].peer)
    BY <1>1, <1>2 DEF DH
  <1> QED
    BY <1>3, SessionKeys

-----------------------------------------------------------------------------
(* Types.                                                                  *)

LEMMA InitTypes == Init => TypeOK
  BY HandshakeAssumption
     DEF Init, TypeOK, ServerTypes, ServerType, Known, ClientTypes, Bounds,
         Down

\* Steps of the server's start, and its end, touch nothing of the clients.
LEMMA BootTypes ==
  ASSUME TypeOK, Boot \/ Crash
  PROVE  TypeOK'
  <1>1. UNCHANGED <<pin, att, resp>>
    BY DEF Boot, Crash, LoadStatic, CreateStatic, RenameKey, TruncatePub,
           WritePub, PubFails, LoadPeers, ServerOnly
  <1>2. ClientTypes'
    BY <1>1 DEF TypeOK, ClientTypes
  <1>3. PICK known : known = Known
    OBVIOUS
  <1>4. /\ keys \in Nat /\ NoKey \in known
        /\ keyFile \in known /\ pubFile \in known \cup {Torn}
        /\ server \in ServerType(known) /\ pin \in [Wallets -> known]
        /\ Down \in ServerType(known)
        /\ Len(att) \in Nat /\ Len(resp) \in Nat
        /\ faults \in 0 .. MaxFaults
    BY <1>3, HandshakeAssumption
       DEF TypeOK, ServerTypes, Bounds, Known, Down, ServerType
  <1>5. NoFault \/ Fault => faults' \in 0 .. MaxFaults
    BY <1>4, HandshakeAssumption DEF NoFault, Fault
  <1>6. ASSUME NEW pc \in {"truncate", "publish", "peers"}, Goto(pc)
        PROVE  server' \in ServerType(known)
    BY <1>4, <1>6 DEF Goto, ServerType
  <1>7. CASE CreateStatic
    <2>1. PICK k : k = keys + 1
      OBVIOUS
    <2>2. server' = [pc |-> "rename", static |-> k,
                     created |-> TRUE, allow |-> {}]
      BY <1>7, <2>1 DEF CreateStatic, Down
    <2>3. /\ keys' = k /\ keys < MaxStatics /\ faults' \in 0 .. MaxFaults
          /\ UNCHANGED <<keyFile, pubFile>>
      BY <1>5, <1>7, <2>1 DEF CreateStatic, FilesStay, files
    <2>4. k \in Nat /\ Known' = known \cup {k} /\ k <= MaxStatics
      <3>1. MaxStatics \in Nat
        BY HandshakeAssumption
      <3>2. k \in Nat /\ k <= MaxStatics
        BY <1>4, <2>1, <2>3, <3>1
      <3>3. 1 .. k = (1 .. keys) \cup {k}
        BY <1>4, <2>1
      <3>4. Known' = (1 .. k) \cup {NoKey}
        BY <2>3 DEF Known
      <3> QED
        BY <1>3, <3>2, <3>3, <3>4 DEF Known
    <2>5. server' \in ServerType(Known')
      BY <2>2, <2>4 DEF ServerType
    <2>6. ServerTypes'
      BY <1>1, <1>4, <2>3, <2>4, <2>5 DEF ServerTypes
    <2>7. Bounds'
      BY <1>1, <1>4, <2>1, <2>3, <2>4, HandshakeAssumption
         DEF TypeOK, Bounds
    <2> QED
      BY <1>2, <2>6, <2>7 DEF TypeOK
  <1>8. ASSUME keys' = keys, faults' \in 0 .. MaxFaults,
               server' \in ServerType(known), keyFile' \in known,
               pubFile' \in known \cup {Torn}
        PROVE  TypeOK'
    <2>1. Known' = known
      BY <1>3, <1>8 DEF Known
    <2>2. ServerTypes'
      BY <1>1, <1>4, <1>8, <2>1 DEF ServerTypes
    <2> QED
      BY <1>1, <1>2, <1>8, <2>2 DEF TypeOK, Bounds
  <1>9. CASE LoadStatic
    <2>1. server' = [pc |-> "truncate", static |-> keyFile,
                     created |-> FALSE, allow |-> {}]
      BY <1>9 DEF LoadStatic, Down
    <2>2. server' \in ServerType(known)
      BY <1>4, <2>1 DEF ServerType
    <2> QED
      BY <1>4, <1>5, <1>8, <1>9, <2>2 DEF LoadStatic, FilesStay, files
  <1>10. CASE RenameKey
    <2>1. server.static \in known
      BY <1>4 DEF ServerType
    <2> QED
      BY <1>4, <1>5, <1>6, <1>8, <1>10, <2>1 DEF RenameKey
  <1>11. CASE TruncatePub
    BY <1>4, <1>5, <1>6, <1>8, <1>11 DEF TruncatePub
  <1>12. CASE WritePub
    <2>1. server.static \in known
      BY <1>4 DEF ServerType
    <2> QED
      BY <1>4, <1>5, <1>6, <1>8, <1>12, <2>1 DEF WritePub
  <1>13. CASE PubFails
    BY <1>4, <1>5, <1>6, <1>8, <1>13 DEF PubFails, FilesStay, files
  <1>14. CASE LoadPeers
    <2>1. server' \in ServerType(known)
      BY <1>4, <1>14 DEF LoadPeers, ServerType
    <2> QED
      BY <1>4, <1>5, <1>8, <1>14, <2>1 DEF LoadPeers, FilesStay, files
  <1>15. CASE Crash
    BY <1>4, <1>5, <1>8, <1>15 DEF Crash, FilesStay, files
  <1> QED
    BY <1>7, <1>9, <1>10, <1>11, <1>12, <1>13, <1>14, <1>15 DEF Boot

\* A key more breaks no type.
LEMMA MoreKeys ==
  ASSUME ServerTypes, keys' = keys + 1,
         UNCHANGED <<keyFile, pubFile, server, pin>>
  PROVE  ServerTypes'
  <1>1. keys' \in Nat /\ Known \subseteq Known'
    BY DEF ServerTypes, Known
  <1>2. server' \in ServerType(Known')
    BY <1>1 DEF ServerTypes, ServerType
  <1> QED
    BY <1>1, <1>2 DEF ServerTypes

LEMMA NextTypes ==
  ASSUME TypeOK, IInv, [Next]_vars
  PROVE  TypeOK'
  <1>1. CASE Boot \/ Crash
    BY <1>1, BootTypes
  <1>2. ASSUME NEW w \in Wallets, Fetch(w)
        PROVE  TypeOK'
    <2>1. ServerTypes'
      BY <1>2 DEF Fetch, TypeOK, ServerTypes, Known, FilesStay, files
    <2>2. UNCHANGED <<att, resp, keys, faults>>
      BY <1>2 DEF Fetch, NoFault
    <2> QED
      BY <2>1, <2>2 DEF TypeOK, ClientTypes, Bounds
  <1>3. ASSUME NEW w \in Wallets, NEW a \in Addrs, Begin(w, a)
        PROVE  TypeOK'
    <2>1. PICK k : k = keys + 1
      OBVIOUS
    <2>2. PICK x : att' = Append(att, Attempt("await", w, a, pin[w], k, x))
      BY <1>3, <2>1, Zenon DEF Begin
    <2>3. /\ keys' = k /\ Len(att) < MaxAttempts
          /\ UNCHANGED <<keyFile, pubFile, server, pin, resp, faults>>
      BY <1>3, <2>1 DEF Begin, FilesStay, files, NoFault
    <2>4. PICK new : new = Attempt("await", w, a, pin[w], k, x)
      OBVIOUS
    <2>5. new.pc = "await" /\ new.wallet = w /\ new.addr = a
      BY <2>4 DEF Attempt
    <2>6. /\ DOMAIN att' = DOMAIN att \cup {Len(att) + 1}
          /\ att'[Len(att) + 1] = new
          /\ \A i \in DOMAIN att : att'[i] = att[i]
          /\ Len(att') = Len(att) + 1
      BY <2>2, <2>4, SeqGrows DEF IInv, AttemptsInv
    <2>7. ClientTypes'
      BY <2>3, <2>5, <2>6 DEF TypeOK, ClientTypes
    <2> QED
      <3>1. ServerTypes'
        BY <2>1, <2>3, MoreKeys DEF TypeOK
      <3>2. Bounds'
        <4>1. PICK n : n = Len(att)
          OBVIOUS
        <4>2. PICK r : r = Len(resp)
          OBVIOUS
        <4>3. /\ n \in 0 .. MaxAttempts /\ r \in 0 .. MaxSessions
              /\ keys \in Nat /\ keys <= MaxStatics + n + r
              /\ faults \in 0 .. MaxFaults
          BY <4>1, <4>2 DEF TypeOK, ServerTypes, Bounds
        <4>4. Len(att') = n + 1 /\ n < MaxAttempts
          BY <2>3, <2>6, <4>1
        <4>5. n + 1 \in 0 .. MaxAttempts /\ keys + 1 <= MaxStatics + (n + 1) + r
          BY <4>3, <4>4, HandshakeAssumption
        <4> QED
          BY <2>1, <2>3, <4>2, <4>3, <4>4, <4>5 DEF Bounds
      <3> QED
        BY <2>7, <3>1, <3>2 DEF TypeOK
  <1>4. ASSUME NEW i \in DOMAIN att, NEW pc \in {"up", "failed"}, NEW x,
               att' = [att EXCEPT ![i] =
                         Attempt(pc, att[i].wallet, att[i].addr,
                                 att[i].pinned, att[i].e, x)],
               UNCHANGED <<keyFile, pubFile, server, pin, resp, keys, faults>>
        PROVE  TypeOK'
    <2>1. PICK v : v = Attempt(pc, att[i].wallet, att[i].addr, att[i].pinned,
                               att[i].e, x)
      OBVIOUS
    <2>2. v.pc = pc /\ v.wallet = att[i].wallet /\ v.addr = att[i].addr
      BY <2>1 DEF Attempt
    <2>3. /\ DOMAIN att' = DOMAIN att /\ Len(att') = Len(att)
          /\ \A j \in DOMAIN att : att'[j] = IF j = i THEN v ELSE att[j]
      BY <1>4, <2>1, SeqChanges DEF IInv, AttemptsInv
    <2>4. ClientTypes'
      BY <1>4, <2>2, <2>3 DEF TypeOK, ClientTypes
    <2> QED
      BY <1>4, <2>3, <2>4 DEF TypeOK, ServerTypes, Known, Bounds
  <1>5. ASSUME NEW i \in DOMAIN att, GiveUp(i)
        PROVE  TypeOK'
    <2>1. att' = [att EXCEPT ![i] =
                    Attempt("failed", att[i].wallet, att[i].addr,
                            att[i].pinned, att[i].e, att[i].x)]
      BY <1>5, Zenon DEF GiveUp
    <2>2. UNCHANGED <<keyFile, pubFile, server, pin, resp, keys, faults>>
      BY <1>5 DEF GiveUp, FilesStay, files, NoFault
    <2> QED
      BY <1>4, <2>1, <2>2
  <1>6. ASSUME NEW i \in DOMAIN att, NEW d \in net, ReadAnswer(i, d)
        PROVE  TypeOK'
    <2>1. PICK x, ok : att' = [att EXCEPT ![i] =
                    Attempt(IF ok THEN "up" ELSE "failed", att[i].wallet,
                            att[i].addr, att[i].pinned, att[i].e, x)]
      BY <1>6, Zenon DEF ReadAnswer
    <2>2. UNCHANGED <<keyFile, pubFile, server, pin, resp, keys, faults>>
      BY <1>6, Zenon DEF ReadAnswer, FilesStay, files, NoFault
    <2>3. (IF ok THEN "up" ELSE "failed") \in {"up", "failed"}
      OBVIOUS
    <2> QED
      BY <1>4, <2>1, <2>2, <2>3
  <1>7. ASSUME NEW d \in net, Answer(d)
        PROVE  TypeOK'
    <2>1. PICK k : k = keys + 1
      OBVIOUS
    <2>2. PICK new : resp' = Append(resp, new)
      BY <1>7, Zenon DEF Answer
    <2>3. /\ keys' = k /\ Len(resp) < MaxSessions
          /\ UNCHANGED <<keyFile, pubFile, server, pin, att, faults>>
      BY <1>7, <2>1, Zenon DEF Answer, FilesStay, files, NoFault
    <2>4. Len(resp') = Len(resp) + 1
      BY <2>2, SeqGrows DEF IInv, SessionsInv
    <2>5. ClientTypes'
      <3>1. IInv'
        BY InductiveStep
      <3>2. \A r \in DOMAIN resp' : resp'[r].peer \in Wallets
        BY <3>1 DEF IInv, AnswersItsPeer, AttemptsInv
      <3> QED
        BY <2>3, <3>2 DEF TypeOK, ClientTypes
    <2> QED
      <3>1. ServerTypes'
        BY <2>1, <2>3, MoreKeys DEF TypeOK
      <3>2. Bounds'
        BY <2>1, <2>3, <2>4, HandshakeAssumption
           DEF TypeOK, Bounds, ServerTypes
      <3> QED
        BY <2>5, <3>1, <3>2 DEF TypeOK
  <1>8. ASSUME NEW d \in net, Damage(d)
        PROVE  TypeOK'
    <2>1. UNCHANGED <<keyFile, pubFile, server, pin, att, resp, keys>>
      BY <1>8, Zenon DEF Damage, FilesStay, files
    <2>2. faults' \in 0 .. MaxFaults
      <3>1. Fault
        BY <1>8, Zenon DEF Damage
      <3> QED
        BY <3>1, HandshakeAssumption DEF Fault, TypeOK, Bounds
    <2> QED
      BY <2>1, <2>2 DEF TypeOK, ServerTypes, Known, ClientTypes, Bounds
  <1>9. CASE UNCHANGED vars
    BY <1>9 DEF vars, TypeOK, ServerTypes, Known, ClientTypes, Bounds
  <1> QED
    BY <1>1, <1>2, <1>3, <1>5, <1>6, <1>7, <1>8, <1>9 DEF Next, ClientStep

\* Every variable keeps its type and its bound.
THEOREM TypesAlways == Spec => []TypeOK
  BY InitTypes, NextTypes, InductiveInvariant, PTL DEF Spec

-----------------------------------------------------------------------------
\* The key that clients are given is the one the server keeps, for any number
\* of crashes and failed writes.
THEOREM KeyOutlivesCrashes == Spec => []PinLasts
  <1>1. IInv => PinLasts
    BY DEF IInv, Kept, PinLasts
  <1> QED
    BY <1>1, InductiveInvariant, PTL

\* Every session of the server answers a message A as a client of that wallet
\* wrote it for the key of this server, however many were damaged on their way.
THEOREM SessionsAnswerTheirPeer == Spec => []AnswersItsPeer
  BY InductiveInvariant, PTL DEF IInv

\* No two sessions of the server share a transport key, however often a message
\* A is repeated.
THEOREM SessionsHaveOwnKeys == Spec => []FreshSessions
  <1>1. IInv => FreshSessions
    BY KeysDiffer DEF FreshSessions
  <1> QED
    BY <1>1, InductiveInvariant, PTL

\* A client that is up and exactly one session have the same keys, the same
\* transcript and each other's names, and no other client shares them: for any
\* number of clients, attempts, restarts and damaged, late or repeated messages.
THEOREM EndsAgree == Spec => []Agreement
  <1>1. ASSUME IInv
        PROVE  Agreement
    <2> SUFFICES ASSUME NEW i \in DOMAIN att, att[i].pc = "up"
                 PROVE  \E r \in DOMAIN resp :
                          /\ Agree(i, r)
                          /\ \A s \in DOMAIN resp \ {r} : ~Agree(i, s)
                          /\ \A j \in DOMAIN att \ {i} :
                               att[j].pc = "up" => ~Agree(j, r)
      BY DEF Agreement
    <2>1. PICK r \in DOMAIN resp : Pair(i, r)
      BY <1>1 DEF IInv, Paired
    <2>2. ASSUME NEW j \in DOMAIN att, NEW s \in DOMAIN resp, Pair(j, s)
          PROVE  /\ Tx(att[j].x) = resp[s].x.cs1
                 /\ Rx(att[j].x) = resp[s].x.cs2
                 /\ Rx(resp[s].x) = resp[s].x.cs1
                 /\ Tx(resp[s].x) = resp[s].x.cs2
      <3>1. att[j].x.i /\ ~resp[s].x.i
        BY <1>1, <2>2, SessionKeys, Zenon DEF Pair
      <3> QED
        BY <2>2, <3>1, Zenon DEF Pair, Tx, Rx
    <2>3. Agree(i, r)
      <3>1. /\ resp[r].peer = att[i].wallet /\ resp[r].static = att[i].pinned
            /\ resp[r].x.h = att[i].x.h
        BY <1>1, <2>1 DEF IInv, AnswersItsPeer, Pair
      <3>2. resp[r].x.cs1 # resp[r].x.cs2
        BY <1>1, SessionKeys
      <3> QED
        BY <2>1, <2>2, <3>1, <3>2 DEF Agree
    <2>4. ASSUME NEW s \in DOMAIN resp \ {r}
          PROVE  ~Agree(i, s)
      <3>1. Rx(resp[s].x) = resp[s].x.cs1
        BY <1>1, SessionKeys, Zenon DEF Rx
      <3>2. Tx(att[i].x) # Rx(resp[s].x)
        BY <1>1, <2>1, <2>2, <3>1, KeysDiffer
      <3> QED
        BY <3>2 DEF Agree
    <2>5. ASSUME NEW j \in DOMAIN att \ {i}, att[j].pc = "up"
          PROVE  ~Agree(j, r)
      <3>1. PICK s \in DOMAIN resp : Pair(j, s)
        BY <1>1, <2>5 DEF IInv, Paired
      <3>2. s # r
        BY <2>1, <2>5, <3>1 DEF Pair
      <3>3. Tx(att[j].x) = resp[s].x.cs1 /\ Rx(resp[r].x) = resp[r].x.cs1
        BY <2>1, <2>2, <3>1
      <3>4. Tx(att[j].x) # Rx(resp[r].x)
        BY <1>1, <3>2, <3>3, KeysDiffer
      <3> QED
        BY <3>4 DEF Agree
    <2> QED
      BY <2>3, <2>4, <2>5
  <1> QED
    BY <1>1, InductiveInvariant, PTL
=============================================================================
