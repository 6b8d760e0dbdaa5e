------------------------------- MODULE NoiseIK --------------------------------
(***************************************************************************)
(* The Noise IK handshake of internal/noise (noise_ik.go, api.go) on       *)
(* symbolic keys.  A key stands for its pair; the shared secret of two     *)
(* keys is the set of both, whoever computes it.  A hash and a chaining    *)
(* key are the sequence of what went into them, so two are equal when and  *)
(* only when their inputs are.  A sealed text opens under the key, the     *)
(* nonce and the additional data it was sealed with, and no others.        *)
(***************************************************************************)
EXTENDS Naturals, Sequences

CONSTANTS NoKey          \* 32 zero bytes: an unset key, or one refused by
                         \* validatePublicKey

Name == "Noise_IK_25519_ChaChaPoly_BLAKE2s"
Prologue == "blockchain-vpn-v1"

DH(a, b) == {a, b}

-----------------------------------------------------------------------------
(* SymmetricState with its CipherState; an empty k is "no key".            *)

Symmetric(h, ck, k, n) == [h |-> h, ck |-> ck, k |-> k, n |-> n]
InitSymmetric == Symmetric(<<Name>>, <<Name>>, <<>>, 0)

MixKey(ss, secret) ==
  Symmetric(ss.h, Append(ss.ck, secret), Append(ss.ck, secret), 0)

MixHash(ss, data) == Symmetric(Append(ss.h, data), ss.ck, ss.k, ss.n)

Garbage == [k |-> <<>>, n |-> 0, ad |-> <<>>, plain |-> NoKey]
NoText == [k |-> <<>>, n |-> 0, ad |-> <<>>, plain |-> NoKey, none |-> TRUE]

\* encryptAndHash is only reached with a key.
Sealed(ss, plain) == [k |-> ss.k, n |-> ss.n, ad |-> ss.h, plain |-> plain]
AfterSeal(ss, text) == Symmetric(Append(ss.h, text), ss.ck, ss.k, ss.n + 1)

\* decryptAndHash: a text that does not open is hashed nevertheless.
Opens(ss, text) == text.k = ss.k /\ text.n = ss.n /\ text.ad = ss.h
AfterOpen(ss, text) ==
  IF Opens(ss, text) THEN AfterSeal(ss, text) ELSE MixHash(ss, text)

-----------------------------------------------------------------------------
(* A session: mc counts the messages written or read.  s, e, rs, re and ss *)
(* are its handshakestate; cs1 and cs2 its transport keys after split.     *)

Session(i, mc, s, e, rs, re, ss) ==
  [i |-> i, mc |-> mc, s |-> s, e |-> e, rs |-> rs, re |-> re, ss |-> ss,
   h |-> <<>>, cs1 |-> <<>>, cs2 |-> <<>>]

InitSession(initiator, s, rs) ==
  Session(initiator, 0, s, NoKey, rs, NoKey,
          MixHash(MixHash(InitSymmetric, Prologue),
                  IF initiator THEN rs ELSE s))

NewInitiator(s, rs) == InitSession(TRUE, s, rs)
NewResponder(s) == InitSession(FALSE, s, NoKey)

HandshakeComplete(x) == x.mc >= 2
PeerStatic(x) == x.rs

\* Mutation of Split: the keys of both directions come from one output.
Split_Same(ss) == <<Append(ss.ck, 1), Append(ss.ck, 1)>>

Split(ss) == <<Append(ss.ck, 1), Append(ss.ck, 2)>>

\* After message B: the transport keys stay, the handshake state is zeroed.
Finished(x, ss) ==
  [i |-> x.i, mc |-> 2, s |-> NoKey, e |-> NoKey, rs |-> NoKey, re |-> NoKey,
   ss |-> InitSymmetric,
   h |-> ss.h, cs1 |-> Split(ss)[1], cs2 |-> Split(ss)[2]]

-----------------------------------------------------------------------------
(* Writing.  e is the key generateKeypair returns; payloads are empty.     *)

Message(ne, ns, text) == [ne |-> ne, ns |-> ns, text |-> text]

\* writeMessageA: e, es, s, ss.
WriteA(x, e) ==
  LET es == MixKey(MixHash(x.ss, e), DH(e, x.rs))
      ns == Sealed(es, x.s)
      both == MixKey(AfterSeal(es, ns), DH(x.s, x.rs))
      text == Sealed(both, NoKey)
  IN [x |-> Session(x.i, 1, x.s, e, x.rs, x.re, AfterSeal(both, text)),
      m |-> Message(e, ns, text)]

\* Mutation of KeysB: neither secret of the fresh key is mixed in.
KeysB_NotFresh(x, e) == MixHash(x.ss, NoKey)

\* ee, se.
KeysB(x, e) == MixKey(MixKey(MixHash(x.ss, e), DH(e, x.re)), DH(e, x.rs))

\* writeMessageB: e, ee, se.
WriteB(x, e) ==
  LET both == KeysB(x, e)
      text == Sealed(both, NoKey)
  IN [x |-> Finished(x, AfterSeal(both, text)),
      m |-> Message(e, NoText, text)]

WriteHandshake(x, e) == IF x.mc = 0 THEN WriteA(x, e) ELSE WriteB(x, e)

-----------------------------------------------------------------------------
(* Reading.  mc is advanced also by a message that does not open; ok is    *)
(* what tells, and ReadHandshake returns ErrAEADFailure when it is FALSE.  *)

\* validatePublicKey: a key that is refused leaves the one before.
Validated(key, before) == IF key = NoKey THEN before ELSE key

\* readMessageA.
ReadA(x, m) ==
  LET re == Validated(m.ne, x.re)
      es == MixKey(MixHash(x.ss, re), DH(re, x.s))
      rs == IF Opens(es, m.ns) THEN m.ns.plain ELSE x.rs
      both == MixKey(AfterOpen(es, m.ns), DH(x.s, rs))
  IN [x |-> Session(x.i, 1, x.s, x.e, rs, re, AfterOpen(both, m.text)),
      ok |-> Opens(es, m.ns) /\ Opens(both, m.text)]

\* readMessageB.
ReadB(x, m) ==
  LET re == Validated(m.ne, x.re)
      both == MixKey(MixKey(MixHash(x.ss, re), DH(x.e, re)), DH(x.s, re))
  IN [x |-> Finished(x, AfterOpen(both, m.text)), ok |-> Opens(both, m.text)]

ReadHandshake(x, m) == IF x.mc = 0 THEN ReadA(x, m) ELSE ReadB(x, m)

-----------------------------------------------------------------------------
\* The keys a session seals with and opens with.
Tx(x) == IF x.i THEN x.cs1 ELSE x.cs2
Rx(x) == IF x.i THEN x.cs2 ELSE x.cs1
=============================================================================
