---------------------------- MODULE ReplayWindow ----------------------------
(***************************************************************************)
(* The transport phase of a Noise session (noise/api.go), one direction:   *)
(* the sender's nonce counter, and the receiver's sliding replay window.   *)
(* UDP may lose, duplicate and reorder frames, so the receiver may be      *)
(* handed any frame sent so far, any number of times; it may also be       *)
(* handed a frame whose authentication fails (damaged on the way, or       *)
(* sealed under the keys of the session that used this address before),    *)
(* whose explicit nonce is then any wire value.                            *)
(***************************************************************************)
EXTENDS Integers, FiniteSets

CONSTANTS W,             \* width of the bitmap; 64 in the code
          MaxNonce       \* largest wire nonce; math.MaxUint64 in the code

ASSUME WindowAssumption == W \in Nat \ {0}
ASSUME NonceAssumption  == MaxNonce \in Nat

Nonces  == 0 .. MaxNonce
Offsets == 0 .. (W - 1)  \* bit positions of recvWindow

VARIABLES sendNonce,     \* the sender's cs.n
          rx,            \* recvAny, recvLast and recvWindow (its set bits)
          copies         \* history: how often each nonce came out of Decrypt

vars == <<sendNonce, rx, copies>>

Sent == 0 .. (sendNonce - 1)
Window == [any : BOOLEAN, last : Nonces, bits : SUBSET Offsets]

TypeOK ==
  /\ sendNonce \in Nonces
  /\ rx \in Window
  /\ copies \in [Nonces -> Nat]

Init ==
  /\ sendNonce = 0
  /\ rx = [any |-> FALSE, last |-> 0, bits |-> {}]
  /\ copies = [n \in Nonces |-> 0]

-----------------------------------------------------------------------------
(* replayCheck: its verdict and, when it accepts, the window it leaves.    *)

\* Mutation of replayCheck: no test of the bit.
MayAccept_NoBitTest(r, n) == ~r.any \/ n > r.last \/ r.last - n < W

MayAccept(r, n) ==
  \/ ~r.any
  \/ n > r.last
  \/ r.last - n < W /\ (r.last - n) \notin r.bits

\* Mutation of the shift: one place short.
Shifted_Short(bits, by) == {d \in Offsets : d = 0 \/ (d - by + 1) \in bits}

Shifted(bits, by) == {d \in Offsets : d = 0 \/ (d - by) \in bits}

Marked(r, n) ==
  IF ~r.any THEN [any |-> TRUE, last |-> n, bits |-> {0}]
  ELSE IF n > r.last
    THEN [any |-> TRUE, last |-> n, bits |-> Shifted(r.bits, n - r.last)]
    ELSE [r EXCEPT !.bits = @ \cup {r.last - n}]

\* Mutation of replayUndo: the bit stays set.
Undone_KeepsBit(r, n) == r

\* replayUndo.  Its early returns are never taken after Marked.
Undone(r, n) ==
  IF ~r.any \/ n > r.last \/ r.last - n >= W THEN r
  ELSE [r EXCEPT !.bits = @ \ {r.last - n}]

-----------------------------------------------------------------------------
\* Encrypt: refuses the last wire value, so that cs.n never wraps.
Encrypt ==
  /\ sendNonce < MaxNonce
  /\ sendNonce' = sendNonce + 1
  /\ UNCHANGED <<rx, copies>>

\* Decrypt of a frame this peer sealed.  A frame the window refuses leaves
\* every variable as it was.
Decrypt(n) ==
  /\ n \in Sent
  /\ MayAccept(rx, n)
  /\ rx' = Marked(rx, n)
  /\ copies' = [copies EXCEPT ![n] = @ + 1]
  /\ UNCHANGED sendNonce

\* Decrypt of a frame whose tag does not verify: marked, then undone.
DecryptFails(n) ==
  /\ MayAccept(rx, n)
  /\ rx' = Undone(Marked(rx, n), n)
  /\ UNCHANGED <<sendNonce, copies>>

NextGenuine == Encrypt \/ \E n \in Nonces : Decrypt(n)
Next == NextGenuine \/ \E n \in Nonces : DecryptFails(n)

Spec        == Init /\ [][Next]_vars
SpecGenuine == Init /\ [][NextGenuine]_vars   \* every frame verifies

-----------------------------------------------------------------------------
(* Properties.                                                             *)

\* No frame is handed to the interface twice, whatever the network repeats
\* and whatever failed frames do to the window in between.
NoReplay == \A n \in Nonces : copies[n] <= 1

\* The bitmap is exact: inside the window a bit is set just when that nonce
\* was delivered, and nothing above recvLast was delivered.  replayUndo must
\* restore precisely this after a failed frame.
BitmapExact ==
  \A n \in Nonces :
    /\ copies[n] > 0 => rx.any /\ n <= rx.last
    /\ n <= rx.last /\ rx.last - n < W
         => ((rx.last - n) \in rx.bits <=> copies[n] = 1)

\* Only frames the peer has sealed are delivered.
DeliveredWasSent == \A n \in Nonces : copies[n] > 0 => n \in Sent

\* The inductive invariant.
IInv == TypeOK /\ NoReplay /\ BitmapExact /\ DeliveredWasSent

\* A frame that was not delivered yet, and is less than W behind the highest
\* nonce seen, is still accepted: a failed frame at the same nonce has not
\* used it up (the comment in Decrypt's failure branch).
LateFrameAccepted ==
  \A n \in Nonces :
    copies[n] = 0 /\ rx.last - n < W => MayAccept(rx, n)

\* No failed frame has carried a nonce that the sender has not reached.
InStep == rx.any => rx.last < sendNonce

\* Reordering tolerance as the sender sees it: a frame overtaken by fewer
\* than W later ones is accepted, as long as the receiver is in step.
ReorderTolerance ==
  InStep => \A n \in Sent : copies[n] = 0 /\ sendNonce - n <= W => MayAccept(rx, n)

\* What a frame that fails authentication costs: exactly the frames that were not
\* delivered yet and are W or more behind it.  replayUndo gives back its own
\* nonce, not the advance of recvLast: its branch "at worst we reject one future
\* legitimate frame" is never taken.
FailureCosts ==
  [][\A n \in Nonces : DecryptFails(n) =>
       \A m \in Nonces : copies[m] = 0 =>
         (MayAccept(rx', m) <=> MayAccept(rx, m) /\ m > n - W)]_vars

\* The session implements the at-most-once channel.
Channel == INSTANCE AtMostOnce WITH Frames <- Nonces, offered <- Sent
ChannelSpec == Channel!Spec
=============================================================================
