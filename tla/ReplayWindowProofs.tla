------------------------- MODULE ReplayWindowProofs -------------------------
(***************************************************************************)
(* The replay window delivers at most once, for every window width and     *)
(* every nonce range.  NoReplay alone is not inductive: a second copy is   *)
(* refused because the bit of the first is still set, so the invariant     *)
(* carries BitmapExact, which ties every bit to the history.               *)
(***************************************************************************)
EXTENDS ReplayWindow, TLAPS

\* replayCheck leaves a well-formed window that covers the frame it took.
LEMMA MarkedIsWindow ==
  ASSUME NEW r \in Window, NEW n \in Nonces, MayAccept(r, n)
  PROVE  /\ Marked(r, n) \in Window
         /\ Marked(r, n).any
         /\ n <= Marked(r, n).last
         /\ r.any => r.last <= Marked(r, n).last
  BY WindowAssumption, NonceAssumption
     DEF Window, Nonces, Offsets, MayAccept, Marked, Shifted

\* replayUndo touches only the bitmap.
LEMMA UndoneIsWindow ==
  ASSUME NEW r \in Window, NEW n \in Nonces
  PROVE  /\ Undone(r, n) \in Window
         /\ Undone(r, n).any = r.any
         /\ Undone(r, n).last = r.last
  BY WindowAssumption, NonceAssumption DEF Window, Nonces, Offsets, Undone

\* What replayCheck does to the bit of any nonce m: the accepted one is set,
\* the others keep their bit, and what was never seen stays clear.
LEMMA MarkedBit ==
  ASSUME NEW r \in Window, NEW n \in Nonces, NEW m \in Nonces,
         MayAccept(r, n),
         m <= Marked(r, n).last, Marked(r, n).last - m < W
  PROVE  ((Marked(r, n).last - m) \in Marked(r, n).bits)
           <=> \/ m = n
               \/ /\ r.any
                  /\ m <= r.last
                  /\ r.last - m < W
                  /\ (r.last - m) \in r.bits
  <1> USE WindowAssumption, NonceAssumption
      DEF Window, Nonces, Offsets, MayAccept
  <1>1. CASE ~r.any
    BY <1>1 DEF Marked
  <1>2. CASE r.any /\ n > r.last
    <2>1. /\ Marked(r, n).last = n
          /\ Marked(r, n).bits = Shifted(r.bits, n - r.last)
      BY <1>2 DEF Marked
    <2>2. n - m \in Offsets
      BY <2>1
    <2>3. (n - m) - (n - r.last) = r.last - m
      OBVIOUS
    <2>4. (n - m) \in Shifted(r.bits, n - r.last)
            <=> n - m = 0 \/ (r.last - m) \in r.bits
      BY <2>2, <2>3 DEF Shifted
    <2>5. (r.last - m) \in r.bits => m <= r.last /\ r.last - m < W
      OBVIOUS
    <2> QED
      BY <1>2, <2>1, <2>4, <2>5
  <1>3. CASE r.any /\ n <= r.last
    BY <1>3 DEF Marked
  <1> QED
    BY <1>1, <1>2, <1>3

\* replayUndo clears the bit of the failed frame and no other.
LEMMA UndoneBit ==
  ASSUME NEW r \in Window, NEW n \in Nonces, NEW m \in Nonces,
         r.any, n <= r.last, r.last - n < W, m <= r.last
  PROVE  ((r.last - m) \in Undone(r, n).bits)
           <=> m # n /\ (r.last - m) \in r.bits
  BY WindowAssumption, NonceAssumption DEF Window, Nonces, Offsets, Undone

-----------------------------------------------------------------------------
LEMMA InitIInv == Init => IInv
  BY WindowAssumption, NonceAssumption
     DEF Init, IInv, TypeOK, NoReplay, BitmapExact, DeliveredWasSent,
         Window, Nonces, Offsets, Sent

\* A frame that verifies.
LEMMA DecryptIInv ==
  ASSUME IInv, NEW n \in Nonces, Decrypt(n)
  PROVE  IInv'
  <1> USE WindowAssumption, NonceAssumption DEF Nonces
  <1>1. /\ rx \in Window
        /\ copies \in [Nonces -> Nat]
        /\ sendNonce \in Nonces
        /\ MayAccept(rx, n)
        /\ n \in Sent
        /\ rx' = Marked(rx, n)
        /\ copies' = [copies EXCEPT ![n] = @ + 1]
        /\ sendNonce' = sendNonce
        /\ NoReplay /\ BitmapExact /\ DeliveredWasSent
    BY DEF IInv, TypeOK, Decrypt
  <1>2. /\ rx' \in Window
        /\ rx'.any
        /\ n <= rx'.last
        /\ rx.any => rx.last <= rx'.last
    BY <1>1, MarkedIsWindow
  <1>3. copies[n] = 0
    <2>1. CASE ~rx.any \/ n > rx.last
      BY <1>1, <2>1 DEF BitmapExact, Window
    <2>2. CASE rx.any /\ n <= rx.last
      <3>1. rx.last - n < W /\ (rx.last - n) \notin rx.bits
        <4>1. rx.last \in Nat /\ n \in Nat /\ ~(n > rx.last)
          BY <1>1, <2>2 DEF Window
        <4> QED
          BY <1>1, <2>2, <4>1 DEF MayAccept
      <3>2. copies[n] # 1
        BY <1>1, <2>2, <3>1 DEF BitmapExact
      <3>3. copies[n] \in Nat /\ copies[n] <= 1
        BY <1>1 DEF NoReplay
      <3> QED
        BY ONLY <3>2, <3>3
    <2> QED
      BY <1>1, <2>1, <2>2 DEF Window
  <1>4. /\ copies' \in [Nonces -> Nat]
        /\ copies'[n] = 1
        /\ \A m \in Nonces : m # n => copies'[m] = copies[m]
    BY <1>1, <1>3
  <1>5. TypeOK'
    BY <1>1, <1>2, <1>4 DEF TypeOK
  <1>6. NoReplay'
    BY <1>1, <1>4 DEF NoReplay
  <1>7. BitmapExact'
    <2> SUFFICES ASSUME NEW m \in Nonces
                 PROVE  /\ copies'[m] > 0 => rx'.any /\ m <= rx'.last
                        /\ m <= rx'.last /\ rx'.last - m < W
                             => ((rx'.last - m) \in rx'.bits
                                   <=> copies'[m] = 1)
      BY DEF BitmapExact
    <2>1. copies[m] > 0 => rx.any /\ m <= rx.last
      BY <1>1 DEF BitmapExact
    <2>2. copies'[m] > 0 => rx'.any /\ m <= rx'.last
      <3>1. rx'.any /\ (m = n => m <= rx'.last)
        BY <1>2
      <3>2. CASE m # n /\ copies[m] > 0
        <4>1. rx.last \in Nat /\ rx'.last \in Nat /\ m \in Nat
          BY <1>1, <1>2 DEF Window
        <4>2. m <= rx.last /\ rx.last <= rx'.last
          BY <1>2, <2>1, <3>2
        <4> QED
          BY ONLY <3>1, <4>1, <4>2
      <3> QED
        BY <1>4, <3>1, <3>2
    <2>3. ASSUME m <= rx'.last, rx'.last - m < W
          PROVE  ((rx'.last - m) \in rx'.bits) <=> copies'[m] = 1
      <3>1. ((rx'.last - m) \in rx'.bits)
              <=> \/ m = n
                  \/ /\ rx.any
                     /\ m <= rx.last
                     /\ rx.last - m < W
                     /\ (rx.last - m) \in rx.bits
        BY <1>1, <2>3, MarkedBit
      <3>2. CASE m = n
        BY <1>4, <3>1, <3>2
      <3>3. CASE m # n
        <4>1. rx.any /\ m <= rx.last => rx.last - m < W
          BY <1>1, <1>2, <2>3 DEF Window
        <4>2. m <= rx.last /\ rx.last - m < W
                => ((rx.last - m) \in rx.bits <=> copies[m] = 1)
          BY <1>1 DEF BitmapExact
        <4> QED
          BY <1>4, <2>1, <3>1, <3>3, <4>1, <4>2
      <3> QED
        BY <3>2, <3>3
    <2> QED
      BY <2>2, <2>3
  <1>8. DeliveredWasSent'
    BY <1>1, <1>4 DEF DeliveredWasSent, Sent
  <1> QED
    BY <1>5, <1>6, <1>7, <1>8 DEF IInv

\* A frame that does not verify: marked and undone, the window may have
\* moved, but every bit still tells the truth.
LEMMA DecryptFailsIInv ==
  ASSUME IInv, NEW n \in Nonces, DecryptFails(n)
  PROVE  IInv'
  <1> USE WindowAssumption, NonceAssumption DEF Nonces
  <1> DEFINE mid == Marked(rx, n)
  <1>1. /\ rx \in Window
        /\ copies \in [Nonces -> Nat]
        /\ MayAccept(rx, n)
        /\ rx' = Undone(mid, n)
        /\ copies' = copies
        /\ sendNonce' = sendNonce
        /\ TypeOK /\ NoReplay /\ BitmapExact /\ DeliveredWasSent
    BY DEF IInv, TypeOK, DecryptFails
  <1>2. /\ mid \in Window
        /\ mid.any
        /\ n <= mid.last
        /\ rx.any => rx.last <= mid.last
    BY <1>1, MarkedIsWindow
  <1>3. mid.last - n < W
    BY <1>1 DEF MayAccept, Marked, Window
  <1>4. /\ rx' \in Window
        /\ rx'.any
        /\ rx'.last = mid.last
    BY <1>1, <1>2, UndoneIsWindow
  <1>5. copies[n] = 0
    <2>1. CASE ~rx.any \/ n > rx.last
      BY <1>1, <2>1 DEF BitmapExact, Window
    <2>2. CASE rx.any /\ n <= rx.last
      <3>1. rx.last - n < W /\ (rx.last - n) \notin rx.bits
        <4>1. rx.last \in Nat /\ n \in Nat /\ ~(n > rx.last)
          BY <1>1, <2>2 DEF Window
        <4> QED
          BY <1>1, <2>2, <4>1 DEF MayAccept
      <3>2. copies[n] # 1
        BY <1>1, <2>2, <3>1 DEF BitmapExact
      <3>3. copies[n] \in Nat /\ copies[n] <= 1
        BY <1>1 DEF NoReplay
      <3> QED
        BY ONLY <3>2, <3>3
    <2> QED
      BY <1>1, <2>1, <2>2 DEF Window
  <1>6. BitmapExact'
    <2> SUFFICES ASSUME NEW m \in Nonces
                 PROVE  /\ copies[m] > 0 => rx'.any /\ m <= rx'.last
                        /\ m <= rx'.last /\ rx'.last - m < W
                             => ((rx'.last - m) \in rx'.bits
                                   <=> copies[m] = 1)
      BY <1>1 DEF BitmapExact
    <2>1. copies[m] > 0 => rx.any /\ m <= rx.last
      BY <1>1 DEF BitmapExact
    <2>2. copies[m] > 0 => rx'.any /\ m <= rx'.last
      BY <1>1, <1>2, <1>4, <2>1 DEF Window
    <2>3. ASSUME m <= rx'.last, rx'.last - m < W
          PROVE  ((rx'.last - m) \in rx'.bits) <=> copies[m] = 1
      <3>1. ((mid.last - m) \in mid.bits)
              <=> \/ m = n
                  \/ /\ rx.any
                     /\ m <= rx.last
                     /\ rx.last - m < W
                     /\ (rx.last - m) \in rx.bits
        BY <1>1, <1>4, <2>3, MarkedBit
      <3>2. ((rx'.last - m) \in rx'.bits)
              <=> m # n /\ (mid.last - m) \in mid.bits
        <4> HIDE DEF mid
        <4> QED
          BY <1>1, <1>2, <1>3, <1>4, <2>3, UndoneBit
      <3>3. CASE m = n
        BY <1>5, <3>2, <3>3
      <3>4. CASE m # n
        <4>1. rx.any /\ m <= rx.last => rx.last - m < W
          BY <1>1, <1>2, <1>4, <2>3 DEF Window
        <4>2. m <= rx.last /\ rx.last - m < W
                => ((rx.last - m) \in rx.bits <=> copies[m] = 1)
          BY <1>1 DEF BitmapExact
        <4> HIDE DEF mid
        <4> QED
          BY <1>1, <2>1, <3>1, <3>2, <3>4, <4>1, <4>2
      <3> QED
        BY <3>3, <3>4
    <2> QED
      BY <2>2, <2>3
  <1> QED
    BY <1>1, <1>4, <1>6
       DEF IInv, TypeOK, NoReplay, DeliveredWasSent, Sent

LEMMA NextIInv == IInv /\ [Next]_vars => IInv'
  <1> SUFFICES ASSUME IInv, [Next]_vars
               PROVE  IInv'
    OBVIOUS
  <1>1. CASE Encrypt
    BY <1>1, NonceAssumption
       DEF Encrypt, IInv, TypeOK, NoReplay, BitmapExact, DeliveredWasSent,
           Nonces, Sent
  <1>2. ASSUME NEW n \in Nonces, Decrypt(n)
        PROVE  IInv'
    BY <1>2, DecryptIInv
  <1>3. ASSUME NEW n \in Nonces, DecryptFails(n)
        PROVE  IInv'
    BY <1>3, DecryptFailsIInv
  <1>4. CASE UNCHANGED vars
    BY <1>4 DEF vars, IInv, TypeOK, NoReplay, BitmapExact,
                DeliveredWasSent, Sent
  <1> QED
    BY <1>1, <1>2, <1>3, <1>4 DEF Next, NextGenuine

LEMMA InductiveInvariant == Spec => []IInv
  BY InitIInv, NextIInv, PTL DEF Spec

-----------------------------------------------------------------------------
\* The variables of the session keep their types.
THEOREM TypeCorrect == Spec => []TypeOK
  <1>1. IInv => TypeOK
    BY DEF IInv
  <1> QED
    BY <1>1, InductiveInvariant, PTL

\* No frame reaches the interface twice (api.go, Decrypt: rejects replays).
THEOREM AtMostOnceDelivery == Spec => []NoReplay
  <1>1. IInv => NoReplay
    BY DEF IInv
  <1> QED
    BY <1>1, InductiveInvariant, PTL

\* A failed frame does not use up the nonce of the genuine one (api.go, the
\* failure branch of Decrypt).
THEOREM LateFramesGetThrough == Spec => []LateFrameAccepted
  <1>1. ASSUME IInv
        PROVE  LateFrameAccepted
    <2>1. rx.last \in Nat /\ Nonces \subseteq Nat
      BY <1>1, NonceAssumption DEF IInv, TypeOK, Window, Nonces
    <2> SUFFICES ASSUME NEW n \in Nonces, copies[n] = 0, rx.last - n < W,
                        ~(n > rx.last)
                 PROVE  (rx.last - n) \notin rx.bits
      BY DEF LateFrameAccepted, MayAccept
    <2>2. n <= rx.last
      BY <2>1
    <2> QED
      BY <1>1, <2>2 DEF IInv, BitmapExact
  <1> QED
    BY <1>1, InductiveInvariant, PTL

-----------------------------------------------------------------------------
\* A frame that was not delivered has no bit: only its distance counts.
LEMMA AcceptsUndelivered ==
  ASSUME IInv, NEW m \in Nonces, copies[m] = 0
  PROVE  MayAccept(rx, m) <=> ~rx.any \/ rx.last - m < W
  BY WindowAssumption, NonceAssumption
     DEF IInv, TypeOK, BitmapExact, MayAccept, Nonces, Window

\* Where a failed frame leaves recvLast: replayUndo does not take it back.
LEMMA FailedFrameMoves ==
  ASSUME IInv, NEW n \in Nonces, DecryptFails(n)
  PROVE  /\ rx'.any
         /\ rx'.last = IF rx.any /\ n <= rx.last THEN rx.last ELSE n
         /\ rx.any /\ n <= rx.last => rx.last - n < W
  <1>1. rx \in Window /\ MayAccept(rx, n) /\ rx' = Undone(Marked(rx, n), n)
    BY DEF IInv, TypeOK, DecryptFails
  <1>2. /\ Marked(rx, n) \in Window /\ Marked(rx, n).any
    BY <1>1, MarkedIsWindow
  <1>3. rx'.any = Marked(rx, n).any /\ rx'.last = Marked(rx, n).last
    BY <1>1, <1>2, UndoneIsWindow
  <1>4. Marked(rx, n).last = IF rx.any /\ n <= rx.last THEN rx.last ELSE n
    BY <1>1, NonceAssumption DEF Marked, Window, Nonces
  <1>5. rx.any /\ n <= rx.last => rx.last - n < W
    BY <1>1, WindowAssumption, NonceAssumption
       DEF MayAccept, IInv, BitmapExact, Window, Nonces
  <1> QED
    BY <1>2, <1>3, <1>4, <1>5

\* Decrypt's failure branch (api.go) costs nothing when the nonce was within
\* reach of recvLast, and all it has skipped when it was not: replayUndo's
\* "at worst one" frame is each of those.
THEOREM CostOfFailure == Spec => FailureCosts
  <1>1. ASSUME IInv, IInv', NEW n \in Nonces, DecryptFails(n),
               NEW m \in Nonces, copies[m] = 0
        PROVE  MayAccept(rx', m) <=> MayAccept(rx, m) /\ m > n - W
    <2>1. MayAccept(rx, m) <=> ~rx.any \/ rx.last - m < W
      BY <1>1, AcceptsUndelivered
    <2>2. MayAccept(rx', m) <=> ~rx'.any \/ rx'.last - m < W
      <3>1. copies'[m] = 0
        BY <1>1 DEF DecryptFails
      <3>2. rx' \in Window
        BY <1>1 DEF IInv, TypeOK
      <3>3. m <= rx'.last /\ rx'.last - m < W => (rx'.last - m) \notin rx'.bits
        BY <1>1, <3>1 DEF IInv, BitmapExact
      <3>4. PICK r \in Window : r = rx'
        BY <3>2
      <3>5. m <= r.last /\ r.last - m < W => (r.last - m) \notin r.bits
        BY <3>3, <3>4
      <3>6. MayAccept(r, m) <=> ~r.any \/ r.last - m < W
        BY <3>5, WindowAssumption, NonceAssumption DEF MayAccept, Nonces, Window
      <3> QED
        BY <3>4, <3>6
    <2>3. /\ rx'.any
          /\ rx'.last = IF rx.any /\ n <= rx.last THEN rx.last ELSE n
          /\ rx.any /\ n <= rx.last => rx.last - n < W
      BY <1>1, FailedFrameMoves
    <2>4. rx.last \in Nat /\ n \in Nat /\ m \in Nat /\ W \in Nat
      BY <1>1, WindowAssumption, NonceAssumption
         DEF IInv, TypeOK, Window, Nonces
    <2>5. MayAccept(rx', m) <=> rx'.last - m < W
      BY <2>2, <2>3
    <2>6. CASE rx.any /\ n <= rx.last
      <3>1. rx'.last = rx.last
        BY <2>3, <2>6
      <3>2. MayAccept(rx, m) <=> rx.last - m < W
        BY <2>1, <2>6
      <3>3. rx.last - m < W => m > n - W
        BY <2>4, <2>6
      <3> QED
        BY <2>5, <3>1, <3>2, <3>3
    <2>7. CASE ~(rx.any /\ n <= rx.last)
      <3>1. rx'.last = n
        BY <2>3, <2>7
      <3>2. n - m < W <=> m > n - W
        BY <2>4
      <3>3. n - m < W => ~rx.any \/ rx.last - m < W
        BY <2>4, <2>7
      <3> QED
        BY <2>1, <2>5, <3>1, <3>2, <3>3
    <2> QED
      BY <2>6, <2>7
  <1>2. IInv /\ IInv' /\ [Next]_vars =>
          [\A n \in Nonces : DecryptFails(n) =>
             \A m \in Nonces : copies[m] = 0 =>
               (MayAccept(rx', m) <=> MayAccept(rx, m) /\ m > n - W)]_vars
    BY <1>1
  <1> QED
    BY <1>2, InductiveInvariant, PTL DEF Spec, FailureCosts

-----------------------------------------------------------------------------
\* While every frame verifies, recvLast never runs ahead of the sender.
THEOREM GenuineLinkInStep == SpecGenuine => []InStep
  <1>1. Init => IInv /\ InStep
    BY InitIInv DEF Init, InStep
  <1>2. IInv /\ InStep /\ [NextGenuine]_vars => IInv' /\ InStep'
    <2> SUFFICES ASSUME IInv, InStep, [NextGenuine]_vars
                 PROVE  IInv' /\ InStep'
      OBVIOUS
    <2>1. IInv'
      BY NextIInv DEF Next, vars
    <2>2. CASE Encrypt
      BY <2>1, <2>2 DEF Encrypt, IInv, TypeOK, Nonces, Window, InStep
    <2>3. ASSUME NEW n \in Nonces, Decrypt(n)
          PROVE  InStep'
      BY <2>3, NonceAssumption
         DEF Decrypt, Marked, IInv, TypeOK, Nonces, Window, Sent, InStep
    <2>4. CASE UNCHANGED vars
      BY <2>1, <2>4 DEF vars, InStep
    <2> QED
      BY <2>1, <2>2, <2>3, <2>4 DEF NextGenuine
  <1> QED
    BY <1>1, <1>2, PTL DEF SpecGenuine

\* Loss and reordering alone never cost a frame that is overtaken by fewer
\* than W others (the comment on TransportMessage in api.go).
THEOREM LossyLinkTolerated == Spec => []ReorderTolerance
  <1>1. IInv => ReorderTolerance
    BY WindowAssumption, NonceAssumption
       DEF IInv, TypeOK, BitmapExact, ReorderTolerance, MayAccept, Nonces,
           Window, Sent, InStep
  <1> QED
    BY <1>1, InductiveInvariant, PTL

-----------------------------------------------------------------------------
\* The session implements the at-most-once channel: sealing a frame offers
\* its nonce, accepting one delivers it, a failed frame is a stutter.
THEOREM ImplementsChannel == Spec => ChannelSpec
  <1> USE WindowAssumption, NonceAssumption
  <1>1. Init => Channel!Init
    BY DEF Init, Channel!Init, Sent, Nonces
  <1>2. IInv /\ [Next]_vars => [Channel!Next]_(Channel!vars)
    <2> SUFFICES ASSUME IInv, [Next]_vars
                 PROVE  Channel!Next \/ UNCHANGED Channel!vars
      OBVIOUS
    <2>1. CASE Encrypt
      <3>1. /\ sendNonce \in Nonces
            /\ sendNonce \notin Sent
            /\ Sent' = Sent \cup {sendNonce}
            /\ copies' = copies
        BY <2>1 DEF Encrypt, IInv, TypeOK, Nonces, Sent
      <3>2. Channel!Offer(sendNonce)
        BY <3>1 DEF Channel!Offer
      <3> QED
        BY <3>1, <3>2 DEF Channel!Next
    <2>2. ASSUME NEW n \in Nonces, Decrypt(n)
          PROVE  Channel!Next
      <3>1. IInv'
        BY <2>2, DecryptIInv
      <3>2. copies \in [Nonces -> Nat] /\ copies'[n] <= 1
        BY <3>1 DEF IInv, TypeOK, NoReplay
      <3>3. /\ n \in Sent
            /\ copies' = [copies EXCEPT ![n] = @ + 1]
            /\ sendNonce' = sendNonce
        BY <2>2 DEF Decrypt
      <3>4. copies[n] = 0
        BY <3>2, <3>3
      <3>5. Channel!Deliver(n)
        BY <3>2, <3>3, <3>4 DEF Channel!Deliver, Sent
      <3> QED
        BY <3>5 DEF Channel!Next
    <2>3. ASSUME NEW n \in Nonces, DecryptFails(n)
          PROVE  UNCHANGED Channel!vars
      BY <2>3 DEF DecryptFails, Channel!vars, Sent
    <2>4. CASE UNCHANGED vars
      BY <2>4 DEF vars, Channel!vars, Sent
    <2> QED
      BY <2>1, <2>2, <2>3, <2>4 DEF Next, NextGenuine
  <1> QED
    BY <1>1, <1>2, InductiveInvariant, PTL
       DEF Spec, ChannelSpec, Channel!Spec
=============================================================================
