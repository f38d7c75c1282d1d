----------------------------- MODULE ArqLemmas ------------------------------
(***************************************************************************)
(* Lemmas about the operators of Arq that the proofs of every module built *)
(* on them share: remainders, the types of the two window records, and     *)
(* what a send, an acknowledgement, a give-up and a reception do to them.   *)
(***************************************************************************)
EXTENDS Arq, FiniteSetTheorems, WellFoundedInduction, NaturalsInduction, SequenceTheorems, TLAPS

-----------------------------------------------------------------------------
(* Arithmetic modulo a positive number. *)

\* A remainder lies in its range and the division identity holds.
LEMMA DivMod ==
    ASSUME NEW a \in Int, NEW M \in Nat \ {0}
    PROVE  /\ a % M \in 0 .. M - 1 /\ a \div M \in Int
           /\ a = M * (a \div M) + (a % M)
  OBVIOUS

\* A nonempty set of naturals has a least element, and Min picks it.
LEMMA MinNat ==
    ASSUME NEW S \in SUBSET Nat, S # {}
    PROVE  Min(S) \in S /\ \A y \in S : Min(S) <= y
  <1>1. \E R : /\ IsWellFoundedOn(R, Nat)
               /\ \A y, z \in Nat : y < z => << y, z >> \in R
    <2>1. ASSUME NEW y \in Nat, NEW z \in Nat, y < z PROVE << y, z >> \in OpToRel(<, Nat)
      <3>1. << y, z >> \in Nat \X Nat /\ << y, z >>[1] = y /\ << y, z >>[2] = z
        OBVIOUS
      <3>2. QED
        BY <3>1, <2>1, Zenon DEF OpToRel
    <2>2. QED
      BY <2>1, NatLessThanWellFounded, Zenon
  <1>2. PICK R : /\ IsWellFoundedOn(R, Nat)
                 /\ \A y, z \in Nat : y < z => << y, z >> \in R
    BY <1>1
  <1>3. PICK x \in S : \A y \in S : << y, x >> \notin R
    <2>1. S \subseteq Nat /\ S # {}
      OBVIOUS
    <2>2. IsWellFoundedOn(R, Nat)
      BY <1>2
    <2>3. \E x \in S : \A y \in S : ~ (<<y, x>> \in R)
      BY <2>1, <2>2, WFMin, Zenon
    <2>4. QED
      BY <2>3, Zenon
  <1>4. \A y \in S : ~(y < x)
    BY <1>2, <1>3, Zenon
  <1>5. \A y \in S : x <= y
    BY <1>4
  <1>6. QED
    BY <1>5, Zenon DEF Min

-----------------------------------------------------------------------------
(* The operators of Arq keep the types of the two records. *)

\* Wrapping arithmetic stays in the sequence space, a slot index in the ring.
LEMMA WrapType ==
    ASSUME NEW a \in Int, NEW b \in Int
    PROVE  WrapAdd(a, b) \in SeqNum /\ WrapSub(a, b) \in SeqNum /\ SlotOf(a) \in Slot
  BY ArqAssumption DEF WrapAdd, WrapSub, SlotOf, SeqNum, Slot

\* So does the slot of a wrapped sequence number.
LEMMA SlotWrapType ==
    ASSUME NEW a \in Int, NEW b \in Int
    PROVE  SlotOf(WrapAdd(a, b)) \in Slot
  <1>1. WrapAdd(a, b) \in Int
    BY WrapType DEF SeqNum
  <1>2. QED
    BY <1>1, WrapType

\* The number of unacknowledged sequence numbers is a sequence number.
LEMMA InFlightType ==
    ASSUME NEW D, NEW t \in TxType(D)
    PROVE  InFlight(t) \in SeqNum
  BY WrapType DEF InFlight, TxType, SeqNum

\* ArqTx::send stores a segment of the right type.
LEMMA TxSendType ==
    ASSUME NEW D, NEW t \in TxType(D), NEW d \in D, CountMax >= 1
    PROVE  TxSend(t, d) \in TxType(D)
  <1>1. t.next_seq \in SeqNum /\ t.next_seq \in Int
    BY DEF TxType, SeqNum
  <1>2. WrapAdd(t.next_seq, 1) \in SeqNum /\ SlotOf(t.next_seq) \in Slot
    BY <1>1, WrapType
  <1>3. [seq_num |-> t.next_seq, data |-> d, transmit_count |-> 1, acked |-> FALSE] \in Segment(D)
    BY <1>1, ArqAssumption DEF Segment
  <1>4. QED
    BY <1>2, <1>3 DEF TxSend, TxType

\* ArqTx::process_ack moves send_base and edits slots within their type.
LEMMA ProcessAckType ==
    ASSUME NEW D, NEW t \in TxType(D), NEW n \in SeqNum, NEW B \in SUBSET Nat
    PROVE  ProcessAck(t, n, B) \in TxType(D)
  <1> DEFINE adv == CumulativeAdvance(t, n)
             passed == {SlotOf(WrapAdd(t.send_base, k)) : k \in 0 .. adv - 1}
             sacked == {WrapAdd(n, bit + 1) : bit \in B}
             buf == [i \in Slot |->
                      IF i \in passed THEN NoSegment
                      ELSE IF t.tx_buf[i].seq_num \in sacked THEN [t.tx_buf[i] EXCEPT !.acked = TRUE]
                      ELSE t.tx_buf[i]]
  <1>1. t.send_base \in Int /\ n \in Int
    BY DEF TxType, SeqNum
  <1>2. adv \in Int
    <2>1. WrapSub(n, t.send_base) \in SeqNum
      BY <1>1, WrapType
    <2>2. QED
      BY <2>1 DEF CumulativeAdvance, SeqNum
  <1>3. WrapAdd(t.send_base, adv) \in SeqNum
    BY <1>1, <1>2, WrapType
  <1>4. sacked \subseteq SeqNum
    BY <1>1, WrapType
  <1>5. buf \in [Slot -> Segment(D) \cup {NoSegment}]
    <2>1. ASSUME NEW i \in Slot PROVE buf[i] \in Segment(D) \cup {NoSegment}
      <3>1. t.tx_buf[i] \in Segment(D) \cup {NoSegment}
        BY DEF TxType
      <3>2. CASE t.tx_buf[i] = NoSegment
        <4>1. t.tx_buf[i].seq_num \notin sacked
          BY <3>2, <1>4, ArqAssumption DEF NoSegment, SeqNum
        <4>2. QED
          BY <4>1, <3>2
      <3>3. CASE t.tx_buf[i] \in Segment(D)
        BY <3>3 DEF Segment
      <3>4. QED
        BY <3>1, <3>2, <3>3
    <2>2. QED
      BY <2>1
  <1>6. ProcessAck(t, n, B) = [t EXCEPT !.send_base = WrapAdd(@, adv), !.tx_buf = buf]
    BY DEF ProcessAck, TxType
  <1> HIDE DEF adv, buf
  <1>7. QED
    BY <1>3, <1>5, <1>6 DEF TxType

\* ArqTx::mark_retransmitted counts an attempt, saturating.
LEMMA MarkRetransmittedType ==
    ASSUME NEW D, NEW t \in TxType(D), NEW s \in SUBSET SeqNum
    PROVE  MarkRetransmitted(t, s) \in TxType(D)
  <1> DEFINE buf == [i \in Slot |->
        IF t.tx_buf[i].seq_num \in s /\ ~t.tx_buf[i].acked
          THEN [t.tx_buf[i] EXCEPT !.transmit_count = IF @ < CountMax THEN @ + 1 ELSE @]
          ELSE t.tx_buf[i]]
  <1>1. ASSUME NEW i \in Slot PROVE buf[i] \in Segment(D) \cup {NoSegment}
    <2>1. t.tx_buf[i] \in Segment(D) \cup {NoSegment}
      BY DEF TxType
    <2>2. CASE t.tx_buf[i] = NoSegment
      BY <2>2, ArqAssumption DEF NoSegment, SeqNum
    <2>3. CASE t.tx_buf[i] \in Segment(D)
      <3>1. \A c \in 1 .. CountMax : (IF c < CountMax THEN c + 1 ELSE c) \in 1 .. CountMax
        BY ArqAssumption
      <3>2. QED
        BY <2>3, <3>1 DEF Segment
    <2>4. QED
      BY <2>1, <2>2, <2>3
  <1>2. MarkRetransmitted(t, s) = [t EXCEPT !.tx_buf = buf]
    BY DEF MarkRetransmitted, TxType
  <1>3. buf \in [Slot -> Segment(D) \cup {NoSegment}]
    BY <1>1
  <1> HIDE DEF buf
  <1>4. QED
    BY <1>2, <1>3 DEF TxType

\* The run that ArqRx::receive hands up: every slot of it was received, and it
\* stops at the first slot that was not.
LEMMA RunLengthProperties ==
    ASSUME NEW b, NEW buf
    PROVE  /\ RunLength(b, buf) \in 0 .. Ring
           /\ \A k \in 0 .. RunLength(b, buf) - 1 : buf[SlotOf(WrapAdd(b, k))].received
           /\ \/ RunLength(b, buf) = Ring
              \/ ~buf[SlotOf(WrapAdd(b, RunLength(b, buf)))].received
  <1> DEFINE stops(n) == n = Ring \/ ~buf[SlotOf(WrapAdd(b, n))].received
             S == {n \in 0 .. Ring : stops(n)}
  <1>1. S \in SUBSET Nat /\ Ring \in S
    BY ArqAssumption
  <1>2. Min(S) \in S /\ \A y \in S : Min(S) <= y
    BY <1>1, MinNat
  <1>3. RunLength(b, buf) = Min(S)
    BY DEF RunLength
  <1>4. Min(S) \in 0 .. Ring /\ stops(Min(S))
    BY <1>2
  <1>5. ASSUME NEW k \in 0 .. Min(S) - 1 PROVE buf[SlotOf(WrapAdd(b, k))].received
    <2>1. k \in 0 .. Ring /\ ~(Min(S) <= k) /\ k # Ring
      BY <1>4, ArqAssumption
    <2>2. k \notin S
      BY <2>1, <1>2
    <2>3. QED
      BY <2>1, <2>2
  <1>6. QED
    BY <1>3, <1>4, <1>5

\* Storing a segment keeps the buffer's type.
LEMMA BufferedType ==
    ASSUME NEW D, NEW r \in RxType(D), NEW q \in SeqNum, NEW d \in D
    PROVE  Buffered(r, q, d) \in [Slot -> RxCell(D)]
  <1>1. SlotOf(q) \in Slot
    BY WrapType DEF SeqNum
  <1>2. QED
    BY <1>1 DEF Buffered, RxType, RxCell

\* ArqRx::receive keeps the receiver's type and hands up stored payloads only.
LEMMA RxReceiveType ==
    ASSUME NEW D, NEW r \in RxType(D), NEW q \in SeqNum, NEW d \in D, NEW w
    PROVE  /\ RxReceive(r, q, d, w) \in RxType(D)
           /\ RxDelivered(r, q, d, w) \in Seq(D)
  <1>1. CASE ~InRxWindow(r, q, w)
    BY <1>1, EmptySeq DEF RxReceive, RxDelivered
  <1>2. CASE InRxWindow(r, q, w)
    <2> DEFINE buf == Buffered(r, q, d)
               n == RunLength(r.recv_base, buf)
               passed == {SlotOf(WrapAdd(r.recv_base, k)) : k \in 0 .. n - 1}
               out == [k \in 1 .. n |-> buf[SlotOf(WrapAdd(r.recv_base, k - 1))].data]
    <2>1. buf \in [Slot -> RxCell(D)]
      BY BufferedType
    <2>2. /\ n \in 0 .. Ring
          /\ \A k \in 0 .. n - 1 : buf[SlotOf(WrapAdd(r.recv_base, k))].received
      BY RunLengthProperties
    <2>3. r.recv_base \in SeqNum /\ r.recv_base \in Int /\ n \in Nat
      BY <2>2, ArqAssumption DEF RxType, SeqNum
    <2>4. RxReceive(r, q, d, w) =
             [recv_base |-> WrapAdd(r.recv_base, n),
              rx_buf |-> [i \in Slot |-> IF i \in passed THEN NoData ELSE buf[i]]]
      BY <1>2 DEF RxReceive
    <2>5. RxDelivered(r, q, d, w) = out
      BY <1>2 DEF RxDelivered
    <2> HIDE DEF buf, n
    <2>6. WrapAdd(r.recv_base, n) \in SeqNum
      BY <2>3, WrapType
    <2>7. [i \in Slot |-> IF i \in passed THEN NoData ELSE buf[i]] \in [Slot -> RxCell(D)]
      BY <2>1 DEF RxCell
    <2>8. ASSUME NEW k \in 1 .. n PROVE buf[SlotOf(WrapAdd(r.recv_base, k - 1))].data \in D
      <3>1. k - 1 \in 0 .. n - 1 /\ k - 1 \in Int
        BY <2>3
      <3>2. SlotOf(WrapAdd(r.recv_base, k - 1)) \in Slot
        BY <2>3, <3>1, SlotWrapType
      <3>3. buf[SlotOf(WrapAdd(r.recv_base, k - 1))].received
        BY <3>1, <2>2
      <3>4. \A e \in RxCell(D) : e.received => e.data \in D
        <4>1. ASSUME NEW e \in [received : {TRUE}, data : D] PROVE e.data \in D
          OBVIOUS
        <4>2. ~NoData.received
          BY DEF NoData
        <4>3. QED
          BY <4>1, <4>2, Zenon DEF RxCell
      <3>5. buf[SlotOf(WrapAdd(r.recv_base, k - 1))] \in RxCell(D)
        BY <3>2, <2>1
      <3>6. QED
        BY <3>3, <3>4, <3>5
    <2>9. out \in [1 .. n -> D]
      BY <2>8
    <2>10. out \in Seq(D)
      BY <2>9, <2>3
    <2>11. RxReceive(r, q, d, w) \in RxType(D)
      <3> DEFINE kept == [i \in Slot |-> IF i \in passed THEN NoData ELSE buf[i]]
      <3>1. kept \in [Slot -> RxCell(D)]
        BY <2>7
      <3>2. RxReceive(r, q, d, w) = [recv_base |-> WrapAdd(r.recv_base, n), rx_buf |-> kept]
        BY <2>4
      <3> HIDE DEF kept
      <3>3. QED
        BY <3>1, <3>2, <2>6 DEF RxType
    <2>12. QED
      BY <2>5, <2>10, <2>11
  <1>3. QED
    BY <1>1, <1>2

\* The ghost-free part of an acknowledgement has its type.
LEMMA AckInfoType ==
    ASSUME NEW D, NEW r \in RxType(D)
    PROVE  /\ AckInfo(r).ack_num \in SeqNum
           /\ AckInfo(r).bitmap \in SUBSET (0 .. SackRange - 1)
  BY DEF AckInfo, RxType

-----------------------------------------------------------------------------
(* Remainders. *)

\* A number splits into a multiple and a remainder in one way only.
LEMMA ModUnique ==
    ASSUME NEW M \in Nat \ {0}, NEW q \in Int, NEW r \in 0 .. M - 1
    PROVE  (M * q + r) % M = r
  OBVIOUS

\* A number named by its quotient and remainder, so that the rest is linear.
LEMMA ModParts ==
    ASSUME NEW M \in Nat \ {0}, NEW a \in Int
    PROVE  \E q \in Int, r \in 0 .. M - 1 : a = M * q + r /\ a % M = r
  BY DivMod

\* Products distribute and associate.
LEMMA Products ==
    ASSUME NEW M \in Int, NEW p \in Int, NEW q \in Int
    PROVE  /\ M * (p + q) = M * p + M * q
           /\ M * (p - q) = M * p - M * q
           /\ (M * p) * q = M * (p * q)
           /\ M * p \in Int /\ p * q \in Int
  OBVIOUS

\* Multiples of the modulus do not matter.
LEMMA ModShift ==
    ASSUME NEW M \in Nat \ {0}, NEW a \in Int, NEW q \in Int
    PROVE  (a + M * q) % M = a % M
  <1>1. PICK p \in Int, r \in 0 .. M - 1 : a = M * p + r /\ a % M = r
    BY ModParts
  <1>2. M * (p + q) = M * p + M * q /\ M * p \in Int /\ M * q \in Int
    BY Products
  <1>3. a + M * q = M * (p + q) + r
    BY <1>1, <1>2
  <1>4. p + q \in Int
    OBVIOUS
  <1>5. (M * (p + q) + r) % M = r
    BY <1>4, ModUnique
  <1>6. QED
    BY <1>1, <1>3, <1>5

\* Reducing the first operand of a sum changes nothing.
LEMMA ModAdd ==
    ASSUME NEW M \in Nat \ {0}, NEW a \in Int, NEW b \in Int
    PROVE  ((a % M) + b) % M = (a + b) % M
  <1>1. PICK p \in Int, r \in 0 .. M - 1 : a = M * p + r /\ a % M = r
    BY ModParts
  <1>2. ((r + b) + M * p) % M = (r + b) % M
    <2>1. r + b \in Int
      OBVIOUS
    <2>2. QED
      BY <2>1, ModShift, Zenon
  <1>3. (r + b) + M * p = a + b
    BY <1>1, Products
  <1>4. QED
    BY <1>1, <1>2, <1>3

\* Reducing both operands of a difference changes nothing.
LEMMA ModSub ==
    ASSUME NEW M \in Nat \ {0}, NEW a \in Int, NEW b \in Int
    PROVE  ((a % M) - (b % M)) % M = (a - b) % M
  <1>1. PICK p \in Int, r \in 0 .. M - 1 : a = M * p + r /\ a % M = r
    BY ModParts
  <1>2. PICK q \in Int, s \in 0 .. M - 1 : b = M * q + s /\ b % M = s
    BY ModParts
  <1>3. ((r - s) + M * (p - q)) % M = (r - s) % M
    <2>1. r - s \in Int /\ p - q \in Int
      OBVIOUS
    <2>2. QED
      BY <2>1, ModShift, Zenon
  <1>4. M * (p - q) = M * p - M * q /\ M * p \in Int /\ M * q \in Int
    BY Products
  <1>5. (r - s) + M * (p - q) = a - b
    BY <1>1, <1>2, <1>4
  <1>6. QED
    BY <1>1, <1>2, <1>3, <1>5

\* Remainders of small numbers.
LEMMA ModSmall ==
    ASSUME NEW M \in Nat \ {0}, NEW a \in Int
    PROVE  /\ a \in 0 .. M - 1 => a % M = a
           /\ a \in -M .. -1 => a % M = a + M
  OBVIOUS

\* Two numbers less than a modulus apart with one remainder are equal.
LEMMA ModInj ==
    ASSUME NEW M \in Nat \ {0}, NEW a \in Int, NEW b \in Int,
           a - b < M, b - a < M, a % M = b % M
    PROVE  a = b
  <1>1. ((a % M) - (b % M)) % M = (a - b) % M
    BY ModSub
  <1>2. a % M \in Int
    BY DivMod
  <1>3. (a - b) % M = 0
    BY <1>1, <1>2
  <1>4. QED
    BY <1>3, ModSmall

\* A sequence number has the slot of its absolute number: Ring divides SeqMod.
LEMMA SlotOfMod ==
    ASSUME NEW a \in Int
    PROVE  SlotOf(a % SeqMod) = a % Ring
  <1>1. SeqMod \in Nat \ {0} /\ Ring \in Nat \ {0} /\ SeqMod % Ring = 0
    BY ArqAssumption
  <1>2. PICK d \in Int : SeqMod = Ring * d
    BY <1>1, ModParts
  <1>3. PICK q \in Int, r \in 0 .. SeqMod - 1 : a = SeqMod * q + r /\ a % SeqMod = r
    BY <1>1, ModParts
  <1>4. (Ring * d) * q = Ring * (d * q) /\ d * q \in Int
    BY <1>1, Products
  <1>5. a = r + Ring * (d * q)
    BY <1>2, <1>3, <1>4
  <1>6. (r + Ring * (d * q)) % Ring = r % Ring
    <2>1. r \in Int
      BY <1>1
    <2>2. QED
      BY <2>1, <1>1, <1>4, ModShift, Zenon
  <1>7. QED
    BY <1>3, <1>5, <1>6 DEF SlotOf

\* Wrapping addition to an absolute number's sequence number.
LEMMA WrapAbs ==
    ASSUME NEW a \in Int, NEW k \in Int
    PROVE  /\ WrapAdd(a % SeqMod, k) = (a + k) % SeqMod
           /\ SlotOf(WrapAdd(a % SeqMod, k)) = (a + k) % Ring
           /\ a % Ring \in Slot
  <1>1. WrapAdd(a % SeqMod, k) = (a + k) % SeqMod
    BY ModAdd, ArqAssumption DEF WrapAdd
  <1>2. a + k \in Int
    OBVIOUS
  <1>3. SlotOf((a + k) % SeqMod) = (a + k) % Ring
    BY <1>2, SlotOfMod
  <1>4. a % Ring \in Slot
    BY DivMod, ArqAssumption DEF Slot
  <1>5. QED
    BY <1>1, <1>3, <1>4

-----------------------------------------------------------------------------
(* What the transmitter still waits for. *)

\* The sequence numbers of the segments that are buffered and not acknowledged.
Waiting(t) == {i \in Slot : t.tx_buf[i] # NoSegment /\ ~t.tx_buf[i].acked}
Unacked(t) == {t.tx_buf[i].seq_num : i \in Waiting(t)}

\* Every segment sits in the slot of its own number.
InPlace(t) == \A i \in Slot : t.tx_buf[i] # NoSegment => SlotOf(t.tx_buf[i].seq_num) = i

\* A sequence number is no NoSegment marker, and unacked numbers are real ones.
LEMMA UnackedType ==
    ASSUME NEW D, NEW t \in TxType(D)
    PROVE  /\ Unacked(t) \subseteq SeqNum
           /\ SeqMod \notin SeqNum
  <1>1. \A i \in Slot : t.tx_buf[i] \in Segment(D) \cup {NoSegment}
    BY DEF TxType
  <1>2. SeqMod \notin SeqNum
    BY ArqAssumption DEF SeqNum
  <1>3. QED
    BY <1>1, <1>2 DEF Unacked, Waiting, Segment

\* The initial transmitter waits for nothing.
LEMMA NewTx ==
    ASSUME NEW D
    PROVE  /\ ArqTxNew \in TxType(D) /\ ArqRxNew \in RxType(D)
           /\ InPlace(ArqTxNew) /\ Unacked(ArqTxNew) = {}
  <1>1. 0 \in SeqNum
    BY ArqAssumption DEF SeqNum
  <1>2. QED
    BY <1>1 DEF ArqTxNew, ArqRxNew, TxType, RxType, RxCell, InPlace, Unacked, Waiting

\* What a change of the buffer that adds no segment leaves: t2 waits for a part
\* of what t waited for.
LEMMA BufferShrinks ==
    ASSUME NEW t, NEW t2,
           \A i \in Slot : t2.tx_buf[i] # NoSegment =>
               /\ t.tx_buf[i] # NoSegment
               /\ t2.tx_buf[i].seq_num = t.tx_buf[i].seq_num
               /\ t.tx_buf[i].acked => t2.tx_buf[i].acked
    PROVE  /\ Unacked(t2) \subseteq Unacked(t)
           /\ InPlace(t) => InPlace(t2)
  BY DEF Unacked, Waiting, InPlace

\* ArqTx::send waits for one more number.
LEMMA SendWaits ==
    ASSUME NEW D, NEW t \in TxType(D), NEW d
    PROVE  /\ Unacked(TxSend(t, d)) \subseteq Unacked(t) \cup {t.next_seq}
           /\ TxSend(t, d).next_seq = WrapAdd(t.next_seq, 1)
           /\ InPlace(t) => InPlace(TxSend(t, d))
  <1> DEFINE new == [seq_num |-> t.next_seq, data |-> d, transmit_count |-> 1, acked |-> FALSE]
             slot == SlotOf(t.next_seq)
             t2 == TxSend(t, d)
  <1>1. slot \in Slot
    BY WrapType DEF TxType, SeqNum
  <1>2. /\ t2.next_seq = WrapAdd(t.next_seq, 1)
        /\ t2.tx_buf = [t.tx_buf EXCEPT ![slot] = new]
    BY DEF TxSend, TxType
  <1>3. t2.tx_buf[slot] = new /\ \A i \in Slot \ {slot} : t2.tx_buf[i] = t.tx_buf[i]
    BY <1>1, <1>2 DEF TxType
  <1>4. new.seq_num = t.next_seq
    OBVIOUS
  <1> HIDE DEF t2, new
  <1>5. Unacked(t2) \subseteq Unacked(t) \cup {t.next_seq}
    BY <1>1, <1>3, <1>4 DEF Unacked, Waiting
  <1>6. InPlace(t) => InPlace(t2)
    BY <1>1, <1>3, <1>4 DEF InPlace
  <1>7. QED
    BY <1>2, <1>5, <1>6 DEF t2

\* ArqTx::process_ack stops waiting for exactly the numbers it reports.
LEMMA AckWaits ==
    ASSUME NEW D, NEW t \in TxType(D), NEW n \in SeqNum, NEW B \in SUBSET Nat
    PROVE  /\ NewlyAcked(t, n, B) \subseteq Unacked(t)
           /\ ProcessAck(t, n, B).next_seq = t.next_seq
           /\ InPlace(t) => /\ InPlace(ProcessAck(t, n, B))
                            /\ Unacked(ProcessAck(t, n, B))
                                  = Unacked(t) \ NewlyAcked(t, n, B)
  <1> DEFINE adv == CumulativeAdvance(t, n)
             passed == {SlotOf(WrapAdd(t.send_base, k)) : k \in 0 .. adv - 1}
             sacked == {WrapAdd(n, bit + 1) : bit \in B}
             t2 == ProcessAck(t, n, B)
             acked == NewlyAcked(t, n, B)
             hit(i) == i \in passed \/ t.tx_buf[i].seq_num \in sacked
  <1>1. /\ t2.next_seq = t.next_seq
        /\ t2.tx_buf = [i \in Slot |-> IF i \in passed THEN NoSegment
                          ELSE IF t.tx_buf[i].seq_num \in sacked
                               THEN [t.tx_buf[i] EXCEPT !.acked = TRUE]
                          ELSE t.tx_buf[i]]
    BY DEF ProcessAck, TxType
  <1>2. acked = {t.tx_buf[i].seq_num : i \in {j \in Waiting(t) : hit(j)}}
    BY DEF NewlyAcked, Waiting
  <1>3. acked \subseteq Unacked(t)
    BY <1>2 DEF Unacked
  <1>4. ASSUME InPlace(t) PROVE InPlace(t2) /\ Unacked(t2) = Unacked(t) \ acked
    <2>1. \A i \in Slot : t.tx_buf[i] \in Segment(D) \cup {NoSegment}
      BY DEF TxType
    <2>2. ASSUME NEW i \in Slot
          PROVE  /\ i \in Waiting(t2) <=> (i \in Waiting(t) /\ ~hit(i))
                 /\ t2.tx_buf[i] # NoSegment => t.tx_buf[i] # NoSegment \/ hit(i)
                 /\ i \notin passed => t2.tx_buf[i].seq_num = t.tx_buf[i].seq_num
      <3>1. CASE i \in passed
        BY <3>1, <1>1 DEF Waiting
      <3>2. CASE i \notin passed /\ t.tx_buf[i].seq_num \in sacked
        <4>1. t2.tx_buf[i] = [t.tx_buf[i] EXCEPT !.acked = TRUE]
          BY <3>2, <1>1
        <4>2. t2.tx_buf[i].acked /\ t2.tx_buf[i].seq_num = t.tx_buf[i].seq_num
          BY <4>1, <2>1 DEF Segment, NoSegment
        <4>3. QED
          BY <3>2, <4>2 DEF Waiting
      <3>3. CASE i \notin passed /\ t.tx_buf[i].seq_num \notin sacked
        BY <3>3, <1>1 DEF Waiting
      <3>4. QED
        BY <3>1, <3>2, <3>3
    <2>3. ASSUME NEW i \in Slot, t2.tx_buf[i] # NoSegment
          PROVE  t.tx_buf[i] # NoSegment /\ i \notin passed
      <3>1. i \notin passed
        BY <2>3, <1>1
      <3>2. SeqMod \notin sacked
        <4>1. sacked \subseteq SeqNum
          BY WrapType DEF SeqNum
        <4>2. QED
          BY <4>1, UnackedType
      <3>3. t.tx_buf[i] = NoSegment => t2.tx_buf[i] = t.tx_buf[i]
        BY <3>1, <3>2, <1>1 DEF NoSegment
      <3>4. QED
        BY <3>1, <3>3, <2>3
    <2>4. InPlace(t2)
      BY <1>4, <2>2, <2>3 DEF InPlace
    <2>5. \A i, j \in Waiting(t) : t.tx_buf[i].seq_num = t.tx_buf[j].seq_num => i = j
      BY <1>4 DEF InPlace, Waiting
    <2>6. ASSUME NEW q \in Unacked(t2) PROVE q \in Unacked(t) \ acked
      <3>1. PICK i \in Waiting(t2) : q = t2.tx_buf[i].seq_num
        BY DEF Unacked
      <3>2. i \in Slot /\ i \in Waiting(t) /\ ~hit(i) /\ q = t.tx_buf[i].seq_num
        BY <3>1, <2>2, <2>3 DEF Waiting
      <3>3. QED
        BY <3>2, <2>5, <1>2 DEF Unacked
    <2>7. ASSUME NEW q \in Unacked(t) \ acked PROVE q \in Unacked(t2)
      <3>1. PICK i \in Waiting(t) : q = t.tx_buf[i].seq_num
        BY DEF Unacked
      <3>2. ~hit(i) /\ i \in Slot
        BY <3>1, <2>7, <1>2 DEF Waiting
      <3>3. i \in Waiting(t2) /\ t2.tx_buf[i].seq_num = q
        BY <3>1, <3>2, <2>2
      <3>4. QED
        BY <3>3 DEF Unacked
    <2>8. QED
      BY <2>4, <2>6, <2>7
  <1>5. QED
    BY <1>1, <1>3, <1>4

\* ArqTx::mark_retransmitted changes nothing but attempt counts.
LEMMA RetransmitWaits ==
    ASSUME NEW D, NEW t \in TxType(D), NEW S \in SUBSET SeqNum
    PROVE  /\ Unacked(MarkRetransmitted(t, S)) \subseteq Unacked(t)
           /\ MarkRetransmitted(t, S).next_seq = t.next_seq
           /\ InPlace(t) => InPlace(MarkRetransmitted(t, S))
  <1> DEFINE t2 == MarkRetransmitted(t, S)
  <1>1. /\ t2.next_seq = t.next_seq
        /\ t2.tx_buf = [i \in Slot |->
              IF t.tx_buf[i].seq_num \in S /\ ~t.tx_buf[i].acked
                THEN [t.tx_buf[i] EXCEPT !.transmit_count = IF @ < CountMax THEN @ + 1 ELSE @]
                ELSE t.tx_buf[i]]
    BY DEF MarkRetransmitted, TxType
  <1>2. ASSUME NEW i \in Slot
        PROVE  /\ t2.tx_buf[i].seq_num = t.tx_buf[i].seq_num
               /\ t2.tx_buf[i].acked = t.tx_buf[i].acked
               /\ t.tx_buf[i] = NoSegment => t2.tx_buf[i] = NoSegment
    <2>1. t.tx_buf[i] \in Segment(D) \cup {NoSegment}
      BY DEF TxType
    <2>2. SeqMod \notin S
      BY UnackedType
    <2>3. QED
      BY <2>1, <2>2, <1>1 DEF Segment, NoSegment
  <1> HIDE DEF t2
  <1>3. Unacked(t2) \subseteq Unacked(t) /\ (InPlace(t) => InPlace(t2))
    <2>1. \A i \in Slot : t2.tx_buf[i] # NoSegment =>
               /\ t.tx_buf[i] # NoSegment
               /\ t2.tx_buf[i].seq_num = t.tx_buf[i].seq_num
               /\ t.tx_buf[i].acked => t2.tx_buf[i].acked
      BY <1>2
    <2>2. QED
      BY <2>1, BufferShrinks
  <1>4. QED
    BY <1>1, <1>3 DEF t2

\* ArqTx::abandon no longer waits for the number, and adds nothing.
LEMMA AbandonWaits ==
    ASSUME NEW D, NEW t \in TxType(D), NEW q \in SeqNum
    PROVE  /\ Abandon(t, q) \in TxType(D)
           /\ Abandon(t, q).next_seq = t.next_seq
           /\ InPlace(t) => /\ InPlace(Abandon(t, q))
                            /\ Unacked(Abandon(t, q)) \subseteq Unacked(t) \ {q}
  <1> DEFINE t2 == Abandon(t, q)
  <1>1. CASE ~Holds(t, q)
    <2>1. t2 = t
      BY <1>1 DEF Abandon
    <2>2. InPlace(t) => q \notin Unacked(t)
      BY <1>1 DEF InPlace, Unacked, Waiting, Holds
    <2>3. QED
      BY <2>1, <2>2
  <1>2. CASE Holds(t, q)
    <2> DEFINE buf == [t.tx_buf EXCEPT ![SlotOf(q)] = NoSegment]
               live(k) == /\ buf[SlotOf(WrapAdd(t.send_base, k))] # NoSegment
                          /\ ~buf[SlotOf(WrapAdd(t.send_base, k))].acked
               stops == {n \in 0 .. InFlight(t) : n = InFlight(t) \/ live(n)}
               adv == Min(stops)
               passed == {SlotOf(WrapAdd(t.send_base, k)) : k \in 0 .. adv - 1}
               left == [i \in Slot |-> IF i \in passed THEN NoSegment ELSE buf[i]]
    <2>1. t2 = [t EXCEPT !.send_base = WrapAdd(@, adv), !.tx_buf = left]
      BY <1>2 DEF Abandon, TxType
    <2>2. SlotOf(q) \in Slot /\ t.send_base \in Int
      BY WrapType DEF TxType, SeqNum
    <2>3. WrapAdd(t.send_base, adv) \in SeqNum
      <3>1. InFlight(t) \in Nat
        BY InFlightType, ArqAssumption DEF SeqNum
      <3>2. stops \in SUBSET Nat /\ InFlight(t) \in stops
        BY <3>1
      <3>3. adv \in stops
        BY <3>2, MinNat
      <3>4. adv \in Int
        BY <3>2, <3>3
      <3>5. QED
        BY <2>2, <3>4, WrapType
    <2>4. \A i \in Slot : left[i] = NoSegment \/ (i # SlotOf(q) /\ left[i] = t.tx_buf[i])
      BY <2>2 DEF TxType
    <2> HIDE DEF left, adv
    <2>5. left \in [Slot -> Segment(D) \cup {NoSegment}]
      <3>1. \A i \in Slot : left[i] \in Segment(D) \cup {NoSegment}
        BY <2>4 DEF TxType
      <3>2. QED
        BY <3>1 DEF left
    <2>6. /\ t2 \in TxType(D) /\ t2.next_seq = t.next_seq /\ t2.tx_buf = left
      BY <2>1, <2>3, <2>5 DEF TxType
    <2> HIDE DEF t2
    <2>7. Unacked(t2) \subseteq Unacked(t) /\ (InPlace(t) => InPlace(t2))
      <3>1. \A i \in Slot : t2.tx_buf[i] # NoSegment =>
               /\ t.tx_buf[i] # NoSegment
               /\ t2.tx_buf[i].seq_num = t.tx_buf[i].seq_num
               /\ t.tx_buf[i].acked => t2.tx_buf[i].acked
        BY <2>4, <2>6
      <3>2. QED
        BY <3>1, BufferShrinks
    <2>8. InPlace(t) => q \notin Unacked(t2)
      <3>1. ASSUME InPlace(t), NEW i \in Waiting(t2), t2.tx_buf[i].seq_num = q PROVE FALSE
        <4>1. i \in Slot /\ t2.tx_buf[i] # NoSegment
          BY <3>1 DEF Waiting
        <4>2. i # SlotOf(q) /\ t.tx_buf[i] # NoSegment /\ t.tx_buf[i].seq_num = q
          BY <4>1, <3>1, <2>4, <2>6
        <4>3. QED
          BY <4>1, <4>2, <3>1 DEF InPlace
      <3>2. QED
        BY <3>1 DEF Unacked
    <2>9. QED
      BY <2>6, <2>7, <2>8 DEF t2
  <1>3. QED
    BY <1>1, <1>2

-----------------------------------------------------------------------------
(* What the receiver holds. *)

\* The slot at a wrapped distance, and wrapping twice.
LEMMA SlotAt ==
    ASSUME NEW a \in Int, NEW n \in Int, NEW k \in Int
    PROVE  /\ SlotOf(WrapAdd(a, k)) = (a + k) % Ring
           /\ WrapAdd(WrapAdd(a, n), k) = WrapAdd(a, n + k)
  <1>1. a + k \in Int /\ a + n \in Int /\ SeqMod \in Nat \ {0}
    BY ArqAssumption
  <1>2. SlotOf((a + k) % SeqMod) = (a + k) % Ring
    BY <1>1, SlotOfMod
  <1>3. (((a + n) % SeqMod) + k) % SeqMod = ((a + n) + k) % SeqMod
    BY <1>1, ModAdd
  <1>4. (a + n) + k = a + (n + k)
    OBVIOUS
  <1>5. QED
    BY <1>2, <1>3, <1>4 DEF WrapAdd

\* No slot beyond the window has received anything.
InWindow(r, w) == \A k \in w .. Ring - 1 : ~r.rx_buf[SlotOf(WrapAdd(r.recv_base, k))].received

\* A receiver that starts empty holds nothing beyond its window.
LEMMA NewRxInWindow ==
    ASSUME NEW w \in 1 .. Ring
    PROVE  InWindow(ArqRxNew, w)
  <1>1. \A k \in w .. Ring - 1 : SlotOf(WrapAdd(0, k)) \in Slot
    BY SlotWrapType, ArqAssumption
  <1>2. QED
    BY <1>1 DEF InWindow, ArqRxNew, NoData

\* ArqRx::receive hands up at most a window's worth of payloads, and buffers
\* nothing beyond the window.
LEMMA ReceiveInWindow ==
    ASSUME NEW D, NEW r \in RxType(D), NEW q \in SeqNum, NEW d \in D, NEW w \in 1 .. Ring,
           InWindow(r, w)
    PROVE  /\ InWindow(RxReceive(r, q, d, w), w)
           /\ Len(RxDelivered(r, q, d, w)) \in 0 .. w
  <1>1. CASE ~InRxWindow(r, q, w)
    BY <1>1 DEF RxReceive, RxDelivered
  <1>2. CASE InRxWindow(r, q, w)
    <2> DEFINE b == r.recv_base
               buf == Buffered(r, q, d)
               n == RunLength(b, buf)
               passed == {SlotOf(WrapAdd(b, k)) : k \in 0 .. n - 1}
               r2 == RxReceive(r, q, d, w)
    <2>1. Ring \in Nat \ {0} /\ b \in Int /\ q \in Int /\ w \in Nat
      BY ArqAssumption DEF RxType, SeqNum
    <2>2. /\ n \in 0 .. Ring
          /\ \A k \in 0 .. n - 1 : buf[SlotOf(WrapAdd(b, k))].received
      BY RunLengthProperties
    <2>3. \A k \in Int : SlotOf(WrapAdd(b, k)) = (b + k) % Ring /\ (b + k) % Ring \in Slot
      <3>1. ASSUME NEW k \in Int
            PROVE  SlotOf(WrapAdd(b, k)) = (b + k) % Ring /\ (b + k) % Ring \in Slot
        <4>1. b + k \in Int
          BY <2>1
        <4>2. (b + k) % Ring \in Slot
          BY <4>1, <2>1, DivMod DEF Slot
        <4>3. QED
          BY <4>2, <2>1, SlotAt
      <3>2. QED
        BY <3>1
    <2>4. PICK j \in 0 .. w - 1 : SlotOf(q) = (b + j) % Ring
      <3> DEFINE j == WrapSub(q, b)
      <3>1. j \in SeqNum /\ j < w
        BY <1>2, <2>1, WrapType DEF InRxWindow
      <3>2. WrapAdd(b, j) = q
        <4>1. (((q - b) % SeqMod) + b) % SeqMod = ((q - b) + b) % SeqMod
          <5>1. q - b \in Int /\ SeqMod \in Nat \ {0}
            BY <2>1, ArqAssumption
          <5>2. QED
            BY <5>1, <2>1, ModAdd
        <4>2. ((q - b) + b) = q /\ q % SeqMod = q
          BY <2>1, ModSmall, ArqAssumption DEF SeqNum
        <4>3. b + j = j + b
          BY <2>1, <3>1 DEF SeqNum
        <4>4. QED
          BY <4>1, <4>2, <4>3 DEF WrapAdd, WrapSub
      <3>3. j \in 0 .. w - 1 /\ j \in Int
        BY <3>1, <2>1 DEF SeqNum
      <3> HIDE DEF j
      <3>4. SlotOf(q) = (b + j) % Ring
        BY <3>2, <3>3, <2>3
      <3>5. QED
        BY <3>3, <3>4
    <2>5. ASSUME NEW k \in w .. Ring - 1 PROVE ~buf[(b + k) % Ring].received
      <3>1. (b + k) % Ring # (b + j) % Ring
        <4>1. (b + k) - (b + j) < Ring /\ (b + j) - (b + k) < Ring /\ b + k # b + j
          BY <2>1
        <4>2. b + k \in Int /\ b + j \in Int
          BY <2>1
        <4>3. QED
          BY <4>1, <4>2, <2>1, ModInj
      <3>2. ~r.rx_buf[(b + k) % Ring].received
        <4>1. k \in Int
          BY <2>1
        <4>2. QED
          BY <4>1, <2>3 DEF InWindow
      <3>3. (b + k) % Ring \in Slot
        BY <2>1, <2>3
      <3>4. buf[(b + k) % Ring] = r.rx_buf[(b + k) % Ring]
        BY <3>1, <3>3, <2>4 DEF Buffered, RxType
      <3>5. QED
        BY <3>2, <3>4
    <2> HIDE DEF buf, n
    <2>6. n <= w
      <3>1. SUFFICES ASSUME w < n PROVE FALSE
        BY <2>1, <2>2
      <3>2. w \in w .. Ring - 1 /\ w \in 0 .. n - 1 /\ w \in Int
        BY <3>1, <2>1, <2>2
      <3>3. QED
        BY <3>2, <2>2, <2>3, <2>5
    <2>7. Len(RxDelivered(r, q, d, w)) = n
      <3>1. RxDelivered(r, q, d, w)
              = [k \in 1 .. n |-> buf[SlotOf(WrapAdd(r.recv_base, k - 1))].data]
        BY <1>2 DEF RxDelivered, buf, n
      <3>2. n \in Nat
        BY <2>1, <2>2
      <3>3. QED
        BY <3>1, <3>2
    <2>8. /\ r2.recv_base = WrapAdd(b, n)
          /\ r2.rx_buf = [i \in Slot |-> IF i \in passed THEN NoData ELSE buf[i]]
      BY <1>2 DEF RxReceive, buf, n
    <2>9. ASSUME NEW k \in w .. Ring - 1
          PROVE  ~r2.rx_buf[SlotOf(WrapAdd(r2.recv_base, k))].received
      <3>1. k \in Int /\ n \in Int /\ n + k \in Int
        BY <2>1, <2>2
      <3>2. SlotOf(WrapAdd(r2.recv_base, k)) = (b + (n + k)) % Ring
        <4>1. WrapAdd(r2.recv_base, k) = WrapAdd(b, n + k)
          <5>1. WrapAdd(WrapAdd(b, n), k) = WrapAdd(b, n + k)
            BY <3>1, <2>1, SlotAt
          <5>2. QED
            BY <5>1, <2>8, Zenon
        <4>2. SlotOf(WrapAdd(b, n + k)) = (b + (n + k)) % Ring
          BY <3>1, <2>3
        <4>3. QED
          BY <4>1, <4>2
      <3>3. (b + (n + k)) % Ring \in Slot
        BY <3>1, <2>3
      <3>4. CASE n + k < Ring
        <4>1. n + k \in w .. Ring - 1
          BY <3>1, <3>4, <2>1, <2>2
        <4>2. ~buf[(b + (n + k)) % Ring].received
          BY <4>1, <2>5
        <4>3. QED
          BY <4>2, <3>2, <3>3, <2>8 DEF NoData
      <3>5. CASE Ring <= n + k
        <4>1. n + k - Ring \in 0 .. n - 1 /\ n + k - Ring \in Int
          BY <3>1, <3>5, <2>1, <2>2
        <4>2. (b + (n + k)) % Ring = (b + (n + k - Ring)) % Ring
          <5>1. Ring * 1 = Ring /\ b + (n + k) = (b + (n + k - Ring)) + Ring
            BY <3>1, <2>1
          <5>2. ((b + (n + k - Ring)) + Ring * 1) % Ring = (b + (n + k - Ring)) % Ring
            <6>1. b + (n + k - Ring) \in Int /\ 1 \in Int
              BY <3>1, <2>1
            <6>2. QED
              BY <6>1, <2>1, ModShift, Zenon
          <5>3. QED
            BY <5>1, <5>2
        <4>3. (b + (n + k)) % Ring \in passed
          BY <4>1, <4>2, <2>3
        <4>4. QED
          BY <4>3, <3>2, <3>3, <2>8 DEF NoData
      <3>6. QED
        BY <3>1, <3>4, <3>5, <2>1
    <2>10. InWindow(r2, w)
      BY <2>9 DEF InWindow
    <2>11. QED
      BY <2>6, <2>7, <2>10, <2>1, <2>2
  <1>3. QED
    BY <1>1, <1>2

-----------------------------------------------------------------------------
(* Both ends of one window in absolute numbers: segment n (n = 0, 1, ...)   *)
(* carries payload n + 1, sequence number n % SeqMod and lives in slot      *)
(* n % Ring.  `sent` segments were sent, h payloads were handed up, and w   *)
(* is the window.                                                           *)

\* The first segment the sender has not seen acknowledged.
SendBase(t, sent) == sent - InFlight(t)

\* Segment n was handed up or waits in the receiver's buffer.
ReceivedAt(r, h, n) == n < h \/ r.rx_buf[n % Ring] = [received |-> TRUE, data |-> n + 1]

\* The cursors are remainders of SendBase <= h <= sent, and the sender is never
\* more than a window ahead; the sender's ring holds the outstanding segments
\* and nothing else, and one marked acked was received.
SenderCoupled(t, r, sent, h, w) ==
    LET base == SendBase(t, sent)
    IN /\ 0 <= base /\ base <= h /\ h <= sent /\ sent <= base + w
       /\ t.send_base = base % SeqMod /\ t.next_seq = sent % SeqMod
       /\ \A n \in base .. sent - 1 :
            /\ t.tx_buf[n % Ring].seq_num = n % SeqMod
            /\ t.tx_buf[n % Ring].data = n + 1
            /\ t.tx_buf[n % Ring].acked => ReceivedAt(r, h, n)
       /\ \A i \in Slot : t.tx_buf[i] # NoSegment => \E n \in base .. sent - 1 : i = n % Ring

\* The receiver's ring holds segments of its own window, each in its slot.
ReceiverCoupled(r, sent, h, w) ==
    /\ r.recv_base = h % SeqMod
    /\ \A i \in Slot : r.rx_buf[i].received =>
         \E n \in h .. h + w - 1 : n < sent /\ i = n % Ring /\ r.rx_buf[i].data = n + 1

Coupled(t, r, sent, h, w) == SenderCoupled(t, r, sent, h, w) /\ ReceiverCoupled(r, sent, h, w)

\* The constants, in the form the arithmetic steps need.
LEMMA ArqBounds ==
    /\ SeqMod \in Nat \ {0} /\ Ring \in Nat \ {0} /\ 4 * Ring <= SeqMod
    /\ HalfSpace \in Nat /\ 2 * Ring <= HalfSpace
    /\ 2 * HalfSpace <= SeqMod /\ SeqMod <= 2 * HalfSpace + 1
    /\ SackRange = Ring - 1
  <1>1. HalfSpace \in Int /\ 2 * HalfSpace <= SeqMod /\ SeqMod <= 2 * HalfSpace + 1
    <2>1. SeqMod \in Nat
      BY ArqAssumption
    <2>2. QED
      BY <2>1, DivMod DEF HalfSpace
  <1>2. QED
    BY <1>1, ArqAssumption

\* The cursors count the outstanding segments.
LEMMA InFlightAbs ==
    ASSUME NEW t, NEW s \in Int, NEW b \in Int,
           t.next_seq = s % SeqMod, t.send_base = b % SeqMod, b <= s, s <= b + Ring
    PROVE  InFlight(t) = s - b
  <1>1. s - b \in 0 .. SeqMod - 1
    BY ArqBounds
  <1>2. ((s % SeqMod) - (b % SeqMod)) % SeqMod = (s - b) % SeqMod
    BY ModSub, ArqBounds
  <1>3. (s - b) % SeqMod = s - b
    BY <1>1, ModSmall, ArqBounds
  <1>4. QED
    BY <1>2, <1>3 DEF InFlight, WrapSub

\* Two segments of one window never share a slot.
LEMMA SlotInj ==
    ASSUME NEW a \in Int, NEW b \in Int, a - b < Ring, b - a < Ring, a % Ring = b % Ring
    PROVE  a = b
  BY ModInj, ArqBounds

\* Two empty ends are coupled.
LEMMA CoupledNew ==
    ASSUME NEW w \in 1 .. Ring
    PROVE  Coupled(ArqTxNew, ArqRxNew, 0, 0, w) /\ SendBase(ArqTxNew, 0) = 0
  <1>1. 0 % SeqMod = 0
    BY ModSmall, ArqBounds
  <1>2. /\ ArqTxNew.next_seq = 0 /\ ArqTxNew.send_base = 0 /\ ArqRxNew.recv_base = 0
        /\ \A i \in Slot : ArqTxNew.tx_buf[i] = NoSegment
        /\ \A i \in Slot : ~ArqRxNew.rx_buf[i].received
    BY DEF ArqTxNew, ArqRxNew, NoData
  <1>3. InFlight(ArqTxNew) = 0 - 0
    <2>1. 0 <= 0 + Ring
      BY ArqBounds
    <2>2. QED
      BY <2>1, <1>1, <1>2, InFlightAbs
  <1>4. SendBase(ArqTxNew, 0) = 0
    BY <1>3 DEF SendBase
  <1>5. QED
    BY <1>1, <1>2, <1>4 DEF Coupled, SenderCoupled, ReceiverCoupled

\* Typed facts about the counters that every step uses.
LEMMA CoupledCounters ==
    ASSUME NEW D, NEW t \in TxType(D), NEW r, NEW sent \in Int, NEW h \in Int, NEW w \in 1 .. Ring,
           Coupled(t, r, sent, h, w)
    PROVE  /\ SendBase(t, sent) \in Nat /\ SendBase(t, sent) <= h
           /\ h \in Nat /\ h <= sent /\ sent <= SendBase(t, sent) + w
           /\ InFlight(t) = sent - SendBase(t, sent)
  <1>1. InFlight(t) \in Int
    BY InFlightType DEF SeqNum
  <1>2. QED
    BY <1>1 DEF Coupled, SenderCoupled, SendBase

\* ArqTx::send, with room in the window: the new segment takes a slot no
\* outstanding one has.
LEMMA CoupledSend ==
    ASSUME NEW D, NEW t \in TxType(D), NEW r, NEW sent \in Int, NEW h \in Int, NEW w \in 1 .. Ring,
           Coupled(t, r, sent, h, w), InFlight(t) < w
    PROVE  LET t2 == TxSend(t, sent + 1)
           IN Coupled(t2, r, sent + 1, h, w) /\ SendBase(t2, sent + 1) = SendBase(t, sent)
              /\ InFlight(t2) = InFlight(t) + 1
  <1> DEFINE base == SendBase(t, sent)
             new == [seq_num |-> sent % SeqMod, data |-> sent + 1,
                     transmit_count |-> 1, acked |-> FALSE]
             t2 == TxSend(t, sent + 1)
  <1>1. /\ base \in Int /\ 0 <= base /\ base <= h /\ h <= sent /\ sent + 1 <= base + w
        /\ InFlight(t) = sent - base /\ w <= Ring /\ w \in Int
    BY CoupledCounters, ArqBounds
  <1>2. /\ t.next_seq = sent % SeqMod /\ t.send_base = base % SeqMod
        /\ \A n \in base .. sent - 1 :
            /\ t.tx_buf[n % Ring].seq_num = n % SeqMod
            /\ t.tx_buf[n % Ring].data = n + 1
            /\ t.tx_buf[n % Ring].acked => ReceivedAt(r, h, n)
        /\ \A i \in Slot : t.tx_buf[i] # NoSegment => \E n \in base .. sent - 1 : i = n % Ring
    BY DEF Coupled, SenderCoupled
  <1>3. SlotOf(t.next_seq) = sent % Ring /\ sent % Ring \in Slot
    BY <1>2, SlotOfMod, WrapAbs
  <1>4. /\ t2.next_seq = (sent + 1) % SeqMod /\ t2.send_base = t.send_base
        /\ t2.tx_buf = [t.tx_buf EXCEPT ![sent % Ring] = new]
    <2>1. /\ t2.next_seq = WrapAdd(t.next_seq, 1) /\ t2.send_base = t.send_base
          /\ t2.tx_buf = [t.tx_buf EXCEPT ![SlotOf(t.next_seq)] =
                             [seq_num |-> t.next_seq, data |-> sent + 1,
                              transmit_count |-> 1, acked |-> FALSE]]
      BY DEF TxSend, TxType
    <2>2. WrapAdd(t.next_seq, 1) = (sent + 1) % SeqMod
      BY <1>2, WrapAbs
    <2>3. QED
      BY <2>1, <2>2, <1>2, <1>3
  <1> HIDE DEF t2, base
  <1>5. InFlight(t2) = (sent + 1) - base
    <2>1. sent + 1 \in Int /\ base <= sent + 1 /\ sent + 1 <= base + Ring
      BY <1>1, ArqBounds
    <2>2. t2.next_seq = (sent + 1) % SeqMod /\ t2.send_base = base % SeqMod
      BY <1>2, <1>4
    <2> HIDE DEF new
    <2>3. QED
      BY <2>1, <2>2, <1>1, InFlightAbs
  <1>6. SendBase(t2, sent + 1) = base
    BY <1>1, <1>5 DEF SendBase
  <1>7. ASSUME NEW n \in base .. sent
        PROVE  /\ t2.tx_buf[n % Ring].seq_num = n % SeqMod
               /\ t2.tx_buf[n % Ring].data = n + 1
               /\ t2.tx_buf[n % Ring].acked => ReceivedAt(r, h, n)
    <2>1. n \in Int /\ n % Ring \in Slot
      BY <1>1, WrapAbs
    <2>2. CASE n = sent
      BY <2>2, <1>3, <1>4 DEF TxType
    <2>3. CASE n # sent
      <3>1. n \in base .. sent - 1
        BY <1>1, <2>3
      <3>2. n % Ring # sent % Ring
        <4>1. n - sent < Ring /\ sent - n < Ring
          BY <1>1, ArqBounds
        <4>2. QED
          BY <4>1, <2>1, <2>3, SlotInj
      <3>3. t2.tx_buf[n % Ring] = t.tx_buf[n % Ring]
        BY <3>2, <1>4, <2>1 DEF TxType
      <3>4. QED
        BY <3>1, <3>3, <1>2
    <2>4. QED
      BY <2>2, <2>3
  <1>8. ASSUME NEW i \in Slot, t2.tx_buf[i] # NoSegment
        PROVE  \E n \in base .. sent : i = n % Ring
    <2>1. CASE i = sent % Ring
      BY <2>1, <1>1
    <2>2. CASE i # sent % Ring
      <3>1. t2.tx_buf[i] = t.tx_buf[i]
        BY <2>2, <1>4 DEF TxType
      <3>2. PICK n \in base .. sent - 1 : i = n % Ring
        BY <3>1, <1>8, <1>2
      <3>3. n \in base .. sent
        BY <1>1
      <3>4. QED
        BY <3>2, <3>3
    <2>3. QED
      BY <2>1, <2>2
  <1>9. SenderCoupled(t2, r, sent + 1, h, w)
    <2>1. (sent + 1) - 1 = sent /\ h <= sent + 1
      BY <1>1
    <2>2. QED
      BY <2>1, <1>1, <1>2, <1>4, <1>6, <1>7, <1>8 DEF SenderCoupled
  <1>10. ReceiverCoupled(r, sent + 1, h, w)
    <2>1. \A n \in h .. h + w - 1 : n < sent => n < sent + 1
      BY <1>1
    <2>2. QED
      BY <2>1 DEF Coupled, ReceiverCoupled
  <1>11. InFlight(t2) = InFlight(t) + 1
    BY <1>1, <1>5
  <1>12. QED
    BY <1>6, <1>9, <1>10, <1>11 DEF Coupled, t2, base

\* A sequence number between the cursors names an outstanding segment.
LEMMA CoupledOutstanding ==
    ASSUME NEW D, NEW t \in TxType(D), NEW r, NEW sent \in Int, NEW h \in Int, NEW w \in 1 .. Ring,
           Coupled(t, r, sent, h, w), NEW q \in Outstanding(t)
    PROVE  \E n \in SendBase(t, sent) .. sent - 1 :
              /\ q = n % SeqMod /\ SlotOf(q) = n % Ring
              /\ t.tx_buf[SlotOf(q)].data = n + 1 /\ t.tx_buf[SlotOf(q)].seq_num = q
  <1> DEFINE base == SendBase(t, sent)
  <1>1. base \in Int /\ InFlight(t) = sent - base
    BY CoupledCounters
  <1>2. /\ t.send_base = base % SeqMod
        /\ \A n \in base .. sent - 1 : /\ t.tx_buf[n % Ring].seq_num = n % SeqMod
                                       /\ t.tx_buf[n % Ring].data = n + 1
    BY DEF Coupled, SenderCoupled
  <1> HIDE DEF base
  <1>3. PICK k \in 0 .. InFlight(t) - 1 : q = WrapAdd(t.send_base, k)
    BY DEF Outstanding
  <1>4. k \in Int /\ base + k \in base .. sent - 1 /\ base + k \in Int
    BY <1>1
  <1>5. q = (base + k) % SeqMod
    BY <1>1, <1>2, <1>3, <1>4, WrapAbs
  <1>6. SlotOf(q) = (base + k) % Ring
    BY <1>4, <1>5, SlotOfMod
  <1>7. QED
    BY <1>2, <1>4, <1>5, <1>6 DEF base

\* ArqTx::mark_retransmitted changes nothing but attempt counts.
LEMMA CoupledMark ==
    ASSUME NEW D, NEW t \in TxType(D), NEW r, NEW sent \in Int, NEW h \in Int, NEW w \in 1 .. Ring,
           Coupled(t, r, sent, h, w), NEW S \in SUBSET SeqNum
    PROVE  LET t2 == MarkRetransmitted(t, S)
           IN Coupled(t2, r, sent, h, w) /\ InFlight(t2) = InFlight(t)
  <1> DEFINE t2 == MarkRetransmitted(t, S)
  <1>1. /\ t2.next_seq = t.next_seq /\ t2.send_base = t.send_base
        /\ t2.tx_buf = [i \in Slot |->
              LET seg == t.tx_buf[i]
              IN IF seg.seq_num \in S /\ ~seg.acked
                   THEN [seg EXCEPT !.transmit_count = IF @ < CountMax THEN @ + 1 ELSE @]
                   ELSE seg]
    BY DEF MarkRetransmitted, TxType
  <1>2. ASSUME NEW i \in Slot
        PROVE  /\ t2.tx_buf[i].seq_num = t.tx_buf[i].seq_num
               /\ t2.tx_buf[i].data = t.tx_buf[i].data
               /\ t2.tx_buf[i].acked => t.tx_buf[i].acked
               /\ t2.tx_buf[i] # NoSegment => t.tx_buf[i] # NoSegment
    <2>1. t.tx_buf[i] \in Segment(D) \cup {NoSegment}
      BY DEF TxType
    <2>2. CASE t.tx_buf[i] = NoSegment
      <3>1. SeqMod \notin S
        BY UnackedType
      <3>2. QED
        BY <2>2, <3>1, <1>1 DEF NoSegment
    <2>3. CASE t.tx_buf[i] \in Segment(D) /\ t.tx_buf[i] # NoSegment
      <3>1. \/ t2.tx_buf[i] = t.tx_buf[i]
            \/ \E v : t2.tx_buf[i] = [t.tx_buf[i] EXCEPT !.transmit_count = v]
        BY <1>1
      <3>2. QED
        BY <2>3, <3>1 DEF Segment
    <2>4. QED
      BY <2>1, <2>2, <2>3
  <1> HIDE DEF t2
  <1>3. InFlight(t2) = InFlight(t) /\ SendBase(t2, sent) = SendBase(t, sent)
    BY <1>1 DEF InFlight, SendBase
  <1>4. \A n \in SendBase(t, sent) .. sent - 1 : n \in Int /\ n % Ring \in Slot
    BY CoupledCounters, WrapAbs
  <1>5. QED
    BY <1>1, <1>2, <1>3, <1>4 DEF Coupled, SenderCoupled, t2

\* process_ack moves send_base exactly to the point the receiver had reached
\* when it built the ACK, and not at all when that lies behind: the half-space
\* test tells a late ACK from a new one.
LEMMA CoupledAdvance ==
    ASSUME NEW D, NEW t \in TxType(D), NEW r, NEW sent \in Int, NEW h \in Int, NEW w \in 1 .. Ring,
           Coupled(t, r, sent, h, w),
           NEW at \in Int, at <= h, SendBase(t, sent) - at < SeqMod - HalfSpace
    PROVE  CumulativeAdvance(t, at % SeqMod) =
              IF at > SendBase(t, sent) THEN at - SendBase(t, sent) ELSE 0
  <1> DEFINE base == SendBase(t, sent)
  <1>1. base \in Int /\ base <= h /\ h <= base + w /\ w <= Ring /\ w \in Int
    BY CoupledCounters, ArqBounds
  <1>2. t.send_base = base % SeqMod
    BY DEF Coupled, SenderCoupled
  <1> HIDE DEF base
  <1>3. WrapSub(at % SeqMod, t.send_base) = (at - base) % SeqMod
    <2>1. ((at % SeqMod) - (base % SeqMod)) % SeqMod = (at - base) % SeqMod
      BY <1>1, ModSub, ArqBounds
    <2>2. QED
      BY <2>1, <1>2 DEF WrapSub
  <1>4. CASE at >= base
    <2>1. at - base \in 0 .. SeqMod - 1 /\ at - base <= HalfSpace
      BY <1>1, <1>4, ArqBounds
    <2>2. (at - base) % SeqMod = at - base
      BY <2>1, ModSmall, ArqBounds
    <2>3. CumulativeAdvance(t, at % SeqMod) = at - base
      BY <2>1, <2>2, <1>3, ArqBounds DEF CumulativeAdvance
    <2>4. QED
      BY <2>3, <1>1, <1>4 DEF base
  <1>5. CASE at < base
    <2>1. at - base \in -SeqMod .. -1 /\ (at - base) + SeqMod > HalfSpace
      BY <1>1, <1>5, ArqBounds DEF base
    <2>2. (at - base) % SeqMod = (at - base) + SeqMod
      BY <2>1, ModSmall, ArqBounds
    <2>3. CumulativeAdvance(t, at % SeqMod) = 0
      BY <2>1, <2>2, <1>3, ArqBounds DEF CumulativeAdvance
    <2>4. QED
      BY <2>3, <1>1, <1>5 DEF base
  <1>6. QED
    BY <1>1, <1>4, <1>5

\* ArqTx::process_ack of an acknowledgement that was built when `at` payloads
\* had been handed up: what it passes was handed up, what it marks was received.
LEMMA CoupledAck ==
    ASSUME NEW D, NEW t \in TxType(D), NEW r, NEW sent \in Int, NEW h \in Int, NEW w \in 1 .. Ring,
           Coupled(t, r, sent, h, w),
           NEW at \in Int, at <= h, SendBase(t, sent) - at < SeqMod - HalfSpace,
           NEW bitmap \in SUBSET (0 .. SackRange - 1),
           \A bit \in bitmap : ReceivedAt(r, h, at + (bit + 1))
    PROVE  LET t2 == ProcessAck(t, at % SeqMod, bitmap)
           IN /\ Coupled(t2, r, sent, h, w)
              /\ SendBase(t2, sent) = IF at > SendBase(t, sent) THEN at ELSE SendBase(t, sent)
  <1> DEFINE old == SendBase(t, sent)
             num == at % SeqMod
             adv == CumulativeAdvance(t, num)
             base == old + adv
             passed == {SlotOf(WrapAdd(t.send_base, j)) : j \in 0 .. adv - 1}
             sacked == {WrapAdd(num, bit + 1) : bit \in bitmap}
             t2 == ProcessAck(t, num, bitmap)
  <1>1. /\ old \in Int /\ 0 <= old /\ old <= h /\ h <= sent /\ sent <= old + w
        /\ w \in Int /\ w <= Ring /\ h \in Int
    BY CoupledCounters, ArqBounds
  <1>2. /\ t.send_base = old % SeqMod /\ t.next_seq = sent % SeqMod
        /\ \A n \in old .. sent - 1 :
            /\ t.tx_buf[n % Ring].seq_num = n % SeqMod
            /\ t.tx_buf[n % Ring].data = n + 1
            /\ t.tx_buf[n % Ring].acked => ReceivedAt(r, h, n)
        /\ \A i \in Slot : t.tx_buf[i] # NoSegment => \E n \in old .. sent - 1 : i = n % Ring
    BY DEF Coupled, SenderCoupled
  <1>3. adv = IF at > old THEN at - old ELSE 0
    BY CoupledAdvance
  <1>4. /\ t2.next_seq = t.next_seq /\ t2.send_base = WrapAdd(t.send_base, adv)
        /\ t2.tx_buf = [i \in Slot |->
              IF i \in passed THEN NoSegment
              ELSE IF t.tx_buf[i].seq_num \in sacked THEN [t.tx_buf[i] EXCEPT !.acked = TRUE]
              ELSE t.tx_buf[i]]
    BY DEF ProcessAck, TxType
  <1> HIDE DEF old, adv, t2
  <1>5. /\ adv \in Nat /\ base \in Int /\ old <= base /\ base <= h /\ at <= base
        /\ base = IF at > old THEN at ELSE old
    BY <1>1, <1>3
  <1>6. \A i \in Slot : i \in passed <=> \E n \in old .. base - 1 : i = n % Ring
    <2>1. ASSUME NEW j \in 0 .. adv - 1
          PROVE  /\ SlotOf(WrapAdd(t.send_base, j)) = (old + j) % Ring
                 /\ old + j \in old .. base - 1
      <3>1. j \in Int /\ old + j \in old .. base - 1
        BY <1>1, <1>5
      <3>2. SlotOf(WrapAdd(t.send_base, j)) = (old + j) % Ring
        BY <3>1, <1>1, <1>2, WrapAbs
      <3>3. QED
        BY <3>1, <3>2
    <2>2. ASSUME NEW n \in old .. base - 1
          PROVE  \E j \in 0 .. adv - 1 : n = old + j
      <3>1. n - old \in 0 .. adv - 1 /\ n = old + (n - old)
        BY <1>1, <1>5
      <3>2. QED
        BY <3>1
    <2> HIDE DEF base
    <2>3. QED
      BY <2>1, <2>2
  <1>7. ASSUME NEW n \in old .. sent - 1, n % SeqMod \in sacked
        PROVE  ReceivedAt(r, h, n)
    <2>1. PICK bit \in bitmap : n % SeqMod = WrapAdd(num, bit + 1)
      BY <1>7
    <2>2. bit \in Int /\ 0 <= bit /\ bit <= Ring - 2
      BY ArqBounds
    <2>3. n % SeqMod = (at + (bit + 1)) % SeqMod
      <3>1. bit + 1 \in Int /\ at \in Int
        BY <2>2
      <3>2. WrapAdd(at % SeqMod, bit + 1) = (at + (bit + 1)) % SeqMod
        BY <3>1, WrapAbs
      <3>3. QED
        BY <3>2, <2>1
    <2>4. n - (at + (bit + 1)) < SeqMod /\ (at + (bit + 1)) - n < SeqMod
      <3>1. n \in Int /\ old <= n /\ n < old + Ring
        BY <1>1, ArqBounds
      <3>2. at <= old + Ring /\ old - at < SeqMod - 2 * Ring
        BY <1>1, ArqBounds DEF old
      <3>3. bit + 1 \in Int /\ 1 <= bit + 1 /\ bit + 1 < Ring
        BY <2>2, ArqBounds
      <3>4. QED
        BY <3>1, <3>2, <3>3, <1>1, ArqBounds
    <2>5. n = at + (bit + 1)
      <3>1. n \in Int /\ at + (bit + 1) \in Int
        BY <1>1, <2>2
      <3>2. QED
        BY <3>1, <2>3, <2>4, ModInj, ArqBounds
    <2>6. QED
      BY <2>5
  <1> HIDE DEF base, passed, sacked
  <1>8. t2.send_base = base % SeqMod
    BY <1>1, <1>2, <1>4, <1>5, WrapAbs DEF base
  <1>9. SendBase(t2, sent) = base
    <2>1. base <= sent /\ sent <= base + Ring
      BY <1>1, <1>5, ArqBounds
    <2>2. InFlight(t2) = sent - base
      BY <2>1, <1>1, <1>2, <1>4, <1>5, <1>8, InFlightAbs
    <2>3. QED
      BY <2>2, <1>5 DEF SendBase
  <1>10. ASSUME NEW n \in base .. sent - 1
         PROVE  /\ t2.tx_buf[n % Ring].seq_num = n % SeqMod
                /\ t2.tx_buf[n % Ring].data = n + 1
                /\ t2.tx_buf[n % Ring].acked => ReceivedAt(r, h, n)
    <2>1. n \in Int /\ n \in old .. sent - 1 /\ n % Ring \in Slot
      <3>1. n \in Int /\ n \in old .. sent - 1
        BY <1>1, <1>5
      <3>2. QED
        BY <3>1, WrapAbs
    <2>2. n % Ring \notin passed
      <3>1. ASSUME NEW j \in old .. base - 1, n % Ring = j % Ring PROVE FALSE
        <4>1. j \in Int /\ n - j < Ring /\ j - n < Ring /\ n # j
          BY <1>1, <1>5, <2>1, ArqBounds
        <4>2. QED
          BY <4>1, <3>1, <2>1, SlotInj
      <3>2. QED
        BY <3>1, <2>1, <1>6
    <2>3. /\ t.tx_buf[n % Ring].seq_num = n % SeqMod
          /\ t.tx_buf[n % Ring].data = n + 1
          /\ t.tx_buf[n % Ring].acked => ReceivedAt(r, h, n)
      BY <2>1, <1>2
    <2>4. t.tx_buf[n % Ring] \in Segment(D)
      <3>1. n % SeqMod # SeqMod
        BY <2>1, ArqBounds, DivMod
      <3>2. t.tx_buf[n % Ring] # NoSegment
        BY <3>1, <2>3 DEF NoSegment
      <3>3. QED
        BY <3>2, <2>1 DEF TxType
    <2>5. CASE n % SeqMod \in sacked
      <3>1. ReceivedAt(r, h, n)
        BY <2>5, <2>1, <1>7
      <3>2. t2.tx_buf[n % Ring] = [t.tx_buf[n % Ring] EXCEPT !.acked = TRUE]
        BY <2>1, <2>2, <2>3, <2>5, <1>4
      <3>3. QED
        BY <3>1, <3>2, <2>3, <2>4 DEF Segment
    <2>6. CASE n % SeqMod \notin sacked
      BY <2>1, <2>2, <2>3, <2>6, <1>4
    <2>7. QED
      BY <2>5, <2>6
  <1>11. ASSUME NEW i \in Slot, t2.tx_buf[i] # NoSegment
         PROVE  \E n \in base .. sent - 1 : i = n % Ring
    <2>1. i \notin passed
      BY <1>11, <1>4
    <2>2. t.tx_buf[i] # NoSegment
      <3>1. SUFFICES ASSUME t.tx_buf[i] = NoSegment PROVE FALSE
        OBVIOUS
      <3>2. SeqMod \notin sacked
        <4>1. \A bit \in bitmap : WrapAdd(num, bit + 1) \in SeqNum
          <5>1. num \in Int /\ \A bit \in bitmap : bit + 1 \in Int
            BY DivMod, ArqBounds
          <5>2. QED
            BY <5>1, WrapType
        <4>2. QED
          BY <4>1, ArqBounds DEF sacked, SeqNum
      <3>3. QED
        BY <3>1, <3>2, <2>1, <1>4, <1>11 DEF NoSegment
    <2>3. PICK n \in old .. sent - 1 : i = n % Ring
      BY <2>2, <1>2
    <2>4. n \notin old .. base - 1
      BY <2>1, <2>3, <1>6
    <2>5. n \in base .. sent - 1
      BY <2>4, <1>1, <1>5
    <2>6. QED
      BY <2>3, <2>5
  <1>12. SenderCoupled(t2, r, sent, h, w)
    <2>1. 0 <= base /\ base <= h /\ h <= sent /\ sent <= base + w
      BY <1>1, <1>5
    <2>2. QED
      BY <2>1, <1>2, <1>4, <1>8, <1>9, <1>10, <1>11 DEF SenderCoupled
  <1>13. QED
    BY <1>5, <1>9, <1>12 DEF Coupled, t2, old

\* ArqRx::ack_info of the receiver as it is.
LEMMA CoupledAckInfo ==
    ASSUME NEW D, NEW r \in RxType(D), NEW sent \in Int, NEW h \in Nat, NEW w \in 1 .. Ring,
           ReceiverCoupled(r, sent, h, w)
    PROVE  /\ AckInfo(r).ack_num = h % SeqMod
           /\ AckInfo(r).bitmap \in SUBSET (0 .. SackRange - 1)
           /\ \A bit \in AckInfo(r).bitmap : ReceivedAt(r, h, h + (bit + 1))
  <1>1. AckInfo(r).ack_num = h % SeqMod
    BY DEF AckInfo, ReceiverCoupled
  <1>2. ASSUME NEW bit \in AckInfo(r).bitmap PROVE ReceivedAt(r, h, h + (bit + 1))
    <2> DEFINE n == h + (bit + 1)
    <2>1. bit \in 0 .. SackRange - 1 /\ r.rx_buf[SlotOf(WrapAdd(r.recv_base, bit + 1))].received
      BY DEF AckInfo
    <2>2. bit + 1 \in Int /\ 0 < bit + 1 /\ bit + 1 < Ring
      BY <2>1, ArqBounds
    <2>3. SlotOf(WrapAdd(r.recv_base, bit + 1)) = n % Ring
      BY <2>2, WrapAbs DEF ReceiverCoupled
    <2>4. n \in Int /\ n % Ring \in Slot
      <3>1. n \in Int
        BY <2>2
      <3>2. QED
        BY <3>1, WrapAbs
    <2>5. r.rx_buf[n % Ring].received
      BY <2>1, <2>3
    <2>6. PICK m \in h .. h + w - 1 : n % Ring = m % Ring /\ r.rx_buf[n % Ring].data = m + 1
      BY <2>4, <2>5 DEF ReceiverCoupled
    <2>7. m \in Int /\ m - n < Ring /\ n - m < Ring
      BY <2>2, ArqBounds
    <2>8. m = n
      BY <2>4, <2>6, <2>7, SlotInj
    <2>9. r.rx_buf[n % Ring] \in RxCell(D)
      BY <2>4 DEF RxType
    <2>10. r.rx_buf[n % Ring] = [received |-> TRUE, data |-> n + 1]
      BY <2>5, <2>6, <2>8, <2>9 DEF RxCell, NoData
    <2>11. QED
      BY <2>10 DEF ReceivedAt
  <1>3. AckInfo(r).bitmap \in SUBSET (0 .. SackRange - 1)
    BY DEF AckInfo
  <1>4. QED
    BY <1>1, <1>2, <1>3

\* A frame the receiver's window test accepts is a segment of the window: a
\* late copy of an old one, or one a wrap away, is refused.
LEMMA InWindowAbs ==
    ASSUME NEW r, NEW h \in Nat, NEW w \in 1 .. Ring, r.recv_base = h % SeqMod,
           NEW d \in Int, h - d < SeqMod - w, d <= h + w,
           InRxWindow(r, (d - 1) % SeqMod, w)
    PROVE  d - 1 \in h .. h + w - 1
  <1> DEFINE e == (d - 1) - h
  <1>1. e \in Int /\ e < w /\ e >= w - SeqMod /\ w \in Int /\ 1 <= w /\ w <= Ring /\ w < SeqMod
    BY ArqBounds
  <1>2. WrapSub((d - 1) % SeqMod, r.recv_base) = e % SeqMod
    <2>1. d - 1 \in Int /\ h \in Int
      OBVIOUS
    <2>2. QED
      BY <2>1, ModSub, ArqBounds DEF WrapSub
  <1>3. e % SeqMod < w
    BY <1>2 DEF InRxWindow
  <1> HIDE DEF e
  <1>4. e >= 0
    <2>1. SUFFICES ASSUME e < 0 PROVE FALSE
      BY <1>1
    <2>2. e \in -SeqMod .. -1
      BY <2>1, <1>1, ArqBounds
    <2>3. e % SeqMod = e + SeqMod
      BY <2>2, <1>1, ModSmall, ArqBounds
    <2>4. QED
      BY <2>3, <1>1, <1>3, ArqBounds
  <1>5. QED
    BY <1>1, <1>4 DEF e

\* ArqRx::receive of segment d, while it is less than a wrap behind: some run
\* of segments is handed up in order, the ring keeps the rest of the window,
\* and nothing received is lost.
LEMMA CoupledReceive ==
    ASSUME NEW D, NEW t \in TxType(D), NEW r \in RxType(D), NEW sent \in Int, NEW h \in Int,
           NEW w \in 1 .. Ring, Coupled(t, r, sent, h, w),
           NEW d \in D \cap Int, 1 <= d, d <= sent, h - d < SeqMod - w
    PROVE  LET r2  == RxReceive(r, (d - 1) % SeqMod, d, w)
               out == RxDelivered(r, (d - 1) % SeqMod, d, w)
           IN /\ out \in Seq(D) /\ Len(out) \in 0 .. Ring
              /\ \A k \in 1 .. Len(out) : out[k] = h + k
              /\ Coupled(t, r2, sent, h + Len(out), w)
  <1> DEFINE base == SendBase(t, sent)
             q == (d - 1) % SeqMod
             r2 == RxReceive(r, q, d, w)
             out == RxDelivered(r, q, d, w)
             buf == Buffered(r, q, d)
             n == RunLength(r.recv_base, buf)
             passed == {SlotOf(WrapAdd(r.recv_base, k)) : k \in 0 .. n - 1}
  <1>1. /\ base \in Int /\ 0 <= base /\ base <= h /\ h <= sent /\ sent <= base + w
        /\ w \in Int /\ 1 <= w /\ w <= Ring /\ h \in Nat /\ d - 1 \in Int /\ d \in Int
    BY CoupledCounters, ArqBounds
  <1>2. /\ r.recv_base = h % SeqMod
        /\ \A i \in Slot : r.rx_buf[i].received =>
             \E m \in h .. h + w - 1 : m < sent /\ i = m % Ring /\ r.rx_buf[i].data = m + 1
    BY DEF Coupled, ReceiverCoupled
  <1>3. q \in SeqNum /\ SlotOf(q) = (d - 1) % Ring /\ (d - 1) % Ring \in Slot
    <2>1. q \in SeqNum
      BY <1>1, DivMod, ArqBounds DEF SeqNum
    <2>2. QED
      BY <2>1, <1>1, SlotOfMod, WrapAbs
  <1>4. out \in Seq(D)
    BY <1>3, RxReceiveType
  <1>5. CASE ~InRxWindow(r, q, w)
    <2>1. r2 = r /\ out = << >>
      BY <1>5 DEF RxReceive, RxDelivered
    <2>2. Len(out) = 0 /\ h + Len(out) = h
      BY <2>1, <1>1
    <2> HIDE DEF r2, out, q
    <2>3. Coupled(t, r2, sent, h + Len(out), w)
      BY <2>1, <2>2
    <2>4. Len(out) \in 0 .. Ring /\ \A k \in 1 .. Len(out) : out[k] = h + k
      BY <2>2, ArqBounds
    <2>5. QED
      BY <2>3, <2>4, <1>4 DEF r2, out, q
  <1>6. CASE InRxWindow(r, q, w)
    <2>1. /\ r2.recv_base = WrapAdd(r.recv_base, n)
          /\ \A i \in Slot : r2.rx_buf[i] = IF i \in passed THEN NoData ELSE buf[i]
          /\ out = [k \in 1 .. n |-> buf[SlotOf(WrapAdd(r.recv_base, k - 1))].data]
      BY <1>6 DEF RxReceive, RxDelivered
    <2>2. d - 1 \in h .. h + w - 1 /\ d - 1 < sent
      <3>1. d <= h + w /\ h - d < SeqMod - w
        BY <1>1
      <3>2. d - 1 \in h .. h + w - 1
        BY <3>1, <1>1, <1>2, <1>6, InWindowAbs
      <3>3. QED
        BY <3>2, <1>1
    <2>3. buf = [r.rx_buf EXCEPT ![(d - 1) % Ring] =
                    IF @.received THEN @ ELSE [received |-> TRUE, data |-> d]]
      BY <1>3 DEF Buffered
    <2>4. /\ n \in 0 .. Ring
          /\ \A k \in 0 .. n - 1 : buf[SlotOf(WrapAdd(r.recv_base, k))].received
      BY RunLengthProperties
    <2> HIDE DEF buf, n, passed, out, r2, q, base
    <2>5. ASSUME NEW i \in Slot, buf[i].received
          PROVE  \E m \in h .. h + w - 1 : m < sent /\ i = m % Ring /\ buf[i].data = m + 1
      <3>1. CASE buf[i] = r.rx_buf[i]
        BY <3>1, <2>5, <1>2
      <3>2. CASE buf[i] # r.rx_buf[i]
        <4>1. i = (d - 1) % Ring /\ buf[i] = [received |-> TRUE, data |-> d]
          BY <3>2, <2>3, <1>3 DEF RxType
        <4>2. (d - 1) + 1 = d
          BY <1>1
        <4>3. buf[i].data = (d - 1) + 1
          BY <4>1, <4>2
        <4>4. QED
          BY <4>1, <4>3, <2>2
      <3>3. QED
        BY <3>1, <3>2
    <2>6. ASSUME NEW i \in Slot, r.rx_buf[i].received PROVE buf[i] = r.rx_buf[i]
      BY <2>6, <2>3, <1>3 DEF RxType
    <2>7. n \in Nat /\ n <= Ring
      BY <2>4, ArqBounds
    <2>8. ASSUME NEW k \in 0 .. n - 1
          PROVE  /\ SlotOf(WrapAdd(r.recv_base, k)) = (h + k) % Ring
                 /\ (h + k) % Ring \in Slot
                 /\ buf[(h + k) % Ring].data = h + k + 1
                 /\ h + k < sent
      <3>1. k \in Int /\ h + k \in Int /\ k < Ring /\ 0 <= k
        BY <2>7, <1>1, ArqBounds
      <3>2. SlotOf(WrapAdd(r.recv_base, k)) = (h + k) % Ring /\ (h + k) % Ring \in Slot
        BY <3>1, <1>1, <1>2, WrapAbs
      <3>3. buf[(h + k) % Ring].received
        BY <3>2, <2>4
      <3>4. PICK m \in h .. h + w - 1 :
               m < sent /\ (h + k) % Ring = m % Ring /\ buf[(h + k) % Ring].data = m + 1
        BY <3>2, <3>3, <2>5
      <3>5. m \in Int /\ m - (h + k) < Ring /\ (h + k) - m < Ring
        BY <3>1, <1>1, ArqBounds
      <3>6. m = h + k
        BY <3>1, <3>4, <3>5, SlotInj
      <3>7. QED
        BY <3>2, <3>4, <3>6
    <2>9. Len(out) = n /\ \A k \in 1 .. n : out[k] = h + k
      <3>1. Len(out) = n
        BY <2>1, <2>7
      <3>2. ASSUME NEW k \in 1 .. n PROVE out[k] = h + k
        <4>1. k - 1 \in 0 .. n - 1 /\ h + (k - 1) + 1 = h + k
          BY <2>7, <1>1
        <4>2. out[k] = buf[SlotOf(WrapAdd(r.recv_base, k - 1))].data
          BY <2>1
        <4>3. QED
          BY <4>1, <4>2, <2>8
      <3>3. QED
        BY <3>1, <3>2
    <2>10. h + n <= sent /\ h + n \in Nat
      <3>1. CASE n = 0
        BY <3>1, <1>1
      <3>2. CASE n # 0
        <4>1. n - 1 \in 0 .. n - 1
          BY <3>2, <2>7
        <4>2. h + (n - 1) < sent
          BY <4>1, <2>8
        <4>3. QED
          BY <4>2, <1>1, <2>7
      <3>3. QED
        BY <3>1, <3>2
    <2>11. r2.recv_base = (h + n) % SeqMod
      BY <2>1, <2>7, <1>1, <1>2, WrapAbs
    <2>12. \A i \in Slot : i \in passed <=> \E k \in 0 .. n - 1 : i = (h + k) % Ring
      BY <2>8 DEF passed
    <2>13. ASSUME NEW i \in Slot, r2.rx_buf[i].received
           PROVE  \E m \in h + n .. h + n + w - 1 :
                     m < sent /\ i = m % Ring /\ r2.rx_buf[i].data = m + 1
      <3>1. i \notin passed /\ r2.rx_buf[i] = buf[i]
        BY <2>13, <2>1 DEF NoData
      <3>2. PICK m \in h .. h + w - 1 : m < sent /\ i = m % Ring /\ buf[i].data = m + 1
        BY <3>1, <2>13, <2>5
      <3>3. m >= h + n
        <4>1. SUFFICES ASSUME m < h + n PROVE FALSE
          BY <2>7, <1>1
        <4>2. m - h \in 0 .. n - 1 /\ h + (m - h) = m
          BY <4>1, <2>7, <1>1
        <4>3. QED
          BY <4>2, <3>1, <3>2, <2>12
      <3>4. m \in h + n .. h + n + w - 1
        BY <3>3, <2>7, <1>1
      <3>5. QED
        BY <3>1, <3>2, <3>4
    <2>14. ASSUME NEW m \in Int, ReceivedAt(r, h, m) PROVE ReceivedAt(r2, h + n, m)
      <3>1. CASE m < h
        <4>1. m < h + n
          BY <3>1, <2>7, <1>1
        <4>2. QED
          BY <4>1 DEF ReceivedAt
      <3>2. CASE ~(m < h)
        <4>1. r.rx_buf[m % Ring] = [received |-> TRUE, data |-> m + 1]
          BY <3>2, <2>14 DEF ReceivedAt
        <4>2. m % Ring \in Slot
          BY WrapAbs
        <4>3. buf[m % Ring] = [received |-> TRUE, data |-> m + 1]
          BY <4>1, <4>2, <2>6
        <4>4. CASE m % Ring \notin passed
          BY <4>2, <4>3, <4>4, <2>1 DEF ReceivedAt
        <4>5. CASE m % Ring \in passed
          <5>1. PICK k \in 0 .. n - 1 : m % Ring = (h + k) % Ring
            BY <4>2, <4>5, <2>12
          <5>2. m + 1 = h + k + 1
            BY <5>1, <2>8, <4>3
          <5>3. m < h + n
            BY <5>2, <2>7, <1>1
          <5>4. QED
            BY <5>3 DEF ReceivedAt
        <4>6. QED
          BY <4>4, <4>5
      <3>3. QED
        BY <3>1, <3>2
    <2>15. SenderCoupled(t, r2, sent, h + n, w)
      <3>1. /\ t.send_base = base % SeqMod /\ t.next_seq = sent % SeqMod
            /\ \A m \in base .. sent - 1 :
                 /\ t.tx_buf[m % Ring].seq_num = m % SeqMod
                 /\ t.tx_buf[m % Ring].data = m + 1
                 /\ t.tx_buf[m % Ring].acked => ReceivedAt(r, h, m)
            /\ \A i \in Slot : t.tx_buf[i] # NoSegment => \E m \in base .. sent - 1 : i = m % Ring
        BY DEF Coupled, SenderCoupled, base
      <3>2. \A m \in base .. sent - 1 : t.tx_buf[m % Ring].acked => ReceivedAt(r2, h + n, m)
        BY <3>1, <2>14, <1>1
      <3>3. base <= h + n
        BY <1>1, <2>7
      <3>4. QED
        BY <3>1, <3>2, <3>3, <2>10, <1>1 DEF SenderCoupled, base
    <2>16. Coupled(t, r2, sent, h + Len(out), w)
      BY <2>9, <2>11, <2>13, <2>15 DEF Coupled, ReceiverCoupled
    <2>17. QED
      BY <2>4, <2>9, <2>16, <1>4 DEF r2, out, q
  <1>7. QED
    BY <1>5, <1>6

\* What was sent and not handed up yet is either waiting at the sender or
\* buffered at the receiver: an acknowledgement never covers more than that.
LEMMA CoupledCount ==
    ASSUME NEW D, NEW t \in TxType(D), NEW r, NEW sent \in Int, NEW h \in Int, NEW w \in 1 .. Ring,
           Coupled(t, r, sent, h, w)
    PROVE  sent - h <= Cardinality(Waiting(t)) + Cardinality({i \in Slot : r.rx_buf[i].received})
  <1> DEFINE base == SendBase(t, sent)
             Buf == {i \in Slot : r.rx_buf[i].received}
             Gap == {n % Ring : n \in h .. sent - 1}
  <1>1. /\ base \in Int /\ 0 <= base /\ base <= h /\ h <= sent /\ sent <= base + w
        /\ w \in Int /\ w <= Ring /\ h \in Nat
    BY CoupledCounters, ArqBounds
  <1>2. \A n \in base .. sent - 1 :
            /\ t.tx_buf[n % Ring].seq_num = n % SeqMod
            /\ t.tx_buf[n % Ring].acked => ReceivedAt(r, h, n)
    BY DEF Coupled, SenderCoupled
  <1>3. IsFiniteSet(Slot)
    BY ArqBounds, FS_Interval DEF Slot
  <1>4. IsFiniteSet(Waiting(t)) /\ IsFiniteSet(Buf) /\ Waiting(t) \subseteq Slot
    <2>1. Waiting(t) \subseteq Slot /\ Buf \subseteq Slot
      BY DEF Waiting
    <2>2. QED
      BY <2>1, <1>3, FS_Subset
  <1>5. Gap \subseteq Waiting(t) \cup Buf
    <2>1. ASSUME NEW n \in h .. sent - 1 PROVE n % Ring \in Waiting(t) \cup Buf
      <3>1. n \in Int /\ n \in base .. sent - 1 /\ ~(n < h)
        BY <1>1
      <3>2. n % Ring \in Slot
        BY <3>1, WrapAbs
      <3>3. t.tx_buf[n % Ring] # NoSegment
        <4>1. n % SeqMod # SeqMod
          BY <3>1, DivMod, ArqBounds
        <4>2. QED
          BY <4>1, <3>1, <1>2 DEF NoSegment
      <3>4. t.tx_buf[n % Ring].acked => r.rx_buf[n % Ring].received
        <4>1. t.tx_buf[n % Ring].acked => ReceivedAt(r, h, n)
          BY <3>1, <1>2
        <4>2. ReceivedAt(r, h, n) => r.rx_buf[n % Ring] = [received |-> TRUE, data |-> n + 1]
          BY <3>1 DEF ReceivedAt
        <4>3. [received |-> TRUE, data |-> n + 1].received
          OBVIOUS
        <4>4. QED
          BY <4>1, <4>2, <4>3
      <3>5. QED
        BY <3>2, <3>3, <3>4 DEF Waiting
    <2>2. QED
      BY <2>1
  <1>6. IsFiniteSet(Gap) /\ Cardinality(Gap) = sent - h
    <2> DEFINE f == [n \in h .. sent - 1 |-> n % Ring]
    <2>1. IsFiniteSet(h .. sent - 1) /\ Cardinality(h .. sent - 1) = sent - h
      <3>1. /\ IsFiniteSet(h .. sent - 1)
            /\ Cardinality(h .. sent - 1) =
                  IF h > sent - 1 THEN 0 ELSE (sent - 1) - h + 1
        <4>1. h \in Int /\ sent - 1 \in Int
          OBVIOUS
        <4>2. QED
          BY <4>1, FS_Interval, Zenon
      <3>2. QED
        BY <3>1, <1>1
    <2>2. f \in Surjection(h .. sent - 1, Gap) /\ f \in Injection(h .. sent - 1, Gap)
      <3>1. f \in [h .. sent - 1 -> Gap] /\ DOMAIN f = h .. sent - 1
        OBVIOUS
      <3>2. ASSUME NEW a \in h .. sent - 1, NEW b \in h .. sent - 1, f[a] = f[b] PROVE a = b
        <4>1. a \in Int /\ b \in Int /\ a - b < Ring /\ b - a < Ring /\ a % Ring = b % Ring
          <5>1. f[a] = a % Ring /\ f[b] = b % Ring
            OBVIOUS
          <5>2. a \in Int /\ b \in Int /\ a - b < Ring /\ b - a < Ring
            <6>1. h \in Int /\ a \in Int /\ b \in Int /\ h <= a /\ a < sent /\ h <= b /\ b < sent
              BY <1>1
            <6>2. sent - h <= Ring /\ Ring \in Int
              BY <1>1, ArqBounds
            <6>3. QED
              BY <6>1, <6>2
          <5>3. QED
            BY <5>1, <5>2, <3>2
        <4>2. QED
          BY <4>1, SlotInj
      <3>3. \A g \in Gap : \E a \in h .. sent - 1 : f[a] = g
        OBVIOUS
      <3> HIDE DEF f, Gap
      <3>4. QED
        BY <3>1, <3>2, <3>3 DEF Surjection, Injection, IsInjective
    <2> HIDE DEF f, Gap
    <2>3. QED
      BY <2>1, <2>2, FS_Surjection
  <1> HIDE DEF Gap, Buf
  <1>7. Cardinality(Gap) <= Cardinality(Waiting(t) \cup Buf)
    <2>1. IsFiniteSet(Waiting(t) \cup Buf)
      BY <1>4, FS_Union
    <2>2. QED
      BY <2>1, <1>5, FS_Subset
  <1>8. Cardinality(Waiting(t) \cup Buf) <= Cardinality(Waiting(t)) + Cardinality(Buf)
    <2>1. /\ Cardinality(Waiting(t) \cup Buf) =
                Cardinality(Waiting(t)) + Cardinality(Buf) - Cardinality(Waiting(t) \cap Buf)
          /\ IsFiniteSet(Waiting(t) \cap Buf) /\ IsFiniteSet(Waiting(t) \cup Buf)
      BY <1>4, FS_Union, FS_Intersection
    <2>2. /\ Cardinality(Waiting(t)) \in Nat /\ Cardinality(Buf) \in Nat
          /\ Cardinality(Waiting(t) \cap Buf) \in Nat
      BY <2>1, <1>4, FS_CardinalityType
    <2>3. QED
      BY <2>1, <2>2
  <1>9. /\ Cardinality(Waiting(t)) \in Nat /\ Cardinality(Buf) \in Nat
        /\ Cardinality(Waiting(t) \cup Buf) \in Nat
    BY <1>4, FS_Union, FS_CardinalityType
  <1>10. QED
    BY <1>6, <1>7, <1>8, <1>9, <1>1 DEF Buf

-----------------------------------------------------------------------------
(* Orders. *)

\* Every set of sequence numbers can be listed by age, so the order of the
\* retransmissions exists.
LEMMA OrderExists ==
    ASSUME NEW b \in Int, NEW S \in SUBSET SeqNum
    PROVE  /\ Cardinality(S) \in Nat
           /\ \E o \in [1 .. Cardinality(S) -> S] :
                 \A i, j \in DOMAIN o : i < j => WrapSub(o[i], b) < WrapSub(o[j], b)
  <1> DEFINE Listed(T) == \E o \in [1 .. Cardinality(T) -> T] :
                 \A i, j \in DOMAIN o : i < j => WrapSub(o[i], b) < WrapSub(o[j], b)
             Bad == {m \in Nat : \E T \in SUBSET SeqNum : Cardinality(T) = m /\ ~Listed(T)}
  <1>1. \A T \in SUBSET SeqNum : IsFiniteSet(T) /\ Cardinality(T) \in Nat
    <2>1. IsFiniteSet(SeqNum)
      BY ArqAssumption, FS_Interval DEF SeqNum
    <2>2. QED
      BY <2>1, FS_Subset, FS_CardinalityType
  <1>2. \A q \in SeqNum : WrapSub(q, b) \in SeqNum /\ WrapSub(q, b) \in Int
    <2>1. ASSUME NEW q \in SeqNum PROVE WrapSub(q, b) \in SeqNum
      <3>1. q \in Int
        BY DEF SeqNum
      <3>2. QED
        BY <3>1, WrapType
    <2>2. SeqNum \subseteq Int
      BY DEF SeqNum
    <2>3. QED
      BY <2>1, <2>2
  <1>3. ASSUME NEW p \in SeqNum, NEW q \in SeqNum, WrapSub(p, b) = WrapSub(q, b)
        PROVE  p = q
    <2>1. p - b \in Int /\ q - b \in Int /\ SeqMod \in Nat \ {0} /\ p \in Int /\ q \in Int
      BY ArqAssumption DEF SeqNum
    <2>2. (p - b) - (q - b) < SeqMod /\ (q - b) - (p - b) < SeqMod
      BY ArqAssumption DEF SeqNum
    <2>3. p - b = q - b
      BY <2>1, <2>2, <1>3, ModInj DEF WrapSub
    <2>4. QED
      BY <2>1, <2>3
  <1>4. ASSUME Bad # {} PROVE FALSE
    <2> DEFINE m == Min(Bad)
    <2>1. m \in Bad /\ \A y \in Bad : m <= y
      BY <1>4, MinNat
    <2>2. PICK T \in SUBSET SeqNum : Cardinality(T) = m /\ ~Listed(T)
      BY <2>1
    <2>3. CASE T = {}
      <3>1. Cardinality(T) = 0
        BY <2>3, FS_EmptySet
      <3>2. 1 .. Cardinality(T) = {}
        BY <3>1
      <3>3. [i \in {} |-> 0] \in [1 .. Cardinality(T) -> T]
        BY <3>2
      <3>4. QED
        BY <3>3, <2>2
    <2>4. CASE T # {}
      <3> DEFINE Gap == {SeqMod - WrapSub(q, b) : q \in T}
      <3>1. Gap \in SUBSET Nat /\ Gap # {}
        <4>1. \A v \in SeqNum : SeqMod - v \in Nat
          BY ArqAssumption DEF SeqNum
        <4>2. QED
          BY <4>1, <1>2, <2>4
      <3>2. Min(Gap) \in Gap /\ \A y \in Gap : Min(Gap) <= y
        BY <3>1, MinNat
      <3>3. PICK x \in T : Min(Gap) = SeqMod - WrapSub(x, b)
        BY <3>2
      <3>4. ASSUME NEW q \in T \ {x} PROVE WrapSub(q, b) < WrapSub(x, b)
        <4>1. SeqMod - WrapSub(x, b) <= SeqMod - WrapSub(q, b)
          BY <3>2, <3>3
        <4>2. WrapSub(q, b) # WrapSub(x, b)
          BY <1>3
        <4>3. QED
          BY <4>1, <4>2, <1>2, ArqAssumption
      <3> DEFINE R == T \ {x}
      <3>5. Cardinality(R) = m - 1 /\ R \in SUBSET SeqNum /\ Cardinality(R) \in Nat
        BY <1>1, <2>2, FS_RemoveElement
      <3>6. m \in Nat /\ m - 1 \notin Bad
        BY <2>1
      <3>7. Listed(R)
        <4>1. m - 1 \in Nat
          BY <3>5
        <4> HIDE DEF Listed, m
        <4>2. QED
          BY <4>1, <3>5, <3>6
      <3>8. PICK o \in [1 .. Cardinality(R) -> R] :
              \A i, j \in DOMAIN o : i < j => WrapSub(o[i], b) < WrapSub(o[j], b)
        BY <3>7
      <3> DEFINE o2 == [i \in 1 .. m |-> IF i = m THEN x ELSE o[i]]
      <3> HIDE DEF m, R
      <3>9. \A i \in 1 .. m : i # m => i \in 1 .. Cardinality(R) /\ o[i] \in R /\ o2[i] = o[i]
        BY <3>5, <3>6
      <3>10. m \in 1 .. m => o2[m] = x
        OBVIOUS
      <3> HIDE DEF o2
      <3>11. R = T \ {x}
        BY DEF R
      <3>12. o2 \in [1 .. Cardinality(T) -> T] /\ DOMAIN o2 = 1 .. m
        BY <3>9, <3>10, <3>11, <2>2 DEF o2
      <3>13. ASSUME NEW i \in 1 .. m, NEW j \in 1 .. m, i < j
             PROVE  WrapSub(o2[i], b) < WrapSub(o2[j], b)
        <4>1. i # m
          BY <3>6, <3>13
        <4>2. CASE j = m
          BY <4>1, <4>2, <3>4, <3>9, <3>10, <3>11
        <4>3. CASE j # m
          BY <4>1, <4>3, <3>8, <3>9, <3>13
        <4>4. QED
          BY <4>2, <4>3
      <3>14. QED
        BY <3>12, <3>13, <2>2
    <2>5. QED
      BY <2>3, <2>4
  <1>5. Listed(S)
    BY <1>1, <1>4
  <1>6. QED
    BY <1>1, <1>5

=============================================================================
