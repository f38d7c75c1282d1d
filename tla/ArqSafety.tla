----------------------------- MODULE ArqSafety ------------------------------
(***************************************************************************)
(* The safety theorems of ArqChannel: IndInv is inductive, so delivery is  *)
(* exactly once and in order, no acknowledgement is believed early, and    *)
(* every step is a step of ReliableFifo, for every sequence space, ring,   *)
(* window, retry budget and channel lag that satisfy the assumptions.      *)
(***************************************************************************)
EXTENDS ArqChannel, ArqLemmas

-----------------------------------------------------------------------------
(* Type correctness of the composed system. *)

\* No step of the sender, the receiver or the channel leaves the types.
LEMMA TypeStep ==
    ASSUME TypeOK, [Next]_vars
    PROVE  TypeOK'
  <1>1. /\ tx \in TxType(Payload) /\ rx \in RxType(Payload)
        /\ sent \in 0 .. MaxSegments /\ delivered \in Seq(Payload)
        /\ data \subseteq DataFrame /\ acks \subseteq AckFrame /\ failed \in BOOLEAN
    BY DEF TypeOK
  <1>2. CASE Send
    <2>1. sent + 1 \in Payload /\ sent' \in 0 .. MaxSegments
      BY <1>1, <1>2, ChannelAssumption DEF Send, Payload
    <2>2. CountMax >= 1
      BY ArqAssumption, ChannelAssumption
    <2>3. tx' \in TxType(Payload)
      BY <1>1, <1>2, <2>1, <2>2, TxSendType DEF Send
    <2>4. tx.next_seq \in SeqNum /\ SlotOf(tx.next_seq) \in Slot
      BY <1>1, WrapType DEF TxType, SeqNum
    <2>5. tx'.tx_buf[SlotOf(tx.next_seq)].data = sent + 1
      BY <1>1, <1>2, <2>4 DEF Send, TxSend, TxType
    <2>6. FrameOf(tx', tx.next_seq) \in DataFrame
      BY <2>1, <2>4, <2>5 DEF FrameOf, DataFrame
    <2>7. QED
      BY <1>1, <1>2, <2>1, <2>3, <2>6 DEF Send, TypeOK
  <1>3. CASE Retransmit
    <2>1. PICK expired \in SUBSET Outstanding(tx) :
             LET seqs == GetRetransmits(tx, expired, MaxRetransmit)
             IN /\ data' = data \cup {FrameOf(tx, s) : s \in seqs}
                /\ tx' = MarkRetransmitted(tx, seqs)
      BY <1>3 DEF Retransmit
    <2> DEFINE seqs == GetRetransmits(tx, expired, MaxRetransmit)
    <2>2. Outstanding(tx) \subseteq SeqNum
      <3>1. tx.send_base \in Int /\ InFlight(tx) \in Int
        BY <1>1, InFlightType DEF TxType, SeqNum
      <3>2. QED
        BY <3>1, WrapType DEF Outstanding
    <2>3. seqs \in SUBSET SeqNum
      BY <2>2 DEF GetRetransmits
    <2>4. tx' \in TxType(Payload)
      BY <1>1, <2>1, <2>3, MarkRetransmittedType
    <2>5. ASSUME NEW s \in seqs PROVE FrameOf(tx, s) \in DataFrame
      <3>1. s \in SeqNum /\ SlotOf(s) \in Slot
        BY <2>3, WrapType DEF SeqNum
      <3>2. tx.tx_buf[SlotOf(s)] \in Segment(Payload)
        BY <1>1, <3>1 DEF GetRetransmits, TxType
      <3>3. QED
        BY <3>1, <3>2 DEF FrameOf, DataFrame, Segment
    <2>6. data' \subseteq DataFrame
      BY <1>1, <2>1, <2>5
    <2>7. QED
      BY <1>1, <1>3, <2>4, <2>6 DEF Retransmit, TypeOK
  <1>4. CASE GiveUp
    BY <1>1, <1>4 DEF GiveUp, TypeOK
  <1>5. CASE ReceiveData
    <2>1. PICK f \in data, again \in BOOLEAN :
             /\ rx' = RxReceive(rx, f.seq, f.data, Window)
             /\ delivered' = delivered \o RxDelivered(rx, f.seq, f.data, Window)
             /\ data' = FreshData(IF again THEN data ELSE data \ {f}, Len(delivered'))
             /\ acks' = acks \cup {[ack_num |-> AckInfo(rx').ack_num,
                                    bitmap |-> AckInfo(rx').bitmap,
                                    at |-> Len(delivered')]}
      BY <1>5 DEF ReceiveData
    <2>2. f.seq \in SeqNum /\ f.data \in Payload
      BY <1>1, <2>1 DEF DataFrame
    <2>3. rx' \in RxType(Payload) /\ RxDelivered(rx, f.seq, f.data, Window) \in Seq(Payload)
      BY <1>1, <2>1, <2>2, RxReceiveType
    <2>4. delivered' \in Seq(Payload) /\ Len(delivered') \in Nat
      BY <1>1, <2>1, <2>3, ConcatProperties, LenProperties
    <2>5. data' \subseteq DataFrame
      BY <1>1, <2>1 DEF FreshData
    <2>6. [ack_num |-> AckInfo(rx').ack_num, bitmap |-> AckInfo(rx').bitmap,
           at |-> Len(delivered')] \in AckFrame
      BY <2>3, <2>4, AckInfoType DEF AckFrame
    <2>7. acks' \subseteq AckFrame
      BY <1>1, <2>1, <2>6
    <2>8. QED
      BY <1>1, <1>5, <2>3, <2>4, <2>5, <2>7 DEF ReceiveData, TypeOK
  <1>6. CASE ReceiveAck
    <2>1. PICK a \in acks, again \in BOOLEAN :
             /\ tx' = ProcessAck(tx, a.ack_num, a.bitmap)
             /\ acks' = FreshAcks(IF again THEN acks ELSE acks \ {a}, sent - InFlight(tx'))
      BY <1>6 DEF ReceiveAck
    <2>2. a.ack_num \in SeqNum /\ a.bitmap \in SUBSET Nat
      BY <1>1, <2>1 DEF AckFrame
    <2>3. tx' \in TxType(Payload)
      BY <1>1, <2>1, <2>2, ProcessAckType
    <2>4. acks' \subseteq AckFrame
      BY <1>1, <2>1 DEF FreshAcks
    <2>5. QED
      BY <1>1, <1>6, <2>3, <2>4 DEF ReceiveAck, TypeOK
  <1>7. CASE Lose
    BY <1>1, <1>7 DEF Lose, TypeOK
  <1>8. CASE UNCHANGED vars
    BY <1>1, <1>8 DEF vars, TypeOK
  <1>9. QED
    BY <1>2, <1>3, <1>4, <1>5, <1>6, <1>7, <1>8 DEF Next

\* The initial state is well typed.
LEMMA TypeInit == Init => TypeOK
  <1>1. 0 \in SeqNum
    BY ArqAssumption DEF SeqNum
  <1>2. 0 \in 0 .. MaxSegments
    BY ChannelAssumption
  <1>3. ArqTxNew \in TxType(Payload) /\ ArqRxNew \in RxType(Payload)
    BY <1>1 DEF ArqTxNew, ArqRxNew, TxType, RxType, RxCell
  <1>4. << >> \in Seq(Payload)
    BY EmptySeq
  <1>5. QED
    BY <1>2, <1>3, <1>4 DEF Init, TypeOK

\* Every variable of ArqChannel keeps its type, whatever the channel does.
THEOREM ChannelTypeOK == Spec => []TypeOK
  BY TypeInit, TypeStep, PTL DEF Spec

-----------------------------------------------------------------------------
(* The constants and the absolute numbers. *)

\* The constants, in the form the arithmetic steps need.
LEMMA Bounds ==
    /\ SeqMod \in Nat \ {0} /\ Ring \in Nat \ {0} /\ Window \in 1 .. Ring /\ MaxLag \in Nat
    /\ MaxLag + 2 * Ring <= SeqMod - 1 /\ 4 * Ring <= SeqMod
    /\ HalfSpace \in Nat /\ 2 * Ring <= HalfSpace
    /\ MaxLag < SeqMod - HalfSpace
    /\ SackRange = Ring - 1
  <1>1. HalfSpace \in Int /\ 2 * HalfSpace <= SeqMod /\ SeqMod <= 2 * HalfSpace + 1
    <2>1. SeqMod \in Nat
      BY ArqAssumption
    <2>2. QED
      BY <2>1, DivMod DEF HalfSpace
  <1>2. QED
    BY <1>1, ArqAssumption, ChannelAssumption DEF ValidWindow

-----------------------------------------------------------------------------
(* What a state with IndInv looks like in plain numbers. *)

\* Typed facts about the counters that every step uses.
LEMMA Counters ==
    ASSUME IndInv
    PROVE  /\ Confirmed \in Int /\ sent \in Int /\ Len(delivered) \in Nat
           /\ 0 <= Confirmed /\ Confirmed <= Len(delivered)
           /\ Len(delivered) <= sent /\ sent <= Confirmed + Window
           /\ InFlight(tx) = sent - Confirmed
           /\ tx \in TxType(Payload) /\ rx \in RxType(Payload)
  <1>1. tx \in TxType(Payload) /\ rx \in RxType(Payload)
    BY DEF IndInv, TypeOK
  <1>2. sent \in Int /\ Len(delivered) \in Nat
    BY LenProperties, ChannelAssumption DEF IndInv, TypeOK
  <1>3. InFlight(tx) \in Int
    BY <1>1, InFlightType DEF SeqNum
  <1>4. QED
    BY <1>1, <1>2, <1>3 DEF IndInv, CursorInv, Confirmed

-----------------------------------------------------------------------------
(* Each action keeps IndInv. *)

\* Submitting a payload: the new segment takes a slot no outstanding one has.
LEMMA SendStep ==
    ASSUME IndInv, Send, TypeOK'
    PROVE  IndInv' /\ Confirmed' = Confirmed
  <1>1. /\ Confirmed \in Int /\ sent \in Int /\ Len(delivered) \in Nat
        /\ 0 <= Confirmed /\ Confirmed <= Len(delivered)
        /\ Len(delivered) <= sent /\ sent <= Confirmed + Window
        /\ InFlight(tx) = sent - Confirmed
        /\ tx \in TxType(Payload)
    BY Counters
  <1>2. sent + 1 <= Confirmed + Window
    BY <1>1, Bounds DEF Send, CanSend
  <1>3. /\ tx.next_seq = sent % SeqMod /\ tx.send_base = Confirmed % SeqMod
        /\ rx.recv_base = Len(delivered) % SeqMod
    BY DEF IndInv, CursorInv
  <1> DEFINE new == [seq_num |-> sent % SeqMod, data |-> sent + 1,
                     transmit_count |-> 1, acked |-> FALSE]
  <1>4. SlotOf(tx.next_seq) = sent % Ring /\ sent % Ring \in Slot
    BY <1>1, <1>3, SlotOfMod, WrapAbs
  <1>5. /\ tx'.next_seq = (sent + 1) % SeqMod /\ tx'.send_base = tx.send_base
        /\ tx'.tx_buf = [tx.tx_buf EXCEPT ![sent % Ring] = new]
    <2>1. tx' = TxSend(tx, sent + 1)
      BY DEF Send
    <2>2. /\ tx'.next_seq = WrapAdd(tx.next_seq, 1) /\ tx'.send_base = tx.send_base
          /\ tx'.tx_buf = [tx.tx_buf EXCEPT ![SlotOf(tx.next_seq)] =
                             [seq_num |-> tx.next_seq, data |-> sent + 1,
                              transmit_count |-> 1, acked |-> FALSE]]
      BY <2>1, <1>1 DEF TxSend, TxType
    <2>3. WrapAdd(tx.next_seq, 1) = (sent + 1) % SeqMod
      BY <1>1, <1>3, WrapAbs
    <2>4. QED
      BY <2>2, <2>3, <1>3, <1>4
  <1>6. /\ sent' = sent + 1 /\ rx' = rx /\ delivered' = delivered /\ acks' = acks
        /\ data' = data \cup {FrameOf(tx', tx.next_seq)}
    BY DEF Send
  <1>7. Confirmed' = Confirmed
    <2>1. InFlight(tx') = (sent + 1) - Confirmed
      <3>1. sent + 1 \in Int /\ Confirmed <= sent + 1 /\ sent + 1 <= Confirmed + Ring
        BY <1>1, <1>2, Bounds
      <3>2. QED
        BY <3>1, <1>1, <1>3, <1>5, InFlightAbs
    <2>2. Confirmed' = sent' - InFlight(tx')
      BY DEF Confirmed, InFlight
    <2>3. QED
      BY <2>1, <2>2, <1>1, <1>6
  <1>8. CursorInv'
    BY <1>1, <1>2, <1>3, <1>5, <1>6, <1>7 DEF CursorInv
  <1>9. \A n \in Int : HasReceived(n)' <=> HasReceived(n)
    BY <1>6 DEF HasReceived
  <1>10. SenderInv'
    <2>1. ASSUME NEW n \in Confirmed .. sent
          PROVE  /\ tx'.tx_buf[n % Ring].seq_num = n % SeqMod
                 /\ tx'.tx_buf[n % Ring].data = n + 1
                 /\ tx'.tx_buf[n % Ring].acked => HasReceived(n)
      <3>1. n \in Int /\ n % Ring \in Slot
        BY <1>1, WrapAbs
      <3>2. CASE n = sent
        BY <3>2, <1>4, <1>5, <1>1 DEF TxType
      <3>3. CASE n # sent
        <4>1. n \in Confirmed .. sent - 1
          BY <1>1, <3>3
        <4>2. n % Ring # sent % Ring
          <5>1. n - sent < Ring /\ sent - n < Ring
            BY <1>1, <1>2, Bounds
          <5>2. QED
            BY <5>1, <1>1, <3>1, <3>3, SlotInj
        <4>3. tx'.tx_buf[n % Ring] = tx.tx_buf[n % Ring]
          BY <4>2, <1>5, <3>1, <1>1 DEF TxType
        <4>4. QED
          BY <4>1, <4>3 DEF IndInv, SenderInv
      <3>4. QED
        BY <3>2, <3>3
    <2>2. ASSUME NEW i \in Slot, tx'.tx_buf[i] # NoSegment
          PROVE  \E n \in Confirmed .. sent : i = n % Ring
      <3>1. CASE i = sent % Ring
        BY <3>1, <1>1
      <3>2. CASE i # sent % Ring
        <4>1. tx'.tx_buf[i] = tx.tx_buf[i]
          BY <3>2, <1>5, <1>1 DEF TxType
        <4>2. PICK n \in Confirmed .. sent - 1 : i = n % Ring
          BY <4>1, <2>2 DEF IndInv, SenderInv
        <4>3. n \in Confirmed .. sent
          BY <1>1
        <4>4. QED
          BY <4>2, <4>3
      <3>3. QED
        BY <3>1, <3>2
    <2>3. sent' - 1 = sent
      BY <1>1, <1>6
    <2>4. \A n \in Confirmed .. sent : n \in Int
      BY <1>1
    <2>5. QED
      BY <2>1, <2>2, <2>3, <2>4, <1>7, <1>9 DEF SenderInv
  <1>11. ReceiverInv'
    <2>1. ASSUME NEW n \in Int, n < sent PROVE n < sent'
      BY <2>1, <1>1, <1>6
    <2>2. \A n \in Len(delivered) .. Len(delivered) + Window - 1 : n \in Int
      BY <1>1, Bounds
    <2>3. QED
      BY <2>1, <2>2, <1>6 DEF IndInv, ReceiverInv
  <1>12. DataFrameInv'
    <2>1. ASSUME NEW f \in data'
          PROVE  f.seq = (f.data - 1) % SeqMod /\ f.data <= sent + 1
                 /\ f.data + MaxLag + Ring > Len(delivered)
      <3>1. CASE f \in data
        <4>1. f.data \in Int
          BY <3>1 DEF IndInv, TypeOK, DataFrame, Payload
        <4>2. QED
          BY <3>1, <4>1, <1>1 DEF IndInv, DataFrameInv
      <3>2. CASE f = FrameOf(tx', tx.next_seq)
        <4>1. f.seq = sent % SeqMod /\ f.data = sent + 1
          BY <3>2, <1>3, <1>4, <1>5, <1>1 DEF FrameOf, TxType
        <4>2. (sent + 1) - 1 = sent
          BY <1>1
        <4>3. QED
          BY <4>1, <4>2, <1>1, Bounds
      <3>3. QED
        BY <3>1, <3>2, <1>6
    <2>2. QED
      BY <2>1, <1>6 DEF DataFrameInv
  <1>13. AckFrameInv'
    <2>1. ASSUME NEW k \in acks, NEW bit \in k.bitmap PROVE k.at + bit + 1 \in Int
      BY DEF IndInv, TypeOK, AckFrame
    <2>2. QED
      BY <2>1, <1>6, <1>7, <1>9 DEF IndInv, AckFrameInv
  <1>14. \A i \in 1 .. Len(delivered') : delivered'[i] = i
    BY <1>6 DEF IndInv
  <1>15. QED
    BY <1>7, <1>8, <1>10, <1>11, <1>12, <1>13, <1>14 DEF IndInv

\* The retransmit poll keys segments that are in the ring, and counts attempts.
LEMMA RetransmitStep ==
    ASSUME IndInv, Retransmit, TypeOK'
    PROVE  IndInv' /\ Confirmed' = Confirmed
  <1>1. /\ Confirmed \in Int /\ sent \in Int /\ Len(delivered) \in Nat
        /\ 0 <= Confirmed /\ Confirmed <= Len(delivered)
        /\ Len(delivered) <= sent /\ sent <= Confirmed + Window
        /\ InFlight(tx) = sent - Confirmed
        /\ tx \in TxType(Payload)
    BY Counters
  <1>2. PICK expired \in SUBSET Outstanding(tx) :
           LET seqs == GetRetransmits(tx, expired, MaxRetransmit)
           IN /\ data' = data \cup {FrameOf(tx, q) : q \in seqs}
              /\ tx' = MarkRetransmitted(tx, seqs)
    BY DEF Retransmit
  <1> DEFINE seqs == GetRetransmits(tx, expired, MaxRetransmit)
  <1>3. ASSUME NEW q \in seqs
        PROVE  \E n \in Confirmed .. sent - 1 : q = n % SeqMod
    <2>1. PICK k \in 0 .. InFlight(tx) - 1 : q = WrapAdd(tx.send_base, k)
      BY DEF GetRetransmits, Outstanding
    <2>2. tx.send_base = Confirmed % SeqMod
      BY DEF IndInv, CursorInv
    <2>3. k \in Int /\ Confirmed + k \in Confirmed .. sent - 1
      BY <1>1
    <2>4. q = (Confirmed + k) % SeqMod
      BY <2>1, <2>2, <2>3, <1>1, WrapAbs
    <2>5. QED
      BY <2>3, <2>4
  <1>4. SeqMod \notin seqs
    <2>1. \A n \in Confirmed .. sent - 1 : n % SeqMod # SeqMod
      BY <1>1, Bounds, DivMod
    <2>2. QED
      BY <2>1, <1>3
  <1> HIDE DEF seqs
  <1>5. /\ tx'.next_seq = tx.next_seq /\ tx'.send_base = tx.send_base
        /\ \A i \in Slot : /\ tx'.tx_buf[i].seq_num = tx.tx_buf[i].seq_num
                           /\ tx'.tx_buf[i].data = tx.tx_buf[i].data
                           /\ tx'.tx_buf[i].acked => tx.tx_buf[i].acked
                           /\ tx'.tx_buf[i] # NoSegment => tx.tx_buf[i] # NoSegment
    <2>1. tx' = MarkRetransmitted(tx, seqs)
      BY <1>2 DEF seqs
    <2>2. /\ tx'.next_seq = tx.next_seq /\ tx'.send_base = tx.send_base
          /\ tx'.tx_buf = [i \in Slot |->
                LET seg == tx.tx_buf[i]
                IN IF seg.seq_num \in seqs /\ ~seg.acked
                     THEN [seg EXCEPT !.transmit_count = IF @ < CountMax THEN @ + 1 ELSE @]
                     ELSE seg]
      BY <2>1, <1>1 DEF MarkRetransmitted, TxType
    <2>3. ASSUME NEW i \in Slot
          PROVE  /\ tx'.tx_buf[i].seq_num = tx.tx_buf[i].seq_num
                 /\ tx'.tx_buf[i].data = tx.tx_buf[i].data
                 /\ tx'.tx_buf[i].acked => tx.tx_buf[i].acked
                 /\ tx'.tx_buf[i] # NoSegment => tx.tx_buf[i] # NoSegment
      <3>1. tx.tx_buf[i] \in Segment(Payload) \cup {NoSegment}
        BY <1>1 DEF TxType
      <3>2. CASE tx.tx_buf[i] = NoSegment
        BY <3>2, <2>2, <1>4 DEF NoSegment
      <3>3. CASE tx.tx_buf[i] \in Segment(Payload) /\ tx.tx_buf[i] # NoSegment
        <4>1. \/ tx'.tx_buf[i] = tx.tx_buf[i]
              \/ \E v : tx'.tx_buf[i] = [tx.tx_buf[i] EXCEPT !.transmit_count = v]
          BY <2>2
        <4>2. QED
          BY <3>3, <4>1 DEF Segment
      <3>4. QED
        BY <3>1, <3>2, <3>3
    <2>4. QED
      BY <2>2, <2>3
  <1>6. sent' = sent /\ rx' = rx /\ delivered' = delivered /\ acks' = acks
    BY DEF Retransmit
  <1>7. Confirmed' = Confirmed
    BY <1>5, <1>6 DEF Confirmed, InFlight
  <1>8. CursorInv'
    BY <1>5, <1>6, <1>7 DEF IndInv, CursorInv
  <1>9. \A n \in Int : HasReceived(n)' <=> HasReceived(n)
    BY <1>6 DEF HasReceived
  <1>10. SenderInv'
    <2>1. \A n \in Confirmed .. sent - 1 : n \in Int /\ n % Ring \in Slot
      BY <1>1, WrapAbs
    <2>2. QED
      BY <2>1, <1>5, <1>6, <1>7, <1>9 DEF IndInv, SenderInv
  <1>11. ReceiverInv'
    BY <1>6 DEF IndInv, ReceiverInv
  <1>12. DataFrameInv'
    <2>1. ASSUME NEW f \in data'
          PROVE  f.seq = (f.data - 1) % SeqMod /\ f.data <= sent
                 /\ f.data + MaxLag + Ring > Len(delivered)
      <3>1. CASE f \in data
        BY <3>1 DEF IndInv, DataFrameInv
      <3>2. CASE f \notin data
        <4>1. PICK q \in seqs : f = FrameOf(tx, q)
          BY <3>2, <1>2 DEF seqs
        <4>2. PICK n \in Confirmed .. sent - 1 : q = n % SeqMod
          BY <1>3
        <4>3. n \in Int /\ SlotOf(q) = n % Ring
          BY <4>2, <1>1, SlotOfMod
        <4>4. tx.tx_buf[n % Ring].data = n + 1
          BY DEF IndInv, SenderInv
        <4>5. f.seq = n % SeqMod /\ f.data = n + 1
          BY <4>1, <4>2, <4>3, <4>4 DEF FrameOf
        <4>6. (n + 1) - 1 = n
          BY <4>3
        <4>7. QED
          BY <4>5, <4>6, <1>1, Bounds
      <3>3. QED
        BY <3>1, <3>2
    <2>2. QED
      BY <2>1, <1>6 DEF DataFrameInv
  <1>13. AckFrameInv'
    <2>1. ASSUME NEW k \in acks, NEW bit \in k.bitmap PROVE k.at + bit + 1 \in Int
      BY DEF IndInv, TypeOK, AckFrame
    <2>2. QED
      BY <2>1, <1>6, <1>7, <1>9 DEF IndInv, AckFrameInv
  <1>14. \A i \in 1 .. Len(delivered') : delivered'[i] = i
    BY <1>6 DEF IndInv
  <1>15. QED
    BY <1>7, <1>8, <1>10, <1>11, <1>12, <1>13, <1>14 DEF IndInv

\* Giving up, losing a frame and stuttering leave both state machines alone.
LEMMA QuietStep ==
    ASSUME IndInv, TypeOK', UNCHANGED << tx, rx, sent, delivered >>,
           data' \subseteq data, acks' \subseteq acks
    PROVE  IndInv' /\ Confirmed' = Confirmed
  <1>1. Confirmed' = Confirmed /\ \A n \in Int : HasReceived(n)' <=> HasReceived(n)
    BY DEF Confirmed, InFlight, HasReceived
  <1>2. CursorInv' /\ ReceiverInv' /\ DataFrameInv'
    BY <1>1 DEF IndInv, CursorInv, ReceiverInv, DataFrameInv
  <1>3. SenderInv'
    <2>1. \A n \in Confirmed .. sent - 1 : n \in Int
      BY Counters
    <2>2. QED
      BY <2>1, <1>1 DEF IndInv, SenderInv
  <1>4. AckFrameInv'
    <2>1. ASSUME NEW k \in acks, NEW bit \in k.bitmap PROVE k.at + bit + 1 \in Int
      BY DEF IndInv, TypeOK, AckFrame
    <2>2. QED
      BY <2>1, <1>1 DEF IndInv, AckFrameInv
  <1>5. QED
    BY <1>1, <1>2, <1>3, <1>4 DEF IndInv

\* process_ack moves send_base exactly to the point the receiver had reached
\* when it built the ACK, and not at all when that lies behind: the half-space
\* test tells a late ACK from a new one.
LEMMA AdvanceAbs ==
    ASSUME IndInv, NEW k \in acks
    PROVE  CumulativeAdvance(tx, k.ack_num) = IF k.at > Confirmed THEN k.at - Confirmed ELSE 0
  <1>1. /\ Confirmed \in Int /\ Len(delivered) \in Nat
        /\ Confirmed <= Len(delivered) /\ Len(delivered) <= Confirmed + Window
    BY Counters, Bounds
  <1>2. k.at \in Int /\ k.at <= Len(delivered) /\ k.at + MaxLag >= Confirmed
    BY DEF IndInv, TypeOK, AckFrame, AckFrameInv
  <1>3. WrapSub(k.ack_num, tx.send_base) = (k.at - Confirmed) % SeqMod
    <2>1. k.ack_num = k.at % SeqMod /\ tx.send_base = Confirmed % SeqMod
      BY DEF IndInv, AckFrameInv, CursorInv
    <2>2. QED
      BY <2>1, <1>1, <1>2, ModSub, Bounds DEF WrapSub
  <1>4. CASE k.at >= Confirmed
    <2>1. k.at - Confirmed \in 0 .. SeqMod - 1 /\ k.at - Confirmed <= HalfSpace
      BY <1>1, <1>2, <1>4, Bounds
    <2>2. (k.at - Confirmed) % SeqMod = k.at - Confirmed
      BY <2>1, ModSmall, Bounds
    <2>3. WrapSub(k.ack_num, tx.send_base) = k.at - Confirmed
      BY <1>3, <2>2
    <2>4. CumulativeAdvance(tx, k.ack_num) = k.at - Confirmed
      BY <2>1, <2>3, Bounds DEF CumulativeAdvance
    <2>5. QED
      BY <2>4, <1>1, <1>2, <1>4
  <1>5. CASE k.at < Confirmed
    <2>1. k.at - Confirmed \in -SeqMod .. -1 /\ (k.at - Confirmed) + SeqMod > HalfSpace
      BY <1>1, <1>2, <1>5, Bounds
    <2>2. (k.at - Confirmed) % SeqMod = (k.at - Confirmed) + SeqMod
      BY <2>1, ModSmall, Bounds
    <2>3. WrapSub(k.ack_num, tx.send_base) = (k.at - Confirmed) + SeqMod
      BY <1>3, <2>2
    <2>4. CumulativeAdvance(tx, k.ack_num) = 0
      BY <2>1, <2>3, Bounds DEF CumulativeAdvance
    <2>5. QED
      BY <2>4, <1>1, <1>2, <1>5
  <1>6. QED
    BY <1>1, <1>2, <1>4, <1>5

\* An acknowledgement: what it passes was handed up, what it marks was received.
LEMMA ReceiveAckStep ==
    ASSUME IndInv, ReceiveAck, TypeOK'
    PROVE  IndInv' /\ Confirmed' \in Int /\ Confirmed' >= Confirmed
  <1>1. /\ Confirmed \in Int /\ sent \in Int /\ Len(delivered) \in Nat
        /\ 0 <= Confirmed /\ Confirmed <= Len(delivered)
        /\ Len(delivered) <= sent /\ sent <= Confirmed + Window
        /\ InFlight(tx) = sent - Confirmed
        /\ tx \in TxType(Payload)
    BY Counters
  <1>2. PICK k \in acks, again \in BOOLEAN :
           /\ tx' = ProcessAck(tx, k.ack_num, k.bitmap)
           /\ acks' = FreshAcks(IF again THEN acks ELSE acks \ {k}, sent - InFlight(tx'))
    BY DEF ReceiveAck
  <1>3. /\ k.at \in Int /\ k.at <= Len(delivered) /\ k.at + MaxLag >= Confirmed
        /\ k.bitmap \subseteq 0 .. SackRange - 1 /\ k.ack_num \in SeqNum
    BY DEF IndInv, TypeOK, AckFrame, AckFrameInv
  <1>a. k.ack_num = k.at % SeqMod /\ tx.send_base = Confirmed % SeqMod /\ tx.next_seq = sent % SeqMod
    BY DEF IndInv, AckFrameInv, CursorInv
  <1> DEFINE adv == CumulativeAdvance(tx, k.ack_num)
             base == Confirmed + adv
             passed == {SlotOf(WrapAdd(tx.send_base, j)) : j \in 0 .. adv - 1}
             sacked == {WrapAdd(k.ack_num, bit + 1) : bit \in k.bitmap}
  <1>4. /\ adv \in Nat /\ base \in Int /\ Confirmed <= base /\ base <= Len(delivered)
        /\ k.at <= base
    BY <1>1, <1>3, AdvanceAbs
  <1>5. /\ tx'.next_seq = tx.next_seq /\ tx'.send_base = WrapAdd(tx.send_base, adv)
        /\ tx'.tx_buf = [i \in Slot |->
              IF i \in passed THEN NoSegment
              ELSE IF tx.tx_buf[i].seq_num \in sacked THEN [tx.tx_buf[i] EXCEPT !.acked = TRUE]
              ELSE tx.tx_buf[i]]
    BY <1>2, <1>1 DEF ProcessAck, TxType
  <1>6. \A i \in Slot : i \in passed <=> \E n \in Confirmed .. base - 1 : i = n % Ring
    <2>1. ASSUME NEW j \in 0 .. adv - 1
          PROVE  /\ SlotOf(WrapAdd(tx.send_base, j)) = (Confirmed + j) % Ring
                 /\ Confirmed + j \in Confirmed .. base - 1
      <3>1. j \in Int /\ Confirmed + j \in Confirmed .. base - 1
        BY <1>1, <1>4
      <3>2. SlotOf(WrapAdd(tx.send_base, j)) = (Confirmed + j) % Ring
        BY <3>1, <1>1, <1>a, WrapAbs
      <3>3. QED
        BY <3>1, <3>2
    <2>2. ASSUME NEW n \in Confirmed .. base - 1
          PROVE  \E j \in 0 .. adv - 1 : n = Confirmed + j
      <3>1. n - Confirmed \in 0 .. adv - 1 /\ n = Confirmed + (n - Confirmed)
        BY <1>1, <1>4
      <3>2. QED
        BY <3>1
    <2> HIDE DEF adv, base
    <2>3. QED
      BY <2>1, <2>2
  <1>7. ASSUME NEW n \in Confirmed .. sent - 1, n % SeqMod \in sacked
        PROVE  HasReceived(n)
    <2>1. PICK bit \in k.bitmap : n % SeqMod = WrapAdd(k.ack_num, bit + 1)
      BY <1>7
    <2>2. bit \in Int /\ 0 <= bit /\ bit <= Ring - 2
      BY <1>3, Bounds
    <2>3. n % SeqMod = (k.at + (bit + 1)) % SeqMod
      <3>1. bit + 1 \in Int /\ k.at \in Int
        BY <2>2, <1>3
      <3>2. WrapAdd(k.at % SeqMod, bit + 1) = (k.at + (bit + 1)) % SeqMod
        BY <3>1, WrapAbs
      <3>3. QED
        BY <3>2, <2>1, <1>a
    <2>4. n - (k.at + (bit + 1)) < SeqMod /\ (k.at + (bit + 1)) - n < SeqMod
      <3>1. n \in Int /\ Confirmed <= n /\ n < Confirmed + Ring
        BY <1>1, Bounds
      <3>2. k.at \in Int /\ k.at <= Confirmed + Ring /\ k.at >= Confirmed - MaxLag
        BY <1>1, <1>3, Bounds
      <3>3. bit + 1 \in Int /\ 1 <= bit + 1 /\ bit + 1 < Ring
        BY <2>2, Bounds
      <3>4. QED
        BY <3>1, <3>2, <3>3, <1>1, Bounds
    <2>5. n = k.at + (bit + 1)
      <3>1. n \in Int /\ k.at + (bit + 1) \in Int
        BY <1>1, <1>3, <2>2
      <3>2. QED
        BY <3>1, <2>3, <2>4, ModInj, Bounds
    <2>6. n = k.at + bit + 1
      BY <2>2, <2>5, <1>3
    <2>7. QED
      BY <2>6 DEF IndInv, AckFrameInv
  <1> HIDE DEF adv, base, passed, sacked
  <1>8. sent' = sent /\ rx' = rx /\ delivered' = delivered /\ data' = data
    BY DEF ReceiveAck
  <1>9. tx'.send_base = base % SeqMod
    BY <1>1, <1>a, <1>4, <1>5, WrapAbs DEF base
  <1>10. InFlight(tx') = sent - base
    <2>1. base <= sent /\ sent <= base + Ring
      BY <1>1, <1>4, Bounds
    <2>2. QED
      BY <2>1, <1>1, <1>a, <1>4, <1>5, <1>9, InFlightAbs
  <1>11. Confirmed' = base
    <2>1. Confirmed' = sent' - InFlight(tx')
      BY DEF Confirmed, InFlight
    <2>2. QED
      BY <2>1, <1>10, <1>8, <1>1, <1>4
  <1>12. CursorInv'
    <2>1. 0 <= base /\ base <= Len(delivered) /\ Len(delivered) <= sent /\ sent <= base + Window
      BY <1>1, <1>4, Bounds
    <2>2. rx.recv_base = Len(delivered) % SeqMod
      BY DEF IndInv, CursorInv
    <2>3. QED
      BY <2>1, <2>2, <1>a, <1>5, <1>8, <1>9, <1>11 DEF CursorInv
  <1>13. \A n \in Int : HasReceived(n)' <=> HasReceived(n)
    BY <1>8 DEF HasReceived
  <1>14. SenderInv'
    <2>1. ASSUME NEW n \in base .. sent - 1
          PROVE  /\ tx'.tx_buf[n % Ring].seq_num = n % SeqMod
                 /\ tx'.tx_buf[n % Ring].data = n + 1
                 /\ tx'.tx_buf[n % Ring].acked => HasReceived(n)
      <3>1. n \in Int /\ n \in Confirmed .. sent - 1 /\ n % Ring \in Slot
        <4>1. n \in Int /\ n \in Confirmed .. sent - 1
          BY <1>1, <1>4
        <4>2. QED
          BY <4>1, WrapAbs
      <3>2. n % Ring \notin passed
        <4>1. ASSUME NEW j \in Confirmed .. base - 1, n % Ring = j % Ring PROVE FALSE
          <5>1. j \in Int /\ n - j < Ring /\ j - n < Ring /\ n # j
            BY <1>1, <1>4, <3>1, Bounds
          <5>2. QED
            BY <5>1, <4>1, <3>1, SlotInj
        <4>2. QED
          BY <4>1, <3>1, <1>6
      <3>3. /\ tx.tx_buf[n % Ring].seq_num = n % SeqMod
            /\ tx.tx_buf[n % Ring].data = n + 1
            /\ tx.tx_buf[n % Ring].acked => HasReceived(n)
        BY <3>1 DEF IndInv, SenderInv
      <3>4. tx.tx_buf[n % Ring] \in Segment(Payload)
        <4>1. n % SeqMod # SeqMod
          BY <3>1, Bounds, DivMod
        <4>2. tx.tx_buf[n % Ring] # NoSegment
          BY <4>1, <3>3 DEF NoSegment
        <4>3. QED
          BY <4>2, <3>1, <1>1 DEF TxType
      <3>5. CASE n % SeqMod \in sacked
        <4>1. HasReceived(n)
          BY <3>5, <3>1, <1>7
        <4>2. tx'.tx_buf[n % Ring] = [tx.tx_buf[n % Ring] EXCEPT !.acked = TRUE]
          BY <3>1, <3>2, <3>3, <3>5, <1>5
        <4>3. QED
          BY <4>1, <4>2, <3>3, <3>4 DEF Segment
      <3>6. CASE n % SeqMod \notin sacked
        BY <3>1, <3>2, <3>3, <3>6, <1>5
      <3>7. QED
        BY <3>5, <3>6
    <2>2. ASSUME NEW i \in Slot, tx'.tx_buf[i] # NoSegment
          PROVE  \E n \in base .. sent - 1 : i = n % Ring
      <3>1. i \notin passed
        BY <2>2, <1>5
      <3>2. tx.tx_buf[i] # NoSegment
        <4>1. SUFFICES ASSUME tx.tx_buf[i] = NoSegment PROVE FALSE
          OBVIOUS
        <4>2. SeqMod \notin sacked
          <5>1. \A bit \in k.bitmap : WrapAdd(k.ack_num, bit + 1) \in SeqNum
            <6>1. k.ack_num \in Int /\ \A bit \in k.bitmap : bit + 1 \in Int
              BY <1>3 DEF SeqNum
            <6>2. QED
              BY <6>1, WrapType
          <5>2. QED
            BY <5>1, Bounds DEF sacked, SeqNum
        <4>3. QED
          BY <4>1, <4>2, <3>1, <1>5, <2>2 DEF NoSegment
      <3>3. PICK n \in Confirmed .. sent - 1 : i = n % Ring
        BY <3>2 DEF IndInv, SenderInv
      <3>4. n \notin Confirmed .. base - 1
        BY <3>1, <3>3, <1>6
      <3>5. n \in base .. sent - 1
        BY <3>4, <1>1, <1>4
      <3>6. QED
        BY <3>3, <3>5
    <2>3. \A n \in base .. sent - 1 : n \in Int
      BY <1>1, <1>4
    <2>4. QED
      BY <2>1, <2>2, <2>3, <1>8, <1>11, <1>13 DEF SenderInv
  <1>15. ReceiverInv' /\ DataFrameInv'
    BY <1>8 DEF IndInv, ReceiverInv, DataFrameInv
  <1>16. AckFrameInv'
    <2>1. ASSUME NEW m \in acks'
          PROVE  m \in acks /\ m.at + MaxLag >= base
      <3>1. sent - InFlight(tx') = base
        BY <1>1, <1>4, <1>10
      <3>2. QED
        BY <3>1, <1>2 DEF FreshAcks
    <2>2. ASSUME NEW m \in acks, NEW bit \in m.bitmap PROVE m.at + bit + 1 \in Int
      BY DEF IndInv, TypeOK, AckFrame
    <2>3. QED
      BY <2>1, <2>2, <1>8, <1>11, <1>13 DEF IndInv, AckFrameInv
  <1>17. \A i \in 1 .. Len(delivered') : delivered'[i] = i
    BY <1>8 DEF IndInv
  <1>18. QED
    BY <1>4, <1>11, <1>12, <1>14, <1>15, <1>16, <1>17 DEF IndInv

\* A frame the receiver's window test accepts is a segment of the window: a
\* late copy of an old one, or one a wrap away, is refused.
LEMMA AcceptedIsInWindow ==
    ASSUME IndInv, NEW f \in data, InRxWindow(rx, f.seq, Window)
    PROVE  f.data - 1 \in Len(delivered) .. Len(delivered) + Window - 1 /\ f.data <= sent
  <1>1. /\ Confirmed \in Int /\ sent \in Int /\ Len(delivered) \in Nat
        /\ Confirmed <= Len(delivered) /\ sent <= Confirmed + Window
    BY Counters
  <1>2. f.data \in Int /\ f.data <= sent /\ f.data + MaxLag + Ring > Len(delivered)
    BY DEF IndInv, TypeOK, DataFrame, Payload, DataFrameInv
  <1> DEFINE d == (f.data - 1) - Len(delivered)
  <1>3. WrapSub(f.seq, rx.recv_base) = d % SeqMod
    <2>1. f.seq = (f.data - 1) % SeqMod /\ rx.recv_base = Len(delivered) % SeqMod
      BY DEF IndInv, DataFrameInv, CursorInv
    <2>2. f.data - 1 \in Int /\ Len(delivered) \in Int
      BY <1>1, <1>2
    <2>3. QED
      BY <2>1, <2>2, ModSub, Bounds DEF WrapSub
  <1>4. d % SeqMod < Window
    BY <1>3 DEF InRxWindow
  <1>5. d \in Int /\ d < Ring /\ d >= -(MaxLag + Ring)
    BY <1>1, <1>2, Bounds
  <1> HIDE DEF d
  <1>6. d >= 0
    <2>1. SUFFICES ASSUME d < 0 PROVE FALSE
      BY <1>5
    <2>2. d \in -SeqMod .. -1
      BY <2>1, <1>5, Bounds
    <2>3. d % SeqMod = d + SeqMod
      BY <2>2, <1>5, ModSmall, Bounds
    <2>4. QED
      BY <2>3, <1>4, <1>5, Bounds
  <1>7. d < Window
    <2>1. d \in 0 .. SeqMod - 1
      BY <1>5, <1>6, Bounds
    <2>2. d % SeqMod = d
      BY <2>1, <1>5, ModSmall, Bounds
    <2>3. QED
      BY <2>2, <1>4
  <1>8. QED
    BY <1>1, <1>2, <1>5, <1>6, <1>7, Bounds DEF d

\* What ArqRx::receive does, in absolute numbers: some run of segments is
\* handed up, the ring keeps the rest of the window, nothing received is lost.
LEMMA ReceiveAbs ==
    ASSUME IndInv, NEW f \in data,
           rx' = RxReceive(rx, f.seq, f.data, Window),
           delivered' = delivered \o RxDelivered(rx, f.seq, f.data, Window),
           sent' = sent
    PROVE  /\ Len(delivered') \in Nat /\ Len(delivered) <= Len(delivered') /\ Len(delivered') <= sent
           /\ rx'.recv_base = Len(delivered') % SeqMod
           /\ \A i \in 1 .. Len(delivered') : delivered'[i] = i
           /\ ReceiverInv'
           /\ \A n \in Int : HasReceived(n) => HasReceived(n)'
  <1>1. /\ Confirmed \in Int /\ sent \in Int /\ Len(delivered) \in Nat
        /\ Len(delivered) <= sent /\ rx \in RxType(Payload)
    BY Counters
  <1>2. delivered \in Seq(Payload) /\ f.data \in Payload /\ f.seq \in SeqNum /\ f.data \in Int
    BY DEF IndInv, TypeOK, DataFrame, Payload
  <1>3. rx.recv_base = Len(delivered) % SeqMod /\ f.seq = (f.data - 1) % SeqMod
    BY DEF IndInv, CursorInv, DataFrameInv
  <1>4. CASE ~InRxWindow(rx, f.seq, Window)
    <2>1. rx' = rx
      BY <1>4 DEF RxReceive
    <2>2. delivered' = delivered
      BY <1>4, <1>2, ConcatEmptySeq DEF RxDelivered
    <2>3. QED
      BY <2>1, <2>2, <1>1, <1>3 DEF IndInv, ReceiverInv, HasReceived
  <1>5. CASE InRxWindow(rx, f.seq, Window)
    <2> DEFINE h == Len(delivered)
               buf == Buffered(rx, f.seq, f.data)
               n == RunLength(rx.recv_base, buf)
               passed == {SlotOf(WrapAdd(rx.recv_base, k)) : k \in 0 .. n - 1}
               out == [k \in 1 .. n |-> buf[SlotOf(WrapAdd(rx.recv_base, k - 1))].data]
    <2>1. /\ rx' = [recv_base |-> WrapAdd(rx.recv_base, n),
                    rx_buf |-> [i \in Slot |-> IF i \in passed THEN NoData ELSE buf[i]]]
          /\ delivered' = delivered \o out
      BY <1>5 DEF RxReceive, RxDelivered
    <2>2. f.data - 1 \in h .. h + Window - 1 /\ f.data <= sent
      BY <1>5, AcceptedIsInWindow
    <2>3. buf \in [Slot -> RxCell(Payload)]
      BY <1>1, <1>2, BufferedType
    <2>4. SlotOf(f.seq) = (f.data - 1) % Ring /\ (f.data - 1) % Ring \in Slot
      <3>1. f.data - 1 \in Int
        BY <1>2
      <3>2. QED
        BY <3>1, <1>3, SlotOfMod, WrapAbs
    <2>5. buf = [rx.rx_buf EXCEPT ![(f.data - 1) % Ring] =
                    IF @.received THEN @ ELSE [received |-> TRUE, data |-> f.data]]
      BY <2>4 DEF Buffered
    <2>6. ASSUME NEW i \in Slot, buf[i].received
          PROVE  \E m \in h .. h + Window - 1 : m < sent /\ i = m % Ring /\ buf[i].data = m + 1
      <3>1. CASE buf[i] = rx.rx_buf[i]
        BY <3>1, <2>6 DEF IndInv, ReceiverInv
      <3>2. CASE buf[i] # rx.rx_buf[i]
        <4>1. i = (f.data - 1) % Ring /\ buf[i] = [received |-> TRUE, data |-> f.data]
          BY <3>2, <2>5, <2>4, <1>1 DEF RxType
        <4>2. f.data - 1 < sent /\ (f.data - 1) + 1 = f.data
          BY <2>2, <1>1, <1>2
        <4>3. buf[i].data = (f.data - 1) + 1
          BY <4>1, <4>2
        <4>4. QED
          BY <4>1, <4>2, <4>3, <2>2
      <3>3. QED
        BY <3>1, <3>2
    <2>7. ASSUME NEW i \in Slot, rx.rx_buf[i].received PROVE buf[i] = rx.rx_buf[i]
      BY <2>7, <2>5, <1>1 DEF RxType
    <2>8. /\ n \in 0 .. Ring
          /\ \A k \in 0 .. n - 1 : buf[SlotOf(WrapAdd(rx.recv_base, k))].received
      BY RunLengthProperties
    <2>9. n \in Nat /\ h \in Nat /\ n <= Ring
      BY <2>8, <1>1, Bounds
    <2> HIDE DEF buf, n, h, out, passed
    <2>10. ASSUME NEW k \in 0 .. n - 1
           PROVE  /\ SlotOf(WrapAdd(rx.recv_base, k)) = (h + k) % Ring
                  /\ (h + k) % Ring \in Slot
                  /\ buf[(h + k) % Ring].data = h + k + 1
                  /\ h + k < sent
      <3>1. k \in Int /\ h + k \in Int /\ k < Ring /\ 0 <= k
        BY <2>9, Bounds
      <3>2. SlotOf(WrapAdd(rx.recv_base, k)) = (h + k) % Ring /\ (h + k) % Ring \in Slot
        BY <3>1, <2>9, <1>3, WrapAbs DEF h
      <3>3. buf[(h + k) % Ring].received
        BY <3>2, <2>8
      <3>4. PICK m \in h .. h + Window - 1 :
               m < sent /\ (h + k) % Ring = m % Ring /\ buf[(h + k) % Ring].data = m + 1
        BY <3>2, <3>3, <2>6
      <3>5. m \in Int /\ m - (h + k) < Ring /\ (h + k) - m < Ring
        BY <3>1, <2>9, Bounds
      <3>6. m = h + k
        BY <3>1, <3>4, <3>5, SlotInj
      <3>7. QED
        BY <3>2, <3>4, <3>6
    <2>11. out \in Seq(Payload) /\ Len(out) = n /\ \A k \in 1 .. n : out[k] = h + k
      <3>1. ASSUME NEW k \in 1 .. n
            PROVE  buf[SlotOf(WrapAdd(rx.recv_base, k - 1))].data = h + k /\ h + k \in Payload
        <4>1. k - 1 \in 0 .. n - 1 /\ h + (k - 1) + 1 = h + k
          BY <2>9
        <4>2. buf[SlotOf(WrapAdd(rx.recv_base, k - 1))].data = h + k /\ h + (k - 1) < sent
          BY <4>1, <2>10
        <4>3. sent <= MaxSegments
          BY ChannelAssumption DEF IndInv, TypeOK
        <4>4. QED
          BY <4>1, <4>2, <4>3, <2>9, <1>1, ChannelAssumption DEF Payload
      <3>2. out \in [1 .. n -> Payload] /\ \A k \in 1 .. n : out[k] = h + k
        BY <3>1 DEF out
      <3>3. QED
        BY <3>2, <2>9
    <2>12. /\ Len(delivered') = h + n
           /\ \A i \in 1 .. h + n : delivered'[i] = i
      <3>1. /\ Len(delivered \o out) = Len(delivered) + Len(out)
            /\ \A i \in 1 .. Len(delivered) + Len(out) : (delivered \o out)[i] =
                  IF i <= Len(delivered) THEN delivered[i] ELSE out[i - Len(delivered)]
        BY <2>11, <1>2, ConcatProperties
      <3>2. ASSUME NEW i \in 1 .. h + n PROVE delivered'[i] = i
        <4>1. CASE i <= h
          <5>1. i \in 1 .. Len(delivered)
            BY <4>1, <2>9 DEF h
          <5>2. delivered[i] = i
            BY <5>1 DEF IndInv
          <5>3. QED
            BY <5>2, <4>1, <3>1, <2>1, <2>11 DEF h
        <4>2. CASE i > h
          <5>1. i - h \in 1 .. n /\ h + (i - h) = i
            BY <4>2, <2>9
          <5>2. out[i - h] = i
            BY <5>1, <2>11
          <5>3. i \in 1 .. Len(delivered) + Len(out) /\ ~(i <= Len(delivered))
            BY <4>2, <2>9, <2>11 DEF h
          <5>4. (delivered \o out)[i] = out[i - Len(delivered)]
            BY <5>3, <3>1
          <5>5. QED
            BY <5>2, <5>4, <2>1 DEF h
        <4>3. i <= h \/ i > h
          BY <2>9
        <4>4. QED
          BY <4>1, <4>2, <4>3
      <3>3. QED
        BY <3>1, <3>2, <2>1, <2>11 DEF h
    <2>13. h + n <= sent
      <3>1. CASE n = 0
        BY <3>1, <1>1, <2>9 DEF h
      <3>2. CASE n # 0
        <4>1. n - 1 \in 0 .. n - 1
          BY <3>2, <2>9
        <4>2. h + (n - 1) < sent
          BY <4>1, <2>10
        <4>3. QED
          BY <4>2, <1>1, <2>9
      <3>3. QED
        BY <3>1, <3>2
    <2>14. rx'.recv_base = (h + n) % SeqMod
      BY <2>1, <2>9, <1>3, WrapAbs DEF h
    <2>15. \A i \in Slot : i \in passed <=> \E k \in 0 .. n - 1 : i = (h + k) % Ring
      BY <2>10 DEF passed
    <2>16. \A i \in Slot : rx'.rx_buf[i] = IF i \in passed THEN NoData ELSE buf[i]
      BY <2>1
    <2>17. ASSUME NEW i \in Slot, rx'.rx_buf[i].received
           PROVE  \E m \in h + n .. h + n + Window - 1 :
                     m < sent /\ i = m % Ring /\ rx'.rx_buf[i].data = m + 1
      <3>1. i \notin passed /\ rx'.rx_buf[i] = buf[i]
        BY <2>17, <2>16 DEF NoData
      <3>2. PICK m \in h .. h + Window - 1 : m < sent /\ i = m % Ring /\ buf[i].data = m + 1
        BY <3>1, <2>17, <2>6
      <3>3. m >= h + n
        <4>1. SUFFICES ASSUME m < h + n PROVE FALSE
          BY <2>9, Bounds
        <4>2. m - h \in 0 .. n - 1 /\ h + (m - h) = m
          BY <4>1, <2>9, Bounds
        <4>3. QED
          BY <4>2, <3>1, <3>2, <2>15
      <3>4. m \in h + n .. h + n + Window - 1
        BY <3>3, <2>9, Bounds
      <3>5. QED
        BY <3>1, <3>2, <3>4
    <2>18. ReceiverInv'
      BY <2>17, <2>12 DEF ReceiverInv
    <2>19. ASSUME NEW m \in Int, HasReceived(m) PROVE HasReceived(m)'
      <3>1. CASE m < h
        <4>1. m < Len(delivered')
          BY <3>1, <2>9, <2>12
        <4>2. QED
          BY <4>1 DEF HasReceived
      <3>2. CASE ~(m < h)
        <4>1. rx.rx_buf[m % Ring] = [received |-> TRUE, data |-> m + 1]
          BY <3>2, <2>19 DEF HasReceived, h
        <4>2. m % Ring \in Slot
          BY WrapAbs
        <4>3. buf[m % Ring] = [received |-> TRUE, data |-> m + 1]
          BY <4>1, <4>2, <2>7
        <4>4. CASE m % Ring \notin passed
          <5>1. rx'.rx_buf[m % Ring] = [received |-> TRUE, data |-> m + 1]
            BY <4>2, <4>3, <4>4, <2>16
          <5>2. QED
            BY <5>1 DEF HasReceived
        <4>5. CASE m % Ring \in passed
          <5>1. PICK k \in 0 .. n - 1 : m % Ring = (h + k) % Ring
            BY <4>2, <4>5, <2>15
          <5>2. buf[m % Ring].data = h + k + 1
            BY <5>1, <2>10
          <5>3. m + 1 = h + k + 1
            BY <5>2, <4>3
          <5>4. m < Len(delivered')
            BY <5>3, <2>9, <2>12
          <5>5. QED
            BY <5>4 DEF HasReceived
        <4>6. QED
          BY <4>4, <4>5
      <3>3. QED
        BY <3>1, <3>2
    <2>20. Len(delivered') \in Nat /\ h <= Len(delivered')
      BY <2>9, <2>12
    <2>21. QED
      BY <2>12, <2>13, <2>14, <2>18, <2>19, <2>20 DEF h
  <1>6. QED
    BY <1>4, <1>5

\* A data frame arrives, is delivered or buffered or refused, and is answered.
LEMMA ReceiveDataStep ==
    ASSUME IndInv, ReceiveData, TypeOK'
    PROVE  /\ IndInv' /\ Confirmed' = Confirmed
           /\ Len(delivered') \in Nat /\ Len(delivered') >= Len(delivered)
  <1>1. /\ Confirmed \in Int /\ sent \in Int /\ Len(delivered) \in Nat
        /\ 0 <= Confirmed /\ Confirmed <= Len(delivered)
        /\ Len(delivered) <= sent /\ sent <= Confirmed + Window
    BY Counters
  <1>2. PICK f \in data, again \in BOOLEAN :
           /\ rx' = RxReceive(rx, f.seq, f.data, Window)
           /\ delivered' = delivered \o RxDelivered(rx, f.seq, f.data, Window)
           /\ data' = FreshData(IF again THEN data ELSE data \ {f}, Len(delivered'))
           /\ acks' = acks \cup {[ack_num |-> AckInfo(rx').ack_num,
                                  bitmap |-> AckInfo(rx').bitmap,
                                  at |-> Len(delivered')]}
    BY DEF ReceiveData
  <1>3. tx' = tx /\ sent' = sent
    BY DEF ReceiveData
  <1>4. /\ Len(delivered') \in Nat /\ Len(delivered) <= Len(delivered') /\ Len(delivered') <= sent
        /\ rx'.recv_base = Len(delivered') % SeqMod
        /\ \A i \in 1 .. Len(delivered') : delivered'[i] = i
        /\ ReceiverInv'
        /\ \A n \in Int : HasReceived(n) => HasReceived(n)'
    BY <1>2, <1>3, ReceiveAbs
  <1>5. Confirmed' = Confirmed
    BY <1>3 DEF Confirmed, InFlight
  <1>6. CursorInv'
    <2>1. Confirmed <= Len(delivered')
      BY <1>1, <1>4
    <2>2. QED
      BY <2>1, <1>3, <1>4, <1>5 DEF IndInv, CursorInv
  <1>7. SenderInv'
    <2>1. \A n \in Confirmed .. sent - 1 : n \in Int
      BY <1>1
    <2>2. QED
      BY <2>1, <1>3, <1>4, <1>5 DEF IndInv, SenderInv
  <1>8. DataFrameInv'
    <2>1. ASSUME NEW g \in data'
          PROVE  g \in data /\ g.data + MaxLag + Ring > Len(delivered')
      <3>1. g \in data /\ g.data + MaxLag > Len(delivered')
        BY <1>2 DEF FreshData
      <3>2. g.data \in Int
        BY <3>1 DEF IndInv, TypeOK, DataFrame, Payload
      <3>3. QED
        BY <3>1, <3>2, <1>4, Bounds
    <2>2. QED
      BY <2>1, <1>3 DEF IndInv, DataFrameInv
  <1>9. ASSUME NEW bit \in AckInfo(rx').bitmap PROVE HasReceived(Len(delivered) + bit + 1)'
    <2>1. rx' \in RxType(Payload)
      BY DEF TypeOK
    <2>2. bit \in 0 .. SackRange - 1 /\ rx'.rx_buf[SlotOf(WrapAdd(rx'.recv_base, bit + 1))].received
      BY DEF AckInfo
    <2>3. bit + 1 \in Int /\ 0 < bit + 1 /\ bit + 1 < Ring
      BY <2>2, Bounds
    <2> DEFINE n == Len(delivered') + (bit + 1)
    <2>4. SlotOf(WrapAdd(rx'.recv_base, bit + 1)) = n % Ring
      BY <2>3, <1>4, WrapAbs
    <2>5. n \in Int /\ n % Ring \in Slot
      <3>1. n \in Int
        BY <2>3, <1>4
      <3>2. QED
        BY <3>1, WrapAbs
    <2>6. rx'.rx_buf[n % Ring].received
      BY <2>2, <2>4
    <2>7. PICK m \in Len(delivered') .. Len(delivered') + Window - 1 :
             n % Ring = m % Ring /\ rx'.rx_buf[n % Ring].data = m + 1
      BY <2>5, <2>6, <1>4 DEF ReceiverInv
    <2>8. m \in Int /\ m - n < Ring /\ n - m < Ring
      BY <2>3, <1>4, Bounds
    <2>9. m = n
      BY <2>5, <2>7, <2>8, SlotInj
    <2>10. rx'.rx_buf[n % Ring] \in RxCell(Payload)
      BY <2>1, <2>5 DEF RxType
    <2>11. rx'.rx_buf[n % Ring] = [received |-> TRUE, data |-> n + 1]
      BY <2>6, <2>7, <2>9, <2>10 DEF RxCell, NoData
    <2>12. n = Len(delivered') + bit + 1
      BY <2>2, <1>4
    <2>13. QED
      BY <2>11, <2>12 DEF HasReceived
  <1>10. AckFrameInv'
    <2>1. ASSUME NEW k \in acks'
          PROVE  /\ k.ack_num = k.at % SeqMod
                 /\ k.at <= Len(delivered')
                 /\ k.at + MaxLag >= Confirmed
                 /\ \A bit \in k.bitmap : HasReceived(k.at + bit + 1)'
      <3>1. CASE k \in acks
        <4>1. k.at \in Int /\ \A bit \in k.bitmap : k.at + bit + 1 \in Int
          BY <3>1 DEF IndInv, TypeOK, AckFrame
        <4>2. /\ k.ack_num = k.at % SeqMod /\ k.at <= Len(delivered)
              /\ k.at + MaxLag >= Confirmed
              /\ \A bit \in k.bitmap : HasReceived(k.at + bit + 1)
          BY <3>1 DEF IndInv, AckFrameInv
        <4>3. k.at <= Len(delivered')
          BY <4>1, <4>2, <1>1, <1>4
        <4>4. QED
          BY <4>1, <4>2, <4>3, <1>4
      <3>2. CASE k \notin acks
        <4>1. /\ k.ack_num = AckInfo(rx').ack_num /\ k.bitmap = AckInfo(rx').bitmap
              /\ k.at = Len(delivered')
          BY <3>2, <1>2
        <4>2. k.ack_num = k.at % SeqMod
          BY <4>1, <1>4 DEF AckInfo
        <4>3. k.at <= Len(delivered') /\ k.at + MaxLag >= Confirmed
          BY <4>1, <1>1, <1>4, Bounds
        <4>4. ASSUME NEW bit \in k.bitmap PROVE HasReceived(k.at + bit + 1)'
          <5>1. HasReceived(Len(delivered) + bit + 1)'
            BY <4>1, <1>9
          <5>2. QED
            BY <5>1, <4>1 DEF HasReceived
        <4>5. QED
          BY <4>2, <4>3, <4>4
      <3>3. QED
        BY <3>1, <3>2
    <2>2. QED
      BY <2>1, <1>5 DEF AckFrameInv
  <1>11. QED
    BY <1>4, <1>5, <1>6, <1>7, <1>8, <1>10 DEF IndInv

-----------------------------------------------------------------------------
(* The theorems. *)

\* IndInv holds initially.
LEMMA IndInit == Init => IndInv
  <1>1. SUFFICES ASSUME Init PROVE IndInv
    OBVIOUS
  <1>2. TypeOK
    BY <1>1, TypeInit
  <1>3. delivered = << >> /\ Len(delivered) = 0 /\ sent = 0 /\ data = {} /\ acks = {}
    BY <1>1 DEF Init
  <1>4. /\ tx.next_seq = 0 /\ tx.send_base = 0 /\ rx.recv_base = 0
        /\ \A i \in Slot : tx.tx_buf[i] = NoSegment
        /\ \A i \in Slot : ~rx.rx_buf[i].received
    BY <1>1 DEF Init, ArqTxNew, ArqRxNew, NoData
  <1>5. 0 % SeqMod = 0
    BY ModSmall, Bounds
  <1>6. InFlight(tx) = 0 - 0
    <2>1. 0 <= 0 + Ring
      BY Bounds
    <2>2. QED
      BY <2>1, <1>4, <1>5, InFlightAbs
  <1>7. Confirmed = 0
    BY <1>3, <1>6 DEF Confirmed
  <1>8. CursorInv
    BY <1>3, <1>4, <1>5, <1>7, Bounds DEF CursorInv
  <1>9. SenderInv
    BY <1>3, <1>4, <1>7 DEF SenderInv
  <1>10. ReceiverInv /\ DataFrameInv /\ AckFrameInv
    BY <1>3, <1>4 DEF ReceiverInv, DataFrameInv, AckFrameInv
  <1>11. QED
    BY <1>2, <1>3, <1>8, <1>9, <1>10 DEF IndInv

\* IndInv is kept by every step.
LEMMA IndStep ==
    ASSUME IndInv, [Next]_vars
    PROVE  IndInv'
  <1>1. TypeOK'
    BY TypeStep DEF IndInv
  <1>2. CASE Send
    BY <1>1, <1>2, SendStep
  <1>3. CASE Retransmit
    BY <1>1, <1>3, RetransmitStep
  <1>4. CASE GiveUp
    BY <1>1, <1>4, QuietStep DEF GiveUp
  <1>5. CASE ReceiveData
    BY <1>1, <1>5, ReceiveDataStep
  <1>6. CASE ReceiveAck
    BY <1>1, <1>6, ReceiveAckStep
  <1>7. CASE Lose
    BY <1>1, <1>7, QuietStep DEF Lose
  <1>8. CASE UNCHANGED vars
    BY <1>1, <1>8, QuietStep DEF vars
  <1>9. QED
    BY <1>2, <1>3, <1>4, <1>5, <1>6, <1>7, <1>8 DEF Next

\* IndInv is an invariant of the ARQ over the unreliable channel.
THEOREM Inductive == Spec => []IndInv
  BY IndInit, IndStep, PTL DEF Spec

\* Exactly-once, in-order delivery of the payloads of ArqTx::send by
\* ArqRx::receive, for every window and every loss, duplication and reordering.
THEOREM InOrderDelivery == Spec => []DeliveredInOrder
  <1>1. IndInv => DeliveredInOrder
    BY DEF IndInv, CursorInv, DeliveredInOrder
  <1>2. QED
    BY <1>1, Inductive, PTL

\* process_ack never takes for received what the receiver does not have.
THEOREM NoFalseAck == Spec => []AckedWasReceived
  <1>1. ASSUME IndInv PROVE AckedWasReceived
    <2>1. ASSUME NEW i \in Slot, tx.tx_buf[i] # NoSegment, tx.tx_buf[i].acked
          PROVE  \/ tx.tx_buf[i].data <= Len(delivered)
                 \/ rx.rx_buf[i] = [received |-> TRUE, data |-> tx.tx_buf[i].data]
      <3>1. PICK n \in Confirmed .. sent - 1 : i = n % Ring
        BY <2>1, <1>1 DEF IndInv, SenderInv
      <3>2. tx.tx_buf[i].data = n + 1 /\ HasReceived(n)
        BY <2>1, <3>1, <1>1 DEF IndInv, SenderInv
      <3>3. n \in Int /\ Len(delivered) \in Nat
        BY <1>1, Counters
      <3>4. QED
        BY <3>1, <3>2, <3>3 DEF HasReceived
    <2>2. Confirmed <= Len(delivered)
      BY <1>1 DEF IndInv, CursorInv
    <2>3. QED
      BY <2>1, <2>2 DEF AckedWasReceived
  <1>2. QED
    BY <1>1, Inductive, PTL

\* The ARQ over an unreliable channel implements a reliable FIFO service.
THEOREM Refinement == Spec => ImplementsFifo
  <1>1. Init => Service!FifoInit
    <2>1. SUFFICES ASSUME Init PROVE Service!FifoInit
      OBVIOUS
    <2>2. sent = 0 /\ Len(delivered) = 0 /\ failed = FALSE
      BY <2>1 DEF Init
    <2>3. Confirmed = 0
      BY <2>1, <2>2, IndInit, Counters
    <2>4. QED
      BY <2>2, <2>3 DEF Service!FifoInit
  <1>2. IndInv /\ [Next]_vars => [Service!FifoNext]_(Service!fifoVars)
    <2> SUFFICES ASSUME IndInv, [Next]_vars PROVE [Service!FifoNext]_(Service!fifoVars)
      OBVIOUS
    <2>1. IndInv' /\ TypeOK'
      BY IndStep, TypeStep DEF IndInv
    <2>2. /\ Confirmed \in Int /\ sent \in Int /\ Len(delivered) \in Nat
          /\ InFlight(tx) = sent - Confirmed
      BY Counters
    <2>3. CASE Send
      <3>1. sent' = sent + 1 /\ delivered' = delivered /\ failed' = failed /\ ~failed
        BY <2>3 DEF Send
      <3>2. Confirmed' = Confirmed
        BY <2>1, <2>3, SendStep
      <3>3. Service!Submit
        BY <3>1, <3>2 DEF Service!Submit
      <3>4. QED
        BY <3>3 DEF Service!FifoNext
    <2>4. CASE Retransmit
      <3>1. Confirmed' = Confirmed
        BY <2>1, <2>4, RetransmitStep
      <3>2. QED
        BY <2>4, <3>1 DEF Retransmit, Service!fifoVars
    <2>5. CASE GiveUp
      <3>1. Confirmed' = Confirmed
        BY <2>1, <2>5, QuietStep DEF GiveUp
      <3>2. Confirmed < sent
        BY <2>2, <2>5 DEF GiveUp
      <3>3. Service!GiveUp
        BY <2>5, <3>1, <3>2 DEF GiveUp, Service!GiveUp
      <3>4. QED
        BY <3>3 DEF Service!FifoNext
    <2>6. CASE ReceiveData
      <3>1. Confirmed' = Confirmed /\ Len(delivered') \in Nat /\ Len(delivered') >= Len(delivered)
        BY <2>1, <2>6, ReceiveDataStep
      <3>2. sent' = sent /\ failed' = failed
        BY <2>6 DEF ReceiveData
      <3>3. Len(delivered') <= sent
        BY <2>1, <3>2 DEF IndInv, CursorInv
      <3>4. CASE Len(delivered') = Len(delivered)
        BY <3>1, <3>2, <3>4 DEF Service!fifoVars
      <3>5. CASE Len(delivered') > Len(delivered)
        <4>1. Service!HandUp
          BY <3>1, <3>2, <3>3, <3>5 DEF Service!HandUp
        <4>2. QED
          BY <4>1 DEF Service!FifoNext
      <3>6. QED
        BY <3>1, <3>4, <3>5, <2>2
    <2>7. CASE ReceiveAck
      <3>1. Confirmed' \in Int /\ Confirmed' >= Confirmed
        BY <2>1, <2>7, ReceiveAckStep
      <3>2. sent' = sent /\ delivered' = delivered /\ failed' = failed /\ ~failed
        BY <2>7 DEF ReceiveAck
      <3>3. Confirmed' <= Len(delivered)
        BY <2>1, <3>2 DEF IndInv, CursorInv
      <3>4. CASE Confirmed' = Confirmed
        BY <3>2, <3>4 DEF Service!fifoVars
      <3>5. CASE Confirmed' > Confirmed
        <4>1. Service!Confirm
          BY <3>2, <3>3, <3>5 DEF Service!Confirm
        <4>2. QED
          BY <4>1 DEF Service!FifoNext
      <3>6. QED
        BY <3>1, <3>4, <3>5, <2>2
    <2>8. CASE Lose
      <3>1. Confirmed' = Confirmed
        BY <2>1, <2>8, QuietStep DEF Lose
      <3>2. QED
        BY <2>8, <3>1 DEF Lose, Service!fifoVars
    <2>9. CASE UNCHANGED vars
      <3>1. Confirmed' = Confirmed
        BY <2>1, <2>9, QuietStep DEF vars
      <3>2. QED
        BY <2>9, <3>1 DEF vars, Service!fifoVars
    <2>10. QED
      BY <2>3, <2>4, <2>5, <2>6, <2>7, <2>8, <2>9 DEF Next
  <1>3. QED
    BY <1>1, <1>2, Inductive, PTL DEF Spec, ImplementsFifo, Service!FifoSpec
=============================================================================
