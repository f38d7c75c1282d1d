----------------------------- MODULE ArqChannel -----------------------------
(***************************************************************************)
(* One ArqTx and one ArqRx joined by a channel that loses, duplicates and  *)
(* reorders frames.  The sender's user submits payloads 1, 2, 3, ...; the  *)
(* receiver answers every data frame with ack_info(), duplicates included, *)
(* as deliver_session_segment and Link::handle_pdu do; the retransmit poll *)
(* may find any set of outstanding segments expired, so a timeout races    *)
(* every late acknowledgement.                                             *)
(*                                                                         *)
(* The channel is external to the code.  Its one promise is that no frame  *)
(* outlives MaxLag later segments: the radio is half duplex and holds      *)
(* nothing back, and a u8 sequence number says nothing without it.         *)
(***************************************************************************)
EXTENDS Arq, Sequences

CONSTANTS
    Window,         \* ArqConfig::window_size, the same at both ends
    MaxRetransmit,  \* ArqConfig::max_retransmit
    MaxLag,         \* how many segments a frame may be overtaken by
    MaxSegments     \* bound: payloads submitted

ASSUME ChannelAssumption ==
    /\ ValidWindow(Window)
    /\ MaxRetransmit \in 0 .. CountMax - 1
    /\ MaxLag \in Nat /\ MaxLag < HalfSpace
    /\ MaxSegments \in Nat

VARIABLES
    tx,         \* ArqTx
    rx,         \* ArqRx
    sent,       \* payloads submitted so far: 1 .. sent
    delivered,  \* payloads handed to the receiving user, in order
    data,       \* data frames on the air
    acks,       \* ACK frames on the air; `at` is ghost, Len(delivered) when built
    failed      \* the sender gave the link up

vars == << tx, rx, sent, delivered, data, acks, failed >>

Payload == 1 .. MaxSegments

DataFrame == [seq : SeqNum, data : Payload]
AckFrame == [ack_num : SeqNum, bitmap : SUBSET (0 .. SackRange - 1), at : Nat]

\* The shapes of the two ends, of the history and of the frames on the air.
TypeOK ==
    /\ tx \in TxType(Payload)
    /\ rx \in RxType(Payload)
    /\ sent \in 0 .. MaxSegments
    /\ delivered \in Seq(Payload)
    /\ data \subseteq DataFrame
    /\ acks \subseteq AckFrame
    /\ failed \in BOOLEAN

Init ==
    /\ tx = ArqTxNew
    /\ rx = ArqRxNew
    /\ sent = 0
    /\ delivered = << >>
    /\ data = {}
    /\ acks = {}
    /\ failed = FALSE

\* Payloads the sender counts as acknowledged cumulatively (absolute send_base).
Confirmed == sent - InFlight(tx)

FrameOf(t, seq) == [seq |-> seq, data |-> t.tx_buf[SlotOf(seq)].data]

\* Frames no more than MaxLag segments behind are still on the air.
FreshData(frames, handed) == {f \in frames : f.data + MaxLag > handed}
FreshAcks(frames, base) == {a \in frames : a.at + MaxLag >= base}

\* The user submits a payload: ArqTx::send, then the frame is keyed.
Send ==
    /\ ~failed
    /\ sent < MaxSegments
    /\ CanSend(tx, Window)
    /\ tx' = TxSend(tx, sent + 1)
    /\ sent' = sent + 1
    /\ data' = data \cup {FrameOf(tx', tx.next_seq)}
    /\ UNCHANGED << rx, delivered, acks, failed >>

\* The retransmit poll: every expired segment within budget is keyed again.
Retransmit ==
    /\ ~failed
    /\ \E expired \in SUBSET Outstanding(tx) :
         LET seqs == GetRetransmits(tx, expired, MaxRetransmit)
         IN /\ seqs # {}
            /\ data' = data \cup {FrameOf(tx, s) : s \in seqs}
            /\ tx' = MarkRetransmitted(tx, seqs)
    /\ UNCHANGED << rx, sent, delivered, acks, failed >>

\* The budget of the oldest segment is spent and its last RTO has run out.
GiveUp ==
    /\ ~failed
    /\ InFlight(tx) > 0
    /\ IsFailed(tx, tx.send_base, MaxRetransmit)
    /\ failed' = TRUE
    /\ UNCHANGED << tx, rx, sent, delivered, data, acks >>

\* A data frame arrives (and may arrive again): ArqRx::receive, in-order
\* delivery, then the ACK built from the new receiver state.
ReceiveData ==
    \E f \in data, again \in BOOLEAN :
        /\ rx' = RxReceive(rx, f.seq, f.data, Window)
        /\ delivered' = delivered \o RxDelivered(rx, f.seq, f.data, Window)
        /\ data' = FreshData(IF again THEN data ELSE data \ {f}, Len(delivered'))
        /\ acks' = acks \cup {[ack_num |-> AckInfo(rx').ack_num,
                               bitmap |-> AckInfo(rx').bitmap,
                               at |-> Len(delivered')]}
        /\ UNCHANGED << tx, sent, failed >>

\* An ACK arrives (and may arrive again): ArqTx::process_ack.
ReceiveAck ==
    /\ ~failed
    /\ \E a \in acks, again \in BOOLEAN :
         /\ tx' = ProcessAck(tx, a.ack_num, a.bitmap)
         /\ acks' = FreshAcks(IF again THEN acks ELSE acks \ {a}, sent - InFlight(tx'))
    /\ UNCHANGED << rx, sent, delivered, data, failed >>

\* The channel drops a frame.
Lose ==
    /\ \/ \E f \in data : data' = data \ {f} /\ UNCHANGED acks
       \/ \E a \in acks : acks' = acks \ {a} /\ UNCHANGED data
    /\ UNCHANGED << tx, rx, sent, delivered, failed >>

Next == Send \/ Retransmit \/ GiveUp \/ ReceiveData \/ ReceiveAck \/ Lose

Spec == Init /\ [][Next]_vars

\* The poll timer of the event loop keeps ticking, and an expired link is
\* given up; nothing is assumed of the channel.
FairSpec == Spec /\ WF_vars(Retransmit) /\ WF_vars(GiveUp)

-----------------------------------------------------------------------------
(* Correctness. *)

\* Exactly-once, in-order delivery: the receiving user has been handed the
\* payloads 1, 2, ... up to some point, none twice, none out of order
\* (ArqRx::receive, with the sequence space wrapping under it).
DeliveredInOrder ==
    /\ Len(delivered) <= sent
    /\ \A i \in 1 .. Len(delivered) : delivered[i] = i

\* No acknowledgement is believed early: what process_ack passes was handed
\* up, and what it marks by bitmap is at least in the receiver's buffer.
AckedWasReceived ==
    /\ Confirmed <= Len(delivered)
    /\ \A i \in Slot :
         (tx.tx_buf[i] # NoSegment /\ tx.tx_buf[i].acked) =>
            \/ tx.tx_buf[i].data <= Len(delivered)
            \/ rx.rx_buf[i] = [received |-> TRUE, data |-> tx.tx_buf[i].data]

\* The ARQ implements a reliable first-in first-out service.
Service == INSTANCE ReliableFifo
    WITH submitted <- sent, handed <- Len(delivered), confirmed <- Confirmed, closed <- failed
ImplementsFifo == Service!FifoSpec

\* Whatever the channel does, a submitted payload is acknowledged or the link
\* is given up: no segment parks in a slot of the window for ever.
AckedOrGivenUp == \A i \in Slot : (tx.tx_buf[i] # NoSegment) ~> (tx.tx_buf[i] = NoSegment \/ failed)

-----------------------------------------------------------------------------
(* The inductive invariant: the u8 state of both ends in absolute numbers. *)
(* Segment n (n = 0, 1, ...) carries payload n + 1, sequence number        *)
(* n % SeqMod and lives in slot n % Ring.                                  *)

\* Segment n was handed up or waits in the receiver's buffer.
HasReceived(n) ==
    n < Len(delivered) \/ rx.rx_buf[n % Ring] = [received |-> TRUE, data |-> n + 1]

\* The three cursors are remainders of Confirmed <= handed up <= sent, and the
\* sender is never more than a window ahead.
CursorInv ==
    /\ 0 <= Confirmed /\ Confirmed <= Len(delivered)
    /\ Len(delivered) <= sent /\ sent <= Confirmed + Window
    /\ tx.send_base = Confirmed % SeqMod
    /\ tx.next_seq = sent % SeqMod
    /\ rx.recv_base = Len(delivered) % SeqMod

\* The sender's ring holds the outstanding segments and nothing else, and one
\* marked acked was received.
SenderInv ==
    /\ \A n \in Confirmed .. sent - 1 :
         /\ tx.tx_buf[n % Ring].seq_num = n % SeqMod
         /\ tx.tx_buf[n % Ring].data = n + 1
         /\ tx.tx_buf[n % Ring].acked => HasReceived(n)
    /\ \A i \in Slot : tx.tx_buf[i] # NoSegment => \E n \in Confirmed .. sent - 1 : i = n % Ring

\* The receiver's ring holds segments of its own window, each in its slot.
ReceiverInv ==
    \A i \in Slot : rx.rx_buf[i].received =>
        \E n \in Len(delivered) .. Len(delivered) + Window - 1 :
            n < sent /\ i = n % Ring /\ rx.rx_buf[i].data = n + 1

\* A data frame on the air is a segment that was sent, not older than the
\* channel's lag behind what was handed up.
DataFrameInv ==
    \A f \in data : /\ f.seq = (f.data - 1) % SeqMod
                    /\ f.data <= sent
                    /\ f.data + MaxLag + Ring > Len(delivered)

\* An ACK on the air says what was true when it was built.
AckFrameInv ==
    \A k \in acks : /\ k.ack_num = k.at % SeqMod
                    /\ k.at <= Len(delivered)
                    /\ k.at + MaxLag >= Confirmed
                    /\ \A bit \in k.bitmap : HasReceived(k.at + bit + 1)

\* What the proofs carry from step to step; it implies the properties above.
IndInv ==
    /\ TypeOK
    /\ CursorInv
    /\ \A i \in 1 .. Len(delivered) : delivered[i] = i
    /\ SenderInv
    /\ ReceiverInv
    /\ DataFrameInv
    /\ AckFrameInv
=============================================================================
