-------------------------------- MODULE Arq --------------------------------
(***************************************************************************)
(* The selective-repeat ARQ state machines of coppa-protocol (arq.rs) as   *)
(* operators on records: ArqTx (next_seq, send_base, tx_buf) and ArqRx     *)
(* (recv_base, rx_buf).  The modules that compose them with a channel or   *)
(* with a link layer apply these operators in their actions.               *)
(*                                                                         *)
(* Sequence numbers are u8 in the code: all arithmetic on them wraps at    *)
(* SeqMod (256).  Buffers are indexed by seq % Ring (MAX_WINDOW_SIZE, 32). *)
(* Timestamps are left out: which unacked segments have outlived the RTO   *)
(* is a parameter of get_retransmits, chosen by the caller.                *)
(***************************************************************************)
EXTENDS Integers, FiniteSets, FiniteSetsExt

CONSTANTS
    SeqMod,         \* 256: the sequence numbers are u8
    Ring,           \* MAX_WINDOW_SIZE, 32: slots of each buffer
    SackRange,      \* SACK_RANGE, 31: bits of the selective-ACK bitmap
    CountMax        \* u8::MAX, where transmit_count saturates

(***************************************************************************)
(* The ring divides the sequence space, so that a sequence number keeps    *)
(* its slot when it wraps; SACK_RANGE covers a full window.                *)
(***************************************************************************)
ASSUME ArqAssumption ==
    /\ SeqMod \in Nat \ {0} /\ Ring \in Nat \ {0}
    /\ SeqMod % Ring = 0 /\ 4 * Ring <= SeqMod
    /\ SackRange = Ring - 1
    /\ CountMax \in Nat

SeqNum == 0 .. SeqMod - 1
Slot == 0 .. Ring - 1

\* u8 wrapping_add and wrapping_sub.
WrapAdd(a, b) == (a + b) % SeqMod
WrapSub(a, b) == (a - b) % SeqMod
SlotOf(seq) == seq % Ring

\* The largest forward distance a cumulative ACK may have (`diff > 128`).
HalfSpace == SeqMod \div 2

\* validate_window: 1 <= window_size <= MAX_WINDOW_SIZE.
ValidWindow(window) == window \in 1 .. Ring

NoSegment == [seq_num |-> SeqMod, data |-> 0, transmit_count |-> 0, acked |-> FALSE]
Segment(Data) == [seq_num : SeqNum, data : Data, transmit_count : 1 .. CountMax, acked : BOOLEAN]
NoData == [received |-> FALSE, data |-> 0]

TxType(Data) == [next_seq : SeqNum, send_base : SeqNum,
                 tx_buf : [Slot -> Segment(Data) \cup {NoSegment}]]
RxCell(Data) == [received : {TRUE}, data : Data] \cup {NoData}
RxType(Data) == [recv_base : SeqNum, rx_buf : [Slot -> RxCell(Data)]]

ArqTxNew == [next_seq |-> 0, send_base |-> 0, tx_buf |-> [i \in Slot |-> NoSegment]]
ArqRxNew == [recv_base |-> 0, rx_buf |-> [i \in Slot |-> NoData]]

-----------------------------------------------------------------------------
(* The transmitter. *)

InFlight(tx) == WrapSub(tx.next_seq, tx.send_base)
CanSend(tx, window) == InFlight(tx) < window

\* ArqTx::send, for a caller that found room; the new segment takes next_seq.
TxSend(tx, d) ==
    [tx EXCEPT !.next_seq = WrapAdd(@, 1),
               !.tx_buf[SlotOf(tx.next_seq)] =
                   [seq_num |-> tx.next_seq, data |-> d, transmit_count |-> 1, acked |-> FALSE]]

Holds(tx, seq) == tx.tx_buf[SlotOf(seq)].seq_num = seq

\* Sequence numbers between the two cursors, oldest first by distance.
Outstanding(tx) == {WrapAdd(tx.send_base, k) : k \in 0 .. InFlight(tx) - 1}

\* Faulty variant: no `diff > 128` test, a stale ACK runs around the ring.
CumulativeAdvance_NoHalf(tx, ack_num) == WrapSub(ack_num, tx.send_base)

\* Distance the cumulative loop of process_ack advances send_base: all the way
\* to ack_num, or not at all when ack_num lies behind.
CumulativeAdvance(tx, ack_num) ==
    LET diff == WrapSub(ack_num, tx.send_base) IN IF diff > HalfSpace THEN 0 ELSE diff

\* ArqTx::process_ack.  The cumulative part evicts the slot of every sequence
\* number it passes, whatever the slot holds; the bitmap marks segments acked
\* in place, only where the slot still holds the acknowledged number.
ProcessAck(tx, ack_num, bitmap) ==
    LET adv == CumulativeAdvance(tx, ack_num)
        passed == {SlotOf(WrapAdd(tx.send_base, k)) : k \in 0 .. adv - 1}
        sacked == {WrapAdd(ack_num, bit + 1) : bit \in bitmap}
    IN [tx EXCEPT !.send_base = WrapAdd(@, adv),
                  !.tx_buf = [i \in Slot |->
                      IF i \in passed THEN NoSegment
                      ELSE IF @[i].seq_num \in sacked THEN [@[i] EXCEPT !.acked = TRUE]
                      ELSE @[i]]]

\* The sequence numbers process_ack reports as newly acknowledged.
NewlyAcked(tx, ack_num, bitmap) ==
    LET adv == CumulativeAdvance(tx, ack_num)
        passed == {SlotOf(WrapAdd(tx.send_base, k)) : k \in 0 .. adv - 1}
        sacked == {WrapAdd(ack_num, bit + 1) : bit \in bitmap}
    IN {tx.tx_buf[i].seq_num : i \in {j \in Slot :
           /\ tx.tx_buf[j] # NoSegment
           /\ ~tx.tx_buf[j].acked
           /\ j \in passed \/ tx.tx_buf[j].seq_num \in sacked}}

\* ArqTx::get_retransmits: unacked segments between the cursors that are
\* within their budget; `expired` holds those whose RTO has elapsed.
GetRetransmits(tx, expired, max_retransmit) ==
    {seq \in Outstanding(tx) \cap expired :
        LET seg == tx.tx_buf[SlotOf(seq)]
        IN seg # NoSegment /\ ~seg.acked /\ seg.transmit_count <= max_retransmit}

\* ArqTx::mark_retransmitted for each of the given sequence numbers; a slot
\* that no longer holds the number, or is acked, is left alone.
MarkRetransmitted(tx, seqs) ==
    [tx EXCEPT !.tx_buf = [i \in Slot |->
        LET seg == tx.tx_buf[i]
        IN IF seg.seq_num \in seqs /\ ~seg.acked
             THEN [seg EXCEPT !.transmit_count = IF @ < CountMax THEN @ + 1 ELSE @]
             ELSE seg]]

\* Faulty variant: failed one attempt later than get_retransmits stops.
IsFailed_OffByOne(tx, seq, max_retransmit) ==
    Holds(tx, seq) /\ tx.tx_buf[SlotOf(seq)].transmit_count > max_retransmit + 1

\* ArqTx::is_failed.
IsFailed(tx, seq, max_retransmit) ==
    Holds(tx, seq) /\ tx.tx_buf[SlotOf(seq)].transmit_count > max_retransmit

\* ArqTx::abandon: clear the slot, then advance send_base over the resolved
\* (empty or acked) prefix, clearing what it passes.
Abandon(tx, seq) ==
    IF ~Holds(tx, seq) THEN tx
    ELSE LET buf == [tx.tx_buf EXCEPT ![SlotOf(seq)] = NoSegment]
             live(k) == LET s == buf[SlotOf(WrapAdd(tx.send_base, k))]
                        IN s # NoSegment /\ ~s.acked
             adv == Min({n \in 0 .. InFlight(tx) : n = InFlight(tx) \/ live(n)})
             passed == {SlotOf(WrapAdd(tx.send_base, k)) : k \in 0 .. adv - 1}
         IN [tx EXCEPT !.send_base = WrapAdd(@, adv),
                       !.tx_buf = [i \in Slot |-> IF i \in passed THEN NoSegment ELSE buf[i]]]

-----------------------------------------------------------------------------
(* The receiver. *)

\* Faulty variant: the window test is missing.
InRxWindow_Missing(rx, seq, window) == TRUE
InRxWindow(rx, seq, window) == WrapSub(seq, rx.recv_base) < window

\* The buffer after the segment is stored (first copy wins).
Buffered(rx, seq, d) ==
    [rx.rx_buf EXCEPT ![SlotOf(seq)] = IF @.received THEN @ ELSE [received |-> TRUE, data |-> d]]

\* Length of the received run that starts at recv_base.
RunLength(recv_base, buf) ==
    Min({n \in 0 .. Ring : n = Ring \/ ~buf[SlotOf(WrapAdd(recv_base, n))].received})

\* ArqRx::receive: the new receiver state, and what is handed up in order.
RxReceive(rx, seq, d, window) ==
    IF ~InRxWindow(rx, seq, window) THEN rx
    ELSE LET buf == Buffered(rx, seq, d)
             n == RunLength(rx.recv_base, buf)
             passed == {SlotOf(WrapAdd(rx.recv_base, k)) : k \in 0 .. n - 1}
         IN [recv_base |-> WrapAdd(rx.recv_base, n),
             rx_buf |-> [i \in Slot |-> IF i \in passed THEN NoData ELSE buf[i]]]

RxDelivered(rx, seq, d, window) ==
    IF ~InRxWindow(rx, seq, window) THEN << >>
    ELSE LET buf == Buffered(rx, seq, d)
         IN [k \in 1 .. RunLength(rx.recv_base, buf) |->
                buf[SlotOf(WrapAdd(rx.recv_base, k - 1))].data]

\* Faulty variant: acknowledges the segment it is still waiting for.
AckInfo_OneAhead(rx) ==
    [ack_num |-> WrapAdd(rx.recv_base, 1), bitmap |-> {}]

\* ArqRx::ack_info: the cumulative number and the set bits of the bitmap.
AckInfo(rx) ==
    [ack_num |-> rx.recv_base,
     bitmap |-> {bit \in 0 .. SackRange - 1 :
                    rx.rx_buf[SlotOf(WrapAdd(rx.recv_base, bit + 1))].received}]
=============================================================================
