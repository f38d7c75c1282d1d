---------------------------- MODULE SessionProofs ----------------------------
(***************************************************************************)
(* Theorems about DaemonSession for every number of slots, sequence space, *)
(* retry budget, grant and timeout: one session at a time, an honest       *)
(* BUFFER, no data parked, a live fade hold, the promise of module         *)
(* HostSession to the hosts of each station, and the payloads of a session *)
(* given to the other host in order, once each, and before its sender      *)
(* counts them as delivered.                                               *)
(*                                                                         *)
(* All but the last need one end: a station keeps them whatever            *)
(* well-formed frames it hears.  So the first invariant, SessionInv, is    *)
(* one on a station's record, and every function of the event loop has a   *)
(* lemma that it keeps it.  The last needs both: the same lemmas say what  *)
(* a function does that the other end relies on (Moves, Receives), and the *)
(* second invariant, Both, is on the pair of records and on `handed`.      *)
(***************************************************************************)
EXTENDS DaemonSession, ArqLemmas, FiniteSetTheorems

-----------------------------------------------------------------------------
(* The inductive invariant. *)

\* The shapes of TypeOK, but for what takes both ends of the channel: that no
\* station has more sessions than there were calls.
AirFrame == [type : FrameTypes, dest : Parties, sid : Nat, num : SeqNum, data : 0 .. MaxPayload]
IsData(f) == f.type \in {"Data", "Outer"}

LinkShape ==
    [session_id : Slots, remote : Parties, tx : TxType(1 .. MaxPayload), rx : RxType(0 .. MaxPayload),
     backlog : 0 .. MaxPayload, max_retransmit : 0 .. CountMax, fallback : BOOLEAN,
     quiet : 0 .. NoEvidenceTicks, expired : BOOLEAN, tx_outer : BOOLEAN,
     block_ack : {"none", "armed", "ready"}, ack_pair : BOOLEAN]

Table == [Slots -> Session \cup {NoSession}]

Shape ==
    [listening : BOOLEAN, sessions : Table, link : LinkShape \cup {NoLink},
     pending : Slots \cup {NoSlot}, held : BOOLEAN, reported : Nat,
     told : {"disconnected", "pending", "connected", "confused"}, air : Seq(AirFrame),
     sid : Nat, submitted : 0 .. MaxPayload, ended : {"None", "drained", "dropped"}]

(***************************************************************************)
(* Stop and wait: at most one segment is out, and its slot still holds it. *)
(***************************************************************************)
Oldest(tx) == tx.tx_buf[SlotOf(tx.send_base)]
Carried(tx) ==
    /\ InFlight(tx) \in {0, 1}
    /\ InFlight(tx) = 1 => Oldest(tx).seq_num = tx.send_base /\ ~Oldest(tx).acked

(***************************************************************************)
(* The budget.  Outside the fade hold it is the configured one.  In the    *)
(* hold every tick still to come before the patience clock runs out, and   *)
(* an RTO already due, may cost one more attempt: the grant covers them.   *)
(***************************************************************************)
StillToCome(link) == NoEvidenceTicks - link.quiet + IF link.expired THEN 1 ELSE 0
Budgeted(link) ==
    IF link.fallback
      THEN /\ InFlight(link.tx) = 1
           /\ \/ link.max_retransmit = CountMax
              \/ Oldest(link.tx).transmit_count + StillToCome(link) <= link.max_retransmit
      ELSE link.max_retransmit = MaxRetransmit

SoundLink(st) ==
    /\ Carried(st.link.tx) /\ Budgeted(st.link)
    /\ st.link.backlog <= st.submitted
    /\ st.link.session_id \in Slots
    /\ st.sessions[st.link.session_id] # NoSession
    /\ st.sessions[st.link.session_id].state \in {"Established", "Disconnecting"}
    /\ st.sessions[st.link.session_id].remote = st.link.remote

\* What the notices add up to, at each stage of the session.
Follows(state, told) ==
    CASE state = "Connecting" -> told = "disconnected"
      [] state = "Accepting" -> told = "pending"
      [] state = "Established" -> told = "connected"
      [] OTHER -> told \in {"connected", "disconnected"}

SoundSession(st, i) ==
    /\ \A j \in Slots : st.sessions[j] # NoSession => j = i
    /\ st.sessions[i].state = "Disconnecting" <=> st.pending = i
    /\ Follows(st.sessions[i].state, st.told)

Idle(st) ==
    /\ \A i \in Slots : st.sessions[i] = NoSession
    /\ st.pending = NoSlot /\ st.told = "disconnected"

(***************************************************************************)
(* One station.  Its session, its link, the pending DISCONNECT and what    *)
(* its hosts were told move together.                                      *)
(***************************************************************************)
Sound(st) ==
    /\ st \in Shape
    /\ st.link # NoLink => SoundLink(st)
    /\ st.reported = Buffered_(st)
    /\ st.pending # NoSlot => st.sessions[st.pending] # NoSession
    /\ \/ Idle(st)
       \/ \E i \in Slots : st.sessions[i] # NoSession /\ SoundSession(st, i)

\* A drain that the channel held back is remembered.
Unparked(st) == Ready(st) /\ ~Transmitting(st) => st.held

SessionInv ==
    /\ station \in [Stations -> Shape]
    /\ \A s \in Stations : Sound(station[s]) /\ Unparked(station[s])

-----------------------------------------------------------------------------
(* Constants, and the two sentinels. *)

\* The constants in the form the steps need.
LEMMA Constants ==
    /\ SeqMod \in Nat /\ SeqMod >= 4 /\ Ring \in Nat \ {0} /\ 0 \in SeqNum /\ SeqNum \subseteq Nat
    /\ CountMax \in Nat /\ MaxRetransmit \in Nat /\ MaxRetransmit + 1 <= CountMax /\ Grant \in Nat
    /\ NoEvidenceTicks \in Nat /\ NoEvidenceTicks >= 1 /\ NoEvidenceTicks + 1 <= Grant
    /\ SessionTicks \in Nat \ {0} /\ MaxPayload \in Nat \ {0}
    /\ Slots \subseteq Nat /\ NoSlot \notin Slots
    /\ HalfSpace \in Nat /\ HalfSpace >= 2
  <1>1. SeqMod \in Nat /\ SeqMod >= 4
    BY ArqAssumption
  <1>2. HalfSpace \in Nat /\ HalfSpace >= 2
    BY <1>1 DEF HalfSpace
  <1>3. 0 \in SeqNum /\ SeqNum \subseteq Nat
    BY <1>1 DEF SeqNum
  <1>4. QED
    BY <1>1, <1>2, <1>3, ArqAssumption, SessionAssumption

\* Sequence numbers are integers, and the mark of an empty slot is none.
LEMMA SeqInt == \A q \in SeqNum : q \in Int /\ q # SeqMod
  BY ArqAssumption DEF SeqNum

\* The number after one is one.
LEMMA NextSeq ==
    ASSUME NEW q \in SeqNum
    PROVE  WrapAdd(q, 1) \in SeqNum /\ WrapAdd(q, 1) \in Int
  <1>1. q \in Int /\ 1 \in Int
    BY SeqInt
  <1>2. WrapAdd(q, 1) \in SeqNum
    BY <1>1, WrapType
  <1>3. QED
    BY <1>2, SeqInt

\* Two stations: the other one is another one.
LEMMA OtherStation ==
    ASSUME NEW s \in Stations
    PROVE  Other(s) \in Stations /\ Other(s) # s
  <1>1. \E p \in Stations : p # s
    <2>1. SUFFICES ASSUME Stations = {s} PROVE FALSE
      OBVIOUS
    <2>2. Cardinality(Stations) = 1
      BY <2>1, FS_Singleton
    <2>3. QED
      BY <2>2, SessionAssumption
  <1>2. QED
    BY <1>1 DEF Other

\* A session is not NoSession and a link is not NoLink, whose slot is none.
LEMMA Sentinels ==
    /\ \A x \in Session : x # NoSession
    /\ \A x \in LinkShape : x # NoLink
    /\ NoLink.session_id = NoSlot
  <1>1. "None" \notin SessionStates
    BY DEF SessionStates
  <1>2. QED
    BY <1>1, Constants DEF Session, NoSession, LinkShape, NoLink

\* Min({a, b}), as the clocks use it.
LEMMA MinPair ==
    ASSUME NEW a \in Nat, NEW b \in Nat
    PROVE  Min({a, b}) \in 0 .. b /\ Min({a, b}) <= a /\ (a <= b => Min({a, b}) = a)
  BY MinNat

-----------------------------------------------------------------------------
(* The stop-and-wait transmitter. *)

\* A fresh link has nothing out.
LEMMA NewCarries ==
    /\ ArqTxNew \in TxType(1 .. MaxPayload) /\ ArqRxNew \in RxType(0 .. MaxPayload)
    /\ InFlight(ArqTxNew) = 0 /\ Carried(ArqTxNew)
  <1>1. InFlight(ArqTxNew) = 0
    BY Constants DEF InFlight, WrapSub, ArqTxNew
  <1>2. QED
    BY <1>1, NewTx DEF Carried

\* Sequence numbers at one distance from a third are equal.
LEMMA SameSub ==
    ASSUME NEW a \in SeqNum, NEW b \in SeqNum, NEW c \in SeqNum, WrapSub(a, c) = WrapSub(b, c)
    PROVE  a = b
  <1>1. a \in Int /\ b \in Int /\ c \in Int /\ SeqMod \in Nat \ {0}
    BY SeqInt, Constants
  <1>2. a - c \in Int /\ b - c \in Int /\ (a - c) - (b - c) = a - b
    BY <1>1
  <1>3. (a - c) % SeqMod = (b - c) % SeqMod
    BY DEF WrapSub
  <1>4. a - c < SeqMod + (b - c) /\ b - c < SeqMod + (a - c)
    BY <1>1 DEF SeqNum
  <1>5. (a - c) - (b - c) < SeqMod /\ (b - c) - (a - c) < SeqMod
    BY <1>1, <1>4
  <1>6. a - c = b - c
    BY <1>1, <1>2, <1>3, <1>5, ModInj
  <1>7. QED
    BY <1>1, <1>6

\* ArqRx::receive with a window of one: the frame at the cursor is handed up and
\* the cursor moves, any other frame is ignored.
LEMMA ReceiveOne ==
    ASSUME NEW D, NEW r \in RxType(D), r.rx_buf = ArqRxNew.rx_buf, NEW q \in SeqNum, NEW d \in D
    PROVE  /\ q = r.recv_base =>
                 /\ RxDelivered(r, q, d, Window) = << d >>
                 /\ RxReceive(r, q, d, Window).recv_base = WrapAdd(r.recv_base, 1)
                 /\ RxReceive(r, q, d, Window).rx_buf = ArqRxNew.rx_buf
           /\ q # r.recv_base =>
                 RxDelivered(r, q, d, Window) = << >> /\ RxReceive(r, q, d, Window) = r
  <1> DEFINE b == r.recv_base
             i0 == SlotOf(b)
             buf == Buffered(r, q, d)
             n == RunLength(b, buf)
             passed == {SlotOf(WrapAdd(b, k)) : k \in 0 .. n - 1}
             out == [k \in 1 .. n |-> buf[SlotOf(WrapAdd(b, k - 1))].data]
             kept == [i \in Slot |-> IF i \in passed THEN NoData ELSE buf[i]]
  <1>1. b \in SeqNum /\ b \in Int /\ q \in Int /\ i0 \in Slot /\ Ring \in Nat \ {0}
    BY SeqInt, WrapType, Constants DEF RxType
  <1>2. InRxWindow(r, q, Window) <=> q = b
    <2>1. WrapSub(b, b) = 0 /\ WrapSub(q, b) \in SeqNum
      <3>1. b - b = 0 /\ 0 % SeqMod = 0
        BY <1>1, ModSmall, Constants
      <3>2. WrapSub(q, b) \in SeqNum
        BY <1>1, WrapType
      <3>3. QED
        BY <3>1, <3>2 DEF WrapSub
    <2>2. ASSUME WrapSub(q, b) = 0 PROVE q = b
      <3> HIDE DEF b
      <3>1. WrapSub(q, b) = WrapSub(b, b)
        BY <2>1, <2>2
      <3>2. QED
        BY <1>1, <3>1, SameSub
    <2>3. WrapSub(q, b) < 1 <=> WrapSub(q, b) = 0
      BY <2>1, Constants DEF SeqNum
    <2>4. QED
      BY <2>1, <2>2, <2>3 DEF InRxWindow, Window
  <1>3. CASE q # b
    BY <1>2, <1>3 DEF RxDelivered, RxReceive
  <1>4. CASE q = b
    <2>1. \A i \in Slot : r.rx_buf[i] = NoData
      BY DEF ArqRxNew
    <2>2. r.rx_buf \in [Slot -> RxCell(D)]
      BY DEF RxType
    <2>3. \A i \in Slot : buf[i] = IF i = i0 THEN [received |-> TRUE, data |-> d] ELSE NoData
      BY <1>1, <1>4, <2>1, <2>2 DEF Buffered, NoData
    <2> HIDE DEF buf
    <2>4. /\ n \in 0 .. Ring
          /\ \A k \in 0 .. n - 1 : buf[SlotOf(WrapAdd(b, k))].received
          /\ n = Ring \/ ~buf[SlotOf(WrapAdd(b, n))].received
      BY RunLengthProperties
    <2> HIDE DEF n
    <2>5. WrapAdd(b, 0) = b
      BY <1>1, ModSmall, Constants DEF WrapAdd, SeqNum
    <2>6. n # 0
      BY <1>1, <2>3, <2>4, <2>5
    <2>7. n < 2
      <3>1. SUFFICES ASSUME n >= 2 PROVE FALSE
        BY <2>4
      <3>2. Ring >= 2 /\ 1 \in 0 .. n - 1
        BY <1>1, <2>4, <3>1
      <3>3. SlotOf(WrapAdd(b, 1)) = (b + 1) % Ring /\ SlotOf(WrapAdd(b, 1)) \in Slot
        <4>1. b + 1 \in Int /\ 1 \in Int
          BY <1>1
        <4>2. SlotOf((b + 1) % SeqMod) = (b + 1) % Ring
          BY <4>1, SlotOfMod
        <4>3. SlotOf(WrapAdd(b, 1)) \in Slot
          BY <1>1, <4>1, SlotWrapType
        <4>4. QED
          BY <4>2, <4>3 DEF WrapAdd
      <3>4. SlotOf(WrapAdd(b, 1)) = i0
        <4>1. buf[SlotOf(WrapAdd(b, 1))].received
          BY <2>4, <3>2
        <4>2. ~NoData.received
          BY DEF NoData
        <4>3. QED
          BY <2>3, <3>3, <4>1, <4>2
      <3>5. b + 1 = b
        <4>1. (b + 1) % Ring = b % Ring
          BY <3>3, <3>4 DEF SlotOf
        <4>2. b + 1 \in Int /\ (b + 1) - b < Ring /\ b - (b + 1) < Ring
          BY <1>1, <3>2
        <4>3. QED
          BY <1>1, <4>1, <4>2, ModInj
      <3>6. QED
        BY <1>1, <3>5
    <2>8. n = 1
      BY <2>4, <2>6, <2>7, <1>1
    <2>9. out = << d >>
      BY <1>1, <2>3, <2>5, <2>8
    <2>10. passed = {i0}
      BY <2>5, <2>8
    <2>11. kept = ArqRxNew.rx_buf
      BY <2>3, <2>10 DEF ArqRxNew
    <2>12. RxDelivered(r, q, d, Window) = out
           /\ RxReceive(r, q, d, Window) = [recv_base |-> WrapAdd(b, n), rx_buf |-> kept]
      BY <1>2, <1>4 DEF RxDelivered, RxReceive, buf, n
    <2> HIDE DEF out, kept
    <2>13. QED
      BY <1>4, <2>8, <2>9, <2>11, <2>12
  <1>5. QED
    BY <1>3, <1>4

\* A segment sent into an empty window is the oldest one.
LEMMA SendCarries ==
    ASSUME NEW D, NEW t \in TxType(D), InFlight(t) = 0, NEW d \in D
    PROVE  /\ TxSend(t, d) \in TxType(D) /\ Carried(TxSend(t, d))
           /\ InFlight(TxSend(t, d)) = 1
           /\ TxSend(t, d).next_seq = WrapAdd(t.next_seq, 1)
           /\ Oldest(TxSend(t, d)).data = d /\ TxSend(t, d).tx_buf[SlotOf(t.next_seq)].data = d
  <1> DEFINE t2 == TxSend(t, d)
             new == [seq_num |-> t.next_seq, data |-> d, transmit_count |-> 1, acked |-> FALSE]
  <1>1. t.next_seq \in SeqNum /\ t.send_base \in SeqNum /\ t.next_seq \in Int /\ t.send_base \in Int
    BY DEF TxType, SeqNum
  <1>2. t.next_seq = t.send_base
    <2>1. (t.next_seq - t.send_base) % SeqMod = 0
      BY DEF InFlight, WrapSub
    <2>2. t.next_seq % SeqMod = t.next_seq /\ t.send_base % SeqMod = t.send_base
      BY <1>1, ModSmall, Constants DEF SeqNum
    <2>3. CASE t.next_seq < t.send_base
      <3>1. (t.next_seq - t.send_base) % SeqMod = (t.next_seq - t.send_base) + SeqMod
        BY <1>1, <2>3, ModSmall, Constants DEF SeqNum
      <3>2. QED
        BY <2>1, <3>1, <1>1, Constants DEF SeqNum
    <2>4. CASE t.next_seq >= t.send_base
      <3>1. (t.next_seq - t.send_base) % SeqMod = t.next_seq - t.send_base
        BY <1>1, <2>4, ModSmall, Constants DEF SeqNum
      <3>2. QED
        BY <2>1, <3>1, <1>1
    <2>5. QED
      BY <2>3, <2>4, <1>1
  <1>3. SlotOf(t.next_seq) \in Slot
    BY <1>1, WrapType
  <1>4. /\ t2.next_seq = WrapAdd(t.next_seq, 1) /\ t2.send_base = t.send_base
        /\ t2.tx_buf[SlotOf(t.next_seq)] = new
    BY <1>3 DEF TxSend, TxType
  <1>5. WrapSub(WrapAdd(t.next_seq, 1), t.next_seq) = 1
    <2>1. ((t.next_seq + 1) % SeqMod) - t.next_seq \in Int /\ t.next_seq + 1 \in Int
      <3>1. WrapAdd(t.next_seq, 1) \in Int
        BY <1>1, NextSeq
      <3>2. QED
        BY <1>1, <3>1 DEF WrapAdd
    <2>2. (((t.next_seq + 1) % SeqMod) - (t.next_seq % SeqMod)) % SeqMod
            = ((t.next_seq + 1) - t.next_seq) % SeqMod
      <3>1. SeqMod \in Nat \ {0}
        BY Constants
      <3>2. QED
        BY <1>1, <2>1, <3>1, ModSub
    <2>3. t.next_seq % SeqMod = t.next_seq
      BY <1>1, ModSmall, Constants DEF SeqNum
    <2>4. ((t.next_seq + 1) - t.next_seq) % SeqMod = 1
      <3>1. (t.next_seq + 1) - t.next_seq = 1 /\ 1 % SeqMod = 1
        BY <1>1, ModSmall, Constants
      <3>2. QED
        BY <3>1
    <2>5. QED
      BY <2>2, <2>3, <2>4 DEF WrapSub, WrapAdd
  <1>6. InFlight(t2) = 1
    BY <1>2, <1>4, <1>5 DEF InFlight
  <1>7. t2 \in TxType(D)
    BY TxSendType, Constants
  <1> HIDE DEF t2
  <1>8. Oldest(t2) = new
    BY <1>2, <1>4 DEF Oldest
  <1>9. QED
    BY <1>2, <1>4, <1>6, <1>7, <1>8 DEF Carried, t2

\* An ACK that fits empties the window, or changes nothing and reports nothing.
LEMMA AckCarries ==
    ASSUME NEW D, NEW t \in TxType(D), Carried(t), NEW n \in SeqNum,
           WrapSub(n, t.send_base) <= InFlight(t)
    PROVE  \/ ProcessAck(t, n, {}) = t /\ n = t.send_base
           \/ /\ ProcessAck(t, n, {}) \in TxType(D) /\ Carried(ProcessAck(t, n, {}))
              /\ InFlight(t) = 1 /\ InFlight(ProcessAck(t, n, {})) = 0
              /\ NewlyAcked(t, n, {}) # {}
              /\ ProcessAck(t, n, {}).next_seq = t.next_seq /\ n = t.next_seq
  <1> DEFINE t2 == ProcessAck(t, n, {})
             adv == CumulativeAdvance(t, n)
             diff == WrapSub(n, t.send_base)
             passed == {SlotOf(WrapAdd(t.send_base, k)) : k \in 0 .. adv - 1}
             sacked == {WrapAdd(n, bit + 1) : bit \in {}}
  <1>1. /\ t.next_seq \in SeqNum /\ t.send_base \in SeqNum /\ t.next_seq \in Int /\ t.send_base \in Int
        /\ n \in Int /\ t.tx_buf \in [Slot -> Segment(D) \cup {NoSegment}]
    BY DEF TxType, SeqNum
  <1>2. adv = diff /\ diff \in {0, 1}
    <2>1. diff \in SeqNum
      BY <1>1, WrapType
    <2>2. diff \in {0, 1}
      BY <2>1 DEF Carried, SeqNum
    <2>3. QED
      BY <2>2, Constants DEF CumulativeAdvance
  <1>3. /\ t2.next_seq = t.next_seq /\ t2.send_base = WrapAdd(t.send_base, adv)
        /\ t2 = [t EXCEPT !.send_base = WrapAdd(@, adv), !.tx_buf = [i \in Slot |->
                    IF i \in passed THEN NoSegment ELSE t.tx_buf[i]]]
    <2>1. sacked = {}
      OBVIOUS
    <2>2. QED
      BY <2>1 DEF ProcessAck, TxType
  <1>4. CASE diff = 0
    <2>1. passed = {}
      BY <1>2, <1>4
    <2>2. WrapAdd(t.send_base, 0) = t.send_base
      BY <1>1, ModSmall, Constants DEF WrapAdd, SeqNum
    <2>3. [i \in Slot |-> IF i \in passed THEN NoSegment ELSE t.tx_buf[i]] = t.tx_buf
      BY <2>1, <1>1
    <2> HIDE DEF passed
    <2>4. t2 = [t EXCEPT !.send_base = t.send_base, !.tx_buf = t.tx_buf]
      BY <1>2, <1>3, <1>4, <2>2, <2>3
    <2>5. n = t.send_base
      <3>1. WrapSub(t.send_base, t.send_base) = 0
        BY <1>1, ModSmall, Constants DEF WrapSub
      <3>2. QED
        BY <1>1, <1>4, <3>1, SameSub
    <2>6. QED
      BY <2>4, <2>5 DEF TxType
  <1>5. CASE diff = 1
    <2>1. InFlight(t) = 1
      BY <1>5 DEF Carried
    <2>2. t2 \in TxType(D)
      BY ProcessAckType
    <2>3. InFlight(t2) = 0
      <3>1. (t.next_seq - t.send_base) % SeqMod = 1 /\ WrapSub(t.next_seq, WrapAdd(t.send_base, 1)) \in Int
        <4>1. WrapAdd(t.send_base, 1) \in Int
          BY <1>1, NextSeq
        <4>2. WrapSub(t.next_seq, WrapAdd(t.send_base, 1)) \in Int
          BY <1>1, <4>1, WrapType, SeqInt
        <4>3. QED
          BY <2>1, <4>2 DEF InFlight, WrapSub
      <3>2. ((t.next_seq % SeqMod) - ((t.send_base + 1) % SeqMod)) % SeqMod
               = (t.next_seq - (t.send_base + 1)) % SeqMod
        <4>1. t.send_base + 1 \in Int /\ SeqMod \in Nat \ {0}
          BY <1>1, Constants
        <4>2. QED
          BY <1>1, <4>1, ModSub
      <3>3. ((((t.next_seq - t.send_base) % SeqMod) - (1 % SeqMod))) % SeqMod
               = ((t.next_seq - t.send_base) - 1) % SeqMod
        <4>1. t.next_seq - t.send_base \in Int /\ 1 \in Int /\ SeqMod \in Nat \ {0}
          BY <1>1, Constants
        <4>2. QED
          BY <4>1, ModSub
      <3>4. t.next_seq % SeqMod = t.next_seq /\ 1 % SeqMod = 1 /\ 0 % SeqMod = 0
        BY <1>1, ModSmall, Constants DEF SeqNum
      <3>5. (t.next_seq - t.send_base) - 1 = t.next_seq - (t.send_base + 1)
        BY <1>1
      <3>6. (t.next_seq - (t.send_base + 1)) % SeqMod = 0
        BY <3>1, <3>3, <3>4, <3>5
      <3>7. QED
        BY <1>2, <1>3, <1>5, <3>2, <3>4, <3>6 DEF InFlight, WrapSub, WrapAdd
    <2>4. SlotOf(t.send_base) \in passed
      <3>1. WrapAdd(t.send_base, 0) = t.send_base
        BY <1>1, ModSmall, Constants DEF WrapAdd, SeqNum
      <3>2. 0 \in 0 .. adv - 1
        BY <1>2, <1>5
      <3>3. QED
        BY <3>1, <3>2
    <2>5. NewlyAcked(t, n, {}) # {}
      <3>1. SlotOf(t.send_base) \in Slot /\ t.send_base # SeqMod
        BY <1>1, WrapType, SeqInt
      <3>2. Oldest(t) # NoSegment /\ ~Oldest(t).acked
        BY <2>1, <3>1 DEF Carried, NoSegment
      <3>3. SlotOf(t.send_base) \in {j \in Slot :
                /\ t.tx_buf[j] # NoSegment /\ ~t.tx_buf[j].acked
                /\ j \in passed \/ t.tx_buf[j].seq_num \in sacked}
        BY <2>4, <3>1, <3>2 DEF Oldest
      <3>4. QED
        BY <3>3 DEF NewlyAcked
    <2>6. n = t.next_seq
      BY <1>1, <1>5, <2>1, SameSub DEF WrapSub, InFlight
    <2>7. QED
      BY <1>3, <2>1, <2>2, <2>3, <2>5, <2>6 DEF Carried
  <1>6. QED
    BY <1>2, <1>4, <1>5

\* A retransmission counts one attempt, up to where the count saturates.
LEMMA RetransmitCarries ==
    ASSUME NEW D, NEW t \in TxType(D), Carried(t), InFlight(t) = 1, NEW S \in SUBSET SeqNum
    PROVE  LET t2 == MarkRetransmitted(t, S)
           IN /\ t2 \in TxType(D) /\ Carried(t2) /\ InFlight(t2) = 1
              /\ Oldest(t).transmit_count \in 0 .. CountMax
              /\ Oldest(t2).transmit_count \in 0 .. CountMax
              /\ Oldest(t2).transmit_count <= Oldest(t).transmit_count + 1
              /\ Oldest(t2).data = Oldest(t).data /\ t2.next_seq = t.next_seq
              /\ Oldest(t).data \in D
  <1> DEFINE t2 == MarkRetransmitted(t, S)
             i == SlotOf(t.send_base)
             counted == [Oldest(t) EXCEPT !.transmit_count = IF @ < CountMax THEN @ + 1 ELSE @]
  <1>1. t2 \in TxType(D)
    BY MarkRetransmittedType
  <1>2. i \in Slot /\ t.send_base # SeqMod
    BY WrapType, Constants DEF TxType, SeqNum
  <1>3. Oldest(t) \in Segment(D)
    <2>1. Oldest(t) \in Segment(D) \cup {NoSegment}
      BY <1>2 DEF Oldest, TxType
    <2>2. Oldest(t).seq_num # NoSegment.seq_num
      BY <1>2 DEF Carried, NoSegment
    <2>3. QED
      BY <2>1, <2>2
  <1>4. t2.send_base = t.send_base /\ t2.next_seq = t.next_seq
        /\ t2.tx_buf[i] \in {counted, t.tx_buf[i]}
    BY <1>2 DEF MarkRetransmitted, TxType, Oldest
  <1> HIDE DEF t2, counted
  <1>5. Oldest(t2) \in {counted, Oldest(t)} /\ InFlight(t2) = 1
    BY <1>4 DEF Oldest, InFlight
  <1>6. /\ counted.seq_num = Oldest(t).seq_num /\ counted.acked = Oldest(t).acked
        /\ counted.data = Oldest(t).data /\ Oldest(t).data \in D
        /\ Oldest(t).transmit_count \in 0 .. CountMax
        /\ counted.transmit_count \in 0 .. CountMax
        /\ counted.transmit_count <= Oldest(t).transmit_count + 1
    BY <1>3, Constants DEF Segment, counted
  <1>7. Carried(t2)
    BY <1>4, <1>5, <1>6 DEF Carried
  <1>8. QED
    BY <1>1, <1>4, <1>5, <1>6, <1>7 DEF t2

-----------------------------------------------------------------------------
(* What a host can see of a step, and the table a step leaves alone. *)

\* Nothing a host can see has changed.
Quiet(x, y) == Stage(y) = Stage(x) /\ y.told = x.told /\ y.reported = x.reported

\* The same sessions in the same states, and the same pending DISCONNECT.
SameTable(x, y) ==
    /\ y.pending = x.pending /\ y.told = x.told
    /\ \A i \in Slots :
          /\ y.sessions[i] = NoSession <=> x.sessions[i] = NoSession
          /\ x.sessions[i] # NoSession =>
                y.sessions[i].state = x.sessions[i].state /\ y.sessions[i].remote = x.sessions[i].remote

\* And the same cursors, payloads and frames: only clocks, the budget or BUFFER moved.
Alike(x, y) ==
    /\ y.air = x.air /\ y.sid = x.sid /\ y.submitted = x.submitted /\ y.ended = x.ended
    /\ SameTable(x, y)
    /\ y.link = NoLink <=> x.link = NoLink
    /\ x.link # NoLink =>
          /\ y.link.session_id = x.link.session_id /\ y.link.remote = x.link.remote
          /\ y.link.backlog = x.link.backlog /\ y.link.rx = x.link.rx
          /\ y.link.tx.next_seq = x.link.tx.next_seq
          /\ InFlight(y.link.tx) = InFlight(x.link.tx) /\ Oldest(y.link.tx).data = Oldest(x.link.tx).data

\* No session, no link, and the hosts know it.
Over(st) == st \in Shape /\ Idle(st) /\ st.link = NoLink /\ st.reported = 0

\* The step ended a session or an attempt, and an attempt had no BUFFER.
Ends(x, y) ==
    /\ Over(y)
    /\ Stage(x) # "idle" /\ (Stage(x) = "offered" => x.reported = 0)

\* The stage of a session in the given state.
StageOf(state) ==
    CASE state = "Connecting" -> "calling"
      [] state = "Accepting" -> "offered"
      [] state = "Established" -> "up"
      [] OTHER -> "closing"

\* Min of a nonempty set of slots is one of them.
LEMMA MinIn ==
    ASSUME NEW ids \in SUBSET Slots, ids # {}
    PROVE  Min(ids) \in ids /\ Min(ids) \in Slots
  BY MinNat, Constants

\* The stage is that of the one session there is.
LEMMA StageIs ==
    ASSUME NEW st \in Shape
    PROVE  /\ (\A i \in Slots : st.sessions[i] = NoSession) => Stage(st) = "idle" /\ Active(st) = {}
           /\ \A i \in Slots :
                 st.sessions[i] # NoSession /\ (\A j \in Slots : st.sessions[j] # NoSession => j = i)
                   => Stage(st) = StageOf(st.sessions[i].state) /\ Active(st) = {i}
  <1>1. ASSUME NEW i \in Slots, st.sessions[i] # NoSession,
               \A j \in Slots : st.sessions[j] # NoSession => j = i
        PROVE  Stage(st) = StageOf(st.sessions[i].state) /\ Active(st) = {i}
    <2>1. Active(st) = {i}
      BY <1>1 DEF Active
    <2>2. Min(Active(st)) = i /\ Active(st) # {}
      BY <2>1, MinIn
    <2>3. QED
      BY <2>1, <2>2 DEF Stage, StageOf, StateOf
  <1>2. (\A i \in Slots : st.sessions[i] = NoSession) => Stage(st) = "idle" /\ Active(st) = {}
    BY DEF Stage, Active
  <1>3. QED
    BY <1>1, <1>2

\* Everything known of a session that is there.
LEMMA Only ==
    ASSUME NEW st, Sound(st), NEW id \in Slots, st.sessions[id] # NoSession
    PROVE  /\ st \in Shape /\ st.sessions[id] \in Session /\ SoundSession(st, id)
           /\ Active(st) = {id} /\ Stage(st) = StageOf(st.sessions[id].state)
           /\ st.pending \in {NoSlot, id}
           /\ st.link = NoLink => st.reported = 0
           /\ st.link # NoLink => SoundLink(st) /\ st.link.session_id = id
  <1>1. st \in Shape /\ st.sessions \in Table /\ st.pending \in Slots \cup {NoSlot}
    BY DEF Sound, Shape
  <1>2. st.sessions[id] \in Session
    BY <1>1 DEF Table
  <1>3. SoundSession(st, id)
    <2>1. PICK i \in Slots : st.sessions[i] # NoSession /\ SoundSession(st, i)
      BY DEF Sound, Idle
    <2>2. i = id
      BY <2>1 DEF SoundSession
    <2>3. QED
      BY <2>1, <2>2
  <1>4. Active(st) = {id} /\ Stage(st) = StageOf(st.sessions[id].state)
    BY <1>1, <1>3, StageIs DEF SoundSession
  <1>5. st.pending \in {NoSlot, id}
    BY <1>1, <1>3 DEF Sound, SoundSession
  <1>6. st.link # NoLink => SoundLink(st) /\ st.link.session_id = id
    BY <1>3 DEF Sound, SoundSession, SoundLink
  <1>7. st.link = NoLink => st.reported = 0
    BY DEF Sound, Buffered_
  <1>8. QED
    BY <1>1, <1>2, <1>3, <1>4, <1>5, <1>6, <1>7

\* Without a session there is no link.
LEMMA NoneThere ==
    ASSUME NEW st, Sound(st), \A i \in Slots : st.sessions[i] = NoSession
    PROVE  Over(st)
  BY DEF Sound, Over, Idle, SoundLink, Buffered_

\* A station without a session is sound.
LEMMA OverSound ==
    ASSUME NEW st, Over(st)
    PROVE  /\ Sound(st) /\ Unparked(st) /\ Stage(st) = "idle" /\ Active(st) = {}
           /\ st.pending = NoSlot /\ st.told = "disconnected" /\ st.reported = 0
  <1>1. Stage(st) = "idle" /\ Active(st) = {}
    BY StageIs DEF Over, Idle
  <1>2. Sound(st)
    BY DEF Over, Idle, Sound, Buffered_
  <1>3. QED
    BY <1>1, <1>2 DEF Over, Idle, Unparked, Ready

\* A step that leaves the table alone keeps the invariant if its link is sound.
LEMMA SameTableSound ==
    ASSUME NEW x, Sound(x), NEW y \in Shape, SameTable(x, y),
           y.link # NoLink => SoundLink(y), y.reported = Buffered_(y)
    PROVE  Sound(y) /\ Stage(y) = Stage(x)
  <1>1. x \in Shape /\ x.pending \in Slots \cup {NoSlot}
    BY DEF Sound, Shape
  <1>2. y.pending # NoSlot => y.sessions[y.pending] # NoSession
    BY <1>1 DEF Sound, SameTable
  <1>3. CASE Idle(x)
    <2>1. Idle(y)
      BY <1>3 DEF Idle, SameTable
    <2>2. Stage(y) = "idle" /\ Stage(x) = "idle"
      BY <1>1, <1>3, <2>1, StageIs DEF Idle
    <2>3. QED
      BY <1>2, <2>1, <2>2 DEF Sound
  <1>4. ASSUME NEW i \in Slots, x.sessions[i] # NoSession, SoundSession(x, i)
        PROVE  Sound(y) /\ Stage(y) = Stage(x)
    <2>1. y.sessions[i] # NoSession /\ SoundSession(y, i)
      BY <1>4 DEF SameTable, SoundSession
    <2>2. Stage(x) = StageOf(x.sessions[i].state) /\ Stage(y) = StageOf(y.sessions[i].state)
      BY <1>1, <1>4, <2>1, StageIs DEF SoundSession
    <2>3. QED
      BY <1>2, <1>4, <2>1, <2>2 DEF Sound, SameTable
  <1>5. QED
    BY <1>3, <1>4 DEF Sound

-----------------------------------------------------------------------------
(* Frames, the keyed interval, and the clock of a session. *)

\* What a station keys is a frame.
LEMMA Frames ==
    ASSUME NEW st \in Shape
    PROVE  /\ \A type \in FrameTypes, dest \in Parties : Control(st, type, dest) \in AirFrame
           /\ st.link # NoLink => AckFrame(st) \in AirFrame
           /\ st.link # NoLink => \A q \in SeqNum : DataFrame(st, q) \in AirFrame
  <1>1. st.sid \in Nat
    BY DEF Shape
  <1>2. ASSUME NEW type \in FrameTypes, NEW dest \in Parties
        PROVE  Control(st, type, dest) \in AirFrame
    BY <1>1, Constants DEF Control, AirFrame
  <1>3. ASSUME st.link # NoLink
        PROVE  /\ st.link.remote \in Parties /\ AckInfo(st.link.rx).ack_num \in SeqNum
               /\ st.link.tx.tx_buf \in [Slot -> Segment(1 .. MaxPayload) \cup {NoSegment}]
    <2>1. st.link \in LinkShape
      BY <1>3 DEF Shape
    <2>2. QED
      BY <2>1, AckInfoType DEF LinkShape, TxType
  <1>4. ASSUME st.link # NoLink PROVE AckFrame(st) \in AirFrame
    BY <1>1, <1>3, <1>4, Constants DEF AckFrame, AirFrame, FrameTypes
  <1>5. ASSUME st.link # NoLink, NEW q \in SeqNum PROVE DataFrame(st, q) \in AirFrame
    <2>1. SlotOf(q) \in Slot
      BY WrapType, SeqInt
    <2>2. st.link.tx.tx_buf[SlotOf(q)].data \in 0 .. MaxPayload
      BY <1>3, <1>5, <2>1, Constants DEF Segment, NoSegment
    <2>3. QED
      BY <1>1, <1>3, <1>5, <2>2 DEF DataFrame, AirFrame, FrameTypes
  <1>6. QED
    BY <1>2, <1>4, <1>5

\* A station keyed with other frames.
LEMMA Keyed ==
    ASSUME NEW x \in Shape, NEW a \in Seq(AirFrame)
    PROVE  LET y == [x EXCEPT !.air = a]
           IN /\ y \in Shape /\ y.air = a /\ SameTable(x, y) /\ y.sessions = x.sessions
              /\ y.link = x.link /\ y.held = x.held
              /\ y.reported = x.reported /\ y.submitted = x.submitted
              /\ y.sid = x.sid /\ y.ended = x.ended
              /\ Sound(x) => Sound(y) /\ Quiet(x, y)
  <1> DEFINE y == [x EXCEPT !.air = a]
  <1>1. /\ y \in Shape /\ y.air = a /\ y.sessions = x.sessions /\ y.pending = x.pending
        /\ y.told = x.told /\ y.link = x.link /\ y.held = x.held
        /\ y.reported = x.reported /\ y.submitted = x.submitted
        /\ y.sid = x.sid /\ y.ended = x.ended
    BY DEF Shape
  <1> HIDE DEF y
  <1>2. SameTable(x, y)
    BY <1>1 DEF SameTable
  <1>3. ASSUME Sound(x) PROVE Sound(y) /\ Quiet(x, y)
    <2>1. y.link # NoLink => SoundLink(y)
      BY <1>1, <1>3 DEF Sound, SoundLink
    <2>2. y.reported = Buffered_(y)
      BY <1>1, <1>3 DEF Sound, Buffered_
    <2>3. QED
      BY <1>1, <1>2, <1>3, <2>1, <2>2, SameTableSound DEF Quiet
  <1>4. QED
    BY <1>1, <1>2, <1>3 DEF y

\* transmit_samples adds a frame unless the channel is held.
LEMMA TransmitKeys ==
    ASSUME NEW x \in Shape, NEW f \in AirFrame
    PROVE  \E a \in Seq(AirFrame) :
              /\ Transmit(x, f) = [x EXCEPT !.air = a]
              /\ a \in {x.air, Append(x.air, f)}
              /\ x.air # << >> \/ ~Blocked(x) => a # << >>
  <1>1. x.air \in Seq(AirFrame)
    BY DEF Shape
  <1>2. Append(x.air, f) \in Seq(AirFrame) /\ Append(x.air, f) # << >>
    BY <1>1
  <1>3. x = [x EXCEPT !.air = x.air]
    BY DEF Shape
  <1>4. CASE Blocked(x)
    BY <1>1, <1>3, <1>4 DEF Transmit
  <1>5. CASE ~Blocked(x)
    <2>1. Transmit(x, f) = [x EXCEPT !.air = Append(x.air, f)]
      BY <1>5 DEF Transmit
    <2>2. QED
      BY <1>2, <2>1
  <1>6. QED
    BY <1>4, <1>5

\* Activity restarts the clock of a session and changes nothing else.
LEMMA TouchKeeps ==
    ASSUME NEW x \in Shape, NEW id \in Slots, x.sessions[id] # NoSession
    PROVE  LET y == Touch(x, id)
           IN /\ y \in Shape /\ SameTable(x, y) /\ y.link = x.link /\ y.held = x.held
              /\ y.air = x.air /\ y.reported = x.reported /\ y.submitted = x.submitted
              /\ y.sid = x.sid /\ y.ended = x.ended
              /\ \A i \in Slots : y.sessions[i] # NoSession => y.sessions[i].outer = x.sessions[i].outer
              /\ Sound(x) => Sound(y) /\ Quiet(x, y)
  <1> DEFINE y == Touch(x, id)
             z == [x.sessions[id] EXCEPT !.idle = 0]
  <1>1. x.sessions \in Table /\ x.sessions[id] \in Session
    BY DEF Shape, Table
  <1>2. /\ z \in Session /\ z.state = x.sessions[id].state /\ z.remote = x.sessions[id].remote
        /\ z.outer = x.sessions[id].outer
    BY <1>1, Constants DEF Session
  <1>3. /\ y.sessions = [x.sessions EXCEPT ![id] = z]
        /\ y.pending = x.pending /\ y.told = x.told /\ y.link = x.link /\ y.held = x.held
        /\ y.air = x.air /\ y.reported = x.reported /\ y.submitted = x.submitted
        /\ y.sid = x.sid /\ y.listening = x.listening /\ y.ended = x.ended
        /\ y = [x EXCEPT !.sessions = [x.sessions EXCEPT ![id] = z]]
    BY DEF Touch, Shape
  <1> HIDE DEF z
  <1>4. [x.sessions EXCEPT ![id] = z] \in Table
    BY <1>1, <1>2 DEF Table
  <1>5. y \in Shape
    BY <1>3, <1>4 DEF Shape
  <1> HIDE DEF y
  <1>6. SameTable(x, y) /\ \A i \in Slots : y.sessions[i] # NoSession => y.sessions[i].outer = x.sessions[i].outer
    BY <1>1, <1>2, <1>3, Sentinels DEF SameTable, Table
  <1>7. ASSUME Sound(x) PROVE Sound(y) /\ Quiet(x, y)
    <2>1. y.link # NoLink => SoundLink(y)
      BY <1>1, <1>3, <1>6, <1>7 DEF Sound, SoundLink, SameTable
    <2>2. y.reported = Buffered_(y)
      BY <1>3, <1>7 DEF Sound, Buffered_
    <2>3. QED
      BY <1>3, <1>5, <1>6, <1>7, <2>1, <2>2, SameTableSound DEF Quiet
  <1>8. QED
    BY <1>3, <1>5, <1>6, <1>7 DEF y

-----------------------------------------------------------------------------
(* The link. *)

\* What is known of a link that is there.
LEMMA LinkFacts ==
    ASSUME NEW st, Sound(st), st.link # NoLink
    PROVE  /\ st \in Shape /\ st.link \in LinkShape /\ SoundLink(st)
           /\ st.link.tx \in TxType(1 .. MaxPayload) /\ Carried(st.link.tx)
           /\ InFlight(st.link.tx) \in {0, 1}
           /\ st.link.backlog \in Nat /\ st.reported = st.link.backlog + InFlight(st.link.tx)
           /\ st.link.session_id \in Slots /\ st.sessions[st.link.session_id] # NoSession
           /\ st.link.tx.send_base \in SeqNum /\ st.link.tx.next_seq \in SeqNum
           /\ Oldest(st.link.tx).transmit_count \in 0 .. CountMax
  <1>1. st \in Shape /\ st.link \in LinkShape /\ SoundLink(st)
    BY DEF Sound, Shape
  <1>2. st.link.tx \in TxType(1 .. MaxPayload) /\ Carried(st.link.tx) /\ InFlight(st.link.tx) \in {0, 1}
    BY <1>1 DEF LinkShape, SoundLink, Carried
  <1>3. st.link.backlog \in Nat /\ st.reported = st.link.backlog + InFlight(st.link.tx)
    BY <1>1 DEF LinkShape, Sound, Buffered_
  <1>4. st.link.tx.send_base \in SeqNum /\ st.link.tx.next_seq \in SeqNum
        /\ st.link.tx.tx_buf \in [Slot -> Segment(1 .. MaxPayload) \cup {NoSegment}]
    BY <1>2 DEF TxType
  <1>5. SlotOf(st.link.tx.send_base) \in Slot
    BY <1>4, WrapType, SeqInt
  <1>6. Oldest(st.link.tx).transmit_count \in 0 .. CountMax
    BY <1>4, <1>5, Constants DEF Oldest, Segment, NoSegment
  <1>7. QED
    BY <1>1, <1>2, <1>3, <1>4, <1>6 DEF SoundLink

\* A station whose link has changed, and the same once BUFFER is reported.
LEMMA Relinked ==
    ASSUME NEW x, Sound(x), x.link # NoLink,
           NEW l \in LinkShape, l.session_id = x.link.session_id, l.remote = x.link.remote,
           Carried(l.tx), Budgeted(l), l.backlog <= x.submitted
    PROVE  LET y == [x EXCEPT !.link = l]
           IN /\ y \in Shape /\ y.link = l /\ SameTable(x, y) /\ y.sessions = x.sessions
              /\ y.held = x.held /\ y.air = x.air /\ y.submitted = x.submitted /\ y.reported = x.reported
              /\ y.sid = x.sid /\ y.ended = x.ended
              /\ SoundLink(y)
              /\ l.backlog + InFlight(l.tx) = x.link.backlog + InFlight(x.link.tx)
                   => Sound(y) /\ Quiet(x, y)
              /\ Sound(ReportBuffer(y)) /\ SameTable(x, ReportBuffer(y))
              /\ ReportBuffer(y).link = l /\ ReportBuffer(y).air = x.air /\ ReportBuffer(y).held = x.held
              /\ ReportBuffer(y).sid = x.sid /\ ReportBuffer(y).ended = x.ended
              /\ ReportBuffer(y).submitted = x.submitted
              /\ ReportBuffer(y).reported = l.backlog + InFlight(l.tx)
              /\ Stage(ReportBuffer(y)) = Stage(x)
  <1> DEFINE y == [x EXCEPT !.link = l]
             z == ReportBuffer(y)
  <1>1. x \in Shape /\ SoundLink(x) /\ x.reported = x.link.backlog + InFlight(x.link.tx)
    BY LinkFacts
  <1>2. /\ y \in Shape /\ y.link = l /\ y.sessions = x.sessions /\ y.pending = x.pending
        /\ y.told = x.told /\ y.held = x.held /\ y.air = x.air /\ y.submitted = x.submitted
        /\ y.reported = x.reported /\ y.sid = x.sid /\ y.ended = x.ended
    BY <1>1 DEF Shape
  <1> HIDE DEF y
  <1>3. SameTable(x, y) /\ SoundLink(y)
    BY <1>1, <1>2 DEF SameTable, SoundLink
  <1>4. Buffered_(y) = l.backlog + InFlight(l.tx) /\ Buffered_(y) \in Nat
    BY <1>2, Sentinels, Constants DEF Buffered_, Carried, LinkShape
  <1>5. /\ z \in Shape /\ z.link = l /\ z.sessions = x.sessions /\ z.pending = x.pending
        /\ z.told = x.told /\ z.held = x.held /\ z.air = x.air /\ z.submitted = x.submitted
        /\ z.reported = Buffered_(y) /\ z.sid = x.sid /\ z.ended = x.ended
    BY <1>2, <1>4 DEF ReportBuffer, Shape
  <1> HIDE DEF z
  <1>6. SameTable(x, z) /\ SoundLink(z) /\ Buffered_(z) = Buffered_(y)
    BY <1>2, <1>3, <1>5 DEF SameTable, SoundLink, Buffered_
  <1>7. Sound(z) /\ Stage(z) = Stage(x)
    BY <1>5, <1>6, SameTableSound
  <1>8. ASSUME l.backlog + InFlight(l.tx) = x.link.backlog + InFlight(x.link.tx)
        PROVE  Sound(y) /\ Quiet(x, y)
    BY <1>1, <1>2, <1>3, <1>4, <1>8, SameTableSound DEF Quiet, SameTable
  <1>9. QED
    BY <1>2, <1>3, <1>4, <1>5, <1>6, <1>7, <1>8 DEF y, z

\* The flag of a held-back drain.
LEMMA HeldKeeps ==
    ASSUME NEW x, Sound(x), NEW h \in BOOLEAN
    PROVE  LET y == [x EXCEPT !.held = h]
           IN /\ Sound(y) /\ Quiet(x, y) /\ SameTable(x, y)
              /\ y.held = h /\ y.link = x.link /\ y.air = x.air
              /\ Alike(x, y)
  <1> DEFINE y == [x EXCEPT !.held = h]
  <1>1. /\ y \in Shape /\ y.held = h /\ y.link = x.link /\ y.air = x.air /\ y.sessions = x.sessions
        /\ y.pending = x.pending /\ y.told = x.told /\ y.reported = x.reported /\ y.submitted = x.submitted
        /\ y.sid = x.sid /\ y.ended = x.ended
    BY DEF Sound, Shape
  <1> HIDE DEF y
  <1>2. SameTable(x, y) /\ (y.link # NoLink => SoundLink(y)) /\ y.reported = Buffered_(y)
    BY <1>1 DEF SameTable, Sound, SoundLink, Buffered_
  <1>3. Sound(y) /\ Quiet(x, y)
    BY <1>1, <1>2, SameTableSound DEF Quiet
  <1>4. QED
    BY <1>1, <1>2, <1>3 DEF y, Alike

-----------------------------------------------------------------------------
(* What one station can do to the sessions of both.  A payload that has    *)
(* been sent and not confirmed, the frame that carries it and the receive  *)
(* cursor it is for are at two stations, so that the invariant about them  *)
(* takes both; here is the part of it that is on one record, and what a    *)
(* function of the event loop may do that the other end relies on.         *)

OnAir(air) == {air[i] : i \in DOMAIN air}
Answers == {"ConnectAck", "Cfm", "Ack"}

\* The payloads of the session sent so far, and those that have left the window.
SentCount(st) == st.submitted - st.link.backlog
Confirmed(st) == SentCount(st) - InFlight(st.link.tx)

\* Sequence numbers count the payloads, and the window holds the last one.
CalmLink(st) ==
    /\ st.sid >= 1 /\ st.ended # "drained"
    /\ st.link.tx.next_seq = SentCount(st) % SeqMod
    /\ InFlight(st.link.tx) = 1 => Oldest(st.link.tx).data = SentCount(st)
    /\ st.link.rx.rx_buf = ArqRxNew.rx_buf
    /\ \A f \in OnAir(st.air) : IsData(f) =>
          f.dest = st.link.remote /\ f.data = SentCount(st) /\ InFlight(st.link.tx) = 1

\* The keyed interval: an answer is its first frame, and its data is one
\* payload of the last session.
CalmAir(st) ==
    /\ \A f \in OnAir(st.air) :
          /\ f.sid <= st.sid
          /\ IsData(f) => /\ f.sid = st.sid /\ st.sid >= 1
                          /\ f.data >= 1 /\ f.num = (f.data - 1) % SeqMod
          /\ f.type = "ConnectAck" => st.link = NoLink
          /\ f.type = "Cfm" /\ st.link # NoLink => st.link.rx.recv_base = 0
    /\ \A f, g \in OnAir(st.air) : IsData(g) => f.type # "ConnectAck" /\ (IsData(f) => f.data = g.data)
    /\ \A i \in DOMAIN st.air : st.air[i].type \in Answers => i = 1

\* An established session has its link, and nothing was sent without one.
CalmTable(st) ==
    /\ st.submitted > 0 => st.sid >= 1
    /\ \A i \in Slots : st.sessions[i] # NoSession =>
          /\ st.sessions[i].state = "Established" => st.link.session_id = i
          /\ st.sessions[i].state \in {"Connecting", "Disconnecting"} /\ st.link = NoLink => st.submitted = 0

Calm(st) == (st.link # NoLink => CalmLink(st)) /\ CalmAir(st) /\ CalmTable(st)

\* A drain without a link waits only for the end of the keyed interval.
Closing(st) ==
    \A i \in Slots : st.sessions[i] # NoSession /\ st.sessions[i].state = "Disconnecting" =>
        st.link.session_id = i \/ Transmitting(st)

\* What the other end sees of it, as a receiver: more may be sent, nothing is
\* confirmed, the data keyed is the payload to confirm next, and a drain ends
\* with all confirmed.
Sends(x, y) ==
    /\ y.sid = x.sid
    /\ y.link # NoLink =>
          /\ x.link # NoLink /\ y.link.remote = x.link.remote
          /\ Confirmed(y) = Confirmed(x) /\ SentCount(y) >= SentCount(x)
    /\ \A f \in OnAir(y.air) \ OnAir(x.air) :
          /\ f.type # "Cfm"
          /\ IsData(f) => x.link # NoLink /\ f.dest = x.link.remote /\ f.data = Confirmed(x) + 1
    /\ y.ended = "drained" /\ y.submitted > 0 =>
          \/ x.ended = "drained" /\ x.submitted = y.submitted
          \/ x.link # NoLink /\ y.submitted = Confirmed(x)

\* And as a sender: the cursor stays, and the ACKs keyed are of all before it.
Hears(x, y) ==
    /\ y.link # NoLink =>
          /\ x.link # NoLink /\ y.link.remote = x.link.remote
          /\ y.link.rx.recv_base = x.link.rx.recv_base
    /\ \A f \in OnAir(y.air) \ OnAir(x.air) :
          f.type = "Ack" => x.link # NoLink /\ f.dest = x.link.remote /\ f.num = x.link.rx.recv_base

\* Attempts at a session: those of a station, and those it has asked for.
Opening(st) ==
    IF \E i \in Slots : st.sessions[i] # NoSession /\ st.sessions[i].state \in {"Connecting", "Accepting"}
      THEN 1 ELSE 0
Reqs(air) == Cardinality({i \in DOMAIN air : air[i].type = "Req"})

\* A function that only sends, waits or ends a session.
Acts(x, y) ==
    /\ Sends(x, y) /\ Hears(x, y)
    /\ Opening(y) <= Opening(x) /\ Reqs(y.air) <= Reqs(x.air)
Moves(x, y) == Calm(x) => Calm(y) /\ Acts(x, y) /\ (Closing(x) => Closing(y))

\* Counts are integers.
LEMMA Counts ==
    ASSUME NEW st, Sound(st), st.link # NoLink
    PROVE  /\ SentCount(st) \in Int /\ Confirmed(st) \in Int /\ InFlight(st.link.tx) \in {0, 1}
           /\ SentCount(st) = Confirmed(st) + InFlight(st.link.tx)
           /\ 0 <= SentCount(st) /\ SentCount(st) <= st.submitted
  <1>1. st.submitted \in 0 .. MaxPayload /\ st.link.backlog \in Nat /\ InFlight(st.link.tx) \in {0, 1}
        /\ st.link.backlog <= st.submitted
    BY LinkFacts DEF Shape, SoundLink
  <1>2. QED
    BY <1>1, Constants DEF SentCount, Confirmed

\* A sequence with one frame more, and one without its first.
LEMMA MoreAir ==
    ASSUME NEW a \in Seq(AirFrame), NEW f \in AirFrame
    PROVE  LET b == Append(a, f)
           IN /\ OnAir(b) = OnAir(a) \cup {f} /\ b \in Seq(AirFrame) /\ b # << >>
              /\ (\A i \in DOMAIN a : a[i].type \in Answers => i = 1) /\ (f.type \in Answers => a = << >>)
                   => \A i \in DOMAIN b : b[i].type \in Answers => i = 1
              /\ Reqs(a) \in Nat /\ Reqs(b) = Reqs(a) + (IF f.type = "Req" THEN 1 ELSE 0)
  <1> DEFINE b == Append(a, f)
             n == Len(a)
             R == {i \in DOMAIN a : a[i].type = "Req"}
             S == {i \in DOMAIN b : b[i].type = "Req"}
  <1>1. /\ n \in Nat /\ b \in Seq(AirFrame) /\ DOMAIN a = 1 .. n /\ DOMAIN b = 1 .. n + 1
        /\ b[n + 1] = f /\ \A i \in 1 .. n : b[i] = a[i]
    OBVIOUS
  <1>2. (n + 1) \in 1 .. n + 1 /\ 1 .. n + 1 = (1 .. n) \cup {n + 1} /\ (n + 1) \notin 1 .. n
    BY <1>1
  <1> HIDE DEF b, n
  <1>3. OnAir(b) = OnAir(a) \cup {f}
    BY <1>1, <1>2 DEF OnAir
  <1>4. IsFiniteSet(R) /\ Cardinality(R) \in Nat
    <2>1. IsFiniteSet(1 .. n)
      BY <1>1, FS_Interval
    <2>2. R \subseteq 1 .. n
      BY <1>1
    <2>3. QED
      BY <2>1, <2>2, FS_Subset, FS_CardinalityType
  <1>5. Reqs(a) = Cardinality(R) /\ Reqs(b) = Cardinality(S)
    BY DEF Reqs
  <1>6. S = IF f.type = "Req" THEN R \cup {n + 1} ELSE R
    BY <1>1, <1>2
  <1>7. Reqs(a) \in Nat /\ Reqs(b) = Reqs(a) + (IF f.type = "Req" THEN 1 ELSE 0)
    <2>1. (n + 1) \notin R
      BY <1>1, <1>2
    <2> HIDE DEF R, S
    <2>2. Cardinality(R \cup {n + 1}) = Cardinality(R) + 1
      BY <1>4, <2>1, FS_AddElement
    <2>3. QED
      BY <1>4, <1>5, <1>6, <2>2
  <1>8. ASSUME \A i \in DOMAIN a : a[i].type \in Answers => i = 1, f.type \in Answers => a = << >>
        PROVE  \A i \in DOMAIN b : b[i].type \in Answers => i = 1
    <2>1. a = << >> => n = 0
      BY DEF n
    <2>2. QED
      BY <1>1, <1>2, <1>8, <2>1
  <1>9. b # << >>
    BY <1>1, <1>2, EmptySeq
  <1>10. QED
    BY <1>1, <1>3, <1>7, <1>8, <1>9 DEF b

\* The keyed interval when its first frame has played.
LEMMA LessAir ==
    ASSUME NEW a \in Seq(AirFrame), a # << >>
    PROVE  LET b == Tail(a)
           IN /\ b \in Seq(AirFrame) /\ OnAir(b) \subseteq OnAir(a) /\ OnAir(a) = OnAir(b) \cup {Head(a)}
              /\ Head(a) \in AirFrame
              /\ (\A i \in DOMAIN a : a[i].type \in Answers => i = 1) =>
                    /\ \A i \in DOMAIN b : b[i].type \in Answers => i = 1
                    /\ \A f \in OnAir(b) : f.type \notin Answers
              /\ Reqs(a) \in Nat /\ Reqs(b) \in Nat
              /\ Reqs(b) + (IF Head(a).type = "Req" THEN 1 ELSE 0) <= Reqs(a)
  <1> DEFINE b == Tail(a)
             n == Len(b)
             R == {i \in DOMAIN a : a[i].type = "Req"}
             S == {i \in DOMAIN b : b[i].type = "Req"}
             later == {i \in R : i # 1}
             g == [i \in S |-> i + 1]
  <1>1. /\ n \in Nat /\ b \in Seq(AirFrame) /\ DOMAIN b = 1 .. n /\ DOMAIN a = 1 .. n + 1
        /\ a[1] = Head(a) /\ \A i \in 1 .. n : b[i] = a[i + 1]
        /\ \A i \in 1 .. n + 1 : a[i] \in AirFrame
    OBVIOUS
  <1> HIDE DEF b, n
  <1>2. 1 \in 1 .. n + 1 /\ (\A i \in 1 .. n : i + 1 \in 1 .. n + 1 /\ i + 1 # 1)
        /\ \A i \in 1 .. n + 1 : i = 1 \/ (i - 1 \in 1 .. n /\ (i - 1) + 1 = i)
    BY <1>1
  <1>3. OnAir(b) \subseteq OnAir(a) /\ Head(a) \in OnAir(a) /\ Head(a) \in AirFrame
    BY <1>1, <1>2 DEF OnAir
  <1>4. OnAir(a) = OnAir(b) \cup {Head(a)}
    <2>1. ASSUME NEW f \in OnAir(a) PROVE f \in OnAir(b) \cup {Head(a)}
      <3>1. PICK i \in 1 .. n + 1 : f = a[i]
        BY <1>1 DEF OnAir
      <3>2. CASE i = 1
        BY <1>1, <3>1, <3>2
      <3>3. CASE i # 1
        <4>1. i - 1 \in 1 .. n /\ b[i - 1] = a[i]
          BY <1>1, <1>2, <3>3
        <4>2. QED
          BY <1>1, <3>1, <4>1 DEF OnAir
      <3>4. QED
        BY <3>2, <3>3
    <2>2. QED
      BY <1>3, <2>1
  <1>5. ASSUME \A i \in DOMAIN a : a[i].type \in Answers => i = 1
        PROVE  \A i \in DOMAIN b : b[i].type \notin Answers
    BY <1>1, <1>2, <1>5
  <1>6. IsFiniteSet(R) /\ Cardinality(R) \in Nat /\ IsFiniteSet(S) /\ Cardinality(S) \in Nat
    <2>1. IsFiniteSet(1 .. n) /\ IsFiniteSet(1 .. n + 1)
      BY <1>1, FS_Interval
    <2>2. R \subseteq 1 .. n + 1 /\ S \subseteq 1 .. n
      BY <1>1
    <2>3. QED
      BY <2>1, <2>2, FS_Subset, FS_CardinalityType
  <1>7. IsFiniteSet(later) /\ Cardinality(later) \in Nat /\ Cardinality(S) <= Cardinality(later)
    <2>1. IsFiniteSet(later)
      BY <1>6, FS_Subset
    <2>2. g \in Injection(S, later)
      <3>1. \A i \in S : i + 1 \in later
        BY <1>1, <1>2
      <3>2. \A i, j \in S : i + 1 = j + 1 => i = j
        BY <1>1
      <3> HIDE DEF S, later
      <3>3. QED
        BY <3>1, <3>2 DEF Injection, IsInjective
    <2> HIDE DEF S, later, g
    <2>3. QED
      BY <2>1, <2>2, FS_Injection, FS_CardinalityType DEF ExistsInjection
  <1>8. Cardinality(later) + (IF Head(a).type = "Req" THEN 1 ELSE 0) <= Cardinality(R)
    <2>1. CASE Head(a).type = "Req"
      <3>1. R = later \cup {1} /\ 1 \notin later
        BY <1>1, <1>2, <2>1
      <3> HIDE DEF R, later
      <3>2. Cardinality(R) = Cardinality(later) + 1
        BY <1>7, <3>1, FS_AddElement
      <3>3. QED
        BY <1>6, <1>7, <2>1, <3>2
    <2>2. CASE Head(a).type # "Req"
      <3>1. later \subseteq R
        OBVIOUS
      <3> HIDE DEF R, later
      <3>2. Cardinality(later) <= Cardinality(R)
        BY <1>6, <3>1, FS_Subset
      <3>3. QED
        BY <1>6, <1>7, <2>2, <3>2
    <2>3. QED
      BY <2>1, <2>2
  <1>9. Reqs(a) = Cardinality(R) /\ Reqs(b) = Cardinality(S)
    BY DEF Reqs
  <1> HIDE DEF R, S, later
  <1>10. /\ Reqs(a) \in Nat /\ Reqs(b) \in Nat
         /\ Reqs(b) + (IF Head(a).type = "Req" THEN 1 ELSE 0) <= Reqs(a)
    BY <1>6, <1>7, <1>8, <1>9
  <1>11. QED
    BY <1>1, <1>3, <1>4, <1>5, <1>10 DEF b, OnAir

\* No frame keyed.
LEMMA NoAir == OnAir(<< >>) = {} /\ DOMAIN << >> = {} /\ Reqs(<< >>) = 0
  <1>1. DOMAIN << >> = {}
    OBVIOUS
  <1>2. QED
    BY <1>1, FS_EmptySet DEF OnAir, Reqs

\* Requests on the air are counted.
LEMMA ReqsCount ==
    ASSUME NEW a \in Seq(AirFrame)
    PROVE  Reqs(a) \in Nat
  <1>1. Len(a) \in Nat /\ IsFiniteSet(1 .. Len(a)) /\ {i \in DOMAIN a : a[i].type = "Req"} \subseteq 1 .. Len(a)
    BY FS_Interval
  <1>2. QED
    BY <1>1, FS_Subset, FS_CardinalityType DEF Reqs

\* What the other end sees of two steps, and of two moves.
LEMMA SendsOn ==
    ASSUME NEW x, Sound(x), NEW y, Sound(y), NEW z, Sound(z),
           Sends(x, y), Hears(x, y), Sends(y, z), Hears(y, z)
    PROVE  Sends(x, z) /\ Hears(x, z)
  <1>2. Sends(x, y) /\ Sends(y, z) /\ Hears(x, y) /\ Hears(y, z)
    OBVIOUS
  <1>3. Sends(x, z)
    <2>1. /\ x.link # NoLink => SentCount(x) \in Int
          /\ y.link # NoLink => SentCount(y) \in Int
          /\ z.link # NoLink => SentCount(z) \in Int
      BY Counts
    <2>2. z.link # NoLink =>
             /\ x.link # NoLink /\ z.link.remote = x.link.remote
             /\ Confirmed(z) = Confirmed(x) /\ SentCount(z) >= SentCount(x)
      BY <1>2, <2>1 DEF Sends
    <2>3. ASSUME NEW f \in OnAir(z.air) \ OnAir(x.air)
          PROVE  /\ f.type # "Cfm"
                 /\ IsData(f) => x.link # NoLink /\ f.dest = x.link.remote /\ f.data = Confirmed(x) + 1
      <3>1. CASE f \in OnAir(y.air)
        BY <1>2, <2>3, <3>1 DEF Sends
      <3>2. CASE f \notin OnAir(y.air)
        BY <1>2, <2>3, <3>2 DEF Sends
      <3>3. QED
        BY <3>1, <3>2
    <2>4. QED
      BY <1>2, <2>2, <2>3 DEF Sends
  <1>4. Hears(x, z)
    BY <1>2 DEF Hears
  <1>5. QED
    BY <1>3, <1>4

\* What the other end sees of two steps in a row.
LEMMA ActsOn ==
    ASSUME NEW x, Sound(x), NEW y, Sound(y), NEW z, Sound(z), Acts(x, y), Acts(y, z)
    PROVE  Acts(x, z)
  <1>2. Acts(x, y) /\ Acts(y, z)
    OBVIOUS
  <1>3. Sends(x, z) /\ Hears(x, z)
    BY SendsOn DEF Acts
  <1>5. Opening(z) <= Opening(x) /\ Reqs(z.air) <= Reqs(x.air)
    <2>1. Reqs(x.air) \in Nat /\ Reqs(y.air) \in Nat /\ Reqs(z.air) \in Nat
      BY ReqsCount DEF Sound, Shape
    <2>2. Opening(x) \in Nat /\ Opening(y) \in Nat /\ Opening(z) \in Nat
      BY DEF Opening
    <2>3. QED
      BY <1>2, <2>1, <2>2 DEF Acts
  <1>6. QED
    BY <1>3, <1>5 DEF Acts

\* Moves compose.
LEMMA MovesOn ==
    ASSUME NEW x, Sound(x), NEW y, Sound(y), NEW z, Sound(z), Moves(x, y), Moves(y, z)
    PROVE  Moves(x, z)
  BY ActsOn DEF Moves

\* A change of the clocks, the budget or BUFFER is not seen.
LEMMA AlikeMoves ==
    ASSUME NEW x, Sound(x), NEW y, Sound(y), Alike(x, y)
    PROVE  Moves(x, y)
  <1>1. SUFFICES ASSUME Calm(x)
                 PROVE  Calm(y) /\ Acts(x, y) /\ (Closing(x) => Closing(y))
    BY DEF Moves
  <1>2. x.link # NoLink => /\ SentCount(y) = SentCount(x) /\ Confirmed(y) = Confirmed(x)
                           /\ SentCount(x) \in Int
    BY Counts DEF Alike, SentCount, Confirmed
  <1>3. y.link # NoLink => CalmLink(y)
    BY <1>1, <1>2 DEF Alike, Calm, CalmLink
  <1>4. CalmAir(y)
    BY <1>1 DEF Alike, Calm, CalmAir
  <1>5. y.link.session_id = x.link.session_id
    <2>1. y.link = NoLink => x.link = y.link
      BY DEF Alike
    <2>2. QED
      BY <2>1 DEF Alike
  <1>6. CalmTable(y) /\ (Closing(x) => Closing(y))
    BY <1>1, <1>5 DEF Alike, SameTable, Calm, CalmTable, Closing, Transmitting
  <1>7. Opening(y) = Opening(x)
    BY DEF Opening, Alike, SameTable
  <1>8. Opening(x) \in Nat /\ Reqs(x.air) \in Nat
    BY ReqsCount DEF Opening, Sound, Shape
  <1>9. Acts(x, y)
    BY <1>2, <1>7, <1>8 DEF Acts, Sends, Hears, Alike
  <1>10. QED
    BY <1>3, <1>4, <1>6, <1>9 DEF Calm

\* Doing nothing is a move.
LEMMA StillMoves ==
    ASSUME NEW x, Sound(x)
    PROVE  Moves(x, x)
  BY AlikeMoves DEF Alike, SameTable

\* What may be keyed.
MayKey(x, f) ==
    /\ f.sid = x.sid \/ (f.sid <= x.sid /\ ~IsData(f))
    /\ IsData(f) => /\ x.link # NoLink /\ InFlight(x.link.tx) = 1 /\ f.dest = x.link.remote
                    /\ f.data = SentCount(x) /\ f.data >= 1 /\ f.num = (f.data - 1) % SeqMod
    /\ f.type = "Ack" => x.link # NoLink /\ f.dest = x.link.remote /\ f.num = x.link.rx.recv_base
    /\ f.type = "ConnectAck" => x.link = NoLink
    /\ f.type = "Cfm" /\ x.link # NoLink => x.link.rx.recv_base = 0
    /\ f.type \in Answers => x.air = << >>

\* A frame joins the keyed interval, or was refused.
LEMMA KeyMoves ==
    ASSUME NEW x, Sound(x), NEW f \in AirFrame, MayKey(x, f), NEW a \in {x.air, Append(x.air, f)}
    PROVE  LET y == [x EXCEPT !.air = a]
           IN Calm(x) =>
                /\ Calm(y) /\ Hears(x, y) /\ (f.type # "Cfm" => Sends(x, y)) /\ (Closing(x) => Closing(y))
                /\ Opening(y) = Opening(x)
                /\ Reqs(y.air) <= Reqs(x.air) + (IF f.type = "Req" THEN 1 ELSE 0)
  <1> DEFINE y == [x EXCEPT !.air = a]
  <1>1. SUFFICES ASSUME Calm(x)
                 PROVE  /\ Calm(y) /\ Hears(x, y) /\ (f.type # "Cfm" => Sends(x, y)) /\ (Closing(x) => Closing(y))
                        /\ Opening(y) = Opening(x)
                        /\ Reqs(y.air) <= Reqs(x.air) + (IF f.type = "Req" THEN 1 ELSE 0)
    OBVIOUS
  <1>2. x \in Shape /\ x.air \in Seq(AirFrame) /\ x.sid \in Nat
    BY DEF Sound, Shape
  <1>3. /\ Append(x.air, f) \in Seq(AirFrame) /\ Append(x.air, f) # << >>
        /\ OnAir(Append(x.air, f)) = OnAir(x.air) \cup {f}
        /\ Reqs(x.air) \in Nat /\ Reqs(Append(x.air, f)) = Reqs(x.air) + (IF f.type = "Req" THEN 1 ELSE 0)
        /\ \A i \in DOMAIN Append(x.air, f) : Append(x.air, f)[i].type \in Answers => i = 1
    BY <1>1, <1>2, MoreAir DEF MayKey, Calm, CalmAir
  <1>4. /\ a \in Seq(AirFrame) /\ OnAir(a) \subseteq OnAir(x.air) \cup {f}
        /\ x.air # << >> => a # << >>
        /\ Reqs(a) <= Reqs(x.air) + (IF f.type = "Req" THEN 1 ELSE 0)
        /\ \A i \in DOMAIN a : a[i].type \in Answers => i = 1
    <2>1. CASE a = x.air
      BY <1>1, <1>2, <1>3, <2>1 DEF Calm, CalmAir
    <2>2. CASE a = Append(x.air, f)
      <3> DEFINE b == Append(x.air, f)
      <3> HIDE DEF b
      <3>1. QED
        BY <1>3, <2>2 DEF b
    <2>3. QED
      BY <2>1, <2>2
  <1> HIDE DEF y
  <1>5. /\ y.air = a /\ SameTable(x, y) /\ y.sessions = x.sessions /\ y.link = x.link
        /\ y.submitted = x.submitted /\ y.sid = x.sid /\ y.ended = x.ended
    BY <1>2, <1>4, Keyed DEF y
  <1>6. SentCount(y) = SentCount(x) /\ Confirmed(y) = Confirmed(x)
    BY <1>5 DEF SentCount, Confirmed
  <1>7. x.link # NoLink => /\ SentCount(x) \in Int /\ Confirmed(x) \in Int
                           /\ SentCount(x) = Confirmed(x) + InFlight(x.link.tx)
    BY Counts
  <1>8. y.link # NoLink => CalmLink(y)
    <2>1. SUFFICES ASSUME x.link # NoLink PROVE CalmLink(y)
      BY <1>5
    <2>2. CalmLink(x)
      BY <1>1, <2>1 DEF Calm
    <2>3. \A g \in OnAir(a) : IsData(g) =>
             g.dest = x.link.remote /\ g.data = SentCount(x) /\ InFlight(x.link.tx) = 1
      BY <1>4, <2>2 DEF CalmLink, MayKey
    <2>4. QED
      BY <1>5, <1>6, <2>2, <2>3 DEF CalmLink
  <1>9. CalmAir(y)
    <2>1. CalmAir(x)
      BY <1>1 DEF Calm
    <2>2. ASSUME NEW g \in OnAir(a)
          PROVE  /\ g.sid <= x.sid
                 /\ IsData(g) => /\ g.sid = x.sid /\ x.sid >= 1
                                 /\ g.data >= 1 /\ g.num = (g.data - 1) % SeqMod
                 /\ g.type = "ConnectAck" => x.link = NoLink
                 /\ g.type = "Cfm" /\ x.link # NoLink => x.link.rx.recv_base = 0
      <3>1. CASE g \in OnAir(x.air)
        BY <2>1, <3>1 DEF CalmAir
      <3>2. CASE g = f
        BY <1>1, <1>2, <3>2 DEF MayKey, Calm, CalmLink
      <3>3. QED
        BY <1>4, <2>2, <3>1, <3>2
    <2>3. ASSUME NEW g \in OnAir(a), NEW h \in OnAir(a), IsData(h)
          PROVE  g.type # "ConnectAck" /\ (IsData(g) => g.data = h.data)
      <3>1. CASE g \in OnAir(x.air) /\ h \in OnAir(x.air)
        BY <2>1, <2>3, <3>1 DEF CalmAir
      <3>2. CASE x.link # NoLink
        <4>1. g.type # "ConnectAck"
          BY <2>2, <3>2
        <4>2. IsData(g) => g.data = SentCount(x) /\ h.data = SentCount(x)
          BY <1>5, <1>6, <1>8, <2>3, <3>2 DEF CalmLink
        <4>3. QED
          BY <4>1, <4>2
      <3>3. CASE x.link = NoLink /\ g = f /\ h = f
        BY <2>3, <3>3 DEF MayKey
      <3>4. CASE x.link = NoLink /\ g = f /\ h \in OnAir(x.air)
        <4>1. ~IsData(f)
          BY <3>4 DEF MayKey
        <4>2. x.air # << >>
          BY <3>4, <1>2 DEF OnAir
        <4>3. f.type \notin Answers
          BY <4>2 DEF MayKey
        <4>4. QED
          BY <3>4, <4>1, <4>3 DEF Answers
      <3>5. CASE x.link = NoLink /\ h = f
        BY <2>3, <3>5 DEF MayKey
      <3>6. QED
        BY <1>4, <2>3, <3>1, <3>2, <3>3, <3>4, <3>5
    <2>4. QED
      BY <1>4, <1>5, <2>2, <2>3 DEF CalmAir
  <1>10. CalmTable(y)
    BY <1>1, <1>5 DEF Calm, CalmTable
  <1>11. Closing(x) => Closing(y)
    BY <1>4, <1>5 DEF Closing, Transmitting
  <1>12. Hears(x, y)
    BY <1>4, <1>5 DEF Hears, MayKey
  <1>13. f.type # "Cfm" => Sends(x, y)
    BY <1>4, <1>5, <1>6, <1>7 DEF Sends, MayKey
  <1>14. Opening(y) = Opening(x)
    BY <1>5 DEF Opening
  <1>15. QED
    BY <1>4, <1>5, <1>8, <1>9, <1>10, <1>11, <1>12, <1>13, <1>14 DEF Calm

\* A frame that may be keyed, and is or is not.
LEMMA KeyedMoves ==
    ASSUME NEW x, Sound(x), NEW f \in AirFrame, Calm(x) => MayKey(x, f), f.type \notin {"Req", "Cfm"},
           NEW a \in {x.air, Append(x.air, f)}
    PROVE  Moves(x, [x EXCEPT !.air = a])
  <1>1. SUFFICES ASSUME Calm(x) PROVE Moves(x, [x EXCEPT !.air = a])
    BY DEF Moves
  <1>2. a \in Seq(AirFrame)
    <2>1. x.air \in Seq(AirFrame)
      BY DEF Sound, Shape
    <2> DEFINE b == Append(x.air, f)
    <2>2. b \in Seq(AirFrame)
      BY <2>1
    <2>3. a = x.air \/ a = b
      OBVIOUS
    <2> HIDE DEF b
    <2>4. QED
      BY <2>1, <2>2, <2>3
  <1>3. Reqs(x.air) \in Nat /\ Opening(x) \in Nat
    BY ReqsCount DEF Opening, Sound, Shape
  <1>4. LET y == [x EXCEPT !.air = a]
        IN /\ Calm(y) /\ Hears(x, y) /\ Sends(x, y) /\ (Closing(x) => Closing(y))
           /\ Opening(y) = Opening(x) /\ Reqs(y.air) <= Reqs(x.air) + 0
    BY <1>1, <1>2, KeyMoves
  <1> DEFINE y == [x EXCEPT !.air = a]
  <1> HIDE DEF y
  <1>5. Reqs(y.air) \in Nat => Moves(x, y)
    BY <1>3, <1>4 DEF Moves, Acts, y
  <1>6. Reqs(y.air) \in Nat
    BY <1>2, Keyed, ReqsCount DEF y, Sound
  <1>7. QED
    BY <1>5, <1>6 DEF y

\* transmit_samples, for such a frame.
LEMMA TransmitMoves ==
    ASSUME NEW x, Sound(x), NEW f \in AirFrame, Calm(x) => MayKey(x, f), f.type \notin {"Req", "Cfm"}
    PROVE  Moves(x, Transmit(x, f))
  <1>1. PICK a \in Seq(AirFrame) : Transmit(x, f) = [x EXCEPT !.air = a] /\ a \in {x.air, Append(x.air, f)}
    BY TransmitKeys DEF Sound
  <1>2. \A b \in {x.air, Append(x.air, f)} : Moves(x, [x EXCEPT !.air = b])
    BY KeyedMoves
  <1>3. QED
    BY <1>1, <1>2

-----------------------------------------------------------------------------
(* Sending, and evidence of the peer. *)

\* The sequence number of the one segment in flight.
LEMMA OneBack ==
    ASSUME NEW D, NEW t \in TxType(D), InFlight(t) = 1, NEW n \in Int, t.next_seq = n % SeqMod
    PROVE  t.send_base = (n - 1) % SeqMod
  <1>1. t.send_base \in SeqNum /\ t.next_seq \in SeqNum
    BY DEF TxType
  <1>2. t.send_base = WrapSub(t.next_seq, 1)
    BY <1>1, ArqAssumption DEF InFlight, WrapSub, SeqNum
  <1>3. (n % SeqMod) + (-1) = t.next_seq - 1 /\ n + (-1) = n - 1 /\ -1 \in Int /\ SeqMod \in Nat \ {0}
    BY <1>1, ArqAssumption DEF SeqNum
  <1>4. ((n % SeqMod) + (-1)) % SeqMod = (n + (-1)) % SeqMod
    BY <1>3, ModAdd
  <1>5. QED
    BY <1>2, <1>3, <1>4 DEF WrapSub

\* A payload moves from the backlog to the window: BUFFER does not change.
LEMMA SendNextSound ==
    ASSUME NEW st, Sound(st), Ready(st), ~Blocked(st), NEW plain \in BOOLEAN
    PROVE  LET y == SendNext(st, plain)
           IN /\ Sound(y) /\ Quiet(st, y) /\ SameTable(st, y) /\ y.air # << >>
              /\ Moves(st, y)
  <1> DEFINE id == st.link.session_id
             d == st.submitted - st.link.backlog + 1
             l == [st.link EXCEPT !.tx = TxSend(st.link.tx, d), !.backlog = st.link.backlog - 1,
                                  !.expired = FALSE, !.tx_outer = st.sessions[id].outer /\ ~plain]
             x == [st EXCEPT !.link = l]
             sent == [x EXCEPT !.held = FALSE]
             f == DataFrame(sent, st.link.tx.next_seq)
  <1>1. st.link # NoLink /\ st.link.backlog > 0 /\ InFlight(st.link.tx) < 1
    BY DEF Ready, CanSend, Window
  <1>2. /\ st \in Shape /\ st.link \in LinkShape /\ SoundLink(st)
        /\ st.link.tx \in TxType(1 .. MaxPayload) /\ InFlight(st.link.tx) = 0
        /\ st.link.backlog \in Nat /\ st.link.backlog <= st.submitted
        /\ id \in Slots /\ st.sessions[id] # NoSession /\ st.link.tx.next_seq \in SeqNum
    BY <1>1, LinkFacts DEF SoundLink
  <1>3. d \in 1 .. MaxPayload /\ st.link.backlog - 1 \in 0 .. MaxPayload
        /\ st.submitted \in 0 .. MaxPayload
    <2>1. st.submitted \in 0 .. MaxPayload
      BY <1>2 DEF Shape
    <2>2. QED
      BY <1>1, <1>2, <2>1, Constants
  <1>4. TxSend(st.link.tx, d) \in TxType(1 .. MaxPayload) /\ Carried(TxSend(st.link.tx, d))
        /\ InFlight(TxSend(st.link.tx, d)) = 1
        /\ TxSend(st.link.tx, d).tx_buf[SlotOf(st.link.tx.next_seq)].data = d
        /\ TxSend(st.link.tx, d).next_seq = WrapAdd(st.link.tx.next_seq, 1)
        /\ Oldest(TxSend(st.link.tx, d)).data = d
    <2> DEFINE D == 1 .. MaxPayload
               t == st.link.tx
    <2>1. t \in TxType(D) /\ InFlight(t) = 0 /\ d \in D
      BY <1>2, <1>3
    <2> HIDE DEF d, D, t
    <2>2. /\ TxSend(t, d) \in TxType(D) /\ Carried(TxSend(t, d)) /\ InFlight(TxSend(t, d)) = 1
          /\ TxSend(t, d).tx_buf[SlotOf(t.next_seq)].data = d
          /\ TxSend(t, d).next_seq = WrapAdd(t.next_seq, 1) /\ Oldest(TxSend(t, d)).data = d
      BY <2>1, SendCarries
    <2>3. QED
      BY <2>2 DEF D, t
  <1>5. st.sessions[id].outer \in BOOLEAN
    BY <1>2 DEF Shape, Table, Session
  <1>6. /\ l \in LinkShape /\ l.session_id = st.link.session_id /\ l.remote = st.link.remote
        /\ l.tx = TxSend(st.link.tx, d) /\ l.backlog = st.link.backlog - 1
        /\ l.fallback = st.link.fallback /\ l.max_retransmit = st.link.max_retransmit
        /\ l.block_ack = st.link.block_ack /\ l.ack_pair = st.link.ack_pair /\ l.rx = st.link.rx
    <2> DEFINE k == st.link
               t == TxSend(st.link.tx, d)
               b == st.link.backlog - 1
               o == st.sessions[id].outer /\ ~plain
    <2>1. /\ k \in LinkShape /\ t \in TxType(1 .. MaxPayload) /\ b \in 0 .. MaxPayload /\ o \in BOOLEAN
          /\ l = [k EXCEPT !.tx = t, !.backlog = b, !.expired = FALSE, !.tx_outer = o]
      BY <1>2, <1>3, <1>4, <1>5
    <2> SUFFICES /\ l \in LinkShape /\ l.session_id = k.session_id /\ l.remote = k.remote
                 /\ l.tx = t /\ l.backlog = b
                 /\ l.fallback = k.fallback /\ l.max_retransmit = k.max_retransmit
                 /\ l.block_ack = k.block_ack /\ l.ack_pair = k.ack_pair /\ l.rx = k.rx
      OBVIOUS
    <2> HIDE DEF k, t, b, o, l
    <2>2. QED
      BY <2>1 DEF LinkShape
  <1>7. sent = [st EXCEPT !.link.tx = TxSend(@, st.submitted - st.link.backlog + 1),
                           !.link.backlog = @ - 1,
                           !.link.expired = FALSE,
                           !.link.tx_outer = st.sessions[id].outer /\ ~plain,
                           !.held = FALSE]
    BY <1>2 DEF Shape, LinkShape
  <1>8. SendNext(st, plain) = Touch(Transmit(sent, f), id)
    BY <1>7 DEF SendNext
  <1> HIDE DEF l
  <1>9. Carried(l.tx) /\ Budgeted(l) /\ l.backlog <= st.submitted
        /\ l.backlog + InFlight(l.tx) = st.link.backlog + InFlight(st.link.tx)
    <2>1. ~st.link.fallback /\ st.link.max_retransmit = MaxRetransmit
      BY <1>2 DEF SoundLink, Budgeted
    <2>2. QED
      BY <1>2, <1>3, <1>4, <1>6, <2>1 DEF Budgeted
  <1>10. /\ Sound(x) /\ Quiet(st, x) /\ SameTable(st, x) /\ x.link = l
         /\ x.air = st.air /\ x.sid = st.sid /\ x.ended = st.ended /\ x.submitted = st.submitted
    BY <1>1, <1>6, <1>9, Relinked
  <1> HIDE DEF x
  <1>11. /\ Sound(sent) /\ Quiet(x, sent) /\ SameTable(x, sent) /\ sent.link = l
         /\ sent.air = st.air /\ sent.sid = st.sid /\ sent.ended = st.ended /\ sent.submitted = st.submitted
    BY <1>10, HeldKeeps DEF Alike
  <1>20. /\ IsData(f) /\ f.dest = st.link.remote /\ f.sid = st.sid /\ f.num = st.link.tx.next_seq
         /\ f.data = d
    <2>1. l.tx.tx_buf[SlotOf(st.link.tx.next_seq)].data = d
      BY <1>4, <1>6
    <2> HIDE DEF d, sent
    <2>2. QED
      BY <1>6, <1>11, <2>1 DEF DataFrame, IsData
  <1> HIDE DEF sent, f
  <1>22. /\ sent.link # NoLink /\ SentCount(sent) = SentCount(st) + 1 /\ SentCount(sent) = d /\ SentCount(st) \in Nat
         /\ Confirmed(sent) = Confirmed(st)
    BY <1>2, <1>3, <1>4, <1>6, <1>11, Sentinels DEF SentCount, Confirmed
  <1>23. Calm(st) => st.link.tx.next_seq = SentCount(st) % SeqMod /\ \A g \in OnAir(st.air) : ~IsData(g)
    BY <1>1, <1>2 DEF Calm, CalmLink
  <1>24. Moves(st, sent)
    <2>1. SUFFICES ASSUME Calm(st)
                   PROVE  Calm(sent) /\ Acts(st, sent) /\ (Closing(st) => Closing(sent))
      BY DEF Moves
    <2>2. SameTable(st, sent)
      BY <1>10, <1>11 DEF SameTable
    <2>3. WrapAdd(st.link.tx.next_seq, 1) = (SentCount(st) + 1) % SeqMod
      BY <1>22, <1>23, <2>1, WrapAbs
    <2>4. CalmLink(sent)
      <3>1. Oldest(sent.link.tx).data = d /\ sent.link.tx.next_seq = SentCount(sent) % SeqMod
        BY <1>4, <1>6, <1>11, <1>22, <2>3
      <3>2. QED
        BY <1>1, <1>6, <1>11, <1>22, <1>23, <2>1, <3>1 DEF Calm, CalmLink
    <2>5. CalmAir(sent)
      BY <1>1, <1>6, <1>11, <2>1 DEF Calm, CalmAir
    <2>6. CalmTable(sent) /\ (Closing(st) => Closing(sent))
      BY <1>1, <1>6, <1>11, <1>22, <2>1, <2>2 DEF Calm, CalmTable, Closing, Transmitting, SameTable
    <2>7. Opening(sent) = Opening(st) /\ Opening(st) \in Nat /\ Reqs(st.air) \in Nat
      BY <1>2, <2>2, ReqsCount DEF Opening, SameTable, Shape
    <2>8. Acts(st, sent)
      BY <1>1, <1>6, <1>11, <1>22, <2>7 DEF Acts, Sends, Hears
    <2>9. QED
      BY <2>4, <2>5, <2>6, <2>8 DEF Calm
  <1>12. sent \in Shape /\ ~Blocked(sent) /\ sent.link # NoLink
    BY <1>1, <1>6, <1>11, Sentinels DEF Sound, Blocked
  <1>13. f \in AirFrame
    BY <1>2, <1>12, Frames DEF f
  <1>14. PICK a \in Seq(AirFrame) : Transmit(sent, f) = [sent EXCEPT !.air = a] /\ a # << >>
    BY <1>12, <1>13, TransmitKeys
  <1> DEFINE y == [sent EXCEPT !.air = a]
  <1>15. /\ y \in Shape /\ y.air = a /\ SameTable(sent, y) /\ Sound(y) /\ Quiet(sent, y)
    BY <1>11, <1>12, Keyed
  <1>25. Calm(st) => Moves(sent, y)
    <2>1. Calm(st) => MayKey(sent, f)
      <3>1. SUFFICES ASSUME Calm(st) PROVE MayKey(sent, f)
        OBVIOUS
      <3>2. f.num = (d - 1) % SeqMod
        BY <1>20, <1>22, <1>23, <3>1
      <3>3. f.type \notin {"Ack", "ConnectAck", "Cfm"}
        BY <1>20 DEF IsData
      <3> HIDE DEF d
      <3>4. QED
        BY <1>3, <1>4, <1>6, <1>11, <1>20, <1>22, <3>2, <3>3 DEF MayKey, Answers
    <2>2. f.type \notin {"Req", "Cfm"}
      BY <1>20 DEF IsData
    <2>3. QED
      BY <1>11, <1>13, <1>14, <2>1, <2>2, TransmitMoves
  <1> HIDE DEF y
  <1>16. y.sessions[id] # NoSession
    BY <1>2, <1>10, <1>11, <1>15 DEF SameTable
  <1>17. LET w == Touch(y, id)
         IN SameTable(y, w) /\ w.air = y.air /\ Sound(w) /\ Quiet(y, w) /\ Alike(y, w)
    BY <1>2, <1>15, <1>16, TouchKeeps DEF Alike
  <1>18. SameTable(st, Touch(y, id)) /\ Quiet(st, Touch(y, id))
    BY <1>2, <1>10, <1>11, <1>15, <1>17 DEF SameTable, Quiet
  <1> DEFINE w == Touch(y, id)
  <1>19. SendNext(st, plain) = w
    BY <1>8, <1>14 DEF y
  <1> HIDE DEF w
  <1>26. Moves(st, w)
    <2>1. Moves(y, w)
      BY <1>15, <1>17, AlikeMoves DEF w
    <2>2. Calm(st) => Moves(st, y)
      BY <1>11, <1>15, <1>24, <1>25, MovesOn
    <2>3. Moves(st, y)
      BY <2>2 DEF Moves
    <2>4. QED
      BY <1>15, <1>17, <2>1, <2>3, MovesOn DEF w
  <1>21. QED
    BY <1>14, <1>15, <1>17, <1>18, <1>19, <1>26 DEF w

\* drain_session_link: what it does not send, it remembers.
LEMMA DrainSound ==
    ASSUME NEW st, Sound(st), NEW plain \in BOOLEAN, NEW refuse \in BOOLEAN
    PROVE  LET y == DrainSessionLink(st, plain, refuse)
           IN Sound(y) /\ Quiet(st, y) /\ SameTable(st, y) /\ Unparked(y) /\ Moves(st, y)
  <1> DEFINE y == DrainSessionLink(st, plain, refuse)
  <1>1. CASE Blocked(st)
    <2>1. y = [st EXCEPT !.held = TRUE]
      BY <1>1 DEF DrainSessionLink
    <2>2. LET z == [st EXCEPT !.held = TRUE]
          IN Sound(z) /\ Quiet(st, z) /\ SameTable(st, z) /\ z.held /\ Alike(st, z)
      BY HeldKeeps
    <2>3. Moves(st, [st EXCEPT !.held = TRUE])
      BY <2>2, AlikeMoves
    <2>4. QED
      BY <2>1, <2>2, <2>3 DEF Unparked
  <1>2. CASE ~Blocked(st) /\ Transmitting(st)
    <2>1. y = st
      BY <1>2 DEF DrainSessionLink
    <2>2. QED
      BY <1>2, <2>1, StillMoves DEF Unparked, Quiet, SameTable
  <1>3. CASE ~Blocked(st) /\ ~Transmitting(st) /\ Ready(st) /\ ~refuse
    <2>1. y = SendNext(st, plain)
      BY <1>3 DEF DrainSessionLink
    <2>2. QED
      BY <1>3, <2>1, SendNextSound DEF Unparked, Transmitting
  <1>4. CASE ~Blocked(st) /\ ~Transmitting(st) /\ ~(Ready(st) /\ ~refuse)
    <2>1. y = [st EXCEPT !.held = Ready(st)]
      BY <1>4 DEF DrainSessionLink
    <2>2. Ready(st) \in BOOLEAN
      BY DEF Ready
    <2>3. LET z == [st EXCEPT !.held = Ready(st)]
          IN /\ Sound(z) /\ Quiet(st, z) /\ SameTable(st, z)
             /\ z.held = Ready(st) /\ z.link = st.link /\ Moves(st, z)
      BY <2>2, HeldKeeps, AlikeMoves
    <2>4. QED
      BY <2>1, <2>3 DEF Unparked, Ready
  <1>5. QED
    BY <1>1, <1>2, <1>3, <1>4

\* note_peer_evidence: the grant covers all that may still come.
LEMMA EvidenceSound ==
    ASSUME NEW st, Sound(st)
    PROVE  LET y == NoteEvidence(st)
           IN /\ Sound(y) /\ Quiet(st, y) /\ SameTable(st, y) /\ y.sessions = st.sessions
              /\ Unparked(st) => Unparked(y)
              /\ Alike(st, y)
  <1> DEFINE y == NoteEvidence(st)
             budget == IF st.link.fallback /\ InFlight(st.link.tx) > 0
                         THEN Granted(st.link.tx) ELSE st.link.max_retransmit
             l == [st.link EXCEPT !.quiet = 0, !.max_retransmit = budget]
  <1>1. CASE st.link = NoLink
    BY <1>1 DEF NoteEvidence, Quiet, SameTable, Alike
  <1>2. CASE st.link # NoLink
    <2>1. /\ st \in Shape /\ st.link \in LinkShape /\ SoundLink(st) /\ Carried(st.link.tx)
          /\ Oldest(st.link.tx).transmit_count \in 0 .. CountMax
      BY <1>2, LinkFacts
    <2>2. /\ Granted(st.link.tx) \in 0 .. CountMax
          /\ \/ Granted(st.link.tx) = CountMax
             \/ Granted(st.link.tx) = Oldest(st.link.tx).transmit_count + Grant
      BY <2>1, Constants DEF Granted, Oldest
    <2>3. budget \in 0 .. CountMax /\ 0 \in 0 .. NoEvidenceTicks
      BY <2>1, <2>2, Constants DEF LinkShape
    <2>4. /\ l \in LinkShape /\ l.session_id = st.link.session_id /\ l.remote = st.link.remote
          /\ l.tx = st.link.tx /\ l.backlog = st.link.backlog /\ l.fallback = st.link.fallback
          /\ l.quiet = 0 /\ l.max_retransmit = budget /\ l.expired \in BOOLEAN /\ l.rx = st.link.rx
      BY <2>1, <2>3 DEF LinkShape
    <2>5. y = [st EXCEPT !.link = l]
      BY <1>2, <2>1 DEF NoteEvidence, Shape, LinkShape
    <2> HIDE DEF l, y
    <2>6. Budgeted(l)
      <3>1. CASE st.link.fallback
        <4>1. InFlight(st.link.tx) = 1 /\ budget = Granted(st.link.tx)
          BY <2>1, <3>1 DEF SoundLink, Budgeted
        <4>2. StillToCome(l) \in Nat /\ StillToCome(l) <= Grant
          BY <2>4, Constants DEF StillToCome
        <4>3. Granted(st.link.tx) = CountMax
              \/ Oldest(st.link.tx).transmit_count + StillToCome(l) <= Granted(st.link.tx)
          BY <2>1, <2>2, <4>2, Constants
        <4>4. QED
          BY <2>4, <3>1, <4>1, <4>3 DEF Budgeted
      <3>2. CASE ~st.link.fallback
        BY <2>1, <2>4, <3>2 DEF SoundLink, Budgeted
      <3>3. QED
        BY <3>1, <3>2
    <2>7. st.link.backlog <= st.submitted
      BY <2>1 DEF SoundLink
    <2>8. /\ Sound(y) /\ Quiet(st, y) /\ SameTable(st, y) /\ y.link = l /\ y.sessions = st.sessions
          /\ y.held = st.held /\ y.air = st.air
          /\ y.sid = st.sid /\ y.submitted = st.submitted /\ y.ended = st.ended
      BY <1>2, <2>1, <2>4, <2>5, <2>6, <2>7, Relinked
    <2>9. Unparked(st) => Unparked(y)
      BY <1>2, <2>4, <2>8 DEF Unparked, Ready, Transmitting
    <2>10. Alike(st, y)
      BY <1>2, <2>4, <2>8, Sentinels DEF Alike
    <2>11. QED
      BY <2>8, <2>9, <2>10 DEF y
  <1>3. QED
    BY <1>1, <1>2

-----------------------------------------------------------------------------
(* The ends of a session: each leaves no session, no link and no BUFFER. *)

\* discard_session_tx, when the link is that session's or there is none.
LEMMA DiscardClears ==
    ASSUME NEW x \in Shape, NEW id \in Slots,
           x.link.session_id = id \/ (x.link = NoLink /\ x.reported = 0)
    PROVE  LET y == DiscardSessionTx(x, id)
           IN /\ y \in Shape /\ y.link = NoLink /\ y.reported = 0
              /\ y.sessions = x.sessions /\ y.pending = x.pending /\ y.told = x.told /\ y.air = x.air
              /\ y.held = x.held /\ y.sid = x.sid /\ y.submitted = x.submitted /\ y.ended = x.ended
  <1> DEFINE off == [x EXCEPT !.link = NoLink]
  <1>1. CASE x.link.session_id = id
    <2>1. /\ off \in Shape /\ off.link = NoLink /\ off.sessions = x.sessions
          /\ off.pending = x.pending /\ off.told = x.told /\ off.air = x.air /\ off.held = x.held
          /\ off.sid = x.sid /\ off.submitted = x.submitted /\ off.ended = x.ended
      BY DEF Shape
    <2>2. Buffered_(off) = 0 /\ DiscardSessionTx(x, id) = [off EXCEPT !.reported = Buffered_(off)]
      BY <1>1, <2>1 DEF Buffered_, DiscardSessionTx, ReportBuffer
    <2> HIDE DEF off
    <2>3. QED
      BY <2>1, <2>2 DEF Shape
  <1>2. CASE x.link.session_id # id
    BY <1>2 DEF DiscardSessionTx
  <1>3. QED
    BY <1>1, <1>2

\* The slot comes back.
LEMMA RemoveClears ==
    ASSUME NEW x \in Shape, NEW id \in Slots
    PROVE  LET y == Remove(x, id)
           IN /\ y \in Shape /\ y.sessions[id] = NoSession /\ \A i \in Slots \ {id} : y.sessions[i] = x.sessions[i]
              /\ y.link = x.link /\ y.reported = x.reported /\ y.pending = x.pending
              /\ y.told = x.told /\ y.air = x.air /\ y.held = x.held /\ y.listening = x.listening
              /\ y.sid = x.sid /\ y.submitted = x.submitted /\ y.ended = x.ended
  BY DEF Remove, Shape, Table

\* A notice changes only what the hosts were told.
LEMMA NotifyTells ==
    ASSUME NEW x \in Shape, NEW notice
    PROVE  LET y == NotifySession(x, notice)
           IN /\ y \in Shape /\ y.told = Hear(x.told, notice)
              /\ y.sessions = x.sessions /\ y.link = x.link /\ y.reported = x.reported
              /\ y.pending = x.pending /\ y.air = x.air /\ y.held = x.held /\ y.submitted = x.submitted
              /\ y.sid = x.sid /\ y.ended = x.ended
  <1>1. Hear(x.told, notice) \in {"disconnected", "pending", "connected", "confused"}
    BY DEF Hear
  <1>2. NotifySession(x, notice) = [x EXCEPT !.told = Hear(x.told, notice)]
    BY DEF NotifySession, Shape
  <1>3. QED
    BY <1>1, <1>2 DEF Shape

\* The notices that end something, as a host hears them.
LEMMA NoticesEnd ==
    /\ Hear("pending", "CANCELPENDING") = "disconnected"
    /\ Hear("disconnected", "DISCONNECTED") = "disconnected"
    /\ Hear("connected", "DISCONNECTED") = "disconnected"
    /\ Hear("disconnected", "PENDING") = "pending"
    /\ Hear("disconnected", "CONNECTED") = "connected"
    /\ Hear("pending", "CONNECTED") = "connected"
  BY DEF Hear

\* All that an end leaves on the air is a DISCONNECT.
Leaves(x, y) ==
    /\ y.sid = x.sid /\ y.submitted = x.submitted
    /\ \/ y.air = x.air
       \/ \E f \in AirFrame : f.type = "Disconnect" /\ f.sid = x.sid /\ y.air = Append(x.air, f)

\* Whatever removes the session and its link and tells the hosts ends it.
LEMMA Ending ==
    ASSUME NEW st, Sound(st), NEW id \in Slots, st.sessions[id] # NoSession,
           NEW y \in Shape, y.sessions[id] = NoSession,
           \A i \in Slots \ {id} : y.sessions[i] = st.sessions[i],
           y.link = NoLink, y.reported = 0, y.pending = NoSlot, y.told = "disconnected"
    PROVE  Ends(st, y)
  <1>1. SoundSession(st, id) /\ st.sessions[id] \in Session /\ Stage(st) = StageOf(st.sessions[id].state)
        /\ (st.link = NoLink => st.reported = 0)
        /\ (st.link # NoLink => SoundLink(st) /\ st.link.session_id = id)
    BY Only
  <1>2. Over(y)
    BY <1>1 DEF Over, Idle, SoundSession
  <1>3. Stage(st) # "idle"
    BY <1>1 DEF StageOf
  <1>4. Stage(st) = "offered" => st.sessions[id].state = "Accepting"
    BY <1>1 DEF StageOf
  <1>5. QED
    BY <1>1, <1>2, <1>3, <1>4 DEF Ends, SoundLink

\* end_local_disconnect.
LEMMA EndLocalEnds ==
    ASSUME NEW st, Sound(st), st.pending # NoSlot, NEW why \in {"drained", "dropped"}
    PROVE  LET y == EndLocalDisconnect(st, why)
           IN Ends(st, y) /\ Leaves(st, y) /\ y.ended = why
  <1> DEFINE id == st.pending
             x1 == [st EXCEPT !.pending = NoSlot]
             x2 == DiscardSessionTx(x1, id)
             f == Control(st, "Disconnect", st.sessions[id].remote)
             x3 == Transmit(x2, f)
             x4 == Remove(x3, id)
             x5 == NotifySession(x4, "DISCONNECTED")
             x6 == [x5 EXCEPT !.ended = why]
  <1>1. st \in Shape /\ id \in Slots /\ st.sessions[id] # NoSession
    BY DEF Sound, Shape
  <1>2. /\ SoundSession(st, id) /\ st.sessions[id] \in Session
        /\ (st.link = NoLink => st.reported = 0)
        /\ (st.link # NoLink => st.link.session_id = id)
    BY <1>1, Only
  <1>3. st.told \in {"connected", "disconnected"}
    BY <1>2 DEF SoundSession, Follows
  <1>4. /\ x1 \in Shape /\ x1.pending = NoSlot /\ x1.sessions = st.sessions /\ x1.link = st.link
        /\ x1.reported = st.reported /\ x1.told = st.told
        /\ x1.sid = st.sid /\ x1.submitted = st.submitted /\ x1.air = st.air
    BY <1>1 DEF Shape
  <1> HIDE DEF x1
  <1>5. /\ x2 \in Shape /\ x2.link = NoLink /\ x2.reported = 0
        /\ x2.sessions = st.sessions /\ x2.pending = NoSlot /\ x2.told = st.told
        /\ x2.sid = st.sid /\ x2.submitted = st.submitted /\ x2.air = st.air
    BY <1>1, <1>2, <1>4, DiscardClears
  <1>6. f \in AirFrame /\ f.type = "Disconnect" /\ f.sid = st.sid
    BY <1>1, <1>2, Frames DEF Session, FrameTypes, Control
  <1> HIDE DEF x2, f
  <1>7. PICK a \in Seq(AirFrame) : x3 = [x2 EXCEPT !.air = a] /\ a \in {x2.air, Append(x2.air, f)}
    BY <1>5, <1>6, TransmitKeys
  <1>8. /\ x3 \in Shape /\ x3.link = NoLink /\ x3.reported = 0
        /\ x3.sessions = st.sessions /\ x3.pending = NoSlot /\ x3.told = st.told
        /\ x3.sid = st.sid /\ x3.submitted = st.submitted /\ x3.air = a
    BY <1>5, <1>7, Keyed DEF SameTable
  <1> HIDE DEF x3
  <1>9. /\ x4 \in Shape /\ x4.link = NoLink /\ x4.reported = 0 /\ x4.pending = NoSlot
        /\ x4.told = st.told /\ x4.sessions[id] = NoSession
        /\ \A i \in Slots \ {id} : x4.sessions[i] = st.sessions[i]
        /\ x4.sid = st.sid /\ x4.submitted = st.submitted /\ x4.air = a
    BY <1>1, <1>8, RemoveClears
  <1> HIDE DEF x4
  <1>10. /\ x5 \in Shape /\ x5.link = NoLink /\ x5.reported = 0 /\ x5.pending = NoSlot
         /\ x5.told = "disconnected" /\ x5.sessions[id] = NoSession
         /\ \A i \in Slots \ {id} : x5.sessions[i] = st.sessions[i]
         /\ x5.sid = st.sid /\ x5.submitted = st.submitted /\ x5.air = a
    BY <1>3, <1>9, NotifyTells, NoticesEnd
  <1> HIDE DEF x5
  <1>11. /\ x6 \in Shape /\ x6.link = NoLink /\ x6.reported = 0 /\ x6.pending = NoSlot
         /\ x6.told = "disconnected" /\ x6.sessions = x5.sessions
         /\ x6.sid = st.sid /\ x6.submitted = st.submitted /\ x6.air = a /\ x6.ended = why
    BY <1>10 DEF Shape
  <1> HIDE DEF x6
  <1>12. Ends(st, x6) /\ Leaves(st, x6) /\ x6.ended = why
    BY <1>1, <1>5, <1>6, <1>7, <1>10, <1>11, Ending DEF Leaves
  <1>13. EndLocalDisconnect(st, why) = x6
    BY DEF EndLocalDisconnect, x1, x2, f, x3, x4, x5, x6
  <1>14. QED
    BY <1>12, <1>13

\* end_session, for an attempt or a session that is not being drained.
LEMMA EndSessionEnds ==
    ASSUME NEW st, Sound(st), NEW id \in Slots, st.sessions[id] # NoSession,
           st.sessions[id].state \in {"Accepting", "Established"}
    PROVE  LET y == EndSession(st, id)
           IN Ends(st, y) /\ Leaves(st, y) /\ y.ended = st.ended
  <1> DEFINE x2 == DiscardSessionTx(st, id)
             f == Control(st, "Disconnect", st.sessions[id].remote)
             x3 == Transmit(x2, f)
             x4 == Remove(x3, id)
             x5 == IF StateOf(st, id) = "Accepting" THEN NotifySession(x4, "CANCELPENDING") ELSE x4
             x6 == NotifySession(x5, "DISCONNECTED")
  <1>1. /\ st \in Shape /\ SoundSession(st, id) /\ st.sessions[id] \in Session
        /\ st.pending \in {NoSlot, id}
        /\ (st.link = NoLink => st.reported = 0)
        /\ (st.link # NoLink => st.link.session_id = id)
    BY Only
  <1>2. st.pending = NoSlot
    BY <1>1 DEF SoundSession
  <1>3. st.told = IF StateOf(st, id) = "Accepting" THEN "pending" ELSE "connected"
    BY <1>1 DEF SoundSession, Follows, StateOf
  <1>4. /\ x2 \in Shape /\ x2.link = NoLink /\ x2.reported = 0
        /\ x2.sessions = st.sessions /\ x2.pending = NoSlot /\ x2.told = st.told
        /\ x2.sid = st.sid /\ x2.submitted = st.submitted /\ x2.air = st.air /\ x2.ended = st.ended
    BY <1>1, <1>2, DiscardClears
  <1>5. f \in AirFrame /\ f.type = "Disconnect" /\ f.sid = st.sid
    BY <1>1, Frames DEF Session, FrameTypes, Control
  <1> HIDE DEF x2, f
  <1>6. PICK a \in Seq(AirFrame) : x3 = [x2 EXCEPT !.air = a] /\ a \in {x2.air, Append(x2.air, f)}
    BY <1>4, <1>5, TransmitKeys
  <1>7. /\ x3 \in Shape /\ x3.link = NoLink /\ x3.reported = 0
        /\ x3.sessions = st.sessions /\ x3.pending = NoSlot /\ x3.told = st.told
        /\ x3.sid = st.sid /\ x3.submitted = st.submitted /\ x3.air = a /\ x3.ended = st.ended
    BY <1>4, <1>6, Keyed DEF SameTable
  <1> HIDE DEF x3
  <1>8. /\ x4 \in Shape /\ x4.link = NoLink /\ x4.reported = 0 /\ x4.pending = NoSlot
        /\ x4.told = st.told /\ x4.sessions[id] = NoSession
        /\ \A i \in Slots \ {id} : x4.sessions[i] = st.sessions[i]
        /\ x4.sid = st.sid /\ x4.submitted = st.submitted /\ x4.air = a /\ x4.ended = st.ended
    BY <1>7, RemoveClears
  <1> HIDE DEF x4
  <1>9. /\ x5 \in Shape /\ x5.link = NoLink /\ x5.reported = 0 /\ x5.pending = NoSlot
        /\ x5.told \in {"disconnected", "connected"} /\ x5.sessions = x4.sessions
        /\ x5.sid = st.sid /\ x5.submitted = st.submitted /\ x5.air = a /\ x5.ended = st.ended
    BY <1>3, <1>8, NotifyTells, NoticesEnd
  <1> HIDE DEF x5
  <1>10. /\ x6 \in Shape /\ x6.link = NoLink /\ x6.reported = 0 /\ x6.pending = NoSlot
         /\ x6.told = "disconnected" /\ x6.sessions = x4.sessions
         /\ x6.sid = st.sid /\ x6.submitted = st.submitted /\ x6.air = a /\ x6.ended = st.ended
    BY <1>9, NotifyTells, NoticesEnd
  <1> HIDE DEF x6
  <1>11. Ends(st, x6) /\ Leaves(st, x6) /\ x6.ended = st.ended
    BY <1>4, <1>5, <1>6, <1>8, <1>10, Ending DEF Leaves
  <1>12. EndSession(st, id) = x6
    BY DEF EndSession, x2, f, x3, x4, x5, x6
  <1>13. QED
    BY <1>11, <1>12

\* The peer's refusal, its DISCONNECT or the reaper: no frame goes out.
LEMMA NotifyEndEnds ==
    ASSUME NEW st, Sound(st), NEW id \in Slots, st.sessions[id] # NoSession,
           NEW x \in Shape, x.link = NoLink, x.reported = 0, x.pending = NoSlot,
           x.told = st.told, x.sessions[id] = NoSession,
           \A i \in Slots \ {id} : x.sessions[i] = st.sessions[i],
           x.sid = st.sid, x.submitted = st.submitted, x.air = st.air
    PROVE  LET y == NotifyEnd(x, StateOf(st, id) = "Accepting")
           IN Ends(st, y) /\ Leaves(st, y) /\ y.ended = x.ended
  <1> DEFINE notice == IF StateOf(st, id) = "Accepting" THEN "CANCELPENDING" ELSE "DISCONNECTED"
             y == NotifySession(x, notice)
  <1>1. SoundSession(st, id) /\ st.sessions[id] \in Session
    BY Only
  <1>2. Hear(st.told, notice) = "disconnected"
    BY <1>1, NoticesEnd DEF SoundSession, Follows, StateOf
  <1>3. /\ y \in Shape /\ y.link = NoLink /\ y.reported = 0 /\ y.pending = NoSlot
        /\ y.told = "disconnected" /\ y.sessions = x.sessions
        /\ y.sid = st.sid /\ y.submitted = st.submitted /\ y.air = st.air /\ y.ended = x.ended
    BY <1>2, NotifyTells
  <1> HIDE DEF y
  <1>4. Ends(st, y) /\ Leaves(st, y) /\ y.ended = x.ended
    BY <1>3, Ending DEF Leaves
  <1>5. QED
    BY <1>4 DEF NotifyEnd, y

\* finish_drained_disconnect: nothing, or the end of the drain.
LEMMA FinishEnds ==
    ASSUME NEW st, Sound(st)
    PROVE  LET y == FinishDrainedDisconnect(st)
           IN \/ y = st /\ (\/ st.pending = NoSlot \/ Transmitting(st)
                            \/ st.link.session_id = st.pending)
              \/ /\ Ends(st, y) /\ Leaves(st, y) /\ y.ended = "drained" /\ st.pending # NoSlot
                 /\ st.link.session_id = st.pending => st.link.backlog = 0 /\ InFlight(st.link.tx) = 0
  BY EndLocalEnds DEF FinishDrainedDisconnect

\* fail_session_link.
LEMMA FailEnds ==
    ASSUME NEW st, Sound(st), st.link # NoLink
    PROVE  LET y == FailSessionLink(st)
           IN Ends(st, y) /\ Leaves(st, y) /\ y.ended \in {"dropped", st.ended}
  <1> DEFINE id == st.link.session_id
  <1>1. id \in Slots /\ st.sessions[id] # NoSession /\ SoundLink(st)
    BY LinkFacts
  <1>2. SoundSession(st, id)
    BY <1>1, Only
  <1>3. CASE st.pending = id
    <2>1. st.pending # NoSlot
      BY <1>1, <1>3, Constants
    <2>2. QED
      BY <1>3, <2>1, EndLocalEnds DEF FailSessionLink
  <1>4. CASE st.pending # id
    <2>1. st.sessions[id].state = "Established"
      BY <1>1, <1>2, <1>4 DEF SoundLink, SoundSession
    <2>2. QED
      BY <1>1, <1>4, <2>1, EndSessionEnds DEF FailSessionLink
  <1>5. QED
    BY <1>3, <1>4

\* Whatever ends the session, if a drain was over when it says so.
LEMMA EndMoves ==
    ASSUME NEW x, Sound(x), NEW y, Over(y), Leaves(x, y),
           Calm(x) /\ y.ended = "drained" /\ y.submitted > 0 =>
              x.ended = "drained" \/ (x.link # NoLink /\ y.submitted = Confirmed(x))
    PROVE  Moves(x, y) /\ Closing(y)
  <1>1. Sound(y) /\ y.link = NoLink /\ \A i \in Slots : y.sessions[i] = NoSession
    BY OverSound DEF Over, Idle
  <1>2. Closing(y) /\ Opening(y) = 0 /\ Opening(x) \in Nat
    BY <1>1 DEF Closing, Opening
  <1>3. SUFFICES ASSUME Calm(x) PROVE Calm(y) /\ Acts(x, y)
    BY <1>2 DEF Moves
  <1>4. x.air \in Seq(AirFrame) /\ y.air \in Seq(AirFrame) /\ x.sid \in Nat
    BY <1>1 DEF Sound, Shape
  <1>5. \E f \in AirFrame : f.type = "Disconnect" /\ f.sid = x.sid /\ y.air \in {x.air, Append(x.air, f)}
    <2>1. CASE y.air = x.air
      <3> DEFINE f == [type |-> "Disconnect", dest |-> Stranger, sid |-> x.sid, num |-> 0, data |-> 0]
      <3>1. f \in AirFrame
        BY <1>4, Constants DEF AirFrame, FrameTypes, Parties
      <3>2. QED
        BY <2>1, <3>1
    <2>2. QED
      BY <2>1 DEF Leaves
  <1>6. PICK f \in AirFrame : f.type = "Disconnect" /\ f.sid = x.sid /\ y.air \in {x.air, Append(x.air, f)}
    BY <1>5
  <1> DEFINE z == [x EXCEPT !.air = y.air]
  <1>7. /\ z.air = y.air /\ z.link = x.link /\ z.sid = x.sid /\ z.ended = x.ended /\ z.submitted = x.submitted
    BY <1>4, Keyed DEF Sound
  <1>8. Calm(z) /\ Hears(x, z) /\ Sends(x, z) /\ Reqs(z.air) <= Reqs(x.air) + 0
    <2>1. MayKey(x, f)
      BY <1>6 DEF MayKey, IsData, Answers
    <2>2. QED
      BY <1>3, <1>6, <2>1, KeyMoves
  <1> HIDE DEF z
  <1>9. Reqs(y.air) <= Reqs(x.air)
    BY <1>4, <1>7, <1>8, ReqsCount
  <1>10. y.sid = x.sid /\ y.submitted = x.submitted
    BY DEF Leaves
  <1>11. Calm(y)
    BY <1>1, <1>7, <1>8, <1>10, <1>3 DEF Calm, CalmAir, CalmTable
  <1>12. Sends(x, y) /\ Hears(x, y)
    BY <1>1, <1>3, <1>7, <1>8, <1>10 DEF Sends, Hears
  <1>13. QED
    BY <1>2, <1>9, <1>11, <1>12 DEF Acts

\* end_local_disconnect that drops what was left, end_session and the like.
LEMMA DropMoves ==
    ASSUME NEW x, Sound(x), NEW y, Ends(x, y), Leaves(x, y), y.ended \in {"dropped", x.ended}
    PROVE  Moves(x, y) /\ Closing(y)
  BY EndMoves DEF Ends

\* finish_drained_disconnect: the drain is over with everything confirmed.
LEMMA FinishMoves ==
    ASSUME NEW st, Sound(st)
    PROVE  LET y == FinishDrainedDisconnect(st)
           IN Sound(y) /\ Moves(st, y) /\ (Calm(st) => Closing(y))
  <1> DEFINE y == FinishDrainedDisconnect(st)
  <1>1. CASE y = st /\ (\/ st.pending = NoSlot \/ Transmitting(st) \/ st.link.session_id = st.pending)
    <2>1. ASSUME NEW i \in Slots, st.sessions[i] # NoSession, st.sessions[i].state = "Disconnecting"
          PROVE  st.pending = i
      BY <2>1, Only DEF SoundSession
    <2>2. Closing(st)
      BY <1>1, <2>1, Constants DEF Closing
    <2>3. Alike(st, st)
      BY DEF Alike, SameTable
    <2>4. QED
      BY <1>1, <2>2, <2>3, AlikeMoves
  <1>2. CASE /\ Ends(st, y) /\ Leaves(st, y) /\ y.ended = "drained" /\ st.pending # NoSlot
             /\ st.link.session_id = st.pending => st.link.backlog = 0 /\ InFlight(st.link.tx) = 0
    <2> DEFINE id == st.pending
    <2>1. id \in Slots /\ st.sessions[id] # NoSession
      BY <1>2 DEF Sound, Shape
    <2>2. /\ st.sessions[id].state = "Disconnecting"
          /\ st.link # NoLink => st.link.session_id = id
      BY <2>1, Only DEF SoundSession
    <2>3. ASSUME Calm(st), y.submitted > 0
          PROVE  st.link # NoLink /\ y.submitted = Confirmed(st)
      <3>1. y.submitted = st.submitted /\ st.submitted \in Nat
        BY <1>2, Constants DEF Leaves, Sound, Shape
      <3>2. st.link # NoLink
        <4>1. st.link = NoLink => st.submitted = 0
          BY <2>1, <2>2, <2>3 DEF Calm, CalmTable
        <4>2. QED
          BY <2>3, <3>1, <4>1
      <3>3. st.link.backlog = 0 /\ InFlight(st.link.tx) = 0
        BY <1>2, <2>2, <3>2
      <3>4. QED
        BY <3>1, <3>2, <3>3 DEF Confirmed, SentCount
    <2> HIDE DEF y
    <2>4. Sound(y) /\ Moves(st, y) /\ Closing(y)
      BY <1>2, <2>3, EndMoves, OverSound DEF Ends
    <2>5. QED
      BY <2>4 DEF y
  <1>3. QED
    BY <1>1, <1>2, FinishEnds

-----------------------------------------------------------------------------
(* The steps of module HostSession, on the records of one station. *)

Dials(x, y) ==
    Stage(x) \in {"idle", "closing"} /\ Stage(y) = "calling" /\ y.told = "disconnected" /\ y.reported = 0
Offers(x, y) ==
    Stage(x) = "idle" /\ Stage(y) = "offered" /\ y.told = "pending" /\ y.reported = x.reported
Rises(x, y) ==
    Stage(x) \in {"calling", "offered"} /\ Stage(y) = "up" /\ y.told = "connected" /\ y.reported = x.reported
Reports(x, y) ==
    /\ Stage(y) = Stage(x) /\ y.told = x.told /\ y.reported \in Nat
    /\ Stage(x) = "up" \/ (Stage(x) = "closing" /\ y.reported < x.reported)
Closes(x, y) ==
    Stage(x) \in {"calling", "up"} /\ Stage(y) = "closing" /\ y.told = x.told /\ y.reported = x.reported
HostStep(x, y) ==
    Quiet(x, y) \/ Dials(x, y) \/ Offers(x, y) \/ Rises(x, y) \/ Reports(x, y) \/ Closes(x, y) \/ Ends(x, y)

\* What a function of the event loop keeps: the invariant and the promise.
Step(x, y) == Sound(y) /\ Unparked(y) /\ HostStep(x, y)

\* A quiet step before another one is not seen.
LEMMA QuietFirst ==
    ASSUME NEW x, NEW y, NEW z, Quiet(x, y), Step(y, z)
    PROVE  Step(x, z)
  BY DEF Quiet, Step, HostStep, Dials, Offers, Rises, Reports, Closes, Ends

\* The end of a session is a step.
LEMMA EndsStep ==
    ASSUME NEW x, NEW y, Ends(x, y)
    PROVE  Step(x, y)
  BY OverSound DEF Ends, Step, HostStep

\* The end of the drain comes after what went before it.
LEMMA FinishStep ==
    ASSUME NEW x, NEW st, Sound(st), Unparked(st), Quiet(x, st) \/ Reports(x, st)
    PROVE  Step(x, FinishDrainedDisconnect(st))
  <1>1. CASE FinishDrainedDisconnect(st) = st
    BY <1>1 DEF Step, HostStep
  <1>2. CASE Ends(st, FinishDrainedDisconnect(st)) /\ st.pending # NoSlot
    <2>1. st \in Shape /\ st.pending \in Slots /\ st.sessions[st.pending] # NoSession
      BY <1>2 DEF Sound, Shape
    <2>2. st.sessions[st.pending].state = "Disconnecting" /\ Stage(st) = "closing"
      BY <2>1, Only DEF SoundSession, StageOf
    <2>3. Stage(x) = "closing"
      BY <2>2 DEF Quiet, Reports
    <2>4. Ends(x, FinishDrainedDisconnect(st))
      BY <1>2, <2>3 DEF Ends
    <2>5. QED
      BY <2>4, EndsStep
  <1>3. QED
    BY <1>1, <1>2, FinishEnds

\* PTT released: the drain goes on, or ends.
LEMMA PttReleasedStep ==
    ASSUME NEW st, Sound(st), NEW plain \in BOOLEAN, NEW refuse \in BOOLEAN
    PROVE  LET y == PttReleased(st, plain, refuse)
           IN Step(st, y) /\ Moves(st, y) /\ (Calm(st) => Closing(y))
  <1> DEFINE x == DrainSessionLink(st, plain, refuse)
             y == FinishDrainedDisconnect(x)
  <1>1. Sound(x) /\ Quiet(st, x) /\ Unparked(x) /\ Moves(st, x)
    BY DrainSound
  <1> HIDE DEF x
  <1>2. Step(st, y)
    BY <1>1, FinishStep
  <1>3. Sound(y) /\ Moves(x, y) /\ (Calm(x) => Closing(y))
    BY <1>1, FinishMoves
  <1> HIDE DEF y
  <1>4. Moves(st, y)
    BY <1>1, <1>3, MovesOn
  <1>5. Calm(st) => Closing(y)
    BY <1>1, <1>3 DEF Moves
  <1>6. PttReleased(st, plain, refuse) = y
    BY DEF PttReleased, x, y
  <1>7. QED
    BY <1>2, <1>4, <1>5, <1>6

\* A frame keyed, or not, by a function that leaves the rest alone.
LEMMA TransmitSound ==
    ASSUME NEW x, Sound(x), NEW f \in AirFrame
    PROVE  LET y == Transmit(x, f)
           IN /\ Sound(y) /\ Quiet(x, y) /\ SameTable(x, y) /\ y.link = x.link
              /\ y.sessions = x.sessions /\ y.reported = x.reported
              /\ Unparked(x) => Unparked(y)
  <1> DEFINE y == Transmit(x, f)
  <1>1. x \in Shape
    BY DEF Sound
  <1>2. PICK a \in Seq(AirFrame) : y = [x EXCEPT !.air = a] /\ (x.air # << >> => a # << >>)
    BY <1>1, TransmitKeys
  <1> HIDE DEF y
  <1>3. /\ Sound(y) /\ Quiet(x, y) /\ SameTable(x, y) /\ y.link = x.link /\ y.held = x.held
        /\ y.air = a /\ y.sessions = x.sessions /\ y.reported = x.reported
    BY <1>1, <1>2, Keyed
  <1>4. Unparked(x) => Unparked(y)
    BY <1>2, <1>3 DEF Unparked, Ready, Transmitting
  <1>5. QED
    BY <1>3, <1>4 DEF y

\* A touch leaves what can go out as it was.
LEMMA TouchSound ==
    ASSUME NEW x, Sound(x), NEW id \in Slots, x.sessions[id] # NoSession
    PROVE  LET y == Touch(x, id)
           IN /\ Sound(y) /\ Quiet(x, y) /\ SameTable(x, y) /\ y.link = x.link /\ y.air = x.air
              /\ Unparked(x) => Unparked(y)
              /\ Alike(x, y)
  <1> DEFINE y == Touch(x, id)
  <1>1. /\ Sound(y) /\ Quiet(x, y) /\ SameTable(x, y) /\ y.link = x.link /\ y.held = x.held /\ y.air = x.air
        /\ Alike(x, y)
    BY TouchKeeps DEF Sound, Alike
  <1> HIDE DEF y
  <1>2. Unparked(x) => Unparked(y)
    BY <1>1 DEF Unparked, Ready, Transmitting
  <1>3. QED
    BY <1>1, <1>2 DEF y

\* A change on the receiving side of the link: what is sent stays as it was.
LEMMA SideChange ==
    ASSUME NEW x, Sound(x), x.link # NoLink,
           NEW l \in LinkShape, l.session_id = x.link.session_id, l.remote = x.link.remote,
           l.tx = x.link.tx, l.backlog = x.link.backlog, l.fallback = x.link.fallback,
           l.quiet = x.link.quiet, l.expired = x.link.expired,
           l.max_retransmit = x.link.max_retransmit
    PROVE  LET y == [x EXCEPT !.link = l]
           IN /\ Sound(y) /\ Quiet(x, y) /\ SameTable(x, y) /\ y.link = l /\ y.air = x.air
              /\ y.sessions = x.sessions
              /\ Unparked(x) => Unparked(y)
              /\ l.rx = x.link.rx => Alike(x, y)
              /\ y.sid = x.sid /\ y.submitted = x.submitted /\ y.ended = x.ended
  <1> DEFINE y == [x EXCEPT !.link = l]
  <1>1. SoundLink(x)
    BY LinkFacts
  <1>2. Carried(l.tx) /\ Budgeted(l) /\ l.backlog <= x.submitted
    BY <1>1 DEF SoundLink, Budgeted, StillToCome
  <1>3. /\ Sound(y) /\ Quiet(x, y) /\ SameTable(x, y) /\ y.link = l /\ y.air = x.air /\ y.held = x.held
        /\ y.sessions = x.sessions /\ y.sid = x.sid /\ y.submitted = x.submitted /\ y.ended = x.ended
    BY <1>2, Relinked
  <1> HIDE DEF y
  <1>4. Unparked(x) => Unparked(y)
    BY <1>3, Sentinels DEF Unparked, Ready, Transmitting
  <1>5. l.rx = x.link.rx => Alike(x, y)
    BY <1>3, Sentinels DEF Alike
  <1>6. QED
    BY <1>3, <1>4, <1>5 DEF y

\* A new link is sound and has nothing to send.
LEMMA NewLinkSound ==
    ASSUME NEW id \in Slots, NEW remote \in Parties
    PROVE  LET l == LinkNew(id, remote)
           IN /\ l \in LinkShape /\ l.session_id = id /\ l.remote = remote
              /\ Carried(l.tx) /\ Budgeted(l) /\ l.backlog = 0 /\ InFlight(l.tx) = 0
  <1> DEFINE l == LinkNew(id, remote)
  <1>1. /\ l \in LinkShape /\ l.session_id = id /\ l.remote = remote /\ l.tx = ArqTxNew
        /\ l.backlog = 0 /\ ~l.fallback /\ l.max_retransmit = MaxRetransmit
    <2>1. MaxRetransmit \in 0 .. CountMax /\ 0 \in 0 .. MaxPayload /\ 0 \in 0 .. NoEvidenceTicks
      BY Constants
    <2>2. QED
      BY <2>1, NewCarries DEF LinkNew, LinkShape
  <1> HIDE DEF l
  <1>2. QED
    BY <1>1, NewCarries DEF Budgeted, l

\* ensure_session_link, for a session that carries data.
LEMMA EnsureSound ==
    ASSUME NEW st, Sound(st), NEW id \in Slots, st.sessions[id] # NoSession,
           st.sessions[id].state \in {"Established", "Disconnecting"}
    PROVE  LET y == EnsureSessionLink(st, id)
           IN /\ Sound(y) /\ Quiet(st, y) /\ SameTable(st, y)
              /\ y.link # NoLink /\ y.link.session_id = id
              /\ y.sessions = st.sessions /\ y.submitted = st.submitted
              /\ Unparked(st) => Unparked(y)
  <1> DEFINE y == EnsureSessionLink(st, id)
             l == LinkNew(id, st.sessions[id].remote)
  <1>1. /\ st \in Shape /\ st.sessions[id] \in Session
        /\ (st.link = NoLink => st.reported = 0) /\ (st.link # NoLink => st.link.session_id = id)
    BY Only
  <1>2. CASE st.link.session_id = id
    <2>1. y = st
      BY <1>2 DEF EnsureSessionLink
    <2>2. st.link # NoLink
      BY <1>2, Sentinels, Constants
    <2>3. QED
      BY <1>2, <2>1, <2>2 DEF Quiet, SameTable
  <1>3. CASE st.link.session_id # id
    <2>1. st.link = NoLink /\ st.reported = 0
      BY <1>1, <1>3
    <2>2. y = [st EXCEPT !.link = l]
      BY <1>3 DEF EnsureSessionLink, ResetSessionLink
    <2>3. /\ l \in LinkShape /\ l.session_id = id /\ l.remote = st.sessions[id].remote
          /\ Carried(l.tx) /\ Budgeted(l) /\ l.backlog = 0 /\ InFlight(l.tx) = 0
      BY <1>1, NewLinkSound DEF Session
    <2> HIDE DEF l, y
    <2>4. /\ y \in Shape /\ y.link = l /\ y.sessions = st.sessions /\ y.pending = st.pending
          /\ y.told = st.told /\ y.reported = 0 /\ y.submitted = st.submitted
      BY <1>1, <2>1, <2>2, <2>3 DEF Shape
    <2>10. st.submitted \in Nat
      BY <1>1, Constants DEF Shape
    <2>5. y.link # NoLink /\ SoundLink(y) /\ y.reported = Buffered_(y) /\ SameTable(st, y)
      BY <2>10, <2>3, <2>4, Sentinels DEF SoundLink, Buffered_, SameTable
    <2>6. Sound(y) /\ Quiet(st, y)
      BY <2>1, <2>4, <2>5, SameTableSound DEF Quiet
    <2>7. Unparked(y)
      BY <2>3, <2>4 DEF Unparked, Ready
    <2>8. QED
      BY <2>3, <2>4, <2>5, <2>6, <2>7 DEF y
  <1>4. QED
    BY <1>2, <1>3

-----------------------------------------------------------------------------
(* New sessions. *)

\* A station with one attempt and no link.
LEMMA FreshSound ==
    ASSUME NEW y \in Shape, NEW i \in Slots, y.sessions[i] # NoSession,
           \A j \in Slots : y.sessions[j] # NoSession => j = i,
           y.sessions[i].state \in {"Connecting", "Accepting"},
           y.link = NoLink, y.reported = 0, y.pending = NoSlot,
           Follows(y.sessions[i].state, y.told)
    PROVE  Sound(y) /\ Unparked(y) /\ Stage(y) = StageOf(y.sessions[i].state)
  <1>1. SoundSession(y, i)
    BY Constants DEF SoundSession
  <1>2. Stage(y) = StageOf(y.sessions[i].state)
    BY StageIs
  <1>3. QED
    BY <1>1, <1>2 DEF Sound, Buffered_, Unparked, Ready

\* SessionManager::create in an empty table.
LEMMA CreateFresh ==
    ASSUME NEW x \in Shape, \A i \in Slots : x.sessions[i] = NoSession,
           NEW remote \in Parties, NEW state \in {"Connecting", "Accepting"}
    PROVE  LET y == Create(x, remote, state)
           IN /\ y \in Shape
              /\ \E i \in Slots : /\ y.sessions[i] # NoSession /\ y.sessions[i].state = state
                                  /\ \A j \in Slots : y.sessions[j] # NoSession => j = i
              /\ y.link = x.link /\ y.reported = x.reported /\ y.pending = x.pending /\ y.told = x.told
              /\ y.air = x.air /\ y.sid = x.sid /\ y.submitted = x.submitted /\ y.ended = x.ended
  <1> DEFINE y == Create(x, remote, state)
             i == Min(Slots \ Active(x))
             new == [state |-> state, remote |-> remote, outer |-> FALSE, idle |-> 0]
  <1>1. x.sessions \in Table
    BY DEF Shape
  <1>2. i \in Slots
    <2>1. Slots \ Active(x) \in SUBSET Slots /\ Slots \ Active(x) # {}
      BY SessionAssumption DEF Active
    <2>2. QED
      BY <2>1, MinIn
  <1>3. new \in Session /\ new.state = state /\ new # NoSession
    <2>1. new \in Session /\ new.state = state
      BY Constants DEF Session, SessionStates
    <2>2. QED
      BY <2>1, Sentinels
  <1>4. y = [x EXCEPT !.sessions = [x.sessions EXCEPT ![i] = new]]
    BY DEF Create, Shape
  <1> HIDE DEF i, new
  <1>5. [x.sessions EXCEPT ![i] = new] \in Table
    BY <1>1, <1>2, <1>3 DEF Table
  <1> HIDE DEF y
  <1>6. /\ y \in Shape /\ y.sessions = [x.sessions EXCEPT ![i] = new]
        /\ y.link = x.link /\ y.reported = x.reported /\ y.pending = x.pending /\ y.told = x.told
        /\ y.air = x.air /\ y.sid = x.sid /\ y.submitted = x.submitted /\ y.ended = x.ended
    BY <1>4, <1>5 DEF Shape
  <1>7. y.sessions[i] = new /\ \A j \in Slots : y.sessions[j] # NoSession => j = i
    BY <1>1, <1>2, <1>6 DEF Table
  <1>8. QED
    BY <1>2, <1>3, <1>6, <1>7 DEF y

\* An attempt becomes a session: a new link, and CONNECTED to the hosts.
LEMMA EstablishRises ==
    ASSUME NEW s \in Stations, NEW st, Sound(st), NEW id \in Slots, st.sessions[id] # NoSession,
           st.sessions[id].state \in {"Connecting", "Accepting"}
    PROVE  LET y == Establish(s, st, id)
           IN /\ Sound(y) /\ Unparked(y) /\ Rises(st, y)
              /\ y.link = LinkNew(id, st.sessions[id].remote) /\ y.link # NoLink
              /\ y.sid = st.sid + 1 /\ y.submitted = 0 /\ y.ended = "None" /\ y.air = st.air
              /\ y.sessions[id] # NoSession /\ y.sessions[id].state = "Established"
              /\ \A j \in Slots : y.sessions[j] # NoSession => j = id
  <1> DEFINE y == Establish(s, st, id)
             agreed == OuterCodeActive(s, st.sessions[id].remote)
             new == [st.sessions[id] EXCEPT !.state = "Established", !.idle = 0, !.outer = agreed]
             up == [st EXCEPT !.sessions[id] = new, !.sid = @ + 1, !.submitted = 0, !.ended = "None"]
             l == LinkNew(id, st.sessions[id].remote)
  <1>1. /\ st \in Shape /\ st.sessions \in Table /\ st.sessions[id] \in Session /\ SoundSession(st, id)
        /\ Stage(st) = StageOf(st.sessions[id].state) /\ st.pending \in {NoSlot, id}
        /\ (st.link = NoLink => st.reported = 0) /\ (st.link # NoLink => SoundLink(st) /\ st.link.session_id = id)
    BY Only DEF Shape
  <1>2. st.link = NoLink /\ st.reported = 0 /\ st.pending = NoSlot
    BY <1>1 DEF SoundLink, SoundSession
  <1>3. agreed \in BOOLEAN
    BY DEF OuterCodeActive, OuterRx, OuterReq
  <1> HIDE DEF agreed
  <1>4. /\ new \in Session /\ new.state = "Established" /\ new.remote = st.sessions[id].remote
        /\ new # NoSession
    <2>1. 0 \in 0 .. SessionTicks
      BY Constants
    <2>2. new \in Session /\ new.state = "Established" /\ new.remote = st.sessions[id].remote
      BY <1>1, <1>3, <2>1 DEF Session, SessionStates
    <2>3. QED
      BY <2>2, Sentinels
  <1>5. /\ up.sessions = [st.sessions EXCEPT ![id] = new] /\ up.sid = st.sid + 1
        /\ up.submitted = 0 /\ up.ended = "None" /\ up.link = NoLink /\ up.pending = NoSlot
        /\ up.reported = 0 /\ up.told = st.told /\ up.air = st.air
        /\ up = [st EXCEPT !.sessions = [st.sessions EXCEPT ![id] = new], !.sid = st.sid + 1,
                           !.submitted = 0, !.ended = "None"]
    <2> HIDE DEF new
    <2>1. QED
      BY <1>1, <1>2 DEF Shape
  <1>6. y = NotifySession(ResetSessionLink(up, id), "CONNECTED")
    BY DEF Establish, agreed
  <1> HIDE DEF new
  <1>7. [st.sessions EXCEPT ![id] = new] \in Table
    BY <1>1, <1>4 DEF Table
  <1>8. up \in Shape
    <2>1. st.sid + 1 \in Nat /\ 0 \in 0 .. MaxPayload
      BY <1>1, Constants DEF Shape
    <2> HIDE DEF up
    <2>2. QED
      BY <1>1, <1>5, <1>7, <2>1 DEF Shape
  <1>9. up.sessions[id] = new /\ \A j \in Slots : up.sessions[j] # NoSession => j = id
    BY <1>1, <1>5 DEF Table, SoundSession
  <1> HIDE DEF up
  <1>10. /\ l \in LinkShape /\ l.session_id = id /\ l.remote = new.remote
         /\ Carried(l.tx) /\ Budgeted(l) /\ l.backlog = 0 /\ InFlight(l.tx) = 0
    BY <1>1, <1>4, NewLinkSound DEF Session
  <1>11. ResetSessionLink(up, id) = [up EXCEPT !.link = l]
    BY <1>4, <1>9 DEF ResetSessionLink
  <1> HIDE DEF l
  <1> DEFINE x == [up EXCEPT !.link = l]
  <1>12. /\ x \in Shape /\ x.link = l /\ x.sessions = up.sessions /\ x.submitted = 0
         /\ x.pending = NoSlot /\ x.reported = 0 /\ x.told = st.told
         /\ x.sid = st.sid + 1 /\ x.ended = "None" /\ x.air = st.air
    <2>1. /\ x \in Shape /\ x.link = l /\ x.sessions = up.sessions /\ x.submitted = up.submitted
          /\ x.pending = up.pending /\ x.reported = up.reported /\ x.told = up.told
          /\ x.sid = up.sid /\ x.ended = up.ended /\ x.air = up.air
      BY <1>8, <1>10 DEF Shape
    <2> HIDE DEF x
    <2>2. QED
      BY <1>5, <2>1
  <1> HIDE DEF x, y
  <1>13. st.told \in {"disconnected", "pending"}
    BY <1>1 DEF SoundSession, Follows
  <1>14. /\ y \in Shape /\ y.link = l /\ y.sessions = up.sessions /\ y.submitted = 0
         /\ y.pending = NoSlot /\ y.reported = 0 /\ y.told = "connected"
         /\ y.sid = st.sid + 1 /\ y.ended = "None" /\ y.air = st.air
    <2>1. Hear(st.told, "CONNECTED") = "connected"
      BY <1>13, NoticesEnd
    <2>2. y = NotifySession(x, "CONNECTED")
      BY <1>6, <1>11 DEF x
    <2>3. QED
      BY <1>12, <2>1, <2>2, NotifyTells
  <1>15. SoundSession(y, id)
    BY <1>4, <1>9, <1>14, Constants DEF SoundSession, Follows
  <1>16. SoundLink(y) /\ y.reported = Buffered_(y)
    BY <1>4, <1>9, <1>10, <1>14, Sentinels DEF SoundLink, Buffered_
  <1>17. Sound(y) /\ Unparked(y)
    BY <1>4, <1>9, <1>10, <1>14, <1>15, <1>16 DEF Sound, Unparked, Ready
  <1>18. Stage(y) = "up" /\ Stage(st) \in {"calling", "offered"}
    <2>1. Stage(y) = StageOf("Established")
      BY <1>4, <1>9, <1>14, StageIs
    <2>2. QED
      BY <1>1, <2>1 DEF StageOf
  <1>19. QED
    BY <1>2, <1>4, <1>9, <1>10, <1>14, <1>17, <1>18, Sentinels DEF Rises, y, l

-----------------------------------------------------------------------------
(* Received frames, and what they do that is no move: a station that hears *)
(* one is not keyed.                                                       *)

\* A call is answered: one attempt more.
Answered(x, y) ==
    Calm(x) /\ x.air = << >> =>
        /\ Calm(y) /\ Sends(x, y) /\ Hears(x, y) /\ (Closing(x) => Closing(y))
        /\ Opening(y) <= Opening(x) + 1 /\ Reqs(y.air) <= Reqs(x.air)

\* An attempt becomes a session: nothing is sent, heard or keyed in it yet.
Begins(x, y, src) ==
    Calm(x) /\ x.air = << >> =>
        /\ Calm(y) /\ Closing(y)
        /\ y.sid = x.sid + 1 /\ y.submitted = 0 /\ y.ended = "None"
        /\ y.link # NoLink /\ y.link.remote = src /\ y.link.rx.recv_base = 0
        /\ SentCount(y) = 0 /\ Confirmed(y) = 0
        /\ \A f \in OnAir(y.air) : f.type = "Cfm"
        /\ Opening(y) + 1 <= Opening(x) /\ Reqs(y.air) <= Reqs(x.air)

\* Data moves the cursor, and nothing that the other end sees of the sending side.
Advances(x, m, f) ==
    /\ x.link # NoLink /\ m.link # NoLink /\ m.link.remote = x.link.remote
    /\ m.link.rx = RxReceive(x.link.rx, f.num, f.data, Window)
    /\ Sends(x, m) /\ m.air = x.air /\ Opening(m) <= Opening(x)

\* `up` is handed to the host, and an answer may be keyed.
Takes(x, y, up, src, f) ==
    Calm(x) /\ Closing(x) /\ x.air = << >> =>
        \/ up = << >> /\ Moves(x, y)
        \/ /\ x.link # NoLink /\ x.link.remote = src
           /\ up = RxDelivered(x.link.rx, f.num, f.data, Window)
           /\ \E m : Sound(m) /\ Calm(m) /\ Closing(m) /\ Advances(x, m, f) /\ Moves(m, y)

\* The ACK of all that was sent: the window is empty.
Settles(x, m, f) ==
    /\ x.link # NoLink /\ m.link # NoLink /\ m.link.remote = x.link.remote /\ m.link.rx = x.link.rx
    /\ m.air = x.air /\ m.sid = x.sid /\ m.submitted = x.submitted /\ m.ended = x.ended
    /\ Opening(m) <= Opening(x)
    /\ SentCount(m) = SentCount(x) /\ Confirmed(m) = SentCount(x)
    /\ f.num = SentCount(x) % SeqMod

\* And what goes out next, or the end of a drain.
Paces(x, y, src, f) ==
    Calm(x) /\ Closing(x) /\ x.air = << >> =>
        \/ Moves(x, y)
        \/ /\ x.link # NoLink /\ x.link.remote = src
           /\ \E m : Sound(m) /\ Calm(m) /\ Closing(m) /\ Settles(x, m, f) /\ Moves(m, y)

\* A frame of src, at station s.
Receives(s, x, y, up, src, f) ==
    \/ up = << >> /\ Moves(x, y)
    \/ f.type = "Req" /\ up = << >> /\ Answered(x, y)
    \/ f.dest = s /\ f.type \in {"ConnectAck", "Cfm"} /\ up = << >> /\ Begins(x, y, src)
    \/ f.dest = s /\ IsData(f) /\ Takes(x, y, up, src, f)
    \/ f.dest = s /\ f.type = "Ack" /\ up = << >> /\ Paces(x, y, src, f)

\* Sessions that a frame can be for.
LEMMA FrameSessions ==
    ASSUME NEW st, Sound(st), NEW src
    PROVE  /\ Active(st) \in SUBSET Slots /\ SessionFor(st, src) \in SUBSET Slots
           /\ Live(st, src) \in SUBSET Slots
           /\ \A i \in SessionFor(st, src) : st.sessions[i] # NoSession /\ st.sessions[i].remote = src
           /\ \A i \in Live(st, src) :
                 /\ st.sessions[i] # NoSession
                 /\ st.sessions[i].state \in {"Established", "Disconnecting"}
           /\ \A states : InState(st, SessionFor(st, src), states) \in SUBSET Slots
           /\ \A states : \A i \in InState(st, SessionFor(st, src), states) :
                 st.sessions[i] # NoSession /\ st.sessions[i].state \in states
  BY DEF Active, SessionFor, Live, InState, StateOf

\* handle_incoming_connect.
LEMMA IncomingConnectStep ==
    ASSUME NEW s \in Stations, NEW st, Sound(st), Unparked(st), NEW src \in Parties, NEW readable \in BOOLEAN
    PROVE  LET y == HandleIncomingConnect(s, st, src, readable) IN Step(st, y) /\ Answered(st, y)
  <1> DEFINE y == HandleIncomingConnect(s, st, src, readable)
             repeat == InState(st, SessionFor(st, src), {"Accepting"})
             cleared == IF repeat = {} THEN st ELSE Remove(st, Min(repeat))
             x == Create(cleared, src, "Accepting")
             told == IF repeat # {} THEN x ELSE NotifySession(x, "PENDING")
             f == Control(cleared, "ConnectAck", src)
  <1>1. CASE ~st.listening \/ ~readable \/ Active(cleared) # {}
    <2>1. y = st
      BY <1>1 DEF HandleIncomingConnect
    <2>3. Moves(st, st) /\ Opening(st) \in Nat
      BY StillMoves DEF Opening
    <2>2. QED
      BY <2>1, <2>3 DEF Step, HostStep, Quiet, Moves, Acts, Answered
  <1>2. CASE st.listening /\ readable /\ Active(cleared) = {}
    <2>1. y = Transmit(told, f)
      BY <1>2 DEF HandleIncomingConnect, AnswerCall
    <2>2. st \in Shape
      BY DEF Sound
    <2>3. /\ cleared \in Shape /\ cleared.link = NoLink /\ cleared.reported = 0 /\ cleared.pending = NoSlot
          /\ cleared.told = IF repeat = {} THEN "disconnected" ELSE "pending"
          /\ Stage(st) = IF repeat = {} THEN "idle" ELSE "offered"
          /\ st.reported = 0 /\ st.told = cleared.told /\ st.link = NoLink
          /\ cleared.air = st.air /\ cleared.sid = st.sid /\ cleared.submitted = st.submitted
          /\ cleared.ended = st.ended
          /\ \A i \in Slots : cleared.sessions[i] = NoSession
      <3>1. \A i \in Slots : cleared.sessions[i] = NoSession
        BY <1>2 DEF Active
      <3>2. CASE repeat = {}
        <4>1. cleared = st
          BY <3>2
        <4>2. Over(st)
          BY <3>1, <4>1, NoneThere
        <4>3. QED
          BY <3>1, <3>2, <4>1, <4>2, OverSound DEF Over
      <3>3. CASE repeat # {}
        <4> DEFINE id == Min(repeat)
        <4>1. id \in Slots /\ st.sessions[id] # NoSession /\ st.sessions[id].state = "Accepting"
          BY <3>3, MinIn, FrameSessions
        <4>2. cleared = Remove(st, id)
          BY <3>3
        <4> HIDE DEF repeat, cleared, id
        <4>3. /\ SoundSession(st, id) /\ Stage(st) = StageOf("Accepting")
              /\ st.pending \in {NoSlot, id}
              /\ (st.link = NoLink => st.reported = 0) /\ (st.link # NoLink => SoundLink(st) /\ st.link.session_id = id)
          BY <4>1, Only
        <4>4. st.link = NoLink /\ st.reported = 0 /\ st.pending = NoSlot /\ st.told = "pending"
              /\ Stage(st) = "offered"
          BY <4>1, <4>3 DEF SoundLink, SoundSession, Follows, StageOf
        <4>5. QED
          BY <2>2, <3>1, <3>3, <4>1, <4>2, <4>4, RemoveClears
      <3>4. QED
        BY <3>2, <3>3
    <2> HIDE DEF cleared, repeat
    <2>4. PICK i \in Slots :
              /\ x \in Shape /\ x.sessions[i] # NoSession /\ x.sessions[i].state = "Accepting"
              /\ \A j \in Slots : x.sessions[j] # NoSession => j = i
              /\ x.link = NoLink /\ x.reported = 0 /\ x.pending = NoSlot /\ x.told = cleared.told
              /\ x.air = st.air /\ x.sid = st.sid /\ x.submitted = st.submitted /\ x.ended = st.ended
      BY <2>3, CreateFresh
    <2> HIDE DEF x
    <2>5. /\ told \in Shape /\ told.sessions = x.sessions /\ told.link = NoLink /\ told.reported = 0
          /\ told.pending = NoSlot /\ told.told = "pending"
          /\ told.air = st.air /\ told.sid = st.sid /\ told.submitted = st.submitted
          /\ told.ended = st.ended
      BY <2>3, <2>4, NotifyTells, NoticesEnd
    <2> HIDE DEF told
    <2>6. Sound(told) /\ Unparked(told) /\ Stage(told) = "offered"
      BY <2>4, <2>5, FreshSound DEF Follows, StageOf
    <2>7. f \in AirFrame /\ f.type = "ConnectAck" /\ f.sid = st.sid
      BY <2>3, Frames DEF FrameTypes, Control
    <2> HIDE DEF f
    <2>8. LET z == Transmit(told, f) IN Sound(z) /\ Unparked(z) /\ Quiet(told, z)
      BY <2>6, <2>7, TransmitSound
    <2>9. Quiet(st, told) \/ Offers(st, told)
      BY <2>3, <2>5, <2>6 DEF Quiet, Offers
    <2>10. HostStep(st, y)
      BY <2>1, <2>8, <2>9 DEF Quiet, Offers, HostStep
    <2>12. PICK a \in Seq(AirFrame) :
              Transmit(told, f) = [told EXCEPT !.air = a] /\ a \in {told.air, Append(told.air, f)}
      BY <2>5, <2>7, TransmitKeys
    <2>13. ASSUME Calm(st), st.air = << >>
           PROVE  LET z == [told EXCEPT !.air = a]
                  IN /\ Calm(z) /\ Sends(st, z) /\ Hears(st, z) /\ (Closing(st) => Closing(z))
                     /\ Opening(z) <= Opening(st) + 1 /\ Reqs(z.air) <= Reqs(st.air)
      <3>1. Calm(told) /\ Closing(told)
        BY <2>3, <2>4, <2>5, <2>13 DEF Calm, CalmAir, CalmTable, Closing
      <3>2. Sends(st, told) /\ Hears(st, told)
        BY <2>3, <2>5 DEF Sends, Hears
      <3>3. MayKey(told, f)
        BY <2>5, <2>7, <2>13 DEF MayKey, IsData
      <3> DEFINE z == [told EXCEPT !.air = a]
      <3>4. Calm(told) =>
                /\ Calm(z) /\ Hears(told, z) /\ (f.type # "Cfm" => Sends(told, z)) /\ (Closing(told) => Closing(z))
                /\ Opening(z) = Opening(told)
                /\ Reqs(z.air) <= Reqs(told.air) + (IF f.type = "Req" THEN 1 ELSE 0)
        BY <2>6, <2>7, <2>12, <3>3, KeyMoves
      <3>5. Sound(z) /\ z.air = a
        BY <2>5, <2>6, <2>12, Keyed
      <3> HIDE DEF z
      <3>6. Sends(st, z) /\ Hears(st, z) /\ Calm(z) /\ Closing(z)
        BY <2>6, <2>7, <3>1, <3>2, <3>4, <3>5, SendsOn
      <3>7. Reqs(st.air) \in Nat /\ Reqs(z.air) \in Nat /\ Opening(z) \in {0, 1} /\ Opening(st) \in Nat
        BY <2>2, <2>12, <3>5, ReqsCount DEF Opening, Shape
      <3>8. Opening(z) <= Opening(st) + 1 /\ Reqs(z.air) <= Reqs(st.air)
        BY <2>5, <2>7, <3>1, <3>4, <3>7
      <3>9. QED
        BY <3>6, <3>8 DEF z
    <2>14. Answered(st, y)
      BY <2>1, <2>12, <2>13 DEF Answered
    <2>11. QED
      BY <2>1, <2>8, <2>10, <2>14 DEF Step
  <1>3. QED
    BY <1>1, <1>2

\* The new session of an attempt, with or without a confirmation keyed.
LEMMA Beginning ==
    ASSUME NEW s \in Stations, NEW st, Sound(st), NEW id \in Slots, st.sessions[id] # NoSession,
           st.sessions[id].state \in {"Connecting", "Accepting"},
           NEW f \in AirFrame, f.type = "Cfm", f.sid = st.sid
    PROVE  LET x == Establish(s, st, id)
               src == st.sessions[id].remote
           IN Begins(st, x, src) /\ Begins(st, Transmit(x, f), src)
  <1> DEFINE x == Establish(s, st, id)
             src == st.sessions[id].remote
             z == Transmit(x, f)
  <1>21. SUFFICES Begins(st, x, src) /\ Begins(st, z, src)
    OBVIOUS
  <1>1. /\ Sound(x) /\ x.link = LinkNew(id, src) /\ x.link # NoLink
        /\ x.sid = st.sid + 1 /\ x.submitted = 0 /\ x.ended = "None" /\ x.air = st.air
        /\ x.sessions[id] # NoSession /\ x.sessions[id].state = "Established"
        /\ \A j \in Slots : x.sessions[j] # NoSession => j = id
    BY EstablishRises
  <1> HIDE DEF x
  <1>2. SUFFICES ASSUME Calm(st), st.air = << >>
                 PROVE  Begins(st, x, src) /\ Begins(st, z, src)
    <2> HIDE DEF z, src
    <2>1. QED
      BY DEF Begins
  <1>3. st \in Shape /\ x \in Shape /\ st.sid \in Nat
    BY <1>1 DEF Sound, Shape
  <1>4. OnAir(x.air) = {} /\ DOMAIN x.air = {} /\ Reqs(x.air) = 0 /\ Reqs(st.air) = 0
    BY <1>1, <1>2, NoAir
  <1>5. /\ x.link.session_id = id /\ x.link.remote = src /\ x.link.rx = ArqRxNew
        /\ x.link.tx = ArqTxNew /\ x.link.backlog = 0
    BY <1>1 DEF LinkNew
  <1>6. InFlight(x.link.tx) = 0 /\ x.link.tx.next_seq = 0 /\ x.link.rx.recv_base = 0
        /\ x.link.rx.rx_buf = ArqRxNew.rx_buf
    BY <1>5, NewCarries DEF ArqTxNew, ArqRxNew
  <1>7. SentCount(x) = 0 /\ Confirmed(x) = 0
    BY <1>1, <1>5, <1>6 DEF SentCount, Confirmed
  <1>8. CalmLink(x)
    <2>1. 0 % SeqMod = 0
      BY ModSmall, Constants
    <2>2. QED
      BY <1>1, <1>3, <1>4, <1>6, <1>7, <2>1 DEF CalmLink
  <1>9. CalmAir(x) /\ CalmTable(x) /\ Closing(x)
    BY <1>1, <1>4, <1>5 DEF CalmAir, CalmTable, Closing
  <1>10. Opening(st) = 1 /\ Opening(x) = 0
    BY <1>1 DEF Opening
  <1>11. Begins(st, x, src)
    BY <1>1, <1>4, <1>5, <1>6, <1>7, <1>8, <1>9, <1>10 DEF Begins, Calm
  <1>12. PICK a \in Seq(AirFrame) : z = [x EXCEPT !.air = a] /\ a \in {x.air, Append(x.air, f)}
    BY <1>3, TransmitKeys
  <1>13. MayKey(x, f)
    BY <1>1, <1>2, <1>3, <1>6 DEF MayKey, IsData
  <1>14. Calm(x)
    BY <1>8, <1>9 DEF Calm
  <1>15. Calm(z) /\ Closing(z) /\ Opening(z) = 0 /\ Reqs(z.air) <= 0
    <2> DEFINE w == [x EXCEPT !.air = a]
    <2>1. Calm(x) =>
                /\ Calm(w) /\ Hears(x, w) /\ (f.type # "Cfm" => Sends(x, w)) /\ (Closing(x) => Closing(w))
                /\ Opening(w) = Opening(x)
                /\ Reqs(w.air) <= Reqs(x.air) + (IF f.type = "Req" THEN 1 ELSE 0)
      BY <1>1, <1>12, <1>13, KeyMoves
    <2> HIDE DEF w
    <2>2. QED
      BY <1>4, <1>9, <1>10, <1>12, <1>14, <2>1 DEF w
  <1>16. /\ z.air = a /\ z.link = x.link /\ z.sid = x.sid /\ z.submitted = x.submitted /\ z.ended = x.ended
    BY <1>3, <1>12, Keyed
  <1> HIDE DEF z
  <1>17. \A g \in OnAir(z.air) : g.type = "Cfm"
    <2>1. \A g \in OnAir(x.air) \cup {f} : g.type = "Cfm"
      BY <1>4
    <2>2. OnAir(a) \subseteq OnAir(x.air) \cup {f}
      <3>1. x.air \in Seq(AirFrame)
        BY <1>3 DEF Shape
      <3>2. OnAir(Append(x.air, f)) = OnAir(x.air) \cup {f}
        BY <3>1, MoreAir
      <3> DEFINE b == Append(x.air, f)
      <3> HIDE DEF b
      <3>3. a = x.air \/ a = b
        BY <1>12 DEF b
      <3>4. QED
        BY <3>2, <3>3 DEF b
    <2>3. QED
      BY <1>16, <2>1, <2>2
  <1>18. SentCount(z) = 0 /\ Confirmed(z) = 0
    BY <1>7, <1>16 DEF SentCount, Confirmed
  <1>19. Begins(st, z, src)
    BY <1>1, <1>4, <1>5, <1>6, <1>10, <1>15, <1>16, <1>17, <1>18 DEF Begins
  <1>20. QED
    BY <1>11, <1>19 DEF x, z

\* handle_connect_ack: the dialled call is answered.
LEMMA ConnectAckStep ==
    ASSUME NEW s \in Stations, NEW st, Sound(st), Unparked(st), NEW src \in Parties
    PROVE  LET y == HandleConnectAck(s, st, src)
           IN Step(st, y) /\ (Moves(st, y) \/ Begins(st, y, src))
  <1> DEFINE ids == InState(st, SessionFor(st, src), {"Connecting"})
             id == Min(ids)
             x == Establish(s, st, id)
             f == Control(st, "Cfm", src)
  <1>1. CASE ids = {}
    BY <1>1, StillMoves DEF HandleConnectAck, Step, HostStep, Quiet
  <1>2. CASE ids # {}
    <2>1. /\ id \in Slots /\ st.sessions[id] # NoSession /\ st.sessions[id].state = "Connecting"
          /\ st.sessions[id].remote = src
      <3>6. ids \in SUBSET Slots /\ (\A i \in ids : st.sessions[i] # NoSession /\ st.sessions[i].state \in {"Connecting"})
        BY FrameSessions
      <3>1. ids \in SUBSET Slots /\ (\A i \in ids : st.sessions[i] # NoSession /\ st.sessions[i].state = "Connecting")
        BY <3>6
      <3>2. \A i \in ids : i \in SessionFor(st, src)
        BY DEF InState
      <3>3. \A i \in SessionFor(st, src) : st.sessions[i].remote = src
        BY FrameSessions
      <3> HIDE DEF ids
      <3>4. id \in ids /\ id \in Slots
        BY <1>2, <3>1, MinIn
      <3>5. QED
        BY <3>1, <3>2, <3>3, <3>4
    <2>2. HandleConnectAck(s, st, src) = Transmit(x, f)
      BY <1>2 DEF HandleConnectAck
    <2> HIDE DEF id
    <2>3. Sound(x) /\ Unparked(x) /\ Rises(st, x)
      BY <2>1, EstablishRises
    <2>4. f \in AirFrame /\ f.type = "Cfm" /\ f.sid = st.sid
      BY Frames DEF FrameTypes, Sound, Control
    <2>7. Begins(st, Transmit(x, f), src)
      <3> HIDE DEF f
      <3>1. QED
        BY <2>1, <2>4, Beginning
    <2> HIDE DEF x, f
    <2>5. LET y == Transmit(x, f) IN Sound(y) /\ Unparked(y) /\ Quiet(x, y)
      BY <2>3, <2>4, TransmitSound
    <2>6. QED
      BY <2>2, <2>3, <2>5, <2>7 DEF Rises, Quiet, Step, HostStep
  <1>3. QED
    BY <1>1, <1>2

\* A removal, then its link, then the notice.
LEMMA RemovedEnds ==
    ASSUME NEW st, Sound(st), NEW id \in Slots, st.sessions[id] # NoSession, st.pending # id
    PROVE  LET y == NotifyEnd(DiscardSessionTx(Remove(st, id), id), StateOf(st, id) = "Accepting")
           IN Ends(st, y) /\ Leaves(st, y) /\ y.ended = st.ended
  <1> DEFINE x1 == Remove(st, id)
             x2 == DiscardSessionTx(x1, id)
  <1>1. /\ st \in Shape /\ st.pending = NoSlot
        /\ (st.link = NoLink => st.reported = 0) /\ (st.link # NoLink => st.link.session_id = id)
    BY Only
  <1>2. /\ x1 \in Shape /\ x1.sessions[id] = NoSession /\ x1.link = st.link /\ x1.reported = st.reported
        /\ x1.pending = NoSlot /\ x1.told = st.told
        /\ \A i \in Slots \ {id} : x1.sessions[i] = st.sessions[i]
        /\ x1.sid = st.sid /\ x1.submitted = st.submitted /\ x1.air = st.air /\ x1.ended = st.ended
    BY <1>1, RemoveClears
  <1> HIDE DEF x1
  <1>3. /\ x2 \in Shape /\ x2.sessions = x1.sessions /\ x2.link = NoLink /\ x2.reported = 0
        /\ x2.pending = NoSlot /\ x2.told = st.told
        /\ x2.sid = st.sid /\ x2.submitted = st.submitted /\ x2.air = st.air /\ x2.ended = st.ended
    BY <1>1, <1>2, DiscardClears
  <1> HIDE DEF x2
  <1>4. LET y == NotifyEnd(x2, StateOf(st, id) = "Accepting")
        IN Ends(st, y) /\ Leaves(st, y) /\ y.ended = x2.ended
    BY <1>2, <1>3, NotifyEndEnds
  <1>5. QED
    BY <1>3, <1>4 DEF x1, x2

\* handle_connect_cfm.
LEMMA ConnectCfmStep ==
    ASSUME NEW s \in Stations, NEW st, Sound(st), Unparked(st), NEW src \in Parties, NEW agrees \in BOOLEAN
    PROVE  LET y == HandleConnectCfm(s, st, src, agrees)
           IN Step(st, y) /\ (Moves(st, y) \/ Begins(st, y, src))
  <1> DEFINE ids == InState(st, SessionFor(st, src), {"Accepting"})
             id == Min(ids)
  <1>1. CASE ids = {}
    BY <1>1, StillMoves DEF HandleConnectCfm, Step, HostStep, Quiet
  <1>2. CASE ids # {}
    <2>1. /\ id \in Slots /\ st.sessions[id] # NoSession /\ st.sessions[id].state = "Accepting"
          /\ st.sessions[id].remote = src
      <3>6. ids \in SUBSET Slots /\ (\A i \in ids : st.sessions[i] # NoSession /\ st.sessions[i].state \in {"Accepting"})
        BY FrameSessions
      <3>1. ids \in SUBSET Slots /\ (\A i \in ids : st.sessions[i] # NoSession /\ st.sessions[i].state = "Accepting")
        BY <3>6
      <3>2. \A i \in ids : i \in SessionFor(st, src)
        BY DEF InState
      <3>3. \A i \in SessionFor(st, src) : st.sessions[i].remote = src
        BY FrameSessions
      <3> HIDE DEF ids
      <3>4. id \in ids /\ id \in Slots
        BY <1>2, <3>1, MinIn
      <3>5. QED
        BY <3>1, <3>2, <3>3, <3>4
    <2>2. HandleConnectCfm(s, st, src, agrees) =
             IF agrees THEN Establish(s, st, id)
             ELSE NotifyEnd(DiscardSessionTx(Remove(st, id), id), StateOf(st, id) = "Accepting")
      BY <1>2, <2>1 DEF HandleConnectCfm, NotifyEnd, StateOf
    <2> HIDE DEF id
    <2>3. CASE agrees
      <3>1. LET y == Establish(s, st, id) IN Sound(y) /\ Unparked(y) /\ Rises(st, y)
        BY <2>1, EstablishRises
      <3>3. Begins(st, Establish(s, st, id), src)
        <4> DEFINE f == Control(st, "Cfm", src)
        <4>1. f \in AirFrame /\ f.type = "Cfm" /\ f.sid = st.sid
          BY Frames DEF FrameTypes, Sound, Control
        <4> HIDE DEF f
        <4>2. QED
          BY <2>1, <4>1, Beginning
      <3>2. QED
        BY <2>2, <2>3, <3>1, <3>3 DEF Step, HostStep
    <2>4. CASE ~agrees
      <3>1. st.pending # id
        BY <2>1, Only DEF SoundSession
      <3> DEFINE y == NotifyEnd(DiscardSessionTx(Remove(st, id), id), StateOf(st, id) = "Accepting")
      <3>2. Ends(st, y) /\ Leaves(st, y) /\ y.ended = st.ended
        BY <2>1, <3>1, RemovedEnds
      <3> HIDE DEF y
      <3>3. Step(st, y) /\ Moves(st, y)
        BY <3>2, EndsStep, DropMoves
      <3>4. QED
        BY <2>2, <2>4, <3>3 DEF y
    <2>5. QED
      BY <2>3, <2>4
  <1>3. QED
    BY <1>1, <1>2

\* handle_incoming_disconnect.
LEMMA IncomingDisconnectStep ==
    ASSUME NEW st, Sound(st), Unparked(st), NEW src \in Parties
    PROVE  LET y == HandleIncomingDisconnect(st, src)
           IN Step(st, y) /\ Moves(st, y)
  <1> DEFINE id == Min(SessionFor(st, src))
             x1 == Remove(st, id)
             x2 == [x1 EXCEPT !.pending = IF @ = id THEN NoSlot ELSE @, !.ended = "dropped"]
             x3 == DiscardSessionTx(x2, id)
  <1>1. CASE SessionFor(st, src) = {}
    BY <1>1, StillMoves DEF HandleIncomingDisconnect, Step, HostStep, Quiet
  <1>2. CASE SessionFor(st, src) # {}
    <2>1. id \in Slots /\ st.sessions[id] # NoSession
      BY <1>2, MinIn, FrameSessions
    <2>2. HandleIncomingDisconnect(st, src) = NotifyEnd(x3, StateOf(st, id) = "Accepting")
      BY <1>2 DEF HandleIncomingDisconnect
    <2> HIDE DEF id
    <2>3. /\ st \in Shape /\ st.pending \in {NoSlot, id}
          /\ (st.link = NoLink => st.reported = 0) /\ (st.link # NoLink => st.link.session_id = id)
      BY <2>1, Only
    <2>4. /\ x1 \in Shape /\ x1.sessions[id] = NoSession /\ x1.link = st.link /\ x1.reported = st.reported
          /\ x1.pending = st.pending /\ x1.told = st.told
          /\ \A i \in Slots \ {id} : x1.sessions[i] = st.sessions[i]
          /\ x1.sid = st.sid /\ x1.submitted = st.submitted /\ x1.air = st.air
      BY <2>1, <2>3, RemoveClears
    <2> HIDE DEF x1
    <2>5. /\ x2 \in Shape /\ x2.sessions = x1.sessions /\ x2.link = st.link /\ x2.reported = st.reported
          /\ x2.pending = NoSlot /\ x2.told = st.told
          /\ x2.sid = st.sid /\ x2.submitted = st.submitted /\ x2.air = st.air /\ x2.ended = "dropped"
      BY <2>3, <2>4 DEF Shape
    <2> HIDE DEF x2
    <2>6. /\ x3 \in Shape /\ x3.sessions = x1.sessions /\ x3.link = NoLink /\ x3.reported = 0
          /\ x3.pending = NoSlot /\ x3.told = st.told
          /\ x3.sid = st.sid /\ x3.submitted = st.submitted /\ x3.air = st.air /\ x3.ended = "dropped"
      BY <2>1, <2>3, <2>5, DiscardClears
    <2> HIDE DEF x3
    <2> DEFINE y == NotifyEnd(x3, StateOf(st, id) = "Accepting")
    <2>7. Ends(st, y) /\ Leaves(st, y) /\ y.ended = "dropped"
      BY <2>1, <2>4, <2>6, NotifyEndEnds
    <2> HIDE DEF y
    <2>8. Step(st, y) /\ Moves(st, y)
      BY <2>7, EndsStep, DropMoves
    <2>9. QED
      BY <2>2, <2>8 DEF y
  <1>3. QED
    BY <1>1, <1>2

\* A session that takes data has its link, once no DISCONNECT of it is still to be heard.
LEMMA LiveLinked ==
    ASSUME NEW st, Sound(st), Calm(st), Closing(st), st.air = << >>, NEW src \in Parties,
           NEW id \in Live(st, src)
    PROVE  /\ st.link # NoLink /\ st.link.session_id = id /\ st.link.remote = src
           /\ EnsureSessionLink(st, id) = st
  <1>1. id \in Slots /\ st.sessions[id] # NoSession /\ st.sessions[id].remote = src
        /\ st.sessions[id].state \in {"Established", "Disconnecting"}
    BY DEF Live, SessionFor, Active, StateOf
  <1>2. st.link.session_id = id
    BY <1>1 DEF Calm, CalmTable, Closing, Transmitting
  <1>3. st.link # NoLink
    BY <1>1, <1>2, Sentinels, Constants
  <1>4. st.link.remote = src
    BY <1>1, <1>2, <1>3, LinkFacts DEF SoundLink
  <1>5. QED
    BY <1>2, <1>3, <1>4 DEF EnsureSessionLink

\* A segment received.
LEMMA RxAdvances ==
    ASSUME NEW x, Sound(x), x.link # NoLink, Calm(x), x.air = << >>, NEW f \in AirFrame,
           NEW l \in LinkShape, l.session_id = x.link.session_id, l.remote = x.link.remote,
           l.tx = x.link.tx, l.backlog = x.link.backlog, l.fallback = x.link.fallback,
           l.quiet = x.link.quiet, l.expired = x.link.expired,
           l.max_retransmit = x.link.max_retransmit,
           l.rx = RxReceive(x.link.rx, f.num, f.data, Window)
    PROVE  LET y == [x EXCEPT !.link = l]
           IN Calm(y) /\ Advances(x, y, f) /\ (Closing(x) => Closing(y))
  <1> DEFINE y == [x EXCEPT !.link = l]
  <1>1. /\ Sound(y) /\ y.link = l /\ y.air = x.air /\ y.sessions = x.sessions
        /\ y.sid = x.sid /\ y.submitted = x.submitted /\ y.ended = x.ended
    BY SideChange
  <1> HIDE DEF y
  <1>2. l # NoLink
    BY Sentinels
  <1>3. l.rx.rx_buf = ArqRxNew.rx_buf
    <2>1. x.link.rx \in RxType(0 .. MaxPayload) /\ x.link.rx.rx_buf = ArqRxNew.rx_buf
      BY LinkFacts DEF LinkShape, Calm, CalmLink
    <2>2. f.num \in SeqNum /\ f.data \in 0 .. MaxPayload
      BY DEF AirFrame
    <2> DEFINE D == 0 .. MaxPayload
               r == x.link.rx
    <2>3. r \in RxType(D) /\ r.rx_buf = ArqRxNew.rx_buf /\ f.data \in D
      BY <2>1, <2>2
    <2> HIDE DEF D
    <2>4. \/ RxReceive(r, f.num, f.data, Window).rx_buf = ArqRxNew.rx_buf
          \/ RxReceive(r, f.num, f.data, Window) = r
      BY <2>2, <2>3, ReceiveOne
    <2>5. QED
      BY <2>1, <2>4
  <1>4. SentCount(y) = SentCount(x) /\ Confirmed(y) = Confirmed(x) /\ SentCount(x) \in Int
    BY <1>1, Counts DEF SentCount, Confirmed
  <1>5. OnAir(y.air) = {} /\ DOMAIN y.air = {}
    BY <1>1, NoAir
  <1>6. CalmLink(y)
    BY <1>1, <1>2, <1>3, <1>4, <1>5 DEF Calm, CalmLink
  <1>7. CalmAir(y) /\ CalmTable(y)
    BY <1>1, <1>2, <1>5 DEF Calm, CalmAir, CalmTable
  <1>8. Closing(x) => Closing(y)
    BY <1>1 DEF Closing, Transmitting
  <1>9. Opening(y) <= Opening(x)
    BY <1>1 DEF Opening
  <1>10. x.ended # "drained"
    BY DEF Calm, CalmLink
  <1>11. Sends(x, y)
    BY <1>1, <1>2, <1>4, <1>10 DEF Sends
  <1>12. QED
    BY <1>1, <1>2, <1>6, <1>7, <1>8, <1>9, <1>11 DEF Calm, Advances, y

\* What only moves clocks before it is not seen.
LEMMA AlikeTakes ==
    ASSUME NEW x, Sound(x), NEW z, Sound(z), Alike(x, z), NEW y, Sound(y), NEW up, NEW src, NEW f,
           Takes(z, y, up, src, f)
    PROVE  Takes(x, y, up, src, f)
  <1>1. SUFFICES ASSUME Calm(x), Closing(x), x.air = << >> PROVE Takes(x, y, up, src, f)
    BY DEF Takes
  <1>2. Moves(x, z)
    BY AlikeMoves
  <1>3. Calm(z) /\ Closing(z) /\ z.air = << >> /\ Acts(x, z)
    BY <1>1, <1>2 DEF Moves, Alike
  <1>4. CASE up = << >> /\ Moves(z, y)
    BY <1>2, <1>4, MovesOn DEF Takes
  <1>5. CASE /\ z.link # NoLink /\ z.link.remote = src
             /\ up = RxDelivered(z.link.rx, f.num, f.data, Window)
             /\ \E m : Sound(m) /\ Calm(m) /\ Closing(m) /\ Advances(z, m, f) /\ Moves(m, y)
    <2>1. PICK m : Sound(m) /\ Calm(m) /\ Closing(m) /\ Advances(z, m, f) /\ Moves(m, y)
      BY <1>5
    <2>2. x.link # NoLink /\ x.link.remote = z.link.remote /\ x.link.rx = z.link.rx
      BY <1>5 DEF Alike
    <2>3. Sends(x, m)
      <3>1. Confirmed(z) = Confirmed(x) /\ SentCount(z) = SentCount(x)
        BY <1>5, <2>2 DEF Alike, Confirmed, SentCount
      <3>2. z.air = x.air /\ z.sid = x.sid /\ z.submitted = x.submitted /\ z.ended = x.ended
        BY DEF Alike
      <3>3. QED
        BY <1>5, <2>1, <2>2, <3>1, <3>2 DEF Advances, Sends
    <2>4. Opening(m) <= Opening(x)
      <3>1. Opening(m) \in {0, 1} /\ Opening(z) \in {0, 1} /\ Opening(x) \in {0, 1}
        BY DEF Opening
      <3>2. QED
        BY <1>3, <2>1, <3>1 DEF Acts, Advances
    <2>5. Advances(x, m, f)
      BY <1>1, <1>3, <2>1, <2>2, <2>3, <2>4 DEF Advances
    <2>6. QED
      BY <1>5, <2>1, <2>2, <2>5 DEF Takes
  <1>6. QED
    BY <1>1, <1>3, <1>4, <1>5 DEF Takes

\* handle_session_data.
LEMMA SessionDataStep ==
    ASSUME NEW st, Sound(st), Unparked(st), NEW src \in Parties, NEW f \in AirFrame
    PROVE  LET y == HandleSessionData(st, src, f)
               at == EnsureSessionLink(st, Min(Live(st, src)))
               up == IF Live(st, src) = {} THEN << >> ELSE RxDelivered(at.link.rx, f.num, f.data, Window)
           IN Step(st, y) /\ Takes(st, y, up, src, f)
  <1> DEFINE id == Min(Live(st, src))
             x1 == Touch(st, id)
             x2 == EnsureSessionLink(x1, id)
             l == [x2.link EXCEPT !.rx = RxReceive(x2.link.rx, f.num, f.data, Window)]
             got == [x2 EXCEPT !.link = l]
             ack == AckFrame(got)
  <1>1. CASE Live(st, src) = {}
    BY <1>1, StillMoves DEF HandleSessionData, Step, HostStep, Quiet, Takes
  <1>2. CASE Live(st, src) # {}
    <2>1. id \in Slots /\ st.sessions[id] # NoSession
          /\ st.sessions[id].state \in {"Established", "Disconnecting"} /\ id \in Live(st, src)
      BY <1>2, MinIn, FrameSessions
    <2> HIDE DEF id
    <2>2. Sound(x1) /\ Unparked(x1) /\ Quiet(st, x1) /\ SameTable(st, x1) /\ Alike(st, x1)
          /\ x1.link = st.link
      BY <2>1, TouchSound
    <2>3. x1.sessions[id] # NoSession /\ x1.sessions[id].state \in {"Established", "Disconnecting"}
      BY <2>1, <2>2 DEF SameTable
    <2>11. ASSUME Calm(st), Closing(st), st.air = << >>
           PROVE  /\ st.link # NoLink /\ st.link.remote = src /\ EnsureSessionLink(st, id) = st
                  /\ x2 = x1
      <3>1. /\ st.link # NoLink /\ st.link.session_id = id /\ st.link.remote = src
            /\ EnsureSessionLink(st, id) = st
        BY <2>1, <2>11, LiveLinked
      <3>2. QED
        BY <2>2, <3>1 DEF EnsureSessionLink
    <2> HIDE DEF x1
    <2>4. Sound(x2) /\ Unparked(x2) /\ Quiet(x1, x2) /\ x2.link # NoLink
      BY <2>1, <2>2, <2>3, EnsureSound
    <2>5. HandleSessionData(st, src, f) = Transmit(got, ack)
      <3>1. x2 \in Shape /\ x2.link \in LinkShape
        BY <2>4, LinkFacts
      <3>2. got = [x2 EXCEPT !.link.rx = RxReceive(@, f.num, f.data, Window)]
        BY <3>1 DEF Shape, LinkShape
      <3>3. QED
        BY <1>2, <3>2 DEF HandleSessionData, x1, id
    <2> HIDE DEF x2
    <2>6. /\ l \in LinkShape /\ l.session_id = x2.link.session_id /\ l.remote = x2.link.remote
          /\ l.tx = x2.link.tx /\ l.backlog = x2.link.backlog /\ l.fallback = x2.link.fallback
          /\ l.quiet = x2.link.quiet /\ l.expired = x2.link.expired
          /\ l.max_retransmit = x2.link.max_retransmit
      <3>1. x2.link \in LinkShape /\ x2.link.rx \in RxType(0 .. MaxPayload)
        BY <2>4, LinkFacts DEF LinkShape
      <3>2. f.num \in SeqNum /\ f.data \in 0 .. MaxPayload
        BY DEF AirFrame
      <3>3. RxReceive(x2.link.rx, f.num, f.data, Window) \in RxType(0 .. MaxPayload)
        BY <3>1, <3>2, RxReceiveType
      <3>4. QED
        BY <3>1, <3>3 DEF LinkShape
    <2>12. l.rx = RxReceive(x2.link.rx, f.num, f.data, Window)
      BY <2>4, LinkFacts DEF LinkShape
    <2> HIDE DEF l
    <2>13. Calm(x2) /\ x2.air = << >> => Calm(got) /\ Advances(x2, got, f) /\ (Closing(x2) => Closing(got))
      BY <2>4, <2>6, <2>12, RxAdvances
    <2>7. Sound(got) /\ Unparked(got) /\ Quiet(x2, got) /\ got.link = l
      BY <2>4, <2>6, SideChange
    <2> HIDE DEF got
    <2>8. got \in Shape /\ ack \in AirFrame /\ got.link # NoLink
      BY <2>6, <2>7, Sentinels, Frames DEF Sound
    <2>14. ASSUME got.air = << >>
           PROVE  Moves(got, Transmit(got, ack))
      <3>1. MayKey(got, ack) /\ ack.type = "Ack"
        BY <2>8, <2>14 DEF MayKey, AckFrame, AckInfo, IsData
      <3> HIDE DEF ack
      <3>2. QED
        BY <2>7, <2>8, <3>1, TransmitMoves
    <2> HIDE DEF ack
    <2>9. LET y == Transmit(got, ack) IN Sound(y) /\ Unparked(y) /\ Quiet(got, y)
      BY <2>7, <2>8, TransmitSound
    <2>10. Step(st, HandleSessionData(st, src, f))
      BY <2>2, <2>4, <2>5, <2>7, <2>9 DEF Quiet, Step, HostStep
    <2>15. ASSUME Calm(x1), Closing(x1), x1.air = << >>, x2 = x1, x1.link.remote = src
           PROVE  Takes(x1, Transmit(got, ack), RxDelivered(x1.link.rx, f.num, f.data, Window), src, f)
      <3>1. Calm(got) /\ Advances(x1, got, f) /\ Closing(got) /\ got.air = << >>
        BY <2>13, <2>15 DEF Advances
      <3>2. QED
        BY <2>4, <2>7, <2>14, <2>15, <3>1 DEF Takes
    <2>16. ASSUME Calm(st), Closing(st), st.air = << >>
           PROVE  Takes(st, Transmit(got, ack), RxDelivered(st.link.rx, f.num, f.data, Window), src, f)
      <3>1. Moves(st, x1)
        BY <2>2, AlikeMoves
      <3>2. Calm(x1) /\ Closing(x1) /\ x1.air = << >>
        BY <2>2, <2>16, <3>1 DEF Moves, Alike
      <3>3. Takes(x1, Transmit(got, ack), RxDelivered(st.link.rx, f.num, f.data, Window), src, f)
        BY <2>2, <2>11, <2>15, <2>16, <3>2
      <3>4. QED
        BY <2>2, <2>9, <3>3, AlikeTakes
    <2>17. Takes(st, HandleSessionData(st, src, f),
                 RxDelivered(EnsureSessionLink(st, id).link.rx, f.num, f.data, Window), src, f)
      BY <2>5, <2>11, <2>16 DEF Takes
    <2>18. QED
      BY <1>2, <2>10, <2>17 DEF id
  <1>3. QED
    BY <1>1, <1>2

\* handle_session_outer_data.
LEMMA SessionOuterStep ==
    ASSUME NEW st, Sound(st), Unparked(st), NEW src \in Parties, NEW f \in AirFrame, NEW rebuilt \in BOOLEAN
    PROVE  LET y == HandleSessionOuter(st, src, f, rebuilt)
               ids == {i \in Live(st, src) : st.sessions[i].outer}
               up == IF ids = {} \/ ~rebuilt \/ ~OuterExpected(st, Min(ids), f) THEN << >>
                     ELSE RxDelivered(EnsureSessionLink(st, Min(ids)).link.rx, f.num, f.data, Window)
           IN Step(st, y) /\ Takes(st, y, up, src, f)
  <1> DEFINE ids == {i \in Live(st, src) : st.sessions[i].outer}
             id == Min(ids)
             y == HandleSessionOuter(st, src, f, rebuilt)
             up == IF ids = {} \/ ~rebuilt \/ ~OuterExpected(st, id, f) THEN << >>
                   ELSE RxDelivered(EnsureSessionLink(st, id).link.rx, f.num, f.data, Window)
             x1 == Touch(st, id)
             at == EnsureSessionLink(x1, id)
             again == f.num # at.link.rx.recv_base
             rx == IF rebuilt THEN RxReceive(at.link.rx, f.num, f.data, Window) ELSE at.link.rx
             due == IF rebuilt \/ again \/ at.link.block_ack = "ready" THEN "ready" ELSE "armed"
             l == [at.link EXCEPT !.rx = rx, !.block_ack = due]
             got == [at EXCEPT !.link = l]
  <1>1. CASE ids = {}
    BY <1>1, StillMoves, Zenon DEF HandleSessionOuter, Step, HostStep, Quiet, Takes
  <1>2. CASE ids # {}
    <2>1. id \in Slots /\ st.sessions[id] # NoSession
          /\ st.sessions[id].state \in {"Established", "Disconnecting"} /\ id \in Live(st, src)
      <3>1. ids \in SUBSET Slots /\ ids \subseteq Live(st, src)
        BY FrameSessions
      <3>2. id \in ids
        BY <1>2, <3>1, MinIn
      <3>3. id \in Live(st, src)
        BY <3>1, <3>2
      <3> HIDE DEF id, ids
      <3>4. QED
        BY <3>3, FrameSessions
    <2>2. Sound(x1) /\ Unparked(x1) /\ Quiet(st, x1) /\ SameTable(st, x1) /\ Alike(st, x1)
          /\ x1.link = st.link
      <3> HIDE DEF id
      <3>1. QED
        BY <2>1, TouchSound, Zenon
    <2>3. x1.sessions[id] # NoSession /\ x1.sessions[id].state \in {"Established", "Disconnecting"}
      BY <2>1, <2>2 DEF SameTable
    <2>4. Sound(at) /\ Unparked(at) /\ Quiet(x1, at) /\ at.link # NoLink
      <3> HIDE DEF id, x1
      <3>1. QED
        BY <2>1, <2>2, <2>3, EnsureSound
    <2>11. ASSUME Calm(st), Closing(st), st.air = << >>
           PROVE  /\ st.link # NoLink /\ st.link.remote = src /\ EnsureSessionLink(st, id) = st
                  /\ at = x1
      <3> HIDE DEF id
      <3>1. /\ st.link # NoLink /\ st.link.session_id = id /\ st.link.remote = src
            /\ EnsureSessionLink(st, id) = st
        BY <2>1, <2>11, LiveLinked
      <3> HIDE DEF x1
      <3>2. QED
        BY <2>2, <3>1 DEF EnsureSessionLink
    <2>5. at \in Shape /\ at.link \in LinkShape
      BY <2>4, LinkFacts
    <2>6. y = IF OuterExpected(st, id, f) THEN NoteEvidence(got) ELSE at
      <3> HIDE DEF at
      <3>1. got = [at EXCEPT
                     !.link.rx = IF rebuilt THEN RxReceive(@, f.num, f.data, Window) ELSE @,
                     !.link.block_ack = IF rebuilt \/ again \/ @ = "ready" THEN "ready" ELSE "armed"]
        BY <2>5 DEF Shape, LinkShape
      <3>2. y = IF ~OuterExpected(st, id, f) THEN at
                ELSE NoteEvidence([at EXCEPT
                     !.link.rx = IF rebuilt THEN RxReceive(@, f.num, f.data, Window) ELSE @,
                     !.link.block_ack = IF rebuilt \/ again \/ @ = "ready" THEN "ready" ELSE "armed"])
        BY <1>2, Zenon DEF HandleSessionOuter, at
      <3> HIDE DEF id, y, got
      <3>3. QED
        BY <3>1, <3>2
    <2>12. up = IF ~rebuilt \/ ~OuterExpected(st, id, f) THEN << >>
                ELSE RxDelivered(EnsureSessionLink(st, id).link.rx, f.num, f.data, Window)
      <3> HIDE DEF id
      <3>1. QED
        BY <1>2
    <2> HIDE DEF id, x1, at, y, up
    <2>7. /\ l \in LinkShape /\ l.session_id = at.link.session_id /\ l.remote = at.link.remote
          /\ l.tx = at.link.tx /\ l.backlog = at.link.backlog /\ l.fallback = at.link.fallback
          /\ l.quiet = at.link.quiet /\ l.expired = at.link.expired
          /\ l.max_retransmit = at.link.max_retransmit
      <3>1. at.link.rx \in RxType(0 .. MaxPayload)
        BY <2>5 DEF LinkShape
      <3>2. f.num \in SeqNum /\ f.data \in 0 .. MaxPayload
        BY DEF AirFrame
      <3>3. rx \in RxType(0 .. MaxPayload)
        BY <3>1, <3>2, RxReceiveType
      <3> HIDE DEF rx
      <3>4. QED
        BY <2>5, <3>3 DEF LinkShape
    <2>13. l.rx = IF rebuilt THEN RxReceive(at.link.rx, f.num, f.data, Window) ELSE at.link.rx
      <3> HIDE DEF rx, due
      <3>1. l.rx = rx
        BY <2>5 DEF LinkShape
      <3>2. QED
        BY <3>1 DEF rx
    <2> HIDE DEF l
    <2>14. ASSUME Calm(at), at.air = << >>, rebuilt
           PROVE  Calm(got) /\ Advances(at, got, f) /\ (Closing(at) => Closing(got))
      BY <2>4, <2>7, <2>13, <2>14, RxAdvances
    <2>15. ~rebuilt => Alike(at, got)
      BY <2>4, <2>7, <2>13, SideChange
    <2>8. Sound(got) /\ Unparked(got) /\ Quiet(at, got)
      BY <2>4, <2>7, SideChange
    <2> HIDE DEF got
    <2>9. LET z == NoteEvidence(got) IN Sound(z) /\ Unparked(z) /\ Quiet(got, z) /\ Moves(got, z)
      BY <2>8, EvidenceSound, AlikeMoves
    <2>10. Step(st, y)
      BY <2>2, <2>4, <2>6, <2>8, <2>9 DEF Quiet, Step, HostStep
    <2>16. ASSUME Calm(st), Closing(st), st.air = << >>
           PROVE  Takes(st, y, up, src, f)
      <3> DEFINE z == NoteEvidence(got)
                 had == RxDelivered(st.link.rx, f.num, f.data, Window)
      <3>1. Moves(st, at)
        BY <2>2, <2>11, <2>16, AlikeMoves
      <3>2. Calm(at) /\ Closing(at) /\ at.air = << >> /\ Alike(st, at)
        BY <2>2, <2>11, <2>16, <3>1 DEF Moves, Alike
      <3>3. up = IF ~rebuilt \/ ~OuterExpected(st, id, f) THEN << >> ELSE had
        BY <2>11, <2>12, <2>16
      <3>4. Sound(z) /\ Moves(got, z)
        BY <2>9
      <3> HIDE DEF z, had
      <3>5. CASE ~OuterExpected(st, id, f)
        BY <2>6, <3>1, <3>3, <3>5 DEF Takes
      <3>6. CASE OuterExpected(st, id, f) /\ ~rebuilt
        <4>1. Moves(at, got)
          BY <2>4, <2>8, <2>15, <3>6, AlikeMoves
        <4>2. Moves(at, z)
          BY <2>4, <2>8, <3>4, <4>1, MovesOn
        <4>3. Moves(st, z)
          BY <2>4, <3>1, <3>4, <4>2, MovesOn
        <4>4. QED
          BY <2>6, <3>3, <3>6, <4>3 DEF Takes, z
      <3>7. CASE OuterExpected(st, id, f) /\ rebuilt
        <4>1. Calm(got) /\ Advances(at, got, f) /\ Closing(got)
          BY <2>14, <3>2, <3>7
        <4>2. at.link # NoLink /\ at.link.remote = src /\ at.link.rx = st.link.rx
          BY <2>2, <2>11, <2>16
        <4>3. Takes(at, z, had, src, f)
          BY <2>8, <3>4, <4>1, <4>2 DEF Takes, had
        <4>4. Takes(st, z, had, src, f)
          BY <2>4, <3>2, <3>4, <4>3, AlikeTakes
        <4>5. y = z /\ up = had
          BY <2>6, <3>3, <3>7 DEF z
        <4>6. QED
          BY <4>4, <4>5
      <3>8. QED
        BY <3>5, <3>6, <3>7
    <2>17. Takes(st, y, up, src, f)
      BY <2>16 DEF Takes
    <2>18. QED
      BY <2>10, <2>17 DEF y, up, id
  <1>3. QED
    BY <1>1, <1>2, Zenon

\* NoteEvidence and Touch come first: the rest counts from before them.
LEMMA AlikePaces ==
    ASSUME NEW x, Sound(x), NEW z, Sound(z), Alike(x, z), NEW y, Sound(y), NEW src, NEW f,
           Paces(z, y, src, f)
    PROVE  Paces(x, y, src, f)
  <1>1. SUFFICES ASSUME Calm(x), Closing(x), x.air = << >> PROVE Paces(x, y, src, f)
    BY DEF Paces
  <1>2. Moves(x, z)
    BY AlikeMoves
  <1>3. Calm(z) /\ Closing(z) /\ z.air = << >> /\ Acts(x, z)
    BY <1>1, <1>2 DEF Moves, Alike
  <1>4. CASE Moves(z, y)
    BY <1>2, <1>4, MovesOn DEF Paces
  <1>5. CASE /\ z.link # NoLink /\ z.link.remote = src
             /\ \E m : Sound(m) /\ Calm(m) /\ Closing(m) /\ Settles(z, m, f) /\ Moves(m, y)
    <2>1. PICK m : Sound(m) /\ Calm(m) /\ Closing(m) /\ Settles(z, m, f) /\ Moves(m, y)
      BY <1>5
    <2>2. x.link # NoLink /\ x.link.remote = z.link.remote /\ x.link.rx = z.link.rx
      BY <1>5 DEF Alike
    <2>3. SentCount(z) = SentCount(x)
      BY <1>5 DEF Alike, SentCount
    <2>4. Opening(m) <= Opening(x)
      <3>1. Opening(m) \in {0, 1} /\ Opening(z) \in {0, 1} /\ Opening(x) \in {0, 1}
        BY DEF Opening
      <3>2. QED
        BY <1>3, <2>1, <3>1 DEF Acts, Settles
    <2>5. Settles(x, m, f)
      BY <2>1, <2>2, <2>3, <2>4 DEF Settles, Alike
    <2>6. QED
      BY <1>5, <2>1, <2>2, <2>5 DEF Paces
  <1>6. QED
    BY <1>1, <1>3, <1>4, <1>5 DEF Paces

\* handle_session_ack: the ACK that empties the window lowers BUFFER.
LEMMA SessionAckStep ==
    ASSUME NEW st, Sound(st), Unparked(st), NEW src \in Parties, NEW f \in AirFrame,
           NEW plain \in BOOLEAN, NEW refuse \in BOOLEAN
    PROVE  LET y == HandleSessionAck(st, src, f, plain, refuse)
           IN Step(st, y) /\ Paces(st, y, src, f)
  <1> DEFINE id == Min(Live(st, src))
             at == Touch(st, id)
             l == AckedLink(st.link, f.num)
             acked == [at EXCEPT !.link = l]
             told == ReportBuffer(acked)
             more == DrainSessionLink(told, plain, refuse)
             tx == ProcessAck(st.link.tx, f.num, {})
             new == NewlyAcked(st.link.tx, f.num, {})
  <1>1. CASE Live(st, src) = {}
    BY <1>1, StillMoves DEF HandleSessionAck, Step, HostStep, Quiet, Paces
  <1>2. ASSUME Live(st, src) # {}
        PROVE  id \in Slots /\ st.sessions[id] # NoSession /\ st.sessions[id].remote = src
    <2>1. id \in Live(st, src) /\ id \in Slots
      BY <1>2, MinIn, FrameSessions
    <2>2. id \in SessionFor(st, src)
      BY <2>1 DEF Live
    <2> HIDE DEF id
    <2>3. QED
      BY <2>1, <2>2, FrameSessions
  <1>3. ASSUME Live(st, src) # {}
        PROVE  /\ Sound(at) /\ Unparked(at) /\ Quiet(st, at) /\ SameTable(st, at) /\ at.link = st.link
               /\ at.air = st.air /\ Alike(st, at)
    <2> HIDE DEF id
    <2>1. QED
      BY <1>2, <1>3, TouchSound
  <1>4. CASE Live(st, src) # {} /\ (st.link = NoLink \/ ~AckFits(st.link, f.num))
    <2>1. HandleSessionAck(st, src, f, plain, refuse) = at
      BY <1>4 DEF HandleSessionAck
    <2>2. QED
      BY <1>3, <1>4, <2>1, AlikeMoves DEF Step, HostStep, Paces
  <1>5. CASE Live(st, src) # {} /\ st.link # NoLink /\ AckFits(st.link, f.num)
    <2>1. HandleSessionAck(st, src, f, plain, refuse) =
             IF new = {} THEN acked ELSE FinishDrainedDisconnect(more)
      <3> HIDE DEF l
      <3>1. acked = [at EXCEPT !.link = AckedLink(@, f.num)]
        BY <1>3, <1>5 DEF l, Sound, Shape
      <3>2. QED
        BY <1>5, <3>1 DEF HandleSessionAck
    <2>15. st.link.remote = src
      <3> HIDE DEF id
      <3>1. st.link.session_id = id
        BY <1>2, <1>5, Only
      <3>2. QED
        BY <1>2, <1>5, <3>1, LinkFacts DEF SoundLink
    <2> HIDE DEF at, id
    <2>2. /\ st.link \in LinkShape /\ SoundLink(st) /\ st.link.tx \in TxType(1 .. MaxPayload)
          /\ Carried(st.link.tx) /\ InFlight(st.link.tx) \in {0, 1}
          /\ st.reported = st.link.backlog + InFlight(st.link.tx) /\ st.link.backlog \in Nat
      BY <1>5, LinkFacts
    <2>3. f.num \in SeqNum
      BY DEF AirFrame
    <2>4. \/ tx = st.link.tx
          \/ /\ tx \in TxType(1 .. MaxPayload) /\ Carried(tx)
             /\ InFlight(st.link.tx) = 1 /\ InFlight(tx) = 0 /\ new # {}
             /\ tx.next_seq = st.link.tx.next_seq /\ f.num = st.link.tx.next_seq
      BY <1>5, <2>2, <2>3, AckCarries DEF AckFits
    <2>5. tx \in TxType(1 .. MaxPayload) /\ Carried(tx) /\ InFlight(tx) \in {0, 1}
      BY <2>2, <2>4
    <2>6. /\ l \in LinkShape /\ l.session_id = st.link.session_id /\ l.remote = st.link.remote
          /\ l.tx = tx /\ l.backlog = st.link.backlog /\ l.rx = st.link.rx
          /\ Budgeted(l)
      <3> HIDE DEF tx
      <3>1. l = IF InFlight(tx) > 0 THEN [st.link EXCEPT !.tx = tx]
                ELSE [st.link EXCEPT !.tx = tx, !.fallback = FALSE, !.quiet = 0, !.expired = FALSE,
                         !.max_retransmit = IF st.link.fallback THEN MaxRetransmit ELSE @,
                         !.ack_pair = @ \/ (st.link.tx_outer /\ InFlight(st.link.tx) > 0)]
        BY DEF AckedLink, tx
      <3>2. CASE InFlight(tx) > 0
        <4>1. tx = st.link.tx
          BY <2>4, <3>2 DEF tx
        <4>2. l = st.link
          BY <2>2, <3>1, <3>2, <4>1 DEF LinkShape
        <4>3. QED
          BY <2>2, <4>1, <4>2 DEF SoundLink
      <3>3. CASE ~(InFlight(tx) > 0)
        <4>1. MaxRetransmit \in 0 .. CountMax /\ 0 \in 0 .. NoEvidenceTicks
          BY Constants
        <4> DEFINE budget == IF st.link.fallback THEN MaxRetransmit ELSE st.link.max_retransmit
                   pair == st.link.ack_pair \/ (st.link.tx_outer /\ InFlight(st.link.tx) > 0)
        <4>2. budget = MaxRetransmit
          BY <2>2 DEF SoundLink, Budgeted
        <4>3. pair \in BOOLEAN
          BY <2>2 DEF LinkShape
        <4>4. l = [st.link EXCEPT !.tx = tx, !.fallback = FALSE, !.quiet = 0, !.expired = FALSE,
                                  !.max_retransmit = budget, !.ack_pair = pair]
          BY <2>2, <3>1, <3>3 DEF LinkShape
        <4> HIDE DEF l, budget, pair
        <4>5. /\ l \in LinkShape /\ l.session_id = st.link.session_id /\ l.remote = st.link.remote
              /\ l.tx = tx /\ l.backlog = st.link.backlog /\ ~l.fallback /\ l.max_retransmit = budget
              /\ l.rx = st.link.rx
          BY <2>2, <2>5, <4>1, <4>2, <4>3, <4>4 DEF LinkShape
        <4>6. QED
          BY <4>2, <4>5 DEF Budgeted
      <3>4. QED
        BY <3>2, <3>3
    <2> HIDE DEF l
    <2>7. st.link.backlog <= at.submitted
      BY <1>3, <1>5, LinkFacts DEF SoundLink
    <2>8. Carried(l.tx) /\ l.backlog <= at.submitted
      BY <2>5, <2>6, <2>7
    <2>9. at.link # NoLink /\ l.session_id = at.link.session_id /\ l.remote = at.link.remote
      BY <1>3, <1>5, <2>6
    <2>10. /\ acked.link = l /\ acked.held = at.held /\ acked.air = at.air
           /\ l.backlog + InFlight(l.tx) = at.link.backlog + InFlight(at.link.tx) => Sound(acked) /\ Quiet(at, acked)
           /\ Sound(told) /\ told.told = at.told /\ told.reported = l.backlog + InFlight(l.tx)
           /\ Stage(told) = Stage(at)
           /\ SameTable(at, acked) /\ acked.sid = at.sid /\ acked.submitted = at.submitted
           /\ acked.ended = at.ended
           /\ SameTable(at, told) /\ told.link = l /\ told.air = at.air /\ told.sid = at.sid
           /\ told.submitted = at.submitted /\ told.ended = at.ended
      BY <1>3, <1>5, <2>6, <2>8, <2>9, Relinked DEF SameTable
    <2> HIDE DEF acked, told
    <2>16. l # NoLink
      BY <2>6, Sentinels
    <2>17. ASSUME tx = st.link.tx
           PROVE  Alike(at, acked) /\ Alike(at, told)
      BY <1>3, <1>5, <2>6, <2>10, <2>16, <2>17 DEF Alike
    <2>18. ASSUME Calm(at), Closing(at), at.air = << >>, tx # st.link.tx
           PROVE  Calm(told) /\ Closing(told) /\ Settles(at, told, f)
      <3>1. /\ InFlight(l.tx) = 0 /\ l.tx.next_seq = at.link.tx.next_seq /\ f.num = at.link.tx.next_seq
            /\ l.backlog = at.link.backlog /\ l.rx = at.link.rx
        BY <1>3, <1>5, <2>4, <2>6, <2>18
      <3>2. SentCount(told) = SentCount(at) /\ SentCount(at) \in Int
        BY <1>3, <1>5, <2>10, <3>1, Counts DEF SentCount
      <3>3. Confirmed(told) = SentCount(at)
        BY <2>10, <3>1, <3>2 DEF Confirmed
      <3>4. OnAir(told.air) = {} /\ DOMAIN told.air = {}
        BY <2>10, <2>18, NoAir
      <3>5. CalmLink(told)
        BY <2>9, <2>10, <2>18, <3>1, <3>2, <3>4 DEF Calm, CalmLink
      <3>6. CalmAir(told)
        BY <3>4 DEF CalmAir
      <3>11. CalmTable(told)
        <4>1. CalmTable(at)
          BY <2>18 DEF Calm
        <4>2. told.link # NoLink /\ told.link.session_id = at.link.session_id
          BY <2>9, <2>10, <2>16
        <4>3. QED
          BY <2>10, <4>1, <4>2 DEF CalmTable, SameTable
      <3>7. Closing(told)
        BY <2>9, <2>10, <2>18 DEF Closing, SameTable, Transmitting
      <3>8. Opening(told) <= Opening(at)
        BY <2>10 DEF Opening, SameTable
      <3>9. f.num = SentCount(at) % SeqMod
        BY <2>9, <2>18, <3>1 DEF Calm, CalmLink
      <3>10. QED
        BY <2>9, <2>10, <2>16, <3>1, <3>2, <3>3, <3>5, <3>6, <3>7, <3>8, <3>9, <3>11 DEF Calm, Settles
    <2>11. Sound(more) /\ Unparked(more) /\ Quiet(told, more) /\ Moves(told, more)
      BY <2>10, DrainSound
    <2> HIDE DEF more
    <2>19. LET z == FinishDrainedDisconnect(more) IN Sound(z) /\ Moves(told, z)
      <3>1. LET z == FinishDrainedDisconnect(more) IN Sound(z) /\ Moves(more, z)
        BY <2>11, FinishMoves
      <3>2. QED
        BY <2>10, <2>11, <3>1, MovesOn
    <2>12. CASE new = {}
      <3>1. tx = st.link.tx
        BY <2>4, <2>12
      <3>2. Sound(acked) /\ Quiet(at, acked)
        BY <1>3, <1>5, <2>6, <2>10, <3>1
      <3>3. Unparked(acked)
        BY <1>3, <1>5, <2>6, <2>9, <2>10, <3>1, Sentinels DEF Unparked, Ready, Transmitting
      <3>5. Moves(st, acked)
        <4>1. Moves(at, acked)
          BY <1>3, <1>5, <2>17, <3>1, <3>2, AlikeMoves
        <4>2. QED
          BY <1>3, <1>5, <3>2, <4>1, MovesOn, AlikeMoves
      <3>4. QED
        BY <1>3, <1>5, <2>1, <2>12, <3>2, <3>3, <3>5 DEF Step, HostStep, Quiet, Paces
    <2>13. CASE new # {}
      <3>1. \/ told.reported = st.reported
            \/ told.reported \in Nat /\ told.reported < st.reported
        BY <2>2, <2>4, <2>6, <2>10
      <3>2. Stage(st) \in {"up", "closing"}
        <4>1. /\ st.link.session_id \in Slots /\ st.sessions[st.link.session_id] # NoSession
              /\ st.sessions[st.link.session_id].state \in {"Established", "Disconnecting"}
          BY <2>2 DEF SoundLink
        <4>2. QED
          BY <4>1, Only DEF StageOf
      <3>3. Quiet(st, more) \/ Reports(st, more)
        BY <1>3, <1>5, <2>10, <2>11, <3>1, <3>2 DEF Quiet, Reports
      <3> DEFINE y == FinishDrainedDisconnect(more)
      <3>4. Step(st, y)
        BY <2>11, <3>3, FinishStep
      <3>5. Sound(y) /\ Moves(told, y)
        BY <2>19
      <3> HIDE DEF y
      <3>6. Paces(at, y, src, f)
        <4>1. CASE tx = st.link.tx
          BY <1>3, <1>5, <2>10, <2>17, <3>5, <4>1, AlikeMoves, MovesOn DEF Paces
        <4>2. CASE tx # st.link.tx
          <5>1. SUFFICES ASSUME Calm(at), Closing(at), at.air = << >> PROVE Paces(at, y, src, f)
            BY DEF Paces
          <5>2. at.link # NoLink /\ at.link.remote = src
            BY <1>3, <1>5, <2>15
          <5>3. Calm(told) /\ Closing(told) /\ Settles(at, told, f)
            BY <2>18, <4>2, <5>1
          <5>4. QED
            BY <2>10, <3>5, <5>2, <5>3 DEF Paces
        <4>3. QED
          BY <4>1, <4>2
      <3>7. Paces(st, y, src, f)
        BY <1>3, <1>5, <3>5, <3>6, AlikePaces
      <3>8. QED
        BY <2>1, <2>13, <3>4, <3>7 DEF y
    <2>14. QED
      BY <2>12, <2>13
  <1>6. QED
    BY <1>1, <1>4, <1>5

\* The same for any frame.
LEMMA AlikeReceives ==
    ASSUME NEW s, NEW x, Sound(x), NEW z, Sound(z), Alike(x, z), NEW y, Sound(y), NEW up, NEW src, NEW f,
           Receives(s, z, y, up, src, f)
    PROVE  Receives(s, x, y, up, src, f)
  <1>1. Moves(x, z)
    BY AlikeMoves
  <1>2. ASSUME Moves(z, y)
        PROVE  Moves(x, y)
    BY <1>1, <1>2, MovesOn
  <1>3. x \in Shape /\ z \in Shape /\ y \in Shape
    BY DEF Sound
  <1>4. /\ Opening(x) \in {0, 1} /\ Opening(z) \in {0, 1} /\ Opening(y) \in {0, 1}
        /\ Reqs(x.air) \in Nat /\ Reqs(z.air) \in Nat /\ Reqs(y.air) \in Nat
    BY <1>3, ReqsCount DEF Opening, Shape
  <1>5. Calm(x) /\ x.air = << >> =>
            /\ Calm(z) /\ z.air = << >> /\ Sends(x, z) /\ Hears(x, z) /\ (Closing(x) => Closing(z))
            /\ Opening(z) <= Opening(x) /\ Reqs(z.air) <= Reqs(x.air) /\ z.sid = x.sid
    BY <1>1 DEF Moves, Acts, Alike
  <1>6. ASSUME Answered(z, y)
        PROVE  Answered(x, y)
    <2>1. SUFFICES ASSUME Calm(x), x.air = << >>
                   PROVE  /\ Calm(y) /\ Sends(x, y) /\ Hears(x, y) /\ (Closing(x) => Closing(y))
                          /\ Opening(y) <= Opening(x) + 1 /\ Reqs(y.air) <= Reqs(x.air)
      BY DEF Answered
    <2>2. /\ Calm(y) /\ Sends(z, y) /\ Hears(z, y) /\ (Closing(z) => Closing(y))
          /\ Opening(y) <= Opening(z) + 1 /\ Reqs(y.air) <= Reqs(z.air)
      BY <1>5, <1>6, <2>1 DEF Answered
    <2>3. Sends(x, y) /\ Hears(x, y)
      BY <1>5, <2>1, <2>2, SendsOn
    <2>4. QED
      BY <1>4, <1>5, <2>1, <2>2, <2>3
  <1>7. ASSUME Begins(z, y, src)
        PROVE  Begins(x, y, src)
    BY <1>4, <1>5, <1>7 DEF Begins
  <1>8. ASSUME Takes(z, y, up, src, f)
        PROVE  Takes(x, y, up, src, f)
    BY <1>8, AlikeTakes
  <1>9. ASSUME Paces(z, y, src, f)
        PROVE  Paces(x, y, src, f)
    BY <1>9, AlikePaces
  <1>10. QED
    BY <1>2, <1>6, <1>7, <1>8, <1>9 DEF Receives

\* What is handed up does not depend on the clocks.
LEMMA SameHanded ==
    ASSUME NEW s, NEW x, NEW z, Alike(x, z), z.sessions = x.sessions, NEW src, NEW f, NEW well
    PROVE  HandedUp(s, z, src, f, well) = HandedUp(s, x, src, f, well)
  <1>1. Live(z, src) = Live(x, src)
    BY DEF Alike, SameTable, Live, SessionFor, Active, StateOf
  <1>2. \A id : EnsureSessionLink(z, id).link.rx = EnsureSessionLink(x, id).link.rx
    BY DEF Alike, EnsureSessionLink, ResetSessionLink, LinkNew
  <1>3. \A id : OuterExpected(z, id, f) = OuterExpected(x, id, f)
    BY <1>2 DEF OuterExpected
  <1>4. QED
    BY <1>1, <1>2, <1>3 DEF HandedUp

\* handle_mac_pdu.
LEMMA MacPduStep ==
    ASSUME NEW s \in Stations, NEW st, Sound(st), Unparked(st), NEW src \in Parties, NEW f \in AirFrame,
           NEW well \in BOOLEAN, NEW plain \in BOOLEAN, NEW refuse \in BOOLEAN
    PROVE  LET y == HandleMacPdu(s, st, src, f, well, plain, refuse)
           IN Step(st, y) /\ Receives(s, st, y, HandedUp(s, st, src, f, well), src, f)
  <1> DEFINE at == IF f.type # "Outer" /\ st.link # NoLink /\ st.link.remote = src
                     THEN NoteEvidence(st) ELSE st
             y == HandleMacPdu(s, st, src, f, well, plain, refuse)
             touched == IF SessionFor(at, src) = {} THEN at ELSE Touch(at, Min(SessionFor(at, src)))
             up == HandedUp(s, at, src, f, well)
  <1>1. /\ Sound(at) /\ Unparked(at) /\ Quiet(st, at) /\ Alike(st, at) /\ at.sessions = st.sessions
    <2>1. LET z == NoteEvidence(st)
          IN Sound(z) /\ Unparked(z) /\ Quiet(st, z) /\ Alike(st, z) /\ z.sessions = st.sessions
      BY EvidenceSound
    <2>2. Quiet(st, st) /\ Alike(st, st)
      BY DEF Quiet, Alike, SameTable
    <2> DEFINE z == NoteEvidence(st)
    <2>3. at \in {st, z}
      OBVIOUS
    <2> HIDE DEF at, z
    <2>4. QED
      BY <2>1, <2>2, <2>3 DEF z
  <1>2. \/ y = at /\ f.dest # s
        \/ f.dest = s /\ f.type = "Req" /\ y = HandleIncomingConnect(s, at, src, well)
        \/ f.dest = s /\ f.type = "ConnectAck" /\ y = HandleConnectAck(s, at, src)
        \/ f.dest = s /\ f.type = "Cfm" /\ y = HandleConnectCfm(s, at, src, well)
        \/ f.dest = s /\ f.type = "Disconnect" /\ y = HandleIncomingDisconnect(at, src)
        \/ f.dest = s /\ f.type = "Data" /\ y = HandleSessionData(at, src, f)
        \/ f.dest = s /\ f.type = "Outer" /\ y = HandleSessionOuter(at, src, f, well)
        \/ f.dest = s /\ f.type = "Ack" /\ y = HandleSessionAck(at, src, f, plain, refuse)
        \/ f.dest = s /\ f.type \notin {"Req", "ConnectAck", "Cfm", "Disconnect", "Data", "Outer", "Ack"}
           /\ y = touched
    <2> HIDE DEF at, touched
    <2>1. f.type \in FrameTypes
      BY DEF AirFrame
    <2>2. y = IF f.dest # s THEN at
              ELSE CASE f.type = "Req" -> HandleIncomingConnect(s, at, src, well)
                     [] f.type = "ConnectAck" -> HandleConnectAck(s, at, src)
                     [] f.type = "Cfm" -> HandleConnectCfm(s, at, src, well)
                     [] f.type = "Disconnect" -> HandleIncomingDisconnect(at, src)
                     [] f.type = "Data" -> HandleSessionData(at, src, f)
                     [] f.type = "Outer" -> HandleSessionOuter(at, src, f, well)
                     [] f.type = "Ack" -> HandleSessionAck(at, src, f, plain, refuse)
                     [] OTHER -> touched
      BY DEF HandleMacPdu, at, touched
    <2> HIDE DEF y
    <2>3. QED
      BY <2>1, <2>2 DEF FrameTypes
  <1>12. up = HandedUp(s, st, src, f, well)
    <2> HIDE DEF at
    <2>1. QED
      BY <1>1, SameHanded
  <1> HIDE DEF at, y
  <1>3. Step(at, at) /\ Moves(at, at)
    BY <1>1, StillMoves DEF Step, HostStep, Quiet
  <1>4. Step(at, touched) /\ Moves(at, touched)
    <2>1. CASE SessionFor(at, src) = {}
      BY <1>3, <2>1
    <2>2. CASE SessionFor(at, src) # {}
      <3> DEFINE id == Min(SessionFor(at, src))
      <3>1. id \in Slots /\ at.sessions[id] # NoSession /\ touched = Touch(at, id)
        BY <1>1, <2>2, MinIn, FrameSessions
      <3> HIDE DEF id, touched
      <3>2. LET z == Touch(at, id) IN Sound(z) /\ Unparked(z) /\ Quiet(at, z) /\ Alike(at, z)
        BY <1>1, <3>1, TouchSound
      <3>4. Moves(at, touched)
        BY <1>1, <3>1, <3>2, AlikeMoves
      <3>3. QED
        BY <3>1, <3>2, <3>4 DEF Step, HostStep
    <2>3. QED
      BY <2>1, <2>2
  <1> HIDE DEF touched
  <1>7. ~(IsData(f) /\ f.dest = s) => up = << >>
    BY DEF HandedUp, IsData
  <1>8. f.type = "Data" /\ f.dest = s =>
           up = IF Live(at, src) = {} THEN << >>
                ELSE RxDelivered(EnsureSessionLink(at, Min(Live(at, src))).link.rx, f.num, f.data, Window)
    <2>1. SUFFICES ASSUME f.type = "Data", f.dest = s
                   PROVE  up = IF Live(at, src) = {} THEN << >>
                               ELSE RxDelivered(EnsureSessionLink(at, Min(Live(at, src))).link.rx,
                                                f.num, f.data, Window)
      OBVIOUS
    <2>2. {i \in Live(at, src) : f.type = "Outer" => at.sessions[i].outer} = Live(at, src)
      BY <2>1
    <2>3. QED
      BY <2>1, <2>2 DEF HandedUp
  <1>9. f.type = "Outer" /\ f.dest = s =>
           LET ids == {i \in Live(at, src) : at.sessions[i].outer}
           IN up = IF ids = {} \/ ~well \/ ~OuterExpected(at, Min(ids), f) THEN << >>
                   ELSE RxDelivered(EnsureSessionLink(at, Min(ids)).link.rx, f.num, f.data, Window)
    <2>1. SUFFICES ASSUME f.type = "Outer", f.dest = s
                   PROVE  LET ids == {i \in Live(at, src) : at.sessions[i].outer}
                          IN up = IF ids = {} \/ ~well \/ ~OuterExpected(at, Min(ids), f) THEN << >>
                                  ELSE RxDelivered(EnsureSessionLink(at, Min(ids)).link.rx,
                                                   f.num, f.data, Window)
      OBVIOUS
    <2>2. {i \in Live(at, src) : f.type = "Outer" => at.sessions[i].outer} =
             {i \in Live(at, src) : at.sessions[i].outer}
      BY <2>1
    <2>3. QED
      BY <2>1, <2>2 DEF HandedUp
  <1> HIDE DEF up
  <1>5. Step(at, y) /\ Receives(s, at, y, up, src, f)
    <2>1. CASE y = at /\ f.dest # s
      BY <1>3, <1>7, <2>1 DEF Receives
    <2>2. CASE f.dest = s /\ f.type = "Req" /\ y = HandleIncomingConnect(s, at, src, well)
      BY <1>1, <1>7, <2>2, IncomingConnectStep DEF Receives, IsData
    <2>3. CASE f.dest = s /\ f.type = "ConnectAck" /\ y = HandleConnectAck(s, at, src)
      BY <1>1, <1>7, <2>3, ConnectAckStep DEF Receives, IsData
    <2>4. CASE f.dest = s /\ f.type = "Cfm" /\ y = HandleConnectCfm(s, at, src, well)
      BY <1>1, <1>7, <2>4, ConnectCfmStep DEF Receives, IsData
    <2>5. CASE f.dest = s /\ f.type = "Disconnect" /\ y = HandleIncomingDisconnect(at, src)
      BY <1>1, <1>7, <2>5, IncomingDisconnectStep DEF Receives, IsData
    <2>6. CASE f.dest = s /\ f.type = "Data" /\ y = HandleSessionData(at, src, f)
      BY <1>1, <1>8, <2>6, SessionDataStep DEF Receives, IsData
    <2>7. CASE f.dest = s /\ f.type = "Outer" /\ y = HandleSessionOuter(at, src, f, well)
      BY <1>1, <1>9, <2>7, SessionOuterStep DEF Receives, IsData
    <2>8. CASE f.dest = s /\ f.type = "Ack" /\ y = HandleSessionAck(at, src, f, plain, refuse)
      BY <1>1, <1>7, <2>8, SessionAckStep DEF Receives, IsData
    <2>9. CASE f.dest = s /\ f.type \notin {"Req", "ConnectAck", "Cfm", "Disconnect", "Data", "Outer", "Ack"}
               /\ y = touched
      BY <1>4, <1>7, <2>9 DEF Receives, IsData
    <2>10. QED
      BY <1>2, <2>1, <2>2, <2>3, <2>4, <2>5, <2>6, <2>7, <2>8, <2>9
  <1>10. Step(st, y)
    BY <1>1, <1>5, QuietFirst
  <1>11. Receives(s, st, y, up, src, f)
    BY <1>1, <1>5, AlikeReceives DEF Step
  <1>6. QED
    BY <1>10, <1>11, <1>12 DEF y

-----------------------------------------------------------------------------
(* The two ticks. *)

\* flush_block_ack.
LEMMA FlushSound ==
    ASSUME NEW st, Sound(st), Unparked(st), NEW refuse \in BOOLEAN
    PROVE  LET y == FlushBlockAck(st, refuse)
           IN /\ Sound(y) /\ Unparked(y) /\ Quiet(st, y) /\ SameTable(st, y) /\ Moves(st, y)
              /\ y.link = NoLink <=> st.link = NoLink
              /\ st.link # NoLink => /\ y.link.tx = st.link.tx /\ y.link.fallback = st.link.fallback
                                     /\ y.link.expired = st.link.expired
  <1> DEFINE y == FlushBlockAck(st, refuse)
             l == [st.link EXCEPT !.block_ack = "none"]
             x == [st EXCEPT !.link = l]
             a == Append(st.air, AckFrame(st))
             z == [x EXCEPT !.air = a]
  <1>1. CASE st.link = NoLink \/ Transmitting(st)
    BY <1>1, StillMoves DEF FlushBlockAck, Quiet, SameTable
  <1>2. CASE st.link # NoLink /\ ~Transmitting(st)
    <2>1. st \in Shape /\ st.link \in LinkShape
      BY <1>2, LinkFacts
    <2>2. /\ l \in LinkShape /\ l.session_id = st.link.session_id /\ l.remote = st.link.remote
          /\ l.tx = st.link.tx /\ l.backlog = st.link.backlog /\ l.fallback = st.link.fallback
          /\ l.quiet = st.link.quiet /\ l.expired = st.link.expired
          /\ l.max_retransmit = st.link.max_retransmit /\ l.rx = st.link.rx
      BY <2>1 DEF LinkShape
    <2>3. a \in Seq(AirFrame) /\ a # << >>
      <3>1. AckFrame(st) \in AirFrame /\ st.air \in Seq(AirFrame)
        BY <1>2, <2>1, Frames DEF Shape
      <3>2. QED
        BY <3>1
    <2>4. y \in {st, x, z}
      <3>1. [st EXCEPT !.link.block_ack = "none"] = x
        BY <2>1 DEF Shape
      <3>2. [st EXCEPT !.link.block_ack = "none", !.air = Append(@, AckFrame(st))] = z
        BY <2>1 DEF Shape
      <3> HIDE DEF x, z
      <3>3. QED
        BY <1>2, <3>1, <3>2 DEF FlushBlockAck
    <2> HIDE DEF l, a, y
    <2>5. /\ Sound(x) /\ Quiet(st, x) /\ SameTable(st, x) /\ x.link = l /\ Unparked(x) /\ Alike(st, x)
          /\ x.air = st.air /\ x.sid = st.sid
      BY <1>2, <2>2, SideChange
    <2>6. x \in Shape /\ Moves(st, x)
      BY <2>5, AlikeMoves DEF Sound
    <2> HIDE DEF x
    <2>7. Sound(z) /\ Quiet(x, z) /\ SameTable(x, z) /\ z.link = l /\ z.air = a
      BY <2>3, <2>5, <2>6, Keyed
    <2> HIDE DEF z
    <2>8. Unparked(z)
      BY <2>3, <2>7 DEF Unparked, Transmitting
    <2>9. Quiet(st, z) /\ SameTable(st, z)
      BY <2>5, <2>7 DEF Quiet, SameTable
    <2>10. Quiet(st, st) /\ SameTable(st, st)
      BY DEF Quiet, SameTable
    <2>11. l # NoLink
      BY <2>2, Sentinels
    <2>13. Moves(st, z)
      <3>1. AckFrame(st) \in AirFrame /\ x.link # NoLink
        BY <1>2, <2>1, <2>5, <2>11, Frames
      <3>2. /\ MayKey(x, AckFrame(st)) /\ AckFrame(st).type = "Ack"
            /\ a = Append(x.air, AckFrame(st))
        BY <1>2, <2>2, <2>5, <3>1 DEF MayKey, AckFrame, AckInfo, IsData, Transmitting, a
      <3>3. Moves(x, z)
        BY <2>5, <3>1, <3>2, KeyedMoves DEF z
      <3>4. QED
        BY <2>5, <2>6, <2>7, <3>3, MovesOn
    <2>12. QED
      BY <1>2, <2>2, <2>4, <2>5, <2>6, <2>7, <2>8, <2>9, <2>10, <2>11, <2>13, StillMoves DEF y
  <1>3. QED
    BY <1>1, <1>2

\* A retransmission is within its budget, or enters the fade hold.
LEMMA RetransmitSound ==
    ASSUME NEW st, Sound(st), st.link # NoLink, InFlight(st.link.tx) # 0, Unparked(st),
           NEW rto \in BOOLEAN, rto /\ st.link.fallback => st.link.expired
    PROVE  LET y == Retransmit(st, rto)
           IN Sound(y) /\ Quiet(st, y) /\ SameTable(st, y) /\ Unparked(y) /\ Moves(st, y)
  <1> DEFINE id == st.link.session_id
             seqs == GetRetransmits(st.link.tx, IF rto THEN SeqNum ELSE {}, st.link.max_retransmit)
             keep == IF StateOf(st, id) = "Disconnecting" THEN Touch(st, id) ELSE st
             f == DataFrame(st, st.link.tx.send_base)
             x == Transmit(keep, f)
             tx == MarkRetransmitted(st.link.tx, seqs)
             marked == [st.link EXCEPT !.tx = tx, !.expired = FALSE]
             l == EnterHold(marked)
             sent == [x EXCEPT !.link = l]
             y == Retransmit(st, rto)
  <1>1. /\ st \in Shape /\ st.link \in LinkShape /\ SoundLink(st) /\ InFlight(st.link.tx) = 1
        /\ st.link.tx \in TxType(1 .. MaxPayload) /\ Carried(st.link.tx)
        /\ id \in Slots /\ st.sessions[id] # NoSession /\ st.link.tx.send_base \in SeqNum
        /\ Budgeted(st.link)
    BY LinkFacts DEF SoundLink
  <1>2. /\ Sound(keep) /\ Unparked(keep) /\ Quiet(st, keep) /\ SameTable(st, keep) /\ keep.link = st.link
        /\ Alike(st, keep)
    BY <1>1, TouchSound DEF Quiet, SameTable, Alike
  <1>3. f \in AirFrame
    BY <1>1, Frames
  <1>11. /\ IsData(f) /\ f.dest = st.link.remote /\ f.sid = st.sid /\ f.num = st.link.tx.send_base
         /\ f.data = Oldest(st.link.tx).data
    BY DEF DataFrame, IsData, Oldest
  <1>4. y \in {keep, sent, Touch(sent, id)}
    BY Zenon DEF Retransmit
  <1>5. seqs # {} \/ y = keep
    BY Zenon DEF Retransmit
  <1> HIDE DEF keep, f, y
  <1>6. /\ Sound(x) /\ Unparked(x) /\ Quiet(keep, x) /\ SameTable(keep, x) /\ x.link = st.link
    BY <1>2, <1>3, TransmitSound
  <1>12. Calm(st) => MayKey(keep, f)
    <2>1. SUFFICES ASSUME Calm(st) PROVE MayKey(keep, f)
      OBVIOUS
    <2>2. /\ f.data = SentCount(st) /\ f.data \in 1 .. MaxPayload
          /\ st.link.tx.next_seq = SentCount(st) % SeqMod
      BY <1>1, <1>11, <2>1, RetransmitCarries DEF Calm, CalmLink
    <2>3. SentCount(keep) = SentCount(st)
      BY <1>2 DEF SentCount, Alike
    <2>4. f.num = (f.data - 1) % SeqMod
      BY <1>1, <1>11, <2>2, OneBack
    <2>5. f.type \notin {"Ack", "ConnectAck", "Cfm"}
      BY <1>11 DEF IsData
    <2>6. QED
      BY <1>1, <1>2, <1>11, <2>2, <2>3, <2>4, <2>5 DEF MayKey, Alike, Answers
  <1>13. Moves(st, keep)
    BY <1>2, AlikeMoves
  <1>14. Moves(st, x)
    <2>1. Calm(st) => Moves(keep, x)
      <3>1. f.type \notin {"Req", "Cfm"}
        BY <1>11 DEF IsData
      <3>2. QED
        BY <1>2, <1>3, <1>12, <3>1, TransmitMoves DEF x
    <2>2. Calm(st) => Moves(st, x)
      BY <1>2, <1>6, <1>13, <2>1, MovesOn
    <2>3. QED
      BY <2>2 DEF Moves
  <1>7. /\ seqs \subseteq SeqNum
        /\ seqs # {} => rto
    BY SeqInt, WrapType, <1>1 DEF GetRetransmits
  <1> HIDE DEF seqs, x
  <1>8. CASE seqs = {}
    BY <1>2, <1>5, <1>8, <1>13 DEF y
  <1>9. CASE seqs # {}
    <2>1. /\ tx \in TxType(1 .. MaxPayload) /\ Carried(tx) /\ InFlight(tx) = 1
          /\ Oldest(tx).data = Oldest(st.link.tx).data /\ tx.next_seq = st.link.tx.next_seq
          /\ Oldest(st.link.tx).transmit_count \in 0 .. CountMax
          /\ Oldest(tx).transmit_count \in 0 .. CountMax
          /\ Oldest(tx).transmit_count <= Oldest(st.link.tx).transmit_count + 1
      BY <1>1, <1>7, RetransmitCarries
    <2> HIDE DEF tx
    <2>2. /\ marked \in LinkShape /\ marked.session_id = id /\ marked.remote = st.link.remote
          /\ marked.tx = tx /\ marked.backlog = st.link.backlog /\ marked.fallback = st.link.fallback
          /\ marked.quiet = st.link.quiet /\ ~marked.expired /\ marked.rx = st.link.rx
          /\ marked.max_retransmit = st.link.max_retransmit
      BY <1>1, <2>1 DEF LinkShape
    <2> HIDE DEF marked
    <2>3. /\ st.link.quiet \in 0 .. NoEvidenceTicks /\ st.link.max_retransmit \in 0 .. CountMax
          /\ st.link.fallback \in BOOLEAN /\ st.link.expired \in BOOLEAN
      BY <1>1 DEF LinkShape
    <2>4. /\ l \in LinkShape /\ l.session_id = id /\ l.remote = st.link.remote
          /\ l.tx = tx /\ l.backlog = st.link.backlog /\ l.rx = st.link.rx /\ Budgeted(l)
      <3>1. CASE st.link.fallback
        <4>1. l = marked
          BY <2>2, <3>1 DEF EnterHold
        <4>2. st.link.expired
          BY <1>7, <1>9, <3>1
        <4>3. \/ st.link.max_retransmit = CountMax
              \/ Oldest(st.link.tx).transmit_count + StillToCome(st.link) <= st.link.max_retransmit
          BY <1>1, <3>1 DEF Budgeted
        <4>4. StillToCome(st.link) = NoEvidenceTicks - st.link.quiet + 1
              /\ StillToCome(marked) = NoEvidenceTicks - st.link.quiet
          BY <2>2, <2>3, <4>2, Constants DEF StillToCome
        <4>5. \/ marked.max_retransmit = CountMax
              \/ Oldest(tx).transmit_count + StillToCome(marked) <= marked.max_retransmit
          <5>1. /\ Oldest(tx).transmit_count \in Int /\ Oldest(st.link.tx).transmit_count \in Int
                /\ NoEvidenceTicks \in Int /\ st.link.quiet \in Int /\ st.link.max_retransmit \in Int
                /\ Oldest(tx).transmit_count <= Oldest(st.link.tx).transmit_count + 1
                /\ marked.max_retransmit = st.link.max_retransmit
            BY <2>1, <2>2, <2>3, Constants
          <5>2. QED
            BY <4>3, <4>4, <5>1
        <4>6. Budgeted(marked)
          BY <2>1, <2>2, <3>1, <4>5 DEF Budgeted
        <4>7. QED
          BY <2>2, <4>1, <4>6
      <3>2. CASE ~st.link.fallback /\ l = marked
        <4>1. Budgeted(l)
          BY <1>1, <2>2, <3>2 DEF Budgeted
        <4>2. QED
          BY <2>2, <3>2, <4>1
      <3>3. CASE ~st.link.fallback /\ l # marked
        <4> DEFINE budget == Granted(tx)
        <4>1. l = [marked EXCEPT !.fallback = TRUE, !.quiet = 0, !.max_retransmit = budget]
          BY <2>2, <3>3 DEF EnterHold
        <4>2. /\ budget \in 0 .. CountMax
              /\ budget = CountMax \/ budget = Oldest(tx).transmit_count + Grant
          BY <2>1, Constants DEF Granted, Oldest
        <4>3. 0 \in 0 .. NoEvidenceTicks
          BY Constants
        <4> HIDE DEF budget, l
        <4>4. /\ l \in LinkShape /\ l.session_id = id /\ l.remote = st.link.remote
              /\ l.tx = tx /\ l.backlog = st.link.backlog /\ l.fallback /\ l.quiet = 0 /\ l.rx = st.link.rx
              /\ ~l.expired /\ l.max_retransmit = budget
          BY <2>2, <4>1, <4>2, <4>3 DEF LinkShape
        <4>5. StillToCome(l) = NoEvidenceTicks
          BY <4>4, Constants DEF StillToCome
        <4>6. budget = CountMax \/ Oldest(tx).transmit_count + StillToCome(l) <= budget
          BY <2>1, <4>2, <4>5, Constants
        <4>7. Budgeted(l)
          BY <2>1, <4>4, <4>6 DEF Budgeted
        <4>8. QED
          BY <4>4, <4>7
      <3>4. QED
        BY <3>1, <3>2, <3>3
    <2> HIDE DEF l
    <2>5. x.link # NoLink /\ l.backlog <= x.submitted
      BY <1>6, <2>4, LinkFacts DEF SoundLink
    <2>6. /\ Sound(sent) /\ Quiet(x, sent) /\ SameTable(x, sent) /\ sent.link = l /\ sent.air = x.air
          /\ sent.sid = x.sid /\ sent.submitted = x.submitted /\ sent.ended = x.ended
      BY <1>1, <1>6, <2>1, <2>4, <2>5, Relinked
    <2> HIDE DEF sent
    <2>7. ~Ready(sent)
      BY <2>1, <2>4, <2>6 DEF Ready, CanSend, Window
    <2>8. sent.sessions[id] # NoSession
      BY <1>1, <1>2, <1>6, <2>6 DEF SameTable
    <2>9. LET z == Touch(sent, id)
          IN Sound(z) /\ Quiet(sent, z) /\ SameTable(sent, z) /\ z.link = sent.link /\ Alike(sent, z)
      BY <1>1, <2>6, <2>8, TouchSound
    <2>13. Moves(st, sent)
      <3>1. Alike(x, sent)
        BY <1>1, <1>6, <2>1, <2>4, <2>5, <2>6, Sentinels DEF Alike
      <3>2. QED
        BY <1>6, <1>14, <2>6, <3>1, AlikeMoves, MovesOn
    <2>14. Moves(st, Touch(sent, id))
      <3>1. Moves(sent, Touch(sent, id))
        BY <2>6, <2>9, AlikeMoves
      <3>2. QED
        BY <2>6, <2>9, <2>13, <3>1, MovesOn
    <2>10. Unparked(sent) /\ Unparked(Touch(sent, id))
      BY <2>7, <2>9 DEF Unparked, Ready
    <2>11. Quiet(st, sent) /\ SameTable(st, sent) /\ Quiet(st, Touch(sent, id)) /\ SameTable(st, Touch(sent, id))
      BY <1>2, <1>6, <2>6, <2>9 DEF Quiet, SameTable
    <2>12. QED
      BY <1>2, <1>4, <1>13, <2>6, <2>9, <2>10, <2>11, <2>13, <2>14 DEF y
  <1>10. QED
    BY <1>8, <1>9

\* A station that is over stays so through what leaves its table alone.
LEMMA StaysOver ==
    ASSUME NEW x, Over(x), NEW y, Sound(y), SameTable(x, y)
    PROVE  Over(y)
  BY NoneThere DEF Over, Idle, SameTable

\* The 500 ms tick.
LEMMA PollStep ==
    ASSUME NEW st, Sound(st), Unparked(st),
           NEW rto \in BOOLEAN, NEW over \in BOOLEAN, NEW plain \in BOOLEAN, NEW refuse \in BOOLEAN,
           rto => st.link # NoLink /\ (st.link.fallback => st.link.expired)
    PROVE  LET y == PollSteps(st, rto, over, plain, refuse)
           IN Step(st, y) /\ Moves(st, y)
  <1> DEFINE l == [st.link EXCEPT !.ack_pair = FALSE]
             x == [st EXCEPT !.link = l]
             heard == IF ~over \/ st.link = NoLink THEN st ELSE FlushBlockAck(x, refuse)
             sent == CheckSessionRetransmits(heard, rto, refuse)
             more == IF sent.held THEN DrainSessionLink(sent, plain, refuse) ELSE sent
  <1>1. PollSteps(st, rto, over, plain, refuse) = FinishDrainedDisconnect(more)
    <2>1. ASSUME st.link # NoLink PROVE [st EXCEPT !.link.ack_pair = FALSE] = x
      BY <2>1 DEF Sound, Shape
    <2> HIDE DEF x
    <2>2. QED
      BY <2>1 DEF PollSteps
  <1>2. /\ Sound(heard) /\ Unparked(heard) /\ Quiet(st, heard) /\ SameTable(st, heard) /\ Moves(st, heard)
        /\ rto => heard.link # NoLink /\ (heard.link.fallback => heard.link.expired)
    <2>1. CASE ~over \/ st.link = NoLink
      BY <2>1, StillMoves DEF Quiet, SameTable
    <2>2. CASE over /\ st.link # NoLink
      <3>1. st.link \in LinkShape
        BY <2>2, LinkFacts
      <3>2. /\ l \in LinkShape /\ l.session_id = st.link.session_id /\ l.remote = st.link.remote
            /\ l.tx = st.link.tx /\ l.backlog = st.link.backlog /\ l.fallback = st.link.fallback
            /\ l.quiet = st.link.quiet /\ l.expired = st.link.expired
            /\ l.max_retransmit = st.link.max_retransmit /\ l.rx = st.link.rx
        BY <3>1 DEF LinkShape
      <3> HIDE DEF l
      <3>3. /\ Sound(x) /\ Unparked(x) /\ Quiet(st, x) /\ SameTable(st, x) /\ x.link = l /\ l # NoLink
            /\ Alike(st, x)
        BY <2>2, <3>2, SideChange, Sentinels
      <3> HIDE DEF x
      <3>4. LET z == FlushBlockAck(x, refuse)
            IN /\ Sound(z) /\ Unparked(z) /\ Quiet(x, z) /\ SameTable(x, z) /\ Moves(x, z)
               /\ z.link # NoLink /\ z.link.fallback = l.fallback /\ z.link.expired = l.expired
        BY <3>3, FlushSound
      <3>5. Moves(st, FlushBlockAck(x, refuse))
        BY <3>3, <3>4, AlikeMoves, MovesOn
      <3>6. QED
        BY <2>2, <3>2, <3>3, <3>4, <3>5 DEF Quiet, SameTable
    <2>3. QED
      BY <2>1, <2>2
  <1> HIDE DEF x, l, heard
  <1>3. /\ \/ Sound(sent) /\ Unparked(sent) /\ Quiet(heard, sent)
           \/ Ends(heard, sent)
        /\ Moves(heard, sent)
    <2>1. CASE Blocked(heard) \/ heard.link = NoLink
      BY <1>2, <2>1, StillMoves DEF CheckSessionRetransmits, Quiet
    <2>2. CASE ~Blocked(heard) /\ heard.link # NoLink /\ HoldIsOver(heard)
      BY <1>2, <2>2, FailEnds, DropMoves DEF CheckSessionRetransmits
    <2>3. CASE /\ ~Blocked(heard) /\ heard.link # NoLink /\ ~HoldIsOver(heard)
               /\ InFlight(heard.link.tx) = 0 \/ refuse
      BY <1>2, <2>3, StillMoves DEF CheckSessionRetransmits, Quiet
    <2>4. CASE /\ ~Blocked(heard) /\ heard.link # NoLink /\ ~HoldIsOver(heard)
               /\ InFlight(heard.link.tx) # 0 /\ ~refuse
      <3>1. sent = Retransmit(heard, rto)
        BY <2>4 DEF CheckSessionRetransmits
      <3>2. QED
        BY <1>2, <2>4, <3>1, RetransmitSound
    <2>5. QED
      BY <2>1, <2>2, <2>3, <2>4
  <1> HIDE DEF sent
  <1>7. Moves(st, FinishDrainedDisconnect(more))
    <2>1. Sound(sent)
      BY <1>3, OverSound DEF Ends
    <2>2. LET z == DrainSessionLink(sent, plain, refuse) IN Sound(z) /\ Moves(sent, z)
      BY <2>1, DrainSound
    <2>3. Sound(more) /\ Moves(sent, more)
      BY <2>1, <2>2, StillMoves
    <2> HIDE DEF more
    <2>4. LET z == FinishDrainedDisconnect(more) IN Sound(z) /\ Moves(more, z)
      BY <2>3, FinishMoves
    <2>5. Moves(st, sent)
      BY <1>2, <1>3, <2>1, MovesOn
    <2>6. Moves(st, more)
      BY <1>2, <2>1, <2>3, <2>5, MovesOn
    <2>7. QED
      BY <2>3, <2>4, <2>6, MovesOn
  <1>4. CASE Ends(heard, sent)
    <2>1. Sound(sent) /\ Over(sent)
      BY <1>4, OverSound DEF Ends
    <2>2. Over(more)
      <3>1. LET z == DrainSessionLink(sent, plain, refuse) IN Sound(z) /\ SameTable(sent, z)
        BY <2>1, DrainSound
      <3>2. QED
        BY <2>1, <3>1, StaysOver
    <2> HIDE DEF more
    <2>3. FinishDrainedDisconnect(more) = more
      BY <2>2, OverSound DEF FinishDrainedDisconnect
    <2>4. Ends(st, more)
      BY <1>2, <1>4, <2>2 DEF Ends, Quiet
    <2>5. QED
      BY <1>1, <1>7, <2>3, <2>4, EndsStep DEF more
  <1>5. CASE Sound(sent) /\ Unparked(sent) /\ Quiet(heard, sent)
    <2>1. LET z == DrainSessionLink(sent, plain, refuse) IN Sound(z) /\ Unparked(z) /\ Quiet(sent, z)
      BY <1>5, DrainSound
    <2>2. Sound(more) /\ Unparked(more) /\ Quiet(st, more)
      BY <1>2, <1>5, <2>1 DEF Quiet
    <2> HIDE DEF more
    <2>3. QED
      BY <1>1, <1>7, <2>2, FinishStep DEF more
  <1>6. QED
    BY <1>3, <1>4, <1>5

\* The reaper.
LEMMA ReapStep ==
    ASSUME NEW st, Sound(st), Unparked(st)
    PROVE  Step(st, Reap(st)) /\ Moves(st, Reap(st))
  <1> DEFINE due == {i \in Slots : IsTimedOut(st.sessions[i])}
             id == Min(due)
  <1>1. CASE due = {}
    BY <1>1, StillMoves DEF Reap, Step, HostStep, Quiet
  <1>2. CASE due # {}
    <2>1. id \in Slots /\ st.sessions[id] # NoSession
      <3>1. id \in due
        BY <1>2, MinIn
      <3>2. QED
        BY <3>1 DEF IsTimedOut
    <2>2. Reap(st) = IF st.pending = id THEN EndLocalDisconnect(st, "dropped")
                     ELSE NotifyEnd(DiscardSessionTx(Remove(st, id), id), StateOf(st, id) = "Accepting")
      BY <1>2 DEF Reap
    <2> HIDE DEF id, due
    <2>3. CASE st.pending = id
      <3>1. st.pending # NoSlot
        BY <2>1, <2>3, Constants
      <3>2. QED
        BY <2>2, <2>3, <3>1, EndLocalEnds, EndsStep, DropMoves
    <2>4. CASE st.pending # id
      BY <2>1, <2>2, <2>4, RemovedEnds, EndsStep, DropMoves
    <2>5. QED
      BY <2>3, <2>4
  <1>3. QED
    BY <1>1, <1>2

\* The keepalive.
LEMMA KeepaliveSound ==
    ASSUME NEW st, Sound(st), Unparked(st)
    PROVE  LET y == SendDueKeepalives(st)
           IN Sound(y) /\ Unparked(y) /\ Quiet(st, y) /\ SameTable(st, y) /\ Moves(st, y)
  <1> DEFINE due == {i \in Slots : NeedsKeepalive(st.sessions[i])}
             id == Min(due)
             x == Touch(st, id)
             f == Control(st, "Keepalive", st.sessions[id].remote)
  <1>1. CASE Blocked(st) \/ due = {}
    BY <1>1, StillMoves DEF SendDueKeepalives, Quiet, SameTable
  <1>2. CASE ~Blocked(st) /\ due # {}
    <2>1. id \in Slots /\ st.sessions[id].state = "Established"
      <3>1. id \in due
        BY <1>2, MinIn
      <3>2. QED
        BY <3>1 DEF NeedsKeepalive
    <2>2. st \in Shape /\ st.sessions[id] # NoSession /\ st.sessions[id] \in Session
      BY <2>1 DEF Sound, Shape, Table, NoSession
    <2>3. f \in AirFrame /\ f.type = "Keepalive" /\ f.sid = st.sid
      BY <2>2, Frames DEF Session, FrameTypes, Control
    <2>4. SendDueKeepalives(st) = Transmit(x, f)
      BY <1>2 DEF SendDueKeepalives
    <2> HIDE DEF id, f
    <2>5. Sound(x) /\ Unparked(x) /\ Quiet(st, x) /\ SameTable(st, x) /\ Alike(st, x)
      BY <2>1, <2>2, TouchSound
    <2> HIDE DEF x
    <2>6. LET z == Transmit(x, f) IN Sound(z) /\ Unparked(z) /\ Quiet(x, z) /\ SameTable(x, z)
      BY <2>3, <2>5, TransmitSound
    <2>7. MayKey(x, f)
      BY <2>3, <2>5 DEF MayKey, Alike, IsData, Answers
    <2>8. Moves(st, Transmit(x, f))
      BY <2>3, <2>5, <2>6, <2>7, AlikeMoves, TransmitMoves, MovesOn
    <2>9. QED
      BY <2>4, <2>5, <2>6, <2>8 DEF Quiet, SameTable
  <1>3. QED
    BY <1>1, <1>2

\* The 5 s tick.
LEMMA CleanupStep ==
    ASSUME NEW st, Sound(st), Unparked(st)
    PROVE  Step(st, CleanupSteps(st)) /\ Moves(st, CleanupSteps(st))
  <1> DEFINE x == Reap(st)
             y == SendDueKeepalives(x)
  <1>1. Step(st, x) /\ Moves(st, x)
    BY ReapStep
  <1> HIDE DEF x
  <1>2. Sound(y) /\ Unparked(y) /\ Quiet(x, y) /\ SameTable(x, y) /\ Moves(x, y)
    BY <1>1, KeepaliveSound DEF Step
  <1> HIDE DEF y
  <1>3. Over(x) => Over(y)
    BY <1>2, StaysOver
  <1>4. HostStep(st, y)
    BY <1>1, <1>2, <1>3 DEF Step, HostStep, Quiet, Dials, Offers, Rises, Reports, Closes, Ends
  <1>5. Moves(st, y)
    BY <1>1, <1>2, MovesOn DEF Step
  <1>6. QED
    BY <1>2, <1>4, <1>5 DEF Step, CleanupSteps, x, y

\* A tick of time: the patience clock runs, the RTO runs out.
LEMMA LaterStep ==
    ASSUME NEW st, Sound(st), Unparked(st), ~HoldIsOver(st), NEW gated \in BOOLEAN
    PROVE  Step(st, Later(st, gated)) /\ Alike(st, Later(st, gated))
  <1> DEFINE moving == /\ ~gated /\ st.link # NoLink
                       /\ InFlight(st.link.tx) > 0 /\ st.pending = st.link.session_id
             later(session) == [session EXCEPT !.idle = IF moving THEN 0 ELSE Min({@ + 1, SessionTicks})]
             quiet == IF st.link.fallback THEN Min({st.link.quiet + 1, NoEvidenceTicks}) ELSE st.link.quiet
             table == [i \in Slots |-> IF st.sessions[i] = NoSession THEN NoSession ELSE later(st.sessions[i])]
             l == IF st.link = NoLink THEN NoLink
                  ELSE [st.link EXCEPT !.quiet = quiet, !.expired = InFlight(st.link.tx) > 0]
             y == [st EXCEPT !.sessions = table, !.link = l]
  <1>1. Later(st, gated) = y
    BY DEF Later
  <1>2. st \in Shape /\ st.sessions \in Table
    BY DEF Sound, Shape
  <1>3. ASSUME NEW x \in Session
        PROVE  later(x) \in Session /\ later(x).state = x.state /\ later(x).remote = x.remote
    <2> DEFINE idle == IF moving THEN 0 ELSE Min({x.idle + 1, SessionTicks})
    <2>1. idle \in 0 .. SessionTicks
      <3>1. x.idle \in Nat /\ x.idle + 1 \in Nat /\ SessionTicks \in Nat
        BY Constants DEF Session
      <3>2. Min({x.idle + 1, SessionTicks}) \in 0 .. SessionTicks
        BY <3>1, MinPair
      <3>3. QED
        BY <3>1, <3>2
    <2>2. later(x) = [x EXCEPT !.idle = idle]
      BY DEF Session
    <2> HIDE DEF idle, later
    <2>3. QED
      BY <2>1, <2>2 DEF Session
  <1> HIDE DEF later
  <1>4. /\ table \in Table
        /\ \A i \in Slots : /\ table[i] = NoSession <=> st.sessions[i] = NoSession
                            /\ st.sessions[i] # NoSession =>
                                  table[i].state = st.sessions[i].state /\ table[i].remote = st.sessions[i].remote
    BY <1>2, <1>3, Sentinels DEF Table
  <1> HIDE DEF table
  <1>5. ASSUME st.link # NoLink
        PROVE  /\ l \in LinkShape /\ l.session_id = st.link.session_id /\ l.remote = st.link.remote
               /\ l.tx = st.link.tx /\ l.backlog = st.link.backlog /\ Budgeted(l) /\ l.rx = st.link.rx
    <2>1. /\ st.link \in LinkShape /\ Budgeted(st.link) /\ InFlight(st.link.tx) \in {0, 1}
          /\ Oldest(st.link.tx).transmit_count \in 0 .. CountMax
      BY <1>5, LinkFacts DEF SoundLink
    <2>2. /\ st.link.quiet \in 0 .. NoEvidenceTicks /\ st.link.expired \in BOOLEAN
          /\ st.link.max_retransmit \in 0 .. CountMax /\ st.link.fallback \in BOOLEAN
      BY <2>1 DEF LinkShape
    <2>3. st.link.fallback => st.link.quiet < NoEvidenceTicks
      BY <1>5, <2>1, <2>2, Constants DEF HoldIsOver, Budgeted
    <2>4. quiet \in 0 .. NoEvidenceTicks /\ (st.link.fallback => quiet = st.link.quiet + 1)
      <3>1. st.link.quiet + 1 \in Nat /\ NoEvidenceTicks \in Nat
        BY <2>2, Constants
      <3>2. Min({st.link.quiet + 1, NoEvidenceTicks}) \in 0 .. NoEvidenceTicks
            /\ (st.link.quiet + 1 <= NoEvidenceTicks
                  => Min({st.link.quiet + 1, NoEvidenceTicks}) = st.link.quiet + 1)
        BY <3>1, MinPair
      <3>3. QED
        BY <2>2, <2>3, <3>1, <3>2
    <2> DEFINE expired == InFlight(st.link.tx) > 0
    <2>5. expired \in BOOLEAN
      OBVIOUS
    <2>6. l = [st.link EXCEPT !.quiet = quiet, !.expired = expired]
      BY <1>5
    <2> HIDE DEF quiet, l, expired
    <2>7. /\ l \in LinkShape /\ l.session_id = st.link.session_id /\ l.remote = st.link.remote
          /\ l.tx = st.link.tx /\ l.backlog = st.link.backlog /\ l.fallback = st.link.fallback
          /\ l.quiet = quiet /\ l.max_retransmit = st.link.max_retransmit /\ l.expired \in BOOLEAN
          /\ l.rx = st.link.rx
      BY <2>1, <2>4, <2>5, <2>6 DEF LinkShape
    <2>8. CASE st.link.fallback
      <3>1. /\ InFlight(st.link.tx) = 1
            /\ \/ st.link.max_retransmit = CountMax
               \/ Oldest(st.link.tx).transmit_count + StillToCome(st.link) <= st.link.max_retransmit
        BY <2>1, <2>8 DEF Budgeted
      <3>2. StillToCome(l) <= StillToCome(st.link) /\ StillToCome(l) \in Int /\ StillToCome(st.link) \in Int
        BY <2>2, <2>4, <2>7, <2>8, Constants DEF StillToCome
      <3>3. \/ l.max_retransmit = CountMax
            \/ Oldest(l.tx).transmit_count + StillToCome(l) <= l.max_retransmit
        BY <2>1, <2>2, <2>7, <3>1, <3>2, Constants
      <3>4. QED
        BY <2>7, <2>8, <3>1, <3>3 DEF Budgeted
    <2>9. CASE ~st.link.fallback
      BY <2>1, <2>7, <2>9 DEF Budgeted
    <2>10. QED
      BY <2>7, <2>8, <2>9
  <1>6. l \in LinkShape \cup {NoLink} /\ (l = NoLink <=> st.link = NoLink)
    BY <1>5, Sentinels
  <1> HIDE DEF l
  <1>7. /\ y \in Shape /\ y.sessions = table /\ y.link = l /\ y.pending = st.pending
        /\ y.told = st.told /\ y.held = st.held /\ y.air = st.air /\ y.reported = st.reported
        /\ y.submitted = st.submitted /\ y.sid = st.sid /\ y.ended = st.ended
    BY <1>2, <1>4, <1>6 DEF Shape
  <1> HIDE DEF y
  <1>8. SameTable(st, y)
    BY <1>4, <1>7 DEF SameTable
  <1>9. y.link # NoLink => SoundLink(y)
    <2>1. ASSUME st.link # NoLink PROVE SoundLink(y)
      <3>1. SoundLink(st)
        BY <2>1, LinkFacts
      <3>2. QED
        BY <1>4, <1>5, <1>7, <2>1, <3>1 DEF SoundLink
    <2>2. QED
      BY <1>6, <1>7, <2>1
  <1>10. y.reported = Buffered_(y)
    BY <1>5, <1>6, <1>7 DEF Sound, Buffered_
  <1>11. Sound(y) /\ Quiet(st, y)
    BY <1>7, <1>8, <1>9, <1>10, SameTableSound DEF Quiet
  <1>12. Unparked(y)
    BY <1>5, <1>6, <1>7 DEF Unparked, Ready, Transmitting
  <1>13. Alike(st, y)
    BY <1>5, <1>6, <1>7, <1>8 DEF Alike
  <1>14. QED
    BY <1>1, <1>11, <1>12, <1>13 DEF Step, HostStep

-----------------------------------------------------------------------------
(* Actions. *)

\* What every step does to every station.
StepAll ==
    /\ station' \in [Stations -> Shape]
    /\ \A s \in Stations : Step(station[s], station'[s])
MovesAll == \A s \in Stations : Moves(station[s], station'[s])

\* A call: one attempt more, and one request for one.
Asks(x, y) ==
    Calm(x) => /\ Calm(y) /\ Sends(x, y) /\ Hears(x, y) /\ (Closing(x) => Closing(y))
               /\ Opening(y) <= Opening(x) + 1 /\ Reqs(y.air) <= Reqs(x.air) + 1

\* The record of a station, in the invariant.
LEMMA OfStation ==
    ASSUME SessionInv, NEW s \in Stations
    PROVE  Sound(station[s]) /\ Unparked(station[s]) /\ station[s] \in Shape
           /\ Step(station[s], station[s]) /\ Moves(station[s], station[s])
  BY StillMoves DEF SessionInv, Step, HostStep, Quiet

\* A step of one station leaves the other alone.
LEMMA OneStep ==
    ASSUME SessionInv, NEW s \in Stations, NEW v, Step(station[s], v),
           station' = [station EXCEPT ![s] = v]
    PROVE  StepAll /\ (Moves(station[s], v) => MovesAll)
  <1>1. v \in Shape
    BY DEF Step, Sound
  <1>2. ASSUME NEW t \in Stations
        PROVE  Step(station[t], station'[t]) /\ (Moves(station[s], v) => Moves(station[t], station'[t]))
    <2>1. station'[t] = IF t = s THEN v ELSE station[t]
      BY DEF SessionInv
    <2>2. QED
      BY <2>1, OfStation
  <1>3. QED
    BY <1>1, <1>2 DEF StepAll, MovesAll, SessionInv

\* A frame moves the station that keyed it and the one that heard it.
LEMMA TwoSteps ==
    ASSUME SessionInv, NEW s \in Stations, NEW p \in Stations, p # s,
           NEW v, Step(station[s], v), NEW w, Step(station[p], w),
           station' = [station EXCEPT ![s] = v, ![p] = w]
    PROVE  StepAll /\ (Moves(station[s], v) /\ Moves(station[p], w) => MovesAll)
  <1>1. v \in Shape /\ w \in Shape
    BY DEF Step, Sound
  <1>2. ASSUME NEW t \in Stations
        PROVE  /\ Step(station[t], station'[t])
               /\ Moves(station[s], v) /\ Moves(station[p], w) => Moves(station[t], station'[t])
    <2>1. station'[t] = IF t = p THEN w ELSE IF t = s THEN v ELSE station[t]
      BY DEF SessionInv
    <2>2. QED
      BY <2>1, OfStation
  <1>3. QED
    BY <1>1, <1>2 DEF StepAll, MovesAll, SessionInv

\* LISTEN ON.
LEMMA ListenStep ==
    ASSUME SessionInv, NEW s \in Stations, Listen(s)
    PROVE  StepAll /\ MovesAll
  <1> DEFINE st == station[s]
             y == [st EXCEPT !.listening = TRUE]
  <1>1. Sound(st) /\ Unparked(st) /\ st \in Shape
    BY OfStation
  <1>2. station' = [station EXCEPT ![s] = y]
    BY DEF Listen, Update
  <1> HIDE DEF st
  <1>3. /\ y \in Shape /\ y.sessions = st.sessions /\ y.link = st.link /\ y.pending = st.pending
        /\ y.told = st.told /\ y.held = st.held /\ y.air = st.air /\ y.reported = st.reported
        /\ y.submitted = st.submitted /\ y.sid = st.sid /\ y.ended = st.ended
    BY <1>1 DEF Shape
  <1> HIDE DEF y
  <1>4. SameTable(st, y) /\ (y.link # NoLink => SoundLink(y)) /\ y.reported = Buffered_(y)
    BY <1>1, <1>3 DEF SameTable, Sound, SoundLink, Buffered_
  <1>5. Sound(y) /\ Quiet(st, y) /\ Unparked(y)
    BY <1>1, <1>3, <1>4, SameTableSound DEF Quiet, Unparked, Ready, Transmitting
  <1>6. Step(st, y)
    BY <1>5 DEF Step, HostStep
  <1>7. Moves(st, y)
    <2>1. Alike(st, y)
      BY <1>3, <1>4 DEF Alike
    <2>2. QED
      BY <1>1, <1>5, <2>1, AlikeMoves
  <1>8. QED
    BY <1>2, <1>6, <1>7, OneStep DEF st

\* A host's CONNECT.
LEMMA DialStep ==
    ASSUME SessionInv, NEW s \in Stations, Dial(s)
    PROVE  StepAll /\ \E y : Asks(station[s], y) /\ station' = [station EXCEPT ![s] = y] /\ Step(station[s], y)
  <1> DEFINE was == station[s]
             st == IF was.pending = NoSlot THEN was ELSE EndLocalDisconnect(was, "dropped")
             x == [st EXCEPT !.submitted = 0, !.ended = "None"]
             new == Create(x, Other(s), "Connecting")
             f == Control(st, "Req", Other(s))
             y == Transmit(new, f)
  <1>1. Sound(was) /\ Unparked(was) /\ was \in Shape
    BY OfStation
  <1>2. Active(st) = {} /\ station' = [station EXCEPT ![s] = y]
    BY DEF Dial, Update
  <1>3. Over(st) /\ Stage(was) \in {"idle", "closing"} /\ Moves(was, st)
    <2>1. CASE was.pending = NoSlot
      <3>1. \A i \in Slots : was.sessions[i] = NoSession
        BY <1>2, <2>1 DEF Active
      <3>2. QED
        BY <1>1, <2>1, <3>1, NoneThere, StageIs, StillMoves
    <2>2. CASE was.pending # NoSlot
      <3>1. was.pending \in Slots /\ was.sessions[was.pending] # NoSession
        BY <1>1, <2>2 DEF Sound, Shape
      <3>2. Stage(was) = "closing"
        BY <1>1, <3>1, Only DEF SoundSession, StageOf
      <3>3. QED
        <4> DEFINE d == EndLocalDisconnect(was, "dropped")
        <4>1. Ends(was, d) /\ Leaves(was, d) /\ d.ended = "dropped" /\ st = d
          BY <1>1, <2>2, EndLocalEnds
        <4> HIDE DEF d, st
        <4>2. Moves(was, d)
          BY <1>1, <4>1, DropMoves
        <4>3. QED
          BY <3>2, <4>1, <4>2 DEF Ends
    <2>3. QED
      BY <2>1, <2>2
  <1> HIDE DEF st, was
  <1>4. 0 \in 0 .. MaxPayload /\ Other(s) \in Parties
    BY Constants, OtherStation DEF Parties
  <1>5. /\ x \in Shape /\ x.sessions = st.sessions /\ x.link = NoLink /\ x.reported = 0
        /\ x.pending = NoSlot /\ x.told = "disconnected"
        /\ x.air = st.air /\ x.sid = st.sid /\ x.submitted = 0 /\ x.ended = "None"
    BY <1>3, <1>4 DEF Over, Idle, Shape
  <1> HIDE DEF x
  <1>6. \A i \in Slots : x.sessions[i] = NoSession
    BY <1>3, <1>5 DEF Over, Idle
  <1>7. PICK i \in Slots :
            /\ new \in Shape /\ new.sessions[i] # NoSession /\ new.sessions[i].state = "Connecting"
            /\ \A j \in Slots : new.sessions[j] # NoSession => j = i
            /\ new.link = NoLink /\ new.reported = 0 /\ new.pending = NoSlot
            /\ new.told = "disconnected"
            /\ new.air = st.air /\ new.sid = st.sid /\ new.submitted = 0 /\ new.ended = "None"
    BY <1>4, <1>5, <1>6, CreateFresh
  <1> HIDE DEF new
  <1>8. Sound(new) /\ Unparked(new) /\ Stage(new) = "calling"
    BY <1>7, FreshSound DEF Follows, StageOf
  <1>9. f \in AirFrame /\ f.type = "Req" /\ f.sid = st.sid
    BY <1>3, <1>4, Frames DEF Over, FrameTypes, Control
  <1> HIDE DEF f
  <1>10. Sound(y) /\ Unparked(y) /\ Quiet(new, y)
    BY <1>8, <1>9, TransmitSound
  <1>13. PICK a \in Seq(AirFrame) : y = [new EXCEPT !.air = a] /\ a \in {new.air, Append(new.air, f)}
    BY <1>7, <1>9, TransmitKeys
  <1>14. Asks(was, y)
    <2>1. SUFFICES ASSUME Calm(was)
                   PROVE  /\ Calm(y) /\ Sends(was, y) /\ Hears(was, y) /\ (Closing(was) => Closing(y))
                          /\ Opening(y) <= Opening(was) + 1 /\ Reqs(y.air) <= Reqs(was.air) + 1
      BY DEF Asks
    <2>2. Calm(st) /\ Acts(was, st) /\ st.link = NoLink /\ Sound(st)
      BY <1>3, <2>1, OverSound DEF Moves, Over
    <2>3. Calm(new)
      BY <1>7, <2>2 DEF Calm, CalmAir, CalmTable
    <2>4. Closing(new)
      BY <1>7 DEF Closing
    <2>5. Sends(st, new) /\ Hears(st, new)
      BY <1>7 DEF Sends, Hears
    <2>6. MayKey(new, f)
      BY <1>7, <1>9 DEF MayKey, IsData, Answers
    <2>7. LET z == [new EXCEPT !.air = a]
          IN /\ Calm(z) /\ Hears(new, z) /\ Sends(new, z) /\ Closing(z)
             /\ Opening(z) = Opening(new) /\ Reqs(z.air) <= Reqs(new.air) + 1
      <3> DEFINE z == [new EXCEPT !.air = a]
      <3>1. Calm(new) =>
                /\ Calm(z) /\ Hears(new, z) /\ (f.type # "Cfm" => Sends(new, z)) /\ (Closing(new) => Closing(z))
                /\ Opening(z) = Opening(new)
                /\ Reqs(z.air) <= Reqs(new.air) + (IF f.type = "Req" THEN 1 ELSE 0)
        BY <1>8, <1>9, <1>13, <2>6, KeyMoves
      <3> HIDE DEF z
      <3>2. QED
        BY <1>9, <2>3, <2>4, <3>1 DEF z
    <2> HIDE DEF y
    <2>8. Sends(st, y) /\ Hears(st, y) /\ Calm(y) /\ Closing(y)
      BY <1>8, <1>10, <1>13, <2>2, <2>5, <2>7, SendsOn
    <2>9. Sends(was, y) /\ Hears(was, y)
      BY <1>1, <1>10, <2>2, <2>8, SendsOn DEF Acts
    <2>10. /\ Reqs(was.air) \in Nat /\ Reqs(st.air) \in Nat /\ Reqs(y.air) \in Nat
           /\ Opening(y) \in {0, 1} /\ Opening(was) \in {0, 1}
      <3>1. was.air \in Seq(AirFrame) /\ st.air \in Seq(AirFrame) /\ y.air \in Seq(AirFrame)
        BY <1>1, <1>10, <2>2 DEF Sound, Shape
      <3>2. QED
        BY <3>1, ReqsCount DEF Opening
    <2>11. Reqs(y.air) <= Reqs(st.air) + 1 /\ Reqs(st.air) <= Reqs(was.air)
      BY <1>7, <1>13, <2>2, <2>7 DEF Acts
    <2>12. QED
      BY <2>8, <2>9, <2>10, <2>11
  <1> HIDE DEF y
  <1>11. Step(was, y)
    BY <1>3, <1>7, <1>8, <1>10 DEF Step, HostStep, Dials, Quiet
  <1>12. QED
    BY <1>2, <1>11, <1>14, OneStep DEF was

\* Data from a host raises BUFFER.
LEMMA HostDataStep ==
    ASSUME SessionInv, NEW s \in Stations, NEW plain \in BOOLEAN, NEW refuse \in BOOLEAN,
           HostData(s, plain, refuse)
    PROVE  StepAll /\ MovesAll
  <1> DEFINE was == station[s]
             ids == InState(was, Active(was), {"Established"})
             id == Min(ids)
             st == EnsureSessionLink(was, id)
             x == [st EXCEPT !.submitted = st.submitted + 1]
             l == [st.link EXCEPT !.backlog = st.link.backlog + 1]
             z == [x EXCEPT !.link = l]
             r == ReportBuffer(z)
             y == DrainSessionLink(r, plain, refuse)
  <1>1. Sound(was) /\ Unparked(was) /\ was \in Shape
    BY OfStation
  <1>2. /\ ids # {} /\ was.submitted < MaxPayload
        /\ station' = [station EXCEPT ![s] = DrainSessionLink(
             ReportBuffer([st EXCEPT !.link.backlog = @ + 1, !.submitted = @ + 1]), plain, refuse)]
    BY DEF HostData, Update
  <1>3. id \in Slots /\ was.sessions[id] # NoSession /\ was.sessions[id].state = "Established"
    <2>1. ids \in SUBSET Slots
      BY DEF InState, Active
    <2>2. id \in ids
      BY <1>2, <2>1, MinIn
    <2>3. QED
      BY <2>2 DEF InState, Active, StateOf
  <1>4. Stage(was) = "up"
    BY <1>1, <1>3, Only DEF StageOf
  <1> HIDE DEF id, was
  <1>5. /\ Sound(st) /\ Quiet(was, st) /\ st.link # NoLink /\ st.submitted = was.submitted
    BY <1>1, <1>3, EnsureSound
  <1>21. Calm(was) => st = was
    BY <1>3 DEF Calm, CalmTable, EnsureSessionLink
  <1>6. [st EXCEPT !.link.backlog = @ + 1, !.submitted = @ + 1] = z
    <2> HIDE DEF st
    <2>1. st \in Shape /\ st.link \in LinkShape
      BY <1>5, LinkFacts
    <2>2. QED
      BY <2>1 DEF Shape
  <1> HIDE DEF st
  <1>7. /\ st \in Shape /\ st.link \in LinkShape /\ SoundLink(st) /\ InFlight(st.link.tx) \in {0, 1}
        /\ st.link.backlog \in Nat
    BY <1>5, LinkFacts
  <1>8. st.submitted \in 0 .. MaxPayload /\ st.submitted < MaxPayload /\ st.link.backlog <= st.submitted
    BY <1>2, <1>5, <1>7 DEF Shape, SoundLink
  <1>9. /\ st.submitted + 1 \in 0 .. MaxPayload /\ st.link.backlog + 1 \in 0 .. MaxPayload
        /\ st.link.backlog <= st.submitted + 1 /\ st.link.backlog + 1 <= st.submitted + 1
    BY <1>7, <1>8, Constants
  <1>10. /\ x \in Shape /\ x.sessions = st.sessions /\ x.link = st.link /\ x.pending = st.pending
         /\ x.told = st.told /\ x.reported = st.reported /\ x.submitted = st.submitted + 1
         /\ x.sid = st.sid /\ x.ended = st.ended /\ x.air = st.air
    BY <1>7, <1>9 DEF Shape
  <1> HIDE DEF x
  <1>11. SameTable(st, x) /\ SoundLink(x) /\ x.reported = Buffered_(x)
    BY <1>5, <1>7, <1>9, <1>10 DEF SameTable, SoundLink, Sound, Buffered_
  <1>12. Sound(x) /\ Quiet(st, x)
    BY <1>5, <1>10, <1>11, SameTableSound DEF Quiet
  <1>13. /\ l \in LinkShape /\ l.session_id = st.link.session_id /\ l.remote = st.link.remote
         /\ l.tx = st.link.tx /\ l.backlog = st.link.backlog + 1 /\ l.fallback = st.link.fallback
         /\ l.quiet = st.link.quiet /\ l.expired = st.link.expired
         /\ l.max_retransmit = st.link.max_retransmit /\ l.rx = st.link.rx
    BY <1>7, <1>9 DEF LinkShape
  <1> HIDE DEF l
  <1>14. Carried(l.tx) /\ Budgeted(l) /\ l.backlog <= x.submitted /\ x.link # NoLink
    BY <1>5, <1>7, <1>9, <1>10, <1>13 DEF SoundLink, Budgeted, StillToCome
  <1>15. /\ Sound(r) /\ SameTable(x, r) /\ Stage(r) = Stage(x)
         /\ r.reported = l.backlog + InFlight(l.tx)
         /\ r.link = l /\ r.submitted = x.submitted /\ r.sid = x.sid /\ r.ended = x.ended /\ r.air = x.air
    BY <1>10, <1>12, <1>13, <1>14, Relinked
  <1>16. r.reported \in Nat /\ r.told = x.told
    BY <1>7, <1>13, <1>15 DEF SameTable
  <1> HIDE DEF r
  <1>17. Sound(y) /\ Unparked(y) /\ Quiet(r, y) /\ Moves(r, y)
    BY <1>15, DrainSound
  <1>22. Moves(was, r)
    <2>1. SUFFICES ASSUME Calm(was) PROVE Calm(r) /\ Acts(was, r) /\ (Closing(was) => Closing(r))
      BY DEF Moves
    <2>2. st = was /\ CalmLink(was) /\ was.link # NoLink
      BY <1>5, <1>21, <2>1 DEF Calm
    <2>3. SameTable(was, r) /\ r.link # NoLink
      BY <1>5, <1>11, <1>13, <1>15, <2>2, Sentinels DEF SameTable
    <2>4. SentCount(r) = SentCount(was) /\ Confirmed(r) = Confirmed(was) /\ SentCount(was) \in Int
      BY <1>7, <1>8, <1>10, <1>13, <1>15, <2>2 DEF SentCount, Confirmed
    <2>5. CalmLink(r)
      BY <1>10, <1>13, <1>15, <2>2, <2>4 DEF CalmLink
    <2>6. CalmAir(r)
      BY <1>10, <1>13, <1>15, <2>1, <2>2, <2>3 DEF Calm, CalmAir
    <2>7. CalmTable(r) /\ (Closing(was) => Closing(r))
      BY <1>10, <1>13, <1>15, <2>1, <2>2, <2>3 DEF Calm, CalmTable, CalmLink, SameTable, Closing, Transmitting
    <2>8. Opening(r) = Opening(was) /\ Opening(was) \in Nat /\ Reqs(was.air) \in Nat
      BY <1>1, <2>3, ReqsCount DEF Opening, SameTable, Shape
    <2>9. Sends(was, r) /\ Hears(was, r)
      BY <1>10, <1>13, <1>15, <2>2, <2>4 DEF Sends, Hears, CalmLink
    <2>10. QED
      BY <1>10, <1>15, <2>2, <2>5, <2>6, <2>7, <2>8, <2>9 DEF Calm, Acts
  <1>23. Moves(was, y)
    BY <1>1, <1>15, <1>17, <1>22, MovesOn
  <1>18. station' = [station EXCEPT ![s] = y]
    BY <1>2, <1>6 DEF r
  <1> HIDE DEF y
  <1>19. Reports(was, y)
    <2>1. Stage(y) = Stage(r) /\ y.told = r.told /\ y.reported = r.reported
      BY <1>17 DEF Quiet
    <2>2. Stage(x) = Stage(st) /\ Stage(st) = Stage(was) /\ x.told = st.told /\ st.told = was.told
      BY <1>5, <1>12 DEF Quiet
    <2>3. Stage(y) = Stage(was) /\ y.told = was.told /\ y.reported \in Nat
      BY <2>1, <2>2, <1>15, <1>16
    <2>4. QED
      BY <2>3, <1>4 DEF Reports
  <1>24. Step(was, y)
    BY <1>17, <1>19 DEF Step, HostStep
  <1>20. QED
    BY <1>18, <1>23, <1>24, OneStep DEF was

\* A host's DISCONNECT.
LEMMA HostDisconnectStep ==
    ASSUME SessionInv, NEW s \in Stations, HostDisconnect(s)
    PROVE  StepAll /\ MovesAll
  <1> DEFINE st == station[s]
             ids == InState(st, Active(st), SessionStates \ {"Disconnecting"})
             id == Min(ids)
             x == Touch(st, id)
             closing == [x.sessions[id] EXCEPT !.state = "Disconnecting"]
             z == [x EXCEPT !.sessions = [x.sessions EXCEPT ![id] = closing], !.pending = id]
  <1>1. Sound(st) /\ Unparked(st) /\ st \in Shape
    BY OfStation
  <1>2. /\ ids # {}
        /\ station' = [station EXCEPT ![s] =
             IF StateOf(st, id) = "Accepting" THEN EndSession(st, id)
             ELSE FinishDrainedDisconnect(
                     [Touch(st, id) EXCEPT !.sessions[id].state = "Disconnecting", !.pending = id])]
    BY DEF HostDisconnect, Update
  <1>3. /\ id \in Slots /\ st.sessions[id] # NoSession
        /\ st.sessions[id].state \in SessionStates \ {"Disconnecting"}
    <2>1. ids \in SUBSET Slots
      BY DEF InState, Active
    <2>2. id \in ids
      BY <1>2, <2>1, MinIn
    <2>3. QED
      BY <2>2 DEF InState, Active, StateOf
  <1> HIDE DEF id, st
  <1>4. CASE StateOf(st, id) = "Accepting"
    <2> DEFINE y == EndSession(st, id)
    <2>1. Ends(st, y) /\ Leaves(st, y) /\ y.ended = st.ended
      BY <1>1, <1>3, <1>4, EndSessionEnds DEF StateOf
    <2>2. station' = [station EXCEPT ![s] = y]
      BY <1>2, <1>4
    <2> HIDE DEF y
    <2>3. Step(st, y) /\ Moves(st, y)
      BY <1>1, <2>1, EndsStep, DropMoves
    <2>4. QED
      BY <2>2, <2>3, OneStep DEF st
  <1>5. CASE StateOf(st, id) # "Accepting"
    <2>1. st.sessions[id].state \in {"Connecting", "Established"}
      BY <1>3, <1>5 DEF SessionStates, StateOf
    <2>2. /\ SoundSession(st, id) /\ Stage(st) = StageOf(st.sessions[id].state)
          /\ (st.link # NoLink => SoundLink(st) /\ st.link.session_id = id)
      BY <1>1, <1>3, Only
    <2>3. /\ x \in Shape /\ SameTable(st, x) /\ Sound(x) /\ x.link = st.link /\ x.held = st.held
          /\ x.air = st.air /\ x.reported = st.reported /\ x.submitted = st.submitted
          /\ x.told = st.told /\ x.sid = st.sid /\ x.ended = st.ended
      BY <1>1, <1>3, TouchKeeps DEF SameTable
    <2>4. [x EXCEPT !.sessions[id].state = "Disconnecting", !.pending = id] = z
      <3> HIDE DEF x
      <3>1. QED
        BY <2>3 DEF Shape
    <2> HIDE DEF x
    <2>5. x.sessions \in Table /\ x.sessions[id] # NoSession /\ x.sessions[id] \in Session
          /\ \A j \in Slots : x.sessions[j] # NoSession => j = id
      BY <1>3, <2>2, <2>3 DEF Shape, Table, SameTable, SoundSession
    <2>6. /\ closing \in Session /\ closing.state = "Disconnecting"
          /\ closing.remote = x.sessions[id].remote /\ closing # NoSession
      <3>1. closing \in Session /\ closing.state = "Disconnecting"
            /\ closing.remote = x.sessions[id].remote
        BY <2>5 DEF Session, SessionStates
      <3>2. QED
        BY <3>1, Sentinels
    <2> HIDE DEF closing
    <2>7. [x.sessions EXCEPT ![id] = closing] \in Table
      BY <1>3, <2>5, <2>6 DEF Table
    <2>8. /\ z \in Shape /\ z.sessions = [x.sessions EXCEPT ![id] = closing] /\ z.pending = id
          /\ z.link = st.link /\ z.held = st.held /\ z.air = st.air /\ z.reported = st.reported
          /\ z.submitted = st.submitted /\ z.told = st.told /\ z.sid = st.sid /\ z.ended = st.ended
      BY <1>3, <2>3, <2>7 DEF Shape
    <2> HIDE DEF z
    <2>9. z.sessions[id] = closing /\ \A j \in Slots : z.sessions[j] # NoSession => j = id
      BY <1>3, <2>5, <2>8 DEF Table
    <2>10. st.told \in {"connected", "disconnected"}
      BY <2>1, <2>2 DEF SoundSession, Follows
    <2>11. SoundSession(z, id)
      BY <2>6, <2>8, <2>9, <2>10 DEF SoundSession, Follows
    <2>12. z.link # NoLink => SoundLink(z)
      BY <2>2, <2>3, <2>6, <2>8, <2>9 DEF SoundLink, SameTable
    <2>13. z.reported = Buffered_(z)
      BY <1>1, <2>8 DEF Sound, Buffered_
    <2>14. Sound(z)
      BY <1>3, <2>6, <2>8, <2>9, <2>11, <2>12, <2>13 DEF Sound
    <2>15. Unparked(z)
      BY <1>1, <2>8 DEF Unparked, Ready, Transmitting
    <2>16. Stage(z) = "closing" /\ Stage(st) \in {"calling", "up"}
      <3>1. z.sessions[id] # NoSession /\ z.sessions[id].state = "Disconnecting"
        BY <2>6, <2>9
      <3>2. Stage(z) = StageOf(z.sessions[id].state)
        BY <1>3, <2>8, <2>9, <3>1, StageIs
      <3>3. QED
        BY <2>1, <2>2, <3>1, <3>2 DEF StageOf
    <2>17. Step(st, FinishDrainedDisconnect(z))
      <3>1. CASE FinishDrainedDisconnect(z) = z
        BY <2>8, <2>14, <2>15, <2>16, <3>1 DEF Step, HostStep, Closes
      <3>2. CASE Ends(z, FinishDrainedDisconnect(z))
        <4>1. Ends(st, FinishDrainedDisconnect(z))
          BY <2>16, <3>2 DEF Ends
        <4>2. QED
          BY <4>1, EndsStep
      <3>3. QED
        BY <2>14, <3>1, <3>2, FinishEnds
    <2>18. station' = [station EXCEPT ![s] = FinishDrainedDisconnect(z)]
      BY <1>2, <1>5, <2>4 DEF x
    <2>20. Calm(st) => Calm(z) /\ Acts(st, z)
      <3>1. SUFFICES ASSUME Calm(st) PROVE Calm(z) /\ Acts(st, z)
        OBVIOUS
      <3>2. CalmTable(st)
        BY <3>1 DEF Calm
      <3>3. st.link = NoLink => st.submitted = 0 \/ st.link.session_id = id
        BY <1>3, <2>1, <3>2 DEF CalmTable
      <3>4. \A i \in Slots : z.sessions[i] # NoSession => i = id /\ z.sessions[i].state = "Disconnecting"
        BY <2>6, <2>9
      <3>5. CalmTable(z)
        <4>1. st.link = NoLink => st.submitted = 0
          BY <1>3, <3>3, Sentinels, Constants
        <4>2. QED
          BY <2>8, <3>2, <3>4, <4>1 DEF CalmTable
      <3>6. (z.link # NoLink => CalmLink(z)) /\ CalmAir(z)
        BY <2>8, <3>1 DEF Calm, CalmLink, CalmAir, SentCount
      <3>7. Opening(z) = 0 /\ Opening(st) \in Nat /\ Reqs(st.air) \in Nat
        BY <1>1, <3>4, ReqsCount DEF Opening, Shape
      <3>8. st.link # NoLink => SentCount(st) \in Int
        BY <1>1, Counts
      <3>9. Sends(st, z) /\ Hears(st, z)
        BY <2>8, <3>8 DEF Sends, Hears, SentCount, Confirmed
      <3>10. QED
        BY <2>8, <3>5, <3>6, <3>7, <3>9 DEF Calm, Acts
    <2> DEFINE y == FinishDrainedDisconnect(z)
    <2>21. Sound(y) /\ Moves(z, y) /\ (Calm(z) => Closing(y))
      BY <2>14, FinishMoves
    <2> HIDE DEF y
    <2>22. Moves(st, y)
      BY <1>1, <2>14, <2>20, <2>21, ActsOn DEF Moves
    <2>19. QED
      BY <2>17, <2>18, <2>22, OneStep DEF st, y
  <1>6. QED
    BY <1>4, <1>5

\* A host's ABORT.
LEMMA AbortStep ==
    ASSUME SessionInv, NEW s \in Stations, Abort(s)
    PROVE  StepAll /\ MovesAll
  <1> DEFINE st == station[s]
             id == Min(Active(st))
             x1 == [st EXCEPT !.pending = NoSlot, !.ended = "dropped"]
             x2 == DiscardSessionTx(x1, id)
             off == Remove(x2, id)
             cut == [off EXCEPT !.air = << >>, !.held = @ /\ ~Transmitting(st)]
             told == IF StateOf(st, id) = "Accepting" THEN NotifySession(cut, "CANCELPENDING") ELSE cut
             y == NotifySession(told, "DISCONNECTED")
  <1>1. Sound(st) /\ Unparked(st) /\ st \in Shape
    BY OfStation
  <1>2. Active(st) # {} /\ station' = [station EXCEPT ![s] = y]
    BY DEF Abort, Update
  <1>3. id \in Slots /\ st.sessions[id] # NoSession
    <2>1. Active(st) \in SUBSET Slots
      BY DEF Active
    <2>2. id \in Active(st)
      BY <1>2, <2>1, MinIn
    <2>3. QED
      BY <2>2 DEF Active
  <1> HIDE DEF id, st
  <1>4. /\ SoundSession(st, id) /\ st.sessions[id] \in Session
        /\ (st.link = NoLink => st.reported = 0) /\ (st.link # NoLink => st.link.session_id = id)
    BY <1>1, <1>3, Only
  <1>5. /\ x1 \in Shape /\ x1.sessions = st.sessions /\ x1.link = st.link /\ x1.reported = st.reported
        /\ x1.pending = NoSlot /\ x1.told = st.told
        /\ x1.sid = st.sid /\ x1.submitted = st.submitted /\ x1.ended = "dropped"
    BY <1>1 DEF Shape
  <1> HIDE DEF x1
  <1>6. /\ x2 \in Shape /\ x2.sessions = st.sessions /\ x2.link = NoLink /\ x2.reported = 0
        /\ x2.pending = NoSlot /\ x2.told = st.told
        /\ x2.sid = st.sid /\ x2.submitted = st.submitted /\ x2.ended = "dropped"
    BY <1>3, <1>4, <1>5, DiscardClears
  <1> HIDE DEF x2
  <1>7. /\ off \in Shape /\ off.sessions[id] = NoSession /\ off.link = NoLink /\ off.reported = 0
        /\ off.pending = NoSlot /\ off.told = st.told
        /\ \A i \in Slots \ {id} : off.sessions[i] = st.sessions[i]
        /\ off.sid = st.sid /\ off.submitted = st.submitted /\ off.ended = "dropped"
    BY <1>3, <1>6, RemoveClears
  <1> HIDE DEF off
  <1>8. /\ cut \in Shape /\ cut.sessions = off.sessions /\ cut.link = NoLink /\ cut.reported = 0
        /\ cut.pending = NoSlot /\ cut.told = st.told /\ cut.air = << >>
        /\ cut.sid = st.sid /\ cut.submitted = st.submitted /\ cut.ended = "dropped"
    <2> DEFINE held == off.held /\ ~Transmitting(st)
    <2>1. held \in BOOLEAN /\ << >> \in Seq(AirFrame)
      BY <1>7, EmptySeq DEF Transmitting
    <2>2. cut = [off EXCEPT !.air = << >>, !.held = held]
      BY <1>7 DEF Shape
    <2> HIDE DEF held, cut
    <2>3. QED
      BY <1>7, <2>1, <2>2 DEF Shape
  <1> HIDE DEF cut
  <1>9. /\ told \in Shape /\ told.sessions = off.sessions /\ told.link = NoLink /\ told.reported = 0
        /\ told.pending = NoSlot /\ told.told \in {"disconnected", "connected"} /\ told.air = << >>
        /\ told.sid = st.sid /\ told.submitted = st.submitted /\ told.ended = "dropped"
    <2>1. st.told = "pending" <=> StateOf(st, id) = "Accepting"
      BY <1>4 DEF SoundSession, Follows, StateOf, Session, SessionStates
    <2>2. st.told \in {"pending", "disconnected", "connected"}
      BY <1>4 DEF SoundSession, Follows, Session, SessionStates
    <2>3. CASE StateOf(st, id) = "Accepting"
      BY <1>8, <2>1, <2>3, NotifyTells, NoticesEnd
    <2>4. CASE StateOf(st, id) # "Accepting"
      BY <1>8, <2>1, <2>2, <2>4
    <2>5. QED
      BY <2>3, <2>4
  <1> HIDE DEF told
  <1>10. /\ y \in Shape /\ y.sessions = off.sessions /\ y.link = NoLink /\ y.reported = 0
         /\ y.pending = NoSlot /\ y.told = "disconnected" /\ y.air = << >>
         /\ y.sid = st.sid /\ y.submitted = st.submitted /\ y.ended = "dropped"
    BY <1>9, NotifyTells, NoticesEnd
  <1> HIDE DEF y
  <1>11. Ends(st, y)
    BY <1>1, <1>3, <1>7, <1>10, Ending
  <1>13. Moves(st, y)
    <2>1. SUFFICES ASSUME Calm(st) PROVE Calm(y) /\ Acts(st, y) /\ Closing(y)
      BY DEF Moves
    <2>2. OnAir(y.air) = {} /\ DOMAIN y.air = {} /\ Reqs(y.air) = 0
      <3>1. DOMAIN y.air = {}
        BY <1>10
      <3>2. QED
        BY <3>1, FS_EmptySet DEF OnAir, Reqs
    <2>3. \A i \in Slots : y.sessions[i] = NoSession
      BY <1>11 DEF Ends, Over, Idle
    <2>4. Opening(y) = 0 /\ Opening(st) \in Nat /\ Reqs(st.air) \in Nat
      BY <1>1, <2>3, ReqsCount DEF Opening, Shape
    <2>5. Calm(y) /\ Closing(y)
      BY <1>10, <2>1, <2>2, <2>3 DEF Calm, CalmAir, CalmTable, Closing
    <2>6. Sends(st, y) /\ Hears(st, y)
      BY <1>10, <2>2 DEF Sends, Hears
    <2>7. QED
      BY <2>2, <2>4, <2>5, <2>6 DEF Acts
  <1>14. Step(st, y)
    BY <1>11, EndsStep
  <1>12. QED
    BY <1>2, <1>13, <1>14, OneStep DEF st

\* The keyed interval goes on, or PTT is released.
LEMMA PlayedStep ==
    ASSUME NEW st, Sound(st), Transmitting(st), NEW plain \in BOOLEAN, NEW refuse \in BOOLEAN
    PROVE  LET y == Played(st, plain, refuse)
           IN /\ Step(st, y) /\ Moves(st, y)
              /\ Calm(st) => Reqs(y.air) + (IF Head(st.air).type = "Req" THEN 1 ELSE 0) <= Reqs(st.air)
  <1> DEFINE a == Tail(st.air)
             off == [st EXCEPT !.air = a]
  <1>1. st \in Shape /\ st.air \in Seq(AirFrame) /\ st.air # << >>
    BY DEF Sound, Shape, Transmitting
  <1>2. a \in Seq(AirFrame)
    BY <1>1
  <1>3. Played(st, plain, refuse) = IF Transmitting(off) THEN off ELSE PttReleased(off, plain, refuse)
    BY DEF Played
  <1>9. /\ OnAir(a) \subseteq OnAir(st.air)
        /\ Reqs(st.air) \in Nat /\ Reqs(a) \in Nat
        /\ Reqs(a) + (IF Head(st.air).type = "Req" THEN 1 ELSE 0) <= Reqs(st.air)
        /\ (\A i \in DOMAIN st.air : st.air[i].type \in Answers => i = 1)
             => \A i \in DOMAIN a : a[i].type \in Answers => i = 1
    BY <1>1, LessAir
  <1> HIDE DEF a
  <1>4. Sound(off) /\ Quiet(st, off)
    BY <1>1, <1>2, Keyed
  <1>10. /\ off.air = a /\ off.sessions = st.sessions /\ off.link = st.link
         /\ off.submitted = st.submitted /\ off.sid = st.sid /\ off.ended = st.ended
    BY <1>1, <1>2, Keyed
  <1>8. Calm(st) =>
           /\ Calm(off) /\ Acts(st, off)
           /\ Reqs(off.air) + (IF Head(st.air).type = "Req" THEN 1 ELSE 0) <= Reqs(st.air)
    <2> HIDE DEF off
    <2>1. SUFFICES ASSUME Calm(st) PROVE Calm(off) /\ Acts(st, off)
      BY <1>9, <1>10
    <2>2. SentCount(off) = SentCount(st) /\ Confirmed(off) = Confirmed(st)
      BY <1>10 DEF SentCount, Confirmed
    <2>3. st.link # NoLink => SentCount(st) \in Int
      BY Counts
    <2>4. off.link # NoLink => CalmLink(off)
      BY <1>9, <1>10, <2>1, <2>2 DEF Calm, CalmLink
    <2>5. CalmAir(off) /\ CalmTable(off)
      BY <1>9, <1>10, <2>1 DEF Calm, CalmAir, CalmTable
    <2>6. Sends(st, off) /\ Hears(st, off)
      BY <1>9, <1>10, <2>2, <2>3 DEF Sends, Hears
    <2>7. Opening(off) = Opening(st) /\ Opening(st) \in Nat
      BY <1>10 DEF Opening
    <2>8. Reqs(off.air) <= Reqs(st.air)
      BY <1>9, <1>10
    <2>9. QED
      BY <2>4, <2>5, <2>6, <2>7, <2>8 DEF Calm, Acts
  <1> HIDE DEF off
  <1>5. CASE Transmitting(off)
    <2>1. Closing(st) => Closing(off)
      BY <1>5 DEF Closing
    <2>2. QED
      BY <1>3, <1>4, <1>5, <1>8, <2>1 DEF Unparked, Step, HostStep, Moves
  <1>6. CASE ~Transmitting(off)
    <2> DEFINE y == PttReleased(off, plain, refuse)
    <2>1. Step(off, y) /\ Moves(off, y) /\ (Calm(off) => Closing(y))
      BY <1>4, PttReleasedStep
    <2> HIDE DEF y
    <2>2. Step(st, y) /\ Sound(y)
      BY <1>4, <2>1, QuietFirst DEF Step
    <2>3. ASSUME Calm(st)
          PROVE  /\ Calm(y) /\ Acts(st, y) /\ Closing(y)
                 /\ Reqs(y.air) + (IF Head(st.air).type = "Req" THEN 1 ELSE 0) <= Reqs(st.air)
      <3>1. Calm(off) /\ Acts(st, off)
        BY <1>8, <2>3
      <3>2. Calm(y) /\ Acts(off, y) /\ Closing(y)
        BY <2>1, <3>1 DEF Moves
      <3>3. Acts(st, y)
        BY <1>4, <2>2, <3>1, <3>2, ActsOn
      <3>4. Reqs(y.air) <= Reqs(off.air) /\ Reqs(y.air) \in Nat /\ Reqs(off.air) \in Nat /\ Reqs(st.air) \in Nat
        <4>1. y.air \in Seq(AirFrame) /\ off.air \in Seq(AirFrame)
          BY <1>4, <2>2 DEF Sound, Shape
        <4>2. QED
          BY <1>1, <3>2, <4>1, ReqsCount DEF Acts
      <3>5. QED
        BY <1>8, <2>3, <3>2, <3>3, <3>4
    <2>4. QED
      BY <1>3, <1>6, <2>2, <2>3 DEF y, Moves
  <1>7. QED
    BY <1>5, <1>6

\* A frame decoded, its header decoded, or lost.
LEMMA AirSteps ==
    ASSUME SessionInv, NEW s \in Stations,
           NEW well \in BOOLEAN, NEW plain \in BOOLEAN, NEW refuse \in BOOLEAN,
           Deliver(s, well, plain, refuse) \/ HeaderOnly(s, plain, refuse) \/ Lose(s, plain, refuse)
    PROVE  StepAll /\ (HeaderOnly(s, plain, refuse) \/ Lose(s, plain, refuse) => MovesAll)
  <1> DEFINE p == Other(s)
             f == Head(station[s].air)
             v == Played(station[s], plain, refuse)
             w == HandleMacPdu(p, station[p], s, f, well, plain, refuse)
             u == NoteEvidence(station[p])
  <1>1. p \in Stations /\ p # s /\ s \in Parties
    BY OtherStation, Zenon DEF Parties
  <1>2. Transmitting(station[s])
    BY Zenon DEF Deliver, HeaderOnly, Lose
  <1>3. Sound(station[s]) /\ Sound(station[p]) /\ Unparked(station[p])
    BY <1>1, OfStation
  <1>4. f \in AirFrame
    <2>1. station[s].air \in Seq(AirFrame) /\ station[s].air # << >>
      BY <1>2, <1>3 DEF Sound, Shape, Transmitting
    <2>2. QED
      BY <2>1
  <1>5. Step(station[s], v) /\ Moves(station[s], v)
    BY <1>2, <1>3, PlayedStep
  <1>6. Step(station[p], w)
    <2> HIDE DEF f, p
    <2>1. QED
      BY <1>1, <1>3, <1>4, MacPduStep
  <1>7. Step(station[p], u) /\ Moves(station[p], u)
    BY <1>3, EvidenceSound, AlikeMoves DEF Step, HostStep
  <1>8. ASSUME Deliver(s, well, plain, refuse) PROVE StepAll
    <2>1. station' = [station EXCEPT ![s] = v, ![p] = w]
      BY <1>1, <1>8 DEF Deliver, SessionInv
    <2> HIDE DEF v, w, p
    <2>2. QED
      BY <1>1, <1>5, <1>6, <2>1, TwoSteps
  <1>9. ASSUME HeaderOnly(s, plain, refuse) PROVE StepAll /\ MovesAll
    <2>1. station' = [station EXCEPT ![s] = v, ![p] = u]
      BY <1>1, <1>9 DEF HeaderOnly, SessionInv
    <2> HIDE DEF v, u, p
    <2>2. QED
      BY <1>1, <1>5, <1>7, <2>1, TwoSteps
  <1>10. ASSUME Lose(s, plain, refuse) PROVE StepAll /\ MovesAll
    <2>1. station' = [station EXCEPT ![s] = v]
      BY <1>10 DEF Lose, SessionInv
    <2> HIDE DEF v
    <2>2. QED
      BY <1>5, <2>1, OneStep
  <1>11. QED
    BY <1>8, <1>9, <1>10

\* The rest of Next: the two ticks, a third station, and time.
LEMMA TickSteps ==
    ASSUME SessionInv
    PROVE  /\ \A s \in Stations, rto, over, plain, refuse \in BOOLEAN :
                 Poll(s, rto, over, plain, refuse) => StepAll /\ MovesAll
           /\ \A s \in Stations : SessionCleanup(s) => StepAll /\ MovesAll
           /\ \A s \in Stations, type \in {"Req", "Cfm", "Disconnect"}, well \in BOOLEAN :
                 ForeignFrame(s, type, well) => StepAll
           /\ \A gated \in SUBSET Stations : Tick(gated) => StepAll /\ MovesAll
  <1>1. ASSUME NEW s \in Stations, NEW rto \in BOOLEAN, NEW over \in BOOLEAN,
               NEW plain \in BOOLEAN, NEW refuse \in BOOLEAN, Poll(s, rto, over, plain, refuse)
        PROVE  StepAll /\ MovesAll
    <2> DEFINE y == PollSteps(station[s], rto, over, plain, refuse)
    <2>1. /\ station' = [station EXCEPT ![s] = y]
          /\ rto => station[s].link # NoLink /\ (station[s].link.fallback => station[s].link.expired)
      BY <1>1 DEF Poll, Update
    <2>2. Step(station[s], y) /\ Moves(station[s], y)
      BY <2>1, OfStation, PollStep
    <2> HIDE DEF y
    <2>3. QED
      BY <2>1, <2>2, OneStep
  <1>2. ASSUME NEW s \in Stations, SessionCleanup(s) PROVE StepAll /\ MovesAll
    BY <1>2, OfStation, CleanupStep, OneStep DEF SessionCleanup, Update
  <1>3. ASSUME NEW s \in Stations, NEW type \in {"Req", "Cfm", "Disconnect"}, NEW well \in BOOLEAN,
               ForeignFrame(s, type, well)
        PROVE  StepAll
    <2> DEFINE f == [type |-> type, dest |-> s, sid |-> 0, num |-> 0, data |-> 0]
               y == HandleMacPdu(s, station[s], Stranger, f, well, FALSE, FALSE)
    <2>1. station' = [station EXCEPT ![s] = y]
      BY <1>3 DEF ForeignFrame, Update
    <2>2. f \in AirFrame /\ Stranger \in Parties
      BY Constants DEF AirFrame, FrameTypes, Parties
    <2>3. FALSE \in BOOLEAN
      OBVIOUS
    <2> HIDE DEF f
    <2>4. Step(station[s], y)
      BY <2>2, <2>3, OfStation, MacPduStep
    <2> HIDE DEF y
    <2>5. QED
      BY <2>1, <2>4, OneStep
  <1>4. ASSUME NEW gated \in SUBSET Stations, Tick(gated) PROVE StepAll /\ MovesAll
    <2>1. \A s \in Stations : ~HoldIsOver(station[s])
      BY <1>4 DEF Tick, Settled
    <2>2. station' = [s \in Stations |-> Later(station[s], s \in gated)]
      BY <1>4 DEF Tick
    <2>3. ASSUME NEW s \in Stations
          PROVE  Step(station[s], Later(station[s], s \in gated)) /\ Moves(station[s], Later(station[s], s \in gated))
      <3>1. (s \in gated) \in BOOLEAN
        OBVIOUS
      <3> DEFINE g == s \in gated
      <3> HIDE DEF g
      <3>2. Step(station[s], Later(station[s], g)) /\ Moves(station[s], Later(station[s], g))
        BY <2>1, <3>1, OfStation, LaterStep, AlikeMoves DEF g, Step
      <3>3. QED
        BY <3>2 DEF g
    <2>4. \A s \in Stations : Later(station[s], s \in gated) \in Shape
      BY <2>3 DEF Step, Sound
    <2>5. QED
      BY <2>2, <2>3, <2>4 DEF StepAll, MovesAll
  <1>5. QED
    BY <1>1, <1>2, <1>3, <1>4

-----------------------------------------------------------------------------
(***************************************************************************)
(* Both ends of the channel.  The host of p has been given h payloads of   *)
(* the last session of station s, x is the record of s and y that of p:    *)
(* what has left the window of s was given, the payload in flight may have *)
(* been, the cursor of p counts them, and so do the ACKs it has keyed.     *)
(***************************************************************************)
Handed == [Sids \ {0} -> Seq(1 .. MaxPayload)]

Linked(st, p) == st.link # NoLink /\ st.link.remote = p
\* Data for p may still be heard.
Keying(st, p) == Linked(st, p) \/ \E f \in OnAir(st.air) : IsData(f) /\ f.dest = p

Delivering(x, y, h, s, p) ==
    /\ Linked(x, p) => Confirmed(x) <= h /\ h <= SentCount(x)
    /\ \A f \in OnAir(x.air) : IsData(f) /\ f.dest = p => f.data \in {h, h + 1}
    /\ Keying(x, p) /\ Linked(y, s) => y.link.rx.recv_base = h % SeqMod
    /\ Linked(x, p) => \A f \in OnAir(y.air) : f.type = "Ack" /\ f.dest = s => f.num = h % SeqMod
    /\ \A f \in OnAir(x.air) : f.type = "Cfm" => h = 0
    /\ x.ended = "drained" /\ x.submitted > 0 => h >= x.submitted

\* A session with the Stranger delivers nothing, and none is given before it is up.
Elsewhere(x, p) == x.link # NoLink /\ x.link.remote # p => Confirmed(x) = 0
InOrder(x, hp) ==
    \A n \in Sids \ {0} : /\ n > x.sid => hp[n] = << >>
                          /\ \A i \in DOMAIN hp[n] : hp[n][i] = i

Pair(x, y, hp, s, p) ==
    /\ x.sid >= 1 => Delivering(x, y, Len(hp[x.sid]), s, p)
    /\ Elsewhere(x, p) /\ InOrder(x, hp)

\* The sender's part in it.
LEMMA SendsDelivering ==
    ASSUME NEW s, NEW p, NEW y, NEW x, Sound(x), NEW z, Sound(z), NEW h \in Nat,
           Delivering(x, y, h, s, p), Elsewhere(x, p), Sends(x, z)
    PROVE  Delivering(z, y, h, s, p)
  <1>1. x.link # NoLink => /\ SentCount(x) \in Int /\ Confirmed(x) \in Int
                           /\ SentCount(x) <= Confirmed(x) + 1
    BY Counts
  <1>2. z.link # NoLink => SentCount(z) \in Int /\ Confirmed(z) \in Int
    BY Counts
  <1>3. z.link # NoLink => /\ x.link # NoLink /\ z.link.remote = x.link.remote
                           /\ Confirmed(z) = Confirmed(x) /\ SentCount(z) >= SentCount(x)
    BY DEF Sends
  <1>4. Linked(z, p) => Linked(x, p)
    BY <1>3 DEF Linked
  <1>5. ASSUME NEW f \in OnAir(z.air), f \notin OnAir(x.air)
        PROVE  f.type # "Cfm" /\ (IsData(f) => x.link # NoLink /\ f.dest = x.link.remote /\ f.data = Confirmed(x) + 1)
    BY <1>5 DEF Sends
  <1>6. Linked(z, p) => Confirmed(z) <= h /\ h <= SentCount(z)
    BY <1>1, <1>2, <1>3, <1>4 DEF Delivering, Linked
  <1>7. \A f \in OnAir(z.air) : IsData(f) /\ f.dest = p => f.data \in {h, h + 1}
    <2>1. ASSUME NEW f \in OnAir(z.air), IsData(f), f.dest = p, f \notin OnAir(x.air)
          PROVE  f.data \in {h, h + 1}
      <3>1. Linked(x, p) /\ f.data = Confirmed(x) + 1
        BY <1>5, <2>1 DEF Linked
      <3>2. Confirmed(x) <= h /\ h <= SentCount(x)
        BY <3>1 DEF Delivering
      <3>3. QED
        BY <1>1, <3>1, <3>2 DEF Linked
    <2>2. QED
      BY <2>1 DEF Delivering
  <1>8. Keying(z, p) => Keying(x, p)
    BY <1>4, <1>5 DEF Keying, Linked
  <1>9. z.ended = "drained" /\ z.submitted > 0 => h >= z.submitted
    <2>1. SUFFICES ASSUME z.ended = "drained", z.submitted > 0 PROVE h >= z.submitted
      OBVIOUS
    <2>2. \/ x.ended = "drained" /\ x.submitted = z.submitted
          \/ x.link # NoLink /\ z.submitted = Confirmed(x)
      BY <2>1 DEF Sends
    <2>3. CASE x.ended = "drained" /\ x.submitted = z.submitted
      BY <2>1, <2>3 DEF Delivering
    <2>4. CASE x.link # NoLink /\ z.submitted = Confirmed(x)
      <3>1. Linked(x, p)
        BY <2>1, <2>4 DEF Elsewhere, Linked
      <3>2. QED
        BY <1>1, <2>4, <3>1 DEF Delivering
    <2>5. QED
      BY <2>2, <2>3, <2>4
  <1>10. \A f \in OnAir(z.air) : f.type = "Cfm" => h = 0
    BY <1>5 DEF Delivering
  <1>11. QED
    BY <1>4, <1>6, <1>7, <1>8, <1>9, <1>10 DEF Delivering

\* And the receiver's.
LEMMA HearsDelivering ==
    ASSUME NEW s, NEW p, NEW x, NEW y, NEW z, NEW h \in Nat, Delivering(x, y, h, s, p), Hears(y, z)
    PROVE  Delivering(x, z, h, s, p)
  <1>1. Linked(z, s) => Linked(y, s) /\ z.link.rx.recv_base = y.link.rx.recv_base
    BY DEF Hears, Linked
  <1>2. ASSUME Linked(x, p), NEW f \in OnAir(z.air), f.type = "Ack", f.dest = s
        PROVE  f.num = h % SeqMod
    <2>1. CASE f \in OnAir(y.air)
      BY <1>2, <2>1 DEF Delivering
    <2>2. CASE f \notin OnAir(y.air)
      <3>1. Linked(y, s) /\ f.num = y.link.rx.recv_base
        BY <1>2, <2>2 DEF Hears, Linked
      <3>2. QED
        BY <1>2, <3>1 DEF Delivering, Keying
    <2>3. QED
      BY <2>1, <2>2
  <1>3. QED
    BY <1>1, <1>2 DEF Delivering

\* A step that only sends, hears or ends, at both ends.
LEMMA PairMoves ==
    ASSUME NEW s, NEW p, NEW x, Sound(x), NEW xx, Sound(xx), NEW y, NEW yy, NEW hp \in Handed,
           x.sid \in Sids, Pair(x, y, hp, s, p), Sends(x, xx), Hears(y, yy)
    PROVE  Pair(xx, yy, hp, s, p)
  <1>1. xx.sid = x.sid /\ x.sid \in Nat
    BY DEF Sends, Sound, Shape
  <1>2. x.sid >= 1 => Len(hp[x.sid]) \in Nat
    BY <1>1 DEF Handed
  <1>3. x.sid >= 1 => Delivering(xx, yy, Len(hp[x.sid]), s, p)
    BY <1>2, SendsDelivering, HearsDelivering DEF Pair
  <1>4. Elsewhere(xx, p) /\ InOrder(xx, hp)
    BY <1>1 DEF Pair, Elsewhere, InOrder, Sends
  <1>5. QED
    BY <1>1, <1>3, <1>4 DEF Pair

\* An answer is the first frame of its keyed interval.
LEMMA FirstAnswer ==
    ASSUME NEW x, Sound(x), Calm(x), x.air # << >>
    PROVE  /\ Head(x.air) \in OnAir(x.air) /\ Head(x.air) \in AirFrame
           /\ \A f \in OnAir(x.air) : f.type \in Answers => f = Head(x.air)
  <1>1. x.air \in Seq(AirFrame) /\ 1 \in DOMAIN x.air /\ Head(x.air) = x.air[1]
    BY DEF Sound, Shape
  <1>2. \A i \in DOMAIN x.air : x.air[i].type \in Answers => i = 1
    BY DEF Calm, CalmAir
  <1>3. QED
    BY <1>1, <1>2 DEF OnAir

\* A session of the peer begins: the cursor is the one of the payload that comes
\* first, or no data can be heard.
LEMMA PeerRises ==
    ASSUME NEW s \in Stations, NEW p \in Stations, NEW x, Sound(x), NEW y, NEW z, NEW h \in Nat,
           Calm(x), x.air # << >>, Delivering(x, y, h, s, p),
           z.link # NoLink, z.link.remote = s, z.link.rx.recv_base = 0,
           \A f \in OnAir(z.air) : f.type = "Cfm",
           Head(x.air).type \in {"ConnectAck", "Cfm"}
    PROVE  Delivering(x, z, h, s, p)
  <1> DEFINE f == Head(x.air)
  <1>1. f \in OnAir(x.air)
    BY FirstAnswer
  <1>2. Keying(x, p) => h = 0
    <2>1. CASE f.type = "ConnectAck"
      <3>1. x.link = NoLink /\ \A g \in OnAir(x.air) : ~IsData(g)
        BY <1>1, <2>1 DEF Calm, CalmAir
      <3>2. QED
        BY <3>1 DEF Keying, Linked
    <2>2. CASE f.type = "Cfm"
      BY <1>1, <2>2 DEF Delivering
    <2>3. QED
      BY <2>1, <2>2
  <1>3. 0 % SeqMod = 0
    BY ModSmall, Constants
  <1>4. Keying(x, p) => z.link.rx.recv_base = h % SeqMod
    BY <1>2, <1>3
  <1>5. \A g \in OnAir(z.air) : g.type # "Ack"
    OBVIOUS
  <1>6. QED
    BY <1>4, <1>5 DEF Delivering

\* And with the Stranger: none of its frames is for the peer.
LEMMA StrangerRises ==
    ASSUME NEW s \in Stations, NEW p, NEW x, NEW y, NEW z, NEW h \in Nat, Delivering(x, y, h, s, p),
           z.link.remote = Stranger, \A f \in OnAir(z.air) : f.type = "Cfm"
    PROVE  Delivering(x, z, h, s, p)
  <1>1. ~Linked(z, s) /\ \A g \in OnAir(z.air) : g.type # "Ack"
    BY SessionAssumption DEF Linked
  <1>2. QED
    BY <1>1 DEF Delivering

\* The new session itself: nothing sent, nothing given.
LEMMA OwnRises ==
    ASSUME NEW p \in Stations, NEW s \in Stations, NEW x, NEW z,
           SentCount(z) = 0, Confirmed(z) = 0, z.ended = "None",
           \A f \in OnAir(z.air) : f.type = "Cfm",
           Linked(z, s) => /\ x.link # NoLink => x.link.rx.recv_base = 0
                           /\ \A f \in OnAir(x.air) : f.type # "Ack"
    PROVE  Delivering(z, x, 0, p, s) /\ Elsewhere(z, s)
  <1>1. 0 % SeqMod = 0
    BY ModSmall, Constants
  <1>2. \A f \in OnAir(z.air) : ~IsData(f)
    BY DEF IsData
  <1>3. Keying(z, s) /\ Linked(x, p) => x.link.rx.recv_base = 0
    BY <1>2 DEF Keying, Linked
  <1>4. QED
    BY <1>1, <1>2, <1>3 DEF Delivering, Elsewhere

\* Data reaches the cursor once: its repeat is one behind it.
LEMMA DataDelivering ==
    ASSUME NEW s \in Stations, NEW p \in Stations, NEW x, Sound(x), NEW y, Sound(y), NEW z, NEW h \in Nat,
           Calm(x), Calm(y), x.air # << >>, y.air = << >>, Delivering(x, y, h, s, p),
           IsData(Head(x.air)), Head(x.air).dest = p, y.link.remote = s, Advances(y, z, Head(x.air))
    PROVE  LET f == Head(x.air)
               up == RxDelivered(y.link.rx, f.num, f.data, Window)
           IN \/ up = << >> /\ Delivering(x, z, h, s, p)
              \/ up = << h + 1 >> /\ Delivering(x, z, h + 1, s, p) /\ h + 1 <= MaxPayload
  <1> DEFINE f == Head(x.air)
             up == RxDelivered(y.link.rx, f.num, f.data, Window)
  <1>1. f \in OnAir(x.air) /\ f \in AirFrame
    BY FirstAnswer
  <1>2. f.num \in SeqNum /\ f.data \in 0 .. MaxPayload
    BY <1>1 DEF AirFrame
  <1>3. /\ f.sid = x.sid /\ f.data >= 1 /\ f.num = (f.data - 1) % SeqMod
        /\ \A g \in OnAir(x.air) : IsData(g) => g.data = f.data
    BY <1>1 DEF Calm, CalmAir
  <1>4. y.link # NoLink /\ z.link # NoLink /\ z.link.remote = s /\ OnAir(z.air) = {}
        /\ z.link.rx = RxReceive(y.link.rx, f.num, f.data, Window)
    BY NoAir DEF Advances
  <1>5. y.link.rx.recv_base = h % SeqMod
    BY <1>1, <1>4 DEF Delivering, Keying, Linked
  <1>6. y.link.rx.rx_buf = ArqRxNew.rx_buf /\ y.link.rx \in RxType(0 .. MaxPayload)
    BY <1>4, LinkFacts DEF Calm, CalmLink, LinkShape
  <1> DEFINE r == y.link.rx
             D == 0 .. MaxPayload
  <1>7. /\ f.num = r.recv_base =>
              up = << f.data >> /\ RxReceive(r, f.num, f.data, Window).recv_base = WrapAdd(r.recv_base, 1)
        /\ f.num # r.recv_base => up = << >> /\ RxReceive(r, f.num, f.data, Window) = r
    <2>1. r \in RxType(D) /\ r.rx_buf = ArqRxNew.rx_buf /\ f.num \in SeqNum /\ f.data \in D
      BY <1>2, <1>6
    <2> HIDE DEF r, f, D
    <2>2. QED
      BY <2>1, ReceiveOne DEF r
  <1>8. f.data \in {h, h + 1}
    BY <1>1 DEF Delivering
  <1>9. SeqMod \in Nat \ {0} /\ SeqMod >= 4 /\ f.data \in Nat /\ MaxPayload \in Nat
    BY <1>2, Constants
  <1> HIDE DEF f, up, r, D
  <1>10. CASE f.data = h
    <2>1. f.num # h % SeqMod
      <3>1. f.num = (h - 1) % SeqMod /\ h \in Int /\ h - 1 \in Int
        BY <1>3, <1>10
      <3>2. h - (h - 1) < SeqMod /\ (h - 1) - h < SeqMod
        BY <1>9
      <3>3. h # h - 1
        OBVIOUS
      <3>4. QED
        BY <1>9, <3>1, <3>2, <3>3, ModInj
    <2>2. up = << >> /\ z.link.rx = y.link.rx
      BY <1>4, <1>5, <1>7, <2>1 DEF r
    <2>3. Linked(z, s) => Linked(y, s)
      BY <1>4 DEF Linked
    <2>4. Delivering(x, z, h, s, p)
      BY <1>4, <1>5, <2>2 DEF Delivering
    <2>5. QED
      BY <2>2, <2>4 DEF up, f
  <1>11. CASE f.data = h + 1
    <2>1. f.num = h % SeqMod
      BY <1>3, <1>11
    <2>2. up = << h + 1 >> /\ z.link.rx.recv_base = WrapAdd(h % SeqMod, 1)
      BY <1>4, <1>5, <1>7, <1>11, <2>1 DEF r
    <2>3. WrapAdd(h % SeqMod, 1) = (h + 1) % SeqMod
      <3>1. h \in Int /\ 1 \in Int
        OBVIOUS
      <3>2. \A b \in Int : ((h % SeqMod) + b) % SeqMod = (h + b) % SeqMod
        BY <1>9, <3>1, ModAdd
      <3>3. QED
        BY <3>1, <3>2 DEF WrapAdd
    <2>4. Linked(x, p) => Confirmed(x) <= h + 1 /\ h + 1 <= SentCount(x)
      <3>1. SUFFICES ASSUME Linked(x, p) PROVE Confirmed(x) <= h + 1 /\ h + 1 <= SentCount(x)
        OBVIOUS
      <3>2. f.data = SentCount(x)
        BY <1>1, <3>1 DEF Calm, CalmLink, Linked, f
      <3>3. Confirmed(x) <= h /\ Confirmed(x) \in Int
        BY <3>1, Counts DEF Delivering, Linked
      <3>4. QED
        BY <1>11, <3>2, <3>3
    <2>5. \A g \in OnAir(x.air) : IsData(g) => g.data = h + 1
      BY <1>3, <1>11
    <2>6. \A g \in OnAir(x.air) : g.type # "Cfm"
      <3>1. \A g \in OnAir(x.air) : g.type = "Cfm" => g = f
        BY FirstAnswer DEF Answers, f
      <3>2. f.type # "Cfm"
        BY DEF IsData, f
      <3>3. QED
        BY <3>1, <3>2
    <2>7. x.ended = "drained" /\ x.submitted > 0 => h + 1 >= x.submitted
      <3>1. x.submitted \in Nat
        BY Constants DEF Sound, Shape
      <3>2. QED
        BY <3>1 DEF Delivering
    <2>8. Delivering(x, z, h + 1, s, p)
      BY <1>4, <2>2, <2>3, <2>4, <2>5, <2>6, <2>7 DEF Delivering
    <2>9. h + 1 <= MaxPayload
      BY <1>2, <1>9, <1>11
    <2>10. QED
      BY <2>2, <2>8, <2>9 DEF up, f
  <1>12. QED
    BY <1>8, <1>10, <1>11

\* An ACK of all that was sent is keyed when all of it was given.
LEMMA AckDelivering ==
    ASSUME NEW s, NEW p, NEW x, Sound(x), NEW m, Sound(m), NEW y, NEW h \in Nat, NEW f \in OnAir(y.air),
           Calm(x), Delivering(x, y, h, s, p), Settles(x, m, f), x.link.remote = p,
           x.air = << >>, f.type = "Ack", f.dest = s
    PROVE  Delivering(m, y, h, s, p)
  <1>1. x.link # NoLink /\ m.link # NoLink /\ m.link.remote = p /\ Linked(x, p) /\ Linked(m, p)
    BY DEF Settles, Linked
  <1>2. /\ SentCount(x) \in Int /\ Confirmed(x) \in Int /\ SentCount(x) <= Confirmed(x) + 1
        /\ Confirmed(x) <= h /\ h <= SentCount(x)
    BY <1>1, Counts DEF Delivering
  <1>3. SentCount(x) % SeqMod = h % SeqMod
    BY <1>1 DEF Delivering, Settles
  <1>4. SentCount(x) = h
    <2>1. SeqMod \in Nat \ {0} /\ SentCount(x) - h < SeqMod /\ h - SentCount(x) < SeqMod
      BY <1>2, Constants
    <2>2. QED
      <3> DEFINE c == SentCount(x)
      <3>1. c \in Int /\ h \in Int /\ c % SeqMod = h % SeqMod
        BY <1>2, <1>3
      <3> SUFFICES c = h
        OBVIOUS
      <3>2. c - h < SeqMod /\ h - c < SeqMod
        BY <2>1
      <3> HIDE DEF c
      <3>3. QED
        BY <2>1, <3>1, <3>2, ModInj
  <1>5. OnAir(m.air) = {}
    BY NoAir DEF Settles
  <1>6. QED
    BY <1>1, <1>2, <1>4, <1>5 DEF Delivering, Settles, Keying

\* Station p is not keyed and hears the first frame of what s keys.
LEMMA PairHears ==
    ASSUME NEW s \in Stations, NEW p \in Stations, p # s,
           NEW x, Sound(x), NEW y, Sound(y), NEW z, Sound(z), NEW hp \in Handed, NEW hs \in Handed,
           x.sid \in Sids, y.sid + Opening(y) <= MaxCalls,
           Calm(x), Calm(y), Closing(y), x.air # << >>, y.air = << >>,
           Pair(x, y, hp, s, p), Pair(y, x, hs, p, s), NEW up, Receives(p, y, z, up, s, Head(x.air))
    PROVE  LET f == Head(x.air)
               hq == IF up = << >> THEN hp ELSE [hp EXCEPT ![f.sid] = @ \o up]
           IN /\ Calm(z) /\ Closing(z) /\ hq \in Handed /\ Pair(x, z, hq, s, p) /\ Pair(z, x, hs, p, s)
              /\ z.sid + Opening(z) <= y.sid + Opening(y) + (IF f.type = "Req" THEN 1 ELSE 0)
              /\ Reqs(z.air) <= Reqs(y.air)
  <1> DEFINE f == Head(x.air)
             hq == IF up = << >> THEN hp ELSE [hp EXCEPT ![f.sid] = @ \o up]
             Good == /\ Calm(z) /\ Closing(z) /\ hq \in Handed /\ Pair(x, z, hq, s, p) /\ Pair(z, x, hs, p, s)
                     /\ z.sid + Opening(z) <= y.sid + Opening(y) + (IF f.type = "Req" THEN 1 ELSE 0)
                     /\ Reqs(z.air) <= Reqs(y.air)
  <1>1. SUFFICES Good
    OBVIOUS
  <1>2. f \in OnAir(x.air) /\ f \in AirFrame /\ (\A g \in OnAir(x.air) : g.type \in Answers => g = f)
    BY FirstAnswer
  <1>3. /\ x \in Shape /\ y \in Shape /\ z \in Shape /\ x.sid \in Nat /\ y.sid \in Nat /\ z.sid \in Nat
        /\ Opening(x) \in {0, 1} /\ Opening(y) \in {0, 1} /\ Opening(z) \in {0, 1} /\ MaxCalls \in Nat
    BY SessionAssumption DEF Sound, Shape, Opening
  <1>4. y.sid \in Sids
    BY <1>3 DEF Sids
  <1>5. Sends(x, x) /\ Hears(x, x)
    <2>1. Moves(x, x)
      BY StillMoves
    <2>2. QED
      BY <2>1 DEF Moves, Acts
  <1>6. ASSUME up = << >>, NEW m, Sound(m), Sends(y, m), Hears(y, m)
        PROVE  Pair(x, m, hq, s, p) /\ Pair(m, x, hs, p, s) /\ hq \in Handed
    BY <1>4, <1>5, <1>6, PairMoves
  <1>7. CASE up = << >> /\ Moves(y, z)
    <2>1. Calm(z) /\ Acts(y, z) /\ Closing(z)
      BY <1>7 DEF Moves
    <2>2. z.sid = y.sid
      BY <2>1 DEF Acts, Sends
    <2>3. QED
      BY <1>3, <1>6, <1>7, <2>1, <2>2 DEF Acts
  <1>8. CASE f.type = "Req" /\ up = << >> /\ Answered(y, z)
    <2>1. /\ Calm(z) /\ Sends(y, z) /\ Hears(y, z) /\ Closing(z)
          /\ Opening(z) <= Opening(y) + 1 /\ Reqs(z.air) <= Reqs(y.air)
      BY <1>8 DEF Answered
    <2>2. z.sid = y.sid
      BY <2>1 DEF Sends
    <2>3. QED
      BY <1>3, <1>6, <1>8, <2>1, <2>2
  <1>9. CASE f.dest = p /\ f.type \in {"ConnectAck", "Cfm"} /\ up = << >> /\ Begins(y, z, s)
    <2>1. /\ Calm(z) /\ Closing(z)
          /\ z.sid = y.sid + 1 /\ z.submitted = 0 /\ z.ended = "None"
          /\ z.link # NoLink /\ z.link.remote = s /\ z.link.rx.recv_base = 0
          /\ SentCount(z) = 0 /\ Confirmed(z) = 0
          /\ \A g \in OnAir(z.air) : g.type = "Cfm"
          /\ Opening(z) + 1 <= Opening(y) /\ Reqs(z.air) <= Reqs(y.air)
      BY <1>9 DEF Begins
    <2>2. x.sid >= 1 => Len(hp[x.sid]) \in Nat
      BY <1>3 DEF Handed
    <2>3. x.sid >= 1 => Delivering(x, z, Len(hp[x.sid]), s, p)
      BY <1>9, <2>1, <2>2, PeerRises DEF Pair
    <2>4. Pair(x, z, hp, s, p)
      BY <2>3 DEF Pair
    <2>5. z.sid \in Sids \ {0} /\ z.sid > y.sid
      BY <1>3, <2>1 DEF Sids
    <2>6. hs[z.sid] = << >> /\ Len(hs[z.sid]) = 0
      BY <2>5 DEF Pair, InOrder
    <2>7. x.link # NoLink => x.link.rx.recv_base = 0
      BY <1>2, <1>9 DEF Calm, CalmAir
    <2>8. \A g \in OnAir(x.air) : g.type # "Ack"
      BY <1>2, <1>9 DEF Answers
    <2>9. Delivering(z, x, 0, p, s) /\ Elsewhere(z, s)
      BY <2>1, <2>7, <2>8, OwnRises
    <2>10. InOrder(z, hs)
      BY <1>3, <2>1 DEF Pair, InOrder, Sids
    <2>11. Pair(z, x, hs, p, s)
      BY <2>6, <2>9, <2>10 DEF Pair
    <2>12. QED
      BY <1>3, <1>9, <2>1, <2>4, <2>11
  <1>10. CASE f.dest = p /\ IsData(f) /\ Takes(y, z, up, s, f)
    <2>1. CASE up = << >> /\ Moves(y, z)
      BY <1>7, <2>1
    <2>2. CASE /\ y.link # NoLink /\ y.link.remote = s
               /\ up = RxDelivered(y.link.rx, f.num, f.data, Window)
               /\ \E m : Sound(m) /\ Calm(m) /\ Closing(m) /\ Advances(y, m, f) /\ Moves(m, z)
      <3>1. PICK m : Sound(m) /\ Calm(m) /\ Closing(m) /\ Advances(y, m, f) /\ Moves(m, z)
        BY <2>2
      <3>2. Calm(z) /\ Closing(z) /\ Acts(m, z)
        BY <3>1 DEF Moves
      <3>3. f.sid = x.sid /\ x.sid >= 1 /\ x.sid \in Sids \ {0}
        BY <1>2, <1>3, <1>10 DEF Calm, CalmAir
      <3> DEFINE h == Len(hp[x.sid])
      <3>4. h \in Nat /\ hp[x.sid] \in Seq(1 .. MaxPayload) /\ Delivering(x, y, h, s, p)
        BY <3>3 DEF Handed, Pair
      <3> HIDE DEF h
      <3>5. \/ up = << >> /\ Delivering(x, m, h, s, p)
            \/ up = << h + 1 >> /\ Delivering(x, m, h + 1, s, p) /\ h + 1 <= MaxPayload
        BY <1>10, <2>2, <3>1, <3>4, DataDelivering
      <3>6. hq \in Handed /\ Len(hq[x.sid]) \in Nat /\ Delivering(x, m, Len(hq[x.sid]), s, p) /\ InOrder(x, hq)
        <4>1. CASE up = << >> /\ Delivering(x, m, h, s, p)
          BY <3>4, <4>1 DEF Pair, h
        <4>2. CASE up = << h + 1 >> /\ Delivering(x, m, h + 1, s, p) /\ h + 1 <= MaxPayload
          <5>9. << h + 1 >> # << >>
            <6>1. Len(<< h + 1 >>) = 1 /\ Len(<< >>) = 0
              OBVIOUS
            <6>2. QED
              BY <6>1
          <5>10. h + 1 \in 1 .. MaxPayload
            BY <3>4, <4>2, Constants
          <5>1. hq = [hp EXCEPT ![x.sid] = @ \o << h + 1 >>] /\ h + 1 \in 1 .. MaxPayload
            BY <3>3, <4>2, <5>9, <5>10
          <5> DEFINE q == hp[x.sid] \o << h + 1 >>
          <5>2. q \in Seq(1 .. MaxPayload) /\ Len(q) = h + 1 /\ q[h + 1] = h + 1
                /\ \A i \in 1 .. h : q[i] = hp[x.sid][i]
            BY <3>4, <5>1 DEF h
          <5>3. \A n \in Sids \ {0} : hq[n] = IF n = x.sid THEN q ELSE hp[n]
            BY <5>1 DEF Handed
          <5>4. hq \in Handed
            BY <3>3, <5>1, <5>2 DEF Handed
          <5> HIDE DEF q, hq
          <5>5. DOMAIN q = 1 .. h + 1 /\ DOMAIN hp[x.sid] = 1 .. h
            BY <3>4, <5>2 DEF h
          <5>6. \A i \in DOMAIN q : q[i] = i
            <6>1. \A i \in 1 .. h : hp[x.sid][i] = i
              BY <3>3, <5>5 DEF Pair, InOrder
            <6>2. QED
              BY <3>4, <5>2, <5>5, <6>1
          <5>7. InOrder(x, hq)
            BY <1>3, <3>3, <5>3, <5>6 DEF Pair, InOrder
          <5>8. QED
            BY <3>3, <3>4, <4>2, <5>2, <5>3, <5>4, <5>7
        <4>3. QED
          BY <3>5, <4>1, <4>2
      <3>7. Pair(x, m, hq, s, p)
        BY <3>6 DEF Pair
      <3>8. Pair(x, z, hq, s, p)
        BY <1>5, <3>2, <3>6, <3>7, PairMoves DEF Acts
      <3>9. Pair(m, x, hs, p, s)
        BY <1>4, <1>5, <3>1, PairMoves DEF Advances
      <3>10. m.sid = y.sid /\ z.sid = m.sid
        BY <3>1, <3>2 DEF Advances, Acts, Sends
      <3>11. Pair(z, x, hs, p, s)
        BY <1>4, <1>5, <3>1, <3>2, <3>9, <3>10, PairMoves DEF Acts
      <3>12. Opening(z) <= Opening(m) /\ Opening(m) <= Opening(y) /\ Opening(m) \in {0, 1}
             /\ Reqs(z.air) <= Reqs(y.air)
        BY <3>1, <3>2 DEF Advances, Acts, Opening
      <3>13. QED
        BY <1>3, <3>2, <3>6, <3>8, <3>10, <3>11, <3>12
    <2>3. QED
      BY <1>10, <2>1, <2>2 DEF Takes
  <1>11. CASE f.dest = p /\ f.type = "Ack" /\ up = << >> /\ Paces(y, z, s, f)
    <2>1. CASE Moves(y, z)
      BY <1>7, <1>11, <2>1
    <2>2. CASE /\ y.link # NoLink /\ y.link.remote = s
               /\ \E m : Sound(m) /\ Calm(m) /\ Closing(m) /\ Settles(y, m, f) /\ Moves(m, z)
      <3>1. PICK m : Sound(m) /\ Calm(m) /\ Closing(m) /\ Settles(y, m, f) /\ Moves(m, z)
        BY <2>2
      <3>2. Calm(z) /\ Closing(z) /\ Acts(m, z)
        BY <3>1 DEF Moves
      <3>3. Hears(y, m) /\ m.sid = y.sid /\ m.link # NoLink /\ m.link.remote = s
        BY <2>2, <3>1 DEF Settles, Hears
      <3>4. x.sid >= 1 => Len(hp[x.sid]) \in Nat
        BY <1>3 DEF Handed
      <3>5. Pair(x, m, hp, s, p)
        BY <3>3, <3>4, HearsDelivering DEF Pair
      <3>6. y.sid >= 1 => Len(hs[y.sid]) \in Nat
        BY <1>3, <1>4 DEF Handed
      <3>7. y.sid >= 1 => Delivering(m, x, Len(hs[y.sid]), p, s)
        BY <1>2, <1>11, <2>2, <3>1, <3>6, AckDelivering DEF Pair
      <3>8. Pair(m, x, hs, p, s)
        BY <3>3, <3>7 DEF Pair, Elsewhere, InOrder
      <3>9. z.sid = m.sid
        BY <3>2 DEF Acts, Sends
      <3>10. Pair(x, z, hp, s, p)
        BY <1>5, <3>2, <3>5, PairMoves DEF Acts
      <3>11. Pair(z, x, hs, p, s)
        BY <1>4, <1>5, <3>1, <3>2, <3>3, <3>8, PairMoves DEF Acts
      <3>12. Opening(z) <= Opening(m) /\ Opening(m) <= Opening(y) /\ Opening(m) \in {0, 1}
             /\ Reqs(z.air) <= Reqs(y.air)
        BY <3>1, <3>2 DEF Settles, Acts, Opening
      <3>13. QED
        BY <1>3, <1>11, <3>2, <3>3, <3>9, <3>10, <3>11, <3>12
    <2>3. QED
      BY <1>11, <2>1, <2>2 DEF Paces
  <1>12. QED
    BY <1>7, <1>8, <1>9, <1>10, <1>11 DEF Receives

\* Each of the two stations is the other's other.
LEMMA TwoStations ==
    ASSUME NEW s \in Stations
    PROVE  /\ Other(s) \in Stations /\ Other(s) # s /\ Other(Other(s)) = s
           /\ \A t \in Stations : t = s \/ t = Other(s)
  <1>1. \E p : Stations \ {s} = {p}
    <2>1. IsFiniteSet(Stations \ {s}) /\ Cardinality(Stations \ {s}) = 1
      BY FS_RemoveElement, SessionAssumption
    <2>2. QED
      BY <2>1, FS_Singleton
  <1>2. Other(s) \in Stations /\ Other(s) # s /\ Other(Other(s)) \in Stations /\ Other(Other(s)) # Other(s)
    BY OtherStation
  <1>3. QED
    BY <1>1, <1>2

Both ==
    /\ \A s \in Stations : Calm(station[s]) /\ Closing(station[s])
    /\ handed \in [Stations -> Handed] /\ calls \in 0 .. MaxCalls
    /\ \A s \in Stations : Pair(station[s], station[Other(s)], handed[Other(s)], s, Other(s))
    \* A session was an attempt, and an attempt a call.
    /\ \A s \in Stations : station[s].sid + Opening(station[s]) + Reqs(station[Other(s)].air) <= calls

\* The numbers of the invariant, for one station.
LEMMA OfBoth ==
    ASSUME SessionInv, Both, NEW s \in Stations
    PROVE  LET x == station[s]
           IN /\ x \in Shape /\ Sound(x) /\ Calm(x) /\ Closing(x) /\ handed[s] \in Handed
              /\ x.sid \in Nat /\ Opening(x) \in {0, 1} /\ Reqs(x.air) \in Nat
              /\ x.sid \in Sids /\ x.sid + Opening(x) <= MaxCalls
              /\ calls \in Nat /\ MaxCalls \in Nat
  <1> DEFINE x == station[s]
  <1>1. x \in Shape /\ Sound(x) /\ Calm(x) /\ Closing(x) /\ handed[s] \in Handed
    BY OfStation DEF Both
  <1>2. x.sid \in Nat /\ Opening(x) \in {0, 1} /\ Reqs(x.air) \in Nat
    BY <1>1, ReqsCount DEF Shape, Opening
  <1>3. Reqs(station[Other(s)].air) \in Nat
    BY OtherStation, OfStation, ReqsCount DEF Shape
  <1>4. calls \in Nat /\ MaxCalls \in Nat /\ calls <= MaxCalls
    BY SessionAssumption DEF Both
  <1>5. x.sid + Opening(x) + Reqs(station[Other(s)].air) <= calls
    BY DEF Both
  <1> HIDE DEF x
  <1>6. x.sid + Opening(x) <= MaxCalls /\ x.sid \in Sids
    BY <1>2, <1>3, <1>4, <1>5 DEF Sids
  <1>7. QED
    BY <1>1, <1>2, <1>4, <1>6 DEF x

\* Steps that hand nothing up and begin no session.
LEMMA BothMoves ==
    ASSUME SessionInv, Both, StepAll, handed' = handed, calls' \in 0 .. MaxCalls,
           \A s \in Stations : /\ Calm(station'[s]) /\ Closing(station'[s])
                               /\ Sends(station[s], station'[s]) /\ Hears(station[s], station'[s]),
           \A s \in Stations : Opening(station'[s]) + Reqs(station'[Other(s)].air) + calls
                                 <= Opening(station[s]) + Reqs(station[Other(s)].air) + calls'
    PROVE  Both'
  <1>1. \A s \in Stations : Sound(station'[s]) /\ station'[s] \in Shape
    BY DEF StepAll, Step
  <1>2. ASSUME NEW s \in Stations
        PROVE  /\ Pair(station'[s], station'[Other(s)], handed'[Other(s)], s, Other(s))
               /\ station'[s].sid + Opening(station'[s]) + Reqs(station'[Other(s)].air) <= calls'
    <2> DEFINE p == Other(s)
    <2>1. p \in Stations
      BY OtherStation
    <2>2. /\ Sound(station[s]) /\ Sound(station'[s]) /\ handed[p] \in Handed /\ station[s].sid \in Sids
          /\ Sends(station[s], station'[s]) /\ Hears(station[p], station'[p])
          /\ Pair(station[s], station[p], handed[p], s, p)
      BY <1>1, <2>1, OfBoth DEF Both
    <2>3. Pair(station'[s], station'[p], handed'[p], s, p)
      BY <2>2, PairMoves
    <2>4. station'[s].sid = station[s].sid
      BY DEF Sends
    <2>5. /\ station[s].sid \in Nat /\ Opening(station[s]) \in Nat /\ Reqs(station[p].air) \in Nat
          /\ Opening(station'[s]) \in Nat /\ Reqs(station'[p].air) \in Nat /\ calls \in Nat /\ calls' \in Nat
      BY <1>1, <2>1, OfBoth, ReqsCount DEF Shape, Opening
    <2>6. station[s].sid + Opening(station[s]) + Reqs(station[p].air) <= calls
      BY DEF Both
    <2>7. Opening(station'[s]) + Reqs(station'[p].air) + calls
            <= Opening(station[s]) + Reqs(station[p].air) + calls'
      OBVIOUS
    <2> HIDE DEF p
    <2>8. station'[s].sid + Opening(station'[s]) + Reqs(station'[p].air) <= calls'
      BY <2>4, <2>5, <2>6, <2>7
    <2>9. QED
      BY <2>3, <2>8 DEF p
  <1>3. QED
    BY <1>2 DEF Both

\* Both stations move, or one of them.
LEMMA AllMove ==
    ASSUME SessionInv, Both, StepAll, MovesAll, handed' = handed, calls' \in 0 .. MaxCalls, calls <= calls'
    PROVE  Both'
  <1>1. \A s \in Stations : Sound(station'[s]) /\ station'[s] \in Shape
    BY DEF StepAll, Step
  <1>2. ASSUME NEW s \in Stations
        PROVE  /\ Calm(station'[s]) /\ Closing(station'[s])
               /\ Sends(station[s], station'[s]) /\ Hears(station[s], station'[s])
               /\ Opening(station'[s]) <= Opening(station[s]) /\ Reqs(station'[s].air) <= Reqs(station[s].air)
    BY DEF MovesAll, Moves, Acts, Both
  <1>3. ASSUME NEW s \in Stations
        PROVE  Opening(station'[s]) + Reqs(station'[Other(s)].air) + calls
                 <= Opening(station[s]) + Reqs(station[Other(s)].air) + calls'
    <2>1. Other(s) \in Stations
      BY OtherStation
    <2> DEFINE p == Other(s)
    <2>2. /\ Opening(station[s]) \in Nat /\ Reqs(station[p].air) \in Nat
          /\ Opening(station'[s]) \in Nat /\ Reqs(station'[p].air) \in Nat /\ calls \in Nat /\ calls' \in Nat
      BY <1>1, <2>1, OfBoth, ReqsCount DEF Shape, Opening
    <2>3. Opening(station'[s]) <= Opening(station[s]) /\ Reqs(station'[p].air) <= Reqs(station[p].air)
      BY <1>2, <2>1
    <2> HIDE DEF p
    <2>4. QED
      BY <2>2, <2>3 DEF p
  <1>4. QED
    BY <1>2, <1>3, BothMoves

\* What is left to show when the two records are known.
LEMMA BothOf ==
    ASSUME SessionInv, Both, NEW s \in Stations, NEW p, p = Other(s), NEW v, NEW w, NEW hp \in Handed,
           station' = [station EXCEPT ![s] = v, ![p] = w], handed' = [handed EXCEPT ![p] = hp],
           calls' \in 0 .. MaxCalls, Calm(v), Closing(v), Calm(w), Closing(w),
           Pair(v, w, hp, s, p), Pair(w, v, handed[s], p, s),
           v.sid + Opening(v) + Reqs(w.air) <= calls', w.sid + Opening(w) + Reqs(v.air) <= calls'
    PROVE  Both'
  <1>1. p \in Stations /\ p # s /\ Other(p) = s /\ \A t \in Stations : t = s \/ t = p
    BY TwoStations
  <1>2. station'[s] = v /\ station'[p] = w
    BY <1>1 DEF SessionInv
  <1>3. handed'[p] = hp /\ handed'[s] = handed[s] /\ handed' \in [Stations -> Handed]
    BY <1>1 DEF Both
  <1>4. ASSUME NEW t \in Stations
        PROVE  /\ Calm(station'[t]) /\ Closing(station'[t])
               /\ Pair(station'[t], station'[Other(t)], handed'[Other(t)], t, Other(t))
               /\ station'[t].sid + Opening(station'[t]) + Reqs(station'[Other(t)].air) <= calls'
    <2>1. CASE t = s
      BY <1>2, <1>3, <2>1
    <2>2. CASE t = p
      BY <1>1, <1>2, <1>3, <2>2
    <2>3. QED
      BY <1>1, <2>1, <2>2
  <1>5. QED
    BY <1>3, <1>4 DEF Both

\* The two numbers of the invariant, by name.
LEMMA Budgets ==
    ASSUME SessionInv, Both, NEW s \in Stations, NEW p, p = Other(s)
    PROVE  /\ p \in Stations /\ p # s /\ Other(p) = s /\ calls \in Nat
           /\ Pair(station[s], station[p], handed[p], s, p) /\ Pair(station[p], station[s], handed[s], p, s)
           /\ station[s].sid + Opening(station[s]) + Reqs(station[p].air) <= calls
           /\ station[p].sid + Opening(station[p]) + Reqs(station[s].air) <= calls
           /\ handed = [handed EXCEPT ![p] = handed[p]]
  <1>1. p \in Stations /\ p # s /\ Other(p) = s
    BY TwoStations
  <1>2. calls \in Nat /\ handed = [handed EXCEPT ![p] = handed[p]]
    BY <1>1, OfBoth DEF Both
  <1>3. QED
    BY <1>1, <1>2 DEF Both

\* A host dials.
LEMMA DialBoth ==
    ASSUME SessionInv, Both, NEW s \in Stations, Dial(s)
    PROVE  Both'
  <1> DEFINE p == Other(s)
  <1>1. PICK y : Asks(station[s], y) /\ station' = [station EXCEPT ![s] = y] /\ Step(station[s], y)
    BY DialStep
  <1>2. calls < MaxCalls /\ calls' = calls + 1 /\ handed' = handed
    BY DEF Dial
  <1> DEFINE x == station[s]
             z == station[p]
  <1>3. /\ p \in Stations /\ p # s /\ Other(p) = s /\ calls \in Nat
        /\ Pair(x, z, handed[p], s, p) /\ Pair(z, x, handed[s], p, s)
        /\ x.sid + Opening(x) + Reqs(z.air) <= calls
        /\ z.sid + Opening(z) + Reqs(x.air) <= calls
        /\ handed = [handed EXCEPT ![p] = handed[p]]
    BY Budgets
  <1>4. station' = [station EXCEPT ![s] = y, ![p] = z]
    BY <1>1, <1>3 DEF SessionInv
  <1>5. /\ Sound(x) /\ Calm(x) /\ Closing(x) /\ handed[s] \in Handed /\ x.sid \in Sids
        /\ x.sid \in Nat /\ Opening(x) \in {0, 1} /\ Reqs(x.air) \in Nat /\ MaxCalls \in Nat
    BY OfBoth
  <1>6. /\ Sound(z) /\ Calm(z) /\ Closing(z) /\ handed[p] \in Handed /\ z.sid \in Sids
        /\ z.sid \in Nat /\ Opening(z) \in {0, 1} /\ Reqs(z.air) \in Nat
    BY <1>3, OfBoth
  <1>7. Sends(z, z) /\ Hears(z, z)
    BY <1>6, StillMoves DEF Moves, Acts
  <1>8. /\ Calm(y) /\ Sends(x, y) /\ Hears(x, y) /\ Closing(y) /\ Sound(y)
        /\ Opening(y) <= Opening(x) + 1 /\ Reqs(y.air) <= Reqs(x.air) + 1
    BY <1>1, <1>5 DEF Asks, Step
  <1>9. y.sid = x.sid /\ Opening(y) \in {0, 1} /\ Reqs(y.air) \in Nat
    BY <1>8, ReqsCount DEF Sends, Opening, Sound, Shape
  <1> HIDE DEF p, x, z
  <1>10. Pair(y, z, handed[p], s, p) /\ Pair(z, y, handed[s], p, s)
    BY <1>3, <1>5, <1>6, <1>7, <1>8, PairMoves
  <1>11. calls' \in 0 .. MaxCalls
    BY <1>2, <1>3, <1>5
  <1>12. /\ y.sid + Opening(y) + Reqs(z.air) <= calls'
         /\ z.sid + Opening(z) + Reqs(y.air) <= calls'
    BY <1>2, <1>3, <1>5, <1>6, <1>8, <1>9
  <1>13. handed' = [handed EXCEPT ![p] = handed[p]]
    BY <1>2, <1>3
  <1>14. QED
    BY <1>4, <1>6, <1>8, <1>10, <1>11, <1>12, <1>13, BothOf DEF p

\* A third station is heard.
LEMMA ForeignBoth ==
    ASSUME SessionInv, Both, NEW s \in Stations, NEW type \in {"Req", "Cfm", "Disconnect"},
           NEW well \in BOOLEAN, ForeignFrame(s, type, well)
    PROVE  Both'
  <1> DEFINE p == Other(s)
             f == [type |-> type, dest |-> s, sid |-> 0, num |-> 0, data |-> 0]
             x == station[s]
             z == station[p]
             y == HandleMacPdu(s, station[s], Stranger, f, well, FALSE, FALSE)
             up == HandedUp(s, station[s], Stranger, f, well)
  <1>1. /\ station' = [station EXCEPT ![s] = y] /\ calls < MaxCalls /\ calls' = calls + 1
        /\ handed' = handed /\ x.air = << >>
    BY DEF ForeignFrame, Update, Transmitting
  <1>2. /\ p \in Stations /\ p # s /\ Other(p) = s /\ calls \in Nat
        /\ Pair(x, z, handed[p], s, p) /\ Pair(z, x, handed[s], p, s)
        /\ x.sid + Opening(x) + Reqs(z.air) <= calls
        /\ z.sid + Opening(z) + Reqs(x.air) <= calls
        /\ handed = [handed EXCEPT ![p] = handed[p]]
    BY Budgets
  <1>3. Step(x, y) /\ Receives(s, x, y, up, Stranger, f)
    <2>1. f \in AirFrame /\ Stranger \in Parties
      BY Constants DEF AirFrame, FrameTypes, Parties
    <2>2. FALSE \in BOOLEAN
      OBVIOUS
    <2> HIDE DEF f
    <2>3. QED
      BY <2>1, <2>2, OfStation, MacPduStep
  <1>4. ~IsData(f) /\ f.type \in {"Req", "Cfm", "Disconnect"}
    BY DEF IsData
  <1> HIDE DEF y, up, f
  <1>5. station' = [station EXCEPT ![s] = y, ![p] = z]
    BY <1>1, <1>2 DEF SessionInv
  <1>6. /\ Sound(x) /\ Calm(x) /\ Closing(x) /\ handed[s] \in Handed /\ x.sid \in Sids
        /\ x.sid \in Nat /\ Opening(x) \in {0, 1} /\ Reqs(x.air) \in Nat /\ MaxCalls \in Nat
        /\ x.sid + Opening(x) <= MaxCalls
    BY OfBoth
  <1>7. /\ Sound(z) /\ Calm(z) /\ Closing(z) /\ handed[p] \in Handed /\ z.sid \in Sids
        /\ z.sid \in Nat /\ Opening(z) \in {0, 1} /\ Reqs(z.air) \in Nat
    BY <1>2, OfBoth
  <1>8. Sends(z, z) /\ Hears(z, z)
    BY <1>7, StillMoves DEF Moves, Acts
  <1>9. Sound(y)
    BY <1>3 DEF Step
  <1>10. y.sid \in Nat /\ Opening(y) \in {0, 1} /\ Reqs(y.air) \in Nat
    BY <1>9, ReqsCount DEF Opening, Sound, Shape
  <1>11. calls' \in 0 .. MaxCalls
    BY <1>1, <1>2, <1>6
  <1> DEFINE Good == /\ Calm(y) /\ Closing(y)
                     /\ Pair(y, z, handed[p], s, p) /\ Pair(z, y, handed[s], p, s)
                     /\ y.sid + Opening(y) <= x.sid + Opening(x) + 1 /\ Reqs(y.air) <= Reqs(x.air)
  <1> HIDE DEF p, x, z
  <1>12. ASSUME Sends(x, y), Hears(x, y)
         PROVE  y.sid = x.sid /\ Pair(y, z, handed[p], s, p) /\ Pair(z, y, handed[s], p, s)
    <2>1. y.sid = x.sid
      BY <1>12 DEF Sends
    <2>2. QED
      BY <1>2, <1>6, <1>7, <1>8, <1>9, <1>12, <2>1, PairMoves
  <1>13. ASSUME Moves(x, y) PROVE Good
    <2>1. Calm(y) /\ Closing(y) /\ Acts(x, y)
      BY <1>6, <1>13 DEF Moves
    <2>2. Opening(y) <= Opening(x) /\ Reqs(y.air) <= Reqs(x.air) /\ Sends(x, y) /\ Hears(x, y)
      BY <2>1 DEF Acts
    <2>3. y.sid + Opening(y) <= x.sid + Opening(x) + 1
      BY <1>6, <1>10, <1>12, <2>2
    <2>4. Good
      BY <1>12, <2>1, <2>2, <2>3
    <2>5. QED
      BY <2>4
  <1>14. ASSUME Answered(x, y) PROVE Good
    <2>1. /\ Calm(y) /\ Closing(y) /\ Sends(x, y) /\ Hears(x, y)
          /\ Opening(y) <= Opening(x) + 1 /\ Reqs(y.air) <= Reqs(x.air)
      BY <1>1, <1>6, <1>14 DEF Answered, x
    <2>2. y.sid + Opening(y) <= x.sid + Opening(x) + 1
      BY <1>6, <1>10, <1>12, <2>1
    <2>3. QED
      BY <1>12, <2>1, <2>2
  <1>15. ASSUME Begins(x, y, Stranger) PROVE Good
    <2>1. /\ Calm(y) /\ Closing(y)
          /\ y.sid = x.sid + 1 /\ y.submitted = 0 /\ y.ended = "None"
          /\ y.link # NoLink /\ y.link.remote = Stranger /\ y.link.rx.recv_base = 0
          /\ SentCount(y) = 0 /\ Confirmed(y) = 0
          /\ \A g \in OnAir(y.air) : g.type = "Cfm"
          /\ Opening(y) + 1 <= Opening(x) /\ Reqs(y.air) <= Reqs(x.air)
      BY <1>1, <1>6, <1>15 DEF Begins, x
    <2>2. z.sid >= 1 => Len(handed[s][z.sid]) \in Nat
      BY <1>6, <1>7 DEF Handed
    <2>3. z.sid >= 1 => Delivering(z, y, Len(handed[s][z.sid]), p, s)
      BY <1>2, <2>1, <2>2, StrangerRises DEF Pair
    <2>4. Pair(z, y, handed[s], p, s)
      BY <1>2, <2>3 DEF Pair
    <2>5. y.sid \in Sids \ {0} /\ y.sid > x.sid
      BY <1>6, <1>10, <2>1 DEF Sids
    <2>6. handed[p][y.sid] = << >> /\ Len(handed[p][y.sid]) = 0
      BY <1>2, <2>5 DEF Pair, InOrder
    <2>7. ~Linked(y, p)
      BY <1>2, <2>1, SessionAssumption DEF Linked
    <2>8. Delivering(y, z, 0, s, p) /\ Elsewhere(y, p)
      BY <1>2, <2>1, <2>7, OwnRises
    <2>9. InOrder(y, handed[p])
      BY <1>2, <1>6, <2>1 DEF Pair, InOrder, Sids
    <2>10. Pair(y, z, handed[p], s, p)
      BY <2>6, <2>8, <2>9 DEF Pair
    <2>11. y.sid + Opening(y) <= x.sid + Opening(x) + 1
      BY <1>6, <1>10, <2>1
    <2>12. QED
      BY <2>1, <2>4, <2>10, <2>11
  <1>16. Good
    BY <1>3, <1>4, <1>13, <1>14, <1>15 DEF Receives
  <1>17. y.sid + Opening(y) + Reqs(z.air) <= calls' /\ z.sid + Opening(z) + Reqs(y.air) <= calls'
    <2>1. /\ calls' = calls + 1 /\ y.sid + Opening(y) <= x.sid + Opening(x) + 1 /\ Reqs(y.air) <= Reqs(x.air)
          /\ x.sid + Opening(x) + Reqs(z.air) <= calls /\ z.sid + Opening(z) + Reqs(x.air) <= calls
          /\ calls \in Nat
      BY <1>1, <1>2, <1>16
    <2>2. QED
      BY <1>6, <1>7, <1>10, <2>1
  <1>18. handed' = [handed EXCEPT ![p] = handed[p]]
    BY <1>1, <1>2
  <1>19. QED
    BY <1>5, <1>7, <1>11, <1>16, <1>17, <1>18, BothOf DEF p

\* A frame is heard by the peer.
LEMMA DeliverBoth ==
    ASSUME SessionInv, Both, NEW s \in Stations,
           NEW well \in BOOLEAN, NEW plain \in BOOLEAN, NEW refuse \in BOOLEAN, Deliver(s, well, plain, refuse)
    PROVE  Both'
  <1> DEFINE p == Other(s)
             f == Head(station[s].air)
             x == station[s]
             y == station[p]
             v == Played(x, plain, refuse)
             w == HandleMacPdu(p, y, s, f, well, plain, refuse)
             up == HandedUp(p, y, s, f, well)
             hp == handed[p]
             hq == IF up = << >> THEN hp ELSE [hp EXCEPT ![f.sid] = @ \o up]
             asked == IF f.type = "Req" THEN 1 ELSE 0
  <1> HIDE DEF v, w, up, hq
  <1>1. /\ p \in Stations /\ p # s /\ Other(p) = s /\ calls \in Nat
        /\ Pair(x, y, handed[p], s, p) /\ Pair(y, x, handed[s], p, s)
        /\ x.sid + Opening(x) + Reqs(y.air) <= calls
        /\ y.sid + Opening(y) + Reqs(x.air) <= calls
        /\ handed = [handed EXCEPT ![p] = handed[p]]
    BY Budgets
  <1>2. /\ Transmitting(x) /\ x.air # << >> /\ y.air = << >> /\ calls' = calls
        /\ handed' = IF up = << >> THEN handed ELSE [handed EXCEPT ![p][f.sid] = @ \o up]
    BY DEF Deliver, Transmitting, up
  <1>3. station' = [station EXCEPT ![s] = v, ![p] = w]
    BY <1>1 DEF Deliver, SessionInv, v, w
  <1>4. /\ Sound(x) /\ Calm(x) /\ Closing(x) /\ handed[s] \in Handed /\ x.sid \in Sids
        /\ x.sid \in Nat /\ Opening(x) \in {0, 1} /\ Reqs(x.air) \in Nat /\ MaxCalls \in Nat
    BY OfBoth
  <1>5. /\ Sound(y) /\ Unparked(y) /\ Calm(y) /\ Closing(y) /\ handed[p] \in Handed /\ y.sid \in Sids
        /\ y.sid \in Nat /\ Opening(y) \in {0, 1} /\ Reqs(y.air) \in Nat /\ y.sid + Opening(y) <= MaxCalls
    BY <1>1, OfBoth, OfStation
  <1>6. f \in AirFrame
    BY <1>2, <1>4, FirstAnswer
  <1>7. Step(y, w) /\ Receives(p, y, w, up, s, f)
    <2>1. s \in Parties
      BY DEF Parties
    <2> HIDE DEF f, p, y
    <2>2. QED
      BY <1>1, <1>5, <1>6, <2>1, MacPduStep DEF w, up
  <1>8. Step(x, v) /\ Moves(x, v) /\ Reqs(v.air) + asked <= Reqs(x.air)
    BY <1>2, <1>4, PlayedStep DEF v
  <1>9. Sound(v) /\ Sound(w)
    BY <1>7, <1>8, Zenon DEF Step
  <1>10. /\ Calm(w) /\ Closing(w) /\ hq \in Handed /\ Pair(x, w, hq, s, p) /\ Pair(w, x, handed[s], p, s)
         /\ w.sid + Opening(w) <= y.sid + Opening(y) + asked /\ Reqs(w.air) <= Reqs(y.air)
    <2> DEFINE hs == handed[s]
    <2>1. hp \in Handed /\ hs \in Handed /\ Pair(x, y, hp, s, p) /\ Pair(y, x, hs, p, s)
      BY <1>1, <1>4, <1>5
    <2> SUFFICES /\ Calm(w) /\ Closing(w) /\ hq \in Handed /\ Pair(x, w, hq, s, p) /\ Pair(w, x, hs, p, s)
                 /\ w.sid + Opening(w) <= y.sid + Opening(y) + asked /\ Reqs(w.air) <= Reqs(y.air)
      OBVIOUS
    <2>3. Receives(p, y, w, up, s, Head(x.air))
      BY <1>7
    <2> HIDE DEF p, y, x, hp, hs
    <2>4. QED
      BY <1>1, <1>2, <1>4, <1>5, <1>9, <2>1, <2>3, PairHears, Zenon DEF f, x, hq
  <1>11. handed' = [handed EXCEPT ![p] = hq]
    <2>1. CASE up = << >>
      BY <1>1, <1>2, <2>1 DEF hq
    <2>2. CASE up # << >>
      BY <1>2, <2>2 DEF hq
    <2>3. QED
      BY <2>1, <2>2
  <1> HIDE DEF p, x, y, f
  <1>12. Calm(v) /\ Closing(v) /\ Acts(x, v)
    BY <1>4, <1>8 DEF Moves
  <1>13. Sends(x, v) /\ Hears(x, v) /\ v.sid = x.sid /\ Opening(v) <= Opening(x)
    BY <1>12 DEF Acts, Sends
  <1>14. /\ v.sid \in Nat /\ Opening(v) \in {0, 1} /\ Reqs(v.air) \in Nat
         /\ w.sid \in Nat /\ Opening(w) \in {0, 1} /\ Reqs(w.air) \in Nat /\ asked \in {0, 1}
    BY <1>9, ReqsCount DEF Opening, Sound, Shape
  <1> HIDE DEF asked
  <1>15. /\ v.sid + Opening(v) + Reqs(w.air) <= calls'
         /\ w.sid + Opening(w) + Reqs(v.air) <= calls'
    <2>1. /\ calls' = calls /\ calls \in Nat
          /\ x.sid + Opening(x) + Reqs(y.air) <= calls /\ y.sid + Opening(y) + Reqs(x.air) <= calls
          /\ w.sid + Opening(w) <= y.sid + Opening(y) + asked /\ Reqs(w.air) <= Reqs(y.air)
          /\ v.sid = x.sid /\ Opening(v) <= Opening(x) /\ Reqs(v.air) + asked <= Reqs(x.air)
      BY <1>1, <1>2, <1>8, <1>10, <1>13
    <2>2. QED
      BY <1>4, <1>5, <1>14, <2>1
  <1>16. calls' \in 0 .. MaxCalls
    BY <1>2 DEF Both
  <1>17. w.sid \in Sids
    BY <1>4, <1>14, <1>15, <1>16 DEF Sids
  <1>18. Pair(v, w, hq, s, p) /\ Pair(w, v, handed[s], p, s)
    <2>1. Sends(w, w) /\ Hears(w, w)
      BY <1>9, <1>10, StillMoves DEF Moves, Acts
    <2>2. QED
      BY <1>4, <1>9, <1>10, <1>13, <1>17, <2>1, PairMoves
  <1>19. QED
    BY <1>3, <1>10, <1>11, <1>12, <1>15, <1>16, <1>18, BothOf DEF p

\* Every step keeps what both ends have in common.
LEMMA NextBoth ==
    ASSUME SessionInv, Both, [Next]_vars
    PROVE  Both'
  <1>1. calls \in 0 .. MaxCalls /\ calls \in Nat
    BY SessionAssumption DEF Both
  <1>2. CASE UNCHANGED vars
    <2>1. station' = station /\ handed' = handed /\ calls' = calls
      BY <1>2 DEF vars
    <2>2. QED
      BY <2>1 DEF Both
  <1>3. ASSUME StepAll, MovesAll, UNCHANGED << handed, calls >> PROVE Both'
    BY <1>1, <1>3, AllMove
  <1>4. ASSUME NEW s \in Stations, Listen(s) PROVE Both'
    BY <1>3, <1>4, ListenStep DEF Listen
  <1>5. ASSUME NEW s \in Callers, Dial(s) PROVE Both'
    BY <1>5, DialBoth, SessionAssumption
  <1>6. ASSUME NEW s \in Senders, NEW plain \in BOOLEAN, NEW refuse \in BOOLEAN, HostData(s, plain, refuse)
        PROVE  Both'
    <2>1. UNCHANGED << handed, calls >>
      BY <1>6 DEF HostData
    <2>2. QED
      BY <1>3, <1>6, <2>1, HostDataStep, SessionAssumption
  <1>7. ASSUME NEW s \in Stations, HostDisconnect(s) PROVE Both'
    <2>1. UNCHANGED << handed, calls >>
      BY <1>7 DEF HostDisconnect
    <2>2. QED
      BY <1>3, <1>7, <2>1, HostDisconnectStep
  <1>8. ASSUME NEW s \in Stations, Abort(s) PROVE Both'
    <2>1. UNCHANGED << handed, calls >>
      BY <1>8 DEF Abort
    <2>2. QED
      BY <1>3, <1>8, <2>1, AbortStep
  <1>9. ASSUME NEW s \in Stations, NEW rto \in BOOLEAN, NEW over \in BOOLEAN,
               NEW plain \in BOOLEAN, NEW refuse \in BOOLEAN, Poll(s, rto, over, plain, refuse)
        PROVE  Both'
    BY <1>3, <1>9, TickSteps DEF Poll
  <1>10. ASSUME NEW s \in Stations, SessionCleanup(s) PROVE Both'
    BY <1>3, <1>10, TickSteps DEF SessionCleanup
  <1>11. ASSUME NEW s \in Stations, NEW well \in BOOLEAN, NEW plain \in BOOLEAN, NEW refuse \in BOOLEAN,
                Deliver(s, well, plain, refuse)
         PROVE  Both'
    BY <1>11, DeliverBoth
  <1>12. ASSUME NEW s \in Stations, NEW plain \in BOOLEAN, NEW refuse \in BOOLEAN,
                HeaderOnly(s, plain, refuse) \/ Lose(s, plain, refuse)
         PROVE  Both'
    <2>1. UNCHANGED << handed, calls >> /\ TRUE \in BOOLEAN
      BY <1>12 DEF HeaderOnly, Lose
    <2>2. QED
      BY <1>3, <1>12, <2>1, AirSteps
  <1>13. ASSUME NEW s \in Stations, NEW type \in {"Req", "Cfm", "Disconnect"}, NEW well \in BOOLEAN,
                ForeignFrame(s, type, well)
         PROVE  Both'
    BY <1>13, ForeignBoth
  <1>14. ASSUME NEW gated \in SUBSET Stations, Tick(gated) PROVE Both'
    BY <1>3, <1>14, TickSteps DEF Tick
  <1>15. CASE Next
    BY <1>4, <1>5, <1>6, <1>7, <1>8, <1>9, <1>10, <1>11, <1>12, <1>13, <1>14, <1>15 DEF Next
  <1>16. QED
    BY <1>2, <1>15

\* Nothing sent, nothing given.
LEMMA InitBoth ==
    ASSUME Init
    PROVE  Both
  <1> DEFINE h0 == [n \in Sids \ {0} |-> << >>]
  <1>1. MaxCalls \in Nat
    BY SessionAssumption
  <1>2. h0 \in Handed
    BY EmptySeq DEF Handed
  <1>3. /\ StationNew.link = NoLink /\ StationNew.air = << >> /\ StationNew.sid = 0
        /\ StationNew.submitted = 0 /\ StationNew.sessions = [i \in Slots |-> NoSession]
    BY DEF StationNew
  <1>4. Calm(StationNew) /\ Closing(StationNew) /\ Opening(StationNew) = 0 /\ Reqs(StationNew.air) = 0
    BY <1>3, NoAir DEF Calm, CalmAir, CalmTable, Closing, Opening
  <1>5. ASSUME NEW s, NEW p PROVE Pair(StationNew, StationNew, h0, s, p)
    <2>1. Elsewhere(StationNew, p)
      BY <1>3 DEF Elsewhere
    <2>2. InOrder(StationNew, h0)
      <3>1. \A n \in Sids \ {0} : h0[n] = << >>
        OBVIOUS
      <3> HIDE DEF h0
      <3>2. QED
        BY <3>1, NoAir DEF InOrder
    <2>3. QED
      BY <1>3, <2>1, <2>2 DEF Pair
  <1>6. station = [s \in Stations |-> StationNew] /\ handed = [s \in Stations |-> h0] /\ calls = 0
    BY DEF Init
  <1> HIDE DEF h0, StationNew
  <1>7. \A s \in Stations : Other(s) \in Stations
    BY OtherStation
  <1>8. QED
    BY <1>1, <1>2, <1>3, <1>4, <1>5, <1>6, <1>7 DEF Both

-----------------------------------------------------------------------------
(* Theorems. *)

\* Every step keeps every station sound and every promise to a host.
LEMMA NextStep ==
    ASSUME SessionInv, [Next]_vars
    PROVE  StepAll
  <1>1. CASE UNCHANGED vars
    BY <1>1, OfStation DEF vars, StepAll, SessionInv
  <1>2. ASSUME NEW s \in Stations, Listen(s) PROVE StepAll
    BY <1>2, ListenStep
  <1>3. ASSUME NEW s \in Callers, Dial(s) PROVE StepAll
    BY <1>3, DialStep, SessionAssumption
  <1>4. ASSUME NEW s \in Senders, NEW plain \in BOOLEAN, NEW refuse \in BOOLEAN, HostData(s, plain, refuse)
        PROVE  StepAll
    BY <1>4, HostDataStep, SessionAssumption
  <1>5. ASSUME NEW s \in Stations, HostDisconnect(s) PROVE StepAll
    BY <1>5, HostDisconnectStep
  <1>6. ASSUME NEW s \in Stations, Abort(s) PROVE StepAll
    BY <1>6, AbortStep
  <1>7. ASSUME NEW s \in Stations, NEW well \in BOOLEAN, NEW plain \in BOOLEAN, NEW refuse \in BOOLEAN,
               Deliver(s, well, plain, refuse) \/ HeaderOnly(s, plain, refuse) \/ Lose(s, plain, refuse)
        PROVE  StepAll
    BY <1>7, AirSteps
  <1>8. CASE Next
    <2>1. CASE \E s \in Stations, plain, refuse \in BOOLEAN : HeaderOnly(s, plain, refuse) \/ Lose(s, plain, refuse)
      <3>1. TRUE \in BOOLEAN
        OBVIOUS
      <3>2. QED
        BY <1>7, <2>1, <3>1
    <2>2. QED
      BY <1>2, <1>3, <1>4, <1>5, <1>6, <1>7, <1>8, <2>1, TickSteps DEF Next
  <1>9. QED
    BY <1>1, <1>8

\* A new station.
LEMMA NewSound == Over(StationNew)
  <1>1. StationNew \in Shape
    BY Constants, EmptySeq DEF StationNew, Shape, Table
  <1>2. QED
    BY <1>1 DEF Over, Idle, StationNew

(***************************************************************************)
(* The invariant of both stations: one session, whose link, pending        *)
(* DISCONNECT, BUFFER and notices move with it, whatever the air brings.   *)
(***************************************************************************)
THEOREM SessionInductive == Spec => []SessionInv
  <1>1. Init => SessionInv
    BY NewSound, OverSound DEF Init, SessionInv, Over
  <1>2. SessionInv /\ [Next]_vars => SessionInv'
    BY NextStep DEF SessionInv, StepAll, Step
  <1>3. QED
    BY <1>1, <1>2, PTL DEF Spec

\* At most one session at a time, and the link and the host's pending
\* DISCONNECT always belong to it (SessionManager, event_loop.rs).
THEOREM OneAtATime == Spec => []OneSession
  <1>1. ASSUME SessionInv PROVE OneSession
    <2>1. ASSUME NEW s \in Stations
          PROVE  LET st == station[s]
                 IN /\ Cardinality(Active(st)) <= 1
                    /\ \A i \in Active(st) : StateOf(st, i) = "Disconnecting" <=> st.pending = i
                    /\ st.pending # NoSlot => st.pending \in Active(st)
                    /\ st.link # NoLink =>
                         /\ st.link.session_id \in InState(st, Active(st), {"Established", "Disconnecting"})
                         /\ st.sessions[st.link.session_id].remote = st.link.remote
      <3> DEFINE st == station[s]
      <3>1. Sound(st) /\ st \in Shape
        BY <1>1, OfStation
      <3> HIDE DEF st
      <3>2. Cardinality(Active(st)) <= 1
        <4>1. CASE Active(st) = {}
          BY <4>1, FS_EmptySet
        <4>2. CASE Active(st) # {}
          <5>1. PICK i \in Slots : st.sessions[i] # NoSession
            BY <4>2 DEF Active
          <5>2. Active(st) = {i}
            BY <3>1, <5>1, Only
          <5>3. QED
            BY <5>2, FS_Singleton
        <4>3. QED
          BY <4>1, <4>2
      <3>3. \A i \in Active(st) : StateOf(st, i) = "Disconnecting" <=> st.pending = i
        BY <3>1, Only DEF Active, StateOf, SoundSession
      <3>4. st.pending # NoSlot => st.pending \in Active(st)
        BY <3>1 DEF Active, Sound, Shape
      <3>5. st.link # NoLink =>
               /\ st.link.session_id \in InState(st, Active(st), {"Established", "Disconnecting"})
               /\ st.sessions[st.link.session_id].remote = st.link.remote
        BY <3>1 DEF Sound, SoundLink, InState, Active, StateOf
      <3>6. QED
        BY <3>2, <3>3, <3>4, <3>5 DEF st
    <2>2. QED
      BY <2>1 DEF OneSession
  <1>2. QED
    BY <1>1, SessionInductive, PTL

\* BUFFER, as hosts last heard it, is what the link holds (buffered_tx_bytes,
\* discard_session_tx).
THEOREM HonestBuffer == Spec => []BufferIsHonest
  <1>1. SessionInv => BufferIsHonest
    BY DEF SessionInv, BufferIsHonest, Sound
  <1>2. QED
    BY <1>1, SessionInductive, PTL

\* Data that could go out and did not is due for another try
\* (session_tx_held_by_frequency_gate, retry_held_tx_drain).
THEOREM NoneParked == Spec => []NothingParked
  <1>1. SessionInv => NothingParked
    BY DEF SessionInv, NothingParked, Unparked
  <1>2. QED
    BY <1>1, SessionInductive, PTL

\* In the fade hold get_retransmits still returns a segment, and outside it the
\* budget is the configured one (note_peer_evidence, check_session_retransmits).
THEOREM HoldIsLive == Spec => []HoldStaysLive
  <1>1. ASSUME SessionInv PROVE HoldStaysLive
    <2>1. ASSUME NEW s \in Stations, station[s].link # NoLink
          PROVE  LET link == station[s].link
                 IN IF link.fallback
                      THEN InFlight(link.tx) > 0 /\ ~IsFailed(link.tx, link.tx.send_base, link.max_retransmit)
                      ELSE link.max_retransmit = MaxRetransmit
      <3> DEFINE link == station[s].link
      <3>1. /\ link \in LinkShape /\ Budgeted(link)
            /\ Oldest(link.tx).transmit_count \in 0 .. CountMax
        BY <1>1, <2>1, OfStation, LinkFacts DEF SoundLink
      <3> HIDE DEF link
      <3>2. CASE link.fallback
        <4>1. link.quiet \in 0 .. NoEvidenceTicks /\ link.max_retransmit \in 0 .. CountMax
          BY <3>1 DEF LinkShape
        <4>2. StillToCome(link) \in Nat
          BY <4>1, Constants DEF StillToCome
        <4>3. Oldest(link.tx).transmit_count <= link.max_retransmit
          BY <3>1, <3>2, <4>1, <4>2, Constants DEF Budgeted
        <4>4. ~IsFailed(link.tx, link.tx.send_base, link.max_retransmit)
          BY <3>1, <4>1, <4>3, Constants DEF IsFailed, Oldest
        <4>5. QED
          BY <3>1, <3>2, <4>4 DEF Budgeted, link
      <3>3. CASE ~link.fallback
        BY <3>1, <3>3 DEF Budgeted, link
      <3>4. QED
        BY <3>2, <3>3
    <2>2. QED
      BY <2>1 DEF HoldStaysLive
  <1>2. QED
    BY <1>1, SessionInductive, PTL

(***************************************************************************)
(* Refinement: every step of the daemon is, for each station, a step of    *)
(* module HostSession or changes nothing a host can see, so that PENDING,  *)
(* CANCELPENDING, CONNECTED, DISCONNECTED and BUFFER come in an order a    *)
(* host can follow.                                                        *)
(***************************************************************************)
THEOREM KeepsHostPromise == Spec => ImplementsHost
  <1>1. Init => Host!HostInit
    <2>1. Stage(StationNew) = "idle" /\ StationNew.told = "disconnected" /\ StationNew.reported = 0
      BY NewSound, OverSound
    <2> HIDE DEF StationNew
    <2>2. QED
      BY <2>1 DEF Init, Host!HostInit
  <1>2. ASSUME SessionInv, [Next]_vars PROVE [Host!HostNext]_(Host!hostVars)
    <2>1. ASSUME NEW s \in Stations PROVE HostStep(station[s], station'[s])
      BY <1>2, NextStep DEF StepAll, Step
    <2>2. ASSUME NEW s \in Stations
          PROVE  \/ Host!Stutter(s) \/ Host!Dial(s) \/ Host!Offer(s) \/ Host!Withdraw(s)
                 \/ Host!Up(s) \/ Host!Report(s) \/ Host!Close(s) \/ Host!Down(s)
      <3> DEFINE x == station[s]
                 y == station'[s]
      <3>1. CASE Quiet(x, y)
        BY <3>1 DEF Quiet, Host!Stutter
      <3>2. CASE Dials(x, y)
        BY <3>2 DEF Dials, Host!Dial, Host!Moves
      <3>3. CASE Offers(x, y)
        BY <3>3 DEF Offers, Host!Offer, Host!Moves
      <3>4. CASE Rises(x, y)
        BY <3>4 DEF Rises, Host!Up, Host!Moves
      <3>5. CASE Reports(x, y)
        BY <3>5 DEF Reports, Host!Report, Host!Moves
      <3>6. CASE Closes(x, y)
        BY <3>6 DEF Closes, Host!Close, Host!Moves
      <3>7. CASE Ends(x, y)
        <4>1. Stage(y) = "idle" /\ y.told = "disconnected" /\ y.reported = 0
          BY <3>7, OverSound DEF Ends
        <4>2. Stage(x) \in {"idle", "calling", "offered", "up", "closing"}
          BY DEF Stage
        <4>3. CASE Stage(x) = "offered"
          <5>1. x.reported = 0
            BY <3>7, <4>3 DEF Ends
          <5>2. QED
            BY <4>1, <4>3, <5>1 DEF Host!Withdraw, Host!Moves
        <4>4. CASE Stage(x) # "offered"
          <5>1. Stage(x) \in {"calling", "up", "closing"}
            BY <3>7, <4>2, <4>4 DEF Ends
          <5>2. QED
            BY <4>1, <5>1 DEF Host!Down, Host!Moves
        <4>5. QED
          BY <4>3, <4>4
      <3>8. QED
        BY <2>1, <3>1, <3>2, <3>3, <3>4, <3>5, <3>6, <3>7 DEF HostStep
    <2>3. QED
      BY <2>2 DEF Host!HostNext
  <1>3. QED
    BY <1>1, <1>2, SessionInductive, PTL DEF Spec, ImplementsHost, Host!HostSpec

(***************************************************************************)
(* The invariant of the channel, which takes both stations: the payloads a *)
(* host was given are those its peer sent in that session, as far as the   *)
(* receive cursor, and nothing older can be heard and taken for new.       *)
(***************************************************************************)
THEOREM BothInductive == Spec => [](SessionInv /\ Both)
  <1>1. Init => SessionInv /\ Both
    BY NewSound, OverSound, InitBoth DEF Init, SessionInv, Over
  <1>2. (SessionInv /\ Both) /\ [Next]_vars => (SessionInv /\ Both)'
    BY NextStep, NextBoth DEF SessionInv, StepAll, Step
  <1>3. QED
    BY <1>1, <1>2, PTL DEF Spec

\* The payloads of a session reach the other host in order and once each, and
\* one that has left the window had been handed up: through retransmissions,
\* bursts, fade holds, half-open sessions and calls of a third station
\* (SessionLink, handle_session_data, handle_session_ack).
THEOREM OrderedAndReliable == Spec => []ReliableInOrder
  <1>1. ASSUME SessionInv, Both PROVE ReliableInOrder
    <2>1. ASSUME NEW s \in Stations
          PROVE  \A n \in Sids \ {0} : \A i \in DOMAIN handed[s][n] : handed[s][n][i] = i
      <3>1. Pair(station[Other(s)], station[s], handed[s], Other(s), s)
        BY <1>1, Budgets
      <3>2. QED
        BY <3>1 DEF Pair, InOrder
    <2>2. ASSUME NEW s \in Stations, station[s].link # NoLink
          PROVE  station[s].submitted - Buffered_(station[s]) <= Len(handed[Other(s)][station[s].sid])
      <3> DEFINE x == station[s]
                 p == Other(s)
                 y == station[p]
                 h == Len(handed[p][x.sid])
      <3>1. Pair(x, y, handed[p], s, p) /\ p \in Stations
        BY <1>1, Budgets
      <3>2. Sound(x) /\ Calm(x) /\ x.sid \in Sids /\ x.sid \in Nat /\ handed[p] \in Handed
        BY <1>1, <3>1, OfBoth
      <3>3. x.sid >= 1
        BY <2>2, <3>2 DEF Calm, CalmLink
      <3> HIDE DEF x, y
      <3>4. h \in Nat
        BY <3>2, <3>3 DEF Handed
      <3>5. Confirmed(x) <= h
        <4>1. CASE Linked(x, p)
          BY <3>1, <3>3, <4>1 DEF Pair, Delivering
        <4>2. CASE ~Linked(x, p)
          BY <2>2, <3>1, <3>4, <4>2 DEF Pair, Elsewhere, Linked, x
        <4>3. QED
          BY <4>1, <4>2
      <3>6. x.submitted - Buffered_(x) = Confirmed(x)
        <4>1. /\ x.submitted \in Int /\ x.link.backlog \in Int /\ InFlight(x.link.tx) \in Int
              /\ x.link # NoLink
          BY <2>2, <3>2, LinkFacts, Constants DEF Sound, Shape, x
        <4>2. QED
          BY <4>1 DEF Buffered_, Confirmed, SentCount
      <3>7. QED
        BY <3>5, <3>6 DEF x
    <2>3. QED
      BY <2>1, <2>2 DEF ReliableInOrder
  <1>2. QED
    BY <1>1, BothInductive, PTL

\* A DISCONNECT that drained its session to the end left nothing undelivered
\* (finish_drained_disconnect).
THEOREM DrainIsComplete == Spec => []DrainDeliversEverything
  <1>1. ASSUME SessionInv, Both PROVE DrainDeliversEverything
    <2>1. ASSUME NEW s \in Stations, station[s].ended = "drained", station[s].submitted > 0
          PROVE  Len(handed[Other(s)][station[s].sid]) >= station[s].submitted
      <3>1. Pair(station[s], station[Other(s)], handed[Other(s)], s, Other(s))
        BY <1>1 DEF Both
      <3>2. station[s].sid >= 1
        BY <1>1, <2>1, OfBoth DEF Calm, CalmTable
      <3>3. QED
        BY <2>1, <3>1, <3>2 DEF Pair, Delivering
    <2>2. QED
      BY <2>1 DEF DrainDeliversEverything
  <1>2. QED
    BY <1>1, BothInductive, PTL

\* Type correctness: the stop-and-wait receiver buffers nothing, and a frame
\* carries no session number its station has not reached.
THEOREM TypesCorrect == Spec => []TypeOK
  <1>1. ASSUME SessionInv, Both PROVE TypeOK
    <2>1. ASSUME NEW s \in Stations PROVE station[s] \in StationType
      <3> DEFINE x == station[s]
      <3>1. x \in Shape /\ Calm(x) /\ x.sid \in Sids /\ x.sid \in Nat /\ MaxCalls \in Nat
        BY <1>1, OfBoth
      <3> HIDE DEF x
      <3>2. x.link \in SessionLink \cup {NoLink}
        <4>1. CASE x.link # NoLink
          <5>1. x.link \in LinkShape /\ x.link.rx \in RxType(0 .. MaxPayload)
            BY <3>1, <4>1 DEF Shape, LinkShape
          <5>2. x.link.rx.rx_buf = [i \in Slot |-> NoData]
            BY <3>1, <4>1 DEF Calm, CalmLink, ArqRxNew
          <5>3. x.link.rx \in RxType(1 .. MaxPayload)
            BY <5>1, <5>2 DEF RxType, RxCell
          <5>4. x.link \in SessionLink
            BY <5>1, <5>3 DEF LinkShape, SessionLink
          <5>5. QED
            BY <5>4
        <4>2. QED
          BY <4>1
      <3>3. x.air \in Seq(Frame)
        <4>1. x.air \in Seq(AirFrame)
          BY <3>1 DEF Shape
        <4>2. ASSUME NEW i \in 1 .. Len(x.air) PROVE x.air[i] \in Frame
          <5>1. x.air[i] \in OnAir(x.air) /\ x.air[i] \in AirFrame
            BY <4>1 DEF OnAir
          <5>2. x.air[i].sid <= x.sid /\ x.air[i].sid \in Nat
            BY <3>1, <5>1 DEF Calm, CalmAir, AirFrame
          <5>3. x.air[i].sid \in Sids
            BY <3>1, <5>2 DEF Sids
          <5>4. QED
            BY <5>1, <5>3 DEF AirFrame, Frame
        <4>3. QED
          BY <4>1, <4>2
      <3>4. QED
        BY <3>1, <3>2, <3>3 DEF Shape, StationType, Table, x
    <2>2. \A s \in Stations : handed[s] \in [Sids \ {0} -> Seq(1 .. MaxPayload)]
      BY <1>1 DEF Both, Handed
    <2>3. QED
      BY <1>1, <2>1, <2>2 DEF TypeOK, Both
  <1>2. QED
    BY <1>1, BothInductive, PTL
=============================================================================
