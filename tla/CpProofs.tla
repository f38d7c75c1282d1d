------------------------------ MODULE CpProofs ------------------------------
(***************************************************************************)
(* Theorems about CpNegotiation for every ring, sequence space, retry      *)
(* budget and set of lossy legs: whatever is lost, reset or given up, the  *)
(* engine follows the negotiator and no leg of the handshake is forgotten  *)
(* in the two-slot window.                                                 *)
(***************************************************************************)
EXTENDS CpNegotiation, ArqLemmas, FiniteSetTheorems

-----------------------------------------------------------------------------
(* The inductive invariant. *)

SoundFrame == {f \in FrameType : f.payload # NoPayload => f.seq # NoSeq}

(***************************************************************************)
(* Why no leg is orphaned: a station has at most one leg out, whatever it   *)
(* still waits for is a leg it tracks, and the number it will use next is   *)
(* not one it waits for, so that the third leg, sent in the handler that    *)
(* processes the ack of the second, is not mistaken for acknowledged.       *)
(***************************************************************************)
LegsTracked(st) ==
    /\ InPlace(st.tx)
    /\ Unacked(st.tx) \subseteq {st.propose_seq, st.confirm_seq, st.switched_seq}
    /\ st.tx.next_seq \notin Unacked(st.tx)
    /\ st.propose_seq # NoSeq => st.confirm_seq = NoSeq /\ st.switched_seq = NoSeq
    /\ st.confirm_seq # NoSeq => st.switched_seq = NoSeq /\ st.confirm_mode # NoMode

StationInv(st) ==
    /\ st \in StationType
    /\ st.engine = st.current
    /\ InWindow(st.rx, CpWindow)
    /\ LegsTracked(st)

CpInv ==
    /\ station \in [Stations -> StationType]
    /\ \A s \in Stations : StationInv(station[s])
    /\ air \in [Stations -> Seq(SoundFrame)]
    /\ flips \in 0 .. MaxFlips /\ losses \in 0 .. MaxLosses /\ resets \in 0 .. MaxResets

-----------------------------------------------------------------------------
(* Constants, payloads and frames. *)

\* The constants in the form the steps need.
LEMMA Constants ==
    /\ CountMax >= 1 /\ CpWindow \in 1 .. Ring /\ SeqMod \in Nat /\ SeqMod >= 8
    /\ NoSeq \notin SeqNum
    /\ \A q \in SeqNum : WrapAdd(q, 1) \in SeqNum /\ WrapAdd(q, 1) # q
  <1>1. /\ CountMax >= 1 /\ CpWindow \in 1 .. Ring /\ SeqMod \in Nat /\ SeqMod >= 8
    BY ArqAssumption, CpAssumption DEF CpWindow, ValidWindow
  <1>2. NoSeq \notin SeqNum
    BY <1>1 DEF NoSeq, SeqNum
  <1>3. ASSUME NEW q \in SeqNum PROVE WrapAdd(q, 1) \in SeqNum /\ WrapAdd(q, 1) # q
    <2>1. q \in Int /\ 0 <= q /\ q < SeqMod
      BY <1>1 DEF SeqNum
    <2>2. CASE q + 1 < SeqMod
      BY <2>1, <2>2, <1>1, ModSmall DEF WrapAdd, SeqNum
    <2>3. CASE q + 1 = SeqMod
      <3>1. SeqMod % SeqMod = 0
        BY <1>1
      <3>2. QED
        BY <2>1, <2>3, <3>1, <1>1 DEF WrapAdd, SeqNum
    <2>4. QED
      BY <2>1, <2>2, <2>3, <1>1
  <1>4. QED
    BY <1>1, <1>2, <1>3

\* Two stations: the peer of each is the other one.
LEMMA PeerIsOther ==
    ASSUME NEW s \in Stations
    PROVE  Peer(s) \in Stations /\ Peer(s) # s
  <1>1. \E p \in Stations : p # s
    <2>1. SUFFICES ASSUME Stations = {s} PROVE FALSE
      OBVIOUS
    <2>2. Cardinality(Stations) = 1
      BY <2>1, FS_Singleton
    <2>3. QED
      BY <2>2, CpAssumption
  <1>2. QED
    BY <1>1 DEF Peer

\* A payload is one of three kinds with a mode, and never the empty one.
LEMMA PayloadParts ==
    /\ \A k \in {Propose, Confirm, Switched}, m \in Mode : Payload(k, m) \in Payloads
    /\ \A p \in Payloads : /\ PayloadKind(p) \in {Propose, Confirm, Switched}
                           /\ PayloadMode(p) \in Mode
                           /\ LegOf(p) \in Legs
                           /\ p # NoPayload
  <1>1. ASSUME NEW k \in {Propose, Confirm, Switched}, NEW m \in Mode
        PROVE  /\ PayloadKind(Payload(k, m)) = k /\ PayloadMode(Payload(k, m)) = m
               /\ Payload(k, m) # NoPayload
    <2>1. k \in {1, 2, 3} /\ m \in {0, 1}
      BY DEF Propose, Confirm, Switched, Mode, LongCp, ShortCp
    <2>2. /\ (2 * k + m) \div 2 = k /\ (2 * k + m) % 2 = m /\ 2 * k + m # 0
      BY <2>1
    <2>3. QED
      BY <2>2 DEF Payload, PayloadKind, PayloadMode, NoPayload
  <1>2. ASSUME NEW p \in Payloads
        PROVE  PayloadKind(p) \in {Propose, Confirm, Switched} /\ PayloadMode(p) \in Mode
               /\ p # NoPayload
    BY <1>1 DEF Payloads
  <1>3. ASSUME NEW p \in Payloads PROVE LegOf(p) \in Legs
    <2>1. \/ PayloadKind(p) = Propose \/ PayloadKind(p) = Confirm \/ PayloadKind(p) = Switched
      BY <1>2
    <2>2. QED
      BY <2>1 DEF LegOf, Legs, Propose, Confirm, Switched
  <1>4. QED
    BY <1>2, <1>3 DEF Payloads

\* What a station puts on the air is a sound frame.
LEMMA FramesSound ==
    ASSUME NEW st \in StationType, NEW r \in RxType(Payloads), NEW leg \in Legs
    PROVE  /\ \A q \in SeqNum, p \in Payloads : Content(st, q, AckInfo(r), p) \in SoundFrame
           /\ BareAck(st, AckInfo(r), leg) \in SoundFrame
  <1>1. st.engine \in Mode
    BY DEF StationType
  <1>2. AckInfo(r).ack_num \in SeqNum /\ AckInfo(r).bitmap \in SUBSET (0 .. SackRange - 1)
    BY AckInfoType
  <1>3. ASSUME NEW q \in SeqNum, NEW p \in Payloads
        PROVE  Content(st, q, AckInfo(r), p) \in SoundFrame
    <2>1. LegOf(p) \in Legs
      BY PayloadParts
    <2>2. q # NoSeq
      BY Constants
    <2>3. QED
      BY <1>1, <1>2, <2>1, <2>2 DEF Content, SoundFrame, FrameType
  <1>4. BareAck(st, AckInfo(r), leg) \in SoundFrame
    BY <1>1, <1>2 DEF BareAck, SoundFrame, FrameType
  <1>5. QED
    BY <1>3, <1>4

-----------------------------------------------------------------------------
(* The handler: every part of it keeps the invariant of its station. *)

Answer == [st : StationType, out : Seq(SoundFrame)]
Sound(r) == r \in Answer /\ StationInv(r.st)

\* A frame more on the way out.
LEMMA EmitSound ==
    ASSUME NEW r \in Answer, NEW f \in SoundFrame
    PROVE  Emit(r, f) \in Answer /\ Emit(r, f).st = r.st
  BY AppendProperties DEF Emit, Answer

\* abort with the engine following it: nothing tracked, and the same engine and
\* negotiator mode.
LEMMA WalkBackSound ==
    ASSUME NEW st \in StationType
    PROVE  /\ WalkBack(st) \in StationType
           /\ WalkBack(st).engine = WalkBack(st).current
           /\ WalkBack(st).tx = st.tx /\ WalkBack(st).rx = st.rx
           /\ WalkBack(st).propose_seq = st.propose_seq
           /\ WalkBack(st).confirm_seq = NoSeq /\ WalkBack(st).switched_seq = NoSeq
  <1> DEFINE cleared == [st EXCEPT !.confirm_seq = NoSeq, !.confirm_mode = NoMode,
                                   !.switched_seq = NoSeq, !.probation = NoMode]
             mode == IF st.revert_to = NoMode THEN st.current ELSE st.revert_to
  <1>1. cleared \in StationType /\ mode \in Mode
    BY DEF StationType
  <1>2. WalkBack(st) = [cleared EXCEPT !.current = mode, !.revert_to = NoMode, !.engine = mode]
    BY DEF WalkBack, SetCpProfile, Abort, Revert, StationType
  <1>3. /\ cleared.tx = st.tx /\ cleared.rx = st.rx /\ cleared.propose_seq = st.propose_seq
        /\ cleared.confirm_seq = NoSeq /\ cleared.switched_seq = NoSeq
    BY DEF StationType
  <1> HIDE DEF cleared, mode
  <1>4. QED
    BY <1>1, <1>2, <1>3 DEF StationType

\* A walked-back station that waits only for a leg it may still track is sound.
LEMMA WalkBackInv ==
    ASSUME NEW st \in StationType, InWindow(st.rx, CpWindow), InPlace(st.tx),
           Unacked(st.tx) \subseteq {st.propose_seq}, st.tx.next_seq \notin Unacked(st.tx)
    PROVE  StationInv(WalkBack(st))
  BY WalkBackSound DEF StationInv, LegsTracked

\* A leg of its own is sent by a station that waits for nothing.
LEMMA SendLeg ==
    ASSUME NEW t \in TxType(Payloads), NEW p \in Payloads, InPlace(t), Unacked(t) = {}
    PROVE  /\ TxSend(t, p) \in TxType(Payloads)
           /\ InPlace(TxSend(t, p))
           /\ Unacked(TxSend(t, p)) \subseteq {t.next_seq}
           /\ TxSend(t, p).next_seq \notin Unacked(TxSend(t, p))
           /\ t.next_seq \in SeqNum /\ t.next_seq # NoSeq
  <1>1. t.next_seq \in SeqNum
    BY DEF TxType
  <1>2. TxSend(t, p) \in TxType(Payloads)
    BY Constants, TxSendType
  <1>3. QED
    BY <1>1, <1>2, Constants, SendWaits

\* send_cp_switched: the third leg is tracked, or the switch is walked back.
LEMMA SendCpSwitchedSound ==
    ASSUME NEW r \in Answer, r.st.engine = r.st.current, InWindow(r.st.rx, CpWindow),
           InPlace(r.st.tx), Unacked(r.st.tx) = {}, r.st.propose_seq = NoSeq,
           r.st.confirm_seq = NoSeq, r.st.switched_seq = NoSeq
    PROVE  /\ Sound(SendCpSwitched(r))
           /\ SendCpSwitched(r).st.switched_seq \in {NoSeq, r.st.tx.next_seq}
  <1> DEFINE st == r.st
             p == Payload(Switched, st.current)
  <1>1. /\ st \in StationType /\ st.tx \in TxType(Payloads) /\ st.rx \in RxType(Payloads)
        /\ st.current \in Mode
    BY DEF Answer, StationType
  <1>2. p \in Payloads
    BY <1>1, PayloadParts
  <1> HIDE DEF p
  <1>3. CASE CanSend(st.tx, CpWindow)
    <2> DEFINE st2 == [st EXCEPT !.tx = TxSend(@, p), !.switched_seq = st.tx.next_seq]
               r2 == [r EXCEPT !.st = st2]
               f == Content(st, st.tx.next_seq, AckInfo(st.rx), p)
    <2>1. /\ TxSend(st.tx, p) \in TxType(Payloads) /\ InPlace(TxSend(st.tx, p))
          /\ Unacked(TxSend(st.tx, p)) \subseteq {st.tx.next_seq}
          /\ TxSend(st.tx, p).next_seq \notin Unacked(TxSend(st.tx, p))
          /\ st.tx.next_seq \in SeqNum
      BY <1>1, <1>2, SendLeg
    <2>2. st2 \in StationType
      BY <1>1, <2>1 DEF StationType
    <2>3. /\ st2.tx = TxSend(st.tx, p) /\ st2.switched_seq = st.tx.next_seq
          /\ st2.rx = st.rx /\ st2.engine = st.engine /\ st2.current = st.current
          /\ st2.confirm_seq = NoSeq /\ st2.propose_seq = NoSeq
      BY <1>1 DEF StationType
    <2> HIDE DEF st2
    <2>4. StationInv(st2)
      BY <2>1, <2>2, <2>3 DEF StationInv, LegsTracked
    <2>5. r2 \in Answer /\ r2.st = st2
      BY <2>2 DEF Answer
    <2>6. f \in SoundFrame
      BY <1>1, <1>2, <2>1, FramesSound DEF Legs
    <2>7. SendCpSwitched(r) = Emit(r2, f)
      BY <1>3 DEF SendCpSwitched, st2, p
    <2> HIDE DEF r2, f
    <2>8. QED
      BY <2>3, <2>4, <2>5, <2>6, <2>7, EmitSound DEF Sound
  <1>4. CASE ~CanSend(st.tx, CpWindow)
    <2>1. SendCpSwitched(r) = [r EXCEPT !.st = WalkBack(st)]
      BY <1>4 DEF SendCpSwitched, WalkBack
    <2>2. st.tx.next_seq \notin Unacked(st.tx)
      OBVIOUS
    <2>3. StationInv(WalkBack(st)) /\ WalkBack(st) \in StationType
      BY <1>1, <2>2, WalkBackInv, WalkBackSound
    <2>4. WalkBack(st).switched_seq = NoSeq
      BY <1>1, WalkBackSound
    <2>5. SendCpSwitched(r) \in Answer /\ SendCpSwitched(r).st = WalkBack(st)
      BY <2>1, <2>3 DEF Answer
    <2>6. QED
      BY <2>3, <2>4, <2>5 DEF Sound
  <1>5. QED
    BY <1>3, <1>4

\* The acknowledgement half.
LEMMA OnAcksSound ==
    ASSUME NEW r \in Answer, StationInv(r.st), NEW f \in SoundFrame
    PROVE  Sound(OnAcks(r, f))
  <1> DEFINE st == r.st
             acked == NewlyAcked(st.tx, f.ack_num, f.bitmap)
             tx2 == ProcessAck(st.tx, f.ack_num, f.bitmap)
             base == [st EXCEPT !.tx = tx2,
                                !.propose_seq = IF @ \in acked THEN NoSeq ELSE @]
             moved == [base EXCEPT !.confirm_seq = NoSeq, !.confirm_mode = NoMode,
                                   !.current = base.confirm_mode]
             here == SetCpProfile(moved)
             switched == IF base.confirm_seq \notin acked THEN [r EXCEPT !.st = base]
                         ELSE SendCpSwitched([r EXCEPT !.st = here])
  <1>1. /\ st \in StationType /\ st.tx \in TxType(Payloads) /\ LegsTracked(st)
        /\ st.engine = st.current /\ InWindow(st.rx, CpWindow)
    BY DEF StationInv, StationType
  <1>2. f.ack_num \in SeqNum /\ f.bitmap \in SUBSET Nat
    <2>1. f \in FrameType
      BY DEF SoundFrame
    <2>2. QED
      BY <2>1 DEF FrameType
  <1>3. /\ tx2 \in TxType(Payloads)
        /\ acked \subseteq Unacked(st.tx) /\ tx2.next_seq = st.tx.next_seq
        /\ InPlace(tx2) /\ Unacked(tx2) = Unacked(st.tx) \ acked
    BY <1>1, <1>2, ProcessAckType, AckWaits DEF LegsTracked
  <1>4. NoSeq \notin acked /\ NoSeq \notin Unacked(st.tx)
    BY <1>1, <1>3, UnackedType, Constants
  <1> HIDE DEF acked, tx2
  <1>5. /\ base \in StationType
        /\ base.tx = tx2 /\ base.rx = st.rx
        /\ base.propose_seq = IF st.propose_seq \in acked THEN NoSeq ELSE st.propose_seq
        /\ base.confirm_seq = st.confirm_seq /\ base.confirm_mode = st.confirm_mode
        /\ base.switched_seq = st.switched_seq
        /\ base.engine = st.engine /\ base.current = st.current
    BY <1>1, <1>3 DEF StationType
  <1> HIDE DEF base
  <1>6. OnAcks(r, f) = IF switched.st.switched_seq \in acked
                       THEN [switched EXCEPT !.st.switched_seq = NoSeq, !.st.revert_to = NoMode]
                       ELSE switched
    BY DEF OnAcks, base, acked, tx2
  <1>7. CASE base.confirm_seq \notin acked
    <2> DEFINE left == [base EXCEPT !.switched_seq = NoSeq, !.revert_to = NoMode]
               st2 == IF st.switched_seq \in acked THEN left ELSE base
    <2>1. /\ left \in StationType /\ left.tx = tx2 /\ left.rx = st.rx
          /\ left.propose_seq = base.propose_seq /\ left.confirm_seq = base.confirm_seq
          /\ left.confirm_mode = base.confirm_mode /\ left.switched_seq = NoSeq
          /\ left.engine = base.engine /\ left.current = base.current
      BY <1>5 DEF StationType
    <2>2. switched = [r EXCEPT !.st = base] /\ switched.st = base
      BY <1>7 DEF Answer
    <2>3. OnAcks(r, f) = [r EXCEPT !.st = st2]
      <3>1. CASE st.switched_seq \in acked
        <4>1. OnAcks(r, f) = [[r EXCEPT !.st = base]
                                 EXCEPT !.st.switched_seq = NoSeq, !.st.revert_to = NoMode]
          BY <3>1, <2>2, <1>5, <1>6
        <4>2. QED
          BY <3>1, <4>1 DEF Answer
      <3>2. CASE st.switched_seq \notin acked
        BY <3>2, <2>2, <1>5, <1>6
      <3>3. QED
        BY <3>1, <3>2
    <2> HIDE DEF left
    <2>4. st2 \in StationType /\ st2.engine = st2.current /\ st2.rx = st.rx /\ st2.tx = tx2
      BY <2>1, <1>5, <1>1
    <2>5. /\ st2.propose_seq = base.propose_seq /\ st2.confirm_seq = st.confirm_seq
          /\ st2.confirm_mode = st.confirm_mode
          /\ st2.switched_seq = IF st.switched_seq \in acked THEN NoSeq ELSE st.switched_seq
      BY <2>1, <1>5
    <2> HIDE DEF st2
    <2>6. Unacked(tx2) \subseteq {st2.propose_seq, st2.confirm_seq, st2.switched_seq}
      BY <2>5, <1>1, <1>3, <1>5, <1>7 DEF LegsTracked
    <2>7. LegsTracked(st2)
      BY <2>4, <2>5, <2>6, <1>1, <1>3, <1>5 DEF LegsTracked
    <2>8. StationInv(st2)
      BY <2>4, <2>7, <1>1 DEF StationInv
    <2>9. QED
      BY <2>3, <2>4, <2>8 DEF Sound, Answer
  <1>8. CASE base.confirm_seq \in acked
    <2>1. /\ st.confirm_seq \in acked /\ st.confirm_seq # NoSeq
          /\ st.propose_seq = NoSeq /\ st.switched_seq = NoSeq /\ st.confirm_mode \in Mode
          /\ acked \subseteq {st.confirm_seq} /\ Unacked(tx2) = {}
          /\ st.tx.next_seq \notin acked
      <3>1. st.confirm_seq \in acked /\ st.confirm_seq # NoSeq
        BY <1>8, <1>5, <1>4
      <3>2. st.propose_seq = NoSeq /\ st.switched_seq = NoSeq /\ st.confirm_mode # NoMode
        BY <3>1, <1>1 DEF LegsTracked
      <3>3. st.confirm_mode \in Mode
        BY <3>2, <1>1 DEF StationType
      <3>4. Unacked(st.tx) \subseteq {st.confirm_seq}
        BY <3>2, <1>1, <1>4 DEF LegsTracked
      <3>5. QED
        BY <3>1, <3>2, <3>3, <3>4, <1>1, <1>3 DEF LegsTracked
    <2>2. /\ here \in StationType /\ here.engine = here.current
          /\ here.tx = tx2 /\ here.rx = st.rx
          /\ here.propose_seq = NoSeq /\ here.confirm_seq = NoSeq /\ here.switched_seq = NoSeq
      BY <2>1, <1>4, <1>5 DEF SetCpProfile, StationType
    <2> DEFINE r2 == [r EXCEPT !.st = here]
    <2> HIDE DEF here
    <2>3. r2 \in Answer /\ r2.st = here
      BY <2>2 DEF Answer
    <2> HIDE DEF r2
    <2>4. /\ Sound(SendCpSwitched(r2))
          /\ SendCpSwitched(r2).st.switched_seq \in {NoSeq, st.tx.next_seq}
      <3>1. InWindow(r2.st.rx, CpWindow) /\ InPlace(r2.st.tx) /\ Unacked(r2.st.tx) = {}
        BY <2>1, <2>2, <2>3, <1>1, <1>3
      <3>2. r2.st.tx.next_seq = st.tx.next_seq
        BY <2>2, <2>3, <1>3
      <3>3. QED
        BY <2>2, <2>3, <3>1, <3>2, SendCpSwitchedSound
    <2>5. switched = SendCpSwitched(r2)
      BY <1>8 DEF r2, here
    <2>6. switched.st.switched_seq \notin acked
      BY <2>1, <2>4, <2>5, <1>4
    <2>7. OnAcks(r, f) = SendCpSwitched(r2)
      BY <2>5, <2>6, <1>6
    <2>8. QED
      BY <2>4, <2>7
  <1>9. QED
    BY <1>7, <1>8

\* A Propose is answered only by a station with no leg out.
LEMMA OnProposeSound ==
    ASSUME NEW r, Sound(r), NEW mode \in Mode, NEW x \in RxType(Payloads)
    PROVE  Sound(OnPropose(r, AckInfo(x), mode))
  <1> DEFINE st == r.st
             p == Payload(Confirm, mode)
             q == st.tx.next_seq
             st2 == [st EXCEPT !.tx = TxSend(@, p),
                               !.revert_to = IF @ = NoMode THEN st.current ELSE @,
                               !.confirm_seq = q, !.confirm_mode = mode]
             r2 == [r EXCEPT !.st = st2]
             f == Content(st, q, AckInfo(x), p)
  <1>1. /\ r \in Answer /\ st \in StationType /\ st.tx \in TxType(Payloads)
        /\ st.rx \in RxType(Payloads) /\ StationInv(st)
    BY DEF Sound, Answer, StationType
  <1>2. p \in Payloads
    BY PayloadParts
  <1> HIDE DEF p
  <1>3. CASE InFlightCp(st) \/ ~CanSend(st.tx, CpWindow)
    BY <1>3 DEF OnPropose
  <1>4. CASE ~InFlightCp(st) /\ CanSend(st.tx, CpWindow)
    <2>1. st.propose_seq = NoSeq /\ st.confirm_seq = NoSeq /\ st.switched_seq = NoSeq
      BY <1>4 DEF InFlightCp, NegotiationInFlight
    <2>2. Unacked(st.tx) = {} /\ InPlace(st.tx)
      <3>1. Unacked(st.tx) \subseteq {NoSeq} /\ NoSeq \notin Unacked(st.tx)
        BY <2>1, <1>1, UnackedType, Constants DEF StationInv, LegsTracked
      <3>2. QED
        BY <3>1, <1>1 DEF StationInv, LegsTracked
    <2>3. /\ TxSend(st.tx, p) \in TxType(Payloads) /\ InPlace(TxSend(st.tx, p))
          /\ Unacked(TxSend(st.tx, p)) \subseteq {q}
          /\ TxSend(st.tx, p).next_seq \notin Unacked(TxSend(st.tx, p))
          /\ q \in SeqNum /\ q # NoSeq
      BY <1>1, <1>2, <2>2, SendLeg
    <2>4. st2 \in StationType
      BY <1>1, <2>3 DEF StationType
    <2>5. /\ st2.tx = TxSend(st.tx, p) /\ st2.rx = st.rx
          /\ st2.confirm_seq = q /\ st2.confirm_mode = mode
          /\ st2.propose_seq = NoSeq /\ st2.switched_seq = NoSeq
          /\ st2.engine = st.engine /\ st2.current = st.current
      BY <1>1, <2>1 DEF StationType
    <2>6. mode # NoMode
      BY DEF Mode, NoMode, LongCp, ShortCp
    <2>7. OnPropose(r, AckInfo(x), mode) = Emit(r2, f)
      BY <1>1, <1>4 DEF OnPropose, TrackPendingConfirm, ArmRevert, StationType, p
    <2> HIDE DEF st2
    <2>8. StationInv(st2)
      BY <2>3, <2>4, <2>5, <2>6, <1>1 DEF StationInv, LegsTracked
    <2>9. r2 \in Answer /\ r2.st = st2
      BY <1>1, <2>4 DEF Answer
    <2>10. f \in SoundFrame
      BY <1>1, <1>2, <2>3, FramesSound DEF Legs
    <2> HIDE DEF r2, f
    <2>11. QED
      BY <2>7, <2>8, <2>9, <2>10, EmitSound DEF Sound
  <1>5. QED
    BY <1>3, <1>4

\* A Confirm moves the negotiator and the engine together.
LEMMA OnConfirmSound ==
    ASSUME NEW r, Sound(r), NEW mode \in Mode, NEW x \in RxType(Payloads)
    PROVE  Sound(OnConfirm(r, AckInfo(x), mode))
  <1> DEFINE st == r.st
             f == BareAck(st, AckInfo(x), "ackConfirm")
             st2 == ApplyAsConfirmer(st, mode)
  <1>1. r \in Answer /\ st \in StationType /\ st.rx \in RxType(Payloads) /\ StationInv(st)
    BY DEF Sound, Answer, StationType
  <1>2. f \in SoundFrame
    BY <1>1, FramesSound DEF Legs
  <1>3. Emit(r, f) \in Answer /\ Emit(r, f).st = st
    BY <1>1, <1>2, EmitSound
  <1>4. /\ st2 \in StationType /\ st2.engine = st2.current /\ st2.tx = st.tx /\ st2.rx = st.rx
        /\ st2.propose_seq = st.propose_seq /\ st2.confirm_seq = st.confirm_seq
        /\ st2.confirm_mode = st.confirm_mode /\ st2.switched_seq = st.switched_seq
    BY <1>1 DEF ApplyAsConfirmer, ArmRevert, StationType
  <1>5. OnConfirm(r, AckInfo(x), mode) = [Emit(r, f) EXCEPT !.st = st2]
    BY <1>3 DEF OnConfirm, Answer
  <1> HIDE DEF st2, f
  <1>6. StationInv(st2)
    BY <1>1, <1>4 DEF StationInv, LegsTracked
  <1>7. QED
    BY <1>3, <1>4, <1>5, <1>6 DEF Sound, Answer

\* A third leg only ends the probation.
LEMMA OnSwitchedSound ==
    ASSUME NEW r, Sound(r), NEW mode \in Mode, NEW x \in RxType(Payloads)
    PROVE  Sound(OnSwitched(r, AckInfo(x), mode))
  <1> DEFINE st == r.st
             f == BareAck(st, AckInfo(x), "ackSwitched")
             st2 == OnPeerSwitched(st)
             r2 == [r EXCEPT !.st = st2]
  <1>1. r \in Answer /\ st \in StationType /\ st.rx \in RxType(Payloads) /\ StationInv(st)
    BY DEF Sound, Answer, StationType
  <1>2. f \in SoundFrame
    BY <1>1, FramesSound DEF Legs
  <1>3. /\ st2 \in StationType /\ st2.engine = st.engine /\ st2.current = st.current
        /\ st2.tx = st.tx /\ st2.rx = st.rx
        /\ st2.propose_seq = st.propose_seq /\ st2.confirm_seq = st.confirm_seq
        /\ st2.confirm_mode = st.confirm_mode /\ st2.switched_seq = st.switched_seq
    BY <1>1 DEF OnPeerSwitched, StationType
  <1>4. OnSwitched(r, AckInfo(x), mode) \in {r, Emit(r2, f)}
    <2>1. [r EXCEPT !.st = OnPeerSwitched(@)] = r2
      BY <1>1 DEF Answer
    <2>2. QED
      BY <2>1 DEF OnSwitched
  <1> HIDE DEF st2, f
  <1>5. StationInv(st2)
    BY <1>1, <1>3 DEF StationInv, LegsTracked
  <1>6. r2 \in Answer /\ r2.st = st2
    BY <1>1, <1>3 DEF Answer
  <1> HIDE DEF r2
  <1>7. QED
    BY <1>2, <1>4, <1>5, <1>6, EmitSound DEF Sound

\* One delivered payload.
LEMMA OnContentSound ==
    ASSUME NEW r, Sound(r), NEW p \in Payloads, NEW x \in RxType(Payloads)
    PROVE  Sound(OnContent(r, AckInfo(x), p))
  <1>1. PayloadMode(p) \in Mode /\ PayloadKind(p) \in {Propose, Confirm, Switched}
    BY PayloadParts
  <1>2. Propose # Confirm /\ Propose # Switched /\ Confirm # Switched
    BY DEF Propose, Confirm, Switched
  <1>3. CASE PayloadKind(p) = Propose
    BY <1>1, <1>2, <1>3, OnProposeSound DEF OnContent
  <1>4. CASE PayloadKind(p) = Confirm
    BY <1>1, <1>2, <1>4, OnConfirmSound DEF OnContent
  <1>5. CASE PayloadKind(p) = Switched
    BY <1>1, <1>2, <1>5, OnSwitchedSound DEF OnContent
  <1>6. QED
    BY <1>1, <1>3, <1>4, <1>5

\* The whole handler, acks first, then at most two payloads in order.
LEMMA HandleSound ==
    ASSUME NEW st, StationInv(st), NEW f \in SoundFrame
    PROVE  Sound(HandleCpControl(st, f))
  <1> DEFINE start == [st |-> st, out |-> << >>]
             r == OnAcks(start, f)
             data == RxDelivered(r.st.rx, f.seq, f.payload, CpWindow)
             rx2 == RxReceive(r.st.rx, f.seq, f.payload, CpWindow)
             rcvd == [r EXCEPT !.st.rx = rx2]
             ack == AckInfo(rcvd.st.rx)
  <1>1. start \in Answer /\ start.st = st
    BY EmptySeq DEF Answer, StationInv
  <1>2. Sound(r)
    <2> HIDE DEF start
    <2>1. QED
      BY <1>1, OnAcksSound
  <1>3. HandleCpControl(st, f) =
            IF f.payload = NoPayload THEN r
            ELSE IF data = << >> THEN OnDuplicate(rcvd, ack, f.payload)
            ELSE OnDelivered(rcvd, ack, data)
    BY DEF HandleCpControl
  <1> HIDE DEF r
  <1>4. CASE f.payload = NoPayload
    BY <1>2, <1>3, <1>4
  <1>5. CASE f.payload # NoPayload
    <2>1. f.seq \in SeqNum /\ f.payload \in Payloads
      <3>1. f \in FrameType /\ f.seq # NoSeq
        BY <1>5 DEF SoundFrame
      <3>2. QED
        BY <3>1, <1>5 DEF FrameType
    <2>2. /\ r \in Answer /\ r.st \in StationType /\ r.st.rx \in RxType(Payloads)
          /\ StationInv(r.st) /\ InWindow(r.st.rx, CpWindow)
      BY <1>2 DEF Sound, Answer, StationInv, StationType
    <2>3. /\ rx2 \in RxType(Payloads) /\ data \in Seq(Payloads)
          /\ InWindow(rx2, CpWindow) /\ Len(data) \in 0 .. CpWindow
      BY <2>1, <2>2, Constants, RxReceiveType, ReceiveInWindow
    <2> HIDE DEF rx2, data
    <2>4. Sound(rcvd) /\ rcvd.st.rx = rx2 /\ rcvd \in Answer
      <3> DEFINE st2 == [r.st EXCEPT !.rx = rx2]
      <3>1. /\ st2 \in StationType /\ st2.engine = r.st.engine /\ st2.current = r.st.current
            /\ st2.tx = r.st.tx /\ st2.rx = rx2
            /\ st2.propose_seq = r.st.propose_seq /\ st2.confirm_seq = r.st.confirm_seq
            /\ st2.confirm_mode = r.st.confirm_mode /\ st2.switched_seq = r.st.switched_seq
        BY <2>2, <2>3 DEF StationType
      <3>2. rcvd = [r EXCEPT !.st = st2]
        BY <2>2 DEF Answer
      <3> HIDE DEF st2
      <3>3. StationInv(st2)
        BY <3>1, <2>2, <2>3 DEF StationInv, LegsTracked
      <3>4. rcvd \in Answer /\ rcvd.st = st2
        BY <3>1, <3>2, <2>2 DEF Answer
      <3>5. QED
        BY <3>1, <3>3, <3>4 DEF Sound
    <2> HIDE DEF rcvd
    <2>5. CASE data = << >>
      <3>1. BareAck(rcvd.st, ack, "ackSwitched") \in SoundFrame
        BY <2>3, <2>4, FramesSound DEF Legs, Answer
      <3>2. OnDuplicate(rcvd, ack, f.payload)
               \in {rcvd, Emit(rcvd, BareAck(rcvd.st, ack, "ackSwitched"))}
        BY DEF OnDuplicate
      <3>3. Sound(OnDuplicate(rcvd, ack, f.payload))
        BY <3>1, <3>2, <2>4, EmitSound DEF Sound
      <3>4. QED
        BY <3>3, <2>5, <1>3, <1>5
    <2>6. CASE data # << >>
      <3>1. data[1] \in Payloads /\ (Len(data) # 1 => data[2] \in Payloads)
        <4>1. Len(data) \in {1, 2}
          BY <2>3, <2>6, EmptySeq DEF CpWindow
        <4>2. QED
          BY <4>1, <2>3, ElementOfSeq
      <3>2. Sound(OnContent(rcvd, ack, data[1]))
        BY <3>1, <2>3, <2>4, OnContentSound
      <3>3. Len(data) # 1 => Sound(OnContent(OnContent(rcvd, ack, data[1]), ack, data[2]))
        BY <3>1, <3>2, <2>3, <2>4, OnContentSound
      <3>4. Sound(OnDelivered(rcvd, ack, data))
        BY <3>2, <3>3 DEF OnDelivered
      <3>5. QED
        BY <3>4, <2>6, <1>3, <1>5
    <2>7. QED
      BY <2>5, <2>6
  <1>6. QED
    BY <1>4, <1>5

-----------------------------------------------------------------------------
(* The poll. *)

\* A leg that is given up is no longer waited for.
LEMMA AbandonLegWaits ==
    ASSUME NEW t \in TxType(Payloads), InPlace(t), NEW q \in SeqNum \cup {NoSeq}
    PROVE  /\ AbandonLeg(t, q) \in TxType(Payloads) /\ InPlace(AbandonLeg(t, q))
           /\ AbandonLeg(t, q).next_seq = t.next_seq
           /\ Unacked(AbandonLeg(t, q)) \subseteq Unacked(t) \ {q}
  <1>1. CASE q = NoSeq
    <2>1. q \notin Unacked(t)
      BY <1>1, UnackedType, Constants
    <2>2. QED
      BY <1>1, <2>1 DEF AbandonLeg
  <1>2. CASE q \in SeqNum
    BY <1>2, Constants, AbandonWaits DEF AbandonLeg
  <1>3. QED
    BY <1>1, <1>2

\* G1 to G4 leave a station that tracks whatever it still waits for.
LEMMA ResolveSound ==
    ASSUME NEW st, StationInv(st), NEW expired \in BOOLEAN
    PROVE  StationInv(ResolveCpGiveups(st, expired))
  <1> DEFINE disarmed == [st EXCEPT !.probation = IF expired THEN NoMode ELSE @]
             ticked == NegotiatorTick(st, expired)
             tx2 == AbandonLeg(AbandonLeg(st.tx, st.confirm_seq), st.switched_seq)
             left == [ticked EXCEPT !.tx = tx2]
             walked == IF GivesUp(st, expired) THEN WalkBack(left) ELSE ticked
  <1>1. /\ st \in StationType /\ st.tx \in TxType(Payloads) /\ InPlace(st.tx)
        /\ LegsTracked(st) /\ InWindow(st.rx, CpWindow) /\ st.engine = st.current
        /\ st.confirm_seq \in SeqNum \cup {NoSeq} /\ st.switched_seq \in SeqNum \cup {NoSeq}
        /\ st.propose_seq \in SeqNum \cup {NoSeq}
    BY DEF StationInv, StationType, LegsTracked
  <1>2. /\ disarmed \in StationType /\ disarmed.tx = st.tx /\ disarmed.rx = st.rx
        /\ disarmed.propose_seq = st.propose_seq /\ disarmed.confirm_seq = st.confirm_seq
        /\ disarmed.confirm_mode = st.confirm_mode /\ disarmed.switched_seq = st.switched_seq
        /\ disarmed.engine = st.engine /\ disarmed.current = st.current
        /\ disarmed.revert_to = st.revert_to
    BY <1>1 DEF StationType
  <1>3. ticked = IF TickFires(st, expired) THEN Revert(disarmed) ELSE disarmed
    BY DEF NegotiatorTick
  <1> HIDE DEF disarmed
  <1>4. /\ ticked \in StationType /\ ticked.tx = st.tx /\ ticked.rx = st.rx
        /\ ticked.propose_seq = st.propose_seq /\ ticked.confirm_seq = st.confirm_seq
        /\ ticked.confirm_mode = st.confirm_mode /\ ticked.switched_seq = st.switched_seq
        /\ ticked.engine = st.engine
        /\ ~TickFires(st, expired) => ticked.current = st.current
    BY <1>2, <1>3 DEF Revert, StationType
  <1> HIDE DEF ticked
  <1>5. /\ tx2 \in TxType(Payloads) /\ InPlace(tx2) /\ tx2.next_seq = st.tx.next_seq
        /\ Unacked(tx2) \subseteq Unacked(st.tx) \ {st.confirm_seq, st.switched_seq}
    <2> DEFINE tx1 == AbandonLeg(st.tx, st.confirm_seq)
    <2>1. /\ tx1 \in TxType(Payloads) /\ InPlace(tx1) /\ tx1.next_seq = st.tx.next_seq
          /\ Unacked(tx1) \subseteq Unacked(st.tx) \ {st.confirm_seq}
      BY <1>1, AbandonLegWaits
    <2> HIDE DEF tx1
    <2>2. /\ AbandonLeg(tx1, st.switched_seq) \in TxType(Payloads)
          /\ InPlace(AbandonLeg(tx1, st.switched_seq))
          /\ AbandonLeg(tx1, st.switched_seq).next_seq = tx1.next_seq
          /\ Unacked(AbandonLeg(tx1, st.switched_seq)) \subseteq Unacked(tx1) \ {st.switched_seq}
      BY <1>1, <2>1, AbandonLegWaits
    <2>3. tx2 = AbandonLeg(tx1, st.switched_seq)
      BY DEF tx1
    <2>4. QED
      BY <2>1, <2>2, <2>3
  <1> HIDE DEF tx2
  <1>6. StationInv(walked) /\ walked.propose_seq = st.propose_seq
    <2>1. CASE GivesUp(st, expired)
      <3>1. /\ left \in StationType /\ left.tx = tx2 /\ left.rx = st.rx
            /\ left.propose_seq = st.propose_seq
        BY <1>4, <1>5 DEF StationType
      <3> HIDE DEF left
      <3>2. Unacked(left.tx) \subseteq {left.propose_seq}
        BY <3>1, <1>1, <1>5 DEF LegsTracked
      <3>3. left.tx.next_seq \notin Unacked(left.tx) /\ InPlace(left.tx)
        BY <3>1, <1>1, <1>5 DEF LegsTracked
      <3>4. StationInv(WalkBack(left)) /\ WalkBack(left).propose_seq = st.propose_seq
        BY <3>1, <3>2, <3>3, <1>1, WalkBackInv, WalkBackSound
      <3>5. QED
        BY <3>4, <2>1
    <2>2. CASE ~GivesUp(st, expired)
      <3>1. ticked.current = st.current
        BY <2>2, <1>4 DEF GivesUp
      <3>2. StationInv(ticked)
        BY <3>1, <1>1, <1>4 DEF StationInv, LegsTracked
      <3>3. QED
        BY <3>2, <1>4, <2>2
    <2>3. QED
      BY <2>1, <2>2
  <1>7. ResolveCpGiveups(st, expired) =
            IF LegFailed(st, st.propose_seq)
            THEN [walked EXCEPT !.tx = Abandon(@, st.propose_seq), !.propose_seq = NoSeq]
            ELSE walked
    <2>1. [ticked EXCEPT !.tx = AbandonLeg(AbandonLeg(@, st.confirm_seq), st.switched_seq)] = left
      BY <1>4 DEF tx2, StationType
    <2>2. QED
      BY <2>1 DEF ResolveCpGiveups, ticked
  <1> HIDE DEF walked
  <1>8. CASE ~LegFailed(st, st.propose_seq)
    BY <1>6, <1>7, <1>8
  <1>9. CASE LegFailed(st, st.propose_seq)
    <2> DEFINE tx3 == AbandonLeg(walked.tx, st.propose_seq)
               st3 == [walked EXCEPT !.tx = tx3, !.propose_seq = NoSeq]
    <2>1. walked \in StationType /\ walked.tx \in TxType(Payloads) /\ LegsTracked(walked)
      BY <1>6 DEF StationInv, StationType
    <2>2. /\ tx3 \in TxType(Payloads) /\ InPlace(tx3) /\ tx3.next_seq = walked.tx.next_seq
          /\ Unacked(tx3) \subseteq Unacked(walked.tx) \ {st.propose_seq}
      BY <2>1, <1>1, AbandonLegWaits DEF LegsTracked
    <2>3. ResolveCpGiveups(st, expired) = st3
      <3>1. tx3 = Abandon(walked.tx, st.propose_seq)
        BY <1>9 DEF LegFailed, AbandonLeg
      <3>2. QED
        BY <3>1, <1>7, <1>9, <2>1 DEF StationType
    <2> HIDE DEF tx3
    <2>4. /\ st3 \in StationType /\ st3.tx = tx3 /\ st3.rx = walked.rx
          /\ st3.propose_seq = NoSeq /\ st3.confirm_seq = walked.confirm_seq
          /\ st3.confirm_mode = walked.confirm_mode /\ st3.switched_seq = walked.switched_seq
          /\ st3.engine = walked.engine /\ st3.current = walked.current
      BY <2>1, <2>2 DEF StationType
    <2> HIDE DEF st3
    <2>5. LegsTracked(st3)
      BY <2>1, <2>2, <2>4, <1>6 DEF LegsTracked
    <2>6. QED
      BY <2>3, <2>4, <2>5, <1>6 DEF StationInv
  <1>10. QED
    BY <1>8, <1>9

\* The segments that are resent leave as sound frames, oldest first.
LEMMA ResentSound ==
    ASSUME NEW st \in StationType, NEW timed_out
    PROVE  /\ GetRetransmits(st.tx, timed_out, MaxRetransmit) \in SUBSET SeqNum
           /\ Resent(st, GetRetransmits(st.tx, timed_out, MaxRetransmit)) \in Seq(SoundFrame)
  <1> DEFINE seqs == GetRetransmits(st.tx, timed_out, MaxRetransmit)
             Sorted(o) == \A i, j \in DOMAIN o :
                i < j => WrapSub(o[i], st.tx.send_base) < WrapSub(o[j], st.tx.send_base)
             order == CHOOSE o \in [1 .. Cardinality(seqs) -> seqs] : Sorted(o)
  <1>1. /\ st.tx \in TxType(Payloads) /\ st.rx \in RxType(Payloads)
        /\ st.tx.send_base \in Int /\ InFlight(st.tx) \in Int
    <2>1. st.tx \in TxType(Payloads) /\ st.rx \in RxType(Payloads)
      BY DEF StationType
    <2>2. QED
      BY <2>1, InFlightType DEF TxType, SeqNum
  <1>2. Outstanding(st.tx) \subseteq SeqNum
    BY <1>1, WrapType DEF Outstanding
  <1>3. seqs \in SUBSET SeqNum
    BY <1>2 DEF GetRetransmits
  <1>4. \A q \in seqs : st.tx.tx_buf[SlotOf(q)].data \in Payloads
    <2>1. ASSUME NEW q \in seqs PROVE st.tx.tx_buf[SlotOf(q)].data \in Payloads
      <3>1. st.tx.tx_buf[SlotOf(q)] # NoSegment
        BY DEF GetRetransmits
      <3>2. SlotOf(q) \in Slot
        BY <1>3, WrapType DEF SeqNum
      <3>3. st.tx.tx_buf[SlotOf(q)] \in Segment(Payloads)
        BY <1>1, <3>1, <3>2 DEF TxType
      <3>4. QED
        BY <3>3 DEF Segment
    <2>2. QED
      BY <2>1
  <1> HIDE DEF seqs
  <1>5. order \in [1 .. Cardinality(seqs) -> seqs] /\ Cardinality(seqs) \in Nat
    <2>1. \E o \in [1 .. Cardinality(seqs) -> seqs] : Sorted(o)
      BY <1>1, <1>3, OrderExists
    <2>2. Cardinality(seqs) \in Nat
      BY <1>1, <1>3, OrderExists
    <2> HIDE DEF Sorted
    <2>3. QED
      BY <2>1, <2>2
  <1>6. Resent(st, seqs) = [i \in DOMAIN order |->
            Content(st, order[i], AckInfo(st.rx), st.tx.tx_buf[SlotOf(order[i])].data)]
    BY DEF Resent
  <1> HIDE DEF order
  <1>7. ASSUME NEW i \in 1 .. Cardinality(seqs)
        PROVE  Content(st, order[i], AckInfo(st.rx), st.tx.tx_buf[SlotOf(order[i])].data)
                  \in SoundFrame
    <2>1. order[i] \in seqs /\ order[i] \in SeqNum
      BY <1>3, <1>5
    <2>2. QED
      BY <2>1, <1>1, <1>4, FramesSound DEF Legs
  <1>8. Resent(st, seqs) \in [1 .. Cardinality(seqs) -> SoundFrame]
    BY <1>5, <1>6, <1>7
  <1>9. Resent(st, seqs) \in Seq(SoundFrame)
    BY <1>5, <1>8
  <1>10. QED
    BY <1>3, <1>9 DEF seqs

\* A poll of a sound station leaves it sound.
LEMMA PollSound ==
    ASSUME NEW st, StationInv(st), NEW S \in SUBSET SeqNum, NEW expired \in BOOLEAN
    PROVE  StationInv(ResolveCpGiveups([st EXCEPT !.tx = MarkRetransmitted(@, S)], expired))
  <1> DEFINE tx2 == MarkRetransmitted(st.tx, S)
             st2 == [st EXCEPT !.tx = tx2]
  <1>1. st \in StationType /\ st.tx \in TxType(Payloads) /\ LegsTracked(st)
    BY DEF StationInv, StationType
  <1>2. /\ tx2 \in TxType(Payloads) /\ Unacked(tx2) \subseteq Unacked(st.tx)
        /\ tx2.next_seq = st.tx.next_seq /\ InPlace(tx2)
    BY <1>1, MarkRetransmittedType, RetransmitWaits DEF LegsTracked
  <1>3. [st EXCEPT !.tx = MarkRetransmitted(@, S)] = st2
    BY <1>1 DEF StationType
  <1> HIDE DEF tx2
  <1>4. /\ st2 \in StationType /\ st2.tx = tx2 /\ st2.rx = st.rx
        /\ st2.propose_seq = st.propose_seq /\ st2.confirm_seq = st.confirm_seq
        /\ st2.confirm_mode = st.confirm_mode /\ st2.switched_seq = st.switched_seq
        /\ st2.engine = st.engine /\ st2.current = st.current
    BY <1>1, <1>2 DEF StationType
  <1> HIDE DEF st2
  <1>5. StationInv(st2)
    BY <1>1, <1>2, <1>4 DEF StationInv, LegsTracked
  <1>6. QED
    BY <1>3, <1>5, ResolveSound

-----------------------------------------------------------------------------
(* Every step keeps the invariant. *)

\* A rebuilt station tracks nothing and waits for nothing.
LEMMA NewStation ==
    ASSUME NEW gate \in Mode
    PROVE  StationInv([StationNew EXCEPT !.gate = gate])
  <1> DEFINE st == [StationNew EXCEPT !.gate = gate]
  <1>1. LongCp \in Mode
    BY DEF Mode
  <1>2. /\ ArqTxNew \in TxType(Payloads) /\ ArqRxNew \in RxType(Payloads)
        /\ InPlace(ArqTxNew) /\ Unacked(ArqTxNew) = {} /\ InWindow(ArqRxNew, CpWindow)
    BY NewTx, NewRxInWindow, Constants
  <1>3. /\ st.tx = ArqTxNew /\ st.rx = ArqRxNew /\ st.propose_seq = NoSeq
        /\ st.confirm_seq = NoSeq /\ st.switched_seq = NoSeq
        /\ st.engine = LongCp /\ st.current = LongCp
    BY DEF StationNew
  <1>4. st \in StationType
    BY <1>1, <1>2 DEF StationNew, StationType
  <1> HIDE DEF st
  <1>5. StationInv(st)
    BY <1>2, <1>3, <1>4 DEF StationInv, LegsTracked
  <1>6. QED
    BY <1>5 DEF st

\* The initial stations are sound and the air is empty.
LEMMA CpInit == Init => CpInv
  <1> SUFFICES ASSUME Init PROVE CpInv
    OBVIOUS
  <1>1. LongCp \in Mode /\ StationNew = [StationNew EXCEPT !.gate = LongCp]
    BY DEF Mode, StationNew
  <1>2. StationInv(StationNew)
    BY <1>1, NewStation
  <1>3. StationNew \in StationType
    BY <1>2 DEF StationInv
  <1>4. << >> \in Seq(SoundFrame)
    BY EmptySeq
  <1>5. 0 \in 0 .. MaxFlips /\ 0 \in 0 .. MaxLosses /\ 0 \in 0 .. MaxResets
    BY CpAssumption
  <1>6. QED
    BY <1>2, <1>3, <1>4, <1>5 DEF Init, CpInv

\* A step that changes one station to a sound one and puts sound frames on the
\* air keeps the invariant.
LEMMA OneStation ==
    ASSUME CpInv, NEW s \in Stations, NEW st, StationInv(st),
           station' = [station EXCEPT ![s] = st], air' \in [Stations -> Seq(SoundFrame)],
           flips' \in 0 .. MaxFlips, losses' \in 0 .. MaxLosses, resets' \in 0 .. MaxResets
    PROVE  CpInv'
  <1>1. st \in StationType
    BY DEF StationInv
  <1>2. station' \in [Stations -> StationType]
    BY <1>1 DEF CpInv
  <1>3. \A t \in Stations : station'[t] = IF t = s THEN st ELSE station[t]
    BY DEF CpInv
  <1>4. \A t \in Stations : StationInv(station'[t])
    BY <1>3 DEF CpInv
  <1>5. QED
    BY <1>2, <1>4 DEF CpInv

\* CpGate proposes only for a station with no leg out.
LEMMA GateStep ==
    ASSUME CpInv, NEW s \in Stations, CpGateTransition(s)
    PROVE  CpInv'
  <1> DEFINE st == station[s]
             mode == 1 - st.gate
             p == Payload(Propose, mode)
             f == Content(st, st.tx.next_seq, AckInfo(st.rx), p)
             waits == [st EXCEPT !.gate = mode]
             sends == [st EXCEPT !.gate = mode, !.propose_seq = st.tx.next_seq,
                                 !.tx = TxSend(@, p)]
  <1>1. /\ StationInv(st) /\ st \in StationType /\ st.tx \in TxType(Payloads)
        /\ st.rx \in RxType(Payloads) /\ LegsTracked(st)
        /\ air \in [Stations -> Seq(SoundFrame)]
    BY DEF CpInv, StationInv, StationType
  <1>2. mode \in Mode
    <2>1. st.gate \in Mode
      BY <1>1 DEF StationType
    <2>2. QED
      BY <2>1 DEF Mode, LongCp, ShortCp
  <1>3. p \in Payloads
    BY <1>2, PayloadParts
  <1>4. flips' \in 0 .. MaxFlips /\ losses' \in 0 .. MaxLosses /\ resets' \in 0 .. MaxResets
    BY CpAssumption DEF CpInv, CpGateTransition
  <1>5. CASE InFlightCp(st) \/ ~CanSend(st.tx, CpWindow)
    <2>1. station' = [station EXCEPT ![s].gate = mode] /\ air' = air
      BY <1>5 DEF CpGateTransition
    <2>2. station' = [station EXCEPT ![s] = waits]
      BY <2>1
    <2> HIDE DEF mode
    <2>3. /\ waits \in StationType /\ waits.tx = st.tx /\ waits.rx = st.rx
          /\ waits.propose_seq = st.propose_seq /\ waits.confirm_seq = st.confirm_seq
          /\ waits.confirm_mode = st.confirm_mode /\ waits.switched_seq = st.switched_seq
          /\ waits.engine = st.engine /\ waits.current = st.current
      BY <1>1, <1>2 DEF StationType
    <2> HIDE DEF waits
    <2>4. StationInv(waits)
      BY <1>1, <2>3 DEF StationInv, LegsTracked
    <2>5. QED
      BY <1>1, <1>4, <2>1, <2>2, <2>4, OneStation
  <1>6. CASE ~InFlightCp(st) /\ CanSend(st.tx, CpWindow)
    <2>1. /\ station' = [station EXCEPT ![s].gate = mode, ![s].propose_seq = st.tx.next_seq,
                                        ![s].tx = TxSend(st.tx, p)]
          /\ air' = [air EXCEPT ![s] = Append(@, f)]
      BY <1>6 DEF CpGateTransition
    <2>2. station' = [station EXCEPT ![s] = sends]
      BY <2>1, <1>1 DEF CpInv, StationType
    <2>3. st.propose_seq = NoSeq /\ st.confirm_seq = NoSeq /\ st.switched_seq = NoSeq
      BY <1>6 DEF InFlightCp, NegotiationInFlight
    <2>4. Unacked(st.tx) = {} /\ InPlace(st.tx)
      <3>1. Unacked(st.tx) \subseteq {NoSeq} /\ NoSeq \notin Unacked(st.tx)
        BY <2>3, <1>1, UnackedType, Constants DEF LegsTracked
      <3>2. QED
        BY <3>1, <1>1 DEF LegsTracked
    <2>5. /\ TxSend(st.tx, p) \in TxType(Payloads) /\ InPlace(TxSend(st.tx, p))
          /\ Unacked(TxSend(st.tx, p)) \subseteq {st.tx.next_seq}
          /\ TxSend(st.tx, p).next_seq \notin Unacked(TxSend(st.tx, p))
          /\ st.tx.next_seq \in SeqNum
      BY <1>1, <1>3, <2>4, SendLeg
    <2> HIDE DEF mode, p
    <2>6. /\ sends \in StationType /\ sends.tx = TxSend(st.tx, p) /\ sends.rx = st.rx
          /\ sends.propose_seq = st.tx.next_seq /\ sends.confirm_seq = NoSeq
          /\ sends.switched_seq = NoSeq
          /\ sends.engine = st.engine /\ sends.current = st.current
      BY <1>1, <1>2, <2>3, <2>5 DEF StationType
    <2> HIDE DEF sends
    <2>7. StationInv(sends)
      BY <1>1, <2>5, <2>6 DEF StationInv, LegsTracked
    <2>8. f \in SoundFrame
      BY <1>1, <1>3, <2>5, FramesSound DEF Legs
    <2> HIDE DEF f
    <2>9. air' \in [Stations -> Seq(SoundFrame)]
      <3>1. Append(air[s], f) \in Seq(SoundFrame)
        BY <1>1, <2>8, AppendProperties
      <3>2. QED
        BY <1>1, <2>1, <3>1
    <2>10. QED
      BY <1>4, <2>2, <2>7, <2>9, OneStation
  <1>7. QED
    BY <1>5, <1>6

\* A frame that is met is handled whole; one under another profile is dropped.
LEMMA DeliverStep ==
    ASSUME CpInv, NEW s \in Stations, Deliver(s)
    PROVE  CpInv'
  <1> DEFINE p == Peer(s)
             f == Head(air[s])
             r == HandleCpControl(station[p], f)
  <1>1. p \in Stations /\ p # s
    BY PeerIsOther
  <1> HIDE DEF p
  <1>2. /\ StationInv(station[p]) /\ air[s] \in Seq(SoundFrame) /\ air[p] \in Seq(SoundFrame)
        /\ air \in [Stations -> Seq(SoundFrame)] /\ air[s] # << >>
        /\ f \in SoundFrame /\ Tail(air[s]) \in Seq(SoundFrame)
    BY <1>1, HeadTailProperties DEF CpInv, Deliver
  <1> HIDE DEF f
  <1>3. Sound(r)
    BY <1>2, HandleSound
  <1> HIDE DEF r
  <1>4. StationInv(r.st) /\ r.out \in Seq(SoundFrame) /\ r.st \in StationType
    BY <1>3 DEF Sound, Answer
  <1>5. flips' = flips /\ losses' = losses /\ resets' = resets
    BY DEF Deliver
  <1>6. CASE f.mode = station[p].engine
    <2>1. /\ station' = [station EXCEPT ![p] = r.st]
          /\ air' = [air EXCEPT ![s] = Tail(@), ![p] = @ \o r.out]
      BY <1>6 DEF Deliver, p, f, r
    <2>2. air[p] \o r.out \in Seq(SoundFrame)
      BY <1>2, <1>4, ConcatProperties
    <2>3. air' \in [Stations -> Seq(SoundFrame)]
      BY <1>1, <1>2, <2>1, <2>2
    <2>4. QED
      BY <1>1, <1>4, <1>5, <2>1, <2>3, OneStation DEF CpInv
  <1>7. CASE f.mode # station[p].engine
    <2>1. station' = station /\ air' = [air EXCEPT ![s] = Tail(@)]
      BY <1>7 DEF Deliver, p, f
    <2>2. air' \in [Stations -> Seq(SoundFrame)]
      BY <1>2, <2>1
    <2>3. QED
      BY <1>5, <2>1, <2>2 DEF CpInv
  <1>8. QED
    BY <1>6, <1>7

\* A poll that resends and resolves what has failed.
LEMMA PollStep ==
    ASSUME CpInv, NEW s \in Stations, NEW timed_out, NEW expired \in BOOLEAN,
           Poll(s, timed_out, expired)
    PROVE  CpInv'
  <1> DEFINE st == station[s]
             seqs == GetRetransmits(st.tx, timed_out, MaxRetransmit)
             st2 == ResolveCpGiveups([st EXCEPT !.tx = MarkRetransmitted(@, seqs)], expired)
  <1>1. StationInv(st) /\ st \in StationType /\ air \in [Stations -> Seq(SoundFrame)]
    BY DEF CpInv, StationInv
  <1>2. seqs \in SUBSET SeqNum /\ Resent(st, seqs) \in Seq(SoundFrame)
    BY <1>1, ResentSound
  <1>3. /\ station' = [station EXCEPT ![s] = st2]
        /\ air' = [air EXCEPT ![s] = Resent(st, seqs)]
        /\ flips' = flips /\ losses' = losses /\ resets' = resets
    BY Zenon DEF Poll
  <1> HIDE DEF seqs
  <1>4. StationInv(st2)
    BY <1>1, <1>2, PollSound
  <1> HIDE DEF st2
  <1>5. air' \in [Stations -> Seq(SoundFrame)]
    BY <1>1, <1>2, <1>3
  <1>6. QED
    BY <1>3, <1>4, <1>5, OneStation DEF CpInv

\* Whatever step is taken, each station stays sound.
LEMMA CpStep ==
    ASSUME CpInv, [Next]_vars
    PROVE  CpInv'
  <1>1. ASSUME NEW s \in Stations, Lose(s) PROVE CpInv'
    <2>1. /\ air' = [air EXCEPT ![s] = Tail(@)] /\ air[s] # << >> /\ air[s] \in Seq(SoundFrame)
          /\ station' = station /\ flips' = flips /\ resets' = resets
      BY <1>1 DEF Lose, CpInv
    <2>2. Tail(air[s]) \in Seq(SoundFrame)
      BY <2>1, HeadTailProperties
    <2>3. air' \in [Stations -> Seq(SoundFrame)]
      BY <2>1, <2>2 DEF CpInv
    <2>4. losses' \in 0 .. MaxLosses
      BY <1>1, CpAssumption DEF Lose, CpInv
    <2>5. QED
      BY <2>1, <2>3, <2>4 DEF CpInv
  <1>2. ASSUME NEW s \in Stations, Reset(s) PROVE CpInv'
    <2>1. StationInv(HandleReset(station[s]))
      <3>1. station[s].gate \in Mode
        BY DEF CpInv, StationType
      <3>2. QED
        BY <3>1, NewStation DEF HandleReset
    <2>2. station' = [station EXCEPT ![s] = HandleReset(station[s])]
      BY <1>2 DEF Reset
    <2>3. air' \in [Stations -> Seq(SoundFrame)] /\ flips' = flips /\ losses' = losses
      BY <1>2 DEF Reset, CpInv
    <2>4. resets' \in 0 .. MaxResets
      BY <1>2, CpAssumption DEF Reset, CpInv
    <2>5. QED
      BY <2>1, <2>2, <2>3, <2>4, OneStation DEF CpInv
  <1>3. CASE UNCHANGED vars
    BY <1>3 DEF vars, CpInv
  <1>4. CASE Next
    <2>1. PICK s \in Stations : CpGateTransition(s) \/ Deliver(s) \/ Lose(s) \/ PollAny(s) \/ Reset(s)
      BY <1>4 DEF Next
    <2>2. CASE PollAny(s)
      BY <2>2, PollStep DEF PollAny
    <2>3. QED
      BY <2>1, <2>2, <1>1, <1>2, GateStep, DeliverStep
  <1>5. QED
    BY <1>3, <1>4

\* Each station stays sound, each frame on the air is a sound one.
THEOREM CpInductive == Spec => []CpInv
  BY CpInit, CpStep, PTL DEF Spec

\* Every variable keeps its type, whatever is lost, reset or given up.
THEOREM CpTypeOK == Spec => []TypeOK
  <1>1. SoundFrame \subseteq FrameType
    BY DEF SoundFrame
  <1>2. Seq(SoundFrame) \subseteq Seq(FrameType)
    BY <1>1
  <1>3. CpInv => TypeOK
    BY <1>2 DEF CpInv, TypeOK
  <1>4. QED
    BY <1>3, CpInductive, PTL

\* COP-2's canary never fires: between handlers the engine is on the mode the
\* negotiator believes in (check_cp_desync).
THEOREM EngineAgrees == Spec => []EngineFollowsNegotiator
  <1>1. CpInv => EngineFollowsNegotiator
    BY DEF CpInv, StationInv, EngineFollowsNegotiator
  <1>2. QED
    BY <1>1, CpInductive, PTL

\* No segment parks in the two-slot window: each unacknowledged one is a leg
\* that a give-up trigger watches (resolve_cp_giveups).
THEOREM NoOrphans == Spec => []NoOrphanLeg
  <1>1. CpInv => NoOrphanLeg
    <2>1. SUFFICES ASSUME CpInv, NEW s \in Stations, NEW i \in Slot,
                          station[s].tx.tx_buf[i] # NoSegment, ~station[s].tx.tx_buf[i].acked
                   PROVE  station[s].tx.tx_buf[i].seq_num
                             \in {station[s].propose_seq, station[s].confirm_seq,
                                  station[s].switched_seq}
      BY DEF NoOrphanLeg
    <2>2. LegsTracked(station[s])
      BY <2>1 DEF CpInv, StationInv
    <2>3. station[s].tx.tx_buf[i].seq_num \in Unacked(station[s].tx)
      BY <2>1 DEF Unacked, Waiting
    <2>4. QED
      BY <2>2, <2>3 DEF LegsTracked
  <1>2. QED
    BY <1>1, CpInductive, PTL
=============================================================================
