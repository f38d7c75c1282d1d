--------------------------- MODULE CpNegotiation ---------------------------
(***************************************************************************)
(* The cyclic-prefix switch handshake between two daemons: CpNegotiator    *)
(* (coppa-protocol/cp_negotiator.rs) driven by the CP-control ARQ pair and *)
(* the engine profile of the event loop (coppa-daemon/event_loop.rs).      *)
(*                                                                         *)
(*   B: Propose(mode)  -> A: Confirm(mode) -> B: bare ack, switch          *)
(*   A: switch, Switched(mode) under the new profile -> B: bare ack        *)
(*                                                                         *)
(* A frame is decoded only by a station whose engine is on the profile it  *)
(* was encoded with, so a disagreement about the mode is a dead link.      *)
(* Every wait has a give-up trigger, G1 to G4, that should bring both      *)
(* stations back to the mode they shared.                                  *)
(*                                                                         *)
(* RTOs and the probation deadline are nondeterministic, within what their *)
(* lengths allow: an RTO covers a burst, two turnarounds and the ack, so a *)
(* station retransmits once its own frames and an answer to them have left *)
(* the air; a probation of 180 s ends only when no frame is on the air.    *)
(* ProbationOutlasts says whether it also outlasts the peer's retries, as  *)
(* SWITCH_PROBATION_SECS is meant to (135 s of retries at the initial RTO; *)
(* an RTO still backed off from an earlier failure makes them longer).     *)
(***************************************************************************)
EXTENDS Arq, Sequences

CONSTANTS
    Stations,       \* the two daemons
    Proposers,      \* the stations configured with cp_gate_enabled
    MaxRetransmit,  \* DEFAULT_MAX_RETRANSMIT, 5
    LossyLegs,      \* legs of the handshake whose every copy may be lost
    ProbationOutlasts,  \* whether G3 waits for the peer's G2 and G4
    MaxLosses,      \* bound: further frames that may be lost, of any leg
    MaxFlips,       \* bound: CpGate transitions of both stations together
    MaxResets       \* bound: Reset PDUs that reach either station

ASSUME CpAssumption ==
    /\ Cardinality(Stations) = 2 /\ Proposers \subseteq Stations
    /\ MaxRetransmit \in Nat /\ MaxRetransmit < CountMax
    /\ ProbationOutlasts \in BOOLEAN
    /\ {MaxLosses, MaxFlips, MaxResets} \subseteq Nat
    /\ ValidWindow(2)

VARIABLES
    station,        \* station[s]: the CP-control state of daemon s
    air,            \* air[s]: frames s has sent and the peer has not yet met
    flips, losses, resets   \* bound counters

vars == <<station, air, flips, losses, resets>>

Peer(s) == CHOOSE p \in Stations : p # s

LongCp == 0
ShortCp == 1
Mode == {LongCp, ShortCp}
NoMode == 2
NoSeq == SeqMod

\* The CP-control pair is built with window_size 2.
CpWindow == 2

Propose == 1
Confirm == 2
Switched == 3
\* The payload bytes [kind, mode] as one number; 0 is the empty payload.
Payload(kind, mode) == 2 * kind + mode
NoPayload == 0
PayloadKind(p) == p \div 2
PayloadMode(p) == p % 2
Payloads == {Payload(k, m) : k \in {Propose, Confirm, Switched}, m \in Mode}

Legs == {"propose", "confirm", "ackConfirm", "switched", "ackSwitched"}
LegOf(p) == CASE PayloadKind(p) = Propose -> "propose"
              [] PayloadKind(p) = Confirm -> "confirm"
              [] PayloadKind(p) = Switched -> "switched"

(***************************************************************************)
(* engine is the CP profile on air; the fields from current to probation   *)
(* are CpNegotiator's (probation without its deadline, pending_confirm as  *)
(* a pair); propose_seq and gate belong to the event loop.                 *)
(***************************************************************************)
StationType ==
    [tx : TxType(Payloads), rx : RxType(Payloads),
     current : Mode, revert_to : Mode \cup {NoMode},
     confirm_seq : SeqNum \cup {NoSeq}, confirm_mode : Mode \cup {NoMode},
     switched_seq : SeqNum \cup {NoSeq}, probation : Mode \cup {NoMode},
     propose_seq : SeqNum \cup {NoSeq}, engine : Mode, gate : Mode]

StationNew ==
    [tx |-> ArqTxNew, rx |-> ArqRxNew, current |-> LongCp, revert_to |-> NoMode,
     confirm_seq |-> NoSeq, confirm_mode |-> NoMode, switched_seq |-> NoSeq,
     probation |-> NoMode, propose_seq |-> NoSeq, engine |-> LongCp, gate |-> LongCp]

FrameType ==
    [mode : Mode, seq : SeqNum \cup {NoSeq}, ack_num : SeqNum,
     bitmap : SUBSET (0 .. SackRange - 1), payload : Payloads \cup {NoPayload}, leg : Legs]

\* new_cp_control_content and new_cp_control_ack, encoded under st's profile.
Content(st, seq, ack, p) ==
    [mode |-> st.engine, seq |-> seq, ack_num |-> ack.ack_num, bitmap |-> ack.bitmap,
     payload |-> p, leg |-> LegOf(p)]
BareAck(st, ack, leg) ==
    [mode |-> st.engine, seq |-> NoSeq, ack_num |-> ack.ack_num, bitmap |-> ack.bitmap,
     payload |-> NoPayload, leg |-> leg]

-----------------------------------------------------------------------------
(* CpNegotiator *)

NegotiationInFlight(st) ==
    st.confirm_seq # NoSeq \/ st.switched_seq # NoSeq \/ st.probation # NoMode

\* Faulty variant: the event loop forgets the Propose it tracks itself.
InFlightCp_NegotiatorOnly(st) == NegotiationInFlight(st)
\* EventLoop::cp_negotiation_in_flight
InFlightCp(st) == st.propose_seq # NoSeq \/ NegotiationInFlight(st)

\* revert_to.get_or_insert(current)
ArmRevert(st) == [st EXCEPT !.revert_to = IF @ = NoMode THEN st.current ELSE @]

TrackPendingConfirm(st, seq, mode) ==
    [ArmRevert(st) EXCEPT !.confirm_seq = seq, !.confirm_mode = mode]

\* apply_as_confirmer, and the set_cp_profile its caller pairs it with.
ApplyAsConfirmer(st, mode) ==
    [ArmRevert(st) EXCEPT !.current = mode, !.probation = mode, !.engine = mode]

AcceptsSwitched(st, mode) == st.probation = mode
OnPeerSwitched(st) == [st EXCEPT !.probation = NoMode, !.revert_to = NoMode]

Revert(st) ==
    [st EXCEPT !.current = IF st.revert_to = NoMode THEN @ ELSE st.revert_to,
               !.revert_to = NoMode]

\* Faulty variant: gives up to LongCp, whatever the stations agreed on before.
Abort_LongCp(st) ==
    [st EXCEPT !.confirm_seq = NoSeq, !.confirm_mode = NoMode, !.switched_seq = NoSeq,
               !.probation = NoMode, !.revert_to = NoMode, !.current = LongCp]
Abort(st) ==
    Revert([st EXCEPT !.confirm_seq = NoSeq, !.confirm_mode = NoMode,
                      !.switched_seq = NoSeq, !.probation = NoMode])

\* tick: an expired probation is disarmed, and reverts only what was armed.
TickFires(st, expired) == expired /\ st.revert_to # NoMode
NegotiatorTick(st, expired) ==
    LET disarmed == [st EXCEPT !.probation = IF expired THEN NoMode ELSE @]
    IN IF TickFires(st, expired) THEN Revert(disarmed) ELSE disarmed

SetCpProfile(st) == [st EXCEPT !.engine = st.current]

-----------------------------------------------------------------------------
(* handle_cp_control.  r = [st, out]: the state so far and the frames sent. *)

Emit(r, frame) == [r EXCEPT !.out = Append(@, frame)]

\* send_cp_switched, after the engine has moved to the new profile; without
\* room for the leg no G4 could arm, so the switch is walked back.
SendCpSwitched(r) ==
    LET st == r.st
        p == Payload(Switched, st.current)
    IN IF CanSend(st.tx, CpWindow)
       THEN Emit([r EXCEPT !.st = [st EXCEPT !.tx = TxSend(@, p), !.switched_seq = st.tx.next_seq]],
                 Content(st, st.tx.next_seq, AckInfo(st.rx), p))
       ELSE [r EXCEPT !.st = SetCpProfile(Abort(st))]

\* The acknowledgement half: process_ack, G1 bookkeeping, the confirmer's
\* switch with its third leg, the third leg's own ack.
OnAcks(r, f) ==
    LET acked == NewlyAcked(r.st.tx, f.ack_num, f.bitmap)
        base == [r.st EXCEPT !.tx = ProcessAck(@, f.ack_num, f.bitmap),
                             !.propose_seq = IF @ \in acked THEN NoSeq ELSE @]
        switches == base.confirm_seq \in acked
        switched == IF ~switches THEN [r EXCEPT !.st = base]
                    ELSE SendCpSwitched([r EXCEPT !.st =
                            SetCpProfile([base EXCEPT !.confirm_seq = NoSeq, !.confirm_mode = NoMode,
                                                      !.current = base.confirm_mode])])
    IN IF switched.st.switched_seq \in acked
       THEN [switched EXCEPT !.st.switched_seq = NoSeq, !.st.revert_to = NoMode]
       ELSE switched

\* A delivered Propose: dropped without an ack when this station is itself
\* negotiating or has no room for the Confirm.
OnPropose(r, ack, mode) ==
    LET st == r.st
        p == Payload(Confirm, mode)
    IN IF InFlightCp(st) \/ ~CanSend(st.tx, CpWindow) THEN r
       ELSE Emit([r EXCEPT !.st = TrackPendingConfirm([st EXCEPT !.tx = TxSend(@, p)],
                                                      st.tx.next_seq, mode)],
                 Content(st, st.tx.next_seq, ack, p))

\* A delivered Confirm: the ack leaves under the old profile, then the switch.
OnConfirm(r, ack, mode) ==
    LET sent == Emit(r, BareAck(r.st, ack, "ackConfirm"))
    IN [sent EXCEPT !.st = ApplyAsConfirmer(@, mode)]

\* A delivered third leg is acked only when it is the awaited one.
OnSwitched(r, ack, mode) ==
    IF ~AcceptsSwitched(r.st, mode) THEN r
    ELSE Emit([r EXCEPT !.st = OnPeerSwitched(@)], BareAck(r.st, ack, "ackSwitched"))

OnContent(r, ack, p) ==
    CASE PayloadKind(p) = Propose -> OnPropose(r, ack, PayloadMode(p))
      [] PayloadKind(p) = Confirm -> OnConfirm(r, ack, PayloadMode(p))
      [] PayloadKind(p) = Switched -> OnSwitched(r, ack, PayloadMode(p))

\* Content that delivered nothing: only a third leg naming the mode this
\* station is on is acked again.
\* Faulty variant: a duplicate third leg is swallowed, its lost ack never resent.
OnDuplicate_Silent(r, ack, p) == r
OnDuplicate(r, ack, p) ==
    IF PayloadKind(p) = Switched /\ PayloadMode(p) = r.st.current
    THEN Emit(r, BareAck(r.st, ack, "ackSwitched"))
    ELSE r

\* What became deliverable, in order: a window of two holds no more than two.
OnDelivered(r, ack, data) ==
    LET first == OnContent(r, ack, data[1])
    IN IF Len(data) = 1 THEN first ELSE OnContent(first, ack, data[2])

HandleCpControl(st, f) ==
    LET r == OnAcks([st |-> st, out |-> << >>], f)
        data == RxDelivered(r.st.rx, f.seq, f.payload, CpWindow)
        rcvd == [r EXCEPT !.st.rx = RxReceive(@, f.seq, f.payload, CpWindow)]
        ack == AckInfo(rcvd.st.rx)
    IN IF f.payload = NoPayload THEN r
       ELSE IF data = << >> THEN OnDuplicate(rcvd, ack, f.payload)
       ELSE OnDelivered(rcvd, ack, data)

-----------------------------------------------------------------------------
(* The 500 ms poll: retransmissions, then the give-up triggers. *)

LegFailed(st, seq) == seq # NoSeq /\ IsFailed(st.tx, seq, MaxRetransmit)

\* Faulty variant: G4 is never consulted.
GivesUp_NoG4(st, expired) == LegFailed(st, st.confirm_seq) \/ TickFires(st, expired)
\* G2, G3 or G4.
GivesUp(st, expired) ==
    LegFailed(st, st.confirm_seq) \/ TickFires(st, expired) \/ LegFailed(st, st.switched_seq)

WalkBack(st) == SetCpProfile(Abort(st))

AbandonLeg(tx, seq) == IF seq = NoSeq THEN tx ELSE Abandon(tx, seq)

\* resolve_cp_giveups: the tracked legs are read first and abandoned together,
\* one abort serves G2 to G4; G1 only frees the Propose.
ResolveCpGiveups(st, expired) ==
    LET ticked == NegotiatorTick(st, expired)
        walked == IF GivesUp(st, expired)
                  THEN WalkBack([ticked EXCEPT !.tx =
                          AbandonLeg(AbandonLeg(@, st.confirm_seq), st.switched_seq)])
                  ELSE ticked
    IN IF LegFailed(st, st.propose_seq)
       THEN [walked EXCEPT !.tx = Abandon(@, st.propose_seq), !.propose_seq = NoSeq]
       ELSE walked

\* The segments to resend, oldest first, each under the engine's profile now.
Resent(st, seqs) ==
    LET age(seq) == WrapSub(seq, st.tx.send_base)
        order == CHOOSE o \in [1 .. Cardinality(seqs) -> seqs] :
                    \A i, j \in DOMAIN o : i < j => age(o[i]) < age(o[j])
    IN [i \in DOMAIN order |->
            Content(st, order[i], AckInfo(st.rx), st.tx.tx_buf[SlotOf(order[i])].data)]

\* Faulty variant: the engine stays on the profile it had.
HandleReset_NoEngine(st) == [StationNew EXCEPT !.gate = st.gate, !.engine = st.engine]
\* The Reset arm of decode_and_dispatch_audio, its CP half: the pair and the
\* negotiator are rebuilt and the engine follows them; CpGate is not touched.
HandleReset(st) == [StationNew EXCEPT !.gate = st.gate]

-----------------------------------------------------------------------------
Init ==
    /\ station = [s \in Stations |-> StationNew]
    /\ air = [s \in Stations |-> << >>]
    /\ flips = 0
    /\ losses = 0
    /\ resets = 0

\* CpGate::observe changed its recommendation; the event loop proposes the
\* new mode unless a negotiation is in flight or the window is full.
CpGateTransition(s) ==
    LET st == station[s]
        mode == 1 - st.gate
        p == Payload(Propose, mode)
    IN /\ s \in Proposers
       /\ flips < MaxFlips
       /\ flips' = flips + 1
       /\ IF InFlightCp(st) \/ ~CanSend(st.tx, CpWindow)
          THEN /\ station' = [station EXCEPT ![s].gate = mode]
               /\ UNCHANGED air
          ELSE /\ station' = [station EXCEPT ![s].gate = mode,
                                             ![s].propose_seq = st.tx.next_seq,
                                             ![s].tx = TxSend(@, p)]
               /\ air' = [air EXCEPT ![s] = Append(@, Content(st, st.tx.next_seq, AckInfo(st.rx), p))]
       /\ UNCHANGED <<losses, resets>>

\* The oldest frame from s reaches the peer; a frame under another profile
\* than the peer's is noise to it.
Deliver(s) ==
    LET p == Peer(s)
        f == Head(air[s])
        r == HandleCpControl(station[p], f)
    IN /\ air[s] # << >>
       /\ IF f.mode = station[p].engine
          THEN /\ station' = [station EXCEPT ![p] = r.st]
               /\ air' = [air EXCEPT ![s] = Tail(@), ![p] = @ \o r.out]
          ELSE /\ air' = [air EXCEPT ![s] = Tail(@)]
               /\ UNCHANGED station
       /\ UNCHANGED <<flips, losses, resets>>

Lose(s) ==
    /\ air[s] # << >>
    /\ \/ Head(air[s]).leg \in LossyLegs /\ UNCHANGED losses
       \/ Head(air[s]).leg \notin LossyLegs /\ losses < MaxLosses /\ losses' = losses + 1
    /\ air' = [air EXCEPT ![s] = Tail(@)]
    /\ UNCHANGED <<station, flips, resets>>

\* check_arq_retransmits, its CP-control half: the segments in `timed_out`
\* have outlived their RTO, and `expired` says whether probation is over.
Poll(s, timed_out, expired) ==
    LET st == station[s]
        seqs == GetRetransmits(st.tx, timed_out, MaxRetransmit)
    IN /\ air[s] = << >>
       /\ \A i \in DOMAIN air[Peer(s)] :
              LET f == air[Peer(s)][i] IN NewlyAcked(st.tx, f.ack_num, f.bitmap) \cap timed_out = {}
       /\ expired => /\ st.probation # NoMode /\ air[Peer(s)] = << >>
                     /\ ProbationOutlasts => /\ station[Peer(s)].confirm_seq = NoSeq
                                             /\ station[Peer(s)].switched_seq = NoSeq
       /\ station' = [station EXCEPT ![s] =
              ResolveCpGiveups([st EXCEPT !.tx = MarkRetransmitted(@, seqs)], expired)]
       /\ air' = [air EXCEPT ![s] = Resent(st, seqs)]
       /\ UNCHANGED <<flips, losses, resets>>

\* Nothing in coppad sends a Reset; another implementation may, at any time.
\* Frames already on the air keep the numbers and the profile they left with.
Reset(s) ==
    /\ resets < MaxResets
    /\ resets' = resets + 1
    /\ station' = [station EXCEPT ![s] = HandleReset(@)]
    /\ UNCHANGED <<air, flips, losses>>

PollAny(s) ==
    \E timed_out \in SUBSET Outstanding(station[s].tx), expired \in BOOLEAN :
        Poll(s, timed_out, expired)

Next == \E s \in Stations : CpGateTransition(s) \/ Deliver(s) \/ Lose(s) \/ PollAny(s) \/ Reset(s)

Spec == Init /\ [][Next]_vars

(***************************************************************************)
(* The poll runs every 500 ms and every deadline passes in the end; a      *)
(* frame on the air is met or lost.                                        *)
(***************************************************************************)
PollAll(s) == Poll(s, Outstanding(station[s].tx), FALSE)
Expire(s) == Poll(s, {}, TRUE)
FairSpec ==
    /\ Spec
    /\ \A s \in Stations :
          WF_vars(Deliver(s) \/ Lose(s)) /\ WF_vars(PollAll(s)) /\ WF_vars(Expire(s))

-----------------------------------------------------------------------------
(* Properties *)

\* The shapes of the stations and of the frames on the air.
TypeOK ==
    /\ station \in [Stations -> StationType]
    /\ air \in [Stations -> Seq(FrameType)]
    /\ flips \in 0 .. MaxFlips /\ losses \in 0 .. MaxLosses /\ resets \in 0 .. MaxResets

Settled ==
    \A s \in Stations : air[s] = << >> /\ ~InFlightCp(station[s])

(***************************************************************************)
(* Once no negotiation is in flight on either station and the air is       *)
(* clear, both engines are on the same profile: whatever was lost, the     *)
(* give-up triggers left the stations able to hear each other              *)
(* (cp_negotiator.rs, "every wait state converges").  A Reset puts one     *)
(* station back on LongCp and tells the other nothing, so it is excepted.  *)
(***************************************************************************)
Converged == Settled /\ resets = 0 => \A s, t \in Stations : station[s].engine = station[t].engine

(***************************************************************************)
(* COP-2's canary, condition 1 (check_cp_desync): between handlers the     *)
(* engine's profile is the mode the negotiator believes in.                *)
(***************************************************************************)
EngineFollowsNegotiator == \A s \in Stations : station[s].engine = station[s].current

(***************************************************************************)
(* No segment parks in the two-slot window: whatever is still unacked has  *)
(* a give-up trigger watching it (G1, G2 or G4), so the window comes back  *)
(* (resolve_cp_giveups; the re-entrancy guards exist for this).            *)
(***************************************************************************)
NoOrphanLeg ==
    \A s \in Stations : LET st == station[s] IN
        \A i \in Slot : st.tx.tx_buf[i] # NoSegment /\ ~st.tx.tx_buf[i].acked =>
            st.tx.tx_buf[i].seq_num \in {st.propose_seq, st.confirm_seq, st.switched_seq}

(***************************************************************************)
(* No station waits forever: every negotiation that is in flight resolves, *)
(* by its acks or by G1 to G4, whatever the channel loses.                 *)
(***************************************************************************)
NegotiationEnds ==
    \A s \in Stations : InFlightCp(station[s]) ~> ~InFlightCp(station[s])
=============================================================================
