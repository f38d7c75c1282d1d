---------------------------- MODULE DaemonSession ----------------------------
(***************************************************************************)
(* The connected session of coppad (event_loop.rs with session.rs and      *)
(* session_outer.rs) at both ends of one half-duplex channel: the session  *)
(* table, the CONNECT handshake, the stop-and-wait link over module Arq    *)
(* with its backlog, RS(12,6) bursts and delayed block ACK, the fade hold, *)
(* the drained DISCONNECT, ABORT, the reaper, and what hosts are told.     *)
(*                                                                         *)
(* A station is a record, the event loop's functions are operators on it,  *)
(* and an action is one event of run().  One payload stands for the bytes  *)
(* of one frame.  `sid` (sessions established so far), `submitted` and     *)
(* `ended` are ghosts.  `Stranger` is any third station that calls.        *)
(*                                                                         *)
(* A frame refused by the transmitter is one lost on the air, except where *)
(* the code keeps the payload: the first send of data and the block ACK    *)
(* (`refuse`).  A tick is the capped RTO (60 s); it passes when nothing    *)
(* shorter is due.  Below the cap the RTO may run out at any poll.         *)
(***************************************************************************)
EXTENDS Arq, Sequences

CONSTANTS
    Stations, Stranger,
    Slots, NoSlot,      \* SessionManager::sessions, 16 in the code
    FadeProtection,     \* [session] fade_protection, per station
    MaxRetransmit,      \* DEFAULT_MAX_RETRANSMIT
    Grant,              \* SESSION_FALLBACK_ATTEMPT_GRANT
    NoEvidenceTicks,    \* SESSION_FALLBACK_NO_EVIDENCE
    KeepaliveTicks, HandshakeTicks, SessionTicks, DisconnectTicks,
    Callers, Senders,   \* bound: stations whose host dials, sends data
    MayAbort,           \* bound: hosts send ABORT
    MaxCalls,           \* bound: calls dialled and frames from the Stranger
    MaxPayload          \* bound: payloads of a session

ASSUME SessionAssumption ==
    /\ IsFiniteSet(Stations) /\ Cardinality(Stations) = 2 /\ Stranger \notin Stations
    /\ Slots \subseteq Nat /\ Slots # {} /\ NoSlot \notin Slots
    /\ FadeProtection \in [Stations -> {"off", "accept", "request"}]
    /\ MaxRetransmit + 1 <= CountMax /\ {MaxRetransmit, Grant} \subseteq Nat
    \* A grant outlasts the no-evidence bound: one attempt per tick at the cap.
    /\ NoEvidenceTicks \in 1 .. Grant - 1
    /\ {KeepaliveTicks, HandshakeTicks, SessionTicks, DisconnectTicks} \subseteq Nat \ {0}
    /\ Callers \cup Senders \subseteq Stations /\ MayAbort \in BOOLEAN
    /\ MaxCalls \in Nat /\ MaxPayload \in Nat \ {0}

VARIABLES
    station,    \* [Stations -> the daemon's session state]
    handed,     \* handed[s][n]: payloads of the peer's session n given to s's host
    calls       \* calls dialled and frames received from the Stranger

vars == << station, handed, calls >>

Other(s) == CHOOSE p \in Stations : p # s
Parties == Stations \cup {Stranger}

\* SESSION_ARQ_WINDOW
Window == 1

Sids == 0 .. MaxCalls
SessionStates == {"Connecting", "Accepting", "Established", "Disconnecting"}
FrameTypes == {"Req", "ConnectAck", "Cfm", "Data", "Outer", "Ack", "Disconnect", "Keepalive"}
Frame == [type : FrameTypes, dest : Parties, sid : Sids, num : SeqNum, data : 0 .. MaxPayload]

Session == [state : SessionStates, remote : Parties, outer : BOOLEAN,
            idle : 0 .. SessionTicks]       \* ticks since last_activity
NoSession == [state |-> "None"]

SessionLink ==
    [session_id : Slots, remote : Parties, tx : TxType(1 .. MaxPayload), rx : RxType(1 .. MaxPayload),
     backlog : 0 .. MaxPayload,
     max_retransmit : 0 .. CountMax,
     fallback : BOOLEAN,                    \* the fade hold
     quiet : 0 .. NoEvidenceTicks,          \* in it: ticks since entry or the last evidence
     expired : BOOLEAN,                     \* the capped RTO has run out
     tx_outer : BOOLEAN,                    \* the segment in flight is a burst
     block_ack : {"none", "armed", "ready"},    \* block_ack_at, block_ack_ready
     ack_pair : BOOLEAN]                    \* rx_ack_pair_until is ahead
NoLink == [session_id |-> NoSlot]

StationType ==
    [listening : BOOLEAN,
     sessions : [Slots -> Session \cup {NoSession}],
     link : SessionLink \cup {NoLink},
     pending : Slots \cup {NoSlot},         \* pending_disconnect
     held : BOOLEAN,                        \* session_tx_held_by_frequency_gate
     reported : Nat,                        \* last_reported_buffer
     told : {"disconnected", "pending", "connected", "confused"},
     air : Seq(Frame),                      \* the keyed interval
     sid : Sids, submitted : 0 .. MaxPayload,
     ended : {"None", "drained", "dropped"}]

StationNew ==
    [listening |-> FALSE, sessions |-> [i \in Slots |-> NoSession], link |-> NoLink,
     pending |-> NoSlot, held |-> FALSE, reported |-> 0, told |-> "disconnected", air |-> << >>,
     sid |-> 0, submitted |-> 0, ended |-> "None"]

-----------------------------------------------------------------------------
(* SessionManager, capabilities, notices, BUFFER. *)

Active(st) == {i \in Slots : st.sessions[i] # NoSession}
StateOf(st, id) == st.sessions[id].state
\* session_id_for_frame, for the one SSID in use.
SessionFor(st, src) == {i \in Active(st) : st.sessions[i].remote = src}
InState(st, ids, states) == {i \in ids : StateOf(st, i) \in states}

\* SessionManager::create takes the lowest free slot.
Create(st, remote, state) ==
    LET free == Slots \ Active(st)
    IN [st EXCEPT !.sessions[Min(free)] =
            [state |-> state, remote |-> remote, outer |-> FALSE, idle |-> 0]]
\* Faulty variant: the slot stays taken.
Remove_Leaks(st, id) == [st EXCEPT !.sessions[id].state = "Disconnecting"]
Remove(st, id) == [st EXCEPT !.sessions[id] = NoSession]
Touch(st, id) == [st EXCEPT !.sessions[id].idle = 0]

\* local_link_caps, negotiate, outer_code_active; a Stranger has none.
OuterRx(s) == s \in Stations /\ FadeProtection[s] # "off"
OuterReq(s) == s \in Stations /\ FadeProtection[s] = "request"
OuterCodeActive(s, p) == OuterRx(s) /\ OuterRx(p) /\ (OuterReq(s) \/ OuterReq(p))

\* What a host makes of a notice after those it had; "confused" is a notice
\* that does not follow.
Hear(told, notice) ==
    CASE notice = "PENDING" /\ told = "disconnected" -> "pending"
      [] notice = "CANCELPENDING" /\ told = "pending" -> "disconnected"
      [] notice = "CONNECTED" /\ told # "connected" -> "connected"
      [] notice = "DISCONNECTED" /\ told # "pending" -> "disconnected"
      [] OTHER -> "confused"
NotifySession(st, notice) == [st EXCEPT !.told = Hear(@, notice)]

\* The two ends of an attempt or a session that did not come from the host.
NotifyEnd(st, wasPending) ==
    NotifySession(st, IF wasPending THEN "CANCELPENDING" ELSE "DISCONNECTED")

\* The session part of buffered_tx_bytes, in payloads.
Buffered_(st) == IF st.link = NoLink THEN 0 ELSE st.link.backlog + InFlight(st.link.tx)
ReportBuffer(st) == [st EXCEPT !.reported = Buffered_(st)]

-----------------------------------------------------------------------------
(* The transmitter and the link. *)

Transmitting(st) == st.air # << >>
Blocked(st) == st.link # NoLink /\ (st.link.block_ack # "none" \/ st.link.ack_pair)

Control(st, type, dest) == [type |-> type, dest |-> dest, sid |-> st.sid, num |-> 0, data |-> 0]
\* session_data_frame, alone or as an RS(12,6) burst.
DataFrame(st, seq) ==
    [type |-> IF st.link.tx_outer THEN "Outer" ELSE "Data", dest |-> st.link.remote, sid |-> st.sid,
     num |-> seq, data |-> st.link.tx.tx_buf[SlotOf(seq)].data]
AckFrame(st) ==
    [type |-> "Ack", dest |-> st.link.remote, sid |-> st.sid, num |-> AckInfo(st.link.rx).ack_num, data |-> 0]

\* transmit_samples: joins the keyed interval, unless the rest of a burst or
\* the second copy of an ACK is still to be heard.
Transmit(st, f) == IF Blocked(st) THEN st ELSE [st EXCEPT !.air = Append(@, f)]

LinkNew(id, remote) ==
    [session_id |-> id, remote |-> remote, tx |-> ArqTxNew, rx |-> ArqRxNew, backlog |-> 0,
     max_retransmit |-> MaxRetransmit, fallback |-> FALSE, quiet |-> 0, expired |-> FALSE,
     tx_outer |-> FALSE, block_ack |-> "none", ack_pair |-> FALSE]

ResetSessionLink(st, id) == [st EXCEPT !.link = LinkNew(id, st.sessions[id].remote)]
\* Faulty variant: a frame of the session rebuilds the link that is there.
EnsureSessionLink_Resets(st, id) == ResetSessionLink(st, id)
EnsureSessionLink(st, id) ==
    IF st.link.session_id = id THEN st ELSE ResetSessionLink(st, id)

\* Faulty variant: the link goes and BUFFER is not reported.
DiscardSessionTx_Silent(st, id) ==
    IF st.link.session_id = id THEN [st EXCEPT !.link = NoLink] ELSE st
\* discard_session_tx: the link of an ended session goes, and BUFFER with it.
DiscardSessionTx(st, id) ==
    IF st.link.session_id = id THEN ReportBuffer([st EXCEPT !.link = NoLink]) ELSE st

\* note_peer_evidence: the patience clock restarts and the budget is granted anew.
Granted(tx) ==
    LET count == tx.tx_buf[SlotOf(tx.send_base)].transmit_count
    IN IF count + Grant < CountMax THEN count + Grant ELSE CountMax
\* Faulty variant: the clock restarts and the budget stays as it was.
NoteEvidence_NoGrant(st) == IF st.link = NoLink THEN st ELSE [st EXCEPT !.link.quiet = 0]
NoteEvidence(st) ==
    IF st.link = NoLink THEN st
    ELSE [st EXCEPT !.link.quiet = 0,
                    !.link.max_retransmit = IF st.link.fallback /\ InFlight(st.link.tx) > 0
                                              THEN Granted(st.link.tx) ELSE @]

\* drain_session_link and try_send_outer_block: the next payload is keyed and
\* only then leaves the backlog.  `plain`: the burst would exceed
\* max_tx_duration_s; `refuse`: the frequency gate or the wait turned it down.
Ready(st) == st.link # NoLink /\ st.link.backlog > 0 /\ CanSend(st.link.tx, Window)

SendNext(st, plain) ==
    LET id == st.link.session_id
        sent == [st EXCEPT !.link.tx = TxSend(@, st.submitted - st.link.backlog + 1),
                           !.link.backlog = @ - 1,
                           !.link.expired = FALSE,
                           !.link.tx_outer = st.sessions[id].outer /\ ~plain,
                           !.held = FALSE]
    IN Touch(Transmit(sent, DataFrame(sent, st.link.tx.next_seq)), id)

\* Faulty variant: a drain the channel holds back is forgotten.
DrainSessionLink_Forgets(st, plain, refuse) ==
    IF Blocked(st) \/ Transmitting(st) THEN st
    ELSE IF Ready(st) /\ ~refuse THEN SendNext(st, plain)
    ELSE [st EXCEPT !.held = Ready(st)]
DrainSessionLink(st, plain, refuse) ==
    IF Blocked(st) THEN [st EXCEPT !.held = TRUE]
    ELSE IF Transmitting(st) THEN st
    ELSE IF Ready(st) /\ ~refuse THEN SendNext(st, plain)
    ELSE [st EXCEPT !.held = Ready(st)]

-----------------------------------------------------------------------------
(* The ends of a session. *)

\* end_session: at once, with a DISCONNECT to the peer.
EndSession(st, id) ==
    LET wasPending == StateOf(st, id) = "Accepting"
        off == Remove(Transmit(DiscardSessionTx(st, id),
                               Control(st, "Disconnect", st.sessions[id].remote)), id)
    IN NotifySession(IF wasPending THEN NotifySession(off, "CANCELPENDING") ELSE off, "DISCONNECTED")

\* end_local_disconnect, for the session whose record was taken.
EndLocalDisconnect(st, why) ==
    LET id == st.pending
    IN [NotifySession(Remove(Transmit(DiscardSessionTx([st EXCEPT !.pending = NoSlot], id),
                                      Control(st, "Disconnect", st.sessions[id].remote)), id),
                      "DISCONNECTED") EXCEPT !.ended = why]

\* Faulty variant: the drain ends with its last frame keyed, not acknowledged.
FinishDrainedDisconnect_Unacked(st) ==
    IF /\ st.pending # NoSlot /\ ~Transmitting(st)
       /\ st.link.session_id = st.pending => st.link.backlog = 0
      THEN EndLocalDisconnect(st, "drained") ELSE st
FinishDrainedDisconnect(st) ==
    IF /\ st.pending # NoSlot /\ ~Transmitting(st)
       /\ st.link.session_id = st.pending => st.link.backlog = 0 /\ InFlight(st.link.tx) = 0
      THEN EndLocalDisconnect(st, "drained") ELSE st

FailSessionLink(st) ==
    IF st.pending = st.link.session_id THEN EndLocalDisconnect(st, "dropped")
    ELSE EndSession(st, st.link.session_id)

\* PTT has released (handle_tx_complete, handle_ptt_change).
PttReleased(st, plain, refuse) == FinishDrainedDisconnect(DrainSessionLink(st, plain, refuse))

-----------------------------------------------------------------------------
(* Received frames: handle_mac_pdu.  `src` sent f to station s. *)

\* Sessions whose data and ACKs are processed: established, or draining.
Live(st, src) ==
    {i \in SessionFor(st, src) : \/ StateOf(st, i) = "Established"
                                 \/ StateOf(st, i) = "Disconnecting" /\ st.pending = i}

\* Faulty variant: a repeated request is announced again.
AnswerCall_Twice(st, src, replaced) ==
    Transmit(NotifySession(Create(st, src, "Accepting"), "PENDING"), Control(st, "ConnectAck", src))
AnswerCall(st, src, replaced) ==
    LET accepting == Create(st, src, "Accepting")
    IN Transmit(IF replaced THEN accepting ELSE NotifySession(accepting, "PENDING"),
                Control(st, "ConnectAck", src))

\* handle_incoming_connect: a repeat of a half-open call replaces it.
HandleIncomingConnect(s, st, src, readable) ==
    LET repeat == InState(st, SessionFor(st, src), {"Accepting"})
        cleared == IF repeat = {} THEN st ELSE Remove(st, Min(repeat))
    IN IF ~st.listening \/ ~readable \/ Active(cleared) # {} THEN st
       ELSE AnswerCall(cleared, src, repeat # {})

Establish(s, st, id) ==
    LET agreed == OuterCodeActive(s, st.sessions[id].remote)
        session == [st.sessions[id] EXCEPT !.state = "Established", !.idle = 0, !.outer = agreed]
        up == [st EXCEPT !.sessions[id] = session, !.sid = @ + 1, !.submitted = 0, !.ended = "None"]
    IN NotifySession(ResetSessionLink(up, id), "CONNECTED")

HandleConnectAck(s, st, src) ==
    LET ids == InState(st, SessionFor(st, src), {"Connecting"})
    IN IF ids = {} THEN st
       ELSE Transmit(Establish(s, st, Min(ids)), Control(st, "Cfm", src))

\* A CFM whose capabilities were not the agreed ones ends the attempt.
HandleConnectCfm(s, st, src, agrees) ==
    LET ids == InState(st, SessionFor(st, src), {"Accepting"})
    IN IF ids = {} THEN st
       ELSE IF agrees THEN Establish(s, st, Min(ids))
       ELSE NotifySession(DiscardSessionTx(Remove(st, Min(ids)), Min(ids)), "CANCELPENDING")

HandleIncomingDisconnect(st, src) ==
    IF SessionFor(st, src) = {} THEN st
    ELSE LET id == Min(SessionFor(st, src))
             off == [Remove(st, id) EXCEPT !.pending = IF @ = id THEN NoSlot ELSE @, !.ended = "dropped"]
         IN NotifyEnd(DiscardSessionTx(off, id), StateOf(st, id) = "Accepting")

\* handle_session_data: every reliable frame is acknowledged, a repeat too.
HandleSessionData(st, src, f) ==
    IF Live(st, src) = {} THEN st
    ELSE LET id == Min(Live(st, src))
             got == [EnsureSessionLink(Touch(st, id), id)
                       EXCEPT !.link.rx = RxReceive(@, f.num, f.data, Window)]
         IN Transmit(got, AckFrame(got))

\* handle_session_outer_data: `rebuilt` when six packets of the burst, with
\* those kept of its earlier copies, made the block; the ACK waits for the end
\* of the burst and is due at once for a block already had.
OuterExpected(st, id, f) ==
    LET base == EnsureSessionLink(st, id).link.rx.recv_base
    IN f.num = base \/ f.num = WrapSub(base, 1)
HandleSessionOuter(st, src, f, rebuilt) ==
    LET ids == {i \in Live(st, src) : st.sessions[i].outer}
    IN IF ids = {} THEN st
       ELSE LET id == Min(ids)
                at == EnsureSessionLink(Touch(st, id), id)
                again == f.num # at.link.rx.recv_base
            IN IF ~OuterExpected(st, id, f) THEN at
               ELSE NoteEvidence([at EXCEPT
                      !.link.rx = IF rebuilt THEN RxReceive(@, f.num, f.data, Window) ELSE @,
                      !.link.block_ack = IF rebuilt \/ again \/ @ = "ready" THEN "ready" ELSE "armed"])

\* The link after an ACK; one that empties the window ends the fade hold.
AckedLink(link, num) ==
    LET tx == ProcessAck(link.tx, num, {})
    IN IF InFlight(tx) > 0 THEN [link EXCEPT !.tx = tx]
       ELSE [link EXCEPT !.tx = tx, !.fallback = FALSE, !.quiet = 0, !.expired = FALSE,
                         !.max_retransmit = IF link.fallback THEN MaxRetransmit ELSE @,
                         !.ack_pair = @ \/ (link.tx_outer /\ InFlight(link.tx) > 0)]

AckFits(link, num) == WrapSub(num, link.tx.send_base) <= InFlight(link.tx)

\* handle_session_ack: the ACK paces the stream and ends a drain.
HandleSessionAck(st, src, f, plain, refuse) ==
    IF Live(st, src) = {} THEN st
    ELSE LET at == Touch(st, Min(Live(st, src)))
         IN IF st.link = NoLink \/ ~AckFits(st.link, f.num) THEN at
            ELSE LET acked == [at EXCEPT !.link = AckedLink(@, f.num)]
                 IN IF NewlyAcked(st.link.tx, f.num, {}) = {} THEN acked
                    ELSE FinishDrainedDisconnect(DrainSessionLink(ReportBuffer(acked), plain, refuse))

\* The capabilities of a frame from a coppad are readable and the agreed ones.
HandleMacPdu(s, st, src, f, well, plain, refuse) ==
    LET at == IF f.type # "Outer" /\ st.link # NoLink /\ st.link.remote = src
                THEN NoteEvidence(st) ELSE st
    IN IF f.dest # s THEN at
       ELSE CASE f.type = "Req" -> HandleIncomingConnect(s, at, src, well)
              [] f.type = "ConnectAck" -> HandleConnectAck(s, at, src)
              [] f.type = "Cfm" -> HandleConnectCfm(s, at, src, well)
              [] f.type = "Disconnect" -> HandleIncomingDisconnect(at, src)
              [] f.type = "Data" -> HandleSessionData(at, src, f)
              [] f.type = "Outer" -> HandleSessionOuter(at, src, f, well)
              [] f.type = "Ack" -> HandleSessionAck(at, src, f, plain, refuse)
              [] OTHER -> IF SessionFor(at, src) = {} THEN at ELSE Touch(at, Min(SessionFor(at, src)))

\* What the frame makes the receiver hand to its host.
HandedUp(s, st, src, f, well) ==
    LET ids == {i \in Live(st, src) : f.type = "Outer" => st.sessions[i].outer}
    IN IF \/ f.dest # s \/ f.type \notin {"Data", "Outer"} \/ ids = {}
          \/ f.type = "Outer" /\ (~well \/ ~OuterExpected(st, Min(ids), f)) THEN << >>
       ELSE RxDelivered(EnsureSessionLink(st, Min(ids)).link.rx, f.num, f.data, Window)

-----------------------------------------------------------------------------
(* The 500 ms tick: check_session_retransmits, retry_held_tx_drain,        *)
(* finish_drained_disconnect; and the 5 s tick: the reaper and keepalives.  *)

\* flush_block_ack when the burst is over.
FlushBlockAck(st, refuse) ==
    IF st.link = NoLink \/ Transmitting(st) THEN st
    ELSE CASE st.link.block_ack = "armed" -> [st EXCEPT !.link.block_ack = "none"]
           [] st.link.block_ack = "ready" /\ ~refuse ->
                [st EXCEPT !.link.block_ack = "none", !.air = Append(@, AckFrame(st))]
           [] OTHER -> st

\* Faulty variant: the last retransmission ends the session.
EnterHold_Never(link) == link
\* The first exhaustion of the budget enters the fade hold.
EnterHold(link) ==
    IF IsFailed(link.tx, link.tx.send_base, link.max_retransmit) /\ ~link.fallback
      THEN [link EXCEPT !.fallback = TRUE, !.quiet = 0, !.max_retransmit = Granted(link.tx)]
      ELSE link

\* Touched while draining; a retransmitted burst also touches an established session.
Retransmit(st, rto) ==
    LET id == st.link.session_id
        seqs == GetRetransmits(st.link.tx, IF rto THEN SeqNum ELSE {}, st.link.max_retransmit)
        keep == IF StateOf(st, id) = "Disconnecting" THEN Touch(st, id) ELSE st
        marked == [st.link EXCEPT !.tx = MarkRetransmitted(@, seqs), !.expired = FALSE]
        sent == [Transmit(keep, DataFrame(st, st.link.tx.send_base)) EXCEPT !.link = EnterHold(marked)]
    IN IF seqs = {} THEN keep ELSE IF st.link.tx_outer THEN Touch(sent, id) ELSE sent

\* Faulty variant: a held session waits for its peer for ever.
HoldIsOver_Never(st) == FALSE
HoldIsOver(st) ==
    /\ st.link # NoLink /\ st.link.fallback
    /\ InFlight(st.link.tx) > 0 /\ st.link.quiet >= NoEvidenceTicks

CheckSessionRetransmits(st, rto, refuse) ==
    IF Blocked(st) \/ st.link = NoLink THEN st
    ELSE IF HoldIsOver(st) THEN FailSessionLink(st)
    ELSE IF InFlight(st.link.tx) = 0 \/ refuse THEN st
    ELSE Retransmit(st, rto)

\* `over`: the burst being received, or the wait for an ACK's second copy, has ended.
PollSteps(st, rto, over, plain, refuse) ==
    LET heard == IF ~over \/ st.link = NoLink THEN st
                 ELSE FlushBlockAck([st EXCEPT !.link.ack_pair = FALSE], refuse)
        sent == CheckSessionRetransmits(heard, rto, refuse)
    IN FinishDrainedDisconnect(IF sent.held THEN DrainSessionLink(sent, plain, refuse) ELSE sent)

TimeoutTicks(state) ==
    CASE state = "Disconnecting" -> DisconnectTicks
      [] state = "Established" -> SessionTicks
      [] OTHER -> HandshakeTicks
\* Faulty variant: only an established session is timed.
IsTimedOut_Established(session) ==
    session # NoSession /\ session.state = "Established" /\ session.idle >= TimeoutTicks(session.state)
IsTimedOut(session) == session # NoSession /\ session.idle >= TimeoutTicks(session.state)

\* reap_timed_out_sessions, for each of the slots it finds.
Reap(st) ==
    LET due == {i \in Slots : IsTimedOut(st.sessions[i])}
        id == Min(due)
    IN IF due = {} THEN st
       ELSE IF st.pending = id THEN EndLocalDisconnect(st, "dropped")
       ELSE NotifyEnd(DiscardSessionTx(Remove(st, id), id), StateOf(st, id) = "Accepting")

NeedsKeepalive(session) == session.state = "Established" /\ session.idle >= KeepaliveTicks
SendDueKeepalives(st) ==
    LET due == {i \in Slots : NeedsKeepalive(st.sessions[i])}
    IN IF Blocked(st) \/ due = {} THEN st
       ELSE Transmit(Touch(st, Min(due)), Control(st, "Keepalive", st.sessions[Min(due)].remote))

CleanupSteps(st) == SendDueKeepalives(Reap(st))

-----------------------------------------------------------------------------
(* Actions. *)

Init ==
    /\ station = [s \in Stations |-> StationNew]
    /\ handed = [s \in Stations |-> [n \in Sids \ {0} |-> << >>]]
    /\ calls = 0

Update(s, st) == st # station[s] /\ station' = [station EXCEPT ![s] = st]

\* LISTEN ON
Listen(s) ==
    /\ Update(s, [station[s] EXCEPT !.listening = TRUE])
    /\ UNCHANGED << handed, calls >>

\* A host's CONNECT: ends a drain first, is refused beside any other session.
Dial(s) ==
    LET st == IF station[s].pending = NoSlot THEN station[s]
              ELSE EndLocalDisconnect(station[s], "dropped")
    IN /\ calls < MaxCalls
       /\ Active(st) = {}
       /\ Update(s, Transmit(Create([st EXCEPT !.submitted = 0, !.ended = "None"], Other(s), "Connecting"),
                             Control(st, "Req", Other(s))))
       /\ calls' = calls + 1
       /\ UNCHANGED handed

\* Data from a host, for an established session.
HostData(s, plain, refuse) ==
    LET ids == InState(station[s], Active(station[s]), {"Established"})
        st == EnsureSessionLink(station[s], Min(ids))
    IN /\ ids # {}
       /\ station[s].submitted < MaxPayload
       /\ Update(s, DrainSessionLink(
                      ReportBuffer([st EXCEPT !.link.backlog = @ + 1, !.submitted = @ + 1]), plain, refuse))
       /\ UNCHANGED << handed, calls >>

\* A host's DISCONNECT: a pending inbound attempt ends at once, anything else drains.
HostDisconnect(s) ==
    LET st == station[s]
        ids == InState(st, Active(st), SessionStates \ {"Disconnecting"})
        id == Min(ids)
    IN /\ ids # {}
       /\ Update(s, IF StateOf(st, id) = "Accepting" THEN EndSession(st, id)
                    ELSE FinishDrainedDisconnect(
                           [Touch(st, id) EXCEPT !.sessions[id].state = "Disconnecting", !.pending = id]))
       /\ UNCHANGED << handed, calls >>

\* abort_session: no frame to the peer, the transmitter is cut.
Abort(s) ==
    LET st == station[s]
        id == Min(Active(st))
        off == Remove(DiscardSessionTx([st EXCEPT !.pending = NoSlot, !.ended = "dropped"], id), id)
        cut == [off EXCEPT !.air = << >>, !.held = @ /\ ~Transmitting(st)]
        told == IF StateOf(st, id) = "Accepting" THEN NotifySession(cut, "CANCELPENDING") ELSE cut
    IN /\ MayAbort /\ Active(st) # {}
       /\ Update(s, NotifySession(told, "DISCONNECTED"))
       /\ UNCHANGED << handed, calls >>

Poll(s, rto, over, plain, refuse) ==
    /\ rto => station[s].link # NoLink /\ (station[s].link.fallback => station[s].link.expired)
    /\ Update(s, PollSteps(station[s], rto, over, plain, refuse))
    /\ UNCHANGED << handed, calls >>

SessionCleanup(s) ==
    /\ Update(s, CleanupSteps(station[s]))
    /\ UNCHANGED << handed, calls >>

\* The first frame of the keyed interval has played; with the last, PTT releases.
Played(st, plain, refuse) ==
    LET off == [st EXCEPT !.air = Tail(@)]
    IN IF Transmitting(off) THEN off ELSE PttReleased(off, plain, refuse)

\* It is decoded by the other station, unless that one is itself keyed.
Deliver(s, well, plain, refuse) ==
    LET p == Other(s)
        f == Head(station[s].air)
        up == HandedUp(p, station[p], s, f, well)
    IN /\ Transmitting(station[s]) /\ ~Transmitting(station[p])
       /\ f.type # "Outer" => well
       /\ station' = [station EXCEPT ![s] = Played(@, plain, refuse),
                                     ![p] = HandleMacPdu(p, @, s, f, well, plain, refuse)]
       /\ handed' = IF up = << >> THEN handed ELSE [handed EXCEPT ![p][f.sid] = @ \o up]
       /\ UNCHANGED calls

\* Only its header is decoded: evidence that the peer is there.
HeaderOnly(s, plain, refuse) ==
    /\ Transmitting(station[s]) /\ ~Transmitting(station[Other(s)])
    /\ station' = [station EXCEPT ![s] = Played(@, plain, refuse), ![Other(s)] = NoteEvidence(@)]
    /\ UNCHANGED << handed, calls >>

Lose(s, plain, refuse) ==
    /\ Transmitting(station[s])
    /\ station' = [station EXCEPT ![s] = Played(@, plain, refuse)]
    /\ UNCHANGED << handed, calls >>

\* A third station: a request or confirmation, well-formed or not, or a DISCONNECT.
ForeignFrame(s, type, well) ==
    LET f == [type |-> type, dest |-> s, sid |-> 0, num |-> 0, data |-> 0]
    IN /\ calls < MaxCalls
       /\ ~Transmitting(station[s])
       /\ Update(s, HandleMacPdu(s, station[s], Stranger, f, well, FALSE, FALSE))
       /\ calls' = calls + 1
       /\ UNCHANGED handed

\* Nothing shorter than a tick is due.
Settled(st) ==
    ~Transmitting(st) /\ ~Blocked(st) /\ ~HoldIsOver(st) /\ CleanupSteps(st) = st

\* A tick's polls touch a draining session with a segment in flight, unless the
\* frequency gate was shut (touch_draining_session).
Later(st, gated) ==
    LET moving == /\ ~gated /\ st.link # NoLink
                  /\ InFlight(st.link.tx) > 0 /\ st.pending = st.link.session_id
        later(session) ==
            [session EXCEPT !.idle = IF moving THEN 0 ELSE Min({@ + 1, SessionTicks})]
        quiet == IF st.link.fallback THEN Min({st.link.quiet + 1, NoEvidenceTicks}) ELSE st.link.quiet
    IN [st EXCEPT
          !.sessions = [i \in Slots |->
              IF st.sessions[i] = NoSession THEN NoSession ELSE later(st.sessions[i])],
          !.link = IF st.link = NoLink THEN NoLink
                   ELSE [st.link EXCEPT !.quiet = quiet, !.expired = InFlight(st.link.tx) > 0]]

Tick(gated) ==
    /\ \A s \in Stations : Settled(station[s])
    /\ \E s \in Stations : Active(station[s]) # {}
    /\ station' = [s \in Stations |-> Later(station[s], s \in gated)]
    /\ UNCHANGED << handed, calls >>

Next ==
    \/ \E s \in Stations : Listen(s)
    \/ \E s \in Callers : Dial(s)
    \/ \E s \in Senders, plain, refuse \in BOOLEAN : HostData(s, plain, refuse)
    \/ \E s \in Stations : HostDisconnect(s)
    \/ \E s \in Stations : Abort(s)
    \/ \E s \in Stations, rto, over, plain, refuse \in BOOLEAN : Poll(s, rto, over, plain, refuse)
    \/ \E s \in Stations : SessionCleanup(s)
    \/ \E s \in Stations, well, plain, refuse \in BOOLEAN : Deliver(s, well, plain, refuse)
    \/ \E s \in Stations, plain, refuse \in BOOLEAN : HeaderOnly(s, plain, refuse)
    \/ \E s \in Stations, plain, refuse \in BOOLEAN : Lose(s, plain, refuse)
    \/ \E s \in Stations, type \in {"Req", "Cfm", "Disconnect"}, well \in BOOLEAN : ForeignFrame(s, type, well)
    \/ \E gated \in SUBSET Stations : Tick(gated)

Spec == Init /\ [][Next]_vars

\* What drives a session on: a keyed interval ends (max_tx_duration_s), the
\* 500 ms and 5 s intervals fire, the frequency gate opens, time passes.  The
\* channel and the hosts promise nothing.
Fairness ==
    /\ \A s \in Stations :
         /\ WF_vars(\E well, plain, refuse \in BOOLEAN :
                      Deliver(s, well, plain, refuse) \/ HeaderOnly(s, plain, refuse) \/ Lose(s, plain, refuse))
         /\ WF_vars(\E plain \in BOOLEAN : Poll(s, FALSE, TRUE, plain, FALSE))
         /\ WF_vars(\E plain \in BOOLEAN : Poll(s, TRUE, TRUE, plain, FALSE))
         /\ WF_vars(SessionCleanup(s))
    /\ WF_vars(\E gated \in SUBSET Stations : Tick(gated))

FairSpec == Spec /\ Fairness

-----------------------------------------------------------------------------
(* Properties. *)

\* The shapes of the session table, the link and the keyed interval.
TypeOK ==
    /\ \A s \in Stations : station[s] \in StationType
    /\ \A s \in Stations : handed[s] \in [Sids \ {0} -> Seq(1 .. MaxPayload)]
    /\ calls \in 0 .. MaxCalls

\* The payloads of a session reach the other host in order and once each,
\* through retransmissions, bursts, fade holds and half-open sessions; a payload
\* that has left the sender's window had been handed up.
ReliableInOrder ==
    /\ \A s \in Stations, n \in Sids \ {0} : \A i \in DOMAIN handed[s][n] : handed[s][n][i] = i
    /\ \A s \in Stations :
         LET st == station[s]
         IN st.link # NoLink /\ st.link.remote # Stranger =>
              st.submitted - Buffered_(st) <= Len(handed[Other(s)][st.sid])

\* A DISCONNECT that drained its session to the end left nothing undelivered.
DrainDeliversEverything ==
    \A s \in Stations :
        station[s].ended = "drained" /\ station[s].submitted > 0 =>
            Len(handed[Other(s)][station[s].sid]) >= station[s].submitted

\* BUFFER, as hosts last heard it, is what the link really holds, whichever way
\* the session ended.
BufferIsHonest == \A s \in Stations : station[s].reported = Buffered_(station[s])

\* The fade hold: while it lasts there is a segment that get_retransmits still
\* returns, and an ACK that ends it leaves no part of its budget behind.
HoldStaysLive ==
    \A s \in Stations :
        LET link == station[s].link
        IN link # NoLink =>
             IF link.fallback
               THEN InFlight(link.tx) > 0 /\ ~IsFailed(link.tx, link.tx.send_base, link.max_retransmit)
               ELSE link.max_retransmit = MaxRetransmit

\* One session at a time, whose slot comes back: the link and the host's
\* pending DISCONNECT always belong to the session that is there.
OneSession ==
    \A s \in Stations :
        LET st == station[s]
        IN /\ Cardinality(Active(st)) <= 1
           /\ \A i \in Active(st) : StateOf(st, i) = "Disconnecting" <=> st.pending = i
           /\ st.pending # NoSlot => st.pending \in Active(st)
           /\ st.link # NoLink =>
                /\ st.link.session_id \in InState(st, Active(st), {"Established", "Disconnecting"})
                /\ st.sessions[st.link.session_id].remote = st.link.remote

\* Data that could go out and did not is always due for another try.
NothingParked ==
    \A s \in Stations : Ready(station[s]) /\ ~Transmitting(station[s]) => station[s].held

\* Each station keeps the promise of module HostSession to its hosts.
Stage(st) ==
    IF Active(st) = {} THEN "idle"
    ELSE CASE StateOf(st, Min(Active(st))) = "Connecting" -> "calling"
           [] StateOf(st, Min(Active(st))) = "Accepting" -> "offered"
           [] StateOf(st, Min(Active(st))) = "Established" -> "up"
           [] OTHER -> "closing"
Host == INSTANCE HostSession
          WITH stage <- [s \in Stations |-> Stage(station[s])],
               told <- [s \in Stations |-> station[s].told],
               buffer <- [s \in Stations |-> station[s].reported]
ImplementsHost == Host!HostSpec

\* Station s decodes a frame of its peer, or at least the header.
Heard(s) ==
    \E well, plain, refuse \in BOOLEAN :
        Deliver(Other(s), well, plain, refuse) \/ HeaderOnly(Other(s), plain, refuse)

\* A dialled call is answered or ends; an inbound one ends too, unless its
\* caller believes it is up and keeps it alive.
HandshakeEnds ==
    \A s \in Stations :
        /\ Stage(station[s]) = "calling" ~> Stage(station[s]) # "calling"
        /\ Stage(station[s]) = "offered" ~>
              Stage(station[s]) # "offered" \/ Stage(station[Other(s)]) = "up"

\* A DISCONNECT ends its session, unless the peer is heard for ever.
DisconnectEnds ==
    \A s \in Stations :
        \/ Stage(station[s]) = "closing" ~> Stage(station[s]) # "closing"
        \/ []<><<Heard(s)>>_vars

\* A segment in flight is acknowledged or its session ends, unless the peer is
\* heard for ever: the fade hold gives up in bounded silence.
SegmentSettles ==
    \A s \in Stations :
        \/ station[s].link # NoLink /\ InFlight(station[s].link.tx) > 0
             ~> station[s].link = NoLink \/ InFlight(station[s].link.tx) = 0
        \/ []<><<Heard(s)>>_vars
=============================================================================
