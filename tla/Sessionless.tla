----------------------------- MODULE Sessionless -----------------------------
(***************************************************************************)
(* Host data sent without a session by two coppads (event_loop.rs, with    *)
(* `sessionless_tx_enabled` and ARQ on): the backlog, the sliding window   *)
(* of module Arq, the transmit queue that takes one frame per keyed        *)
(* interval, the 500 ms retransmit poll, and what chooses the speed level  *)
(* of each frame: module RateLoop, its probes, the operator's pin, and the *)
(* wideband gate that moves a level-derived engine to HF.                  *)
(*                                                                         *)
(* A station is a record, the event loop's functions are operators on it,  *)
(* and an action is one event of run().  One payload stands for the bytes  *)
(* of one segment.  What the event loop asks of its surroundings while it  *)
(* handles an event is a record `env`:                                     *)
(*   gate     what the frequency evidence says of a wideband emission:     *)
(*            it permits it ("open"), it does not ("shut"), or it permits  *)
(*            it until the courtesy wait is over ("closing"); "cut": an    *)
(*            ABORT ends the wait and the frame is dropped;                *)
(*   overdue  the keyed interval reaches the PTT backstop in that wait;    *)
(*   fits     the next queued PDU fits one codeword at the probed level.   *)
(***************************************************************************)
EXTENDS Arq, RateLoop, Sequences

CONSTANTS
    Stations,
    Band,           \* per station: "hf", "vhf" or "level" (OfdmBand)
    InitLevel,      \* [engine] speed level, per station
    WideFrom,       \* 5: the lowest level a level-derived engine sends on vhf_wide
    HfTop, VhfTop,  \* 8 and 9: the tops of the two ladders
    Window,         \* ArqConfig::default().window_size
    MaxRetransmit,  \* DEFAULT_MAX_RETRANSMIT
    Payloads,       \* bound: payloads each host submits
    Rates,          \* bound: recommended levels an ACK carries
    Pins,           \* bound: levels the operator pins, per station
    ResetAt,        \* bound: stations that receive a Reset PDU
    MaxResets       \* bound: Reset PDUs received

ASSUME SessionlessAssumption ==
    /\ IsFiniteSet(Stations) /\ Cardinality(Stations) = 2
    /\ Band \in [Stations -> {"hf", "vhf", "level"}]
    /\ WideFrom \in 1 .. HfTop /\ HfTop \in Nat /\ VhfTop \in Nat /\ HfTop <= VhfTop
    /\ InitLevel \in [Stations -> 1 .. HfTop]
    /\ ValidWindow(Window) /\ MaxRetransmit \in 0 .. CountMax - 1
    /\ Payloads \in [Stations -> Nat] /\ MaxResets \in Nat /\ ResetAt \subseteq Stations
    /\ Rates \subseteq 1 .. VhfTop /\ Pins \in [Stations -> SUBSET (1 .. VhfTop)]

VARIABLES
    station,    \* [Stations -> the daemon's sessionless state]
    handed,     \* handed[s]: payloads of the peer given to s's hosts
    resets      \* Reset PDUs received so far

vars == << station, handed, resets >>

Other(s) == CHOOSE p \in Stations : p # s
Data == 1 .. Max({Payloads[s] : s \in Stations} \cup {1})
Env == [gate : {"open", "shut", "closing", "cut"}, overdue : BOOLEAN, fits : {TRUE}]
         \cup {[gate |-> "open", overdue |-> FALSE, fits |-> FALSE]}
\* For events that key at most one frame, with PTT down: no interval to be overdue.
Calm == {env \in Env : ~env.overdue}

Frame == [type : {"Data", "Ack"}, num : SeqNum, bitmap : SUBSET (0 .. SackRange - 1),
          data : Data \cup {0}, lawful : BOOLEAN]
NoProbe == [seq |-> SeqMod, level |-> 0]

StationType ==
    [tx : TxType(Data), rx : RxType(Data),
     backlog : Nat,                                 \* arq_tx_backlog
     queue : Seq([seq : SeqNum, data : Data]),      \* tx_queue
     held : BOOLEAN,                                \* tx_held_by_frequency_gate
     probe : [seq : SeqNum, level : 1 .. VhfTop] \cup {NoProbe},
     loop : RateLoopType(HfTop) \cup RateLoopType(VhfTop),
     level : 1 .. VhfTop,                           \* the engine's speed level
     band : {"hf", "vhf", "level"},                 \* the engine's band
     manual : 0 .. VhfTop,                          \* manual_speed_level, 0 for None
     reported : Nat,                                \* last_reported_buffer
     air : Seq(Frame),                              \* the keyed interval
     submitted : Nat]                               \* payloads the hosts sent

Top(st) == IF st.band = "hf" THEN HfTop ELSE VhfTop
StationNew(s) ==
    [tx |-> ArqTxNew, rx |-> ArqRxNew, backlog |-> 0, queue |-> << >>, held |-> FALSE,
     probe |-> NoProbe, loop |-> RateLoopNew(IF Band[s] = "hf" THEN HfTop ELSE VhfTop, InitLevel[s]),
     level |-> InitLevel[s], band |-> Band[s], manual |-> 0, reported |-> 0, air |-> << >>,
     submitted |-> 0]

Transmitting(st) == st.air # << >>

-----------------------------------------------------------------------------
(* BUFFER. *)

UnackedSlots(tx) == {i \in Slot : tx.tx_buf[i] # NoSegment /\ ~tx.tx_buf[i].acked}
\* Faulty variant: a backlogged payload is not counted.
BufferedTx_NoBacklog(st) == Cardinality(UnackedSlots(st.tx))
\* buffered_tx_bytes: a queued PDU is the copy of a segment already counted.
BufferedTx(st) == st.backlog + Cardinality(UnackedSlots(st.tx))
ReportBuffer(st) == [st EXCEPT !.reported = BufferedTx(st)]

-----------------------------------------------------------------------------
(* The speed level in force and the wideband gate. *)

WideAt(st, level) == st.band = "vhf" \/ (st.band = "level" /\ level >= WideFrom)

\* keep_level_derived_engine_hf_legal
KeepHfLegal(st, level, permitted) ==
    IF st.band # "level" \/ ~WideAt(st, level) \/ permitted THEN st
    ELSE [st EXCEPT !.band = "hf", !.level = Min({@, HfTop}),
                    !.loop = RateLoopNew(HfTop, @.level)]

Permitted(env) == env.gate # "shut"

ApplySpeedLevel(st, level, env) ==
    LET at == KeepHfLegal(st, level, Permitted(env))
    IN [at EXCEPT !.level = Min({level, Top(at)})]

\* Faulty variant: the rate loop overrides the operator's pin.
ApplyRateLoopLevel_OverPin(st, level, env) == ApplySpeedLevel(st, level, env)
ApplyRateLoopLevel(st, level, env) ==
    IF st.manual # 0 THEN st ELSE ApplySpeedLevel(st, level, env)

\* wideband_frequency_check, before the courtesy wait.
Refused(st, env) == WideAt(st, st.level) /\ ~Permitted(env)
\* And after it, on fresh evidence.
RefusedLate(st, env) == WideAt(st, st.level) /\ env.gate = "closing"

-----------------------------------------------------------------------------
(* The transmitter. *)

\* Nothing was keyed, so no release will resume the queue: the poll does.
Rearm(st) ==
    IF Transmitting(st) THEN st ELSE ReportBuffer([st EXCEPT !.held = st.queue # << >>])

\* transmit_samples_keyed, for samples encoded at the engine's level.  The
\* backstop in the wait releases PTT and drains nothing.
Transmit(st, f, env) ==
    LET waited == IF env.overdue THEN ReportBuffer([st EXCEPT !.air = << >>]) ELSE st
    IN IF Refused(st, env) THEN Rearm(KeepHfLegal(st, st.level, FALSE))
       ELSE IF env.gate = "cut" THEN Rearm(waited)
       ELSE IF RefusedLate(st, env) THEN Rearm(KeepHfLegal(waited, st.level, FALSE))
       ELSE [waited EXCEPT !.air =
               Append(@, [f EXCEPT !.lawful = WideAt(st, st.level) => env.gate = "open"])]

DataFrame(seq, d) ==
    [type |-> "Data", num |-> seq, bitmap |-> {}, data |-> d, lawful |-> TRUE]
AckFrame(rx) ==
    [type |-> "Ack", num |-> AckInfo(rx).ack_num, bitmap |-> AckInfo(rx).bitmap,
     data |-> 0, lawful |-> TRUE]

\* The queued PDU at the head goes out, as a probe when one is due, and the
\* engine comes back from the probed level.
SendHead(st, env) ==
    LET next == Head(st.queue)
        eligible == st.probe = NoProbe /\ st.manual = 0
        level == IF eligible /\ env.fits THEN LevelForNext(st.loop) ELSE st.loop.level
        isProbe == level # st.loop.level
        popped == [st EXCEPT !.queue = Tail(@), !.loop = IF eligible THEN CountFrame(@) ELSE @]
        at == IF st.level = level THEN popped ELSE ApplyRateLoopLevel(popped, level, env)
        sent == Transmit([at EXCEPT !.probe = IF isProbe THEN [seq |-> next.seq, level |-> level] ELSE @],
                         DataFrame(next.seq, next.data), env)
    IN IF isProbe THEN ApplyRateLoopLevel(sent, sent.loop.level, env) ELSE sent

\* Faulty variant: a queue the gate holds is not marked for the poll.
TryDrainTxQueue_Forgets(st, env) ==
    IF Transmitting(st) \/ st.queue = << >> \/ Refused(st, env) THEN st ELSE SendHead(st, env)
TryDrainTxQueue(st, env) ==
    IF Transmitting(st) THEN st
    ELSE IF st.queue = << >> THEN [st EXCEPT !.held = FALSE]
    ELSE LET legal == KeepHfLegal(st, st.level, Permitted(env))
             held == Refused(legal, env)
         IN IF held THEN [legal EXCEPT !.held = TRUE]
            ELSE SendHead([legal EXCEPT !.held = FALSE], env)

EnqueueTx(st, entry, env) ==
    TryDrainTxQueue(ReportBuffer([st EXCEPT !.queue = Append(@, entry)]), env)

\* pump_arq_backlog: one segment after another while the window has room.
PumpOne(st, env) ==
    LET d == st.submitted - st.backlog + 1
    IN EnqueueTx([st EXCEPT !.tx = TxSend(@, d), !.backlog = @ - 1],
                 [seq |-> st.tx.next_seq, data |-> d], env)
PumpArqBacklog(st, env) ==
    LET room == IF CanSend(st.tx, Window) THEN Window - InFlight(st.tx) ELSE 0
        n == Min({room, st.backlog})
        run[k \in 0 .. n] == IF k = 0 THEN st ELSE PumpOne(run[k - 1], env)
    IN run[n]

-----------------------------------------------------------------------------
(* Received PDUs. *)

\* resolve_probe_if_acked
Resolves(st, num, bitmap) == st.probe.seq \in NewlyAcked(st.tx, num, bitmap)

\* process_ack, BUFFER, and the window space it freed is used.
TakeAck(st, num, bitmap, env) ==
    LET acked == [st EXCEPT !.tx = ProcessAck(@, num, bitmap)]
        probed == LET loop == OnProbeDelivered(st.loop, st.probe.level)
                  IN [ApplyRateLoopLevel([acked EXCEPT !.loop = loop], loop.level, env)
                        EXCEPT !.probe = NoProbe]
    IN PumpArqBacklog(ReportBuffer(IF Resolves(st, num, bitmap) THEN probed ELSE acked), env)

\* A data PDU carries ack_num 0 and no bitmap, and they are processed as an ACK;
\* its own ACK goes out after whatever that let go.
HandleReliable(st, f, env) ==
    LET got == [st EXCEPT !.rx = RxReceive(@, f.num, f.data, Window)]
    IN Transmit(TakeAck(got, 0, {}, env), AckFrame(got.rx), env)

\* A pure ACK; its recommendation counts unless it resolved a probe.
HandleAck(st, f, rate, env) ==
    LET next == TakeAck(st, f.num, f.bitmap, env)
        loop == OnAck(next.loop, rate)
    IN IF Resolves(st, f.num, f.bitmap) THEN next
       ELSE ApplyRateLoopLevel([next EXCEPT !.loop = loop], loop.level, env)

\* A Reset PDU: fresh windows; the transmit queue is left as it is.
HandleReset(st, env) ==
    PumpArqBacklog(ReportBuffer([st EXCEPT !.tx = ArqTxNew, !.rx = ArqRxNew, !.probe = NoProbe]), env)

-----------------------------------------------------------------------------
(* The 500 ms poll. *)

\* A segment goes out again and is marked, keyed or not.
RetransmitOne(st, seq, env) ==
    LET sent == Transmit(st, DataFrame(seq, st.tx.tx_buf[SlotOf(seq)].data), env)
    IN [sent EXCEPT !.tx = MarkRetransmitted(@, {seq})]

\* check_arq_retransmits: an expired probe has failed, which says nothing; any
\* other expiry is one timeout, and lowers the level before the resends.
CheckArqRetransmits(st, expired, env) ==
    LET seqs == GetRetransmits(st.tx, expired, MaxRetransmit)
        judged == [st EXCEPT !.probe = IF @.seq \in seqs THEN NoProbe ELSE @]
        loop == OnTimeout(st.loop)
        lowered == IF seqs \ {st.probe.seq} = {} THEN judged
                   ELSE ApplyRateLoopLevel([judged EXCEPT !.loop = loop], loop.level, env)
        n == Cardinality(seqs)
        order == CHOOSE o \in [1 .. n -> seqs] :
                    \A i, j \in DOMAIN o :
                        i < j => WrapSub(o[i], st.tx.send_base) < WrapSub(o[j], st.tx.send_base)
        run[k \in 0 .. n] == IF k = 0 THEN lowered ELSE RetransmitOne(run[k - 1], order[k], env)
    IN run[n]

\* retry_held_tx_drain
RetryHeld(st, env) == IF st.held THEN TryDrainTxQueue(st, env) ELSE st

-----------------------------------------------------------------------------
(* Actions. *)

Init ==
    /\ station = [s \in Stations |-> StationNew(s)]
    /\ handed = [s \in Stations |-> << >>]
    /\ resets = 0

Update(s, st) == st # station[s] /\ station' = [station EXCEPT ![s] = st]

HostData(s, env) ==
    /\ station[s].submitted < Payloads[s]
    /\ Update(s, PumpArqBacklog(
                   ReportBuffer([station[s] EXCEPT !.backlog = @ + 1, !.submitted = @ + 1]), env))
    /\ UNCHANGED << handed, resets >>

\* handle_set_speed_level
SetSpeedLevel(s, level, env) ==
    LET st == station[s]
        pinned == IF st.level = level THEN st ELSE ApplySpeedLevel(st, level, env)
    IN /\ level <= Top(st)
       /\ Update(s, [pinned EXCEPT !.manual = pinned.level])
       /\ UNCHANGED << handed, resets >>

SetSpeedAuto(s, env) ==
    LET st == [station[s] EXCEPT !.manual = 0]
    IN /\ Update(s, IF st.level = st.loop.level THEN st ELSE ApplySpeedLevel(st, st.loop.level, env))
       /\ UNCHANGED << handed, resets >>

Poll(s, expired, env) ==
    /\ Update(s, RetryHeld(CheckArqRetransmits(station[s], expired, env), env))
    /\ UNCHANGED << handed, resets >>

\* The first frame of the keyed interval has played; with the last, PTT
\* releases and the queue goes on.
Played(st, env) ==
    LET off == [st EXCEPT !.air = Tail(@)]
    IN IF Transmitting(off) THEN off ELSE TryDrainTxQueue(ReportBuffer(off), env)

\* It is decoded by the other station, unless that one is itself keyed.
Heard(s, type) ==
    /\ Transmitting(station[s]) /\ ~Transmitting(station[Other(s)])
    /\ Head(station[s].air).type = type

DeliverData(s, env) ==
    LET p == Other(s)
        f == Head(station[s].air)
    IN /\ Heard(s, "Data")
       /\ station' = [station EXCEPT ![s] = Played(@, env), ![p] = HandleReliable(@, f, env)]
       /\ handed' = [handed EXCEPT ![p] = @ \o RxDelivered(station[p].rx, f.num, f.data, Window)]
       /\ UNCHANGED resets

DeliverAck(s, rate, env) ==
    LET f == Head(station[s].air)
    IN /\ Heard(s, "Ack")
       /\ station' = [station EXCEPT ![s] = Played(@, env), ![Other(s)] = HandleAck(@, f, rate, env)]
       /\ UNCHANGED << handed, resets >>

\* Or is lost, cancelled or cut off by the watchdog.
Lose(s, env) ==
    /\ Transmitting(station[s])
    /\ station' = [station EXCEPT ![s] = Played(@, env)]
    /\ UNCHANGED << handed, resets >>

\* coppad answers a Reset and never sends one: it is another implementation's.
ForeignReset(s, env) ==
    /\ resets < MaxResets
    /\ ~Transmitting(station[s])
    /\ station' = [station EXCEPT ![s] = HandleReset(@, env)]
    /\ resets' = resets + 1
    /\ UNCHANGED handed

Next ==
    \/ \E s \in Stations, env \in Calm : HostData(s, env)
    \/ \E s \in Stations, env \in Calm : \E level \in Pins[s] : SetSpeedLevel(s, level, env)
    \/ \E s \in Stations, env \in Calm : SetSpeedAuto(s, env)
    \/ \E s \in Stations, env \in Env : \E expired \in SUBSET Outstanding(station[s].tx) : Poll(s, expired, env)
    \/ \E s \in Stations, env \in Env : DeliverData(s, env)
    \/ \E s \in Stations, rate \in Rates, env \in Calm : DeliverAck(s, rate, env)
    \/ \E s \in Stations, env \in Calm : Lose(s, env)
    \/ \E s \in ResetAt, env \in Calm : ForeignReset(s, env)

Spec == Init /\ [][Next]_vars

-----------------------------------------------------------------------------
(* Properties. *)

\* The shapes of the windows, the queue and the controller.
TypeOK ==
    /\ \A s \in Stations : station[s] \in StationType /\ handed[s] \in Seq(Data)
    /\ resets \in 0 .. MaxResets

\* The exception of docs/LIMITATIONS.md: the ack_num 0 of a peer's data PDU is
\* taken for an ACK once a sender is half the sequence space on.
Crossed ==
    \E s \in Stations : station[s].submitted >= HalfSpace /\ station[Other(s)].submitted > 0

\* What the peer has, handed up or waiting for a gap to close.
AtPeer(s) == LET rx == station[Other(s)].rx
             IN Len(handed[Other(s)]) + Cardinality({i \in Slot : rx.rx_buf[i].received})

\* Without a Reset and outside that exception, payloads reach the other host in
\* order and once each, through probes, early timeouts and stale queue entries,
\* and a payload that BUFFER no longer counts has reached the peer.
ReliableInOrder ==
    resets = 0 /\ ~Crossed =>
        \A s \in Stations :
            /\ \A i \in DOMAIN handed[s] : handed[s][i] = i
            /\ station[s].submitted - station[s].reported <= AtPeer(s)

\* BUFFER as hosts last heard it is what the modem holds, backlog and window,
\* whichever of the event loop's functions changed one of the two last.
BufferIsHonest ==
    \A s \in Stations :
        station[s].reported = station[s].backlog + Cardinality(UnackedSlots(station[s].tx))

\* Between events the engine is at the operator's pin, as far as its band allows,
\* or else at the rate loop's level: no probe, timeout, ACK or rebind leaves it
\* elsewhere.  Nothing wideband is keyed on evidence that no longer permits it.
LevelInForce ==
    \A s \in Stations :
        LET st == station[s]
        IN /\ st.level = IF st.manual = 0 THEN st.loop.level ELSE Min({st.manual, Top(st)})
           /\ \A i \in DOMAIN st.air : st.air[i].lawful

\* A queue that waits with nothing keyed is due for another try.
NothingParked ==
    \A s \in Stations : station[s].queue # << >> /\ ~Transmitting(station[s]) => station[s].held
=============================================================================
