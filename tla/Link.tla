-------------------------------- MODULE Link --------------------------------
(***************************************************************************)
(* coppa_engine::link::Link, the sans-IO connected session, at both ends   *)
(* of one half-duplex channel: CONNECT handshake, stop-and-wait ARQ (the   *)
(* operators of module Arq with a window of one), keepalives, drain and    *)
(* DISCONNECT.                                                             *)
(*                                                                         *)
(* A station is a record and the methods of Link are operators on it, so   *)
(* that process() is the composition the code is: receive, run_timers,     *)
(* key_up.  One payload stands for the bytes of one frame (fit_chunk_len). *)
(* Bytes submitted in a session are numbered 1, 2, ...; `sid` is ghost: it *)
(* numbers the established sessions of a station and rides on its frames.  *)
(*                                                                         *)
(* Time: idle counts ticks since Session::last_activity; a tick is a time  *)
(* much longer than a frame and passes only when neither station has       *)
(* anything to do at once.  The RTO and the CONNECT_REQ retry interval may *)
(* elapse at any moment.                                                   *)
(***************************************************************************)
EXTENDS Arq, Sequences

CONSTANTS
    Stations,           \* the two stations
    MaxRetransmit,      \* LinkConfig::max_retransmit
    ConnectRetries,     \* LinkConfig::connect_retries
    KeepaliveTicks,     \* LinkConfig::keepalive_interval
    HandshakeTicks,     \* HANDSHAKE_TIMEOUT_SECS
    SessionTicks,       \* LinkConfig::session_timeout
    Callers,            \* bound: stations whose user calls connect()
    Listeners,          \* bound: stations whose user calls set_listening()
    Senders,            \* bound: stations whose user calls send()
    MaxConnects,        \* bound: calls of connect()
    BulkSenders,        \* bound: of Senders, those that may send() more than once
    MaxPayload          \* bound: payloads such a station submits in a session

ASSUME LinkAssumption ==
    /\ IsFiniteSet(Stations) /\ Cardinality(Stations) = 2
    /\ MaxRetransmit \in 0 .. CountMax - 1 /\ ConnectRetries \in Nat
    /\ {KeepaliveTicks, HandshakeTicks, SessionTicks} \subseteq Nat \ {0}
    /\ Callers \cup Listeners \cup Senders \subseteq Stations /\ BulkSenders \subseteq Senders
    /\ MaxConnects \in Nat /\ MaxPayload \in Nat \ {0}

VARIABLES
    station,    \* [Stations -> the Link at that station]
    handed,     \* handed[s][n]: payloads of the peer's session n given to s
    connects    \* calls of connect() so far

vars == << station, handed, connects >>

Other(s) == CHOOSE p \in Stations : p # s

\* SESSION_ARQ_WINDOW
Window == 1

Phases == {"Idle", "Calling", "Accepting", "Connected", "Draining", "Closing"}
Reasons == {"Local", "Remote", "Timeout", "RetriesExhausted", "HandshakeFailed"}
FrameTypes == {"Req", "ConnectAck", "Cfm", "Data", "Ack", "Disconnect", "Keepalive"}
Sids == 0 .. MaxConnects

Frame == [type : FrameTypes, sid : Sids, num : SeqNum, data : 0 .. MaxPayload]
NoFrame == [type |-> "None", sid |-> 0, num |-> 0, data |-> 0]

StationType ==
    [phase : Phases, listening : BOOLEAN, sid : Sids,
     tx : TxType(1 .. MaxPayload), rx : RxType(1 .. MaxPayload),
     submitted : 0 .. MaxPayload,       \* ghost: payloads given to send() in session sid
     backlog : 0 .. MaxPayload,         \* of those, not yet in the ARQ
     queue : Seq(Frame), air : Frame \cup {NoFrame},
     closing : Reasons \cup {"None"}, event : Reasons \cup {"None", "Connected"},
     req_attempts : 0 .. ConnectRetries + 1, req_keyed : BOOLEAN,
     awaiting_first_ack : BOOLEAN, data_keyed : BOOLEAN, idle : 0 .. SessionTicks]

\* Link::new, not listening until set_listening.
LinkNew ==
    [phase |-> "Idle", listening |-> FALSE, sid |-> 0, tx |-> ArqTxNew, rx |-> ArqRxNew,
     submitted |-> 0, backlog |-> 0, queue |-> << >>, air |-> NoFrame,
     closing |-> "None", event |-> "None", req_attempts |-> 0, req_keyed |-> FALSE,
     awaiting_first_ack |-> FALSE, data_keyed |-> FALSE, idle |-> 0]

-----------------------------------------------------------------------------
(* Frames and the pieces every handler uses. *)

Control(st, type) == [type |-> type, sid |-> st.sid, num |-> 0, data |-> 0]
DataFrame(st, seq) ==
    [type |-> "Data", sid |-> st.sid, num |-> seq, data |-> st.tx.tx_buf[SlotOf(seq)].data]
\* session_ack_frame: with a window of one the bitmap of ack_info is empty.
AckFrame(st) == [type |-> "Ack", sid |-> st.sid, num |-> AckInfo(st.rx).ack_num, data |-> 0]

HasSession(st) == st.phase \in {"Calling", "Accepting", "Connected", "Draining"}
HasArq(st) == st.phase \in {"Connected", "Draining"}
Transmitting(st) == st.air # NoFrame
\* VecDeque::retain: the frames of other types, in their order.
Without(queue, type) ==
    LET kept == {i \in DOMAIN queue : queue[i].type # type}
        order == CHOOSE o \in [1 .. Cardinality(kept) -> kept] :
                    \A i, j \in DOMAIN o : i < j => o[i] < o[j]
    IN [i \in DOMAIN order |-> queue[order[i]]]
Enqueue(st, f) == [st EXCEPT !.queue = Append(@, f)]
Touch(st) == IF HasSession(st) THEN [st EXCEPT !.idle = 0] ELSE st

\* Faulty variant: frames of the ended session stay queued.
ResetSessionState_KeepsQueue(st) ==
    [st EXCEPT !.tx = ArqTxNew, !.rx = ArqRxNew, !.backlog = 0,
               !.req_attempts = 0, !.req_keyed = FALSE,
               !.awaiting_first_ack = FALSE, !.data_keyed = FALSE]

ResetSessionState(st) ==
    [st EXCEPT !.tx = ArqTxNew, !.rx = ArqRxNew, !.backlog = 0, !.queue = << >>,
               !.req_attempts = 0, !.req_keyed = FALSE,
               !.awaiting_first_ack = FALSE, !.data_keyed = FALSE]

\* end_session: with a DISCONNECT to send the event is held back in Closing.
EndSession(st, reason, send_disconnect) ==
    LET reset == [ResetSessionState(st) EXCEPT !.idle = 0]
    IN IF send_disconnect
         THEN [Enqueue(reset, Control(st, "Disconnect"))
                 EXCEPT !.phase = "Closing", !.closing = reason]
         ELSE [reset EXCEPT !.phase = "Idle", !.event = reason]

\* established: a fresh ARQ pair and the Connected event.
Established(st) ==
    [st EXCEPT !.phase = "Connected", !.tx = ArqTxNew, !.rx = ArqRxNew,
               !.sid = @ + 1, !.submitted = 0, !.event = "Connected"]

-----------------------------------------------------------------------------
(* handle_pdu.  Only the two stations are on the channel, so every frame is *)
(* from the peer when a session exists.                                     *)

OnConnectReq(st) ==
    IF st.phase = "Accepting" \/ (st.phase = "Idle" /\ st.listening)
      THEN [Enqueue(ResetSessionState(st), Control(st, "ConnectAck"))
              EXCEPT !.phase = "Accepting", !.idle = 0]
      ELSE st

OnConnectAck(st) ==
    IF st.phase = "Calling"
      THEN [Established([st EXCEPT !.queue = Append(Without(@, "Req"), Control(st, "Cfm")),
                                   !.req_keyed = FALSE])
              EXCEPT !.awaiting_first_ack = TRUE]
      ELSE st

\* Faulty variant: a repeated CONNECT_CFM establishes the session again.
OnConnectCfm_Again(st) ==
    IF st.phase \in {"Accepting", "Connected"} THEN Established(st) ELSE st

OnConnectCfm(st) == IF st.phase = "Accepting" THEN Established(st) ELSE st

\* A duplicate is acknowledged again; one queued ACK is enough (queue_ack).
OnData(st, f) ==
    IF ~HasArq(st) THEN st
    ELSE LET got == [st EXCEPT !.rx = RxReceive(@, f.num, f.data, Window)]
         IN [got EXCEPT !.queue = Append(Without(@, "Ack"), AckFrame(got))]

\* on_ack: an ACK beyond what is in flight is ignored.
OnAck(st, f) ==
    IF ~HasArq(st) \/ WrapSub(f.num, st.tx.send_base) > InFlight(st.tx) THEN st
    ELSE LET tx == ProcessAck(st.tx, f.num, {})
         IN [st EXCEPT !.tx = tx,
                       !.data_keyed = @ /\ InFlight(tx) > 0,
                       !.queue = IF InFlight(tx) = 0 THEN Without(@, "Data") ELSE @,
                       !.awaiting_first_ack = FALSE]

HandlePdu(st, f) ==
    IF f.type = "Disconnect"
      THEN IF HasSession(st) THEN EndSession(st, "Remote", FALSE) ELSE st
      ELSE Touch(CASE f.type = "Req" -> OnConnectReq(st)
                   [] f.type = "ConnectAck" -> OnConnectAck(st)
                   [] f.type = "Cfm" -> OnConnectCfm(st)
                   [] f.type = "Data" -> OnData(st, f)
                   [] f.type = "Ack" -> OnAck(st, f)
                   [] OTHER -> st)

Receive(st, f) == IF f = NoFrame THEN st ELSE HandlePdu(st, f)

\* What the frame makes ArqRx hand up.
HandedUp(st, f) ==
    IF f.type = "Data" /\ HasArq(st) THEN RxDelivered(st.rx, f.num, f.data, Window) ELSE << >>

-----------------------------------------------------------------------------
(* run_timers; `due` names the intervals that have elapsed. *)

\* Session::is_timed_out, by the session's state.
TimeoutTicks(st) == IF HasArq(st) THEN SessionTicks ELSE HandshakeTicks
IsTimedOut(st) == HasSession(st) /\ st.idle >= TimeoutTicks(st)
NeedsKeepalive(st) == st.phase = "Connected" /\ st.idle >= KeepaliveTicks

RunRetransmits(st, due) ==
    LET seqs == GetRetransmits(st.tx, IF "rto" \in due THEN SeqNum ELSE {}, MaxRetransmit)
        resend(seq) ==
            [st EXCEPT !.tx = MarkRetransmitted(@, seqs),
                       !.queue = Without(@, "Data")
                                   \o (IF st.awaiting_first_ack THEN << Control(st, "Cfm") >> ELSE << >>)
                                   \o << DataFrame(st, seq) >>]
    IN CASE ~HasArq(st) -> st
         [] HasArq(st) /\ InFlight(st.tx) > 0 /\ IsFailed(st.tx, st.tx.send_base, MaxRetransmit)
              /\ st.data_keyed /\ "rto" \in due -> EndSession(st, "RetriesExhausted", TRUE)
         [] OTHER -> IF seqs = {} THEN st ELSE resend(st.tx.send_base)

RunSessionTimers(st, due) ==
    IF IsTimedOut(st)
      THEN EndSession(st, IF HasArq(st) THEN "Timeout" ELSE "HandshakeFailed", FALSE)
      ELSE RunRetransmits(IF NeedsKeepalive(st) /\ st.queue = << >>
                            THEN Enqueue([st EXCEPT !.idle = 0], Control(st, "Keepalive"))
                            ELSE st, due)

\* Faulty variant: the request is repeated without limit.
RunTimers_RetryForever(st, due) ==
    IF st.phase = "Calling" /\ st.req_keyed /\ "req" \in due
      THEN RunSessionTimers(Enqueue([st EXCEPT !.req_keyed = FALSE, !.req_attempts = 0], Control(st, "Req")), due)
      ELSE RunSessionTimers(st, due)

RunTimers(st, due) ==
    IF st.phase = "Calling" /\ st.req_keyed /\ "req" \in due
      THEN IF st.req_attempts <= ConnectRetries
             THEN RunSessionTimers(Enqueue([st EXCEPT !.req_keyed = FALSE], Control(st, "Req")), due)
             ELSE EndSession(st, "HandshakeFailed", FALSE)
      ELSE RunSessionTimers(st, due)

-----------------------------------------------------------------------------
(* key_up. *)

Key(st, f) ==
    LET on == Touch([st EXCEPT !.air = f])
    IN CASE f.type = "Req" -> [on EXCEPT !.req_attempts = @ + 1, !.req_keyed = TRUE]
         [] f.type = "Data" -> [on EXCEPT !.data_keyed = TRUE]
         [] OTHER -> on

KeyHead(st) == Key([st EXCEPT !.queue = Tail(@)], Head(st.queue))

KeyNewChunk(st) ==
    LET sent == [st EXCEPT !.tx = TxSend(@, st.submitted - st.backlog + 1), !.backlog = @ - 1]
    IN Key(sent, DataFrame(sent, st.tx.next_seq))

\* Faulty variant: a draining link closes with data still in flight.
KeyUp_EagerClose(st, hold) ==
    IF hold THEN st
    ELSE IF st.queue # << >> THEN KeyHead(st)
    ELSE IF ~HasArq(st) THEN st
    ELSE IF st.phase = "Draining" /\ st.backlog = 0 THEN KeyHead(EndSession(st, "Local", TRUE))
    ELSE IF InFlight(st.tx) > 0 \/ st.backlog = 0 THEN st
    ELSE KeyNewChunk(st)

\* `hold`: within the turnaround after the last decoded frame.
KeyUp(st, hold) ==
    IF hold THEN st
    ELSE IF st.queue # << >> THEN KeyHead(st)
    ELSE IF ~HasArq(st) \/ InFlight(st.tx) > 0 THEN st
    ELSE IF st.backlog > 0 THEN KeyNewChunk(st)
    ELSE IF st.phase = "Draining" THEN KeyHead(EndSession(st, "Local", TRUE))
    ELSE st

\* Link::process for a station that is not transmitting.
Process(st, f, due, hold) == KeyUp(RunTimers(Receive(st, f), due), hold)

\* The end of process() when the last sample of the frame has left.
Played(st) ==
    LET off == [st EXCEPT !.air = NoFrame]
    IN IF st.phase = "Closing" /\ st.queue = << >>
         THEN [off EXCEPT !.phase = "Idle", !.event = st.closing, !.closing = "None"]
         ELSE off

-----------------------------------------------------------------------------
(* Actions. *)

Init ==
    /\ station = [s \in Stations |-> LinkNew]
    /\ handed = [s \in Stations |-> [n \in 1 .. MaxConnects |-> << >>]]
    /\ connects = 0

Update(s, st) == station' = [station EXCEPT ![s] = st]

SetListening(s, on) ==
    /\ station[s].listening # on
    /\ Update(s, [station[s] EXCEPT !.listening = on])
    /\ UNCHANGED << handed, connects >>

Connect(s) ==
    /\ connects < MaxConnects
    /\ station[s].phase = "Idle"
    /\ LET st == ResetSessionState(station[s])
       IN Update(s, [Enqueue(st, Control(st, "Req")) EXCEPT !.phase = "Calling", !.idle = 0])
    /\ connects' = connects + 1
    /\ UNCHANGED handed

Send(s) ==
    /\ station[s].phase = "Connected"
    /\ station[s].submitted < IF s \in BulkSenders THEN MaxPayload ELSE 1
    /\ Update(s, [station[s] EXCEPT !.submitted = @ + 1, !.backlog = @ + 1])
    /\ UNCHANGED << handed, connects >>

Disconnect(s) ==
    /\ \/ /\ station[s].phase \in {"Calling", "Accepting"}
          /\ Update(s, EndSession(station[s], "Local", FALSE))
       \/ /\ station[s].phase = "Connected"
          /\ Update(s, Touch([station[s] EXCEPT !.phase = "Draining"]))
    /\ UNCHANGED << handed, connects >>

\* process() with nothing decoded.
Poll(s, due, hold) ==
    LET st == Process(station[s], NoFrame, due, hold)
    IN /\ ~Transmitting(station[s])
       /\ st # station[s]
       /\ Update(s, st)
       /\ UNCHANGED << handed, connects >>

\* The frame on the air ends and the other station decodes it, unless it is
\* itself transmitting; the turnaround then holds its own transmitter.
Deliver(s, due) ==
    LET p == Other(s)
        f == station[s].air
    IN /\ Transmitting(station[s]) /\ ~Transmitting(station[p])
       /\ station' = [station EXCEPT ![s] = Played(@), ![p] = Process(@, f, due, TRUE)]
       /\ handed' = IF HandedUp(station[p], f) = << >> THEN handed
                    ELSE [handed EXCEPT ![p][f.sid] = @ \o HandedUp(station[p], f)]
       /\ UNCHANGED connects

\* The frame ends and is not decoded.
Lose(s) ==
    /\ Transmitting(station[s])
    /\ Update(s, Played(station[s]))
    /\ UNCHANGED << handed, connects >>

\* Nothing left to do at once: neither on the air nor in the next process().
Settled(st) == ~Transmitting(st) /\ Process(st, NoFrame, {}, FALSE) = st

Tick ==
    /\ \A s \in Stations : Settled(station[s])
    /\ \E s \in Stations : HasSession(station[s])
    /\ station' = [s \in Stations |->
         IF HasSession(station[s]) THEN [station[s] EXCEPT !.idle = @ + 1] ELSE station[s]]
    /\ UNCHANGED << handed, connects >>

Timers == {"req", "rto"}

Next ==
    \/ \E s \in Listeners, on \in BOOLEAN : SetListening(s, on)
    \/ \E s \in Callers : Connect(s)
    \/ \E s \in Senders : Send(s)
    \/ \E s \in Stations : Disconnect(s)
    \/ \E s \in Stations, due \in SUBSET Timers, hold \in BOOLEAN : Poll(s, due, hold)
    \/ \E s \in Stations, due \in SUBSET Timers : Deliver(s, due)
    \/ \E s \in Stations : Lose(s)
    \/ Tick

Spec == Init /\ [][Next]_vars

\* Scheduling: the caller runs process() once per audio block, so a frame on
\* the air ends, what is ready is keyed after the turnaround, a timer that
\* keeps running out is served, and time passes.  No fairness is assumed of
\* the channel (Deliver) or of the user.
Fairness ==
    /\ \A s \in Stations : /\ WF_vars(Lose(s) \/ Deliver(s, {}))
                           /\ WF_vars(Poll(s, {}, FALSE))
                           /\ SF_vars(Poll(s, Timers, FALSE))
    /\ WF_vars(Tick)

FairSpec == Spec /\ Fairness

-----------------------------------------------------------------------------
(* Correctness. *)

\* The shapes of the two links and of what each has handed up.
TypeOK ==
    /\ station \in [Stations -> StationType]
    /\ \A s \in Stations : handed[s] \in [1 .. MaxConnects -> Seq(1 .. MaxPayload)]
    /\ connects \in 0 .. MaxConnects

\* Across every loss, retry, reconnection and half-open session, the payloads
\* of one session reach the peer in order and exactly once: no data of one
\* session is delivered into another, none is repeated, none skipped
\* (on_connect_req, established and reset_session_state keep the two ARQ
\* pairs in step).  An acknowledgement is never taken for data the peer does not
\* have: what left the window of the current session was handed up by the peer.
ReliableInOrder ==
    /\ \A s \in Stations, n \in 1 .. MaxConnects :
         \A i \in 1 .. Len(handed[s][n]) : handed[s][n][i] = i
    /\ \A s \in Stations :
         HasArq(station[s]) =>
             station[s].submitted - station[s].backlog - InFlight(station[s].tx)
                 <= Len(handed[Other(s)][station[s].sid])

\* disconnect() of a connected link "first sends every queued byte": a link
\* that closes with reason Local after its drain left nothing undelivered.
DrainDeliversEverything ==
    \A s \in Stations :
        (station[s].phase = "Closing" /\ station[s].closing = "Local") =>
            Len(handed[Other(s)][station[s].sid]) = station[s].submitted

\* A queued or keyed frame belongs to the current session of its station, and
\* no data frame, ACK or request waits behind its newer copy: a held queue keys
\* nothing stale, into this session or the next.
QueueIsCurrent ==
    \A s \in Stations :
        /\ \A i \in 1 .. Len(station[s].queue) :
             LET f == station[s].queue[i]
             IN /\ f.type \in {"Data", "Ack", "Keepalive"} => HasArq(station[s]) /\ f.sid = station[s].sid
                /\ f.type = "Disconnect" => station[s].phase = "Closing"
                /\ f.type = "Req" => station[s].phase = "Calling"
        /\ \A i, j \in 1 .. Len(station[s].queue) :
             LET type == station[s].queue[i].type
             IN type \in {"Data", "Ack", "Req"} /\ station[s].queue[j].type = type => i = j

\* A handshake ends on either side, whatever the channel loses: no caller goes
\* on calling, and an answerer whose CONNECT_CFM never arrives does not linger
\* (Session::is_timed_out).
HandshakeEnds ==
    \A s \in Stations :
        /\ (station[s].phase = "Calling") ~> (station[s].phase # "Calling")
        /\ (station[s].phase = "Accepting") ~> (station[s].phase # "Accepting")

\* disconnect() takes effect: a draining link reaches Idle, delivered or not.
DisconnectEnds ==
    \A s \in Stations : (station[s].phase \in {"Draining", "Closing"}) ~> (station[s].phase = "Idle")

=============================================================================
