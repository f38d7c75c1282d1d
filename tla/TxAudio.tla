------------------------------ MODULE TxAudio ------------------------------
(***************************************************************************)
(* The way of a transmission's samples from the event loop to the device   *)
(* (coppa-daemon/audio_output.rs, coppa-audio/playout.rs) and the cumulative*)
(* counters PTT is released by:                                            *)
(*                                                                         *)
(*   event loop --pending--> feeder --outer ring--> output worker          *)
(*              --sink ring--> device callback --> device buffer --> air   *)
(*                                                                         *)
(* Four threads share the rings and a few atomics.  A cancelled            *)
(* transmission is dropped from every buffer: the event loop clears what is*)
(* pending and raises discard_through, the worker drops what it has not    *)
(* forwarded and asks the callback to empty the sink ring, and holds new   *)
(* audio back until the callback has.  The worker's step is split where it *)
(* reads what another thread writes; the callback's progress is published  *)
(* store by store, under a seqlock.                                        *)
(*                                                                         *)
(* A sample is the record of its job and its place in the job; samples the *)
(* callback has copied stay in `device` until they have been heard.        *)
(***************************************************************************)
EXTENDS Integers, Sequences, FiniteSets

CONSTANTS
    Sizes,          \* lengths a transmission may have, in samples
    OuterCapacity,  \* slots of the daemon's audio-out ring
    SinkCapacity,   \* slots of the sink's ring
    ChunkSize,      \* most samples the worker reads at once
    DeviceBuffer,   \* most samples a callback copies before they are heard
    CancelPaths,    \* "wait": wait_for_discard follows; "nowait": it does not
    SettleTimesOut, \* whether DISCARD_SETTLE_TIMEOUT may pass first
    MayFail,        \* whether the output stream may fail
    MaxJobs         \* bound: transmissions submitted

ASSUME TxAudioAssumption ==
    /\ Sizes \subseteq Nat \ {0}
    /\ {OuterCapacity, SinkCapacity, ChunkSize, DeviceBuffer, MaxJobs} \subseteq Nat \ {0}
    /\ CancelPaths \subseteq {"wait", "nowait"}
    /\ {SettleTimesOut, MayFail} \subseteq BOOLEAN

VARIABLES
    pending, submitted,     \* PendingOutput
    outer,                  \* the audio-out ring
    worker,                 \* OutputWorker, and where its step is
    feedback,               \* OutputFeedback
    sink,                   \* CpalSink's ring and flush handshake
    device, consumed,       \* copied and not yet heard; CallbackState.consumed
    progress,               \* ProgressShared's seqlock
    jobs,                   \* the transmissions submitted, in order
    hold,                   \* wait_for_discard's `through`, 0 when not waiting
    gaveUp,                 \* history: a wait_for_discard has timed out
    aired                   \* history: samples heard, in order

vars == <<pending, submitted, outer, worker, feedback, sink, device, consumed, progress, jobs, hold,
          gaveUp, aired>>
source == <<pending, submitted, jobs, hold, gaveUp>>
playback == <<device, consumed, progress, aired>>

Sample == [job : 1..MaxJobs, n : Nat \ {0}]
Job == [size : Sizes, target : Nat, cancelled : BOOLEAN]
Steps == {"discard", "flush", "read", "write", "publish", "snapshot", "stopped"}

Least(a, b) == IF a < b THEN a ELSE b
Most(a, b) == IF a > b THEN a ELSE b
Front(s, k) == SubSeq(s, 1, Least(k, Len(s)))
Rest(s, k) == SubSeq(s, Least(k, Len(s)) + 1, Len(s))

\* The shapes of the rings and counters, and the capacities of the rings.
TypeOK ==
    /\ pending \in Seq(Sample) /\ submitted \in Nat
    /\ outer \in Seq(Sample) /\ Len(outer) <= OuterCapacity
    /\ worker \in [pc : Steps, buf : Seq(Sample), readTotal : Nat, discarded : Nat,
                   applied : Nat, flushPending : BOOLEAN, snapConsumed : Nat, snapTime : Nat]
    /\ Len(worker.buf) <= ChunkSize
    /\ feedback \in [played : Nat, failed : BOOLEAN, discardThrough : Nat, finish : Seq(Nat)]
    /\ sink \in [ring : Seq(Sample), requested : Nat, served : Nat, flushed : Nat,
                 request : Nat, reported : Nat, failed : BOOLEAN]
    /\ Len(sink.ring) <= SinkCapacity
    /\ device \in Seq(Sample) /\ Len(device) <= DeviceBuffer /\ consumed \in Nat
    /\ progress \in [consumed : Nat, deadline : Nat, odd : BOOLEAN, unchanged : BOOLEAN]
    /\ jobs \in Seq(Job) /\ Len(jobs) <= MaxJobs
    /\ hold \in Nat /\ gaveUp \in BOOLEAN
    /\ aired \in Seq(Sample)

Init ==
    /\ pending = << >> /\ submitted = 0
    /\ outer = << >>
    /\ worker = [pc |-> "discard", buf |-> << >>, readTotal |-> 0, discarded |-> 0,
                 applied |-> 0, flushPending |-> FALSE, snapConsumed |-> 0, snapTime |-> 0]
    /\ feedback = [played |-> 0, failed |-> FALSE, discardThrough |-> 0, finish |-> << >>]
    /\ sink = [ring |-> << >>, requested |-> 0, served |-> 0, flushed |-> 0,
               request |-> 0, reported |-> 0, failed |-> FALSE]
    /\ device = << >> /\ consumed = 0
    /\ progress = [consumed |-> 0, deadline |-> 0, odd |-> FALSE, unchanged |-> FALSE]
    /\ jobs = << >> /\ hold = 0 /\ gaveUp = FALSE /\ aired = << >>

-----------------------------------------------------------------------------
(* The event loop and the feeder task, which share TxOutput's mutex.        *)

\* Faulty variant: the ring drops what does not fit.
Flush_Overflows(queue) ==
    /\ outer' = outer \o Front(queue, OuterCapacity - Len(outer))
    /\ pending' = << >>

\* PendingOutput::flush: as much of the queue as the ring has room for.
Flush(queue) ==
    LET room == OuterCapacity - Len(outer) IN
    /\ outer' = outer \o Front(queue, room)
    /\ pending' = Rest(queue, room)

Samples(j, size) == [n \in 1..size |-> [job |-> j, n |-> n]]

\* TxOutput::submit_with_finish for one transmission: its boundary is
\* registered before the ring sees a sample of it.  Nothing is queued when the
\* output is gone.  transmit_samples runs in the event loop, which a
\* wait_for_discard holds.
Submit(size) ==
    LET j == Len(jobs) + 1 IN
    /\ hold = 0 /\ j <= MaxJobs
    /\ worker.pc # "stopped"
    /\ submitted' = submitted + size
    /\ feedback' = [feedback EXCEPT !.finish = Append(@, submitted + size)]
    /\ jobs' = Append(jobs, [size |-> size, target |-> submitted + size, cancelled |-> FALSE])
    /\ Flush(pending \o Samples(j, size))
    /\ UNCHANGED <<worker, sink, hold, gaveUp>> /\ UNCHANGED playback

\* TxOutput::flush, every PROGRESS_TICK.
Feed ==
    /\ pending # << >> /\ Len(outer) < OuterCapacity
    /\ Flush(pending)
    /\ UNCHANGED <<submitted, worker, feedback, sink, jobs, hold, gaveUp>> /\ UNCHANGED playback

\* Faulty variant: `submitted` read before the queue is cleared.
DiscardPoint_BeforeClear == submitted

\* What cancel_pending_tx_audio has the output discard through: the samples
\* submitted less the ones it just dropped from the queue.
DiscardPoint == submitted - Len(pending)

\* OutputFeedback::discard_through.
DiscardThrough(through) ==
    feedback' = [feedback EXCEPT !.discardThrough = Most(@, through), !.finish = << >>]

\* cancel_pending_tx_audio, for every transmission of the keyed interval.
\* handle_tx_complete and abort_session then wait_for_discard; the backstop of
\* a busy-channel wait (force_release_ptt) does not.
Cancel(path) ==
    /\ hold = 0
    /\ jobs # << >> /\ ~jobs[Len(jobs)].cancelled
    /\ pending' = << >> /\ submitted' = submitted - Len(pending)
    /\ DiscardThrough(DiscardPoint)
    /\ jobs' = [j \in DOMAIN jobs |-> [jobs[j] EXCEPT !.cancelled = TRUE]]
    /\ hold' = IF path = "wait" THEN DiscardPoint ELSE 0
    /\ UNCHANGED <<outer, worker, sink, gaveUp>> /\ UNCHANGED playback

\* Faulty variant: the wait ends as soon as the request is made.
Settled_Requested(through) == feedback.discardThrough >= through \/ feedback.failed

\* discard_settled.
Settled(through) == feedback.played >= through \/ feedback.failed

\* wait_for_discard returns: the audio is gone, or DISCARD_SETTLE_TIMEOUT passed,
\* which it does only for a device that stopped consuming: in its 500 ms the
\* worker, which sleeps 2 ms at most, has seen the request.
WaitForDiscard ==
    /\ hold > 0
    /\ Settled(hold) \/ (SettleTimesOut /\ worker.applied >= hold)
    /\ hold' = 0 /\ gaveUp' = (gaveUp \/ ~Settled(hold))
    /\ UNCHANGED <<pending, submitted, jobs, outer, worker, feedback, sink>>
    /\ UNCHANGED playback

-----------------------------------------------------------------------------
(* The output worker's thread: OutputWorker::step.                          *)

Forwarded == worker.readTotal - Len(worker.buf)

\* Whether the sink holds nothing but audio below the discard point.
SinkAllCancelled(through) == through >= Forwarded

\* apply_discard: drop what is not yet forwarded below a new discard point and
\* have the sink drop its own, unless later audio has already reached it.
ApplyDiscard ==
    LET through == feedback.discardThrough
        fresh == through > worker.applied
        drops == fresh /\ through > Forwarded
        ringDrop == IF drops THEN Most(0, Least(through - worker.readTotal, Len(outer))) ELSE 0
        flush == worker.flushPending \/ (fresh /\ SinkAllCancelled(through))
    IN
    /\ outer' = Rest(outer, ringDrop)
    /\ worker' = [worker EXCEPT
            !.applied = Most(@, through),
            !.flushPending = flush,
            !.discarded = @ + ringDrop + (IF drops THEN Len(worker.buf) ELSE 0),
            !.readTotal = @ + ringDrop,
            !.buf = IF drops THEN << >> ELSE @,
            !.pc = IF flush THEN "flush" ELSE "read"]

WorkerDiscard ==
    /\ worker.pc = "discard"
    /\ ApplyDiscard
    /\ UNCHANGED source /\ UNCHANGED <<feedback, sink>> /\ UNCHANGED playback

\* Faulty variant: a requested drop is taken for a served one.
FlushServed_Requested == sink.failed \/ sink.request > 0

\* CpalSink::discard_buffered: the first call requests, a later one collects
\* what the callback dropped.  A failed stream has nothing left to play.
FlushServed == sink.failed \/ (sink.request > 0 /\ sink.served >= sink.request)
FlushCount == IF sink.failed THEN 0 ELSE sink.flushed - sink.reported

WorkerFlush ==
    /\ worker.pc = "flush"
    /\ \/ /\ FlushServed
          /\ worker' = [worker EXCEPT !.flushPending = FALSE, !.discarded = @ + FlushCount,
                                      !.pc = "read"]
          /\ sink' = [sink EXCEPT !.request = 0, !.reported = @ + FlushCount]
       \/ /\ ~FlushServed /\ sink.request = 0
          /\ worker' = [worker EXCEPT !.pc = "publish"]
          /\ sink' = [sink EXCEPT !.requested = @ + 1, !.request = sink.requested + 1]
       \/ /\ ~FlushServed /\ sink.request > 0
          /\ worker' = [worker EXCEPT !.pc = "publish"]
          /\ UNCHANGED sink
    /\ UNCHANGED source /\ UNCHANGED <<outer, feedback>> /\ UNCHANGED playback

\* A fresh chunk, once the retained one has been accepted whole.
WorkerRead ==
    LET n == IF worker.buf = << >> THEN Least(ChunkSize, Len(outer)) ELSE 0
        buf == worker.buf \o Front(outer, n)
    IN
    /\ worker.pc = "read"
    /\ outer' = Rest(outer, n)
    /\ worker' = [worker EXCEPT !.buf = buf, !.readTotal = @ + n,
                                !.pc = IF buf = << >> THEN "publish" ELSE "write"]
    /\ UNCHANGED source /\ UNCHANGED <<feedback, sink>> /\ UNCHANGED playback

\* How much of the chunk may be offered: nothing past the front boundary.
Offered ==
    IF feedback.finish = << >> THEN Len(worker.buf)
    ELSE Least(Most(0, Head(feedback.finish) - Forwarded), Len(worker.buf))

\* sink.write (write_capped): what fits; an error ends the worker.
WorkerWrite ==
    LET n == Least(Offered, SinkCapacity - Len(sink.ring)) IN
    /\ worker.pc = "write"
    /\ \/ /\ Offered > 0 /\ sink.failed
          /\ worker' = [worker EXCEPT !.pc = "stopped"]
          /\ feedback' = [feedback EXCEPT !.failed = TRUE]
          /\ UNCHANGED sink
       \/ /\ Offered = 0 \/ ~sink.failed
          /\ worker' = [worker EXCEPT !.buf = Rest(@, n), !.pc = "publish"]
          /\ sink' = [sink EXCEPT !.ring = @ \o Front(worker.buf, n)]
          /\ UNCHANGED feedback
    /\ UNCHANGED source /\ UNCHANGED outer /\ UNCHANGED playback

\* Faulty variant: a boundary exactly reached is not finished.
FinishLeft_Reached ==
    LET finish == feedback.finish
    IN Rest(finish, Cardinality({i \in DOMAIN finish : \A k \in 1..i : finish[k] < Forwarded}))

\* finish_completed_tails: pops the boundaries the sink has been given whole.
FinishLeft ==
    LET finish == feedback.finish
    IN Rest(finish, Cardinality({i \in DOMAIN finish : \A k \in 1..i : finish[k] <= Forwarded}))

\* Faulty variant: an odd number is taken too.
MaySnapshot_Odd == TRUE
\* The snapshot waits out a callback that is publishing.
MaySnapshot == ~progress.odd

\* The end of a step: finish the tails, then read the sink's progress
\* (progress_at, snapshot): the time, the seqlock's even number, one of the two
\* values.  Time is counted in samples heard.
WorkerPublish ==
    /\ worker.pc = "publish"
    /\ feedback' = [feedback EXCEPT !.failed = @ \/ sink.failed, !.finish = FinishLeft]
    /\ \/ /\ sink.failed
          /\ worker' = [worker EXCEPT !.pc = "stopped"]
          /\ UNCHANGED progress
       \/ /\ ~sink.failed /\ MaySnapshot
          /\ worker' = [worker EXCEPT !.pc = "snapshot", !.snapConsumed = progress.consumed,
                                      !.snapTime = Len(aired)]
          /\ progress' = [progress EXCEPT !.unchanged = TRUE]
    /\ UNCHANGED source /\ UNCHANGED <<outer, sink, device, consumed, aired>>

\* The number is still the one read first; the code tries again if not.
Coherent == progress.unchanged

\* OutputFeedback::publish: consumed less what is still to be heard by the
\* deadline, plus what will never be consumed.
PlayedNow == Most(0, worker.snapConsumed - Most(0, progress.deadline - worker.snapTime)) + worker.discarded

\* The other value, and the check that both belong together.
WorkerSnapshot ==
    /\ worker.pc = "snapshot"
    /\ worker' = [worker EXCEPT !.pc = IF Coherent THEN "discard" ELSE "publish",
                                !.snapConsumed = 0, !.snapTime = 0]
    /\ feedback' = [feedback EXCEPT !.played = IF Coherent THEN Most(@, PlayedNow) ELSE @]
    /\ progress' = [progress EXCEPT !.unchanged = FALSE]
    /\ UNCHANGED source /\ UNCHANGED <<outer, sink, device, consumed, aired>>

WorkerStep ==
    WorkerDiscard \/ WorkerFlush \/ WorkerRead \/ WorkerWrite \/ WorkerPublish \/ WorkerSnapshot

-----------------------------------------------------------------------------
(* The device: its callback (fill_output), its buffer, its errors.          *)

\* serve_flush.
FlushWanted == sink.requested # sink.served
Flushed ==
    IF FlushWanted
    THEN [sink EXCEPT !.flushed = @ + Len(sink.ring), !.ring = << >>, !.served = sink.requested]
    ELSE sink

\* A callback for k samples: serve the flush, then copy what the ring holds and
\* begin to publish.  The device asks for no more than its buffer has room for.
Callback(k) ==
    LET n == IF sink.failed THEN 0 ELSE Least(k, Len(Flushed.ring)) IN
    /\ ~progress.odd
    /\ FlushWanted \/ n > 0
    /\ Len(device) + k <= DeviceBuffer
    /\ sink' = [Flushed EXCEPT !.ring = Rest(@, n)]
    /\ device' = device \o Front(Flushed.ring, n)
    /\ consumed' = consumed + n
    /\ progress' = IF n = 0 THEN progress ELSE [progress EXCEPT !.odd = TRUE, !.unchanged = FALSE]
    /\ UNCHANGED source /\ UNCHANGED <<outer, worker, feedback, aired>>

\* ProgressShared::publish: one value, then the other and the even number.
CallbackPublish ==
    /\ progress.odd
    /\ progress' = IF progress.consumed # consumed THEN [progress EXCEPT !.consumed = consumed]
                   ELSE [progress EXCEPT !.deadline = consumed, !.odd = FALSE, !.unchanged = FALSE]
    /\ UNCHANGED source /\ UNCHANGED <<outer, worker, feedback, sink, device, consumed, aired>>

\* A callback whose timestamp is invalid: the samples it read are silenced and
\* the stream has failed.
CallbackBadTimestamp(k) ==
    /\ MayFail /\ ~sink.failed /\ ~progress.odd
    /\ Len(Flushed.ring) > 0
    /\ sink' = [Flushed EXCEPT !.ring = Rest(@, k), !.failed = TRUE]
    /\ UNCHANGED source /\ UNCHANGED <<outer, worker, feedback>> /\ UNCHANGED playback

\* The stream's error callback.
StreamError ==
    /\ MayFail /\ ~sink.failed
    /\ sink' = [sink EXCEPT !.failed = TRUE]
    /\ UNCHANGED source /\ UNCHANGED <<outer, worker, feedback>> /\ UNCHANGED playback

\* The oldest copied sample has been heard; none before its callback returns.
Hear ==
    /\ Len(device) > consumed - progress.deadline
    /\ aired' = Append(aired, Head(device))
    /\ device' = Tail(device)
    /\ UNCHANGED source /\ UNCHANGED <<outer, worker, feedback, sink, consumed, progress>>

Next ==
    \/ \E size \in Sizes : Submit(size)
    \/ Feed
    \/ \E path \in CancelPaths : Cancel(path)
    \/ WaitForDiscard
    \/ WorkerStep
    \/ \E k \in 1..DeviceBuffer : Callback(k) \/ CallbackBadTimestamp(k)
    \/ CallbackPublish
    \/ StreamError
    \/ Hear

Spec == Init /\ [][Next]_vars

\* The feeder ticks, the worker's thread runs, a started device keeps calling
\* back and its buffer drains; nothing makes the event loop submit or cancel.
Fairness ==
    /\ WF_vars(Feed) /\ WF_vars(WorkerStep) /\ WF_vars(Hear)
    /\ WF_vars(\E k \in 1..DeviceBuffer : Callback(k)) /\ WF_vars(CallbackPublish)
    /\ WF_vars(WaitForDiscard)

FairSpec == Spec /\ Fairness

-----------------------------------------------------------------------------
Live(j) == j \in DOMAIN jobs /\ ~jobs[j].cancelled
AllLive(s) == \A i \in DOMAIN s : Live(s[i].job)
NoneLive(s) == \A i \in DOMAIN s : ~Live(s[i].job)

\* Every sample still on its way, first to be heard first.
OnTheWay == device \o sink.ring \o worker.buf \o outer \o pending

\* Lossless delivery (audio_output.rs: "every producer boundary here retains its
\* unwritten suffix and retries it instead of dropping it"): the samples of the
\* transmissions not cancelled are all heard or still on their way, in order,
\* whatever was cancelled before them.
Lossless ==
    ~sink.failed =>
        LET got == aired \o OnTheWay
        IN /\ \A i, k \in DOMAIN got :
                 (i < k /\ Live(got[i].job) /\ Live(got[k].job)) =>
                     \/ got[i].job < got[k].job
                     \/ got[i].job = got[k].job /\ got[i].n < got[k].n
           /\ \A j \in DOMAIN jobs : Live(j) =>
                 \A n \in 1..jobs[j].size : \E i \in DOMAIN got : got[i] = [job |-> j, n |-> n]

\* PTT is released, and the next frame keyed after a cancel (discard_settled),
\* from samples really played: once `played` has reached a transmission's target
\* or the discard point, no sample below it is still on its way.  The counters of
\* four threads have to stay aligned through every drop for this.
PlayedIsHonest ==
    /\ \A j \in DOMAIN jobs :
         (Live(j) /\ feedback.played >= jobs[j].target) =>
             \A i \in 1..Len(OnTheWay) : OnTheWay[i].job # j
    /\ (feedback.played >= feedback.discardThrough) => AllLive(OnTheWay)

\* OutputFeedback::discard_through: a cancelled transmission's audio is not heard
\* "at the start of the next transmission": none is once a later one is submitted,
\* unless a wait for the drop has timed out.
NoStaleTail ==
    [][(~gaveUp /\ aired' # aired /\ ~Live(Head(device).job)) =>
            \A j \in Head(device).job..Len(jobs) : ~Live(j)]_vars

\* DISCARD_SETTLE_TIMEOUT: when the device is too slow "the output worker still
\* holds new audio back until the sink confirms the drop".
HeldBehindDrop == AllLive(sink.ring) \/ NoneLive(sink.ring)

\* discard_through: "once the drop has taken effect [...] `played()` reaches
\* `through`".  Every cancel takes effect in the end, whether or not the event
\* loop still waits for it, so no wait_for_discard has to run into its timeout.
CancelSettles ==
    (feedback.played < feedback.discardThrough)
        ~> (feedback.played >= feedback.discardThrough \/ feedback.failed)

\* A transmission that is not cancelled is heard, unless the output failed.
EverySubmissionPlays ==
    \A j \in 1..MaxJobs :
        (j \in DOMAIN jobs) ~>
            (~Live(j) \/ feedback.failed \/ feedback.played >= jobs[j].target)
=============================================================================
