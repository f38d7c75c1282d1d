--------------------------- MODULE TxAudioProofs ---------------------------
(***************************************************************************)
(* What the runs check of the transmit audio path, for transmissions and   *)
(* buffers of any size, when the event loop waits for each cancel.         *)
(***************************************************************************)
EXTENDS TxAudio, FiniteSetTheorems, SequenceTheorems, TLAPS

WaitsOnly == CancelPaths \subseteq {"wait"}

(***************************************************************************)
(* Every sample ever submitted has a number: where it stands among those   *)
(* that were not dropped from the event loop's own queue.  The live ones   *)
(* are those above discard_through.                                        *)
(***************************************************************************)
Number(x) == jobs[x.job].target - jobs[x.job].size + x.n
Right(x, i) ==
    IF i > feedback.discardThrough
      THEN Live(x.job) /\ Number(x) = i
      ELSE ~Live(x.job)

\* The samples of s stand in the stream right after the first `before`.
Placed(s, before) == \A i \in DOMAIN s : Right(s[i], before + i)

\* Samples that were dropped on the way, counted by the worker or not yet.
Dropped == worker.discarded + sink.flushed - sink.reported

\* Each buffer holds the part of the stream that the counters say.
Aligned ==
    /\ Dropped + consumed + Len(sink.ring) = Forwarded
    /\ Dropped <= feedback.discardThrough
    /\ Placed(aired, Dropped)
    /\ Placed(device, Dropped + Len(aired))
    /\ Placed(sink.ring, Dropped + consumed)
    /\ Placed(worker.buf, Forwarded)
    /\ Placed(outer, worker.readTotal)
    /\ Placed(pending, worker.readTotal + Len(outer))

\* The transmissions not cancelled follow the discard point, in order.
Ordered ==
    \A j \in DOMAIN jobs : Live(j) =>
        /\ feedback.discardThrough + jobs[j].size <= jobs[j].target
        /\ jobs[j].target <= submitted
        /\ \A k \in DOMAIN jobs : (j < k /\ Live(k)) => jobs[j].target + jobs[k].size <= jobs[k].target

\* Every sample belongs to a transmission.
Known(s) == \A i \in DOMAIN s : s[i].job \in DOMAIN jobs /\ s[i].n <= jobs[s[i].job].size
Belonging ==
    Known(aired) /\ Known(device) /\ Known(sink.ring) /\ Known(worker.buf) /\ Known(outer) /\ Known(pending)

\* Nothing of the stream is missing between the worker and the event loop, and
\* each buffer is a part of it.
Counted ==
    /\ worker.readTotal + Len(outer) + Len(pending) = submitted
    /\ Len(worker.buf) <= worker.readTotal
    /\ consumed = Len(aired) + Len(device)
    /\ worker.applied <= feedback.discardThrough
    /\ feedback.discardThrough + Len(pending) <= submitted
    /\ sink.reported <= sink.flushed

\* The callback's two published values, and what the worker has read of them.
Published ==
    /\ Len(aired) <= progress.deadline /\ progress.deadline <= consumed
    /\ ~progress.odd => progress.deadline = consumed /\ progress.consumed = consumed
    /\ progress.unchanged => ~progress.odd
    /\ worker.pc = "snapshot" =>
         /\ worker.snapTime <= Len(aired)
         /\ progress.unchanged => worker.snapConsumed = progress.deadline

\* What `played` is, or is about to become.
Reach ==
    IF worker.pc = "snapshot" THEN Most(feedback.played, worker.snapTime + worker.discarded)
    ELSE feedback.played

\* No sample above that number has gone; below the discard point none is left.
Ahead(s) == \A i \in DOMAIN s : Live(s[i].job) => Number(s[i]) > Reach
Honest ==
    /\ Reach + Len(device) + Len(sink.ring) <= Forwarded
    /\ Ahead(device) /\ Ahead(sink.ring) /\ Ahead(worker.buf) /\ Ahead(outer) /\ Ahead(pending)

OnlyLiveLeft ==
    AllLive(device) /\ AllLive(sink.ring) /\ AllLive(worker.buf) /\ AllLive(outer) /\ AllLive(pending)
Gone == Reach >= feedback.discardThrough => OnlyLiveLeft

\* While the event loop waits, everything submitted is cancelled; when it does
\* not, the worker has passed the discard point.
NoneSubmitted == \A j \in DOMAIN jobs : ~Live(j)
Waiting ==
    /\ hold > 0 => /\ hold = feedback.discardThrough /\ submitted = hold
                   /\ pending = << >> /\ NoneSubmitted
    /\ (hold = 0 \/ worker.applied >= feedback.discardThrough) =>
         Forwarded >= feedback.discardThrough \/ feedback.failed
    /\ (hold = 0 /\ ~gaveUp) => OnlyLiveLeft \/ (NoneSubmitted /\ feedback.failed)

\* The drop the worker asks of the sink: nothing is written until it is served,
\* and then nothing cancelled is left in the ring.
Dropping ==
    /\ worker.pc = "flush" => worker.flushPending
    /\ worker.flushPending => Forwarded <= feedback.discardThrough
    /\ worker.pc \in {"read", "write"} => ~worker.flushPending
    /\ sink.request > 0 =>
         /\ worker.flushPending /\ sink.request = sink.requested
         /\ sink.served >= sink.request => sink.ring = << >>
    /\ sink.served <= sink.requested
    /\ (~sink.failed /\ FlushWanted) => sink.request > 0
    /\ (hold = 0 \/ worker.applied >= feedback.discardThrough) /\ ~sink.failed =>
         worker.flushPending \/ AllLive(sink.ring)
    /\ feedback.failed => sink.failed /\ worker.pc = "stopped"

AudioInv ==
    /\ TypeOK /\ Ordered /\ Belonging /\ Counted /\ Published /\ Honest /\ Gone /\ Waiting /\ Dropping
    /\ HeldBehindDrop
    /\ ~sink.failed => Aligned

-----------------------------------------------------------------------------
(* Buffers: what their parts and their joins keep.                          *)

\* t is what s holds after its first o samples, or the beginning of that.
PartOf(t, s, o) == \A i \in DOMAIN t : o + i \in DOMAIN s /\ t[i] = s[o + i]

\* Front is a part of a sequence.
LEMMA FrontPart ==
    ASSUME NEW S, NEW s \in Seq(S), NEW k \in Nat
    PROVE  /\ Front(s, k) \in Seq(S) /\ Len(Front(s, k)) = Least(k, Len(s))
           /\ PartOf(Front(s, k), s, 0)
  <1> DEFINE n == Least(k, Len(s))
  <1>1. n \in 0 .. Len(s)
    BY DEF Least
  <1> HIDE DEF n
  <1>2. /\ SubSeq(s, 1, n) \in Seq(S) /\ Len(SubSeq(s, 1, n)) = n
        /\ \A i \in 1 .. n : SubSeq(s, 1, n)[i] = s[i] /\ i \in DOMAIN s
    BY <1>1
  <1>3. DOMAIN SubSeq(s, 1, n) = 1 .. n
    BY <1>2
  <1>4. QED
    BY <1>1, <1>2, <1>3 DEF Front, PartOf, n

\* Rest is the other part of it.
LEMMA RestPart ==
    ASSUME NEW S, NEW s \in Seq(S), NEW k \in Nat
    PROVE  /\ Rest(s, k) \in Seq(S) /\ Len(Rest(s, k)) = Len(s) - Least(k, Len(s))
           /\ PartOf(Rest(s, k), s, Least(k, Len(s)))
  <1> DEFINE n == Least(k, Len(s))
             t == SubSeq(s, n + 1, Len(s))
  <1>1. n \in 0 .. Len(s)
    BY DEF Least
  <1> HIDE DEF n
  <1>2. /\ t \in Seq(S) /\ Len(t) = Len(s) - n
        /\ \A i \in 1 .. (Len(s) - n) : t[i] = s[n + i] /\ n + i \in DOMAIN s
    BY <1>1
  <1>3. DOMAIN t = 1 .. (Len(s) - n)
    BY <1>1, <1>2
  <1> HIDE DEF t
  <1>4. QED
    BY <1>1, <1>2, <1>3 DEF Rest, PartOf, n, t

\* A part keeps what holds of every sample, and its place in the stream.
LEMMA PartKeeps ==
    ASSUME NEW s \in Seq(Sample), NEW t \in Seq(Sample), NEW o \in Nat, PartOf(t, s, o)
    PROVE  /\ Known(s) => Known(t)
           /\ Ahead(s) => Ahead(t)
           /\ AllLive(s) => AllLive(t)
           /\ NoneLive(s) => NoneLive(t)
           /\ \A b \in Int : Placed(s, b) => Placed(t, b + o)
  <1>1. /\ Known(s) => Known(t)
        /\ Ahead(s) => Ahead(t)
        /\ AllLive(s) => AllLive(t)
        /\ NoneLive(s) => NoneLive(t)
    BY DEF PartOf, Known, Ahead, AllLive, NoneLive
  <1>2. ASSUME NEW b \in Int, Placed(s, b) PROVE Placed(t, b + o)
    <2>1. ASSUME NEW i \in DOMAIN t PROVE Right(t[i], b + o + i)
      <3>1. o + i \in DOMAIN s /\ t[i] = s[o + i] /\ i \in Int
        BY DEF PartOf
      <3>2. Right(s[o + i], b + (o + i)) /\ b + (o + i) = b + o + i
        BY <1>2, <3>1 DEF Placed
      <3>3. QED
        BY <3>1, <3>2
    <2>2. QED
      BY <2>1 DEF Placed
  <1>3. QED
    BY <1>1, <1>2

\* Two neighbours joined.
LEMMA JoinKeeps ==
    ASSUME NEW s \in Seq(Sample), NEW t \in Seq(Sample)
    PROVE  /\ s \o t \in Seq(Sample) /\ Len(s \o t) = Len(s) + Len(t)
           /\ Known(s) /\ Known(t) => Known(s \o t)
           /\ Ahead(s) /\ Ahead(t) => Ahead(s \o t)
           /\ AllLive(s) /\ AllLive(t) => AllLive(s \o t)
           /\ NoneLive(s) /\ NoneLive(t) => NoneLive(s \o t)
           /\ \A b \in Int : Placed(s, b) /\ Placed(t, b + Len(s)) => Placed(s \o t, b)
  <1> DEFINE j == s \o t
  <1>1. j \in Seq(Sample) /\ Len(j) = Len(s) + Len(t)
    OBVIOUS
  <1>2. ASSUME NEW i \in DOMAIN j
        PROVE  \/ i \in DOMAIN s /\ j[i] = s[i]
               \/ i - Len(s) \in DOMAIN t /\ j[i] = t[i - Len(s)]
    OBVIOUS
  <1>3. \A i \in DOMAIN j : i \in Int
    BY <1>1
  <1> HIDE DEF j
  <1>4. /\ Known(s) /\ Known(t) => Known(j)
        /\ Ahead(s) /\ Ahead(t) => Ahead(j)
        /\ AllLive(s) /\ AllLive(t) => AllLive(j)
        /\ NoneLive(s) /\ NoneLive(t) => NoneLive(j)
    BY <1>2 DEF Known, Ahead, AllLive, NoneLive
  <1>5. ASSUME NEW b \in Int, Placed(s, b), Placed(t, b + Len(s)) PROVE Placed(j, b)
    <2>1. ASSUME NEW i \in DOMAIN j PROVE Right(j[i], b + i)
      <3>1. CASE i \in DOMAIN s /\ j[i] = s[i]
        BY <1>5, <3>1 DEF Placed
      <3>2. CASE i - Len(s) \in DOMAIN t /\ j[i] = t[i - Len(s)]
        <4>1. Right(t[i - Len(s)], (b + Len(s)) + (i - Len(s)))
          BY <1>5, <3>2 DEF Placed
        <4>2. (b + Len(s)) + (i - Len(s)) = b + i
          BY <1>3
        <4>3. QED
          BY <3>2, <4>1, <4>2
      <3>3. QED
        BY <1>2, <3>1, <3>2
    <2>2. QED
      BY <2>1 DEF Placed
  <1>6. QED
    BY <1>1, <1>4, <1>5 DEF j

\* Nothing taken is nothing changed.
LEMMA RestNone ==
    ASSUME NEW S, NEW s \in Seq(S)
    PROVE  Rest(s, 0) = s
  <1>1. Least(0, Len(s)) = 0
    BY DEF Least
  <1>2. SubSeq(s, 1, Len(s)) = s
    BY SubSeqFull
  <1>3. QED
    BY <1>1, <1>2 DEF Rest

\* The first k samples of s go to the end of t, the buffer before it.
LEMMA Moved ==
    ASSUME NEW s \in Seq(Sample), NEW t \in Seq(Sample), NEW k \in Nat
    PROVE  LET n == Least(k, Len(s))
               f == t \o Front(s, k)
               r == Rest(s, k)
           IN /\ n \in 0 .. Len(s) /\ n <= k
              /\ f \in Seq(Sample) /\ r \in Seq(Sample)
              /\ Len(f) = Len(t) + n /\ Len(r) = Len(s) - n
              /\ Known(s) /\ Known(t) => Known(f) /\ Known(r)
              /\ Ahead(s) /\ Ahead(t) => Ahead(f) /\ Ahead(r)
              /\ AllLive(s) /\ AllLive(t) => AllLive(f)
              /\ NoneLive(s) /\ NoneLive(t) => NoneLive(f)
              /\ AllLive(s) => AllLive(r)
              /\ NoneLive(s) => NoneLive(r)
              /\ n = 0 => (AllLive(t) => AllLive(f)) /\ (NoneLive(t) => NoneLive(f))
              /\ \A b \in Int : Placed(t, b) /\ Placed(s, b + Len(t)) =>
                    Placed(f, b) /\ Placed(r, b + Len(t) + n)
  <1> DEFINE n == Least(k, Len(s))
             h == Front(s, k)
             f == t \o h
             r == Rest(s, k)
  <1>1. n \in 0 .. Len(s) /\ n <= k
    BY DEF Least
  <1>2. h \in Seq(Sample) /\ Len(h) = n /\ PartOf(h, s, 0)
    BY FrontPart
  <1>3. r \in Seq(Sample) /\ Len(r) = Len(s) - n /\ PartOf(r, s, n)
    BY RestPart
  <1> HIDE DEF n, h, r
  <1>4. /\ Known(s) => Known(h)
        /\ Ahead(s) => Ahead(h)
        /\ AllLive(s) => AllLive(h)
        /\ NoneLive(s) => NoneLive(h)
        /\ \A b \in Int : Placed(s, b) => Placed(h, b + 0)
    BY <1>2, PartKeeps
  <1>5. /\ Known(s) => Known(r)
        /\ Ahead(s) => Ahead(r)
        /\ AllLive(s) => AllLive(r)
        /\ NoneLive(s) => NoneLive(r)
        /\ \A b \in Int : Placed(s, b) => Placed(r, b + n)
    BY <1>1, <1>3, PartKeeps
  <1>6. /\ f \in Seq(Sample) /\ Len(f) = Len(t) + Len(h)
        /\ Known(t) /\ Known(h) => Known(f)
        /\ Ahead(t) /\ Ahead(h) => Ahead(f)
        /\ AllLive(t) /\ AllLive(h) => AllLive(f)
        /\ NoneLive(t) /\ NoneLive(h) => NoneLive(f)
        /\ \A b \in Int : Placed(t, b) /\ Placed(h, b + Len(t)) => Placed(f, b)
    BY <1>2, JoinKeeps
  <1> HIDE DEF f
  <1>a. n = 0 => AllLive(h) /\ NoneLive(h)
    BY <1>2 DEF AllLive, NoneLive
  <1>7. ASSUME NEW b \in Int, Placed(t, b), Placed(s, b + Len(t))
        PROVE  Placed(f, b) /\ Placed(r, b + Len(t) + n)
    <2>1. b + Len(t) \in Int /\ (b + Len(t)) + 0 = b + Len(t)
      OBVIOUS
    <2>2. Placed(h, b + Len(t)) /\ Placed(r, b + Len(t) + n)
      BY <1>4, <1>5, <1>7, <2>1
    <2>3. QED
      BY <1>6, <1>7, <2>2
  <1>8. QED
    BY <1>1, <1>2, <1>3, <1>4, <1>5, <1>6, <1>7, <1>a DEF n, h, f, r

-----------------------------------------------------------------------------
(* What a step that leaves the rest alone keeps.                            *)

\* The numbers and the buffers of TypeOK, for the arithmetic of the steps.
LEMMA Numbers ==
    ASSUME TypeOK
    PROVE  /\ pending \in Seq(Sample) /\ outer \in Seq(Sample)
           /\ worker.buf \in Seq(Sample) /\ sink.ring \in Seq(Sample)
           /\ device \in Seq(Sample) /\ aired \in Seq(Sample)
           /\ submitted \in Nat /\ worker.readTotal \in Nat
           /\ worker.discarded \in Nat /\ worker.applied \in Nat
           /\ worker.snapConsumed \in Nat /\ worker.snapTime \in Nat
           /\ feedback.played \in Nat /\ feedback.discardThrough \in Nat
           /\ sink.requested \in Nat /\ sink.served \in Nat /\ sink.flushed \in Nat
           /\ sink.request \in Nat /\ sink.reported \in Nat /\ consumed \in Nat
           /\ progress.consumed \in Nat /\ progress.deadline \in Nat /\ hold \in Nat
           /\ Len(outer) <= OuterCapacity /\ Len(worker.buf) <= ChunkSize
           /\ Len(sink.ring) <= SinkCapacity /\ Len(device) <= DeviceBuffer
           /\ feedback.finish \in Seq(Nat) /\ jobs \in Seq(Job) /\ Len(jobs) <= MaxJobs
           /\ OuterCapacity \in Nat \ {0} /\ SinkCapacity \in Nat \ {0} /\ ChunkSize \in Nat \ {0}
           /\ DeviceBuffer \in Nat \ {0} /\ MaxJobs \in Nat \ {0}
           /\ Forwarded \in Int /\ Dropped \in Int /\ Reach \in Nat
  <1>1. /\ worker.readTotal \in Nat /\ worker.buf \in Seq(Sample) /\ worker.discarded \in Nat
        /\ worker.snapTime \in Nat /\ feedback.played \in Nat
        /\ sink.flushed \in Nat /\ sink.reported \in Nat
    BY DEF TypeOK
  <1>2. Forwarded \in Int
    BY <1>1 DEF Forwarded
  <1>3. Dropped \in Int
    BY <1>1 DEF Dropped
  <1>4. worker.snapTime + worker.discarded \in Nat
    BY <1>1
  <1>5. Reach \in Nat
    BY <1>1, <1>4 DEF Reach, Most
  <1>6. QED
    BY <1>2, <1>3, <1>5, TxAudioAssumption DEF TypeOK

\* The order of the jobs does not depend on where their samples are.
LEMMA OrderedKept ==
    ASSUME Ordered, jobs' = jobs, feedback'.discardThrough = feedback.discardThrough,
           submitted' = submitted
    PROVE  Ordered'
  BY DEF Ordered, Live

\* What the callback publishes is its own, until the worker reads it.
LEMMA PublishedKept ==
    ASSUME Published, UNCHANGED playback, worker' = worker \/ worker'.pc # "snapshot"
    PROVE  Published'
  BY DEF Published, playback

\* The feeder moves samples from the event loop's queue to the outer ring.
LEMMA FeedInv ==
    ASSUME AudioInv, Feed
    PROVE  AudioInv'
  <1> DEFINE room == OuterCapacity - Len(outer)
             n == Least(room, Len(pending))
             f == outer \o Front(pending, room)
             r == Rest(pending, room)
  <1>1. /\ pending # << >> /\ outer' = f /\ pending' = r
        /\ UNCHANGED <<submitted, worker, feedback, sink, jobs, hold, gaveUp, device, consumed, progress, aired>>
    BY DEF Feed, Flush, playback
  <1>0. TypeOK /\ Ordered /\ Belonging /\ Counted /\ Published /\ Honest /\ Gone
        /\ Waiting /\ Dropping /\ HeldBehindDrop
    BY DEF AudioInv
  <1> HIDE DEF f, r, n
  <1>2. /\ outer \in Seq(Sample) /\ pending \in Seq(Sample) /\ Len(outer) <= OuterCapacity
        /\ OuterCapacity \in Nat /\ worker.readTotal \in Nat /\ submitted \in Nat
        /\ feedback.discardThrough \in Nat /\ hold \in Nat
    BY <1>0, Numbers
  <1>a. room \in Nat
    BY <1>2
  <1> USE DEF f, r, n
  <1>3. /\ n \in 0 .. Len(pending) /\ n <= room
        /\ f \in Seq(Sample) /\ r \in Seq(Sample)
        /\ Len(f) = Len(outer) + n /\ Len(r) = Len(pending) - n
        /\ Known(pending) /\ Known(outer) => Known(f) /\ Known(r)
        /\ Ahead(pending) /\ Ahead(outer) => Ahead(f) /\ Ahead(r)
        /\ AllLive(pending) /\ AllLive(outer) => AllLive(f)
        /\ AllLive(pending) => AllLive(r)
        /\ \A b \in Int : Placed(outer, b) /\ Placed(pending, b + Len(outer)) =>
              Placed(f, b) /\ Placed(r, b + Len(outer) + n)
    BY <1>2, <1>a, Moved
  <1> HIDE DEF f, r, n
  <1>4. Len(f) <= OuterCapacity
    BY <1>2, <1>3
  <1> HIDE DEF room
  <1>5. TypeOK'
    BY <1>0, <1>1, <1>3, <1>4 DEF TypeOK
  <1>6. Ordered' /\ Published'
    BY <1>1, <1>0, OrderedKept, PublishedKept DEF playback
  <1>7. Belonging'
    BY <1>1, <1>3, <1>0 DEF Belonging, Known
  <1>8. Counted'
    <2>1. /\ worker.readTotal + Len(f) + Len(r) = submitted
          /\ feedback.discardThrough + Len(r) <= submitted
      <3>1. /\ worker.readTotal + Len(outer) + Len(pending) = submitted
            /\ feedback.discardThrough + Len(pending) <= submitted
        BY <1>0 DEF Counted
      <3>2. n \in 0 .. Len(pending) /\ Len(f) = Len(outer) + n /\ Len(r) = Len(pending) - n
        BY <1>3
      <3>3. QED
        BY <1>2, <3>1, <3>2
    <2>2. QED
      BY <1>0, <1>1, <2>1 DEF Counted
  <1>9. Reach' = Reach /\ Forwarded' = Forwarded /\ Dropped' = Dropped
    BY <1>1 DEF Reach, Forwarded, Dropped
  <1>10. Honest'
    <2>1. Ahead(f) /\ Ahead(r) /\ Honest
      BY <1>0, <1>3 DEF Honest
    <2>2. QED
      BY <1>1, <1>9, <2>1 DEF Honest, Ahead, Number, Live
  <1>11. OnlyLiveLeft => OnlyLiveLeft'
    <2>1. OnlyLiveLeft => AllLive(f) /\ AllLive(r)
      BY <1>3 DEF OnlyLiveLeft
    <2>2. QED
      BY <1>1, <2>1 DEF OnlyLiveLeft, AllLive, Live
  <1>12. Gone'
    BY <1>0, <1>1, <1>9, <1>11 DEF Gone
  <1>13. Waiting'
    <2>1. hold = 0
      BY <1>0, <1>1, <1>2 DEF Waiting
    <2>2. NoneSubmitted => NoneSubmitted'
      BY <1>1 DEF NoneSubmitted, Live
    <2>3. QED
      BY <1>1, <1>9, <1>11, <2>1, <2>2, <1>0 DEF Waiting
  <1>14. Dropping' /\ HeldBehindDrop'
    BY <1>0, <1>1, <1>9 DEF Dropping, FlushWanted, HeldBehindDrop, AllLive, NoneLive, Live
  <1>15. ASSUME ~sink.failed PROVE Aligned'
    <2>1. Aligned /\ worker.readTotal \in Int
      BY <1>2, <1>15 DEF AudioInv
    <2>2. Placed(f, worker.readTotal) /\ Placed(r, worker.readTotal + Len(outer) + n)
      BY <1>3, <2>1 DEF Aligned
    <2>3. worker.readTotal + Len(outer) + n = worker.readTotal + Len(f)
      BY <1>2, <1>3, <2>1
    <2>4. Placed(f, worker.readTotal) /\ Placed(r, worker.readTotal + Len(f))
      BY <2>2, <2>3
    <2>5. QED
      BY <1>1, <1>9, <2>1, <2>4 DEF Aligned, Placed, Right, Number, Live
  <1>16. QED
    BY <1>1, <1>5, <1>6, <1>7, <1>8, <1>10, <1>12, <1>13, <1>14, <1>15 DEF AudioInv

\* The parts of the invariant.
LEMMA Parts ==
    ASSUME AudioInv
    PROVE  /\ TypeOK /\ Ordered /\ Belonging /\ Counted /\ Published /\ Honest /\ Gone
           /\ Waiting /\ Dropping /\ HeldBehindDrop
           /\ ~sink.failed => Aligned
  BY DEF AudioInv

\* A step that moves no sample.
LEMMA BuffersKept ==
    ASSUME UNCHANGED <<pending, submitted, outer, device, consumed, aired, jobs>>,
           worker'.buf = worker.buf, worker'.readTotal = worker.readTotal,
           sink'.ring = sink.ring, feedback'.discardThrough = feedback.discardThrough
    PROVE  /\ Forwarded' = Forwarded
           /\ Ordered => Ordered'
           /\ Belonging => Belonging'
           /\ OnlyLiveLeft' <=> OnlyLiveLeft
           /\ NoneSubmitted' <=> NoneSubmitted
           /\ HeldBehindDrop => HeldBehindDrop'
           /\ AllLive(sink.ring)' <=> AllLive(sink.ring)
           /\ Reach' = Reach /\ Honest => Honest'
           /\ Dropped' = Dropped /\ Aligned => Aligned'
  <1>1. Forwarded' = Forwarded
    BY DEF Forwarded
  <1>2. Ordered => Ordered'
    BY OrderedKept
  <1>3. Belonging => Belonging'
    BY DEF Belonging, Known
  <1>4. OnlyLiveLeft' <=> OnlyLiveLeft
    BY DEF OnlyLiveLeft, AllLive, Live
  <1>5. NoneSubmitted' <=> NoneSubmitted
    BY DEF NoneSubmitted, Live
  <1>6. HeldBehindDrop => HeldBehindDrop'
    BY DEF HeldBehindDrop, AllLive, NoneLive, Live
  <1>7. AllLive(sink.ring)' <=> AllLive(sink.ring)
    BY DEF AllLive, Live
  <1>8. Reach' = Reach /\ Honest => Honest'
    BY <1>1 DEF Honest, Ahead, Number, Live
  <1>9. Dropped' = Dropped /\ Aligned => Aligned'
    BY <1>1 DEF Aligned, Placed, Right, Number, Live
  <1>10. QED
    BY <1>1, <1>2, <1>3, <1>4, <1>5, <1>6, <1>7, <1>8, <1>9

\* A sum bounds its parts.
LEMMA SumBound ==
    ASSUME NEW f \in Int, NEW r \in Nat, NEW a \in Nat, NEW b \in Nat, r + a + b <= f
    PROVE  f >= r
  OBVIOUS

\* A wait_for_discard that ends.
LEMMA WaitForDiscardInv ==
    ASSUME AudioInv, WaitForDiscard
    PROVE  AudioInv'
  <1>1. /\ hold > 0 /\ hold' = 0 /\ gaveUp' = (gaveUp \/ ~Settled(hold))
        /\ Settled(hold) \/ worker.applied >= hold
        /\ UNCHANGED <<pending, submitted, jobs, outer, worker, feedback, sink, device, consumed, progress, aired>>
    BY DEF WaitForDiscard, playback
  <1>2. /\ TypeOK /\ Ordered /\ Belonging /\ Counted /\ Published /\ Honest /\ Gone
        /\ Waiting /\ Dropping /\ HeldBehindDrop
        /\ ~sink.failed => Aligned
    BY Parts
  <1>3. /\ feedback.played \in Nat /\ feedback.discardThrough \in Nat /\ worker.applied \in Nat
        /\ hold \in Nat /\ Reach \in Nat /\ Forwarded \in Int
        /\ Len(device) \in Nat /\ Len(sink.ring) \in Nat
        /\ worker.snapTime + worker.discarded \in Nat
    <2>1. /\ feedback.played \in Nat /\ feedback.discardThrough \in Nat /\ worker.applied \in Nat
          /\ hold \in Nat /\ Reach \in Nat /\ Forwarded \in Int /\ device \in Seq(Sample)
          /\ sink.ring \in Seq(Sample) /\ worker.snapTime \in Nat /\ worker.discarded \in Nat
      BY <1>2, Numbers
    <2>2. QED
      BY <2>1
  <1>4. /\ Forwarded' = Forwarded /\ Reach' = Reach /\ Dropped' = Dropped
        /\ Ordered' /\ Belonging' /\ HeldBehindDrop' /\ Honest'
        /\ OnlyLiveLeft' <=> OnlyLiveLeft
        /\ NoneSubmitted' <=> NoneSubmitted
        /\ AllLive(sink.ring)' <=> AllLive(sink.ring)
        /\ ~sink'.failed => Aligned'
    <2>1. Reach' = Reach /\ Dropped' = Dropped
      BY <1>1 DEF Reach, Dropped
    <2>2. QED
      BY <1>1, <1>2, <2>1, BuffersKept
  <1>5. /\ hold = feedback.discardThrough /\ NoneSubmitted
    BY <1>1, <1>2, <1>3 DEF Waiting
  <1>6. Settled(hold) /\ ~feedback.failed => OnlyLiveLeft /\ Forwarded >= feedback.discardThrough
    <2>1. Reach >= feedback.played
      BY <1>3 DEF Reach, Most
    <2>2. Forwarded >= Reach
      <3>1. Reach + Len(device) + Len(sink.ring) <= Forwarded
        BY <1>2 DEF Honest
      <3>2. QED
        BY <1>3, <3>1, SumBound
    <2>3. QED
      BY <1>2, <1>3, <1>5, <2>1, <2>2 DEF Settled, Gone
  <1>7. TypeOK'
    BY <1>1, <1>2, <1>3 DEF TypeOK, Settled
  <1>8. Counted' /\ Published' /\ Gone'
    BY <1>1, <1>2, <1>4 DEF Counted, Published, Gone
  <1>9. Waiting'
    <2>1. Forwarded >= feedback.discardThrough \/ feedback.failed
      BY <1>1, <1>2, <1>5, <1>6 DEF Waiting
    <2>2. ~gaveUp' => OnlyLiveLeft \/ (NoneSubmitted /\ feedback.failed)
      BY <1>1, <1>5, <1>6
    <2>3. QED
      BY <1>1, <1>4, <2>1, <2>2 DEF Waiting
  <1>10. Dropping'
    <2>1. ~sink.failed => worker.flushPending \/ AllLive(sink.ring)
      <3>1. feedback.failed => sink.failed
        BY <1>2 DEF Dropping
      <3>2. OnlyLiveLeft => AllLive(sink.ring)
        BY DEF OnlyLiveLeft
      <3>3. worker.applied >= feedback.discardThrough /\ ~sink.failed =>
              worker.flushPending \/ AllLive(sink.ring)
        BY <1>2 DEF Dropping
      <3>4. QED
        BY <1>1, <1>5, <1>6, <3>1, <3>2, <3>3
    <2>2. QED
      BY <1>1, <1>2, <1>4, <2>1 DEF Dropping, FlushWanted
  <1>11. QED
    BY <1>4, <1>7, <1>8, <1>9, <1>10 DEF AudioInv

\* The stream fails.
LEMMA StreamErrorInv ==
    ASSUME AudioInv, StreamError
    PROVE  AudioInv'
  <1>1. /\ sink' = [sink EXCEPT !.failed = TRUE]
        /\ UNCHANGED <<pending, submitted, jobs, hold, gaveUp, outer, worker, feedback, device, consumed, progress, aired>>
    BY DEF StreamError, source, playback
  <1>2. /\ TypeOK /\ Ordered /\ Belonging /\ Counted /\ Published /\ Honest /\ Gone
        /\ Waiting /\ Dropping /\ HeldBehindDrop
    BY Parts
  <1>3. /\ sink' \in [ring : Seq(Sample), requested : Nat, served : Nat, flushed : Nat,
                      request : Nat, reported : Nat, failed : BOOLEAN]
        /\ sink'.ring = sink.ring /\ sink'.failed = TRUE /\ sink'.requested = sink.requested
        /\ sink'.served = sink.served /\ sink'.request = sink.request
        /\ sink'.flushed = sink.flushed /\ sink'.reported = sink.reported
    BY <1>1, <1>2 DEF TypeOK
  <1>4. /\ Forwarded' = Forwarded /\ Reach' = Reach
        /\ Ordered' /\ Belonging' /\ HeldBehindDrop' /\ Honest'
        /\ OnlyLiveLeft' <=> OnlyLiveLeft
        /\ NoneSubmitted' <=> NoneSubmitted
    <2>1. Reach' = Reach
      BY <1>1 DEF Reach
    <2>2. QED
      BY <1>1, <1>2, <1>3, <2>1, BuffersKept
  <1>5. TypeOK'
    BY <1>1, <1>2, <1>3 DEF TypeOK
  <1>6. Counted' /\ Published' /\ Gone' /\ Waiting'
    BY <1>1, <1>2, <1>3, <1>4 DEF Counted, Published, Gone, Waiting
  <1>7. Dropping'
    BY <1>1, <1>2, <1>3, <1>4 DEF Dropping
  <1>8. QED
    BY <1>3, <1>4, <1>5, <1>6, <1>7 DEF AudioInv

\* The callback publishes one of its two values.
LEMMA CallbackPublishInv ==
    ASSUME AudioInv, CallbackPublish
    PROVE  AudioInv'
  <1>1. /\ progress.odd
        /\ progress' = IF progress.consumed # consumed THEN [progress EXCEPT !.consumed = consumed]
                       ELSE [progress EXCEPT !.deadline = consumed, !.odd = FALSE, !.unchanged = FALSE]
        /\ UNCHANGED <<pending, submitted, jobs, hold, gaveUp, outer, worker, feedback, sink, device, consumed, aired>>
    BY DEF CallbackPublish, source
  <1>2. /\ TypeOK /\ Ordered /\ Belonging /\ Counted /\ Published /\ Honest /\ Gone
        /\ Waiting /\ Dropping /\ HeldBehindDrop
        /\ ~sink.failed => Aligned
    BY Parts
  <1>3. progress \in [consumed : Nat, deadline : Nat, odd : BOOLEAN, unchanged : BOOLEAN] /\ consumed \in Nat
        /\ device \in Seq(Sample) /\ aired \in Seq(Sample)
    BY <1>2 DEF TypeOK
  <1>4. /\ Forwarded' = Forwarded /\ Reach' = Reach /\ Dropped' = Dropped
        /\ Ordered' /\ Belonging' /\ HeldBehindDrop' /\ Honest'
        /\ OnlyLiveLeft' <=> OnlyLiveLeft
        /\ NoneSubmitted' <=> NoneSubmitted
        /\ AllLive(sink.ring)' <=> AllLive(sink.ring)
        /\ ~sink'.failed => Aligned'
    <2>1. Reach' = Reach /\ Dropped' = Dropped
      BY <1>1 DEF Reach, Dropped
    <2>2. QED
      BY <1>1, <1>2, <2>1, BuffersKept
  <1>5. progress' \in [consumed : Nat, deadline : Nat, odd : BOOLEAN, unchanged : BOOLEAN]
    BY <1>1, <1>3
  <1>6. TypeOK'
    BY <1>1, <1>2, <1>5 DEF TypeOK
  <1>7. Published'
    <2>1. ~progress.unchanged
      BY <1>1, <1>2 DEF Published
    <2>2. CASE progress.consumed # consumed
      <3>1. progress'.odd /\ ~progress'.unchanged /\ progress'.deadline = progress.deadline
        BY <1>1, <1>3, <2>1, <2>2
      <3>2. QED
        BY <1>1, <1>2, <3>1 DEF Published
    <2>3. CASE progress.consumed = consumed
      <3>1. ~progress'.unchanged /\ progress'.deadline = consumed /\ progress'.consumed = consumed
        BY <1>1, <1>3, <2>3
      <3>2. Len(aired) <= consumed
        BY <1>2, <1>3 DEF Counted
      <3>3. QED
        BY <1>1, <1>2, <1>3, <3>1, <3>2 DEF Published
    <2>4. QED
      BY <2>2, <2>3
  <1>8. Counted' /\ Gone' /\ Waiting'
    BY <1>1, <1>2, <1>4 DEF Counted, Gone, Waiting
  <1>9. Dropping'
    BY <1>1, <1>2, <1>4 DEF Dropping, FlushWanted
  <1>10. QED
    BY <1>4, <1>6, <1>7, <1>8, <1>9 DEF AudioInv

-----------------------------------------------------------------------------
(* The worker's steps that forward nothing.                                 *)

WorkerType == [pc : Steps, buf : Seq(Sample), readTotal : Nat, discarded : Nat,
               applied : Nat, flushPending : BOOLEAN, snapConsumed : Nat, snapTime : Nat]
SinkType == [ring : Seq(Sample), requested : Nat, served : Nat, flushed : Nat,
             request : Nat, reported : Nat, failed : BOOLEAN]

\* The worker collects a served drop, asks for one, or waits.
LEMMA WorkerFlushInv ==
    ASSUME AudioInv, WorkerFlush
    PROVE  AudioInv'
  <1>1. /\ worker.pc = "flush"
        /\ \/ /\ FlushServed
              /\ worker' = [worker EXCEPT !.flushPending = FALSE, !.discarded = worker.discarded + FlushCount,
                                          !.pc = "read"]
              /\ sink' = [sink EXCEPT !.request = 0, !.reported = sink.reported + FlushCount]
           \/ /\ ~FlushServed /\ sink.request = 0
              /\ worker' = [worker EXCEPT !.pc = "publish"]
              /\ sink' = [sink EXCEPT !.requested = sink.requested + 1, !.request = sink.requested + 1]
           \/ /\ ~FlushServed /\ sink.request > 0
              /\ worker' = [worker EXCEPT !.pc = "publish"]
              /\ sink' = sink
        /\ UNCHANGED <<pending, submitted, jobs, hold, gaveUp, outer, feedback, device, consumed, progress, aired>>
    BY DEF WorkerFlush, source, playback
  <1>2. /\ TypeOK /\ Ordered /\ Belonging /\ Counted /\ Published /\ Honest /\ Gone
        /\ Waiting /\ Dropping /\ HeldBehindDrop
        /\ ~sink.failed => Aligned
    BY Parts
  <1>3. worker \in WorkerType /\ sink \in SinkType
    BY <1>2 DEF TypeOK, WorkerType, SinkType
  <1>a. /\ worker.discarded \in Nat /\ sink.reported \in Nat /\ sink.flushed \in Nat /\ sink.requested \in Nat
        /\ sink.reported <= sink.flushed
    BY <1>2, <1>3 DEF Counted, SinkType, WorkerType
  <1>4. FlushCount \in Nat /\ worker.discarded + FlushCount \in Nat /\ sink.reported + FlushCount \in Nat
        /\ sink.reported + FlushCount <= sink.flushed
        /\ (worker.discarded + FlushCount) - (sink.reported + FlushCount) = worker.discarded - sink.reported
    BY <1>a DEF FlushCount
  <1>5. /\ worker' \in WorkerType /\ sink' \in SinkType
        /\ worker'.buf = worker.buf /\ worker'.readTotal = worker.readTotal
        /\ worker'.pc \in {"read", "publish"} /\ worker'.applied = worker.applied
        /\ sink'.ring = sink.ring /\ sink'.failed = sink.failed
        /\ sink'.flushed = sink.flushed /\ sink'.served = sink.served
        /\ sink'.reported <= sink'.flushed
        /\ worker'.discarded - sink'.reported = worker.discarded - sink.reported
    <2>1. CASE /\ worker' = [worker EXCEPT !.flushPending = FALSE, !.discarded = worker.discarded + FlushCount,
                                           !.pc = "read"]
               /\ sink' = [sink EXCEPT !.request = 0, !.reported = sink.reported + FlushCount]
      <3>1. /\ worker' \in WorkerType /\ worker'.buf = worker.buf /\ worker'.readTotal = worker.readTotal
            /\ worker'.pc = "read" /\ worker'.applied = worker.applied
            /\ worker'.discarded = worker.discarded + FlushCount
        BY <1>3, <1>4, <2>1 DEF WorkerType, Steps
      <3>2. /\ sink' \in SinkType /\ sink'.ring = sink.ring /\ sink'.failed = sink.failed
            /\ sink'.flushed = sink.flushed /\ sink'.served = sink.served
            /\ sink'.reported = sink.reported + FlushCount
        BY <1>3, <1>4, <2>1 DEF SinkType
      <3>3. QED
        BY <1>4, <3>1, <3>2
    <2>2. CASE /\ worker' = [worker EXCEPT !.pc = "publish"]
               /\ sink' = [sink EXCEPT !.requested = sink.requested + 1, !.request = sink.requested + 1]
      <3>1. /\ worker' \in WorkerType /\ worker'.buf = worker.buf /\ worker'.readTotal = worker.readTotal
            /\ worker'.pc = "publish" /\ worker'.applied = worker.applied
            /\ worker'.discarded = worker.discarded
        BY <1>3, <2>2 DEF WorkerType, Steps
      <3>2. /\ sink' \in SinkType /\ sink'.ring = sink.ring /\ sink'.failed = sink.failed
            /\ sink'.flushed = sink.flushed /\ sink'.served = sink.served
            /\ sink'.reported = sink.reported
        <4>1. sink.requested + 1 \in Nat
          BY <1>a
        <4>2. QED
          BY <1>3, <4>1, <2>2 DEF SinkType
      <3>3. QED
        BY <1>a, <3>1, <3>2
    <2>3. CASE worker' = [worker EXCEPT !.pc = "publish"] /\ sink' = sink
      BY <1>2, <1>3, <2>3 DEF WorkerType, SinkType, Steps, Counted
    <2>4. QED
      BY <1>1, <2>1, <2>2, <2>3
  <1>6. /\ Forwarded' = Forwarded /\ Reach' = Reach /\ Dropped' = Dropped
        /\ Ordered' /\ Belonging' /\ HeldBehindDrop' /\ Honest'
        /\ OnlyLiveLeft' <=> OnlyLiveLeft
        /\ NoneSubmitted' <=> NoneSubmitted
        /\ AllLive(sink.ring)' <=> AllLive(sink.ring)
        /\ ~sink'.failed => Aligned'
    <2>1. Reach' = Reach
      BY <1>1, <1>5 DEF Reach
    <2>2. Dropped' = Dropped
      <3>1. worker'.discarded \in Nat /\ sink'.reported \in Nat
        BY <1>5 DEF WorkerType, SinkType
      <3>2. worker'.discarded - sink'.reported = worker.discarded - sink.reported /\ sink'.flushed = sink.flushed
        BY <1>5
      <3>3. worker'.discarded + sink'.flushed - sink'.reported = worker.discarded + sink.flushed - sink.reported
        BY <1>a, <3>1, <3>2
      <3>4. QED
        BY <3>3 DEF Dropped
    <2>3. QED
      BY <1>1, <1>2, <1>5, <2>1, <2>2, BuffersKept
  <1>7. TypeOK'
    BY <1>1, <1>2, <1>5 DEF TypeOK, WorkerType, SinkType
  <1>8. Published'
    BY <1>1, <1>2, <1>5, PublishedKept DEF playback
  <1>9. Counted' /\ Gone' /\ Waiting'
    BY <1>1, <1>2, <1>5, <1>6 DEF Counted, Gone, Waiting
  <1>10. /\ worker.flushPending /\ Forwarded <= feedback.discardThrough /\ ~feedback.failed
         /\ sink.served <= sink.requested
         /\ sink.request > 0 => sink.request = sink.requested /\ (sink.served >= sink.request => sink.ring = << >>)
    BY <1>1, <1>2 DEF Dropping
  <1>11. Dropping'
    <2>1. CASE /\ FlushServed
               /\ worker' = [worker EXCEPT !.flushPending = FALSE, !.discarded = worker.discarded + FlushCount,
                                           !.pc = "read"]
               /\ sink' = [sink EXCEPT !.request = 0, !.reported = sink.reported + FlushCount]
      <3>1. worker'.pc = "read" /\ ~worker'.flushPending /\ sink'.request = 0 /\ sink'.requested = sink.requested
        BY <1>3, <2>1 DEF WorkerType, SinkType
      <3>2. ~sink.failed => sink.ring = << >> /\ sink.requested = sink.served
        BY <1>3, <1>10, <2>1 DEF FlushServed, SinkType
      <3>3. ~sink.failed => AllLive(sink.ring) /\ ~FlushWanted'
        BY <1>5, <3>1, <3>2 DEF AllLive, FlushWanted
      <3>4. QED
        BY <1>1, <1>5, <1>6, <1>10, <3>1, <3>3 DEF Dropping
    <2>2. CASE /\ worker' = [worker EXCEPT !.pc = "publish"]
               /\ sink' = [sink EXCEPT !.requested = sink.requested + 1, !.request = sink.requested + 1]
      <3>1. /\ worker'.pc = "publish" /\ worker'.flushPending
            /\ sink'.request = sink'.requested /\ sink'.request > 0 /\ sink'.served < sink'.request
        BY <1>3, <1>10, <2>2 DEF WorkerType, SinkType
      <3>2. ~(sink'.served >= sink'.request) /\ sink'.served <= sink'.requested
        BY <1>5, <3>1 DEF SinkType
      <3>3. QED
        BY <1>1, <1>5, <1>6, <1>10, <3>1, <3>2 DEF Dropping
    <2>3. CASE worker' = [worker EXCEPT !.pc = "publish"] /\ sink' = sink
      <3>1. worker'.pc = "publish" /\ worker'.flushPending
        BY <1>3, <1>10, <2>3 DEF WorkerType
      <3>2. QED
        BY <1>1, <1>2, <1>5, <1>6, <1>10, <2>3, <3>1 DEF Dropping, FlushWanted
    <2>4. QED
      BY <1>1, <2>1, <2>2, <2>3
  <1>12. QED
    BY <1>6, <1>7, <1>8, <1>9, <1>11 DEF AudioInv

\* The number of a sample that belongs to a transmission.
LEMMA NumberInt ==
    ASSUME TypeOK, NEW s \in Seq(Sample), Known(s), NEW i \in DOMAIN s
    PROVE  Number(s[i]) \in Int
  <1>1. s[i] \in Sample /\ s[i].job \in DOMAIN jobs
    BY DEF Known
  <1>2. jobs[s[i].job] \in Job
    <2>1. jobs \in Seq(Job)
      BY DEF TypeOK
    <2>2. QED
      BY <1>1, <2>1
  <1>3. jobs[s[i].job].size \in Nat /\ jobs[s[i].job].target \in Nat
    BY <1>2, TxAudioAssumption DEF Job
  <1>4. QED
    BY <1>1, <1>3 DEF Number, Sample

\* What is ahead of a number is ahead of a smaller one.
LEMMA AheadOfLess ==
    ASSUME TypeOK, NEW s \in Seq(Sample), Known(s), Ahead(s), NEW r \in Nat, r <= Reach,
           NEW i \in DOMAIN s, Live(s[i].job)
    PROVE  Number(s[i]) > r
  <1>1. Number(s[i]) \in Int /\ Number(s[i]) > Reach
    BY NumberInt DEF Ahead
  <1>2. QED
    BY <1>1, Numbers

\* A sum falls with its first part.
LEMMA SumLess ==
    ASSUME NEW f \in Int, NEW r \in Nat, NEW q \in Nat, NEW a \in Nat, NEW b \in Nat,
           q <= r, r + a + b <= f
    PROVE  q + a + b <= f
  OBVIOUS

\* Reach may fall back to what has been published.
LEMMA LessReached ==
    ASSUME AudioInv, Reach' \in Nat, Reach' <= Reach,
           UNCHANGED <<pending, submitted, outer, device, consumed, aired, jobs>>,
           worker'.buf = worker.buf, worker'.readTotal = worker.readTotal,
           sink'.ring = sink.ring, feedback'.discardThrough = feedback.discardThrough
    PROVE  Honest' /\ Gone'
  <1>1. TypeOK /\ Belonging /\ Honest /\ Gone
    BY Parts
  <1>2. /\ pending \in Seq(Sample) /\ outer \in Seq(Sample) /\ worker.buf \in Seq(Sample)
        /\ sink.ring \in Seq(Sample) /\ device \in Seq(Sample) /\ Reach \in Nat /\ Forwarded \in Int
        /\ feedback.discardThrough \in Nat
    BY <1>1, Numbers
  <1>3. Ahead(pending)' /\ Ahead(outer)' /\ Ahead(worker.buf)' /\ Ahead(sink.ring)' /\ Ahead(device)'
    <2>1. ASSUME NEW s \in Seq(Sample), Known(s), Ahead(s)
          PROVE  \A i \in DOMAIN s : Live(s[i].job) => Number(s[i]) > Reach'
      BY <1>1, <2>1, AheadOfLess
    <2>2. QED
      BY <1>1, <1>2, <2>1 DEF Belonging, Honest, Ahead, Live, Number
  <1>4. Forwarded' = Forwarded /\ (OnlyLiveLeft' <=> OnlyLiveLeft)
    BY BuffersKept
  <1>5. Reach' + Len(device') + Len(sink'.ring) <= Forwarded'
    <2>1. Reach + Len(device) + Len(sink.ring) <= Forwarded
      BY <1>1 DEF Honest
    <2>2. Len(device') = Len(device) /\ Len(sink'.ring) = Len(sink.ring)
      OBVIOUS
    <2>3. Len(device) \in Nat /\ Len(sink.ring) \in Nat
      BY <1>2
    <2>4. Reach' + Len(device) + Len(sink.ring) <= Forwarded
      BY <1>2, <2>1, <2>3, SumLess
    <2>5. QED
      BY <1>4, <2>2, <2>4
  <1>6. Gone'
    BY <1>1, <1>2, <1>4 DEF Gone
  <1>7. QED
    BY <1>3, <1>5, <1>6 DEF Honest

\* The worker reads the second value and publishes `played`, if both belong together.
LEMMA WorkerSnapshotInv ==
    ASSUME AudioInv, WorkerSnapshot
    PROVE  AudioInv'
  <1>1. /\ worker.pc = "snapshot"
        /\ worker' = [worker EXCEPT !.pc = IF Coherent THEN "discard" ELSE "publish",
                                    !.snapConsumed = 0, !.snapTime = 0]
        /\ feedback' = [feedback EXCEPT !.played = IF Coherent THEN Most(feedback.played, PlayedNow) ELSE feedback.played]
        /\ progress' = [progress EXCEPT !.unchanged = FALSE]
        /\ UNCHANGED <<pending, submitted, jobs, hold, gaveUp, outer, sink, device, consumed, aired>>
    BY DEF WorkerSnapshot, source
  <1>2. /\ TypeOK /\ Ordered /\ Belonging /\ Counted /\ Published /\ Honest /\ Gone
        /\ Waiting /\ Dropping /\ HeldBehindDrop
        /\ ~sink.failed => Aligned
    BY Parts
  <1>3. /\ worker \in WorkerType
        /\ feedback \in [played : Nat, failed : BOOLEAN, discardThrough : Nat, finish : Seq(Nat)]
        /\ progress \in [consumed : Nat, deadline : Nat, odd : BOOLEAN, unchanged : BOOLEAN]
        /\ Len(aired) \in Nat
    BY <1>2 DEF TypeOK, WorkerType
  <1>4. Coherent => PlayedNow = worker.snapTime + worker.discarded
    <2>1. ASSUME Coherent
          PROVE  worker.snapConsumed = progress.deadline /\ worker.snapTime <= progress.deadline
      BY <1>1, <1>2, <1>3, <2>1 DEF Coherent, Published, WorkerType
    <2>2. ASSUME Coherent
          PROVE  progress.deadline - worker.snapTime \in Nat /\ worker.snapTime \in Nat /\ worker.discarded \in Nat
      BY <1>3, <2>1, <2>2 DEF WorkerType
    <2>3. ASSUME Coherent
          PROVE  Most(0, progress.deadline - worker.snapTime) = progress.deadline - worker.snapTime
      BY <2>2, <2>3 DEF Most
    <2>4. ASSUME Coherent
          PROVE  worker.snapConsumed - Most(0, progress.deadline - worker.snapTime) = worker.snapTime
      BY <1>3, <2>1, <2>2, <2>3, <2>4 DEF WorkerType
    <2>5. QED
      BY <2>2, <2>4 DEF PlayedNow, Most
  <1>5. /\ feedback'.played \in Nat /\ feedback'.played <= Reach
    BY <1>1, <1>3, <1>4 DEF Reach, Most, WorkerType
  <1>6. /\ worker' \in WorkerType /\ worker'.pc \in {"discard", "publish"}
        /\ worker'.buf = worker.buf /\ worker'.readTotal = worker.readTotal
        /\ worker'.discarded = worker.discarded /\ worker'.applied = worker.applied
        /\ worker'.flushPending = worker.flushPending
    BY <1>1, <1>3 DEF WorkerType, Steps
  <1>7. /\ feedback' \in [played : Nat, failed : BOOLEAN, discardThrough : Nat, finish : Seq(Nat)]
        /\ feedback'.failed = feedback.failed /\ feedback'.discardThrough = feedback.discardThrough
    BY <1>1, <1>3, <1>5
  <1>8. /\ progress' \in [consumed : Nat, deadline : Nat, odd : BOOLEAN, unchanged : BOOLEAN]
        /\ progress'.consumed = progress.consumed /\ progress'.deadline = progress.deadline
        /\ progress'.odd = progress.odd /\ ~progress'.unchanged
    BY <1>1, <1>3
  <1>9. Reach' \in Nat /\ Reach' <= Reach
    BY <1>5, <1>6 DEF Reach
  <1>10. Honest' /\ Gone'
    BY <1>1, <1>6, <1>7, <1>9, LessReached
  <1>11. /\ Forwarded' = Forwarded /\ Dropped' = Dropped
         /\ Ordered' /\ Belonging' /\ HeldBehindDrop'
         /\ OnlyLiveLeft' <=> OnlyLiveLeft
         /\ NoneSubmitted' <=> NoneSubmitted
         /\ AllLive(sink.ring)' <=> AllLive(sink.ring)
         /\ ~sink'.failed => Aligned'
    <2>1. Dropped' = Dropped
      BY <1>1, <1>6 DEF Dropped
    <2>2. QED
      BY <1>1, <1>2, <1>6, <1>7, <2>1, BuffersKept
  <1>12. TypeOK'
    BY <1>1, <1>2, <1>6, <1>7, <1>8 DEF TypeOK, WorkerType
  <1>13. Counted' /\ Published' /\ Waiting'
    BY <1>1, <1>2, <1>6, <1>7, <1>8, <1>11 DEF Counted, Published, Waiting
  <1>14. Dropping'
    BY <1>1, <1>2, <1>6, <1>7, <1>11 DEF Dropping, FlushWanted
  <1>15. QED
    BY <1>10, <1>11, <1>12, <1>13, <1>14 DEF AudioInv

FeedbackType == [played : Nat, failed : BOOLEAN, discardThrough : Nat, finish : Seq(Nat)]
ProgressType == [consumed : Nat, deadline : Nat, odd : BOOLEAN, unchanged : BOOLEAN]

\* The boundaries left are numbers.
LEMMA FinishLeftType ==
    ASSUME TypeOK
    PROVE  FinishLeft \in Seq(Nat)
  <1> DEFINE finish == feedback.finish
             done == {i \in DOMAIN finish : \A k \in 1..i : finish[k] <= Forwarded}
  <1>1. finish \in Seq(Nat)
    BY DEF TypeOK
  <1>2. Len(finish) \in Nat /\ DOMAIN finish = 1 .. Len(finish)
    BY <1>1
  <1>3. IsFiniteSet(1 .. Len(finish))
    BY <1>2, FS_Interval
  <1>4. done \subseteq 1 .. Len(finish)
    BY <1>2
  <1>5. IsFiniteSet(done)
    BY <1>3, <1>4, FS_Subset
  <1>6. Cardinality(done) \in Nat
    BY <1>5, FS_CardinalityType
  <1> HIDE DEF done, finish
  <1>7. Rest(finish, Cardinality(done)) \in Seq(Nat)
    BY <1>1, <1>6, RestPart
  <1>8. QED
    BY <1>7 DEF FinishLeft, done, finish

\* Samples placed beyond a number are ahead of it; beyond the discard point
\* they are live.
LEMMA PlacedBeyond ==
    ASSUME NEW s \in Seq(Sample), NEW b \in Int, Placed(s, b), NEW r \in Int, r <= b,
           feedback.discardThrough \in Nat
    PROVE  /\ \A i \in DOMAIN s : Live(s[i].job) => Number(s[i]) > r
           /\ feedback.discardThrough <= b => AllLive(s)
  <1>1. ASSUME NEW i \in DOMAIN s PROVE Right(s[i], b + i) /\ i \in Nat \ {0}
    BY DEF Placed
  <1>2. ASSUME NEW i \in DOMAIN s, Live(s[i].job) PROVE Number(s[i]) > r
    <2>1. Number(s[i]) = b + i
      BY <1>1, <1>2 DEF Right
    <2>2. QED
      BY <1>1, <2>1
  <1>3. ASSUME feedback.discardThrough <= b PROVE AllLive(s)
    <2>1. ASSUME NEW i \in DOMAIN s PROVE b + i > feedback.discardThrough
      BY <1>1, <1>3
    <2>2. QED
      BY <1>1, <2>1 DEF AllLive, Right
  <1>4. QED
    BY <1>2, <1>3

\* Where the buffers stand in the stream, while the stream has not failed.
LEMMA Offsets ==
    ASSUME TypeOK, Counted, Aligned
    PROVE  LET b == worker.discarded + Len(aired)
           IN /\ b \in Nat
              /\ Dropped + Len(aired) \in Int /\ b <= Dropped + Len(aired)
              /\ Dropped + consumed \in Int /\ b <= Dropped + consumed
              /\ Forwarded \in Int /\ b <= Forwarded
              /\ worker.readTotal \in Int /\ b <= worker.readTotal
              /\ worker.readTotal + Len(outer) \in Int /\ b <= worker.readTotal + Len(outer)
              /\ b + Len(device) + Len(sink.ring) <= Forwarded
  <1> DEFINE a == Len(aired)
             v == Len(device)
             g == Len(sink.ring)
             u == Len(worker.buf)
             o == Len(outer)
             d == worker.discarded
             t == worker.readTotal
  <1>1. /\ a \in Nat /\ v \in Nat /\ g \in Nat /\ u \in Nat /\ o \in Nat /\ d \in Nat /\ t \in Nat
        /\ consumed \in Nat /\ sink.flushed \in Nat /\ sink.reported \in Nat
    <2>1. /\ aired \in Seq(Sample) /\ device \in Seq(Sample) /\ sink.ring \in Seq(Sample)
          /\ worker.buf \in Seq(Sample) /\ outer \in Seq(Sample)
          /\ d \in Nat /\ t \in Nat /\ consumed \in Nat /\ sink.flushed \in Nat /\ sink.reported \in Nat
      BY Numbers
    <2>2. QED
      BY <2>1
  <1>2. consumed = a + v /\ sink.reported <= sink.flushed
    BY DEF Counted
  <1>3. Dropped = d + sink.flushed - sink.reported
    BY DEF Dropped
  <1>4. Forwarded = t - u
    BY DEF Forwarded
  <1>5. Dropped + consumed + g = Forwarded
    BY DEF Aligned
  <1> HIDE DEF a, v, g, u, o, d, t
  <1>6. Dropped \in Int /\ d <= Dropped /\ Forwarded \in Int
    BY <1>1, <1>2, <1>3, <1>4
  <1>7. Dropped + a \in Int /\ d + a <= Dropped + a /\ d + a \in Nat
    BY <1>1, <1>6
  <1>8. Dropped + consumed \in Int /\ d + a <= Dropped + consumed
    BY <1>1, <1>2, <1>6
  <1>9. d + a <= Forwarded /\ d + a + v + g <= Forwarded
    BY <1>1, <1>2, <1>5, <1>6
  <1>10. d + a <= t /\ d + a <= t + o /\ t \in Int /\ t + o \in Int
    BY <1>1, <1>4, <1>6, <1>9
  <1>11. QED
    BY <1>6, <1>7, <1>8, <1>9, <1>10 DEF a, v, g, u, o, d, t

\* The end of a step: the tails, and the first half of a snapshot.
LEMMA WorkerPublishInv ==
    ASSUME AudioInv, WorkerPublish
    PROVE  AudioInv'
  <1>1. /\ worker.pc = "publish"
        /\ feedback' = [feedback EXCEPT !.failed = feedback.failed \/ sink.failed, !.finish = FinishLeft]
        /\ \/ /\ sink.failed
              /\ worker' = [worker EXCEPT !.pc = "stopped"]
              /\ progress' = progress
           \/ /\ ~sink.failed /\ ~progress.odd
              /\ worker' = [worker EXCEPT !.pc = "snapshot", !.snapConsumed = progress.consumed,
                                          !.snapTime = Len(aired)]
              /\ progress' = [progress EXCEPT !.unchanged = TRUE]
        /\ UNCHANGED <<pending, submitted, jobs, hold, gaveUp, outer, sink, device, consumed, aired>>
    BY DEF WorkerPublish, MaySnapshot, source
  <1>2. /\ TypeOK /\ Ordered /\ Belonging /\ Counted /\ Published /\ Honest /\ Gone
        /\ Waiting /\ Dropping /\ HeldBehindDrop
        /\ ~sink.failed => Aligned
    BY Parts
  <1>3. worker \in WorkerType /\ feedback \in FeedbackType /\ progress \in ProgressType /\ sink.failed \in BOOLEAN
    BY <1>2 DEF TypeOK, WorkerType, FeedbackType, ProgressType
  <1>4. ~feedback.failed
    BY <1>1, <1>2 DEF Dropping
  <1>5. /\ feedback' \in FeedbackType /\ feedback'.played = feedback.played
        /\ feedback'.discardThrough = feedback.discardThrough
        /\ feedback'.failed = sink.failed
    <2>1. (feedback.failed \/ sink.failed) = sink.failed /\ sink.failed \in BOOLEAN
      BY Zenon, <1>3, <1>4
    <2>2. FinishLeft \in Seq(Nat)
      BY <1>2, FinishLeftType
    <2>3. feedback' = [feedback EXCEPT !.failed = sink.failed, !.finish = FinishLeft]
      BY <1>1, <2>1
    <2>4. QED
      BY <1>3, <2>1, <2>2, <2>3 DEF FeedbackType
  <1>6. aired \in Seq(Sample) /\ Len(aired) \in Nat
    <2>1. aired \in Seq(Sample)
      BY <1>2, Numbers
    <2>2. QED
      BY <2>1
  <1>7. /\ worker' \in WorkerType /\ worker'.pc = IF sink.failed THEN "stopped" ELSE "snapshot"
        /\ worker'.buf = worker.buf /\ worker'.readTotal = worker.readTotal
        /\ worker'.discarded = worker.discarded /\ worker'.applied = worker.applied
        /\ worker'.flushPending = worker.flushPending
        /\ ~sink.failed => worker'.snapTime = Len(aired) /\ worker'.snapConsumed = progress.consumed
    <2>1. CASE sink.failed
      BY <1>1, <1>3, <2>1 DEF WorkerType, Steps
    <2>2. CASE ~sink.failed
      <3>1. progress.consumed \in Nat
        BY <1>3 DEF ProgressType
      <3>2. QED
        BY <1>1, <1>3, <1>6, <2>2, <3>1 DEF WorkerType, Steps
    <2>3. QED
      BY <2>1, <2>2
  <1>8. /\ progress' \in ProgressType /\ progress'.consumed = progress.consumed
        /\ progress'.deadline = progress.deadline /\ progress'.odd = progress.odd
        /\ progress'.unchanged => ~progress.odd
    BY <1>1, <1>2, <1>3 DEF ProgressType, Published
  <1>9. /\ Forwarded' = Forwarded /\ Dropped' = Dropped
        /\ Ordered' /\ Belonging' /\ HeldBehindDrop'
        /\ OnlyLiveLeft' <=> OnlyLiveLeft
        /\ NoneSubmitted' <=> NoneSubmitted
        /\ AllLive(sink.ring)' <=> AllLive(sink.ring)
        /\ ~sink'.failed => Aligned'
    <2>1. Dropped' = Dropped
      BY <1>1, <1>7 DEF Dropped
    <2>2. QED
      BY <1>1, <1>2, <1>5, <1>7, <2>1, BuffersKept
  <1>10. TypeOK'
    BY <1>1, <1>2, <1>5, <1>7, <1>8 DEF TypeOK, WorkerType, FeedbackType, ProgressType
  <1>11. Counted'
    BY <1>1, <1>2, <1>5, <1>7 DEF Counted
  <1>12. Published'
    <2>1. ~sink.failed => worker'.snapTime <= Len(aired) /\ worker'.snapConsumed = progress.deadline
      BY <1>1, <1>2, <1>6, <1>7 DEF Published
    <2>2. QED
      BY <1>1, <1>2, <1>7, <1>8, <2>1 DEF Published
  <1>13. Honest' /\ Gone'
    <2>1. Reach' = feedback.played => Honest' /\ Gone'
      <3>1. worker.pc # "snapshot"
        BY <1>1
      <3>2. Reach = feedback.played /\ Reach \in Nat
        BY <1>2, <3>1, Numbers DEF Reach
      <3>3. ASSUME Reach' = feedback.played PROVE Reach' \in Nat /\ Reach' <= Reach
        BY <3>2, <3>3
      <3>4. QED
        BY <1>1, <1>5, <1>7, <3>3, LessReached
    <2>2. CASE sink.failed
      <3>1. Reach' = feedback.played
        BY <1>5, <1>7, <2>2 DEF Reach
      <3>2. QED
        BY <2>1, <3>1
    <2>3. CASE ~sink.failed
      <3> DEFINE b == worker.discarded + Len(aired)
      <3>1. Reach' = Most(feedback.played, Len(aired) + worker.discarded)
        BY <1>5, <1>7, <2>3 DEF Reach
      <3>2. Len(aired) + worker.discarded = b
        BY <1>3, <1>6 DEF WorkerType
      <3>3. CASE Reach' = feedback.played
        BY <2>1, <3>3
      <3>4. CASE Reach' = b
        <4>1. /\ b \in Nat
              /\ Dropped + Len(aired) \in Int /\ b <= Dropped + Len(aired)
              /\ Dropped + consumed \in Int /\ b <= Dropped + consumed
              /\ Forwarded \in Int /\ b <= Forwarded
              /\ worker.readTotal \in Int /\ b <= worker.readTotal
              /\ worker.readTotal + Len(outer) \in Int /\ b <= worker.readTotal + Len(outer)
              /\ b + Len(device) + Len(sink.ring) <= Forwarded
          BY <1>2, <2>3, Offsets
        <4> HIDE DEF b
        <4>2. /\ pending \in Seq(Sample) /\ outer \in Seq(Sample) /\ worker.buf \in Seq(Sample)
              /\ sink.ring \in Seq(Sample) /\ device \in Seq(Sample) /\ feedback.discardThrough \in Nat
          BY <1>2, Numbers
        <4>3. ASSUME NEW s \in Seq(Sample), NEW c \in Int, Placed(s, c), b <= c
              PROVE  /\ \A i \in DOMAIN s : Live(s[i].job) => Number(s[i]) > b
                     /\ feedback.discardThrough <= b => AllLive(s)
          <5>1. feedback.discardThrough <= b => feedback.discardThrough <= c
            BY <4>1, <4>2, <4>3
          <5>2. QED
            BY <4>1, <4>2, <4>3, <5>1, PlacedBeyond
        <4>4. /\ Placed(device, Dropped + Len(aired))
              /\ Placed(sink.ring, Dropped + consumed)
              /\ Placed(worker.buf, Forwarded)
              /\ Placed(outer, worker.readTotal)
              /\ Placed(pending, worker.readTotal + Len(outer))
          BY <1>2, <2>3 DEF Aligned
        <4>5. Ahead(device)' /\ Ahead(sink.ring)' /\ Ahead(worker.buf)' /\ Ahead(outer)' /\ Ahead(pending)'
          BY <1>1, <1>5, <1>7, <3>4, <4>1, <4>2, <4>3, <4>4 DEF Ahead, Live, Number
        <4>6. feedback.discardThrough <= b => OnlyLiveLeft
          BY <4>1, <4>2, <4>3, <4>4 DEF OnlyLiveLeft
        <4>7. Honest'
          BY <1>1, <1>9, <3>4, <4>1, <4>5 DEF Honest
        <4>8. Gone'
          BY <1>5, <1>9, <3>4, <4>1, <4>2, <4>6 DEF Gone
        <4>9. QED
          BY <4>7, <4>8
      <3>5. QED
        BY <3>1, <3>2, <3>3, <3>4 DEF Most
    <2>4. QED
      BY <2>2, <2>3
  <1>14. Waiting'
    BY <1>1, <1>2, <1>4, <1>5, <1>7, <1>9 DEF Waiting
  <1>15. Dropping'
    BY <1>1, <1>2, <1>5, <1>7, <1>9 DEF Dropping, FlushWanted
  <1>16. QED
    BY <1>9, <1>10, <1>11, <1>12, <1>13, <1>14, <1>15 DEF AudioInv

-----------------------------------------------------------------------------
(* The worker's steps that move or drop samples.                            *)

\* A fresh chunk from the outer ring.
LEMMA WorkerReadInv ==
    ASSUME AudioInv, WorkerRead
    PROVE  AudioInv'
  <1> DEFINE k == IF worker.buf = << >> THEN Least(ChunkSize, Len(outer)) ELSE 0
             n == Least(k, Len(outer))
             f == worker.buf \o Front(outer, k)
             r == Rest(outer, k)
  <1>1. /\ worker.pc = "read" /\ outer' = r
        /\ worker' = [worker EXCEPT !.buf = f, !.readTotal = worker.readTotal + k,
                                    !.pc = IF f = << >> THEN "publish" ELSE "write"]
        /\ UNCHANGED <<pending, submitted, jobs, hold, gaveUp, feedback, sink, device, consumed, progress, aired>>
    BY DEF WorkerRead, source, playback
  <1>2. /\ TypeOK /\ Ordered /\ Belonging /\ Counted /\ Published /\ Honest /\ Gone
        /\ Waiting /\ Dropping /\ HeldBehindDrop
        /\ ~sink.failed => Aligned
    BY Parts
  <1>3. /\ outer \in Seq(Sample) /\ worker.buf \in Seq(Sample) /\ Len(outer) <= OuterCapacity
        /\ Len(worker.buf) <= ChunkSize /\ ChunkSize \in Nat /\ OuterCapacity \in Nat
        /\ worker.readTotal \in Nat /\ Forwarded \in Int
    <2> HIDE DEF k, n, f, r
    <2>1. QED
      BY <1>2, Numbers
  <1>4. k \in Nat /\ k <= Len(outer) /\ Len(worker.buf) + k <= ChunkSize /\ n = k
    <2> HIDE DEF f, r
    <2>1. Len(outer) \in Nat /\ Len(worker.buf) \in Nat /\ (worker.buf = << >> => Len(worker.buf) = 0)
      BY <1>3
    <2>2. CASE worker.buf = << >>
      <3>1. k = Least(ChunkSize, Len(outer)) /\ Len(worker.buf) = 0
        BY <2>1, <2>2
      <3> HIDE DEF k
      <3>2. QED
        BY <1>3, <2>1, <3>1 DEF Least
    <2>3. CASE worker.buf # << >>
      <3>1. k = 0
        BY <2>3
      <3> HIDE DEF k
      <3>2. QED
        BY <1>3, <2>1, <3>1 DEF Least
    <2>4. QED
      BY <2>2, <2>3
  <1> HIDE DEF k
  <1>5. /\ f \in Seq(Sample) /\ r \in Seq(Sample)
        /\ Len(f) = Len(worker.buf) + n /\ Len(r) = Len(outer) - n
        /\ Known(outer) /\ Known(worker.buf) => Known(f) /\ Known(r)
        /\ Ahead(outer) /\ Ahead(worker.buf) => Ahead(f) /\ Ahead(r)
        /\ AllLive(outer) /\ AllLive(worker.buf) => AllLive(f)
        /\ AllLive(outer) => AllLive(r)
        /\ \A b \in Int : Placed(worker.buf, b) /\ Placed(outer, b + Len(worker.buf)) =>
              Placed(f, b) /\ Placed(r, b + Len(worker.buf) + n)
    BY <1>3, <1>4, Moved
  <1> HIDE DEF f, r, n
  <1>6. /\ Len(f) = Len(worker.buf) + k /\ Len(r) = Len(outer) - k
        /\ Len(f) <= ChunkSize /\ Len(r) <= OuterCapacity /\ worker.readTotal + k \in Nat
    BY <1>3, <1>4, <1>5
  <1>7. worker \in WorkerType
    BY <1>2 DEF TypeOK, WorkerType
  <1>8. /\ worker' \in WorkerType /\ worker'.buf = f /\ worker'.readTotal = worker.readTotal + k
        /\ worker'.discarded = worker.discarded /\ worker'.applied = worker.applied
        /\ worker'.flushPending = worker.flushPending /\ worker'.pc \in {"publish", "write"}
    BY <1>1, <1>5, <1>6, <1>7 DEF WorkerType, Steps
  <1>9. TypeOK'
    BY <1>1, <1>2, <1>5, <1>6, <1>8 DEF TypeOK, WorkerType
  <1>10. Ordered' /\ Published'
    BY <1>1, <1>2, <1>8, OrderedKept, PublishedKept DEF playback
  <1>11. Belonging'
    BY <1>1, <1>2, <1>5, <1>8 DEF Belonging, Known
  <1>12. Counted'
    <2>1. Len(worker.buf) <= worker.readTotal /\ worker.readTotal + Len(outer) + Len(pending) = submitted
          /\ Len(pending) \in Nat
      <3>1. pending \in Seq(Sample)
        BY <1>2, Numbers
      <3>2. QED
        BY <1>2, <3>1 DEF Counted
    <2>2. Len(f) <= worker.readTotal + k /\ (worker.readTotal + k) + Len(r) + Len(pending) = submitted
      BY <1>3, <1>4, <1>6, <2>1
    <2>3. QED
      BY <1>1, <1>2, <1>8, <2>2 DEF Counted
  <1>13. Forwarded' = Forwarded /\ Reach' = Reach /\ Dropped' = Dropped
    <2>1. (worker.readTotal + k) - Len(f) = worker.readTotal - Len(worker.buf)
      BY <1>3, <1>4, <1>6
    <2>2. Forwarded' = Forwarded
      BY <1>8, <2>1 DEF Forwarded
    <2>3. QED
      BY <1>1, <1>8, <2>2 DEF Reach, Dropped
  <1>14. Honest'
    <2>1. Ahead(f) /\ Ahead(r) /\ Honest
      BY <1>2, <1>5 DEF Honest
    <2>2. QED
      BY <1>1, <1>8, <1>13, <2>1 DEF Honest, Ahead, Number, Live
  <1>15. OnlyLiveLeft => OnlyLiveLeft'
    <2>1. OnlyLiveLeft => AllLive(f) /\ AllLive(r)
      BY <1>5 DEF OnlyLiveLeft
    <2>2. QED
      BY <1>1, <1>8, <2>1 DEF OnlyLiveLeft, AllLive, Live
  <1>16. Gone'
    BY <1>1, <1>2, <1>13, <1>15 DEF Gone
  <1>17. Waiting'
    <2>1. NoneSubmitted => NoneSubmitted'
      BY <1>1 DEF NoneSubmitted, Live
    <2>2. QED
      BY <1>1, <1>2, <1>8, <1>13, <1>15, <2>1 DEF Waiting
  <1>18. Dropping' /\ HeldBehindDrop'
    <2>1. ~worker.flushPending /\ ~feedback.failed
      BY <1>1, <1>2 DEF Dropping
    <2>2. QED
      BY <1>1, <1>2, <1>8, <1>13, <2>1 DEF Dropping, FlushWanted, HeldBehindDrop, AllLive, NoneLive, Live
  <1>19. ASSUME ~sink.failed PROVE Aligned'
    <2>1. Aligned
      BY <1>2, <1>19
    <2>2. Forwarded + Len(worker.buf) = worker.readTotal
      BY <1>3 DEF Forwarded
    <2>3. Placed(worker.buf, Forwarded) /\ Placed(outer, Forwarded + Len(worker.buf))
      BY <2>1, <2>2 DEF Aligned
    <2>4. Placed(f, Forwarded) /\ Placed(r, Forwarded + Len(worker.buf) + n)
      BY <1>3, <1>5, <2>3
    <2>5. Placed(r, worker.readTotal + k)
      BY <1>4, <2>2, <2>4
    <2>6. (worker.readTotal + k) + Len(r) = worker.readTotal + Len(outer)
      BY <1>3, <1>4, <1>6
    <2>7. Placed(pending, (worker.readTotal + k) + Len(r))
      BY <2>1, <2>6 DEF Aligned
    <2>8. QED
      BY <1>1, <1>8, <1>13, <2>1, <2>4, <2>5, <2>7 DEF Aligned, Placed, Right, Number, Live
  <1>20. QED
    BY <1>1, <1>9, <1>10, <1>11, <1>12, <1>14, <1>16, <1>17, <1>18, <1>19 DEF AudioInv

\* Nothing is live when no transmission is.
LEMMA AllCancelled ==
    ASSUME NoneSubmitted, NEW s
    PROVE  NoneLive(s)
  BY DEF NoneSubmitted, NoneLive, Live

\* What is not live may stand anywhere below the discard point.
LEMMA PlacedDead ==
    ASSUME NoneSubmitted, NEW s \in Seq(Sample), NEW b \in Int,
           b + Len(s) <= feedback.discardThrough, feedback.discardThrough \in Nat
    PROVE  Placed(s, b)
  <1>1. ASSUME NEW i \in DOMAIN s PROVE ~(b + i > feedback.discardThrough) /\ ~Live(s[i].job)
    <2>1. i \in 1 .. Len(s)
      OBVIOUS
    <2>2. QED
      BY <2>1 DEF NoneSubmitted, Live
  <1>2. QED
    BY <1>1 DEF Placed, Right

\* How much of the chunk the worker offers.
LEMMA OfferedType ==
    ASSUME TypeOK
    PROVE  Offered \in Nat /\ Offered <= Len(worker.buf)
  <1>1. feedback.finish \in Seq(Nat) /\ worker.buf \in Seq(Sample) /\ Forwarded \in Int
    BY Numbers
  <1>2. Len(worker.buf) \in Nat
    BY <1>1
  <1>3. CASE feedback.finish = << >>
    BY <1>2, <1>3 DEF Offered
  <1>4. CASE feedback.finish # << >>
    <2>1. Head(feedback.finish) \in Nat
      BY <1>1, <1>4
    <2>2. Most(0, Head(feedback.finish) - Forwarded) \in Nat
      BY <1>1, <2>1 DEF Most
    <2>3. QED
      BY <1>2, <1>4, <2>2 DEF Offered, Least
  <1>5. QED
    BY <1>3, <1>4

\* A sum grows with its last part.
LEMMA SumGrows ==
    ASSUME NEW f \in Int, NEW r \in Nat, NEW a \in Nat, NEW b \in Nat, NEW c \in Nat, NEW k \in Nat,
           c = b + k, r + a + b <= f
    PROVE  r + a + c <= f + k
  OBVIOUS

\* And by as much as it does.
LEMMA SumSplits ==
    ASSUME NEW a \in Int, NEW b \in Nat, NEW c \in Nat, NEW f \in Int, a + b + c = f
    PROVE  a + b \in Int /\ \A k \in Nat : a + b + (c + k) = f + k
  OBVIOUS

\* The sink takes what fits of what is offered, or has failed.
LEMMA WorkerWriteInv ==
    ASSUME AudioInv, WorkerWrite
    PROVE  AudioInv'
  <1> DEFINE k == Least(Offered, SinkCapacity - Len(sink.ring))
             n == Least(k, Len(worker.buf))
             f == sink.ring \o Front(worker.buf, k)
             r == Rest(worker.buf, k)
  <1>1. /\ worker.pc = "write"
        /\ \/ /\ sink.failed
              /\ worker' = [worker EXCEPT !.pc = "stopped"]
              /\ feedback' = [feedback EXCEPT !.failed = TRUE]
              /\ sink' = sink
           \/ /\ Offered = 0 \/ ~sink.failed
              /\ worker' = [worker EXCEPT !.buf = r, !.pc = "publish"]
              /\ sink' = [sink EXCEPT !.ring = f]
              /\ feedback' = feedback
        /\ UNCHANGED <<pending, submitted, jobs, hold, gaveUp, outer, device, consumed, progress, aired>>
    BY DEF WorkerWrite, source, playback
  <1>2. /\ TypeOK /\ Ordered /\ Belonging /\ Counted /\ Published /\ Honest /\ Gone
        /\ Waiting /\ Dropping /\ HeldBehindDrop
        /\ ~sink.failed => Aligned
    BY Parts
  <1> HIDE DEF k, n, f, r
  <1>3. /\ sink.ring \in Seq(Sample) /\ worker.buf \in Seq(Sample) /\ Len(sink.ring) <= SinkCapacity
        /\ Len(worker.buf) <= ChunkSize /\ SinkCapacity \in Nat
        /\ worker.readTotal \in Nat /\ Forwarded \in Int /\ consumed \in Nat /\ Dropped \in Int
        /\ feedback.discardThrough \in Nat /\ hold \in Nat /\ Reach \in Nat /\ device \in Seq(Sample)
    BY <1>2, Numbers
  <1>4. worker \in WorkerType /\ sink \in SinkType /\ feedback \in FeedbackType
    BY <1>2 DEF TypeOK, WorkerType, SinkType, FeedbackType
  <1>5. ~worker.flushPending /\ ~feedback.failed /\ ~(sink.request > 0) /\ sink.served <= sink.requested
    BY <1>1, <1>2 DEF Dropping
  <1>6. CASE /\ sink.failed
             /\ worker' = [worker EXCEPT !.pc = "stopped"]
             /\ feedback' = [feedback EXCEPT !.failed = TRUE]
             /\ sink' = sink
    <2>1. /\ worker' \in WorkerType /\ worker'.buf = worker.buf /\ worker'.readTotal = worker.readTotal
          /\ worker'.discarded = worker.discarded /\ worker'.applied = worker.applied
          /\ worker'.flushPending = worker.flushPending /\ worker'.pc = "stopped"
      BY <1>4, <1>6 DEF WorkerType, Steps
    <2>2. /\ feedback' \in FeedbackType /\ feedback'.failed = TRUE /\ feedback'.played = feedback.played
          /\ feedback'.discardThrough = feedback.discardThrough
      BY <1>4, <1>6 DEF FeedbackType
    <2>3. /\ Forwarded' = Forwarded
          /\ Ordered' /\ Belonging' /\ HeldBehindDrop' /\ Honest'
          /\ OnlyLiveLeft' <=> OnlyLiveLeft
          /\ NoneSubmitted' <=> NoneSubmitted
          /\ Reach' = Reach
      <3>1. Reach' = Reach
        BY <1>1, <2>1, <2>2 DEF Reach
      <3>2. QED
        BY <1>1, <1>2, <1>6, <2>1, <2>2, <3>1, BuffersKept
    <2>4. TypeOK'
      BY <1>1, <1>2, <1>6, <2>1, <2>2 DEF TypeOK, WorkerType, FeedbackType
    <2>5. Counted' /\ Gone' /\ Waiting'
      BY <1>1, <1>2, <1>6, <2>1, <2>2, <2>3 DEF Counted, Gone, Waiting
    <2>6. Published'
      BY <1>1, <1>2, <2>1, PublishedKept DEF playback
    <2>7. Dropping'
      BY <1>1, <1>2, <1>5, <1>6, <2>1, <2>2, <2>3 DEF Dropping
    <2>8. QED
      BY <1>6, <2>3, <2>4, <2>5, <2>6, <2>7 DEF AudioInv
  <1>7. CASE /\ Offered = 0 \/ ~sink.failed
             /\ worker' = [worker EXCEPT !.buf = r, !.pc = "publish"]
             /\ sink' = [sink EXCEPT !.ring = f]
             /\ feedback' = feedback
    <2>1. /\ k \in Nat /\ k <= Len(worker.buf) /\ n = k /\ Len(sink.ring) + k <= SinkCapacity
          /\ Offered = 0 => k = 0
      <3>1. Offered \in Nat /\ Offered <= Len(worker.buf) /\ SinkCapacity - Len(sink.ring) \in Nat
            /\ Len(worker.buf) \in Nat /\ Len(sink.ring) \in Nat
        BY <1>2, <1>3, OfferedType
      <3>2. k \in Nat /\ k <= Offered /\ k <= SinkCapacity - Len(sink.ring)
        BY <3>1 DEF k, Least
      <3>3. QED
        BY <1>3, <3>1, <3>2 DEF n, Least
    <2>2. /\ f \in Seq(Sample) /\ r \in Seq(Sample)
          /\ Len(f) = Len(sink.ring) + k /\ Len(r) = Len(worker.buf) - k
          /\ Known(worker.buf) /\ Known(sink.ring) => Known(f) /\ Known(r)
          /\ Ahead(worker.buf) /\ Ahead(sink.ring) => Ahead(f) /\ Ahead(r)
          /\ AllLive(worker.buf) /\ AllLive(sink.ring) => AllLive(f)
          /\ AllLive(worker.buf) => AllLive(r)
          /\ k = 0 => (AllLive(sink.ring) => AllLive(f)) /\ (NoneLive(sink.ring) => NoneLive(f))
          /\ \A b \in Int : Placed(sink.ring, b) /\ Placed(worker.buf, b + Len(sink.ring)) =>
                Placed(f, b) /\ Placed(r, b + Len(sink.ring) + k)
      <3>1. /\ f \in Seq(Sample) /\ r \in Seq(Sample)
            /\ Len(f) = Len(sink.ring) + n /\ Len(r) = Len(worker.buf) - n
            /\ Known(worker.buf) /\ Known(sink.ring) => Known(f) /\ Known(r)
            /\ Ahead(worker.buf) /\ Ahead(sink.ring) => Ahead(f) /\ Ahead(r)
            /\ AllLive(worker.buf) /\ AllLive(sink.ring) => AllLive(f)
            /\ AllLive(worker.buf) => AllLive(r)
            /\ n = 0 => (AllLive(sink.ring) => AllLive(f)) /\ (NoneLive(sink.ring) => NoneLive(f))
            /\ \A b \in Int : Placed(sink.ring, b) /\ Placed(worker.buf, b + Len(sink.ring)) =>
                  Placed(f, b) /\ Placed(r, b + Len(sink.ring) + n)
        BY <1>3, <2>1, Moved DEF f, r, n
      <3>2. QED
        BY <2>1, <3>1
    <2>3. /\ worker' \in WorkerType /\ worker'.buf = r /\ worker'.readTotal = worker.readTotal
          /\ worker'.discarded = worker.discarded /\ worker'.applied = worker.applied
          /\ worker'.flushPending = worker.flushPending /\ worker'.pc = "publish"
      BY <1>4, <1>7, <2>2 DEF WorkerType, Steps
    <2>4. /\ sink' \in SinkType /\ sink'.ring = f /\ sink'.requested = sink.requested
          /\ sink'.served = sink.served /\ sink'.flushed = sink.flushed /\ sink'.request = sink.request
          /\ sink'.reported = sink.reported /\ sink'.failed = sink.failed
      BY <1>4, <1>7, <2>2 DEF SinkType
    <2>5. /\ Len(f) \in Nat /\ Len(r) \in Nat /\ Len(f) <= SinkCapacity /\ Len(r) <= Len(worker.buf)
          /\ Len(worker.buf) \in Nat /\ Len(sink.ring) \in Nat /\ Len(device) \in Nat
          /\ Len(r) <= ChunkSize
      <3>1. Len(worker.buf) \in Nat /\ Len(sink.ring) \in Nat /\ Len(device) \in Nat
            /\ Len(f) \in Nat /\ Len(r) \in Nat
        BY <1>3, <2>2
      <3>2. ChunkSize \in Nat
        BY <1>2, Numbers
      <3>3. QED
        BY <1>3, <2>1, <2>2, <3>1, <3>2
    <2>6. TypeOK'
      BY <1>1, <1>2, <1>7, <2>2, <2>3, <2>4, <2>5 DEF TypeOK, WorkerType, SinkType
    <2>7. Ordered' /\ Published'
      BY <1>1, <1>2, <1>7, <2>3, OrderedKept, PublishedKept DEF playback
    <2>8. Belonging'
      BY <1>1, <1>2, <2>2, <2>3, <2>4 DEF Belonging, Known
    <2>9. Counted'
      <3>1. Len(r) <= worker.readTotal
        BY <1>2, <1>3, <2>5 DEF Counted
      <3>2. QED
        BY <1>1, <1>2, <1>7, <2>3, <2>4, <3>1 DEF Counted
    <2>10. Forwarded' = Forwarded + k /\ Reach' = Reach /\ Dropped' = Dropped
      <3>1. worker.readTotal - Len(r) = (worker.readTotal - Len(worker.buf)) + k
        BY <1>3, <2>1, <2>2, <2>5
      <3>2. Forwarded' = Forwarded + k
        BY <2>3, <3>1 DEF Forwarded
      <3>3. QED
        BY <1>1, <1>7, <2>3, <2>4, <3>2 DEF Reach, Dropped
    <2>11. Forwarded' \in Int /\ Forwarded' >= Forwarded
      BY <1>3, <2>1, <2>10
    <2>12. Honest'
      <3>1. Ahead(f) /\ Ahead(r) /\ Honest
        BY <1>2, <2>2 DEF Honest
      <3>2. Ahead(device)' /\ Ahead(sink.ring)' /\ Ahead(worker.buf)' /\ Ahead(outer)' /\ Ahead(pending)'
        BY <1>1, <1>7, <2>3, <2>4, <2>10, <3>1 DEF Honest, Ahead, Number, Live
      <3>3. Reach + Len(device) + Len(sink.ring) <= Forwarded
        BY <1>2 DEF Honest
      <3>4. Reach + Len(device) + Len(f) <= Forwarded + k
        <4>1. Len(f) = Len(sink.ring) + k
          BY <2>2
        <4>2. QED
          BY <1>3, <2>1, <2>5, <3>3, <4>1, SumGrows
      <3>5. QED
        BY <1>1, <2>4, <2>10, <3>2, <3>4 DEF Honest
    <2>13. OnlyLiveLeft => OnlyLiveLeft'
      <3>1. OnlyLiveLeft => AllLive(f) /\ AllLive(r)
        BY <2>2 DEF OnlyLiveLeft
      <3>2. QED
        BY <1>1, <2>3, <2>4, <3>1 DEF OnlyLiveLeft, AllLive, Live
    <2>14. Gone'
      BY <1>1, <1>2, <1>7, <2>10, <2>13 DEF Gone
    <2>15. NoneSubmitted' <=> NoneSubmitted
      BY <1>1 DEF NoneSubmitted, Live
    <2>16. Waiting'
      <3>1. (hold = 0 \/ worker.applied >= feedback.discardThrough) =>
              Forwarded' >= feedback.discardThrough \/ feedback.failed
        BY <1>2, <1>3, <2>11 DEF Waiting
      <3>2. QED
        BY <1>1, <1>2, <1>7, <2>3, <2>13, <2>15, <3>1 DEF Waiting
    <2>17. (hold = 0 \/ worker.applied >= feedback.discardThrough) /\ ~sink.failed => AllLive(f)
      <3>1. SUFFICES ASSUME hold = 0 \/ worker.applied >= feedback.discardThrough, ~sink.failed
                     PROVE  AllLive(f)
        OBVIOUS
      <3>2. Forwarded >= feedback.discardThrough
        BY <1>2, <1>5, <3>1 DEF Waiting
      <3>3. AllLive(sink.ring)
        BY <1>2, <1>5, <3>1 DEF Dropping
      <3>4. Placed(worker.buf, Forwarded) /\ feedback.discardThrough <= Forwarded
        BY <1>2, <1>3, <3>1, <3>2 DEF Aligned
      <3>5. AllLive(worker.buf)
        BY <1>3, <3>4, PlacedBeyond
      <3>6. QED
        BY <2>2, <3>3, <3>5
    <2>18. HeldBehindDrop'
      <3>1. AllLive(f) \/ NoneLive(f)
        <4>1. CASE sink.failed
          <5>1. k = 0
            BY <1>7, <2>1, <4>1
          <5>2. QED
            BY <1>2, <2>2, <5>1 DEF HeldBehindDrop
        <4>2. CASE ~sink.failed /\ hold = 0
          BY <2>17, <4>2
        <4>3. CASE ~sink.failed /\ hold # 0
          <5>1. NoneSubmitted
            BY <1>2, <1>3, <4>3 DEF Waiting
          <5>2. QED
            BY <5>1, AllCancelled
        <4>4. QED
          BY <4>1, <4>2, <4>3
      <3>2. QED
        BY <1>1, <2>4, <3>1 DEF HeldBehindDrop, AllLive, NoneLive, Live
    <2>19. Dropping'
      <3>1. (AllLive(f) => AllLive(sink.ring)')
        BY <1>1, <2>4 DEF AllLive, Live
      <3>2. QED
        BY <1>1, <1>2, <1>5, <1>7, <2>3, <2>4, <2>17, <3>1 DEF Dropping, FlushWanted
    <2>20. ASSUME ~sink.failed PROVE Aligned'
      <3>1. Aligned
        BY <1>2, <2>20
      <3>2. Dropped + consumed \in Int /\ (Dropped + consumed) + Len(sink.ring) = Forwarded
        <4>1. Dropped + consumed + Len(sink.ring) = Forwarded
          BY <3>1 DEF Aligned
        <4>2. QED
          BY <1>3, <2>5, <4>1, SumSplits
      <3>3. Placed(sink.ring, Dropped + consumed) /\ Placed(worker.buf, (Dropped + consumed) + Len(sink.ring))
        BY <3>1, <3>2 DEF Aligned
      <3>4. Placed(f, Dropped + consumed) /\ Placed(r, (Dropped + consumed) + Len(sink.ring) + k)
        BY <2>2, <3>2, <3>3
      <3>5. Placed(r, Forwarded + k)
        BY <3>2, <3>4
      <3>6. Dropped + consumed + Len(f) = Forwarded + k
        <4>1. Len(f) = Len(sink.ring) + k
          BY <2>2
        <4> DEFINE g == Len(sink.ring)
        <4>2. /\ Dropped \in Int /\ consumed \in Nat /\ g \in Nat /\ Forwarded \in Int /\ k \in Nat
              /\ Dropped + consumed + g = Forwarded
          BY <1>3, <2>1, <2>5, <3>2
        <4> HIDE DEF g
        <4>3. Dropped + consumed + (g + k) = Forwarded + k
          BY <4>2
        <4> USE DEF g
        <4>4. QED
          BY <4>1, <4>3
      <3>7. QED
        BY <1>1, <1>7, <2>3, <2>4, <2>10, <3>1, <3>4, <3>5, <3>6 DEF Aligned, Placed, Right, Number, Live
    <2>21. QED
      BY <2>4, <2>6, <2>7, <2>8, <2>9, <2>12, <2>14, <2>16, <2>18, <2>19, <2>20 DEF AudioInv
  <1>8. QED
    BY <1>1, <1>6, <1>7

\* The worker drops what is cancelled, or finds nothing to drop.
LEMMA WorkerDiscardInv ==
    ASSUME AudioInv, WorkerDiscard
    PROVE  AudioInv'
  <1> DEFINE d == feedback.discardThrough
             fresh == d > worker.applied
             drops == fresh /\ d > Forwarded
             k == IF drops THEN Most(0, Least(d - worker.readTotal, Len(outer))) ELSE 0
             flush == worker.flushPending \/ (fresh /\ d >= Forwarded)
             buf == IF drops THEN << >> ELSE worker.buf
             gone == worker.discarded + k + (IF drops THEN Len(worker.buf) ELSE 0)
             pc == IF flush THEN "flush" ELSE "read"
  <1>1. /\ worker.pc = "discard" /\ outer' = Rest(outer, k)
        /\ worker' = [worker EXCEPT !.applied = Most(worker.applied, d), !.flushPending = flush,
                                    !.discarded = gone, !.readTotal = worker.readTotal + k,
                                    !.buf = buf, !.pc = pc]
        /\ UNCHANGED <<pending, submitted, jobs, hold, gaveUp, feedback, sink, device, consumed, progress, aired>>
    BY DEF WorkerDiscard, ApplyDiscard, SinkAllCancelled, source, playback
  <1>2. /\ TypeOK /\ Ordered /\ Belonging /\ Counted /\ Published /\ Honest /\ Gone
        /\ Waiting /\ Dropping /\ HeldBehindDrop
        /\ ~sink.failed => Aligned
    BY Parts
  <1> HIDE DEF d, k, flush, buf, gone, pc
  <1>3. /\ outer \in Seq(Sample) /\ worker.buf \in Seq(Sample) /\ pending \in Seq(Sample)
        /\ sink.ring \in Seq(Sample) /\ device \in Seq(Sample) /\ aired \in Seq(Sample)
        /\ Len(outer) <= OuterCapacity /\ OuterCapacity \in Nat /\ ChunkSize \in Nat
        /\ worker.readTotal \in Nat /\ worker.discarded \in Nat /\ worker.applied \in Nat
        /\ Forwarded \in Int /\ d \in Nat /\ hold \in Nat /\ Reach \in Nat /\ submitted \in Nat
        /\ consumed \in Nat /\ Dropped \in Int
    BY <1>2, Numbers DEF d
  <1>4. /\ Len(outer) \in Nat /\ Len(worker.buf) \in Nat /\ Len(pending) \in Nat
        /\ Len(sink.ring) \in Nat /\ Len(device) \in Nat /\ Len(aired) \in Nat
    BY <1>3
  <1>5. worker \in WorkerType
    BY <1>2 DEF TypeOK, WorkerType
  <1>6. ~feedback.failed
    BY <1>1, <1>2 DEF Dropping
  <1>7. /\ worker.readTotal + Len(outer) + Len(pending) = submitted
        /\ worker.applied <= d /\ Forwarded <= worker.readTotal
    <2>1. Forwarded <= worker.readTotal
      BY <1>3, <1>4 DEF Forwarded
    <2>2. QED
      BY <1>2, <2>1 DEF Counted, d
  <1>8. hold > 0 => hold = d /\ submitted = d /\ pending = << >> /\ NoneSubmitted
    BY <1>2 DEF Waiting, d
  <1>9. (hold = 0 \/ worker.applied >= d) => Forwarded >= d
    BY <1>2, <1>6 DEF Waiting, d
  <1>10. Most(worker.applied, d) = d
    BY <1>3, <1>7 DEF Most
  <1>11. flush \in BOOLEAN /\ (flush <=> worker.flushPending \/ (fresh /\ d >= Forwarded)) /\ pc \in Steps
         /\ pc = IF flush THEN "flush" ELSE "read"
    <2>1. worker.flushPending \in BOOLEAN
      BY <1>5 DEF WorkerType
    <2>2. flush \in BOOLEAN /\ (flush <=> worker.flushPending \/ (fresh /\ d >= Forwarded))
      BY Zenon, <2>1 DEF flush
    <2>3. QED
      BY <2>2 DEF pc, Steps
  <1>12. Ordered'
    BY <1>1, <1>2, OrderedKept
  <1>13. CASE drops
    <2>1. /\ submitted = d /\ pending = << >> /\ NoneSubmitted /\ hold > 0 /\ hold = d
          /\ worker.readTotal + Len(outer) = d
      <3>1. hold > 0
        BY <1>3, <1>9, <1>13
      <3>2. Len(pending) = 0
        BY <1>8, <3>1
      <3>3. QED
        BY <1>3, <1>4, <1>7, <1>8, <3>1, <3>2
    <2>2. k = Len(outer)
      <3>1. d - worker.readTotal = Len(outer)
        BY <1>3, <1>4, <2>1
      <3>2. QED
        BY <1>4, <1>13, <3>1 DEF k, Most, Least
    <2>3. buf = << >> /\ gone = worker.discarded + Len(outer) + Len(worker.buf) /\ gone \in Nat
      <3>1. buf = << >> /\ gone = worker.discarded + k + Len(worker.buf)
        BY <1>13 DEF buf, gone
      <3>2. QED
        BY <1>3, <1>4, <2>2, <3>1
    <2>4. outer' \in Seq(Sample) /\ Len(outer') = 0
      <3>1. Rest(outer, k) \in Seq(Sample) /\ Len(Rest(outer, k)) = Len(outer) - Least(k, Len(outer))
        BY <1>3, <1>4, <2>2, RestPart
      <3>2. Least(k, Len(outer)) = Len(outer)
        BY <1>4, <2>2 DEF Least
      <3>3. QED
        BY <1>1, <1>4, <3>1, <3>2
    <2>5. /\ worker' \in WorkerType /\ worker'.buf = << >> /\ worker'.readTotal = d
          /\ worker'.discarded = gone /\ worker'.applied = d
          /\ worker'.flushPending = TRUE /\ worker'.pc = "flush"
      <3>1. flush = TRUE /\ pc = "flush"
        BY <1>3, <1>11, <1>13
      <3>2. worker.readTotal + k = d
        BY <2>1, <2>2
      <3>3. /\ worker' = [worker EXCEPT !.applied = d, !.flushPending = TRUE, !.discarded = gone,
                                        !.readTotal = d, !.buf = << >>, !.pc = "flush"]
        BY <1>1, <1>10, <2>3, <3>1, <3>2
      <3>4. << >> \in Seq(Sample) /\ "flush" \in Steps
        BY DEF Steps
      <3>5. QED
        BY <1>3, <1>5, <2>3, <3>3, <3>4 DEF WorkerType
    <2>6. /\ Forwarded' = d /\ Reach' = Reach
          /\ Dropped' = Dropped + Len(outer) + Len(worker.buf)
      <3>1. Len(worker'.buf) = 0
        BY <2>5
      <3>2. Forwarded' = d
        BY <1>3, <2>5, <3>1 DEF Forwarded
      <3>3. Reach' = Reach
        BY <1>1, <2>5 DEF Reach
      <3>4. sink.flushed \in Nat /\ sink.reported \in Nat
        BY <1>2, Numbers
      <3>5. gone + sink.flushed - sink.reported
              = (worker.discarded + sink.flushed - sink.reported) + Len(outer) + Len(worker.buf)
        <4> DEFINE o == Len(outer)
                   u == Len(worker.buf)
        <4>1. o \in Nat /\ u \in Nat /\ gone = worker.discarded + o + u
          BY <1>4, <2>3
        <4> HIDE DEF o, u
        <4>2. gone + sink.flushed - sink.reported = (worker.discarded + sink.flushed - sink.reported) + o + u
          BY <1>3, <3>4, <4>1
        <4> USE DEF o, u
        <4>3. QED
          BY <4>2
      <3>6. QED
        BY <1>1, <2>5, <3>2, <3>3, <3>5 DEF Dropped
    <2>7. TypeOK'
      <3>1. Len(outer') <= OuterCapacity /\ Len(worker'.buf) <= ChunkSize
        BY <1>3, <2>4, <2>5
      <3>2. QED
        BY <1>1, <1>2, <2>4, <2>5, <3>1 DEF TypeOK, WorkerType
    <2>8. Published'
      BY <1>1, <1>2, <2>5, PublishedKept DEF playback
    <2>9. DOMAIN outer' = {} /\ DOMAIN worker'.buf = {}
      BY <2>4, <2>5
    <2>10. Belonging'
      BY <1>1, <1>2, <2>9 DEF Belonging, Known
    <2>11. Counted'
      <3>1. d + 0 + Len(pending) = submitted /\ Len(worker'.buf) <= d /\ d + Len(pending) <= submitted
        <4>1. Len(pending) = 0 /\ Len(worker'.buf) = 0
          BY <2>1, <2>5
        <4>2. QED
          BY <1>3, <2>1, <4>1
      <3>2. QED
        BY <1>1, <1>2, <1>3, <2>4, <2>5, <3>1 DEF Counted, d
    <2>12. Forwarded <= d /\ Forwarded # d
      BY <1>3, <1>13
    <2>13. Honest'
      <3> DEFINE g == Len(sink.ring)
                 v == Len(device)
      <3>1. Reach + v + g <= Forwarded
        BY <1>2 DEF Honest
      <3>2. g \in Nat /\ v \in Nat
        BY <1>4
      <3> HIDE DEF g, v
      <3>3. Reach + v + g <= d
        BY <1>3, <2>12, <3>1, <3>2
      <3> USE DEF g, v
      <3>4. Ahead(device)' /\ Ahead(sink.ring)' /\ Ahead(worker.buf)' /\ Ahead(outer)' /\ Ahead(pending)'
        BY <1>1, <2>1 DEF Ahead, NoneSubmitted, Live
      <3>5. QED
        BY <1>1, <2>6, <3>3, <3>4 DEF Honest
    <2>14. Gone'
      <3> DEFINE g == Len(sink.ring)
                 v == Len(device)
      <3>1. Reach + v + g <= Forwarded
        BY <1>2 DEF Honest
      <3>2. g \in Nat /\ v \in Nat
        BY <1>4
      <3> HIDE DEF g, v
      <3>3. ~(Reach >= d)
        BY <1>3, <2>12, <3>1, <3>2
      <3>4. QED
        BY <1>1, <2>6, <3>3 DEF Gone, d
    <2>15. Waiting'
      <3>1. NoneSubmitted'
        BY <1>1, <2>1 DEF NoneSubmitted, Live
      <3>2. hold > 0 /\ ~(hold = 0) /\ d >= d
        BY <1>3, <2>1
      <3>3. QED
        BY <1>1, <1>6, <2>1, <2>6, <3>1, <3>2 DEF Waiting, d
    <2>16. HeldBehindDrop'
      BY <1>1, <1>2 DEF HeldBehindDrop, AllLive, NoneLive, Live
    <2>17. Dropping'
      <3>1. d <= d /\ ~(worker'.pc \in {"read", "write"}) /\ worker'.pc # "stopped"
        BY <1>3, <2>5
      <3>2. QED
        BY <1>1, <1>2, <1>6, <2>5, <2>6, <3>1 DEF Dropping, FlushWanted, d
    <2>18. ASSUME ~sink.failed PROVE Aligned'
      <3> DEFINE g == Len(sink.ring)
                 v == Len(device)
                 a == Len(aired)
                 o == Len(outer)
                 u == Len(worker.buf)
                 e == Dropped + o + u
      <3>1. /\ Dropped + consumed + g = Forwarded /\ consumed = a + v
            /\ Forwarded = worker.readTotal - u /\ worker.readTotal + o = d
        BY <1>2, <2>1, <2>18 DEF Aligned, Counted, Forwarded
      <3>2. g \in Nat /\ v \in Nat /\ a \in Nat /\ o \in Nat /\ u \in Nat
        BY <1>4
      <3> HIDE DEF g, v, a, o, u
      <3>3. /\ e + consumed + g = d /\ e <= d
            /\ e \in Int /\ e + a <= d
            /\ e + a \in Int /\ e + a + v <= d
            /\ e + consumed \in Int
        BY <1>3, <3>1, <3>2
      <3> HIDE DEF e
      <3>a. e + consumed + g <= d
        BY <1>3, <3>3
      <3> USE DEF g, v, a
      <3>4. /\ Placed(aired, e) /\ Placed(device, e + a) /\ Placed(sink.ring, e + consumed)
        <4>1. Placed(aired, e)
          BY <1>3, <2>1, <3>3, PlacedDead DEF d
        <4>2. Placed(device, e + a)
          BY <1>3, <2>1, <3>3, PlacedDead DEF d
        <4>3. /\ NoneSubmitted /\ sink.ring \in Seq(Sample) /\ e + consumed \in Int
              /\ e + consumed + Len(sink.ring) <= feedback.discardThrough /\ feedback.discardThrough \in Nat
          BY <1>3, <2>1, <3>3, <3>a DEF d
        <4>4. Placed(sink.ring, e + consumed)
          BY <4>3, PlacedDead
        <4>5. QED
          BY <4>1, <4>2, <4>4
      <3>5. Dropped' = e
        BY <2>6 DEF e, o, u
      <3>6. DOMAIN pending = {}
        BY <2>1
      <3>7. /\ Placed(aired, Dropped)' /\ Placed(device, Dropped + Len(aired))'
            /\ Placed(sink.ring, Dropped + consumed)'
        BY <1>1, <3>4, <3>5 DEF Placed, Right, Number, Live
      <3>8. /\ Placed(worker.buf, Forwarded)' /\ Placed(outer, worker.readTotal)'
            /\ Placed(pending, worker.readTotal + Len(outer))'
        BY <1>1, <2>9, <3>6 DEF Placed
      <3>9. (Dropped + consumed + Len(sink.ring))' = Forwarded' /\ Dropped' <= d
        BY <1>1, <2>6, <3>3, <3>5
      <3>10. QED
        BY <1>1, <3>7, <3>8, <3>9 DEF Aligned, d
    <2>19. QED
      BY <1>1, <1>12, <2>7, <2>8, <2>10, <2>11, <2>13, <2>14, <2>15, <2>16, <2>17, <2>18 DEF AudioInv
  <1>14. CASE ~drops
    <2>1. k = 0 /\ buf = worker.buf /\ gone = worker.discarded
      <3>1. k = 0 /\ buf = worker.buf /\ gone = worker.discarded + 0 + 0
        BY <1>14 DEF k, buf, gone
      <3>2. QED
        BY <1>3, <3>1
    <2>2. outer' = outer
      BY <1>1, <1>3, <2>1, RestNone
    <2>3. /\ worker' \in WorkerType /\ worker'.buf = worker.buf /\ worker'.readTotal = worker.readTotal
          /\ worker'.discarded = worker.discarded /\ worker'.applied = d
          /\ worker'.flushPending = flush /\ worker'.pc = pc
      <3>1. worker.readTotal + k = worker.readTotal
        BY <1>3, <2>1
      <3>2. worker' = [worker EXCEPT !.applied = d, !.flushPending = flush, !.discarded = worker.discarded,
                                     !.readTotal = worker.readTotal, !.buf = worker.buf, !.pc = pc]
        BY <1>1, <1>10, <2>1, <3>1
      <3>3. QED
        BY <1>3, <1>5, <1>11, <3>2 DEF WorkerType
    <2>4. worker'.pc \in {"flush", "read"}
      BY <1>11, <2>3
    <2>5. /\ Forwarded' = Forwarded /\ Reach' = Reach /\ Dropped' = Dropped
          /\ Belonging' /\ HeldBehindDrop' /\ Honest'
          /\ OnlyLiveLeft' <=> OnlyLiveLeft
          /\ NoneSubmitted' <=> NoneSubmitted
          /\ AllLive(sink.ring)' <=> AllLive(sink.ring)
          /\ ~sink'.failed => Aligned'
      <3>1. Reach' = Reach /\ Dropped' = Dropped
        BY <1>1, <2>3, <2>4 DEF Reach, Dropped
      <3>2. QED
        BY <1>1, <1>2, <2>2, <2>3, <3>1, BuffersKept
    <2>6. TypeOK'
      BY <1>1, <1>2, <2>2, <2>3 DEF TypeOK, WorkerType
    <2>7. Published'
      BY <1>1, <1>2, <2>4, PublishedKept DEF playback
    <2>8. d <= d
      BY <1>3
    <2>9. Counted' /\ Gone'
      BY <1>1, <1>2, <2>2, <2>3, <2>5, <2>8 DEF Counted, Gone, d
    <2>10. Forwarded >= d
      <3>1. CASE fresh
        BY <1>3, <1>14, <3>1
      <3>2. CASE ~fresh
        BY <1>3, <1>9, <3>2
      <3>3. QED
        BY <3>1, <3>2
    <2>11. Waiting'
      BY <1>1, <1>2, <2>3, <2>5, <2>10 DEF Waiting, d
    <2>12. flush => Forwarded <= d
      BY <1>2, <1>3, <1>11, <2>10 DEF Dropping, d
    <2>13. ~sink.failed => flush \/ AllLive(sink.ring)
      <3>1. CASE ~fresh
        BY <1>2, <1>3, <1>11, <3>1 DEF Dropping, d
      <3>2. CASE fresh /\ d >= Forwarded
        BY <1>11, <3>2
      <3>3. CASE ~(d >= Forwarded)
        <4>1. hold = 0
          <5>1. ASSUME hold > 0 PROVE FALSE
            BY <1>3, <1>4, <1>7, <1>8, <3>3, <5>1
          <5>2. QED
            BY <1>3, <5>1
        <4>2. QED
          BY <1>2, <1>11, <4>1 DEF Dropping
      <3>4. QED
        BY <3>1, <3>2, <3>3
    <2>14. Dropping'
      <3>1. /\ worker'.pc = "flush" => worker'.flushPending
            /\ worker'.pc \in {"read", "write"} => ~worker'.flushPending
        BY <1>11, <2>3
      <3>2. worker.flushPending => worker'.flushPending
        BY <1>11, <2>3
      <3>3. QED
        BY <1>1, <1>2, <1>6, <2>3, <2>5, <2>12, <2>13, <3>1, <3>2 DEF Dropping, FlushWanted, d
    <2>15. QED
      BY <1>12, <2>5, <2>6, <2>7, <2>9, <2>11, <2>14 DEF AudioInv
  <1>15. QED
    BY <1>13, <1>14

-----------------------------------------------------------------------------
(* The device.                                                              *)

\* The oldest copied sample has been heard.
LEMMA HearInv ==
    ASSUME AudioInv, Hear
    PROVE  AudioInv'
  <1> DEFINE h == Head(device)
             r == Tail(device)
             f == Append(aired, h)
             a == Len(aired)
             v == Len(device)
             g == Len(sink.ring)
  <1>1. /\ v > consumed - progress.deadline /\ aired' = f /\ device' = r
        /\ UNCHANGED <<pending, submitted, jobs, hold, gaveUp, outer, worker, feedback, sink, consumed, progress>>
    BY DEF Hear, source
  <1>2. /\ TypeOK /\ Ordered /\ Belonging /\ Counted /\ Published /\ Honest /\ Gone
        /\ Waiting /\ Dropping /\ HeldBehindDrop
        /\ ~sink.failed => Aligned
    BY Parts
  <1>3. /\ device \in Seq(Sample) /\ aired \in Seq(Sample) /\ consumed \in Nat /\ progress.deadline \in Nat
        /\ a \in Nat /\ v \in Nat /\ g \in Nat /\ Reach \in Nat /\ Forwarded \in Int /\ Dropped \in Int
        /\ v <= DeviceBuffer /\ DeviceBuffer \in Nat
    <2>1. /\ device \in Seq(Sample) /\ aired \in Seq(Sample) /\ consumed \in Nat /\ progress.deadline \in Nat
          /\ sink.ring \in Seq(Sample) /\ Reach \in Nat /\ Forwarded \in Int /\ Dropped \in Int
          /\ Len(device) <= DeviceBuffer /\ DeviceBuffer \in Nat
      BY <1>2, Numbers
    <2>2. QED
      BY <2>1
  <1>4. /\ consumed = a + v /\ progress.deadline <= consumed /\ Reach + v + g <= Forwarded
    BY <1>2 DEF Counted, Published, Honest
  <1>5. /\ worker.pc = "snapshot" => worker.snapTime <= a /\ worker.snapTime \in Nat
    <2>1. worker.snapTime \in Nat
      BY <1>2, Numbers
    <2>2. QED
      BY <1>2, <2>1 DEF Published
  <1>6. device # << >>
    <2>1. v > 0
      <3> HIDE DEF v, a
      <3>1. QED
        BY <1>1, <1>3, <1>4
    <2>2. QED
      BY <1>3, <2>1
  <1>7. /\ h \in Sample /\ h = device[1] /\ 1 \in DOMAIN device /\ r \in Seq(Sample) /\ Len(r) = v - 1
        /\ PartOf(r, device, 1)
    BY <1>3, <1>6 DEF PartOf
  <1>8. /\ f \in Seq(Sample) /\ Len(f) = a + 1
        /\ \A i \in DOMAIN f : (i \in DOMAIN aired /\ f[i] = aired[i]) \/ (i = a + 1 /\ f[i] = h)
    BY <1>3, <1>7
  <1>9. /\ Known(device) => Known(r)
        /\ Ahead(device) => Ahead(r)
        /\ AllLive(device) => AllLive(r)
        /\ \A b \in Int : Placed(device, b) => Placed(r, b + 1)
    BY <1>3, <1>7, PartKeeps
  <1> HIDE DEF h, r, f, a, v, g
  <1>10. a + 1 <= progress.deadline /\ v - 1 \in Nat /\ v - 1 <= DeviceBuffer
         /\ consumed = (a + 1) + (v - 1) /\ Reach + (v - 1) + g <= Forwarded
         /\ (worker.pc = "snapshot" => worker.snapTime <= a + 1)
    <2>1. v - 1 \in Nat
      BY <1>1, <1>3, <1>4
    <2>2. QED
      BY <1>1, <1>3, <1>4, <1>5, <2>1
  <1>11. TypeOK'
    <2>1. Len(r) <= DeviceBuffer
      BY <1>7, <1>10
    <2>2. QED
      BY <1>1, <1>2, <1>7, <1>8, <2>1 DEF TypeOK
  <1>12. Ordered' /\ Belonging'
    <2>1. Known(f)
      BY <1>2, <1>7, <1>8 DEF Belonging, Known
    <2>2. QED
      BY <1>1, <1>2, <1>9, <2>1, OrderedKept DEF Belonging, Known
  <1>13. Counted' /\ Published'
    <2>1. Len(aired') = a + 1 /\ Len(device') = v - 1
      BY <1>1, <1>7, <1>8
    <2>2. QED
      BY <1>1, <1>2, <1>10, <2>1 DEF Counted, Published
  <1>14. Forwarded' = Forwarded /\ Reach' = Reach /\ Dropped' = Dropped
    BY <1>1 DEF Forwarded, Reach, Dropped
  <1>15. Honest'
    <2>1. Ahead(r) /\ Ahead(sink.ring) /\ Ahead(worker.buf) /\ Ahead(outer) /\ Ahead(pending)
      BY <1>2, <1>9 DEF Honest
    <2>2. Ahead(device)' /\ Ahead(sink.ring)' /\ Ahead(worker.buf)' /\ Ahead(outer)' /\ Ahead(pending)'
      BY <1>1, <1>14, <2>1 DEF Ahead, Number, Live
    <2>3. Reach' + Len(device') + Len(sink'.ring) <= Forwarded'
      BY <1>1, <1>7, <1>10, <1>14 DEF g
    <2>4. QED
      BY <2>2, <2>3 DEF Honest
  <1>16. OnlyLiveLeft => OnlyLiveLeft'
    BY <1>1, <1>9 DEF OnlyLiveLeft, AllLive, Live
  <1>17. NoneSubmitted' <=> NoneSubmitted
    BY <1>1 DEF NoneSubmitted, Live
  <1>18. Gone' /\ Waiting'
    BY <1>1, <1>2, <1>14, <1>16, <1>17 DEF Gone, Waiting
  <1>19. Dropping' /\ HeldBehindDrop'
    BY <1>1, <1>2, <1>14 DEF Dropping, FlushWanted, HeldBehindDrop, AllLive, NoneLive, Live
  <1>20. ASSUME ~sink.failed PROVE Aligned'
    <2>1. Aligned /\ Dropped + a \in Int
      BY <1>2, <1>3, <1>20
    <2>2. Placed(device, Dropped + a) /\ Placed(aired, Dropped)
      BY <2>1 DEF Aligned, a
    <2>3. Placed(r, Dropped + a + 1)
      BY <1>9, <2>1, <2>2
    <2>4. Dropped + a + 1 = Dropped + (a + 1)
      BY <1>3
    <2>5. Placed(f, Dropped)
      <3>1. Right(device[1], Dropped + a + 1)
        BY <1>7, <2>2 DEF Placed
      <3>2. QED
        BY <1>7, <1>8, <2>2, <2>4, <3>1 DEF Placed
    <2>6. Placed(r, Dropped + Len(f))
      BY <1>8, <2>3, <2>4
    <2>7. QED
      BY <1>1, <1>14, <2>1, <2>5, <2>6 DEF Aligned, Placed, Right, Number, Live
  <1>21. QED
    BY <1>1, <1>11, <1>12, <1>13, <1>15, <1>18, <1>19, <1>20 DEF AudioInv

\* A callback whose samples are silenced: the stream has failed.
LEMMA CallbackBadTimestampInv ==
    ASSUME AudioInv, NEW k \in 1 .. DeviceBuffer, CallbackBadTimestamp(k)
    PROVE  AudioInv'
  <1> DEFINE r == Rest(sink.ring, k)
             g == Len(sink.ring)
             v == Len(device)
  <1>1. ~FlushWanted /\ ~sink.failed
    <2>1. ASSUME FlushWanted PROVE FALSE
      <3>1. Len(Flushed.ring) > 0
        BY DEF CallbackBadTimestamp
      <3>2. sink \in SinkType
        BY Parts DEF TypeOK, SinkType
      <3>3. Flushed.ring = << >>
        BY <2>1, <3>2 DEF Flushed, SinkType
      <3>4. QED
        BY <3>1, <3>3
    <2>2. QED
      BY <2>1 DEF CallbackBadTimestamp
  <1>2. /\ Len(sink.ring) > 0
        /\ sink' = [sink EXCEPT !.ring = r, !.failed = TRUE]
        /\ UNCHANGED <<pending, submitted, jobs, hold, gaveUp, outer, worker, feedback, device, consumed, progress, aired>>
    BY <1>1 DEF CallbackBadTimestamp, Flushed, source, playback
  <1>3. /\ TypeOK /\ Ordered /\ Belonging /\ Counted /\ Published /\ Honest /\ Gone
        /\ Waiting /\ Dropping /\ HeldBehindDrop
    BY Parts
  <1>4. /\ sink.ring \in Seq(Sample) /\ k \in Nat /\ g \in Nat /\ v \in Nat /\ Reach \in Nat /\ Forwarded \in Int
        /\ g <= SinkCapacity /\ SinkCapacity \in Nat
    <2>1. /\ sink.ring \in Seq(Sample) /\ device \in Seq(Sample) /\ Reach \in Nat /\ Forwarded \in Int
          /\ Len(sink.ring) <= SinkCapacity /\ SinkCapacity \in Nat /\ DeviceBuffer \in Nat
      BY <1>3, Numbers
    <2>2. QED
      BY <2>1
  <1>5. /\ r \in Seq(Sample) /\ Len(r) = g - Least(k, g) /\ PartOf(r, sink.ring, Least(k, g)) /\ Least(k, g) \in Nat
    <2>1. Least(k, g) \in Nat
      BY <1>4 DEF Least
    <2>2. QED
      BY <1>4, <2>1, RestPart
  <1>6. /\ Known(sink.ring) => Known(r)
        /\ Ahead(sink.ring) => Ahead(r)
        /\ AllLive(sink.ring) => AllLive(r)
        /\ NoneLive(sink.ring) => NoneLive(r)
    BY <1>4, <1>5, PartKeeps
  <1>7. Len(r) \in Nat /\ Len(r) <= g /\ Len(r) <= SinkCapacity
    <2>1. Least(k, g) \in Nat /\ Len(r) \in Nat
      BY <1>5
    <2> HIDE DEF g, r
    <2>2. QED
      BY <1>4, <1>5, <2>1
  <1> HIDE DEF r
  <1>8. sink \in SinkType
    BY <1>3 DEF TypeOK, SinkType
  <1>9. /\ sink' \in SinkType /\ sink'.ring = r /\ sink'.requested = sink.requested
        /\ sink'.served = sink.served /\ sink'.flushed = sink.flushed /\ sink'.request = sink.request
        /\ sink'.reported = sink.reported /\ sink'.failed = TRUE
    BY <1>2, <1>5, <1>8 DEF SinkType
  <1>10. TypeOK'
    BY <1>2, <1>3, <1>5, <1>7, <1>9 DEF TypeOK, SinkType
  <1>11. Ordered' /\ Published'
    BY <1>2, <1>3, OrderedKept, PublishedKept DEF playback
  <1>12. Belonging'
    BY <1>2, <1>3, <1>6, <1>9 DEF Belonging, Known
  <1>13. Counted'
    BY <1>2, <1>3, <1>9 DEF Counted
  <1>14. Forwarded' = Forwarded /\ Reach' = Reach
    BY <1>2 DEF Forwarded, Reach
  <1>15. Honest'
    <2>1. Ahead(r) /\ Ahead(device) /\ Ahead(worker.buf) /\ Ahead(outer) /\ Ahead(pending)
          /\ Reach + v + g <= Forwarded
      BY <1>3, <1>6 DEF Honest
    <2>2. Ahead(device)' /\ Ahead(sink.ring)' /\ Ahead(worker.buf)' /\ Ahead(outer)' /\ Ahead(pending)'
      BY <1>2, <1>9, <1>14, <2>1 DEF Ahead, Number, Live
    <2> HIDE DEF g
    <2>3. Reach + v + Len(r) <= Forwarded
      BY <1>4, <1>7, <2>1
    <2>4. QED
      BY <1>2, <1>9, <1>14, <2>2, <2>3 DEF Honest
  <1>16. OnlyLiveLeft => OnlyLiveLeft'
    BY <1>2, <1>6, <1>9 DEF OnlyLiveLeft, AllLive, Live
  <1>17. NoneSubmitted' <=> NoneSubmitted
    BY <1>2 DEF NoneSubmitted, Live
  <1>18. Gone' /\ Waiting'
    BY <1>2, <1>3, <1>14, <1>16, <1>17 DEF Gone, Waiting
  <1>19. HeldBehindDrop'
    BY <1>2, <1>3, <1>6, <1>9 DEF HeldBehindDrop, AllLive, NoneLive, Live
  <1>20. Dropping'
    <2>1. sink.ring # << >>
      BY <1>2
    <2>2. QED
      BY <1>2, <1>3, <1>9, <1>14, <2>1 DEF Dropping
  <1>21. QED
    BY <1>9, <1>10, <1>11, <1>12, <1>13, <1>15, <1>18, <1>19, <1>20 DEF AudioInv

\* Below the discard point it does not matter where a buffer stands.
LEMMA PlacedBelow ==
    ASSUME NEW s \in Seq(Sample), NEW b \in Int, NEW c \in Int, Placed(s, b),
           b + Len(s) <= feedback.discardThrough, c + Len(s) <= feedback.discardThrough,
           feedback.discardThrough \in Nat
    PROVE  NoneLive(s) /\ Placed(s, c)
  <1>1. ASSUME NEW i \in DOMAIN s
        PROVE  ~Live(s[i].job) /\ ~(c + i > feedback.discardThrough)
    <2>1. i \in 1 .. Len(s) /\ Len(s) \in Nat
      OBVIOUS
    <2>2. ~(b + i > feedback.discardThrough) /\ ~(c + i > feedback.discardThrough)
      BY <2>1
    <2>3. QED
      BY <2>2 DEF Placed, Right
  <1>2. QED
    BY <1>1 DEF NoneLive, Placed, Right

\* A callback serves a drop, or copies samples to the device.
LEMMA CallbackInv ==
    ASSUME AudioInv, NEW k \in 1 .. DeviceBuffer, Callback(k)
    PROVE  AudioInv'
  <1> DEFINE g == Len(sink.ring)
             v == Len(device)
             a == Len(aired)
             d == feedback.discardThrough
  <1>1. /\ ~progress.odd /\ v + k <= DeviceBuffer
        /\ UNCHANGED <<pending, submitted, jobs, hold, gaveUp, outer, worker, feedback, aired>>
    BY DEF Callback, source
  <1>2. /\ TypeOK /\ Ordered /\ Belonging /\ Counted /\ Published /\ Honest /\ Gone
        /\ Waiting /\ Dropping /\ HeldBehindDrop
        /\ ~sink.failed => Aligned
    BY Parts
  <1>3. sink \in SinkType
    BY <1>2 DEF TypeOK, SinkType
  <1>4. /\ sink.ring \in Seq(Sample) /\ device \in Seq(Sample) /\ aired \in Seq(Sample)
        /\ worker.buf \in Seq(Sample)
        /\ Len(sink.ring) <= SinkCapacity /\ SinkCapacity \in Nat /\ DeviceBuffer \in Nat
        /\ Forwarded \in Int /\ Dropped \in Int /\ Reach \in Nat /\ consumed \in Nat /\ d \in Nat
        /\ sink.flushed \in Nat /\ sink.reported \in Nat
        /\ sink.requested \in Nat /\ sink.served \in Nat /\ sink.request \in Nat
    BY <1>2, Numbers
  <1>5. g \in Nat /\ v \in Nat /\ a \in Nat /\ k \in Nat /\ k > 0 /\ g <= SinkCapacity
    BY <1>4
  <1>6. consumed = a + v /\ Reach + v + g <= Forwarded
    BY <1>2 DEF Counted, Honest
  <1>7. CASE FlushWanted
    <2>1. Flushed = [sink EXCEPT !.flushed = sink.flushed + g, !.ring = << >>, !.served = sink.requested]
      BY <1>7 DEF Flushed
    <2>2. Flushed.ring = << >> /\ Flushed \in SinkType
      <3>1. sink.flushed + g \in Nat /\ << >> \in Seq(Sample)
        BY <1>4, <1>5
      <3> HIDE DEF g
      <3>2. QED
        BY <1>3, <1>4, <2>1, <3>1 DEF SinkType
    <2>3. (IF sink.failed THEN 0 ELSE Least(k, Len(Flushed.ring))) = 0
      BY <1>5, <2>2 DEF Least
    <2>4. /\ sink' = [Flushed EXCEPT !.ring = Rest(Flushed.ring, 0)]
          /\ device' = device \o Front(Flushed.ring, 0)
          /\ consumed' = consumed + 0
          /\ progress' = progress
      BY <2>3 DEF Callback
    <2>5. Rest(Flushed.ring, 0) = << >> /\ Front(Flushed.ring, 0) = << >>
      <3>1. << >> \in Seq(Sample) /\ Len(<< >>) = 0
        OBVIOUS
      <3>2. Front(<< >>, 0) \in Seq(Sample) /\ Len(Front(<< >>, 0)) = 0
        BY <3>1, FrontPart DEF Least
      <3>3. Front(<< >>, 0) = << >>
        BY <3>2
      <3>4. QED
        BY <2>2, <3>1, <3>3, RestNone
    <2>6. device' = device /\ consumed' = consumed /\ progress' = progress
      BY <1>4, <2>4, <2>5
    <2>7. /\ sink' \in SinkType /\ sink'.ring = << >> /\ sink'.requested = sink.requested
          /\ sink'.served = sink.requested /\ sink'.flushed = sink.flushed + g
          /\ sink'.request = sink.request /\ sink'.reported = sink.reported
          /\ sink'.failed = sink.failed
      BY <1>3, <1>4, <1>5, <2>1, <2>2, <2>4, <2>5 DEF SinkType
    <2>8. Len(sink'.ring) = 0 /\ DOMAIN sink'.ring = {}
      BY <2>7
    <2>9. Forwarded' = Forwarded /\ Reach' = Reach /\ Dropped' = Dropped + g
      <3>1. worker.discarded \in Nat
        BY <1>2, Numbers
      <3> HIDE DEF g
      <3>2. worker.discarded + (sink.flushed + g) - sink.reported
              = (worker.discarded + sink.flushed - sink.reported) + g
        BY <1>4, <1>5, <3>1
      <3>3. QED
        BY <1>1, <2>7, <3>2 DEF Forwarded, Reach, Dropped
    <2>10. TypeOK'
      BY <1>1, <1>2, <1>4, <2>6, <2>7, <2>8 DEF TypeOK, SinkType
    <2>11. Ordered' /\ Published'
      BY <1>1, <1>2, <2>6, OrderedKept, PublishedKept DEF playback
    <2>12. Belonging'
      BY <1>1, <1>2, <2>6, <2>8 DEF Belonging, Known
    <2>13. Counted'
      <3>1. sink.reported <= sink.flushed + g
        <4> HIDE DEF g
        <4>1. sink.reported <= sink.flushed
          BY <1>2 DEF Counted
        <4>2. QED
          BY <1>4, <1>5, <4>1
      <3>2. QED
        BY <1>1, <1>2, <2>6, <2>7, <3>1 DEF Counted
    <2>14. Honest'
      <3>1. Reach + v + 0 <= Forwarded
        <4> HIDE DEF g, v
        <4>1. QED
          BY <1>4, <1>5, <1>6
      <3>2. Ahead(device)' /\ Ahead(sink.ring)' /\ Ahead(worker.buf)' /\ Ahead(outer)' /\ Ahead(pending)'
        BY <1>1, <1>2, <2>6, <2>8, <2>9 DEF Honest, Ahead, Number, Live
      <3>3. QED
        BY <1>1, <2>6, <2>8, <2>9, <3>1, <3>2 DEF Honest
    <2>15. OnlyLiveLeft => OnlyLiveLeft'
      BY <1>1, <2>6, <2>8 DEF OnlyLiveLeft, AllLive, Live
    <2>16. NoneSubmitted' <=> NoneSubmitted
      BY <1>1 DEF NoneSubmitted, Live
    <2>17. Gone' /\ Waiting'
      BY <1>1, <1>2, <2>9, <2>15, <2>16 DEF Gone, Waiting
    <2>18. AllLive(sink.ring)'
      BY <2>8 DEF AllLive
    <2>19. HeldBehindDrop'
      BY <2>18 DEF HeldBehindDrop
    <2>20. Dropping'
      BY <1>1, <1>2, <1>4, <2>7, <2>9, <2>18 DEF Dropping, FlushWanted
    <2>21. ASSUME ~sink.failed PROVE Aligned'
      <3>1. Aligned /\ Forwarded <= d
        BY <1>2, <1>7, <2>21 DEF Dropping
      <3>2. Dropped + consumed + g = Forwarded
        BY <3>1 DEF Aligned
      <3> DEFINE e == Dropped + g
      <3> HIDE DEF g, v, a, d
      <3>3. /\ e + consumed = Forwarded /\ e <= d /\ e \in Int /\ e + a \in Int
            /\ e + a <= d /\ e + a + v <= d
            /\ Dropped + a \in Int /\ Dropped + a <= d /\ Dropped + a + v <= d
            /\ e + consumed + 0 = Forwarded
        BY <1>4, <1>5, <1>6, <3>1, <3>2
      <3> HIDE DEF e
      <3> USE DEF a, v, d
      <3>4. Placed(aired, Dropped) /\ Placed(device, Dropped + a)
        BY <3>1 DEF Aligned
      <3>5. Placed(aired, e)
        BY <1>4, <3>3, <3>4, PlacedBelow
      <3>6. Placed(device, e + a)
        BY <1>4, <3>3, <3>4, PlacedBelow
      <3>7. Dropped' = e
        BY <2>9 DEF e
      <3>8. /\ Placed(aired, Dropped)' /\ Placed(device, Dropped + Len(aired))'
            /\ Placed(sink.ring, Dropped + consumed)'
        BY <1>1, <2>6, <2>8, <3>5, <3>6, <3>7 DEF Placed, Right, Number, Live
      <3>9. Placed(worker.buf, Forwarded)' /\ Placed(outer, worker.readTotal)'
            /\ Placed(pending, worker.readTotal + Len(outer))'
        BY <1>1, <2>9, <3>1 DEF Aligned, Placed, Right, Number, Live
      <3>10. QED
        BY <1>1, <2>6, <2>8, <2>9, <3>3, <3>7, <3>8, <3>9 DEF Aligned
    <2>22. QED
      BY <2>7, <2>10, <2>11, <2>12, <2>13, <2>14, <2>17, <2>19, <2>20, <2>21 DEF AudioInv
  <1>8. CASE ~FlushWanted
    <2> DEFINE n == IF sink.failed THEN 0 ELSE Least(k, Len(sink.ring))
               f == device \o Front(sink.ring, n)
               r == Rest(sink.ring, n)
    <2>1. /\ n > 0 /\ sink' = [sink EXCEPT !.ring = r] /\ device' = f /\ consumed' = consumed + n
          /\ progress' = IF n = 0 THEN progress ELSE [progress EXCEPT !.odd = TRUE, !.unchanged = FALSE]
      BY <1>8 DEF Callback, Flushed
    <2>2. ~sink.failed
      BY <2>1
    <2>3. /\ n \in Nat /\ n <= k /\ n <= g /\ Least(n, Len(sink.ring)) = n
      <3>1. n = Least(k, g)
        BY <2>2
      <3>2. n \in Nat /\ n <= k /\ n <= g
        BY <1>5, <3>1 DEF Least
      <3>3. QED
        BY <1>5, <3>2 DEF Least
    <2> HIDE DEF n
    <2>4. /\ f \in Seq(Sample) /\ r \in Seq(Sample)
          /\ Len(f) = v + n /\ Len(r) = g - n
          /\ Known(sink.ring) /\ Known(device) => Known(f) /\ Known(r)
          /\ Ahead(sink.ring) /\ Ahead(device) => Ahead(f) /\ Ahead(r)
          /\ AllLive(sink.ring) /\ AllLive(device) => AllLive(f)
          /\ AllLive(sink.ring) => AllLive(r)
          /\ NoneLive(sink.ring) => NoneLive(r)
          /\ \A b \in Int : Placed(device, b) /\ Placed(sink.ring, b + v) =>
                Placed(f, b) /\ Placed(r, b + v + n)
      <3> DEFINE m == Least(n, Len(sink.ring))
      <3>1. /\ f \in Seq(Sample) /\ r \in Seq(Sample)
            /\ Len(f) = Len(device) + m /\ Len(r) = Len(sink.ring) - m
            /\ Known(sink.ring) /\ Known(device) => Known(f) /\ Known(r)
            /\ Ahead(sink.ring) /\ Ahead(device) => Ahead(f) /\ Ahead(r)
            /\ AllLive(sink.ring) /\ AllLive(device) => AllLive(f)
            /\ AllLive(sink.ring) => AllLive(r)
            /\ NoneLive(sink.ring) => NoneLive(r)
            /\ \A b \in Int : Placed(device, b) /\ Placed(sink.ring, b + Len(device)) =>
                  Placed(f, b) /\ Placed(r, b + Len(device) + m)
        BY <1>4, <2>3, Moved
      <3>2. m = n
        BY <2>3
      <3> HIDE DEF f, r, m
      <3>3. QED
        BY <3>1, <3>2
    <2> HIDE DEF f, r
    <2>5. /\ sink' \in SinkType /\ sink'.ring = r /\ sink'.requested = sink.requested
          /\ sink'.served = sink.served /\ sink'.flushed = sink.flushed
          /\ sink'.request = sink.request /\ sink'.reported = sink.reported
          /\ sink'.failed = sink.failed
      BY <1>3, <2>1, <2>4 DEF SinkType
    <2>6. /\ progress'.odd = TRUE /\ progress'.unchanged = FALSE /\ progress'.consumed = progress.consumed
          /\ progress'.deadline = progress.deadline
          /\ progress' \in [consumed : Nat, deadline : Nat, odd : BOOLEAN, unchanged : BOOLEAN]
      <3>1. progress \in [consumed : Nat, deadline : Nat, odd : BOOLEAN, unchanged : BOOLEAN]
        BY <1>2 DEF TypeOK
      <3>2. progress' = [progress EXCEPT !.odd = TRUE, !.unchanged = FALSE]
        BY <2>1
      <3>3. QED
        BY <3>1, <3>2
    <2>7. Forwarded' = Forwarded /\ Reach' = Reach /\ Dropped' = Dropped
      BY <1>1, <2>5 DEF Forwarded, Reach, Dropped
    <2>8. /\ v + n <= DeviceBuffer /\ g - n <= SinkCapacity /\ consumed + n \in Nat
          /\ consumed + n = a + (v + n) /\ Reach + (v + n) + (g - n) <= Forwarded
      <3> HIDE DEF v, g, a
      <3>1. QED
        BY <1>1, <1>4, <1>5, <1>6, <2>3
    <2>9. TypeOK'
      BY <1>1, <1>2, <2>1, <2>4, <2>5, <2>6, <2>8 DEF TypeOK, SinkType
    <2>10. Ordered'
      BY <1>1, <1>2, OrderedKept
    <2>11. Belonging'
      BY <1>1, <1>2, <2>1, <2>4, <2>5 DEF Belonging, Known
    <2>12. Counted'
      BY <1>1, <1>2, <2>1, <2>4, <2>5, <2>8 DEF Counted
    <2>13. Published'
      <3>1. progress.deadline \in Nat /\ progress.deadline <= consumed /\ Len(aired) <= progress.deadline
        BY <1>2 DEF TypeOK, Published
      <3>2. progress.deadline <= consumed + n
        BY <1>4, <2>3, <3>1
      <3>3. QED
        BY <1>1, <1>2, <2>1, <2>6, <3>1, <3>2 DEF Published
    <2>14. Honest'
      <3>1. Ahead(f) /\ Ahead(r) /\ Ahead(worker.buf) /\ Ahead(outer) /\ Ahead(pending)
        BY <1>2, <2>4 DEF Honest
      <3>2. Ahead(device)' /\ Ahead(sink.ring)' /\ Ahead(worker.buf)' /\ Ahead(outer)' /\ Ahead(pending)'
        BY <1>1, <2>1, <2>5, <2>7, <3>1 DEF Ahead, Number, Live
      <3>3. QED
        BY <2>1, <2>4, <2>5, <2>7, <2>8, <3>2 DEF Honest
    <2>15. OnlyLiveLeft => OnlyLiveLeft'
      BY <1>1, <2>1, <2>4, <2>5 DEF OnlyLiveLeft, AllLive, Live
    <2>16. NoneSubmitted' <=> NoneSubmitted
      BY <1>1 DEF NoneSubmitted, Live
    <2>17. Gone' /\ Waiting'
      BY <1>1, <1>2, <2>7, <2>15, <2>16 DEF Gone, Waiting
    <2>18. AllLive(sink.ring) => AllLive(sink.ring)'
      BY <1>1, <2>4, <2>5 DEF AllLive, Live
    <2>19. HeldBehindDrop'
      BY <1>1, <1>2, <2>4, <2>5 DEF HeldBehindDrop, AllLive, NoneLive, Live
    <2>20. Dropping'
      <3>1. sink.ring # << >>
        <4>1. g > 0
          BY <1>5, <2>1, <2>3
        <4>2. QED
          BY <1>4, <4>1
      <3>2. sink.requested = sink.served
        BY <1>8 DEF FlushWanted
      <3>3. ~(sink.request > 0)
        BY <1>2, <1>4, <3>1, <3>2 DEF Dropping
      <3>4. QED
        BY <1>1, <1>2, <2>5, <2>7, <2>18, <3>2, <3>3 DEF Dropping, FlushWanted
    <2>21. Aligned'
      <3>1. Aligned
        BY <1>2, <2>2
      <3>2. Dropped + consumed + g = Forwarded /\ Placed(device, Dropped + a) /\ Placed(sink.ring, Dropped + consumed)
        BY <3>1 DEF Aligned
      <3>3. /\ Dropped + a \in Int /\ Dropped + a + v = Dropped + consumed
            /\ Dropped + a + v + n = Dropped + (consumed + n)
            /\ Dropped + (consumed + n) + (g - n) = Forwarded
        <4> HIDE DEF v, g, a
        <4>1. QED
          BY <1>4, <1>5, <1>6, <2>3, <3>2
      <3>4. Placed(f, Dropped + a) /\ Placed(r, Dropped + a + v + n)
        <4>1. Placed(sink.ring, Dropped + a + v)
          BY <3>2, <3>3
        <4>2. QED
          BY <2>4, <3>2, <3>3, <4>1
      <3>5. /\ Placed(aired, Dropped)' /\ Placed(device, Dropped + Len(aired))'
            /\ Placed(sink.ring, Dropped + consumed)'
        BY <1>1, <2>1, <2>5, <2>7, <3>1, <3>3, <3>4 DEF Aligned, Placed, Right, Number, Live
      <3>6. Placed(worker.buf, Forwarded)' /\ Placed(outer, worker.readTotal)'
            /\ Placed(pending, worker.readTotal + Len(outer))'
        BY <1>1, <2>7, <3>1 DEF Aligned, Placed, Right, Number, Live
      <3>7. QED
        BY <1>1, <2>1, <2>4, <2>5, <2>7, <3>1, <3>3, <3>5, <3>6 DEF Aligned
    <2>22. QED
      BY <2>9, <2>10, <2>11, <2>12, <2>13, <2>14, <2>17, <2>19, <2>20, <2>21 DEF AudioInv
  <1>9. QED
    BY <1>7, <1>8

-----------------------------------------------------------------------------
(* The event loop cancels and submits.                                      *)

\* A cancel: the wait for it begins, and nothing submitted is live.
LEMMA CancelInv ==
    ASSUME AudioInv, Cancel("wait")
    PROVE  AudioInv'
  <1> DEFINE q == Len(pending)
             c == submitted - q
             d == feedback.discardThrough
             g == Len(sink.ring)
             v == Len(device)
             a == Len(aired)
             o == Len(outer)
             u == Len(worker.buf)
  <1>1. /\ hold = 0 /\ pending' = << >> /\ submitted' = c /\ hold' = c
        /\ feedback' = [feedback EXCEPT !.discardThrough = Most(d, c), !.finish = << >>]
        /\ jobs' = [j \in DOMAIN jobs |-> [jobs[j] EXCEPT !.cancelled = TRUE]]
        /\ UNCHANGED <<outer, worker, sink, gaveUp, device, consumed, progress, aired>>
    BY DEF Cancel, DiscardThrough, DiscardPoint, playback
  <1>2. /\ TypeOK /\ Ordered /\ Belonging /\ Counted /\ Published /\ Honest /\ Gone
        /\ Waiting /\ Dropping /\ HeldBehindDrop
        /\ ~sink.failed => Aligned
    BY Parts
  <1>3. /\ outer \in Seq(Sample) /\ worker.buf \in Seq(Sample) /\ pending \in Seq(Sample)
        /\ sink.ring \in Seq(Sample) /\ device \in Seq(Sample) /\ aired \in Seq(Sample)
        /\ jobs \in Seq(Job) /\ Len(jobs) <= MaxJobs /\ worker.readTotal \in Nat
        /\ worker.applied \in Nat /\ submitted \in Nat /\ d \in Nat /\ consumed \in Nat
        /\ Forwarded \in Int /\ Dropped \in Int /\ Reach \in Nat
    BY <1>2, Numbers
  <1>4. g \in Nat /\ v \in Nat /\ a \in Nat /\ o \in Nat /\ u \in Nat /\ q \in Nat
    BY <1>3
  <1>5. /\ worker.readTotal + o + q = submitted /\ u <= worker.readTotal /\ consumed = a + v
        /\ worker.applied <= d /\ d + q <= submitted /\ Forwarded = worker.readTotal - u
        /\ Reach + v + g <= Forwarded
    BY <1>2 DEF Counted, Honest, Forwarded
  <1> HIDE DEF g, v, a, o, u, q
  <1>a. /\ worker.readTotal \in Nat /\ worker.applied \in Nat /\ submitted \in Nat /\ d \in Nat
        /\ consumed \in Nat /\ Forwarded \in Int /\ Dropped \in Int /\ Reach \in Nat
    BY <1>3
  <1> HIDE DEF d
  <1>6. /\ c = worker.readTotal + o /\ c \in Nat /\ d <= c /\ Most(d, c) = c
        /\ c + 0 = c /\ Forwarded <= c /\ Forwarded >= 0
    BY <1>4, <1>5, <1>a DEF Most
  <1>7. Reach >= c => o = 0 /\ u = 0 /\ v = 0 /\ g = 0
    BY <1>4, <1>5, <1>6, <1>a
  <1> HIDE DEF c
  <1>8. feedback \in FeedbackType
    BY <1>2 DEF TypeOK, FeedbackType
  <1>9. /\ feedback' \in FeedbackType /\ feedback'.discardThrough = c /\ feedback'.played = feedback.played
        /\ feedback'.failed = feedback.failed
    <2>1. << >> \in Seq(Nat)
      OBVIOUS
    <2>2. QED
      BY <1>1, <1>6, <1>8, <2>1 DEF FeedbackType, d
  <1>10. /\ jobs' \in Seq(Job) /\ DOMAIN jobs' = DOMAIN jobs /\ Len(jobs') = Len(jobs)
         /\ \A j \in DOMAIN jobs : jobs'[j].cancelled = TRUE /\ jobs'[j].size = jobs[j].size
    <2>1. \A j \in DOMAIN jobs : jobs[j] \in Job
      BY <1>3
    <2>2. \A j \in DOMAIN jobs : /\ [jobs[j] EXCEPT !.cancelled = TRUE] \in Job
                                /\ [jobs[j] EXCEPT !.cancelled = TRUE].cancelled = TRUE
                                /\ [jobs[j] EXCEPT !.cancelled = TRUE].size = jobs[j].size
      BY <2>1 DEF Job
    <2>3. DOMAIN jobs = 1 .. Len(jobs) /\ Len(jobs) \in Nat
      BY <1>3
    <2>4. /\ DOMAIN jobs' = 1 .. Len(jobs)
          /\ \A j \in 1 .. Len(jobs) : /\ jobs'[j] \in Job /\ jobs'[j].cancelled = TRUE
                                       /\ jobs'[j].size = jobs[j].size
      BY <1>1, <2>2, <2>3
    <2>5. jobs' = [j \in 1 .. Len(jobs) |-> jobs'[j]]
      BY <1>1, <2>3
    <2>6. jobs' \in Seq(Job) /\ Len(jobs') = Len(jobs)
      BY <2>3, <2>4, <2>5
    <2>7. QED
      BY <2>3, <2>4, <2>6
  <1>11. NoneSubmitted'
    BY <1>10 DEF NoneSubmitted, Live
  <1>12. \A x : ~Live(x)'
    BY <1>11 DEF NoneSubmitted, Live
  <1>13. DOMAIN pending' = {} /\ Len(pending') = 0 /\ pending' \in Seq(Sample)
    BY <1>1
  <1>14. Forwarded' = Forwarded /\ Reach' = Reach /\ Dropped' = Dropped
    BY <1>1, <1>9 DEF Forwarded, Reach, Dropped
  <1>15. TypeOK'
    BY <1>1, <1>2, <1>3, <1>6, <1>9, <1>10, <1>13 DEF TypeOK, FeedbackType
  <1>16. Ordered'
    BY <1>12 DEF Ordered
  <1>17. Belonging'
    BY <1>1, <1>2, <1>10, <1>13 DEF Belonging, Known
  <1>18. Counted'
    <2>1. worker.readTotal + o + 0 = c /\ worker.applied <= c /\ c + 0 <= c
      BY <1>4, <1>5, <1>6, <1>a
    <2>2. QED
      BY <1>1, <1>2, <1>9, <1>13, <2>1 DEF Counted, o
  <1>19. Published'
    BY <1>1, <1>2, PublishedKept DEF playback
  <1>20. Honest'
    <2>1. Ahead(device)' /\ Ahead(sink.ring)' /\ Ahead(worker.buf)' /\ Ahead(outer)' /\ Ahead(pending)'
      BY <1>12 DEF Ahead
    <2>2. QED
      BY <1>1, <1>5, <1>14, <2>1 DEF Honest, v, g
  <1>21. Reach >= c => OnlyLiveLeft'
    <2>1. Reach >= c => DOMAIN outer = {} /\ DOMAIN worker.buf = {} /\ DOMAIN device = {} /\ DOMAIN sink.ring = {}
      BY <1>3, <1>7 DEF o, u, v, g
    <2>2. QED
      BY <1>1, <1>13, <2>1 DEF OnlyLiveLeft, AllLive
  <1>22. Gone'
    BY <1>9, <1>14, <1>21 DEF Gone
  <1>23. hold' = 0 => Reach >= c /\ Forwarded >= c
    BY <1>1, <1>3, <1>6
  <1>24. worker.applied >= c => c = d
    BY <1>5, <1>6, <1>a
  <1>25. Waiting'
    <2>1. worker.applied >= c => Forwarded >= c \/ feedback.failed
      BY <1>1, <1>2, <1>24 DEF Waiting, d
    <2>2. QED
      BY <1>1, <1>9, <1>11, <1>14, <1>21, <1>23, <2>1 DEF Waiting
  <1>26. HeldBehindDrop'
    BY <1>12 DEF HeldBehindDrop, NoneLive
  <1>27. ASSUME ~sink.failed, worker.applied >= c, ~worker.flushPending
         PROVE  DOMAIN sink.ring = {}
    <2>1. AllLive(sink.ring) /\ Aligned
      BY <1>1, <1>2, <1>27 DEF Dropping
    <2>2. /\ Placed(sink.ring, Dropped + consumed) /\ Dropped + consumed + g = Forwarded
      BY <2>1 DEF Aligned, g
    <2>3. Dropped + consumed \in Int /\ Dropped + consumed + g <= d
      BY <1>3, <1>4, <1>6, <1>24, <1>27, <2>2
    <2>4. NoneLive(sink.ring)
      BY <1>3, <2>2, <2>3, PlacedBelow DEF d, g
    <2>5. QED
      BY <2>1, <2>4 DEF AllLive, NoneLive
  <1>28. Dropping'
    <2>1. worker.flushPending => Forwarded <= c
      BY <1>6
    <2>2. (hold' = 0 \/ worker.applied >= c) /\ ~sink.failed => worker.flushPending \/ AllLive(sink.ring)'
      <3>1. CASE hold' = 0
        BY <1>21, <1>23, <3>1 DEF OnlyLiveLeft
      <3>2. CASE worker.applied >= c
        BY <1>1, <1>27, <3>2 DEF AllLive
      <3>3. QED
        BY <3>1, <3>2
    <2>3. QED
      BY <1>1, <1>2, <1>9, <1>14, <2>1, <2>2 DEF Dropping, FlushWanted
  <1>29. ASSUME ~sink.failed PROVE Aligned'
    <2>1. Aligned
      BY <1>2, <1>29
    <2>2. \A s \in Seq(Sample), b \in Int : b + Len(s) <= c => \A i \in DOMAIN s : ~(b + i > c)
      <3>1. ASSUME NEW s \in Seq(Sample), NEW b \in Int, b + Len(s) <= c, NEW i \in DOMAIN s
            PROVE  ~(b + i > c)
        <4>1. i \in 1 .. Len(s) /\ Len(s) \in Nat
          OBVIOUS
        <4>2. QED
          BY <1>6, <3>1, <4>1
      <3>2. QED
        BY <3>1
    <2>3. Dropped + consumed + g = Forwarded /\ Dropped <= d
      BY <2>1 DEF Aligned, g, d
    <2>4. /\ Dropped + a <= c /\ Dropped + a \in Int /\ Dropped + a + v <= c
          /\ Dropped + consumed \in Int /\ Dropped + consumed + g <= c
          /\ Forwarded + u <= c /\ worker.readTotal + o <= c /\ worker.readTotal \in Int
          /\ Dropped <= c
      BY <1>4, <1>5, <1>6, <1>a, <2>3
    <2>5. /\ \A i \in DOMAIN aired : ~(Dropped + i > c)
          /\ \A i \in DOMAIN device : ~(Dropped + a + i > c)
          /\ \A i \in DOMAIN sink.ring : ~(Dropped + consumed + i > c)
          /\ \A i \in DOMAIN worker.buf : ~(Forwarded + i > c)
          /\ \A i \in DOMAIN outer : ~(worker.readTotal + i > c)
      BY <1>3, <2>2, <2>4 DEF a, v, g, u, o
    <2>6. /\ Placed(aired, Dropped)' /\ Placed(device, Dropped + Len(aired))'
          /\ Placed(sink.ring, Dropped + consumed)' /\ Placed(worker.buf, Forwarded)'
          /\ Placed(outer, worker.readTotal)' /\ Placed(pending, worker.readTotal + Len(outer))'
      BY <1>1, <1>9, <1>12, <1>13, <1>14, <2>5 DEF Placed, Right, a
    <2>7. QED
      BY <1>1, <1>9, <1>14, <2>3, <2>4, <2>6 DEF Aligned, g
  <1>30. QED
    BY <1>1, <1>15, <1>16, <1>17, <1>18, <1>19, <1>20, <1>22, <1>25, <1>26, <1>28, <1>29 DEF AudioInv

\* Where a sample of two neighbours joined is from.
LEMMA JoinElements ==
    ASSUME NEW s \in Seq(Sample), NEW t \in Seq(Sample)
    PROVE  /\ s \o t \in Seq(Sample) /\ Len(s \o t) = Len(s) + Len(t)
           /\ \A i \in DOMAIN (s \o t) :
                 \/ i \in DOMAIN s /\ (s \o t)[i] = s[i]
                 \/ i - Len(s) \in DOMAIN t /\ (s \o t)[i] = t[i - Len(s)]
  <1> DEFINE j == s \o t
  <1>1. j \in Seq(Sample) /\ Len(j) = Len(s) + Len(t)
    OBVIOUS
  <1>2. ASSUME NEW i \in DOMAIN j
        PROVE  \/ i \in DOMAIN s /\ j[i] = s[i]
               \/ i - Len(s) \in DOMAIN t /\ j[i] = t[i - Len(s)]
    OBVIOUS
  <1>3. QED
    BY <1>1, <1>2

\* A new transmission joins the end of the stream.
LEMMA SubmitInv ==
    ASSUME AudioInv, NEW size \in Sizes, Submit(size)
    PROVE  AudioInv'
  <1> DEFINE j == Len(jobs) + 1
             new == [size |-> size, target |-> submitted + size, cancelled |-> FALSE]
             s == Samples(j, size)
             q == pending \o s
             room == OuterCapacity - Len(outer)
             n == Least(room, Len(q))
             f == outer \o Front(q, room)
             r == Rest(q, room)
             T == outer \o q
             o == Len(outer)
             p == Len(pending)
             d == feedback.discardThrough
             read == worker.readTotal
             LiveN(k) == k \in DOMAIN jobs' /\ ~jobs'[k].cancelled
             NumberN(x) == jobs'[x.job].target - jobs'[x.job].size + x.n
             RightN(x, i) == IF i > d THEN LiveN(x.job) /\ NumberN(x) = i ELSE ~LiveN(x.job)
  <1>1. /\ hold = 0 /\ j <= MaxJobs /\ worker.pc # "stopped" /\ submitted' = submitted + size
        /\ feedback' = [feedback EXCEPT !.finish = Append(feedback.finish, submitted + size)]
        /\ jobs' = Append(jobs, new) /\ outer' = f /\ pending' = r
        /\ UNCHANGED <<worker, sink, hold, gaveUp, device, consumed, progress, aired>>
    BY DEF Submit, Flush, playback
  <1>2. /\ TypeOK /\ Ordered /\ Belonging /\ Counted /\ Published /\ Honest /\ Gone
        /\ Waiting /\ Dropping /\ HeldBehindDrop
        /\ ~sink.failed => Aligned
    BY Parts
  <1>3. /\ outer \in Seq(Sample) /\ worker.buf \in Seq(Sample) /\ pending \in Seq(Sample)
        /\ sink.ring \in Seq(Sample) /\ device \in Seq(Sample) /\ aired \in Seq(Sample)
        /\ jobs \in Seq(Job) /\ feedback.finish \in Seq(Nat) /\ Len(outer) <= OuterCapacity
    BY <1>2, Numbers
  <1>4. size \in Nat \ {0}
    BY TxAudioAssumption
  <1>5. /\ read \in Nat /\ submitted \in Nat /\ d \in Nat /\ OuterCapacity \in Nat /\ MaxJobs \in Nat
        /\ Forwarded \in Int /\ Reach \in Nat
    BY <1>2, Numbers
  <1>6. o \in Nat /\ p \in Nat /\ j \in Nat \ {0} /\ j \in 1 .. MaxJobs /\ Len(worker.buf) \in Nat
        /\ Len(sink.ring) \in Nat /\ Len(device) \in Nat /\ room \in Nat
    <2>1. Len(outer) \in Nat /\ Len(pending) \in Nat /\ Len(jobs) \in Nat /\ Len(worker.buf) \in Nat
          /\ Len(sink.ring) \in Nat /\ Len(device) \in Nat
      BY <1>3
    <2>2. j \in Nat \ {0} /\ j \in 1 .. MaxJobs
      BY <1>1, <1>5, <2>1
    <2>3. room \in Nat
      BY <1>3, <1>5, <2>1
    <2>4. QED
      BY <2>1, <2>2, <2>3
  <1>7. /\ read + o + p = submitted /\ d + p <= submitted /\ Reach <= submitted
    <2> DEFINE u == Len(worker.buf)
               g == Len(sink.ring)
               v == Len(device)
    <2>1. /\ read + o + p = submitted /\ d + p <= submitted /\ Forwarded = read - u /\ Reach + v + g <= Forwarded
      BY <1>2 DEF Counted, Honest, Forwarded
    <2> HIDE DEF u, g, v, d, o, p, read
    <2>2. u \in Nat /\ v \in Nat /\ g \in Nat
      BY <1>6 DEF u, g, v
    <2>3. QED
      BY <1>5, <1>6, <2>1, <2>2
  <1>8. /\ jobs' \in Seq(Job) /\ Len(jobs') = j /\ DOMAIN jobs' = DOMAIN jobs \cup {j} /\ j \notin DOMAIN jobs
        /\ jobs'[j] = new /\ \A k \in DOMAIN jobs : jobs'[k] = jobs[k]
    <2>1. new \in Job
      BY <1>4, <1>5 DEF Job
    <2>2. QED
      BY <1>1, <1>3, <2>1
  <1>9. /\ s \in Seq(Sample) /\ Len(s) = size /\ \A i \in DOMAIN s : s[i].job = j /\ s[i].n = i
    <2>1. \A m \in 1 .. size : [job |-> j, n |-> m] \in Sample
      BY <1>4, <1>6 DEF Sample
    <2>2. QED
      BY <1>4, <2>1 DEF Samples
  <1> HIDE DEF s
  <1>10. q \in Seq(Sample) /\ Len(q) = p + size
    BY <1>3, <1>9, JoinElements
  <1>11. /\ \A i \in DOMAIN q : \/ i \in DOMAIN pending /\ q[i] = pending[i]
                                \/ i - p \in DOMAIN s /\ q[i] = s[i - p]
    BY <1>3, <1>9, JoinElements
  <1> HIDE DEF q
  <1>12. T \in Seq(Sample) /\ Len(T) = o + Len(q)
    BY <1>3, <1>10, JoinElements
  <1>13. \A i \in DOMAIN T : \/ i \in DOMAIN outer /\ T[i] = outer[i]
                             \/ i - o \in DOMAIN q /\ T[i] = q[i - o]
    BY <1>3, <1>10, JoinElements
  <1>14. ASSUME NEW i \in DOMAIN T
         PROVE  \/ i \in DOMAIN outer /\ T[i] = outer[i]
                \/ i - o \in DOMAIN pending /\ T[i] = pending[i - o]
                \/ (i - o) - p \in DOMAIN s /\ T[i] = s[(i - o) - p]
    BY <1>11, <1>13
  <1>15. \A i \in DOMAIN T : i \in Nat
    BY <1>12
  <1>16. /\ n \in Nat /\ n <= room /\ n <= Len(q)
    BY <1>6, <1>10 DEF Least
  <1>17. /\ f \in Seq(Sample) /\ Len(f) = o + n
         /\ \A i \in DOMAIN f : i \in DOMAIN T /\ f[i] = T[i]
    <2> DEFINE h == Front(q, room)
    <2>1. h \in Seq(Sample) /\ Len(h) = n /\ PartOf(h, q, 0)
      BY <1>6, <1>10, FrontPart
    <2> HIDE DEF h
    <2>2. \A i \in DOMAIN h : i \in DOMAIN q /\ h[i] = q[i]
      BY <2>1 DEF PartOf
    <2>3. f \in Seq(Sample) /\ Len(f) = o + n
      <3> DEFINE x == outer \o h
      <3>1. x \in Seq(Sample) /\ Len(x) = o + Len(h)
        BY <1>3, <2>1, JoinElements
      <3> HIDE DEF x
      <3>2. x \in Seq(Sample) /\ Len(x) = o + n
        BY <2>1, <3>1
      <3>3. QED
        BY <3>2 DEF x, h
    <2>4. ASSUME NEW i \in DOMAIN f PROVE i \in DOMAIN T /\ f[i] = T[i]
      <3>1. i \in 1 .. (o + n)
        BY <2>3
      <3>2. CASE i <= o
        BY <1>3, <1>6, <1>10, <1>12, <2>1, <3>1, <3>2 DEF h
      <3>3. CASE i > o
        <4>1. i - o \in DOMAIN h /\ f[i] = h[i - o]
          BY <1>3, <1>6, <2>1, <3>1, <3>3 DEF h
        <4>2. i \in DOMAIN T /\ T[i] = q[i - o]
          BY <1>3, <1>6, <1>10, <1>12, <1>16, <3>1, <3>3
        <4>3. QED
          BY <2>2, <4>1, <4>2
      <3>4. QED
        BY <1>6, <3>1, <3>2, <3>3
    <2>5. QED
      BY <2>3, <2>4
  <1>18. /\ r \in Seq(Sample) /\ Len(r) = Len(q) - n
         /\ \A i \in DOMAIN r : i \in Nat /\ o + (n + i) \in DOMAIN T /\ r[i] = T[o + (n + i)]
    <2>1. r \in Seq(Sample) /\ Len(r) = Len(q) - n /\ PartOf(r, q, n)
      BY <1>6, <1>10, RestPart
    <2>2. \A i \in DOMAIN q : o + i \in DOMAIN T /\ T[o + i] = q[i]
      BY <1>3, <1>6, <1>10, <1>12
    <2>3. QED
      BY <2>1, <2>2 DEF PartOf
  <1> HIDE DEF n, f, r, T
  <1>19. /\ feedback' \in FeedbackType /\ feedback'.discardThrough = d /\ feedback'.played = feedback.played
         /\ feedback'.failed = feedback.failed
    <2>1. feedback \in FeedbackType
      BY <1>2 DEF TypeOK, FeedbackType
    <2>2. Append(feedback.finish, submitted + size) \in Seq(Nat)
      BY <1>3, <1>4, <1>5
    <2>3. QED
      BY <1>1, <2>1, <2>2 DEF FeedbackType
  <1>20. Forwarded' = Forwarded /\ Reach' = Reach /\ Dropped' = Dropped
    BY <1>1, <1>19 DEF Forwarded, Reach, Dropped
  <1>b. /\ \A k : Live(k)' <=> LiveN(k)
        /\ \A x : Number(x)' = NumberN(x)
        /\ \A x, i : Right(x, i)' <=> RightN(x, i)
    BY <1>19 DEF Live, Number, Right
  \* The samples already there are what they were.
  <1>21. ASSUME NEW x, x.job \in DOMAIN jobs
         PROVE  /\ x.job \in DOMAIN jobs' /\ jobs'[x.job].size = jobs[x.job].size
                /\ LiveN(x.job) <=> Live(x.job)
                /\ NumberN(x) = Number(x)
                /\ \A i : RightN(x, i) <=> Right(x, i)
    BY <1>8, <1>21 DEF Live, Number, Right
  \* The new ones follow.
  <1>22. ASSUME NEW i \in DOMAIN s
         PROVE  /\ i \in 1 .. size /\ LiveN(s[i].job) /\ s[i].job \in DOMAIN jobs' /\ s[i].n <= jobs'[s[i].job].size
                /\ NumberN(s[i]) = submitted + i /\ RightN(s[i], submitted + i)
    <2>1. i \in 1 .. size /\ s[i].job = j /\ s[i].n = i
      BY <1>4, <1>9
    <2>2. LiveN(j) /\ j \in DOMAIN jobs'
      BY <1>8
    <2>3. (submitted + size) - size + i = submitted + i
      BY <1>4, <1>5, <2>1
    <2>4. NumberN(s[i]) = submitted + i
      BY <1>8, <2>1, <2>3
    <2>5. i <= jobs'[j].size
      BY <1>4, <1>8, <2>1
    <2>6. QED
      BY <1>5, <1>6, <1>7, <2>1, <2>2, <2>4, <2>5
  <1> HIDE DEF LiveN, NumberN, RightN
  <1>23. ASSUME NEW i \in DOMAIN T
         PROVE  /\ T[i].job \in DOMAIN jobs' /\ T[i].n <= jobs'[T[i].job].size
                /\ LiveN(T[i].job) => NumberN(T[i]) > Reach
                /\ OnlyLiveLeft => LiveN(T[i].job)
                /\ Aligned => RightN(T[i], read + i)
    <2>1. CASE i \in DOMAIN outer /\ T[i] = outer[i]
      <3>1. /\ T[i].job \in DOMAIN jobs /\ T[i].n <= jobs[T[i].job].size /\ (Live(T[i].job) => Number(T[i]) > Reach)
            /\ (OnlyLiveLeft => Live(T[i].job)) /\ (Aligned => Right(T[i], read + i))
        BY <1>2, <2>1 DEF Belonging, Known, Honest, Ahead, OnlyLiveLeft, AllLive, Aligned, Placed
      <3>2. QED
        BY <1>21, <3>1
    <2>2. CASE i - o \in DOMAIN pending /\ T[i] = pending[i - o]
      <3>1. /\ T[i].job \in DOMAIN jobs /\ T[i].n <= jobs[T[i].job].size /\ (Live(T[i].job) => Number(T[i]) > Reach)
            /\ (OnlyLiveLeft => Live(T[i].job)) /\ (Aligned => Right(T[i], read + o + (i - o)))
        BY <1>2, <2>2 DEF Belonging, Known, Honest, Ahead, OnlyLiveLeft, AllLive, Aligned, Placed
      <3>2. read + o + (i - o) = read + i
        BY <1>5, <1>6, <1>15
      <3>3. QED
        BY <1>21, <3>1, <3>2
    <2>3. CASE (i - o) - p \in DOMAIN s /\ T[i] = s[(i - o) - p]
      <3> DEFINE m == (i - o) - p
      <3>1. /\ m \in 1 .. size /\ LiveN(T[i].job) /\ T[i].job \in DOMAIN jobs' /\ T[i].n <= jobs'[T[i].job].size
            /\ NumberN(T[i]) = submitted + m /\ RightN(T[i], submitted + m)
        BY <1>22, <2>3
      <3>2. submitted + m = read + i
        BY <1>5, <1>6, <1>7, <1>15
      <3>3. submitted + m > Reach
        BY <1>5, <1>6, <1>7, <1>15, <3>1
      <3>4. QED
        BY <3>1, <3>2, <3>3
    <2>4. QED
      BY <1>14, <2>1, <2>2, <2>3
  <1>24. read + (o + n) \in Int /\ \A i \in Nat : read + (o + (n + i)) = read + (o + n) + i
    BY <1>5, <1>6, <1>16
  <1>25. /\ \A i \in DOMAIN f : f[i].job \in DOMAIN jobs' /\ f[i].n <= jobs'[f[i].job].size
         /\ \A i \in DOMAIN r : r[i].job \in DOMAIN jobs' /\ r[i].n <= jobs'[r[i].job].size
    BY <1>17, <1>18, <1>23
  <1>26. /\ \A i \in DOMAIN f : LiveN(f[i].job) => NumberN(f[i]) > Reach
         /\ \A i \in DOMAIN r : LiveN(r[i].job) => NumberN(r[i]) > Reach
    BY <1>17, <1>18, <1>23
  <1>27. OnlyLiveLeft => /\ \A i \in DOMAIN f : LiveN(f[i].job)
                         /\ \A i \in DOMAIN r : LiveN(r[i].job)
    BY <1>17, <1>18, <1>23
  <1>28. Aligned => /\ \A i \in DOMAIN f : RightN(f[i], read + i)
                    /\ \A i \in DOMAIN r : RightN(r[i], read + (o + n) + i)
    <2>1. ASSUME Aligned, NEW i \in DOMAIN r PROVE RightN(r[i], read + (o + n) + i)
      <3> DEFINE m == o + (n + i)
      <3>1. i \in Nat /\ m \in DOMAIN T /\ r[i] = T[m] /\ read + m = read + (o + n) + i
        BY <1>18, <1>24
      <3> HIDE DEF m
      <3>2. RightN(T[m], read + m)
        BY <1>23, <2>1, <3>1
      <3> DEFINE z == read + (o + n) + i
      <3>3. RightN(r[i], z)
        <4> HIDE DEF z
        <4>1. QED
          BY <3>1, <3>2 DEF z
      <3>4. QED
        BY <3>3
    <2>2. ASSUME Aligned, NEW i \in DOMAIN f PROVE RightN(f[i], read + i)
      BY <1>17, <1>23, <2>2
    <2>3. QED
      BY <2>1, <2>2
  <1>29. /\ o + n <= OuterCapacity /\ read + (o + n) + (p + size - n) = submitted + size
         /\ d + (p + size - n) <= submitted + size
    <2>1. n \in Nat /\ n <= OuterCapacity - o
      BY <1>16
    <2> HIDE DEF o, p, d, read
    <2>2. QED
      BY <1>4, <1>5, <1>6, <1>7, <2>1
  <1>30. TypeOK'
    <2>1. submitted + size \in Nat
      BY <1>4, <1>5
    <2>2. QED
      BY <1>1, <1>2, <1>8, <1>17, <1>18, <1>19, <1>29, <2>1 DEF TypeOK, FeedbackType
  <1>31. Ordered'
    <2>1. ASSUME NEW k \in DOMAIN jobs, Live(k)
          PROVE  /\ d + jobs[k].size <= jobs[k].target /\ jobs[k].target <= submitted
                 /\ jobs[k].target <= submitted + size /\ jobs[k].target + size <= submitted + size
      <3>1. jobs[k].target \in Nat
        <4>1. jobs[k] \in Job
          BY <1>3
        <4>2. QED
          BY <4>1 DEF Job
      <3>2. d + jobs[k].size <= jobs[k].target /\ jobs[k].target <= submitted
        BY <1>2, <2>1 DEF Ordered
      <3>3. QED
        BY <1>4, <1>5, <3>1, <3>2
    <2>2. /\ d + size <= submitted + size /\ submitted + size <= submitted + size
      BY <1>4, <1>5, <1>6, <1>7
    <2>3. \A k \in DOMAIN jobs : (Live(k)' <=> Live(k)) /\ jobs'[k] = jobs[k] /\ ~(j < k)
      BY <1>3, <1>6, <1>8 DEF Live
    <2>4. jobs'[j].size = size /\ jobs'[j].target = submitted + size /\ ~(j < j)
      BY <1>6, <1>8
    <2>5. ASSUME NEW k \in DOMAIN jobs, Live(k)'
          PROVE  /\ d + jobs'[k].size <= jobs'[k].target /\ jobs'[k].target <= submitted'
                 /\ \A k2 \in DOMAIN jobs' : (k < k2 /\ Live(k2)') => jobs'[k].target + jobs'[k2].size <= jobs'[k2].target
      <3>1. \A k2 \in DOMAIN jobs : (k < k2 /\ Live(k2)) => jobs[k].target + jobs[k2].size <= jobs[k2].target
        BY <1>2, <2>3, <2>5 DEF Ordered
      <3>2. QED
        BY <1>1, <1>8, <2>1, <2>3, <2>4, <2>5, <3>1
    <2>6. /\ d + jobs'[j].size <= jobs'[j].target /\ jobs'[j].target <= submitted'
          /\ \A k2 \in DOMAIN jobs' : (j < k2 /\ Live(k2)') => jobs'[j].target + jobs'[k2].size <= jobs'[k2].target
      BY <1>1, <1>8, <2>2, <2>3, <2>4
    <2>7. QED
      BY <1>8, <1>19, <2>5, <2>6 DEF Ordered
  <1>32. Belonging'
    <2>1. Known(aired) /\ Known(device) /\ Known(sink.ring) /\ Known(worker.buf)
      BY <1>2 DEF Belonging
    <2>2. QED
      BY <1>1, <1>8, <1>25, <2>1 DEF Belonging, Known
  <1>33. Counted'
    <2>1. Len(outer') = o + n /\ Len(pending') = p + size - n
      <3>1. Len(f) = o + n /\ Len(r) = Len(q) - n /\ Len(q) = p + size
        BY <1>10, <1>17, <1>18
      <3>2. Len(outer') = o + n /\ Len(pending') = Len(q) - n
        BY <1>1, <3>1
      <3> HIDE DEF o, p
      <3>3. QED
        BY <1>4, <1>6, <1>16, <3>1, <3>2
    <2>2. QED
      BY <1>1, <1>2, <1>19, <1>29, <2>1 DEF Counted
  <1>34. Published'
    BY <1>1, <1>2, PublishedKept DEF playback
  \* The buffers past the outer ring.
  <1>35. ASSUME NEW t, Known(t)
         PROVE  /\ \A i \in DOMAIN t : Live(t[i].job)' <=> Live(t[i].job)
                /\ \A i \in DOMAIN t : Number(t[i])' = Number(t[i])
                /\ \A i \in DOMAIN t : \A b : Right(t[i], b)' <=> Right(t[i], b)
    BY <1>21, <1>35, <1>b DEF Known
  <1>36. Known(aired) /\ Known(device) /\ Known(sink.ring) /\ Known(worker.buf)
    BY <1>2 DEF Belonging
  <1>37. Honest'
    <2>1. /\ Ahead(device)' /\ Ahead(sink.ring)' /\ Ahead(worker.buf)'
      BY <1>1, <1>2, <1>20, <1>35, <1>36 DEF Honest, Ahead
    <2>2. Ahead(outer)' /\ Ahead(pending)'
      BY <1>1, <1>20, <1>26, <1>b DEF Ahead
    <2>3. (Reach + Len(device) + Len(sink.ring))' <= Forwarded'
      BY <1>1, <1>2, <1>20 DEF Honest
    <2>4. QED
      BY <2>1, <2>2, <2>3 DEF Honest
  <1>38. OnlyLiveLeft => OnlyLiveLeft'
    BY <1>1, <1>27, <1>35, <1>36, <1>b DEF OnlyLiveLeft, AllLive
  <1>39. Gone'
    BY <1>2, <1>19, <1>20, <1>38 DEF Gone
  <1>40. Waiting'
    <2>1. ~feedback.failed /\ hold' = 0 /\ ~(hold' > 0)
      BY <1>1, <1>2 DEF Dropping
    <2>2. gaveUp' = gaveUp /\ (~gaveUp => OnlyLiveLeft)
      BY <1>1, <1>2, <2>1 DEF Waiting
    <2>3. Forwarded >= d
      BY <1>1, <1>2, <2>1 DEF Waiting
    <2>4. QED
      BY <1>19, <1>20, <1>38, <2>1, <2>2, <2>3 DEF Waiting
  <1>41. AllLive(sink.ring) => AllLive(sink.ring)'
    BY <1>1, <1>35, <1>36 DEF AllLive
  <1>42. HeldBehindDrop'
    BY <1>1, <1>2, <1>35, <1>36 DEF HeldBehindDrop, AllLive, NoneLive
  <1>43. Dropping'
    BY <1>1, <1>2, <1>19, <1>20, <1>41 DEF Dropping, FlushWanted
  <1>44. ASSUME ~sink.failed PROVE Aligned'
    <2>1. Aligned
      BY <1>2, <1>44
    <2>2. /\ Placed(aired, Dropped)' /\ Placed(device, Dropped + Len(aired))'
          /\ Placed(sink.ring, Dropped + consumed)' /\ Placed(worker.buf, Forwarded)'
      BY <1>1, <1>20, <1>35, <1>36, <2>1 DEF Aligned, Placed
    <2>3. Placed(outer, worker.readTotal)' /\ Placed(pending, worker.readTotal + Len(outer))'
      BY <1>1, <1>17, <1>28, <1>b, <2>1 DEF Placed
    <2>4. QED
      BY <1>1, <1>19, <1>20, <2>1, <2>2, <2>3 DEF Aligned
  <1>45. QED
    BY <1>1, <1>30, <1>31, <1>32, <1>33, <1>34, <1>37, <1>39, <1>40, <1>42, <1>43, <1>44 DEF AudioInv

-----------------------------------------------------------------------------
(* The theorems.                                                            *)

\* Nothing has been submitted.
LEMMA InitInv == Init => AudioInv
  <1> SUFFICES ASSUME Init PROVE AudioInv
    OBVIOUS
  <1>1. /\ OuterCapacity \in Nat /\ SinkCapacity \in Nat /\ ChunkSize \in Nat /\ DeviceBuffer \in Nat
        /\ MaxJobs \in Nat
    BY TxAudioAssumption
  <1>2. /\ << >> \in Seq(Sample) /\ << >> \in Seq(Nat) /\ << >> \in Seq(Job) /\ Len(<< >>) = 0
        /\ DOMAIN << >> = {}
    OBVIOUS
  <1>3. /\ worker.readTotal = 0 /\ worker.discarded = 0 /\ worker.applied = 0 /\ worker.buf = << >>
        /\ worker.pc = "discard" /\ worker.flushPending = FALSE
        /\ feedback.played = 0 /\ feedback.discardThrough = 0 /\ feedback.failed = FALSE
        /\ sink.ring = << >> /\ sink.requested = 0 /\ sink.served = 0 /\ sink.flushed = 0
        /\ sink.request = 0 /\ sink.reported = 0 /\ sink.failed = FALSE
        /\ progress.consumed = 0 /\ progress.deadline = 0 /\ progress.odd = FALSE
        /\ progress.unchanged = FALSE
        /\ pending = << >> /\ outer = << >> /\ device = << >> /\ aired = << >> /\ jobs = << >>
        /\ submitted = 0 /\ consumed = 0 /\ hold = 0
    BY DEF Init
  <1>4. Forwarded = 0 /\ Dropped = 0 /\ Reach = 0
    <2>1. Len(worker.buf) = 0
      BY <1>2, <1>3
    <2>2. 0 - 0 = 0 /\ 0 + 0 - 0 = 0
      OBVIOUS
    <2>3. Forwarded = 0
      BY <1>3, <2>1, <2>2 DEF Forwarded
    <2>4. Dropped = 0
      BY <1>3, <2>2 DEF Dropped
    <2>5. Reach = 0
      BY <1>3 DEF Reach
    <2>6. QED
      BY <2>3, <2>4, <2>5
  <1>5. TypeOK
    <2>1. /\ worker = [pc |-> "discard", buf |-> << >>, readTotal |-> 0, discarded |-> 0,
                       applied |-> 0, flushPending |-> FALSE, snapConsumed |-> 0, snapTime |-> 0]
          /\ feedback = [played |-> 0, failed |-> FALSE, discardThrough |-> 0, finish |-> << >>]
          /\ sink = [ring |-> << >>, requested |-> 0, served |-> 0, flushed |-> 0,
                     request |-> 0, reported |-> 0, failed |-> FALSE]
          /\ progress = [consumed |-> 0, deadline |-> 0, odd |-> FALSE, unchanged |-> FALSE]
          /\ gaveUp = FALSE
      BY DEF Init
    <2>2. worker \in WorkerType
      BY <1>2, <2>1 DEF WorkerType, Steps
    <2>3. feedback \in FeedbackType /\ sink \in SinkType
      BY <1>2, <2>1 DEF FeedbackType, SinkType
    <2>4. progress \in [consumed : Nat, deadline : Nat, odd : BOOLEAN, unchanged : BOOLEAN]
      BY <2>1
    <2>5. /\ Len(outer) <= OuterCapacity /\ Len(worker.buf) <= ChunkSize /\ Len(sink.ring) <= SinkCapacity
          /\ Len(device) <= DeviceBuffer /\ Len(jobs) <= MaxJobs
      BY <1>1, <1>2, <1>3
    <2>6. /\ pending \in Seq(Sample) /\ outer \in Seq(Sample) /\ device \in Seq(Sample)
          /\ aired \in Seq(Sample) /\ jobs \in Seq(Job) /\ submitted \in Nat /\ consumed \in Nat
          /\ hold \in Nat /\ gaveUp \in BOOLEAN
      BY <1>2, <1>3, <2>1
    <2>7. QED
      BY <2>2, <2>3, <2>4, <2>5, <2>6 DEF TypeOK, WorkerType, FeedbackType, SinkType
  <1>6. Ordered /\ Belonging
    BY <1>2, <1>3 DEF Ordered, Belonging, Known
  <1>7. Counted /\ Published
    BY <1>2, <1>3 DEF Counted, Published
  <1>8. OnlyLiveLeft
    BY <1>2, <1>3 DEF OnlyLiveLeft, AllLive
  <1>9. Honest /\ Gone
    BY <1>2, <1>3, <1>4, <1>8 DEF Honest, Gone, Ahead
  <1>10. Waiting
    BY <1>3, <1>4, <1>8 DEF Waiting
  <1>11. Dropping /\ HeldBehindDrop
    BY <1>2, <1>3, <1>4 DEF Dropping, HeldBehindDrop, AllLive, FlushWanted
  <1>12. Aligned
    BY <1>2, <1>3, <1>4 DEF Aligned, Placed
  <1>13. QED
    BY <1>5, <1>6, <1>7, <1>9, <1>10, <1>11, <1>12 DEF AudioInv

\* Every step of the four threads keeps the invariant.
LEMMA NextInv ==
    ASSUME WaitsOnly, AudioInv, [Next]_vars
    PROVE  AudioInv'
  <1>1. CASE \E size \in Sizes : Submit(size)
    BY <1>1, SubmitInv
  <1>2. CASE Feed
    BY <1>2, FeedInv
  <1>3. CASE \E path \in CancelPaths : Cancel(path)
    BY <1>3, CancelInv DEF WaitsOnly
  <1>4. CASE WaitForDiscard
    BY <1>4, WaitForDiscardInv
  <1>5. CASE WorkerStep
    BY <1>5, WorkerDiscardInv, WorkerFlushInv, WorkerReadInv, WorkerWriteInv, WorkerPublishInv,
       WorkerSnapshotInv DEF WorkerStep
  <1>6. CASE \E k \in 1..DeviceBuffer : Callback(k) \/ CallbackBadTimestamp(k)
    BY <1>6, CallbackInv, CallbackBadTimestampInv
  <1>7. CASE CallbackPublish
    BY <1>7, CallbackPublishInv
  <1>8. CASE StreamError
    BY <1>8, StreamErrorInv
  <1>9. CASE Hear
    BY <1>9, HearInv
  <1>10. CASE UNCHANGED vars
    <2>1. /\ pending' = pending /\ submitted' = submitted /\ outer' = outer /\ worker' = worker
          /\ feedback' = feedback /\ sink' = sink /\ device' = device /\ consumed' = consumed
          /\ progress' = progress /\ jobs' = jobs /\ hold' = hold /\ gaveUp' = gaveUp /\ aired' = aired
      BY <1>10 DEF vars
    <2>2. /\ TypeOK /\ Ordered /\ Belonging /\ Counted /\ Published /\ Honest /\ Gone
          /\ Waiting /\ Dropping /\ HeldBehindDrop
          /\ ~sink.failed => Aligned
      BY Parts
    <2>3. /\ Forwarded' = Forwarded /\ Reach' = Reach /\ Dropped' = Dropped
          /\ Ordered' /\ Belonging' /\ HeldBehindDrop' /\ Honest'
          /\ OnlyLiveLeft' <=> OnlyLiveLeft
          /\ NoneSubmitted' <=> NoneSubmitted
          /\ AllLive(sink.ring)' <=> AllLive(sink.ring)
          /\ ~sink'.failed => Aligned'
      <3>1. Reach' = Reach /\ Dropped' = Dropped
        BY <2>1 DEF Reach, Dropped
      <3>2. QED
        BY <2>1, <2>2, <3>1, BuffersKept
    <2>4. TypeOK' /\ Counted' /\ Published'
      BY <2>1, <2>2 DEF TypeOK, Counted, Published
    <2>5. Gone' /\ Waiting' /\ Dropping'
      BY <2>1, <2>2, <2>3 DEF Gone, Waiting, Dropping, FlushWanted
    <2>6. QED
      BY <2>3, <2>4, <2>5 DEF AudioInv
  <1>11. QED
    BY <1>1, <1>2, <1>3, <1>4, <1>5, <1>6, <1>7, <1>8, <1>9, <1>10 DEF Next

\* The counters of the four threads stay aligned, when the event loop waits for
\* each cancel: every buffer holds the part of the stream its thread's counters
\* say, and `played` counts only what has gone.
THEOREM AudioInductive ==
    ASSUME WaitsOnly
    PROVE  Spec => []AudioInv
  <1>1. AudioInv /\ [Next]_vars => AudioInv'
    BY NextInv
  <1>2. QED
    BY <1>1, InitInv, PTL DEF Spec

\* The numbers of two transmissions do not overlap.
LEMMA NumbersApart ==
    ASSUME TypeOK, Ordered, NEW x \in Sample, NEW y \in Sample,
           x.job \in DOMAIN jobs, y.job \in DOMAIN jobs, Live(x.job), Live(y.job),
           x.n <= jobs[x.job].size, y.n <= jobs[y.job].size
    PROVE  /\ x.job < y.job => Number(x) < Number(y)
           /\ x.job = y.job => Number(x) - Number(y) = x.n - y.n
           /\ Number(x) \in Int /\ Number(y) \in Int
  <1>1. jobs[x.job] \in Job /\ jobs[y.job] \in Job /\ jobs \in Seq(Job)
    <2>1. jobs \in Seq(Job)
      BY DEF TypeOK
    <2>2. QED
      BY <2>1
  <1>2. /\ jobs[x.job].size \in Nat /\ jobs[y.job].size \in Nat
        /\ jobs[x.job].target \in Nat /\ jobs[y.job].target \in Nat
        /\ x.n \in Nat \ {0} /\ y.n \in Nat \ {0}
    BY <1>1, TxAudioAssumption DEF Job, Sample
  <1>3. ASSUME x.job < y.job PROVE Number(x) < Number(y)
    <2>1. jobs[x.job].target + jobs[y.job].size <= jobs[y.job].target
      BY <1>3 DEF Ordered
    <2>2. QED
      BY <1>2, <2>1 DEF Number
  <1>4. ASSUME x.job = y.job PROVE Number(x) - Number(y) = x.n - y.n
    BY <1>2, <1>4 DEF Number
  <1>5. QED
    BY <1>2, <1>3, <1>4 DEF Number

\* What is heard or still to be heard, as one sequence.
LEMMA GotPlaced ==
    ASSUME AudioInv
    PROVE  LET got == aired \o OnTheWay
           IN /\ got \in Seq(Sample) /\ OnTheWay \in Seq(Sample)
              /\ Known(got) /\ Known(OnTheWay) /\ Ahead(OnTheWay)
              /\ OnlyLiveLeft => AllLive(OnTheWay)
              /\ ~sink.failed => Placed(got, Dropped) /\ Dropped + Len(got) = submitted
  <1> DEFINE g == Len(sink.ring)
             v == Len(device)
             a == Len(aired)
             o == Len(outer)
             u == Len(worker.buf)
             p == Len(pending)
             s1 == device \o sink.ring
             s2 == s1 \o worker.buf
             s3 == s2 \o outer
             s4 == s3 \o pending
             s5 == aired \o s4
  <1>1. TypeOK /\ Belonging /\ Honest /\ Counted /\ (~sink.failed => Aligned)
    BY Parts
  <1>2. /\ pending \in Seq(Sample) /\ outer \in Seq(Sample) /\ worker.buf \in Seq(Sample)
        /\ sink.ring \in Seq(Sample) /\ device \in Seq(Sample) /\ aired \in Seq(Sample)
        /\ Dropped \in Int /\ Forwarded \in Int /\ worker.readTotal \in Nat /\ consumed \in Nat
        /\ submitted \in Nat
    BY <1>1, Numbers
  <1>3. g \in Nat /\ v \in Nat /\ a \in Nat /\ o \in Nat /\ u \in Nat /\ p \in Nat
    BY <1>2
  <1>4. s1 \in Seq(Sample) /\ Len(s1) = v + g
    BY <1>2, JoinKeeps
  <1>5. s2 \in Seq(Sample) /\ Len(s2) = Len(s1) + u
    BY <1>2, <1>4, JoinKeeps
  <1>6. s3 \in Seq(Sample) /\ Len(s3) = Len(s2) + o
    BY <1>2, <1>5, JoinKeeps
  <1>7. s4 \in Seq(Sample) /\ Len(s4) = Len(s3) + p
    BY <1>2, <1>6, JoinKeeps
  <1>8. s5 \in Seq(Sample) /\ Len(s5) = a + Len(s4)
    BY <1>2, <1>7, JoinKeeps
  <1>9. Known(aired) /\ Known(device) /\ Known(sink.ring) /\ Known(worker.buf) /\ Known(outer) /\ Known(pending)
    BY <1>1 DEF Belonging
  <1>10. Ahead(device) /\ Ahead(sink.ring) /\ Ahead(worker.buf) /\ Ahead(outer) /\ Ahead(pending)
    BY <1>1 DEF Honest
  <1>11. Known(s1) /\ Ahead(s1) /\ (OnlyLiveLeft => AllLive(s1))
    BY <1>2, <1>9, <1>10, JoinKeeps DEF OnlyLiveLeft
  <1>12. Known(s2) /\ Ahead(s2) /\ (OnlyLiveLeft => AllLive(s2))
    BY <1>2, <1>4, <1>9, <1>10, <1>11, JoinKeeps DEF OnlyLiveLeft
  <1>13. Known(s3) /\ Ahead(s3) /\ (OnlyLiveLeft => AllLive(s3))
    BY <1>2, <1>5, <1>9, <1>10, <1>12, JoinKeeps DEF OnlyLiveLeft
  <1>14. Known(s4) /\ Ahead(s4) /\ (OnlyLiveLeft => AllLive(s4))
    BY <1>2, <1>6, <1>9, <1>10, <1>13, JoinKeeps DEF OnlyLiveLeft
  <1>15. Known(s5)
    BY <1>2, <1>7, <1>9, <1>14, JoinKeeps
  <1>16. ASSUME ~sink.failed PROVE Placed(s5, Dropped) /\ Dropped + Len(s5) = submitted
    <2>1. Aligned
      BY <1>1, <1>16
    <2>2. /\ Placed(aired, Dropped) /\ Placed(device, Dropped + a) /\ Placed(sink.ring, Dropped + consumed)
          /\ Placed(worker.buf, Forwarded) /\ Placed(outer, worker.readTotal)
          /\ Placed(pending, worker.readTotal + o) /\ Dropped + consumed + g = Forwarded
          /\ consumed = a + v /\ Forwarded = worker.readTotal - u /\ worker.readTotal + o + p = submitted
      BY <1>1, <2>1 DEF Aligned, Counted, Forwarded
    <2> DEFINE b == Dropped + a
               c1 == Len(s1)
               c2 == Len(s2)
               c3 == Len(s3)
               c4 == Len(s4)
               c5 == Len(s5)
    <2>3. c1 = v + g /\ c2 = c1 + u /\ c3 = c2 + o /\ c4 = c3 + p /\ c5 = a + c4
      BY <1>4, <1>5, <1>6, <1>7, <1>8
    <2> HIDE DEF g, v, a, o, u, p, c1, c2, c3, c4, c5
    <2>4. /\ b \in Int /\ b + v = Dropped + consumed /\ b + c1 = Forwarded /\ b + c2 = worker.readTotal
          /\ b + c3 = worker.readTotal + o /\ Dropped + c5 = submitted
      <3>1. Dropped \in Int /\ Forwarded \in Int /\ worker.readTotal \in Nat /\ consumed \in Nat /\ submitted \in Nat
        BY <1>2
      <3>2. /\ Dropped + consumed + g = Forwarded /\ consumed = a + v
            /\ Forwarded = worker.readTotal - u /\ worker.readTotal + o + p = submitted
        BY <2>2
      <3>3. QED
        BY <1>3, <2>3, <3>1, <3>2
    <2> HIDE DEF b, s1, s2, s3, s4
    <2>5. Placed(device, b)
      BY <2>2 DEF b
    <2>6. Placed(s1, b)
      <3>1. Placed(sink.ring, b + Len(device))
        BY <2>2, <2>4 DEF v
      <3>2. QED
        BY <1>2, <2>4, <2>5, <3>1, JoinKeeps DEF s1
    <2>7. Placed(s2, b)
      <3>1. Placed(worker.buf, b + Len(s1))
        BY <2>2, <2>4 DEF c1
      <3>2. QED
        BY <1>2, <1>4, <2>4, <2>6, <3>1, JoinKeeps DEF s2
    <2>8. Placed(s3, b)
      <3>1. Placed(outer, b + Len(s2))
        BY <2>2, <2>4 DEF c2
      <3>2. QED
        BY <1>2, <1>5, <2>4, <2>7, <3>1, JoinKeeps DEF s3
    <2>9. Placed(s4, b)
      <3>1. Placed(pending, b + Len(s3))
        BY <2>2, <2>4 DEF c3
      <3>2. QED
        BY <1>2, <1>6, <2>4, <2>8, <3>1, JoinKeeps DEF s4
    <2>10. Placed(s5, Dropped)
      <3>1. Placed(s4, Dropped + Len(aired))
        BY <2>9 DEF b, a
      <3>2. QED
        BY <1>2, <1>7, <2>2, <3>1, JoinKeeps
    <2>11. QED
      BY <2>4, <2>10 DEF c5
  <1>17. OnTheWay = s4
    BY DEF OnTheWay
  <1>18. QED
    BY <1>7, <1>8, <1>14, <1>15, <1>16, <1>17

\* The live samples stand in the order of their numbers, and none is missing.
LEMMA NothingLost ==
    ASSUME AudioInv
    PROVE  Lossless
  <1> DEFINE got == aired \o OnTheWay
             d == feedback.discardThrough
  <1>1. TypeOK /\ Ordered /\ (~sink.failed => Aligned)
    BY Parts
  <1>2. SUFFICES ASSUME ~sink.failed
        PROVE  /\ \A i, k \in DOMAIN got :
                    (i < k /\ Live(got[i].job) /\ Live(got[k].job)) =>
                        \/ got[i].job < got[k].job
                        \/ got[i].job = got[k].job /\ got[i].n < got[k].n
               /\ \A j \in DOMAIN jobs : Live(j) =>
                    \A n \in 1..jobs[j].size : \E i \in DOMAIN got : got[i] = [job |-> j, n |-> n]
    BY DEF Lossless
  <1>3. got \in Seq(Sample) /\ Known(got) /\ Placed(got, Dropped) /\ Dropped + Len(got) = submitted
    BY <1>2, GotPlaced
  <1>4. Dropped \in Int /\ d \in Nat /\ submitted \in Nat /\ Dropped <= d /\ jobs \in Seq(Job)
    <2>1. Dropped \in Int /\ d \in Nat /\ submitted \in Nat /\ jobs \in Seq(Job)
      BY <1>1, Numbers
    <2>2. Dropped <= d
      BY <1>1, <1>2 DEF Aligned
    <2>3. QED
      BY <2>1, <2>2
  <1> HIDE DEF got
  <1>5. ASSUME NEW i \in DOMAIN got
        PROVE  /\ i \in Nat /\ got[i] \in Sample /\ got[i].job \in DOMAIN jobs
               /\ got[i].n <= jobs[got[i].job].size
               /\ Live(got[i].job) => Number(got[i]) = Dropped + i
               /\ Dropped + i > d => Live(got[i].job)
    BY <1>3 DEF Known, Placed, Right
  <1>6. \A x \in Sample : x.job \in Nat /\ x.n \in Nat \ {0}
    BY TxAudioAssumption DEF Sample
  <1>7. ASSUME NEW i \in DOMAIN got, NEW k \in DOMAIN got, i < k, Live(got[i].job), Live(got[k].job)
        PROVE  \/ got[i].job < got[k].job
               \/ got[i].job = got[k].job /\ got[i].n < got[k].n
    <2>1. /\ got[i] \in Sample /\ got[k] \in Sample /\ got[i].job \in DOMAIN jobs
          /\ got[k].job \in DOMAIN jobs /\ got[i].n <= jobs[got[i].job].size
          /\ got[k].n <= jobs[got[k].job].size
          /\ Number(got[i]) = Dropped + i /\ Number(got[k]) = Dropped + k /\ i \in Nat /\ k \in Nat
      BY <1>5, <1>7
    <2>2. Number(got[i]) < Number(got[k])
      BY <1>4, <1>7, <2>1
    <2>3. /\ got[i].job \in Nat /\ got[k].job \in Nat /\ got[i].n \in Nat /\ got[k].n \in Nat
      BY <1>6, <2>1
    <2>4. ~(got[k].job < got[i].job)
      <3>1. got[k].job < got[i].job => Number(got[k]) < Number(got[i])
        BY <1>1, <1>7, <2>1, NumbersApart
      <3>2. QED
        BY <1>4, <2>1, <2>2, <3>1
    <2>5. got[i].job = got[k].job => got[i].n < got[k].n
      <3>1. ASSUME got[i].job = got[k].job PROVE got[i].n < got[k].n
        <4>1. Number(got[i]) - Number(got[k]) = got[i].n - got[k].n
          BY <1>1, <1>7, <2>1, <3>1, NumbersApart
        <4>2. QED
          BY <1>4, <2>1, <2>2, <2>3, <4>1
      <3>2. QED
        BY <3>1
    <2>6. QED
      BY <2>3, <2>4, <2>5
  <1>8. ASSUME NEW j \in DOMAIN jobs, Live(j), NEW n \in 1 .. jobs[j].size
        PROVE  \E i \in DOMAIN got : got[i] = [job |-> j, n |-> n]
    <2> DEFINE x == [job |-> j, n |-> n]
               i == Number(x) - Dropped
    <2>1. jobs[j] \in Job /\ j \in 1 .. MaxJobs
      <3>1. j \in 1 .. Len(jobs) /\ Len(jobs) \in Nat /\ jobs[j] \in Job
        BY <1>4
      <3>2. Len(jobs) <= MaxJobs /\ MaxJobs \in Nat
        BY <1>1, Numbers
      <3>3. QED
        BY <3>1, <3>2
    <2>2. jobs[j].size \in Nat /\ jobs[j].target \in Nat
      BY <2>1, TxAudioAssumption DEF Job
    <2>3. x \in Sample /\ x.job = j /\ x.n = n /\ n \in Nat \ {0} /\ n <= jobs[j].size
      BY <2>1, <2>2 DEF Sample
    <2>4. d + jobs[j].size <= jobs[j].target /\ jobs[j].target <= submitted
      BY <1>1, <1>8 DEF Ordered
    <2>5. Number(x) = jobs[j].target - jobs[j].size + n
      BY <2>3 DEF Number
    <2> HIDE DEF x
    <2>6. Number(x) \in Int /\ Number(x) > d /\ Number(x) <= submitted
      BY <1>4, <2>2, <2>3, <2>4, <2>5
    <2>7. i \in 1 .. Len(got) /\ Dropped + i = Number(x)
      <3> DEFINE l == Len(got)
      <3>1. l \in Nat /\ Dropped + l = submitted
        BY <1>3
      <3> HIDE DEF l
      <3>2. i \in 1 .. l /\ Dropped + i = Number(x)
        BY <1>4, <2>6, <3>1
      <3>3. QED
        BY <3>2 DEF l
    <2> HIDE DEF i
    <2>8. i \in DOMAIN got
      BY <1>3, <2>7
    <2>9. /\ Live(got[i].job) /\ Number(got[i]) = Number(x) /\ got[i] \in Sample /\ got[i].job \in DOMAIN jobs
          /\ got[i].n <= jobs[got[i].job].size
      BY <1>5, <2>6, <2>7, <2>8
    <2>10. got[i].job \in Nat /\ got[i].n \in Nat /\ j \in Nat
      BY <1>6, <2>1, <2>9
    <2>11. /\ ~(got[i].job < x.job) /\ ~(x.job < got[i].job)
      <3>1. /\ got[i].job < x.job => Number(got[i]) < Number(x)
            /\ x.job < got[i].job => Number(x) < Number(got[i])
        BY <1>1, <1>8, <2>3, <2>9, NumbersApart
      <3>2. QED
        BY <2>6, <2>9, <3>1
    <2>12. got[i].job = x.job
      BY <2>3, <2>10, <2>11
    <2>13. got[i].n = x.n
      <3>1. Number(got[i]) - Number(x) = got[i].n - x.n
        BY <1>1, <1>8, <2>3, <2>9, <2>12, NumbersApart
      <3>2. QED
        BY <2>3, <2>6, <2>9, <2>10, <3>1
    <2>14. got[i] = x
      BY <2>3, <2>9, <2>12, <2>13 DEF Sample, x
    <2>15. QED
      BY <2>8, <2>14 DEF x
  <1>9. QED
    BY <1>7, <1>8

\* What the played counter has passed is not on its way.
LEMMA NothingAhead ==
    ASSUME AudioInv
    PROVE  PlayedIsHonest
  <1>1. TypeOK /\ Gone /\ Counted
    BY Parts
  <1>2. /\ OnTheWay \in Seq(Sample) /\ Known(OnTheWay) /\ Ahead(OnTheWay)
        /\ OnlyLiveLeft => AllLive(OnTheWay)
    BY GotPlaced
  <1>3. Reach \in Nat /\ feedback.played \in Nat /\ feedback.played <= Reach
    <2>1. Reach \in Nat /\ feedback.played \in Nat /\ worker.snapTime \in Nat /\ worker.discarded \in Nat
      BY <1>1, Numbers
    <2>2. QED
      BY <2>1 DEF Reach, Most
  <1>4. feedback.discardThrough \in Nat
    BY <1>1, Numbers
  <1>5. ASSUME NEW j \in DOMAIN jobs, Live(j), feedback.played >= jobs[j].target,
               NEW i \in 1 .. Len(OnTheWay), OnTheWay[i].job = j
        PROVE  FALSE
    <2> DEFINE x == OnTheWay[i]
    <2>1. x \in Sample /\ i \in DOMAIN OnTheWay
      BY <1>2
    <2>2. x.n <= jobs[x.job].size /\ Number(x) > Reach /\ x.job = j
      BY <1>2, <1>5, <2>1 DEF Known, Ahead
    <2>3. jobs[j] \in Job
      <3>1. jobs \in Seq(Job)
        BY <1>1 DEF TypeOK
      <3>2. QED
        BY <3>1
    <2>4. jobs[j].size \in Nat /\ jobs[j].target \in Nat /\ x.n \in Nat
      BY <2>1, <2>3, TxAudioAssumption DEF Job, Sample
    <2>5. Number(x) = jobs[j].target - jobs[j].size + x.n
      BY <2>2 DEF Number
    <2> HIDE DEF x
    <2>6. Number(x) <= jobs[j].target /\ Number(x) \in Int
      BY <2>2, <2>4, <2>5
    <2>7. QED
      BY <1>3, <1>5, <2>2, <2>4, <2>6
  <1>6. feedback.played >= feedback.discardThrough => AllLive(OnTheWay)
    BY <1>1, <1>2, <1>3, <1>4 DEF Gone
  <1>7. QED
    BY <1>5, <1>6 DEF PlayedIsHonest

\* Only a sample that was heard is added to what was heard.
LEMMA OnlyHearAirs ==
    ASSUME AudioInv, [Next]_vars, aired' # aired
    PROVE  Hear
  BY DEF Next, vars, Submit, Feed, Cancel, WaitForDiscard, WorkerStep, WorkerDiscard, WorkerFlush,
         WorkerRead, WorkerWrite, WorkerPublish, WorkerSnapshot, Callback, CallbackBadTimestamp,
         CallbackPublish, StreamError, playback

\* A cancelled sample is heard only while nothing that follows it is live.
LEMMA NoStaleStep ==
    ASSUME AudioInv, [Next]_vars, ~gaveUp, aired' # aired, ~Live(Head(device).job)
    PROVE  \A j \in Head(device).job..Len(jobs) : ~Live(j)
  <1>1. Hear
    BY OnlyHearAirs
  <1>2. TypeOK /\ Waiting /\ Counted /\ Published
    BY Parts
  <1>3. device \in Seq(Sample) /\ hold \in Nat /\ Len(device) > consumed - progress.deadline
        /\ consumed \in Nat /\ progress.deadline \in Nat
    BY <1>1, <1>2, Numbers DEF Hear
  <1>4. device # << >>
    <2> DEFINE v == Len(device)
    <2>1. v \in Nat /\ v > consumed - progress.deadline /\ progress.deadline <= consumed
      BY <1>2, <1>3 DEF Published
    <2>2. v > 0
      <3> HIDE DEF v
      <3>1. QED
        BY <1>3, <2>1
    <2>3. QED
      BY <2>2
  <1>5. ~OnlyLiveLeft
    <2>1. 1 \in DOMAIN device /\ Head(device) = device[1]
      BY <1>3, <1>4
    <2>2. QED
      BY <2>1 DEF OnlyLiveLeft, AllLive
  <1>6. NoneSubmitted
    <2>1. CASE hold > 0
      BY <1>2, <2>1 DEF Waiting
    <2>2. CASE hold = 0
      BY <1>2, <1>5, <2>2 DEF Waiting
    <2>3. QED
      BY <1>3, <2>1, <2>2
  <1>7. QED
    BY <1>6 DEF NoneSubmitted, Live

\* Lossless delivery: unless the stream has failed, every sample of a
\* transmission not cancelled has been heard or is on its way, in order.
THEOREM AudioIsLossless ==
    ASSUME WaitsOnly
    PROVE  Spec => []Lossless
  <1>1. AudioInv => Lossless
    BY NothingLost
  <1>2. QED
    BY <1>1, AudioInductive, PTL

\* PTT release and the end of wait_for_discard: once `played` has passed a
\* transmission or the discard point, no sample of it is on its way.
THEOREM PlayedCountIsHonest ==
    ASSUME WaitsOnly
    PROVE  Spec => []PlayedIsHonest
  <1>1. AudioInv => PlayedIsHonest
    BY NothingAhead
  <1>2. QED
    BY <1>1, AudioInductive, PTL

\* New audio is held back until the sink has dropped the old: its ring never
\* holds both.
THEOREM RingNeverMixed ==
    ASSUME WaitsOnly
    PROVE  Spec => []HeldBehindDrop
  <1>1. AudioInv => HeldBehindDrop
    BY Parts
  <1>2. QED
    BY <1>1, AudioInductive, PTL

\* A cancelled transmission is not heard once a later one is submitted, unless a
\* wait_for_discard has timed out.
THEOREM NoTailAfterNew ==
    ASSUME WaitsOnly
    PROVE  Spec => NoStaleTail
  <1>1. AudioInv /\ [Next]_vars =>
          [(~gaveUp /\ aired' # aired /\ ~Live(Head(device).job)) =>
             \A j \in Head(device).job..Len(jobs) : ~Live(j)]_vars
    BY NoStaleStep
  <1>2. QED
    BY <1>1, AudioInductive, PTL DEF Spec, NoStaleTail
=============================================================================
