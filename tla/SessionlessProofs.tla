-------------------------- MODULE SessionlessProofs --------------------------
(***************************************************************************)
(* Theorems about Sessionless for every window, ladder, band, number of    *)
(* payloads, pin and recommendation, and whatever the gate says.           *)
(*                                                                         *)
(* First what is a property of one station, which keeps it whatever it     *)
(* hears: the engine is where the operator or the rate loop wants it,      *)
(* nothing wideband is keyed unlawfully, BUFFER is what the modem holds,   *)
(* and no queue is left without anything that will resume it.              *)
(*                                                                         *)
(* Then the two stations together: in-order delivery, as long as no copy   *)
(* in the transmit queue is overtaken by the whole sequence space, and     *)
(* three cases in which that cannot happen.                                *)
(***************************************************************************)
EXTENDS Sessionless, ArqLemmas

-----------------------------------------------------------------------------
(* The inductive invariant. *)

AirFrame == {f \in Frame : f.lawful /\ (f.type = "Data" => f.data \in Data)}

\* The controller's ladder is the engine's; what is keyed is a lawful frame.
Sound(st) ==
    /\ st \in StationType
    /\ st.loop.top = Top(st) /\ st.level <= Top(st)
    /\ st.backlog <= st.submitted /\ st.submitted \in Data \cup {0}
    /\ st.air \in Seq(AirFrame)

\* BufferIsHonest, LevelInForce and NothingParked at one station.
Counted(st) == st.reported = BufferedTx(st)
InForce(st) == st.level = IF st.manual = 0 THEN st.loop.level ELSE Min({st.manual, Top(st)})
Due(st) == st.queue # << >> /\ ~Transmitting(st) => st.held

Settled(st) == Sound(st) /\ Counted(st) /\ InForce(st) /\ Due(st)

SessionlessInv ==
    /\ station \in [Stations -> StationType]
    /\ \A s \in Stations : Settled(station[s])
    /\ \A s \in Stations : station[s].submitted <= Payloads[s]
    /\ handed \in [Stations -> Seq(Data)]
    /\ resets \in 0 .. MaxResets

\* What the level and the transmitter leave alone.
Untouched(st, st2) ==
    /\ st2.tx = st.tx /\ st2.rx = st.rx /\ st2.backlog = st.backlog
    /\ st2.submitted = st.submitted /\ st2.manual = st.manual

\* And what the level leaves alone besides.
Retuned(st, st2) ==
    /\ Untouched(st, st2)
    /\ st2.queue = st.queue /\ st2.held = st.held /\ st2.air = st.air
    /\ st2.probe = st.probe /\ st2.reported = st.reported

-----------------------------------------------------------------------------
(* A station and its peer, without a Reset. *)

\* The segments the window has taken, and the first not seen acknowledged.
Sent(st) == st.submitted - st.backlog
Base(st) == SendBase(st.tx, Sent(st))

\* Queued PDUs of segments lo + 1 .. hi, and frames: copies of such segments,
\* and what rx acknowledges.
Entries(lo, hi) ==
    {e \in [seq : SeqNum, data : Data] :
        lo < e.data /\ e.data <= hi /\ e.seq = (e.data - 1) % SeqMod}
OnAir(lo, hi, rx) ==
    {f \in Frame :
        /\ f.type = "Data" => lo < f.data /\ f.data <= hi /\ f.num = (f.data - 1) % SeqMod
        /\ f.type = "Ack" => f.num = AckInfo(rx).ack_num /\ f.bitmap = AckInfo(rx).bitmap}

\* What is queued and what is keyed is drawn from two sets.
Stocks(st, Q, A) == st.queue \in Seq(Q) /\ st.air \in Seq(A)

\* A station whose peer has r as its receiver and was handed h payloads: the
\* windows are coupled, and no copy in the queue or on the air is of one of the
\* first lo segments.
InLine(st, r, h, lo) ==
    /\ Coupled(st.tx, r, Sent(st), h, Window)
    /\ lo <= Base(st)
    /\ Stocks(st, Entries(lo, Sent(st)), OnAir(lo, Sent(st), st.rx))

\* A change that keys f at most.
Keyed(st, st2, f) ==
    /\ st2.queue = st.queue
    /\ \A A : st.air \in Seq(A) /\ f \in A => st2.air \in Seq(A)

\* A change that queues nothing, and keys only what is queued.
StocksKept(st, st2) ==
    \A Q, A : Stocks(st, Q, A) /\ (\A e \in Q : DataFrame(e.seq, e.data) \in A) => Stocks(st2, Q, A)

\* A change that hears nothing: the station stays in line, nothing acknowledged.
LineKept(st, st2) ==
    /\ st2.rx = st.rx
    /\ \A r : \A h, lo \in Nat :
         InLine(st, r, h, lo) => InLine(st2, r, h, lo) /\ Base(st2) = Base(st)

\* An acknowledgement that the peer built when `at` payloads had been handed up.
TrueAck(st, r, h, num, bitmap) ==
    \E at \in Int :
        /\ num = at % SeqMod /\ at <= h /\ Base(st) - at < SeqMod - HalfSpace
        /\ bitmap \in SUBSET (0 .. SackRange - 1)
        /\ \A bit \in bitmap : ReceivedAt(r, h, at + (bit + 1))

\* A change that hears such an acknowledgement; when nothing is queued or keyed,
\* no copy of what it acknowledges is left.
LineAcked(st, st2, num, bitmap) ==
    \A r : \A h, lo \in Nat :
        InLine(st, r, h, lo) /\ TrueAck(st, r, h, num, bitmap) =>
            /\ InLine(st2, r, h, lo)
            /\ st.queue = << >> /\ st.air = << >> => InLine(st2, r, h, Base(st2))

-----------------------------------------------------------------------------
(* Constants and numbers. *)

\* Min and Max of two numbers.
LEMMA MinMax ==
    ASSUME NEW a \in Int, NEW b \in Int
    PROVE  /\ Min({a, b}) = IF a <= b THEN a ELSE b
           /\ Max({a, b}) = IF a <= b THEN b ELSE a
  <1>1. /\ \E x \in {a, b} : \A y \in {a, b} : x <= y
        /\ \E x \in {a, b} : \A y \in {a, b} : x >= y
    OBVIOUS
  <1>2. Min({a, b}) \in {a, b} /\ \A y \in {a, b} : Min({a, b}) <= y
    BY <1>1, Zenon DEF Min
  <1>3. Max({a, b}) \in {a, b} /\ \A y \in {a, b} : Max({a, b}) >= y
    BY <1>1, Zenon DEF Max
  <1>4. QED
    BY <1>2, <1>3

\* There are two stations, each the other of the other.
LEMMA TwoStations ==
    ASSUME NEW s \in Stations
    PROVE  Other(s) \in Stations /\ Other(s) # s /\ Stations = {s, Other(s)}
  <1>1. IsFiniteSet(Stations) /\ Cardinality(Stations) = 2
    BY SessionlessAssumption
  <1>2. IsFiniteSet(Stations \ {s}) /\ Cardinality(Stations \ {s}) = 1
    BY <1>1, FS_RemoveElement
  <1>3. PICK p : Stations \ {s} = {p}
    BY <1>2, FS_Singleton
  <1>4. p \in Stations /\ p # s /\ Stations = {s, p}
    BY <1>3
  <1>5. Other(s) \in Stations /\ Other(s) # s
    BY <1>4 DEF Other
  <1>6. QED
    BY <1>4, <1>5

\* The constants in the form the steps need.
LEMMA Constants ==
    /\ HfTop \in Nat /\ VhfTop \in Nat /\ 1 <= HfTop /\ HfTop <= VhfTop
    /\ CountMax >= 1 /\ Window \in 1 .. Ring /\ SeqMod \notin SeqNum
    /\ Data \subseteq Nat /\ 1 \in Data /\ 0 \notin Data /\ \A d \in Data : 1 .. d \subseteq Data
    /\ \A s \in Stations : Payloads[s] \in Data \cup {0} /\ 0 .. Payloads[s] \subseteq Data \cup {0}
  <1>1. /\ HfTop \in Nat /\ VhfTop \in Nat /\ 1 <= HfTop /\ HfTop <= VhfTop
        /\ CountMax >= 1 /\ Window \in 1 .. Ring /\ SeqMod \notin SeqNum
    BY SessionlessAssumption, ArqAssumption DEF ValidWindow, SeqNum
  <1> DEFINE P == {Payloads[s] : s \in Stations} \cup {1}
  <1>2. P \subseteq Nat /\ \A s \in Stations : Payloads[s] \in P
    BY SessionlessAssumption
  <1>3. Max(P) \in P /\ \A y \in P : y <= Max(P)
    <2>1. PICK s \in Stations : TRUE
      <3>1. Stations # {}
        BY SessionlessAssumption, FS_EmptySet
      <3>2. QED
        BY <3>1
    <2> DEFINE a == Payloads[s]
               b == Payloads[Other(s)]
    <2>2. P = {a, b, 1}
      BY TwoStations
    <2>3. a \in Nat /\ b \in Nat
      BY TwoStations, SessionlessAssumption
    <2> HIDE DEF a, b, P
    <2>4. \E x \in {a, b, 1} : \A y \in {a, b, 1} : x >= y
      BY <2>3
    <2>5. \E x \in P : \A y \in P : x >= y
      BY <2>2, <2>4, Zenon
    <2>6. Max(P) \in P /\ \A y \in P : Max(P) >= y
      BY <2>5, Zenon DEF Max
    <2>7. QED
      BY <2>6, <1>2
  <1>4. Data = 1 .. Max(P)
    BY DEF Data
  <1> HIDE DEF P
  <1>5. 1 \in P
    BY DEF P
  <1>6. Max(P) \in Nat /\ 1 <= Max(P)
    BY <1>2, <1>3, <1>5
  <1>7. \A s \in Stations : Payloads[s] \in Nat /\ Payloads[s] <= Max(P)
    BY <1>2, <1>3
  <1>8. QED
    BY <1>1, <1>4, <1>6, <1>7

-----------------------------------------------------------------------------
(* The rate controller stays on its ladder. *)

\* RateLoop::rank.
LEMMA RankIs ==
    ASSUME NEW top \in Nat \ {0}, NEW level \in Int
    PROVE  /\ Rank(top, level) \in 1 .. top
           /\ level \in 1 .. top => Rank(top, level) = level
           /\ level >= 1 => Rank(top, level) = Min({level, top})
  <1>1. Min({top, level}) = (IF top <= level THEN top ELSE level) /\ Min({top, level}) \in Int
    BY MinMax
  <1>2. Max({1, Min({top, level})}) = IF 1 <= Min({top, level}) THEN Min({top, level}) ELSE 1
    <2> DEFINE m == Min({top, level})
    <2>1. m \in Int /\ 1 \in Int
      BY <1>1
    <2> HIDE DEF m
    <2>2. Max({1, m}) = IF 1 <= m THEN m ELSE 1
      BY <2>1, MinMax
    <2>3. QED
      BY <2>2 DEF m
  <1>3. Min({level, top}) = IF level <= top THEN level ELSE top
    BY MinMax
  <1>4. QED
    BY <1>1, <1>2, <1>3 DEF Rank

\* A new controller starts at the level it is given, or at its top.
LEMMA NewLoop ==
    ASSUME NEW top \in Nat \ {0}, NEW level \in Nat
    PROVE  /\ RateLoopNew(top, level) \in RateLoopType(top)
           /\ RateLoopNew(top, level).level = Rank(top, level)
  <1>1. Rank(top, level) \in 1 .. top
    <2>1. level \in Int
      OBVIOUS
    <2>2. QED
      BY <2>1, RankIs
  <1>2. RaiseDwell \in Nat \ {0} /\ ProbeInterval \in Nat
    BY RateLoopAssumption
  <1>3. QED
    BY <1>1, <1>2 DEF RateLoopNew, RateLoopType

\* Every operation of the controller.
LEMMA LoopStays ==
    ASSUME NEW top \in Nat \ {0}, NEW loop \in RateLoopType(top), NEW level \in Nat
    PROVE  /\ CountFrame(loop) \in RateLoopType(top) /\ CountFrame(loop).level = loop.level
           /\ LevelForNext(loop) \in 1 .. top
           /\ OnProbeDelivered(loop, level) \in RateLoopType(top)
           /\ OnAck(loop, level) \in RateLoopType(top)
           /\ OnTimeout(loop) \in RateLoopType(top)
  <1>1. /\ loop.top = top /\ loop.level \in 1 .. top /\ loop.raise_run \in 0 .. RaiseDwell
        /\ loop.frames_since_probe \in 0 .. ProbeInterval
    BY DEF RateLoopType
  <1>2. RaiseDwell \in Nat \ {0} /\ ProbeInterval \in Nat /\ ProbeOffset \in Nat
    BY RateLoopAssumption
  <1>3. Rank(top, level) \in 1 .. top
    <2>1. level \in Int
      OBVIOUS
    <2>2. QED
      BY <2>1, RankIs
  <1> DEFINE Moved(l, n) == [loop EXCEPT !.level = l, !.raise_run = n]
  <1>11. ASSUME NEW l \in 1 .. top, NEW n \in 0 .. RaiseDwell PROVE Moved(l, n) \in RateLoopType(top)
    <2> DEFINE L == 1 .. top
               R == 0 .. RaiseDwell
               F == 0 .. ProbeInterval
    <2>1. loop \in [top : {top}, level : L, raise_run : R, frames_since_probe : F]
      BY DEF RateLoopType
    <2>2. RateLoopType(top) = [top : {top}, level : L, raise_run : R, frames_since_probe : F]
      BY DEF RateLoopType
    <2>3. l \in L /\ n \in R
      OBVIOUS
    <2> HIDE DEF L, R, F
    <2>4. Moved(l, n) \in [top : {top}, level : L, raise_run : R, frames_since_probe : F]
      BY <2>1, <2>3
    <2>5. QED
      BY <2>2, <2>4
  <1>12. 0 \in 0 .. RaiseDwell
    BY <1>2
  <1>5. CountFrame(loop) \in RateLoopType(top) /\ CountFrame(loop).level = loop.level
    BY <1>1, <1>2 DEF CountFrame, ProbeDue, RateLoopType
  <1>6. LevelForNext(loop) \in 1 .. top
    <2>1. Min({loop.level + ProbeOffset, loop.top})
            = IF loop.level + ProbeOffset <= loop.top THEN loop.level + ProbeOffset ELSE loop.top
      BY <1>1, <1>2, MinMax
    <2>2. QED
      BY <2>1, <1>1, <1>2 DEF LevelForNext
  <1>7. OnProbeDelivered(loop, level) \in RateLoopType(top)
    <2>1. OnProbeDelivered(loop, level) = Moved(Rank(top, level), 0)
      BY <1>1 DEF OnProbeDelivered
    <2> HIDE DEF Moved
    <2>2. QED
      BY <2>1, <1>3, <1>11, <1>12
  <1>8. OnAck(loop, level) \in RateLoopType(top)
    <2> DEFINE fb == Rank(loop.top, level)
               up == Min({loop.level + 1, loop.top})
    <2>1. up = IF loop.level + 1 <= loop.top THEN loop.level + 1 ELSE loop.top
      BY <1>1, MinMax
    <2>2. fb \in 1 .. top
      BY <1>1, <1>3
    <2>3. OnAck(loop, level) = CASE fb < loop.level -> [loop EXCEPT !.level = fb, !.raise_run = 0]
                                 [] fb = loop.level -> [loop EXCEPT !.raise_run = 0]
                                 [] OTHER -> IF loop.raise_run + 1 < RaiseDwell THEN [loop EXCEPT !.raise_run = @ + 1]
                                     ELSE [loop EXCEPT !.level = up, !.raise_run = 0]
      BY DEF OnAck
    <2>4. up \in 1 .. top
      BY <2>1, <1>1
    <2> HIDE DEF fb, up
    <2>5. /\ [loop EXCEPT !.raise_run = 0] = Moved(loop.level, 0)
          /\ [loop EXCEPT !.raise_run = @ + 1] = Moved(loop.level, loop.raise_run + 1)
      BY DEF RateLoopType
    <2>6. \/ OnAck(loop, level) \in {Moved(fb, 0), Moved(loop.level, 0), Moved(up, 0)}
          \/ /\ loop.raise_run + 1 < RaiseDwell
             /\ OnAck(loop, level) = Moved(loop.level, loop.raise_run + 1)
      BY <2>3, <2>5
    <2>7. loop.raise_run + 1 < RaiseDwell => loop.raise_run + 1 \in 0 .. RaiseDwell
      BY <1>1, <1>2
    <2> HIDE DEF Moved
    <2>8. QED
      BY <2>2, <2>4, <2>6, <2>7, <1>1, <1>11, <1>12
  <1>9. OnTimeout(loop) \in RateLoopType(top)
    <2> DEFINE l == loop.level - 1
    <2>1. l \in Int /\ 1 \in Int /\ l < loop.level
      BY <1>1
    <2>2. OnTimeout(loop) = Moved(Max({1, l}), 0)
      BY DEF OnTimeout
    <2> HIDE DEF l, Moved
    <2>3. Max({1, l}) = IF 1 <= l THEN l ELSE 1
      BY <2>1, MinMax
    <2>4. Max({1, l}) \in 1 .. top
      BY <2>1, <2>3, <1>1
    <2>5. QED
      BY <2>2, <2>4, <1>11, <1>12
  <1>10. QED
    BY <1>5, <1>6, <1>7, <1>8, <1>9

-----------------------------------------------------------------------------
(* Stations. *)

\* StationType with a name for the type of each field.
TxSet == TxType(Data)
RxSet == RxType(Data)
QueueSet == Seq([seq : SeqNum, data : Data])
ProbeSet == [seq : SeqNum, level : 1 .. VhfTop] \cup {NoProbe}
LoopSet == RateLoopType(HfTop) \cup RateLoopType(VhfTop)
LevelSet == 1 .. VhfTop
BandSet == {"hf", "vhf", "level"}
PinSet == 0 .. VhfTop
AirSet == Seq(Frame)
Shape == [tx : TxSet, rx : RxSet, backlog : Nat, queue : QueueSet, held : BOOLEAN, probe : ProbeSet,
          loop : LoopSet, level : LevelSet, band : BandSet, manual : PinSet, reported : Nat,
          air : AirSet, submitted : Nat]

\* It is the same set.
LEMMA ShapeIs == StationType = Shape
  BY DEF StationType, Shape, TxSet, RxSet, QueueSet, ProbeSet, LoopSet, LevelSet, BandSet, PinSet, AirSet

\* A controller on one of the two ladders is on the one it names.
LEMMA LoopSets ==
    ASSUME NEW loop
    PROVE  /\ loop \in LoopSet => /\ loop \in RateLoopType(loop.top) /\ loop.top \in {HfTop, VhfTop}
                                  /\ loop.level \in 1 .. loop.top /\ loop.level \in LevelSet
           /\ \A top \in {HfTop, VhfTop} : loop \in RateLoopType(top) => loop \in LoopSet /\ loop.top = top
  <1>1. /\ \A top : loop \in RateLoopType(top) => loop.top = top /\ loop.level \in 1 .. top
        /\ HfTop \in Nat /\ VhfTop \in Nat /\ HfTop <= VhfTop
    BY Constants DEF RateLoopType
  <1>2. QED
    BY <1>1 DEF LoopSet, LevelSet

\* The top of a station's ladder.
LEMMA TopIs ==
    ASSUME NEW st
    PROVE  Top(st) \in {HfTop, VhfTop} /\ Top(st) \in Nat \ {0} /\ 1 .. Top(st) \subseteq LevelSet
  BY Constants DEF Top, LevelSet

\* The parts of a sound station that the level depends on.
LEMMA SoundLevel ==
    ASSUME NEW st, Sound(st)
    PROVE  /\ st \in Shape
           /\ st.loop \in RateLoopType(Top(st)) /\ st.loop.level \in 1 .. Top(st)
           /\ st.level \in 1 .. Top(st) /\ st.level \in Nat /\ st.loop.level \in Nat
           /\ st.manual \in Nat
  <1>1. st \in Shape /\ st.loop.top = Top(st) /\ st.level <= Top(st)
    BY ShapeIs DEF Sound
  <1>2. st.loop \in LoopSet /\ st.level \in LevelSet /\ st.manual \in PinSet
    BY <1>1 DEF Shape
  <1>3. st.loop \in RateLoopType(Top(st)) /\ st.loop.level \in 1 .. Top(st)
    BY <1>1, <1>2, LoopSets
  <1>4. st.level \in Nat /\ st.manual \in Nat /\ 1 <= st.level /\ Top(st) \in Nat
    BY <1>2, TopIs, Constants DEF LevelSet, PinSet
  <1>5. QED
    BY <1>1, <1>3, <1>4

-----------------------------------------------------------------------------
(* The level in force. *)

\* A rebind to HF takes the level and the controller down together.
LEMMA KeepLegal ==
    ASSUME NEW st, Sound(st), NEW level, NEW permitted
    PROVE  LET k == KeepHfLegal(st, level, permitted)
           IN /\ Sound(k) /\ Retuned(st, k)
              /\ InForce(st) => InForce(k)
              /\ k.loop.level = Min({st.loop.level, Top(k)})
  <1> DEFINE r == [st EXCEPT !.band = "hf", !.level = Min({@, HfTop}),
                             !.loop = RateLoopNew(HfTop, @.level)]
  <1>1. /\ st \in Shape /\ st.loop \in RateLoopType(Top(st)) /\ st.loop.level \in 1 .. Top(st)
        /\ st.level \in 1 .. Top(st) /\ st.level \in Nat /\ st.loop.level \in Nat /\ st.manual \in Nat
        /\ Top(st) \in Nat
    BY SoundLevel, TopIs
  <1>2. HfTop \in Nat \ {0} /\ VhfTop \in Nat /\ HfTop <= VhfTop /\ HfTop \in Int
    BY Constants
  <1>3. CASE KeepHfLegal(st, level, permitted) = st
    <2>1. Min({st.loop.level, Top(st)}) = st.loop.level
      BY <1>1, MinMax
    <2>2. QED
      BY <1>3, <2>1 DEF Retuned, Untouched
  <1>4. CASE KeepHfLegal(st, level, permitted) = r /\ st.band = "level"
    <2> DEFINE new == RateLoopNew(HfTop, st.loop.level)
               low == Min({st.level, HfTop})
    <2>1. r = [st EXCEPT !.band = "hf", !.level = low, !.loop = new]
      OBVIOUS
    <2>2. Top(st) = VhfTop
      BY <1>4 DEF Top
    <2>3. new \in RateLoopType(HfTop) /\ new.level = Rank(HfTop, st.loop.level)
      BY <1>1, <1>2, NewLoop
    <2>4. new.level = Min({st.loop.level, HfTop})
      BY <1>1, <1>2, <2>3, RankIs
    <2>5. low = (IF st.level <= HfTop THEN st.level ELSE HfTop)
      BY <1>1, <1>2, MinMax
    <2>6. new \in LoopSet /\ new.top = HfTop
      BY <2>3, LoopSets
    <2>7. low \in LevelSet /\ low <= HfTop
      BY <1>1, <1>2, <2>5 DEF LevelSet
    <2> HIDE DEF new, low, r
    <2>8. /\ r \in Shape /\ r.band = "hf" /\ r.level = low /\ r.loop = new /\ Retuned(st, r)
          /\ r.air = st.air /\ r.backlog = st.backlog /\ r.submitted = st.submitted /\ r.manual = st.manual
      BY <1>1, <2>1, <2>6, <2>7 DEF Shape, BandSet, Retuned, Untouched
    <2>9. Top(r) = HfTop
      BY <2>8 DEF Top
    <2>10. Sound(r)
      BY <2>6, <2>7, <2>8, <2>9, ShapeIs DEF Sound
    <2>11. ASSUME InForce(st) PROVE InForce(r)
      <3>1. CASE st.manual = 0
        <4>1. st.level = st.loop.level
          BY <3>1, <2>11 DEF InForce
        <4>2. QED
          BY <3>1, <4>1, <2>4, <2>8 DEF InForce, low
      <3>2. CASE st.manual # 0
        <4>1. st.level = Min({st.manual, VhfTop})
          BY <3>2, <2>2, <2>11 DEF InForce
        <4>2. /\ Min({st.manual, VhfTop}) = IF st.manual <= VhfTop THEN st.manual ELSE VhfTop
              /\ Min({st.manual, HfTop}) = IF st.manual <= HfTop THEN st.manual ELSE HfTop
          BY <1>1, <1>2, MinMax
        <4>3. r.level = Min({r.manual, HfTop})
          <5> DEFINE mv == Min({st.manual, VhfTop})
                     mh == Min({st.manual, HfTop})
          <5>1. /\ st.level = mv /\ mv = (IF st.manual <= VhfTop THEN st.manual ELSE VhfTop)
                /\ mh = (IF st.manual <= HfTop THEN st.manual ELSE HfTop)
            BY <4>1, <4>2
          <5> HIDE DEF mv, mh
          <5>2. low = mh
            BY <5>1, <2>5, <1>1, <1>2
          <5>3. QED
            BY <5>2, <2>8 DEF mh
        <4>4. QED
          BY <3>2, <4>3, <2>8, <2>9 DEF InForce
      <3>3. QED
        BY <3>1, <3>2
    <2>12. QED
      BY <1>4, <2>4, <2>8, <2>9, <2>10, <2>11
  <1>5. QED
    BY <1>3, <1>4 DEF KeepHfLegal

\* apply_speed_level: the level asked for, as far as the band allows.
LEMMA SpeedLevel ==
    ASSUME NEW st, Sound(st), NEW level \in LevelSet, NEW env
    PROVE  LET a == ApplySpeedLevel(st, level, env)
           IN /\ Sound(a) /\ Retuned(st, a)
              /\ a.level = Min({level, Top(a)})
              /\ a.loop.level = Min({st.loop.level, Top(a)})
  <1> DEFINE k == KeepHfLegal(st, level, Permitted(env))
             low == Min({level, Top(k)})
             a == [k EXCEPT !.level = low]
  <1>1. Sound(k) /\ Retuned(st, k) /\ k.loop.level = Min({st.loop.level, Top(k)})
    BY KeepLegal
  <1>2. ApplySpeedLevel(st, level, env) = a
    BY DEF ApplySpeedLevel
  <1> HIDE DEF k
  <1>3. k \in Shape /\ Top(k) \in Nat \ {0} /\ level \in Nat \ {0} /\ 1 .. Top(k) \subseteq LevelSet
    BY <1>1, SoundLevel, TopIs, Constants DEF LevelSet
  <1>4. low = IF level <= Top(k) THEN level ELSE Top(k)
    BY <1>3, MinMax
  <1>5. low \in LevelSet /\ low <= Top(k)
    BY <1>3, <1>4
  <1> HIDE DEF low, a
  <1>6. /\ a \in Shape /\ a.level = low /\ a.band = k.band /\ a.loop = k.loop /\ Retuned(k, a)
        /\ a.air = k.air /\ a.backlog = k.backlog /\ a.submitted = k.submitted
    BY <1>3, <1>5 DEF Shape, Retuned, Untouched, a
  <1>7. Top(a) = Top(k)
    BY <1>6 DEF Top
  <1>8. Sound(a)
    BY <1>1, <1>5, <1>6, <1>7, ShapeIs DEF Sound
  <1>9. Retuned(st, a)
    BY <1>1, <1>6 DEF Retuned, Untouched
  <1>10. QED
    BY <1>1, <1>2, <1>6, <1>7, <1>8, <1>9 DEF low

\* apply_rate_loop_level: with no pin, the engine goes where the controller is.
LEMMA RateLoopLevel ==
    ASSUME NEW st, Sound(st), NEW level \in LevelSet, NEW env
    PROVE  LET a == ApplyRateLoopLevel(st, level, env)
           IN /\ Sound(a) /\ Retuned(st, a)
              /\ level = st.loop.level /\ (st.manual # 0 => InForce(st)) => InForce(a)
  <1>1. CASE st.manual # 0
    BY <1>1 DEF ApplyRateLoopLevel, Retuned, Untouched
  <1>2. CASE st.manual = 0
    <2> DEFINE a == ApplySpeedLevel(st, level, env)
    <2>1. /\ Sound(a) /\ Retuned(st, a) /\ a.level = Min({level, Top(a)})
          /\ a.loop.level = Min({st.loop.level, Top(a)})
      BY SpeedLevel
    <2>2. ApplyRateLoopLevel(st, level, env) = a
      BY <1>2 DEF ApplyRateLoopLevel
    <2> HIDE DEF a
    <2>3. a.manual = 0
      BY <1>2, <2>1 DEF Retuned, Untouched
    <2>4. level = st.loop.level => InForce(a)
      BY <2>1, <2>3 DEF InForce
    <2>5. QED
      BY <2>1, <2>2, <2>4
  <1>3. QED
    BY <1>1, <1>2

-----------------------------------------------------------------------------
(* The transmitter. *)

\* A station whose level, band, controller and pin are as they were.
SameTuning(st, st2) ==
    st2.level = st.level /\ st2.band = st.band /\ st2.loop = st.loop /\ st2.manual = st.manual

\* Such a station has the same ladder, and the level that was in force still is.
LEMMA TuningKept ==
    ASSUME NEW st, NEW st2, SameTuning(st, st2)
    PROVE  Top(st2) = Top(st) /\ (InForce(st) => InForce(st2))
  BY DEF SameTuning, Top, InForce

\* BUFFER depends on the backlog and the window alone.
LEMMA CountedKept ==
    ASSUME NEW st, NEW st2, st2.tx = st.tx, st2.backlog = st.backlog, st2.reported = st.reported
    PROVE  Counted(st) => Counted(st2)
  BY DEF Counted, BufferedTx

\* What BUFFER counts is a number.
LEMMA BufferedNat ==
    ASSUME NEW st, st.backlog \in Nat
    PROVE  BufferedTx(st) \in Nat
  <1>1. IsFiniteSet(Slot)
    BY FS_Interval, ArqAssumption DEF Slot
  <1>2. UnackedSlots(st.tx) \subseteq Slot
    BY DEF UnackedSlots
  <1>3. Cardinality(UnackedSlots(st.tx)) \in Nat
    BY <1>1, <1>2, FS_Subset, FS_CardinalityType
  <1>4. QED
    BY <1>3 DEF BufferedTx

\* Only the last thing BUFFER said changes.
LEMMA Report ==
    ASSUME NEW st, Sound(st)
    PROVE  LET r == ReportBuffer(st)
           IN /\ Sound(r) /\ Counted(r) /\ Untouched(st, r) /\ SameTuning(st, r)
              /\ r.queue = st.queue /\ r.held = st.held /\ r.air = st.air /\ r.probe = st.probe
  <1> DEFINE n == BufferedTx(st)
             r == [st EXCEPT !.reported = n]
  <1>1. st \in Shape /\ st.loop.top = Top(st) /\ st.level <= Top(st)
        /\ st.backlog <= st.submitted /\ st.submitted \in Data \cup {0} /\ st.air \in Seq(AirFrame)
    BY ShapeIs DEF Sound
  <1>2. n \in Nat
    BY <1>1, BufferedNat DEF Shape
  <1> HIDE DEF n
  <1>3. /\ r \in Shape /\ r.reported = n /\ Untouched(st, r) /\ SameTuning(st, r)
        /\ r.queue = st.queue /\ r.held = st.held /\ r.air = st.air /\ r.probe = st.probe
    BY <1>1, <1>2 DEF Shape, Untouched, SameTuning
  <1>4. ReportBuffer(st) = r
    BY DEF ReportBuffer, n
  <1> HIDE DEF r
  <1>5. Sound(r)
    BY <1>1, <1>3, TuningKept, ShapeIs DEF Sound, Untouched, SameTuning
  <1>6. Counted(r)
    BY <1>3 DEF Counted, BufferedTx, n, Untouched
  <1>7. QED
    BY <1>3, <1>4, <1>5, <1>6

\* A change of the keyed interval, of the mark for the poll, of the queue or of
\* the probe leaves a station sound.
LEMMA SidePart ==
    ASSUME NEW st, Sound(st), NEW st2, st2 \in Shape, SameTuning(st, st2),
           st2.backlog = st.backlog, st2.submitted = st.submitted, st2.air \in Seq(AirFrame)
    PROVE  Sound(st2)
  BY TuningKept, ShapeIs DEF Sound, SameTuning

\* A queue that waits with nothing keyed is marked.
LEMMA RearmMarks ==
    ASSUME NEW st, Sound(st), Counted(st)
    PROVE  LET r == Rearm(st)
           IN /\ Sound(r) /\ Counted(r) /\ Due(r) /\ Untouched(st, r) /\ SameTuning(st, r)
              /\ r.probe = st.probe /\ r.queue = st.queue /\ r.air = st.air
  <1>1. CASE Transmitting(st)
    BY <1>1 DEF Rearm, Due, Untouched, SameTuning
  <1>2. CASE ~Transmitting(st)
    <2> DEFINE h == (st.queue # << >>)
               m == [st EXCEPT !.held = h]
               r == ReportBuffer(m)
    <2>1. st \in Shape /\ st.air \in Seq(AirFrame) /\ h \in BOOLEAN
      BY ShapeIs DEF Sound
    <2> HIDE DEF h
    <2>2. /\ m \in Shape /\ m.held = h /\ Untouched(st, m) /\ SameTuning(st, m)
          /\ m.queue = st.queue /\ m.air = st.air /\ m.probe = st.probe
          /\ m.backlog = st.backlog /\ m.submitted = st.submitted
      BY <2>1 DEF Shape, Untouched, SameTuning
    <2>3. Rearm(st) = r
      BY <1>2 DEF Rearm, h
    <2> HIDE DEF m
    <2>4. Sound(m)
      BY <2>1, <2>2, SidePart
    <2>5. /\ Sound(r) /\ Counted(r) /\ Untouched(m, r) /\ SameTuning(m, r)
          /\ r.queue = m.queue /\ r.held = m.held /\ r.air = m.air /\ r.probe = m.probe
      BY <2>4, Report
    <2> HIDE DEF r
    <2>6. Due(r)
      BY <2>2, <2>5 DEF Due, h
    <2>7. /\ Untouched(st, r) /\ SameTuning(st, r) /\ r.probe = st.probe
          /\ r.queue = st.queue /\ r.air = st.air
      BY <2>2, <2>5 DEF Untouched, SameTuning
    <2>8. QED
      BY <2>3, <2>5, <2>6, <2>7
  <1>3. QED
    BY <1>1, <1>2

\* transmit_samples_keyed: keyed lawfully, or not keyed and due again; the
\* frequency evidence may take the level down, never out of force.
LEMMA TransmitKeeps ==
    ASSUME NEW st, Sound(st), Counted(st), NEW f \in Frame, f.type = "Data" => f.data \in Data,
           NEW env \in Env
    PROVE  LET t == Transmit(st, f, env)
           IN /\ Sound(t) /\ Counted(t) /\ Due(t) /\ Untouched(st, t)
              /\ InForce(st) => InForce(t)
              /\ t.probe = st.probe
              /\ f.lawful => Keyed(st, t, f)
  <1> DEFINE cut == [st EXCEPT !.air = << >>]
             waited == IF env.overdue THEN ReportBuffer(cut) ELSE st
             lawful == WideAt(st, st.level) => env.gate = "open"
             g == [f EXCEPT !.lawful = lawful]
             t == Transmit(st, f, env)
             on == [waited EXCEPT !.air = Append(@, g)]
  <1>1. st \in Shape /\ st.air \in Seq(AirFrame)
    BY ShapeIs DEF Sound
  <1>2. << >> \in AirSet /\ << >> \in Seq(AirFrame)
    BY DEF AirSet
  <1>3. /\ Sound(waited) /\ Counted(waited) /\ Untouched(st, waited) /\ SameTuning(st, waited)
        /\ waited.probe = st.probe /\ Keyed(st, waited, f)
    <2>1. CASE ~env.overdue
      BY <2>1 DEF Untouched, SameTuning, Keyed
    <2>2. CASE env.overdue
      <3>1. /\ cut \in Shape /\ cut.air = << >> /\ Untouched(st, cut) /\ SameTuning(st, cut)
            /\ cut.backlog = st.backlog /\ cut.submitted = st.submitted /\ cut.probe = st.probe
            /\ cut.queue = st.queue
        BY <1>1, <1>2 DEF Shape, Untouched, SameTuning
      <3> HIDE DEF cut
      <3>2. Sound(cut)
        BY <3>1, <1>2, SidePart
      <3>3. /\ Sound(ReportBuffer(cut)) /\ Counted(ReportBuffer(cut))
            /\ Untouched(cut, ReportBuffer(cut)) /\ SameTuning(cut, ReportBuffer(cut))
            /\ ReportBuffer(cut).probe = cut.probe
            /\ ReportBuffer(cut).queue = cut.queue /\ ReportBuffer(cut).air = cut.air
        BY <3>2, Report
      <3>4. Keyed(st, ReportBuffer(cut), f)
        BY <3>1, <3>3, EmptySeq DEF Keyed
      <3>5. QED
        BY <2>2, <3>1, <3>3, <3>4 DEF Untouched, SameTuning
    <2>3. QED
      BY <2>1, <2>2
  <1>4. t = IF Refused(st, env) THEN Rearm(KeepHfLegal(st, st.level, FALSE))
            ELSE IF env.gate = "cut" THEN Rearm(waited)
            ELSE IF RefusedLate(st, env) THEN Rearm(KeepHfLegal(waited, st.level, FALSE))
            ELSE on
    BY DEF Transmit
  <1>5. ASSUME NEW x, Sound(x), Counted(x), Untouched(st, x), SameTuning(st, x), x.probe = st.probe,
               Keyed(st, x, f)
        PROVE  LET r == Rearm(KeepHfLegal(x, st.level, FALSE))
               IN Sound(r) /\ Counted(r) /\ Due(r) /\ Untouched(st, r)
                  /\ (InForce(st) => InForce(r)) /\ r.probe = st.probe /\ Keyed(st, r, f)
    <2> DEFINE k == KeepHfLegal(x, st.level, FALSE)
    <2>1. Sound(k) /\ Retuned(x, k) /\ (InForce(x) => InForce(k))
      BY <1>5, KeepLegal
    <2> HIDE DEF k
    <2>2. Counted(k)
      BY <1>5, <2>1, CountedKept DEF Retuned, Untouched
    <2>3. /\ Sound(Rearm(k)) /\ Counted(Rearm(k)) /\ Due(Rearm(k)) /\ Untouched(k, Rearm(k))
          /\ SameTuning(k, Rearm(k)) /\ Rearm(k).probe = k.probe
          /\ Rearm(k).queue = k.queue /\ Rearm(k).air = k.air
      BY <2>1, <2>2, RearmMarks
    <2>4. InForce(st) => InForce(Rearm(k))
      BY <1>5, <2>1, <2>3, TuningKept
    <2>5. Keyed(st, Rearm(k), f)
      BY <1>5, <2>1, <2>3 DEF Keyed, Retuned
    <2>6. QED
      BY <1>5, <2>1, <2>3, <2>4, <2>5 DEF Untouched, Retuned, k
  <1> HIDE DEF waited, t
  <1>6. CASE Refused(st, env)
    <2>1. Untouched(st, st) /\ SameTuning(st, st) /\ Keyed(st, st, f)
      BY DEF Untouched, SameTuning, Keyed
    <2>2. t = Rearm(KeepHfLegal(st, st.level, FALSE))
      BY <1>4, <1>6
    <2> DEFINE r == Rearm(KeepHfLegal(st, st.level, FALSE))
    <2>3. Sound(r) /\ Counted(r) /\ Due(r) /\ Untouched(st, r)
          /\ (InForce(st) => InForce(r)) /\ r.probe = st.probe /\ Keyed(st, r, f)
      BY <1>5, <2>1
    <2> HIDE DEF r
    <2>4. t = r
      BY <2>2 DEF r
    <2>5. QED
      BY <2>3, <2>4 DEF t
  <1>7. CASE ~Refused(st, env) /\ env.gate = "cut"
    <2>1. t = Rearm(waited)
      BY <1>4, <1>7
    <2>2. /\ Sound(t) /\ Counted(t) /\ Due(t) /\ Untouched(waited, t) /\ SameTuning(waited, t)
          /\ t.probe = waited.probe /\ t.queue = waited.queue /\ t.air = waited.air
      BY <1>3, <2>1, RearmMarks
    <2>3. InForce(st) => InForce(t)
      BY <1>3, <2>2, TuningKept
    <2>4. Keyed(st, t, f)
      BY <1>3, <2>2 DEF Keyed
    <2>5. QED
      BY <1>3, <2>2, <2>3, <2>4 DEF Untouched, t
  <1>8. CASE ~Refused(st, env) /\ env.gate # "cut" /\ RefusedLate(st, env)
    <2>1. t = Rearm(KeepHfLegal(waited, st.level, FALSE))
      BY <1>4, <1>8
    <2> DEFINE r == Rearm(KeepHfLegal(waited, st.level, FALSE))
    <2>2. Sound(r) /\ Counted(r) /\ Due(r) /\ Untouched(st, r)
          /\ (InForce(st) => InForce(r)) /\ r.probe = st.probe /\ Keyed(st, r, f)
      BY <1>3, <1>5
    <2> HIDE DEF r
    <2>3. t = r
      BY <2>1 DEF r
    <2>4. QED
      BY <2>2, <2>3 DEF t
  <1>9. CASE ~Refused(st, env) /\ env.gate # "cut" /\ ~RefusedLate(st, env)
    <2>1. env.gate \in {"open", "shut", "closing", "cut"}
      <3>1. CASE env \in [gate : {"open", "shut", "closing", "cut"}, overdue : BOOLEAN, fits : {TRUE}]
        BY <3>1
      <3>2. CASE env = [gate |-> "open", overdue |-> FALSE, fits |-> FALSE]
        BY <3>2
      <3>3. QED
        BY <3>1, <3>2 DEF Env
    <2>2. lawful
      BY <1>9, <2>1 DEF Refused, RefusedLate, Permitted
    <2> HIDE DEF lawful
    <2>3. g \in AirFrame /\ g \in Frame /\ (f.lawful => g = f)
      BY <2>2 DEF Frame, AirFrame
    <2>4. t = on
      BY <1>4, <1>9
    <2> HIDE DEF g
    <2>5. waited \in Shape /\ waited.air \in Seq(AirFrame) /\ waited.air \in Seq(Frame)
      BY <1>3, ShapeIs DEF Sound, Shape, AirSet
    <2>6. /\ Append(waited.air, g) \in Seq(AirFrame) /\ Append(waited.air, g) \in AirSet
          /\ Append(waited.air, g) # << >>
      BY <2>3, <2>5 DEF AirSet
    <2>7. /\ on \in Shape /\ on.air = Append(waited.air, g) /\ Untouched(waited, on)
          /\ SameTuning(waited, on) /\ on.backlog = waited.backlog /\ on.submitted = waited.submitted
          /\ on.reported = waited.reported /\ on.probe = waited.probe /\ on.tx = waited.tx
          /\ on.queue = waited.queue
      BY <2>5, <2>6 DEF Shape, Untouched, SameTuning
    <2> HIDE DEF on
    <2>8. Sound(on)
      BY <1>3, <2>6, <2>7, SidePart
    <2>9. Counted(on)
      BY <1>3, <2>7, CountedKept
    <2>10. Due(on)
      BY <2>6, <2>7 DEF Due, Transmitting
    <2>11. InForce(st) => InForce(on)
      BY <1>3, <2>7, TuningKept
    <2>12. f.lawful => Keyed(st, on, f)
      <3>1. SUFFICES ASSUME f.lawful PROVE Keyed(st, on, f)
        OBVIOUS
      <3>2. ASSUME NEW A, st.air \in Seq(A), f \in A PROVE on.air \in Seq(A)
        <4>1. waited.air \in Seq(A)
          BY <1>3, <3>2 DEF Keyed
        <4>2. on.air = Append(waited.air, f)
          BY <2>3, <2>7, <3>1
        <4>3. QED
          BY <3>2, <4>1, <4>2, AppendProperties
      <3>3. on.queue = st.queue
        BY <1>3, <2>7 DEF Keyed
      <3>4. QED
        BY <3>2, <3>3 DEF Keyed
    <2>13. QED
      BY <1>3, <2>4, <2>7, <2>8, <2>9, <2>10, <2>11, <2>12 DEF Untouched, t
  <1>10. QED
    BY <1>6, <1>7, <1>8, <1>9

\* A change elsewhere leaves BUFFER right and the queue due.
LEMMA RetunedKeeps ==
    ASSUME NEW st, NEW st2, Retuned(st, st2)
    PROVE  /\ Counted(st) => Counted(st2)
           /\ Due(st) => Due(st2)
  BY DEF Retuned, Untouched, Counted, BufferedTx, Due, Transmitting

\* A station that takes another state of its controller, and the engine with it.
LEMMA WithLoop ==
    ASSUME NEW st, Sound(st), NEW loop \in RateLoopType(Top(st)), st.manual # 0 => InForce(st),
           NEW env
    PROVE  LET a == ApplyRateLoopLevel([st EXCEPT !.loop = loop], loop.level, env)
           IN Sound(a) /\ Retuned(st, a) /\ InForce(a)
  <1> DEFINE x == [st EXCEPT !.loop = loop]
             a == ApplyRateLoopLevel(x, loop.level, env)
  <1>1. st \in Shape /\ loop \in LoopSet /\ loop.top = Top(st) /\ loop.level \in LevelSet
    <2>1. loop \in LoopSet /\ loop.top = Top(st)
      BY TopIs, LoopSets
    <2>2. QED
      BY <2>1, LoopSets, SoundLevel
  <1>2. /\ x \in Shape /\ x.loop = loop /\ Retuned(st, x) /\ x.level = st.level /\ x.band = st.band
        /\ x.air = st.air /\ x.backlog = st.backlog /\ x.submitted = st.submitted /\ x.manual = st.manual
    BY <1>1 DEF Shape, Retuned, Untouched
  <1> HIDE DEF x
  <1>3. Top(x) = Top(st)
    BY <1>2 DEF Top
  <1>4. Sound(x)
    BY <1>1, <1>2, <1>3, ShapeIs DEF Sound
  <1>5. x.manual # 0 => InForce(x)
    BY <1>2, <1>3 DEF InForce
  <1>6. Sound(a) /\ Retuned(x, a) /\ InForce(a)
    BY <1>1, <1>2, <1>4, <1>5, RateLoopLevel
  <1> HIDE DEF a
  <1>7. Retuned(st, a)
    BY <1>2, <1>6 DEF Retuned, Untouched
  <1>8. QED
    BY <1>6, <1>7 DEF a, x

\* A queued PDU goes out, as a probe or not, and the engine comes back.
LEMMA HeadSent ==
    ASSUME NEW st, Sound(st), Counted(st), InForce(st), st.queue # << >>, NEW env \in Env
    PROVE  /\ Settled(SendHead(st, env)) /\ Untouched(st, SendHead(st, env))
           /\ StocksKept(st, SendHead(st, env))
  <1> DEFINE next == Head(st.queue)
             eligible == st.probe = NoProbe /\ st.manual = 0
             level == IF eligible /\ env.fits THEN LevelForNext(st.loop) ELSE st.loop.level
             isProbe == level # st.loop.level
             loop == IF eligible THEN CountFrame(st.loop) ELSE st.loop
             popped == [st EXCEPT !.queue = Tail(@), !.loop = loop]
             at == IF st.level = level THEN popped ELSE ApplyRateLoopLevel(popped, level, env)
             probe == IF isProbe THEN [seq |-> next.seq, level |-> level] ELSE at.probe
             ready == [at EXCEPT !.probe = probe]
             f == DataFrame(next.seq, next.data)
             sent == Transmit(ready, f, env)
             done == IF isProbe THEN ApplyRateLoopLevel(sent, sent.loop.level, env) ELSE sent
  <1>1. SendHead(st, env) = done
    <2>1. popped = [st EXCEPT !.queue = Tail(@), !.loop = IF eligible THEN CountFrame(@) ELSE @]
      OBVIOUS
    <2>2. ready = [at EXCEPT !.probe = IF isProbe THEN [seq |-> next.seq, level |-> level] ELSE @]
      OBVIOUS
    <2> HIDE DEF popped, at, ready
    <2>3. QED
      BY <2>1, <2>2 DEF SendHead, at
  <1>2. /\ st \in Shape /\ st.loop \in RateLoopType(Top(st)) /\ st.loop.level \in 1 .. Top(st)
        /\ Top(st) \in Nat \ {0} /\ 1 .. Top(st) \subseteq LevelSet /\ st.air \in Seq(AirFrame)
        /\ st.loop.level \in Nat
    BY SoundLevel, TopIs DEF Sound
  <1>3. /\ CountFrame(st.loop) \in RateLoopType(Top(st)) /\ CountFrame(st.loop).level = st.loop.level
        /\ LevelForNext(st.loop) \in 1 .. Top(st)
    BY <1>2, LoopStays
  <1>4. level \in LevelSet /\ (isProbe => st.manual = 0)
    BY <1>2, <1>3
  <1>5. loop \in RateLoopType(Top(st)) /\ loop.level = st.loop.level
    BY <1>2, <1>3
  <1>6. loop \in LoopSet /\ loop.top = Top(st)
    BY <1>5, LoopSets, TopIs
  <1>7. /\ next \in [seq : SeqNum, data : Data] /\ Tail(st.queue) \in QueueSet
    <2> DEFINE q == st.queue
               E == [seq : SeqNum, data : Data]
    <2>1. q \in Seq(E) /\ q # << >>
      BY <1>2 DEF Shape, QueueSet
    <2> HIDE DEF q, E
    <2>2. Head(q) \in E /\ Tail(q) \in Seq(E)
      BY <2>1
    <2>3. QED
      BY <2>2 DEF q, E, QueueSet
  <1>8. f \in Frame /\ f.data \in Data /\ f.lawful
    BY <1>7 DEF Frame, DataFrame
  <1> HIDE DEF level, isProbe, loop, next, f
  <1>9. /\ popped \in Shape /\ popped.loop = loop /\ popped.level = st.level /\ popped.band = st.band
        /\ popped.air = st.air /\ Untouched(st, popped) /\ popped.reported = st.reported
        /\ popped.backlog = st.backlog /\ popped.submitted = st.submitted /\ popped.manual = st.manual
        /\ popped.tx = st.tx /\ popped.queue = Tail(st.queue)
    BY <1>2, <1>6, <1>7 DEF Shape, Untouched
  <1> HIDE DEF popped
  <1>10. Top(popped) = Top(st)
    BY <1>9 DEF Top
  <1>11. Sound(popped)
    BY <1>2, <1>6, <1>9, <1>10, ShapeIs DEF Sound
  <1>12. InForce(popped) /\ Counted(popped)
    BY <1>5, <1>9, <1>10, CountedKept DEF InForce
  <1>13. /\ Sound(at) /\ Counted(at) /\ Untouched(st, at) /\ (~isProbe => InForce(at))
         /\ at.queue = Tail(st.queue) /\ at.air = st.air
    <2>1. CASE st.level = level
      BY <2>1, <1>9, <1>11, <1>12
    <2>2. CASE st.level # level
      <3> DEFINE a == ApplyRateLoopLevel(popped, level, env)
      <3>1. /\ Sound(a) /\ Retuned(popped, a)
            /\ level = popped.loop.level /\ (popped.manual # 0 => InForce(popped)) => InForce(a)
        BY <1>4, <1>11, RateLoopLevel
      <3>2. at = a
        BY <2>2
      <3> HIDE DEF a, at
      <3>3. ~isProbe => level = popped.loop.level
        BY <1>5, <1>9 DEF isProbe
      <3>4. Counted(a) /\ Untouched(st, a) /\ a.queue = Tail(st.queue) /\ a.air = st.air
        BY <1>9, <1>12, <3>1, CountedKept DEF Retuned, Untouched
      <3>5. QED
        BY <1>12, <3>1, <3>2, <3>3, <3>4
    <2>3. QED
      BY <2>1, <2>2
  <1> HIDE DEF at
  <1>14. at \in Shape /\ at.air \in Seq(AirFrame) /\ probe \in ProbeSet
    <2>1. at \in Shape /\ at.air \in Seq(AirFrame) /\ at.probe \in ProbeSet
      BY <1>13, ShapeIs DEF Sound, Shape
    <2>2. [seq |-> next.seq, level |-> level] \in ProbeSet
      BY <1>4, <1>7 DEF ProbeSet, LevelSet
    <2>3. QED
      BY <2>1, <2>2
  <1> HIDE DEF probe
  <1>15. /\ ready \in Shape /\ SameTuning(at, ready) /\ Untouched(at, ready) /\ ready.tx = at.tx
         /\ ready.backlog = at.backlog /\ ready.submitted = at.submitted /\ ready.air = at.air
         /\ ready.reported = at.reported /\ ready.manual = at.manual /\ ready.queue = at.queue
    BY <1>14 DEF Shape, SameTuning, Untouched
  <1> HIDE DEF ready
  <1>16. Sound(ready) /\ Counted(ready) /\ (~isProbe => InForce(ready))
    BY <1>13, <1>14, <1>15, SidePart, CountedKept, TuningKept
  <1>17. /\ Sound(sent) /\ Counted(sent) /\ Due(sent) /\ Untouched(ready, sent)
         /\ InForce(ready) => InForce(sent)
         /\ Keyed(ready, sent, f)
    BY <1>8, <1>16, TransmitKeeps
  <1> HIDE DEF sent
  <1>18. Untouched(st, sent) /\ StocksKept(st, sent)
    <2>1. Untouched(st, sent)
      BY <1>13, <1>15, <1>17 DEF Untouched
    <2>2. ASSUME NEW Q, NEW A, Stocks(st, Q, A), \A e \in Q : DataFrame(e.seq, e.data) \in A
          PROVE  Stocks(sent, Q, A)
      <3>1. next \in Q /\ Tail(st.queue) \in Seq(Q)
        BY <2>2, HeadTailProperties DEF Stocks, next
      <3>2. f \in A
        BY <2>2, <3>1 DEF f
      <3>3. QED
        BY <2>2, <3>1, <3>2, <1>13, <1>15, <1>17 DEF Stocks, Keyed
    <2>3. QED
      BY <2>1, <2>2 DEF StocksKept
  <1>19. CASE ~isProbe
    BY <1>1, <1>16, <1>17, <1>18, <1>19 DEF Settled
  <1>20. CASE isProbe
    <2> DEFINE b == ApplyRateLoopLevel(sent, sent.loop.level, env)
    <2>1. sent.loop.level \in LevelSet /\ sent.manual = 0
      BY <1>4, <1>17, <1>18, <1>20, SoundLevel, TopIs DEF Untouched
    <2>2. Sound(b) /\ Retuned(sent, b) /\ InForce(b)
      BY <1>17, <2>1, RateLoopLevel
    <2>3. done = b
      BY <1>20
    <2> HIDE DEF b, done
    <2>4. Counted(b) /\ Due(b) /\ Untouched(st, b) /\ StocksKept(st, b)
      BY <1>17, <1>18, <2>2, RetunedKeeps DEF Retuned, Untouched, StocksKept, Stocks
    <2>5. QED
      BY <1>1, <2>2, <2>3, <2>4 DEF Settled
  <1>21. QED
    BY <1>19, <1>20

\* try_drain_tx_queue: keyed, empty, or held and due for the poll.
LEMMA Drained ==
    ASSUME NEW st, Sound(st), Counted(st), InForce(st), NEW env \in Env
    PROVE  /\ Settled(TryDrainTxQueue(st, env)) /\ Untouched(st, TryDrainTxQueue(st, env))
           /\ StocksKept(st, TryDrainTxQueue(st, env))
  <1> DEFINE Mark(x, h) == [x EXCEPT !.held = h]
  <1>1. ASSUME NEW x, Sound(x), Counted(x), InForce(x), NEW h \in BOOLEAN
        PROVE  /\ Sound(Mark(x, h)) /\ Counted(Mark(x, h)) /\ InForce(Mark(x, h))
               /\ Untouched(x, Mark(x, h)) /\ Mark(x, h).queue = x.queue /\ Mark(x, h).air = x.air
               /\ Mark(x, h).held = h
    <2> DEFINE m == Mark(x, h)
    <2>1. x \in Shape /\ x.air \in Seq(AirFrame)
      BY <1>1, ShapeIs DEF Sound
    <2>2. /\ m \in Shape /\ SameTuning(x, m) /\ Untouched(x, m) /\ m.tx = x.tx /\ m.air = x.air
          /\ m.backlog = x.backlog /\ m.submitted = x.submitted /\ m.reported = x.reported
          /\ m.queue = x.queue /\ m.held = h
      BY <1>1, <2>1 DEF Shape, SameTuning, Untouched
    <2> HIDE DEF m, Mark
    <2>3. Sound(m) /\ Counted(m) /\ InForce(m)
      BY <1>1, <2>1, <2>2, SidePart, CountedKept, TuningKept
    <2>4. QED
      BY <2>2, <2>3 DEF m
  <1>2. CASE Transmitting(st)
    BY <1>2 DEF TryDrainTxQueue, Settled, Due, Untouched, StocksKept
  <1>3. CASE ~Transmitting(st) /\ st.queue = << >>
    <2>1. TryDrainTxQueue(st, env) = Mark(st, FALSE)
      BY <1>3 DEF TryDrainTxQueue
    <2> HIDE DEF Mark
    <2>2. QED
      BY <1>1, <1>3, <2>1 DEF Settled, Due, StocksKept, Stocks
  <1>4. CASE ~Transmitting(st) /\ st.queue # << >>
    <2> DEFINE k == KeepHfLegal(st, st.level, Permitted(env))
    <2>1. TryDrainTxQueue(st, env) = IF Refused(k, env) THEN Mark(k, TRUE) ELSE SendHead(Mark(k, FALSE), env)
      BY <1>4 DEF TryDrainTxQueue
    <2>2. Sound(k) /\ Retuned(st, k) /\ InForce(k)
      BY KeepLegal
    <2> HIDE DEF k
    <2>3. Counted(k) /\ k.queue # << >>
      BY <1>4, <2>2, RetunedKeeps DEF Retuned
    <2> HIDE DEF Mark
    <2> DEFINE y == Mark(k, FALSE)
               t == Mark(k, TRUE)
    <2>4. /\ Sound(y) /\ Counted(y) /\ InForce(y) /\ Untouched(k, y) /\ y.queue # << >>
          /\ Sound(t) /\ Counted(t) /\ InForce(t) /\ Untouched(k, t) /\ t.held
          /\ y.queue = k.queue /\ y.air = k.air /\ t.queue = k.queue /\ t.air = k.air
      BY <1>1, <2>2, <2>3
    <2> HIDE DEF y, t
    <2>5. Settled(t)
      BY <2>4 DEF Settled, Due
    <2>6. /\ Settled(SendHead(y, env)) /\ Untouched(y, SendHead(y, env))
          /\ StocksKept(y, SendHead(y, env))
      BY <2>4, HeadSent
    <2>7. /\ Untouched(st, t) /\ Untouched(st, SendHead(y, env))
          /\ StocksKept(st, t) /\ StocksKept(st, SendHead(y, env))
      BY <2>2, <2>4, <2>6 DEF Untouched, Retuned, StocksKept, Stocks
    <2>8. QED
      BY <2>1, <2>5, <2>6, <2>7 DEF y, t
  <1>5. QED
    BY <1>2, <1>3, <1>4

\* enqueue_tx reports before it drains.
LEMMA Enqueued ==
    ASSUME NEW st, Sound(st), InForce(st), NEW entry \in [seq : SeqNum, data : Data], NEW env \in Env
    PROVE  /\ Settled(EnqueueTx(st, entry, env)) /\ Untouched(st, EnqueueTx(st, entry, env))
           /\ StocksKept([st EXCEPT !.queue = Append(@, entry)], EnqueueTx(st, entry, env))
  <1> DEFINE x == [st EXCEPT !.queue = Append(@, entry)]
             r == ReportBuffer(x)
  <1>1. st \in Shape /\ st.air \in Seq(AirFrame)
    BY ShapeIs DEF Sound
  <1>2. Append(st.queue, entry) \in QueueSet
    BY <1>1 DEF Shape, QueueSet
  <1>3. /\ x \in Shape /\ SameTuning(st, x) /\ Untouched(st, x) /\ x.air = st.air
        /\ x.backlog = st.backlog /\ x.submitted = st.submitted
    BY <1>1, <1>2 DEF Shape, SameTuning, Untouched
  <1>4. EnqueueTx(st, entry, env) = TryDrainTxQueue(r, env)
    BY DEF EnqueueTx
  <1> HIDE DEF x
  <1>5. Sound(x) /\ InForce(x)
    BY <1>1, <1>3, SidePart, TuningKept
  <1>6. /\ Sound(r) /\ Counted(r) /\ Untouched(x, r) /\ SameTuning(x, r)
        /\ r.queue = x.queue /\ r.air = x.air
    BY <1>5, Report
  <1> HIDE DEF r
  <1>7. InForce(r)
    BY <1>5, <1>6, TuningKept
  <1>8. /\ Settled(TryDrainTxQueue(r, env)) /\ Untouched(r, TryDrainTxQueue(r, env))
        /\ StocksKept(r, TryDrainTxQueue(r, env))
    BY <1>6, <1>7, Drained
  <1>9. StocksKept(x, TryDrainTxQueue(r, env))
    BY <1>6, <1>8 DEF StocksKept, Stocks
  <1>10. QED
    BY <1>3, <1>4, <1>6, <1>8, <1>9 DEF Untouched, x

-----------------------------------------------------------------------------
(* Staying in line. *)

\* A station in line has a window of typed counters.
LEMMA LineNumbers ==
    ASSUME NEW st, Sound(st), NEW r, NEW h \in Nat, NEW lo \in Nat, InLine(st, r, h, lo)
    PROVE  /\ st.tx \in TxType(Data) /\ Sent(st) \in Int /\ Window \in 1 .. Ring /\ h \in Int
           /\ Coupled(st.tx, r, Sent(st), h, Window)
           /\ Base(st) \in Nat /\ lo <= Base(st) /\ Base(st) <= h /\ h <= Sent(st)
           /\ InFlight(st.tx) = Sent(st) - Base(st)
           /\ Sent(st) <= st.submitted /\ st.submitted \in Nat
  <1>1. /\ st.tx \in TxType(Data) /\ st.backlog \in Nat /\ st.submitted \in Nat
        /\ Window \in 1 .. Ring
    BY ShapeIs, Constants DEF Sound, Shape, TxSet
  <1>2. Sent(st) \in Int /\ Sent(st) <= st.submitted
    BY <1>1 DEF Sent
  <1>3. Coupled(st.tx, r, Sent(st), h, Window) /\ lo <= Base(st)
    BY DEF InLine
  <1>4. QED
    BY <1>1, <1>2, <1>3, CoupledCounters DEF Base

\* Later segments and higher floors: the sets from which a station draws.
LEMMA StocksGrow ==
    ASSUME NEW st, NEW lo \in Int, NEW hi \in Int, NEW hi2 \in Int, NEW rx, hi <= hi2,
           Stocks(st, Entries(lo, hi), OnAir(lo, hi, rx))
    PROVE  Stocks(st, Entries(lo, hi2), OnAir(lo, hi2, rx))
  <1>1. Data \subseteq Int
    BY Constants
  <1>2. Entries(lo, hi) \subseteq Entries(lo, hi2)
    <2>1. ASSUME NEW e \in Entries(lo, hi) PROVE e \in Entries(lo, hi2)
      <3>1. e.data \in Data /\ e.data <= hi
        BY DEF Entries
      <3>2. e.data <= hi2
        <4>1. \A d \in Int : d <= hi => d <= hi2
          OBVIOUS
        <4>2. QED
          BY <1>1, <3>1, <4>1, Zenon
      <3>3. QED
        BY <3>2 DEF Entries
    <2>2. QED
      BY <2>1
  <1>3. OnAir(lo, hi, rx) \subseteq OnAir(lo, hi2, rx)
    <2>1. ASSUME NEW f \in OnAir(lo, hi, rx) PROVE f \in OnAir(lo, hi2, rx)
      <3>1. f.data \in Data \cup {0} /\ (f.type = "Data" => f.data <= hi)
        BY DEF OnAir, Frame
      <3>2. f.type = "Data" => f.data <= hi2
        <4>1. \A d \in Int : d <= hi => d <= hi2
          OBVIOUS
        <4>2. 0 \in Int
          OBVIOUS
        <4>3. QED
          BY <1>1, <3>1, <4>1, <4>2, Zenon
      <3>3. QED
        BY <3>2 DEF OnAir
    <2>2. QED
      BY <2>1
  <1>4. \A E, F : E \subseteq F => Seq(E) \subseteq Seq(F)
    OBVIOUS
  <1>5. QED
    BY <1>2, <1>3, <1>4 DEF Stocks

\* What is queued may be keyed.
LEMMA EntriesFit ==
    ASSUME NEW lo, NEW hi, NEW rx, NEW e \in Entries(lo, hi)
    PROVE  DataFrame(e.seq, e.data) \in OnAir(lo, hi, rx)
  BY DEF Entries, OnAir, DataFrame, Frame

\* The transmitter leaves a station in line.
LEMMA LineStocked ==
    ASSUME NEW st, NEW st2, Untouched(st, st2), StocksKept(st, st2)
    PROVE  LineKept(st, st2)
  <1>1. /\ st2.tx = st.tx /\ st2.rx = st.rx /\ Sent(st2) = Sent(st) /\ Base(st2) = Base(st)
    BY DEF Untouched, Sent, Base
  <1>2. ASSUME NEW r, NEW h \in Nat, NEW lo \in Nat, InLine(st, r, h, lo)
        PROVE  InLine(st2, r, h, lo)
    <2>1. Stocks(st2, Entries(lo, Sent(st)), OnAir(lo, Sent(st), st.rx))
      BY <1>2, EntriesFit DEF InLine, StocksKept
    <2>2. QED
      BY <1>1, <1>2, <2>1 DEF InLine
  <1>3. QED
    BY <1>1, <1>2 DEF LineKept

\* A change of other things does.
LEMMA LineUnchanged ==
    ASSUME NEW st, NEW st2, st2.tx = st.tx, st2.rx = st.rx, Sent(st2) = Sent(st),
           st2.queue = st.queue, st2.air = st.air
    PROVE  LineKept(st, st2)
  BY DEF LineKept, InLine, Base, Stocks

\* One more frame is keyed.
LEMMA LineKeyed ==
    ASSUME NEW st, NEW st2, NEW f, Untouched(st, st2), Keyed(st, st2, f),
           NEW r, NEW h, NEW lo, InLine(st, r, h, lo), f \in OnAir(lo, Sent(st), st.rx)
    PROVE  InLine(st2, r, h, lo) /\ Base(st2) = Base(st)
  <1>1. /\ st2.tx = st.tx /\ st2.rx = st.rx /\ Sent(st2) = Sent(st) /\ Base(st2) = Base(st)
    BY DEF Untouched, Sent, Base
  <1>2. Stocks(st2, Entries(lo, Sent(st)), OnAir(lo, Sent(st), st.rx))
    BY DEF InLine, Stocks, Keyed
  <1>3. QED
    BY <1>1, <1>2 DEF InLine

\* One change after the other.
LEMMA LineTrans ==
    ASSUME NEW x, NEW y, NEW z, LineKept(x, y), LineKept(y, z)
    PROVE  LineKept(x, z)
  BY DEF LineKept

-----------------------------------------------------------------------------
(* The backlog. *)

\* A change of the windows, the backlog or the count of payloads.
LEMMA WindowPart ==
    ASSUME NEW st, Sound(st), NEW st2, st2 \in Shape, SameTuning(st, st2), st2.air = st.air,
           st2.backlog <= st2.submitted, st2.submitted \in Data \cup {0}
    PROVE  Sound(st2) /\ (InForce(st) => InForce(st2))
  BY TuningKept, ShapeIs DEF Sound, SameTuning

\* A payload moves from the backlog to the window and the queue.
LEMMA OnePumped ==
    ASSUME NEW st, Settled(st), st.backlog >= 1, NEW env \in Env
    PROVE  LET p == PumpOne(st, env)
           IN /\ Settled(p) /\ p.backlog = st.backlog - 1 /\ p.submitted = st.submitted
              /\ p.rx = st.rx /\ (InFlight(st.tx) < Window => LineKept(st, p))
  <1> DEFINE d == st.submitted - st.backlog + 1
             tx == TxSend(st.tx, d)
             left == st.backlog - 1
             x == [st EXCEPT !.tx = tx, !.backlog = left]
             entry == [seq |-> st.tx.next_seq, data |-> d]
  <1>1. /\ st \in Shape /\ st.backlog <= st.submitted /\ st.submitted \in Data \cup {0}
        /\ Sound(st) /\ InForce(st)
    BY ShapeIs DEF Settled, Sound
  <1>2. st.tx \in TxType(Data) /\ st.backlog \in Nat /\ st.submitted \in Nat
    BY <1>1, Constants DEF Shape, TxSet
  <1>3. d \in Data
    <2>1. st.submitted \in Data
      BY <1>1, <1>2
    <2>2. d \in 1 .. st.submitted
      BY <1>1, <1>2
    <2> HIDE DEF d
    <2>3. QED
      BY <2>1, <2>2, Constants
  <1> HIDE DEF d
  <1>4. tx \in TxSet
    BY <1>2, <1>3, TxSendType, Constants DEF TxSet
  <1>5. left \in Nat /\ left <= st.submitted
    BY <1>1, <1>2
  <1>6. entry \in [seq : SeqNum, data : Data]
    BY <1>2, <1>3 DEF TxType
  <1>7. PumpOne(st, env) = EnqueueTx(x, entry, env)
    BY DEF PumpOne, d
  <1> HIDE DEF tx, entry
  <1>8. /\ x \in Shape /\ SameTuning(st, x) /\ x.air = st.air /\ x.backlog = left
        /\ x.submitted = st.submitted /\ x.queue = st.queue /\ x.tx = tx /\ x.rx = st.rx
    BY <1>1, <1>4, <1>5 DEF Shape, SameTuning
  <1> HIDE DEF x
  <1>9. Sound(x) /\ InForce(x)
    BY <1>1, <1>5, <1>8, WindowPart
  <1> DEFINE longer == [x EXCEPT !.queue = Append(@, entry)]
             p == EnqueueTx(x, entry, env)
  <1>10. Settled(p) /\ Untouched(x, p) /\ StocksKept(longer, p)
    BY <1>6, <1>9, Enqueued
  <1> HIDE DEF p
  <1>11. ASSUME InFlight(st.tx) < Window PROVE LineKept(st, p)
    <2>1. longer.queue = Append(st.queue, entry) /\ longer.air = st.air
      BY <1>8 DEF Shape
    <2> HIDE DEF longer
    <2>2. p.rx = st.rx /\ p.tx = tx /\ p.submitted = st.submitted /\ p.backlog = left
      BY <1>8, <1>10 DEF Untouched
    <2>3. Sent(p) = Sent(st) + 1 /\ d = Sent(st) + 1
      BY <1>2, <2>2 DEF Sent, d
    <2>4. ASSUME NEW r, NEW h \in Nat, NEW lo \in Nat, InLine(st, r, h, lo)
          PROVE  InLine(p, r, h, lo) /\ Base(p) = Base(st)
      <3>1. /\ Sent(st) \in Int /\ Coupled(st.tx, r, Sent(st), h, Window) /\ h \in Int
            /\ Window \in 1 .. Ring /\ Base(st) \in Nat /\ lo <= Base(st) /\ Base(st) <= Sent(st)
        BY <1>1, <2>4, LineNumbers
      <3>2. Coupled(p.tx, r, Sent(p), h, Window) /\ Base(p) = Base(st)
        <4>1. /\ Coupled(TxSend(st.tx, Sent(st) + 1), r, Sent(st) + 1, h, Window)
              /\ SendBase(TxSend(st.tx, Sent(st) + 1), Sent(st) + 1) = SendBase(st.tx, Sent(st))
          BY <1>2, <1>11, <3>1, CoupledSend
        <4>2. p.tx = TxSend(st.tx, Sent(st) + 1)
          BY <2>2, <2>3 DEF tx
        <4>3. QED
          BY <2>3, <4>1, <4>2 DEF Base
      <3>3. entry \in Entries(lo, Sent(p))
        <4>1. entry.seq = Sent(st) % SeqMod
          BY <3>1 DEF Coupled, SenderCoupled, entry
        <4>2. entry.data = Sent(st) + 1 /\ entry.data - 1 = Sent(st)
          BY <2>3, <3>1 DEF entry
        <4>3. lo < entry.data /\ entry.data <= Sent(p)
          BY <2>3, <3>1, <4>2
        <4> HIDE DEF entry
        <4>4. QED
          BY <1>6, <4>1, <4>2, <4>3 DEF Entries
      <3>4. Stocks(st, Entries(lo, Sent(p)), OnAir(lo, Sent(p), st.rx))
        <4>1. Stocks(st, Entries(lo, Sent(st)), OnAir(lo, Sent(st), st.rx))
          BY <2>4 DEF InLine
        <4>2. Sent(st) <= Sent(p) /\ Sent(p) \in Int
          BY <2>3, <3>1
        <4>3. QED
          BY <3>1, <4>1, <4>2, StocksGrow
      <3>5. Stocks(longer, Entries(lo, Sent(p)), OnAir(lo, Sent(p), st.rx))
        BY <2>1, <3>3, <3>4, AppendProperties DEF Stocks
      <3>6. Stocks(p, Entries(lo, Sent(p)), OnAir(lo, Sent(p), st.rx))
        BY <1>10, <3>5, EntriesFit DEF StocksKept
      <3>7. QED
        BY <2>2, <3>1, <3>2, <3>6 DEF InLine
    <2>5. QED
      BY <2>2, <2>4 DEF LineKept
  <1>12. QED
    BY <1>7, <1>8, <1>10, <1>11 DEF Untouched, p

\* pump_arq_backlog: as many of them as the window takes.
LEMMA Pumped ==
    ASSUME NEW st, Settled(st), NEW env \in Env
    PROVE  LET r == PumpArqBacklog(st, env)
           IN Settled(r) /\ r.submitted = st.submitted /\ LineKept(st, r)
  <1> DEFINE room == IF CanSend(st.tx, Window) THEN Window - InFlight(st.tx) ELSE 0
             n == Min({room, st.backlog})
             Runs(m, f) == f = [k \in 0 .. m |-> IF k = 0 THEN st ELSE PumpOne(f[k - 1], env)]
             run == CHOOSE f : Runs(n, f)
  <1>1. /\ n \in Nat /\ n <= st.backlog /\ st.backlog \in Nat /\ Window \in Int
        /\ InFlight(st.tx) \in Int /\ (n > 0 => n <= Window - InFlight(st.tx))
    <2>1. st.tx \in TxType(Data) /\ st.backlog \in Nat
      BY ShapeIs DEF Settled, Sound, Shape, TxSet
    <2>2. InFlight(st.tx) \in Int
      BY <2>1, InFlightType DEF SeqNum
    <2>3. Window \in Int
      BY Constants
    <2>4. room \in Nat /\ (room > 0 => room <= Window - InFlight(st.tx))
      BY <2>2, <2>3 DEF CanSend
    <2> HIDE DEF room
    <2>5. n = IF room <= st.backlog THEN room ELSE st.backlog
      BY <2>1, <2>4, MinMax
    <2>6. QED
      BY <2>1, <2>2, <2>3, <2>4, <2>5
  <1>2. PumpArqBacklog(st, env) = run[n]
    BY DEF PumpArqBacklog
  <1> HIDE DEF n, run
  <1>3. \A m \in Nat : \E f : Runs(m, f)
    <2> DEFINE Bad == {m \in Nat : ~\E f : Runs(m, f)}
    <2>1. SUFFICES ASSUME Bad # {} PROVE FALSE
      OBVIOUS
    <2>2. PICK m \in Bad : \A y \in Bad : m <= y
      BY <2>1, MinNat
    <2>3. CASE m = 0
      <3> DEFINE f == [k \in 0 .. 0 |-> st]
      <3>1. Runs(0, f)
        OBVIOUS
      <3>2. QED
        BY <2>2, <2>3, <3>1
    <2>4. CASE m # 0
      <3>1. m - 1 \in Nat /\ m - 1 \notin Bad /\ m \in Nat
        BY <2>2, <2>4
      <3>2. PICK f : Runs(m - 1, f)
        BY <3>1
      <3> DEFINE g == [k \in 0 .. m |-> IF k < m THEN f[k] ELSE PumpOne(f[m - 1], env)]
      <3>3. ASSUME NEW k \in 0 .. m PROVE g[k] = IF k = 0 THEN st ELSE PumpOne(g[k - 1], env)
        <4>1. CASE k < m
          <5>1. k \in 0 .. m - 1 /\ g[k] = f[k] /\ (k # 0 => g[k - 1] = f[k - 1])
            BY <4>1, <3>1
          <5>2. f[k] = IF k = 0 THEN st ELSE PumpOne(f[k - 1], env)
            BY <3>2, <5>1
          <5>3. QED
            BY <5>1, <5>2
        <4>2. CASE k = m
          BY <4>2, <3>1, <2>4
        <4>3. QED
          BY <4>1, <4>2, <3>1
      <3>4. Runs(m, g)
        BY <3>3
      <3>5. QED
        BY <2>2, <3>4
    <2>5. QED
      BY <2>3, <2>4
  <1>4. Runs(n, run)
    BY <1>1, <1>3 DEF run
  <1>5. \A k \in 0 .. n : run[k] = IF k = 0 THEN st ELSE PumpOne(run[k - 1], env)
    BY <1>4
  <1> HIDE DEF Runs
  <1> DEFINE Good(k) == /\ Settled(run[k]) /\ run[k].submitted = st.submitted
                        /\ run[k].backlog = st.backlog - k
                        /\ LineKept(st, run[k])
             Bad == {k \in 0 .. n : ~Good(k)}
  <1>6. Bad = {}
    <2>1. SUFFICES ASSUME Bad # {} PROVE FALSE
      OBVIOUS
    <2>2. Bad \in SUBSET Nat
      BY <1>1
    <2>3. PICK k \in Bad : \A y \in Bad : k <= y
      BY <2>1, <2>2, MinNat
    <2>4. CASE k = 0
      <3>1. run[0] = st
        BY <1>1, <1>5
      <3>2. LineKept(st, run[0])
        BY <3>1 DEF LineKept
      <3>3. Good(0)
        BY <1>1, <3>1, <3>2
      <3>4. QED
        BY <2>3, <2>4, <3>3
    <2>5. CASE k # 0
      <3>1. k - 1 \in 0 .. n /\ k - 1 \notin Bad /\ k \in 0 .. n
        BY <1>1, <2>3, <2>5
      <3>2. Good(k - 1)
        BY <3>1
      <3>3. run[k - 1].backlog >= 1
        BY <1>1, <3>1, <3>2
      <3>4. run[k] = PumpOne(run[k - 1], env)
        BY <1>5, <2>5, <3>1
      <3>5. /\ Settled(run[k]) /\ run[k].backlog = run[k - 1].backlog - 1
            /\ run[k].submitted = run[k - 1].submitted
            /\ run[k].rx = run[k - 1].rx
            /\ InFlight(run[k - 1].tx) < Window => LineKept(run[k - 1], run[k])
        BY <3>2, <3>3, <3>4, OnePumped
      <3>6. LineKept(st, run[k])
        <4> DEFINE x == run[k - 1]
                   y == run[k]
        <4>1. /\ LineKept(st, x) /\ Settled(x) /\ x.submitted = st.submitted
              /\ x.backlog = st.backlog - (k - 1)
              /\ (InFlight(x.tx) < Window => LineKept(x, y))
          BY <3>2, <3>5
        <4>2. y.rx = st.rx
          BY <3>2, <3>5 DEF LineKept
        <4> HIDE DEF x, y
        <4>3. ASSUME NEW r, NEW h \in Nat, NEW lo \in Nat, InLine(st, r, h, lo)
              PROVE  InLine(y, r, h, lo) /\ Base(y) = Base(st)
          <5>1. InLine(x, r, h, lo) /\ Base(x) = Base(st)
            BY <4>1, <4>3 DEF LineKept
          <5>2. /\ InFlight(st.tx) = Sent(st) - Base(st) /\ Base(st) \in Nat /\ Sent(st) \in Int
                /\ st.submitted \in Nat
            BY <4>3, LineNumbers DEF Settled
          <5>3. InFlight(x.tx) = Sent(x) - Base(x)
            BY <4>1, <5>1, LineNumbers DEF Settled
          <5>4. Sent(x) = Sent(st) + (k - 1)
            BY <1>1, <3>1, <4>1, <5>2 DEF Sent
          <5>5. InFlight(x.tx) < Window
            BY <1>1, <2>5, <3>1, <5>1, <5>2, <5>3, <5>4
          <5>6. QED
            BY <4>1, <4>3, <5>1, <5>5 DEF LineKept
        <4>4. QED
          BY <4>2, <4>3 DEF LineKept, y
      <3>7. Good(k)
        BY <1>1, <3>1, <3>2, <3>5, <3>6
      <3>8. QED
        BY <2>3, <3>7
    <2>6. QED
      BY <2>4, <2>5
  <1>7. n \in 0 .. n
    BY <1>1
  <1>8. Good(n)
    BY <1>6, <1>7
  <1>9. QED
    BY <1>2, <1>8

-----------------------------------------------------------------------------
(* Received PDUs. *)

\* A station that says its buffer and sends what fits.
LEMMA Resumed ==
    ASSUME NEW st, Sound(st), InForce(st), Due(st), NEW env \in Env
    PROVE  LET r == PumpArqBacklog(ReportBuffer(st), env)
           IN Settled(r) /\ r.submitted = st.submitted /\ LineKept(st, r)
  <1> DEFINE x == ReportBuffer(st)
  <1>1. /\ Sound(x) /\ Counted(x) /\ Untouched(st, x) /\ SameTuning(st, x)
        /\ x.queue = st.queue /\ x.held = st.held /\ x.air = st.air
    BY Report
  <1> HIDE DEF x
  <1>2. InForce(x) /\ Due(x)
    BY <1>1, TuningKept DEF Due, Transmitting
  <1>3. Settled(x)
    BY <1>1, <1>2 DEF Settled
  <1>4. LET r == PumpArqBacklog(x, env)
        IN Settled(r) /\ r.submitted = x.submitted /\ LineKept(x, r)
    BY <1>3, Pumped
  <1>5. LineKept(st, x)
    BY <1>1, LineUnchanged DEF Untouched, Sent
  <1>6. QED
    BY <1>1, <1>4, <1>5, LineTrans DEF Untouched, x

\* process_ack, a probe it resolves, BUFFER and the space it freed.
LEMMA AckTaken ==
    ASSUME NEW st, Settled(st), NEW num \in SeqNum, NEW bitmap \in SUBSET Nat, NEW env \in Env
    PROVE  LET r == TakeAck(st, num, bitmap, env)
           IN /\ Settled(r) /\ r.submitted = st.submitted /\ r.rx = st.rx
              /\ LineAcked(st, r, num, bitmap)
  <1> DEFINE tx == ProcessAck(st.tx, num, bitmap)
             x == [st EXCEPT !.tx = tx]
             loop == OnProbeDelivered(st.loop, st.probe.level)
             y == ApplyRateLoopLevel([x EXCEPT !.loop = loop], loop.level, env)
             z == [y EXCEPT !.probe = NoProbe]
             w == IF Resolves(st, num, bitmap) THEN z ELSE x
  <1>1. Sound(st) /\ InForce(st) /\ Due(st) /\ st \in Shape
    BY ShapeIs DEF Settled, Sound
  <1>2. tx \in TxSet
    BY <1>1, ProcessAckType DEF Shape, TxSet
  <1>3. TakeAck(st, num, bitmap, env) = PumpArqBacklog(ReportBuffer(w), env)
    BY DEF TakeAck
  <1> HIDE DEF tx
  <1>4. /\ x \in Shape /\ SameTuning(st, x) /\ x.air = st.air /\ x.queue = st.queue
        /\ x.held = st.held /\ x.backlog = st.backlog /\ x.submitted = st.submitted /\ x.loop = st.loop
        /\ x.tx = tx /\ x.rx = st.rx
    BY <1>1, <1>2 DEF Shape, SameTuning
  <1> HIDE DEF x
  <1>5. Sound(x) /\ InForce(x) /\ Due(x)
    BY <1>1, <1>4, WindowPart DEF Sound, Due, Transmitting
  <1>6. st.probe.level \in Nat
    <2>1. st.probe \in ProbeSet
      BY <1>1 DEF Shape
    <2>2. VhfTop \in Nat
      BY Constants
    <2>3. QED
      BY <2>1, <2>2 DEF ProbeSet, NoProbe
  <1>7. loop \in RateLoopType(Top(x))
    BY <1>1, <1>4, <1>6, SoundLevel, TopIs, LoopStays, TuningKept
  <1> HIDE DEF loop
  <1>8. Sound(y) /\ Retuned(x, y) /\ InForce(y)
    BY <1>5, <1>7, WithLoop
  <1> HIDE DEF y
  <1>9. y \in Shape /\ y.air \in Seq(AirFrame) /\ NoProbe \in ProbeSet /\ Due(y)
    BY <1>5, <1>8, RetunedKeeps, ShapeIs DEF Sound, ProbeSet
  <1>10. /\ z \in Shape /\ SameTuning(y, z) /\ z.air = y.air /\ z.queue = y.queue /\ z.held = y.held
         /\ z.backlog = y.backlog /\ z.submitted = y.submitted /\ z.tx = y.tx /\ z.rx = y.rx
    BY <1>9 DEF Shape, SameTuning
  <1> HIDE DEF z
  <1>11. Sound(z) /\ InForce(z) /\ Due(z)
    BY <1>8, <1>9, <1>10, SidePart, TuningKept DEF Due, Transmitting
  <1>12. /\ Sound(w) /\ InForce(w) /\ Due(w) /\ w.submitted = st.submitted
         /\ w.tx = tx /\ w.rx = st.rx /\ w.backlog = st.backlog /\ w.queue = st.queue /\ w.air = st.air
    BY <1>4, <1>5, <1>8, <1>10, <1>11 DEF Retuned, Untouched
  <1> HIDE DEF w
  <1> DEFINE v == PumpArqBacklog(ReportBuffer(w), env)
  <1>13. Settled(v) /\ v.submitted = w.submitted /\ LineKept(w, v)
    BY <1>12, Resumed
  <1> HIDE DEF v
  <1>14. ASSUME NEW r, NEW h \in Nat, NEW lo \in Nat, InLine(st, r, h, lo),
                TrueAck(st, r, h, num, bitmap)
         PROVE  /\ InLine(v, r, h, lo)
                /\ st.queue = << >> /\ st.air = << >> => InLine(v, r, h, Base(v))
    <2>1. /\ st.tx \in TxType(Data) /\ Sent(st) \in Int /\ Window \in 1 .. Ring /\ h \in Int
          /\ Coupled(st.tx, r, Sent(st), h, Window) /\ Base(st) \in Nat /\ lo <= Base(st)
      BY <1>1, <1>14, LineNumbers
    <2>2. PICK at \in Int :
             /\ num = at % SeqMod /\ at <= h /\ SendBase(st.tx, Sent(st)) - at < SeqMod - HalfSpace
             /\ bitmap \in SUBSET (0 .. SackRange - 1)
             /\ \A bit \in bitmap : ReceivedAt(r, h, at + (bit + 1))
      BY <1>14 DEF TrueAck, Base
    <2>3. /\ Coupled(ProcessAck(st.tx, at % SeqMod, bitmap), r, Sent(st), h, Window)
          /\ SendBase(ProcessAck(st.tx, at % SeqMod, bitmap), Sent(st)) =
                IF at > SendBase(st.tx, Sent(st)) THEN at ELSE SendBase(st.tx, Sent(st))
      BY <2>1, <2>2, CoupledAck
    <2>4. Sent(w) = Sent(st)
      BY <1>12 DEF Sent
    <2>5. Coupled(w.tx, r, Sent(w), h, Window) /\ Base(w) \in Nat /\ Base(st) <= Base(w)
      <3>1. Coupled(w.tx, r, Sent(w), h, Window)
        BY <1>12, <2>2, <2>3, <2>4 DEF tx
      <3>2. Base(w) = IF at > Base(st) THEN at ELSE Base(st)
        BY <1>12, <2>2, <2>3, <2>4 DEF tx, Base
      <3>3. QED
        BY <2>1, <3>1, <3>2
    <2>6. InLine(w, r, h, lo)
      BY <1>12, <1>14, <2>1, <2>4, <2>5 DEF InLine, Stocks
    <2>7. InLine(v, r, h, lo) /\ Base(v) = Base(w)
      BY <1>13, <2>6 DEF LineKept
    <2>8. ASSUME st.queue = << >>, st.air = << >> PROVE InLine(v, r, h, Base(v))
      <3>1. Stocks(w, Entries(Base(w), Sent(w)), OnAir(Base(w), Sent(w), w.rx))
        BY <1>12, <2>8, EmptySeq DEF Stocks
      <3>2. InLine(w, r, h, Base(w))
        BY <2>5, <3>1 DEF InLine
      <3>3. InLine(v, r, h, Base(w))
        BY <1>13, <2>5, <3>2 DEF LineKept
      <3>4. QED
        BY <2>7, <3>3
    <2>9. QED
      BY <2>7, <2>8
  <1>15. LineAcked(st, v, num, bitmap) /\ v.rx = st.rx
    BY <1>12, <1>13, <1>14 DEF LineAcked, LineKept
  <1>16. QED
    BY <1>3, <1>12, <1>13, <1>15 DEF v

\* A data PDU: what it acknowledges, then its own ACK.
LEMMA ReliableHandled ==
    ASSUME NEW st, Settled(st), NEW f \in Frame, f.data \in Data, NEW env \in Env
    PROVE  LET r == HandleReliable(st, f, env)
           IN /\ Settled(r) /\ r.submitted = st.submitted
              /\ r.rx = RxReceive(st.rx, f.num, f.data, Window)
              /\ st.air = << >> => LineAcked(st, r, 0, {})
  <1> DEFINE rx == RxReceive(st.rx, f.num, f.data, Window)
             x == [st EXCEPT !.rx = rx]
             a == AckFrame(rx)
             y == TakeAck(x, 0, {}, env)
  <1>1. Sound(st) /\ Counted(st) /\ InForce(st) /\ Due(st) /\ st \in Shape
    BY ShapeIs DEF Settled, Sound
  <1>2. f.num \in SeqNum /\ st.rx \in RxType(Data)
    BY <1>1 DEF Frame, Shape, RxSet
  <1>3. rx \in RxSet
    BY <1>2, RxReceiveType DEF RxSet
  <1>4. a \in Frame /\ a.type = "Ack" /\ a.lawful /\ \A lo, hi : a \in OnAir(lo, hi, rx)
    <2>1. rx \in RxType(Data)
      BY <1>3 DEF RxSet
    <2> HIDE DEF rx
    <2>2. AckInfo(rx).ack_num \in SeqNum /\ AckInfo(rx).bitmap \in SUBSET (0 .. SackRange - 1)
      BY <2>1, AckInfoType
    <2>3. QED
      BY <2>2 DEF AckFrame, Frame, OnAir
  <1>5. HandleReliable(st, f, env) = Transmit(y, AckFrame(x.rx), env)
    BY DEF HandleReliable
  <1> HIDE DEF rx
  <1>6. /\ x \in Shape /\ SameTuning(st, x) /\ x.air = st.air /\ x.queue = st.queue /\ x.rx = rx
        /\ x.held = st.held /\ x.backlog = st.backlog /\ x.submitted = st.submitted /\ x.tx = st.tx
        /\ x.reported = st.reported
    BY <1>1, <1>3 DEF Shape, SameTuning
  <1> HIDE DEF x
  <1>7. Sound(x) /\ InForce(x) /\ Due(x)
    BY <1>1, <1>6, WindowPart DEF Sound, Due, Transmitting
  <1>8. Settled(x)
    BY <1>1, <1>6, <1>7, CountedKept DEF Settled
  <1>9. 0 \in SeqNum
    BY ArqAssumption DEF SeqNum
  <1>10. Settled(y) /\ y.submitted = x.submitted /\ y.rx = x.rx /\ LineAcked(x, y, 0, {})
    BY <1>8, <1>9, AckTaken
  <1> HIDE DEF a, y
  <1> DEFINE t == Transmit(y, a, env)
  <1>11. Settled(t) /\ t.submitted = y.submitted /\ Untouched(y, t) /\ Keyed(y, t, a)
    BY <1>4, <1>10, TransmitKeeps DEF Settled, Untouched
  <1> HIDE DEF t
  <1>12. ASSUME st.air = << >>, NEW r, NEW h \in Nat, NEW lo \in Nat, InLine(st, r, h, lo),
                TrueAck(st, r, h, 0, {})
         PROVE  /\ InLine(t, r, h, lo)
                /\ st.queue = << >> /\ st.air = << >> => InLine(t, r, h, Base(t))
    <2>1. Sent(x) = Sent(st) /\ Base(x) = Base(st)
      BY <1>6 DEF Sent, Base
    <2>2. InLine(x, r, h, lo)
      <3>1. Stocks(x, Entries(lo, Sent(st)), OnAir(lo, Sent(st), x.rx))
        BY <1>6, <1>12, EmptySeq DEF InLine, Stocks
      <3>2. QED
        BY <1>6, <1>12, <2>1, <3>1 DEF InLine
    <2>3. TrueAck(x, r, h, 0, {})
      BY <1>12, <2>1 DEF TrueAck
    <2>4. /\ InLine(y, r, h, lo)
          /\ x.queue = << >> /\ x.air = << >> => InLine(y, r, h, Base(y))
      BY <1>10, <2>2, <2>3 DEF LineAcked
    <2>5. \A l : InLine(y, r, h, l) => InLine(t, r, h, l) /\ Base(t) = Base(y)
      <3>1. \A l : a \in OnAir(l, Sent(y), y.rx)
        BY <1>4, <1>6, <1>10
      <3>2. QED
        BY <1>11, <3>1, LineKeyed
    <2>6. QED
      BY <1>6, <2>4, <2>5
  <1>13. st.air = << >> => LineAcked(st, t, 0, {})
    BY <1>12 DEF LineAcked
  <1>14. t.rx = rx
    BY <1>6, <1>10, <1>11 DEF Untouched
  <1>15. QED
    BY <1>5, <1>6, <1>10, <1>11, <1>13, <1>14 DEF a, t, rx

\* A pure ACK and its recommendation.
LEMMA AckHandled ==
    ASSUME NEW st, Settled(st), NEW f \in Frame, NEW rate \in Nat, NEW env \in Env
    PROVE  LET r == HandleAck(st, f, rate, env)
           IN /\ Settled(r) /\ r.submitted = st.submitted /\ r.rx = st.rx
              /\ LineAcked(st, r, f.num, f.bitmap)
  <1> DEFINE x == TakeAck(st, f.num, f.bitmap, env)
             loop == OnAck(x.loop, rate)
             y == ApplyRateLoopLevel([x EXCEPT !.loop = loop], loop.level, env)
  <1>1. f.num \in SeqNum /\ f.bitmap \in SUBSET Nat
    BY ArqAssumption DEF Frame
  <1>2. /\ Settled(x) /\ x.submitted = st.submitted /\ x.rx = st.rx
        /\ LineAcked(st, x, f.num, f.bitmap)
    BY <1>1, AckTaken
  <1>3. HandleAck(st, f, rate, env) = IF Resolves(st, f.num, f.bitmap) THEN x ELSE y
    BY DEF HandleAck
  <1> HIDE DEF x
  <1>4. Sound(x) /\ Counted(x) /\ InForce(x) /\ Due(x)
    BY <1>2 DEF Settled
  <1>5. loop \in RateLoopType(Top(x))
    BY <1>4, SoundLevel, TopIs, LoopStays
  <1> HIDE DEF loop
  <1>6. Sound(y) /\ Retuned(x, y) /\ InForce(y)
    BY <1>4, <1>5, WithLoop
  <1> HIDE DEF y
  <1>7. Settled(y) /\ y.submitted = x.submitted
    BY <1>4, <1>6, RetunedKeeps DEF Settled, Retuned, Untouched
  <1>8. y.rx = x.rx /\ LineAcked(st, y, f.num, f.bitmap)
    <2>1. y.rx = x.rx /\ y.tx = x.tx /\ y.queue = x.queue /\ y.air = x.air /\ Sent(y) = Sent(x)
      BY <1>6 DEF Retuned, Untouched, Sent
    <2>2. \A r, h, l : InLine(x, r, h, l) => InLine(y, r, h, l) /\ Base(y) = Base(x)
      BY <2>1 DEF InLine, Stocks, Base
    <2>3. QED
      BY <1>2, <2>1, <2>2 DEF LineAcked
  <1>9. QED
    BY <1>2, <1>3, <1>7, <1>8

\* A Reset: fresh windows, the queue as it was.
LEMMA ResetHandled ==
    ASSUME NEW st, Settled(st), NEW env \in Env
    PROVE  LET r == HandleReset(st, env)
           IN Settled(r) /\ r.submitted = st.submitted
  <1> DEFINE x == [st EXCEPT !.tx = ArqTxNew, !.rx = ArqRxNew, !.probe = NoProbe]
  <1>1. Sound(st) /\ InForce(st) /\ Due(st) /\ st \in Shape
    BY ShapeIs DEF Settled, Sound
  <1>2. ArqTxNew \in TxSet /\ ArqRxNew \in RxSet /\ NoProbe \in ProbeSet
    BY NewTx DEF TxSet, RxSet, ProbeSet
  <1>3. HandleReset(st, env) = PumpArqBacklog(ReportBuffer(x), env)
    BY DEF HandleReset
  <1>4. /\ x \in Shape /\ SameTuning(st, x) /\ x.air = st.air /\ x.queue = st.queue
        /\ x.held = st.held /\ x.backlog = st.backlog /\ x.submitted = st.submitted
    BY <1>1, <1>2 DEF Shape, SameTuning
  <1> HIDE DEF x
  <1>5. Sound(x) /\ InForce(x) /\ Due(x)
    BY <1>1, <1>4, WindowPart DEF Sound, Due, Transmitting
  <1>6. QED
    BY <1>3, <1>4, <1>5, Resumed

-----------------------------------------------------------------------------
(* The 500 ms poll. *)

\* Every number of a set has a segment in its slot.
Filled(tx, seqs) == \A q \in seqs : tx.tx_buf[SlotOf(q)] # NoSegment

\* A mark counts one more transmission: the segment stays, acknowledged or not.
LEMMA MarkKeeps ==
    ASSUME NEW t \in TxType(Data), NEW S \in SUBSET SeqNum, NEW seqs \in SUBSET SeqNum
    PROVE  /\ MarkRetransmitted(t, S) \in TxType(Data)
           /\ UnackedSlots(MarkRetransmitted(t, S)) = UnackedSlots(t)
           /\ Filled(t, seqs) => Filled(MarkRetransmitted(t, S), seqs)
           /\ Outstanding(MarkRetransmitted(t, S)) = Outstanding(t)
  <1> DEFINE t2 == MarkRetransmitted(t, S)
  <1>1. t2 \in TxType(Data)
    BY MarkRetransmittedType
  <1>2. ASSUME NEW i \in Slot
        PROVE  /\ t2.tx_buf[i] # NoSegment <=> t.tx_buf[i] # NoSegment
               /\ t.tx_buf[i] # NoSegment => t2.tx_buf[i].acked = t.tx_buf[i].acked
    <2> DEFINE seg == t.tx_buf[i]
               up == [seg EXCEPT !.transmit_count = IF @ < CountMax THEN @ + 1 ELSE @]
    <2>1. t2.tx_buf[i] = IF seg.seq_num \in S /\ ~seg.acked THEN up ELSE seg
      BY DEF MarkRetransmitted, TxType
    <2>2. seg \in Segment(Data) \cup {NoSegment} /\ SeqMod \notin SeqNum
      BY Constants DEF TxType
    <2>3. seg = NoSegment => seg.seq_num \notin S
      BY <2>2 DEF NoSegment
    <2>4. seg \in Segment(Data) => /\ seg # NoSegment /\ up # NoSegment /\ up.acked = seg.acked
      BY <2>2 DEF Segment, NoSegment
    <2> HIDE DEF seg, up, t2
    <2>5. QED
      BY <2>1, <2>2, <2>3, <2>4 DEF seg
  <1> HIDE DEF t2
  <1>3. UnackedSlots(t2) = UnackedSlots(t)
    BY <1>2 DEF UnackedSlots
  <1>4. \A q \in seqs : SlotOf(q) \in Slot
    BY ArqAssumption DEF SeqNum, SlotOf, Slot
  <1>5. Filled(t, seqs) => Filled(t2, seqs)
    BY <1>2, <1>4 DEF Filled
  <1>6. Outstanding(MarkRetransmitted(t, S)) = Outstanding(t)
    <2>1. /\ MarkRetransmitted(t, S).send_base = t.send_base
          /\ MarkRetransmitted(t, S).next_seq = t.next_seq
      BY DEF MarkRetransmitted, TxType
    <2>2. QED
      BY <2>1 DEF Outstanding, InFlight
  <1>7. QED
    BY <1>1, <1>3, <1>5, <1>6 DEF t2

\* One segment again.
LEMMA OneResent ==
    ASSUME NEW st, Settled(st), NEW seqs \in SUBSET SeqNum, Filled(st.tx, seqs), NEW seq \in seqs,
           NEW env \in Env
    PROVE  LET r == RetransmitOne(st, seq, env)
           IN /\ Settled(r) /\ r.submitted = st.submitted /\ Filled(r.tx, seqs)
              /\ Outstanding(r.tx) = Outstanding(st.tx)
              /\ seq \in Outstanding(st.tx) => LineKept(st, r)
  <1> DEFINE d == st.tx.tx_buf[SlotOf(seq)].data
             sent == Transmit(st, DataFrame(seq, d), env)
             tx == MarkRetransmitted(sent.tx, {seq})
             r == [sent EXCEPT !.tx = tx]
  <1>1. Sound(st) /\ Counted(st) /\ InForce(st) /\ st.tx \in TxType(Data)
    BY ShapeIs DEF Settled, Sound, Shape, TxSet
  <1>2. d \in Data
    <2>1. SlotOf(seq) \in Slot
      BY ArqAssumption DEF SeqNum, SlotOf, Slot
    <2>2. st.tx.tx_buf[SlotOf(seq)] \in Segment(Data)
      BY <1>1, <2>1 DEF TxType, Filled
    <2>3. QED
      BY <2>2 DEF Segment
  <1>3. RetransmitOne(st, seq, env) = r
    BY DEF RetransmitOne
  <1> HIDE DEF d
  <1>4. DataFrame(seq, d) \in Frame /\ DataFrame(seq, d).data \in Data /\ DataFrame(seq, d).lawful
    BY <1>2 DEF Frame, DataFrame
  <1>5. /\ Sound(sent) /\ Counted(sent) /\ Due(sent) /\ InForce(sent) /\ sent.tx = st.tx
        /\ sent.submitted = st.submitted /\ Untouched(st, sent) /\ Keyed(st, sent, DataFrame(seq, d))
    BY <1>1, <1>4, TransmitKeeps DEF Untouched
  <1> HIDE DEF sent
  <1>6. sent \in Shape /\ sent.backlog <= sent.submitted /\ sent.submitted \in Data \cup {0}
    BY <1>5, ShapeIs DEF Sound
  <1>7. /\ tx \in TxSet /\ UnackedSlots(tx) = UnackedSlots(st.tx) /\ Filled(tx, seqs)
        /\ Outstanding(tx) = Outstanding(st.tx) /\ tx = MarkRetransmitted(st.tx, {seq})
    <2>1. {seq} \in SUBSET SeqNum
      OBVIOUS
    <2>2. QED
      BY <1>1, <1>5, <2>1, MarkKeeps DEF TxSet
  <1> HIDE DEF tx
  <1>8. /\ r \in Shape /\ SameTuning(sent, r) /\ r.air = sent.air /\ r.queue = sent.queue
        /\ r.held = sent.held /\ r.backlog = sent.backlog /\ r.submitted = sent.submitted
        /\ r.reported = sent.reported /\ r.tx = tx /\ r.rx = sent.rx
    BY <1>6, <1>7 DEF Shape, SameTuning
  <1> HIDE DEF r
  <1>9. Sound(r) /\ InForce(r) /\ Due(r)
    BY <1>5, <1>6, <1>8, WindowPart DEF Due, Transmitting
  <1>10. Counted(r)
    BY <1>5, <1>7, <1>8 DEF Counted, BufferedTx
  <1>11. seq \in Outstanding(st.tx) => LineKept(st, r)
    <2>1. SUFFICES ASSUME seq \in Outstanding(st.tx) PROVE LineKept(st, r)
      OBVIOUS
    <2>2. ASSUME NEW rr, NEW h \in Nat, NEW lo \in Nat, InLine(st, rr, h, lo)
          PROVE  InLine(r, rr, h, lo) /\ Base(r) = Base(st)
      <3>1. /\ st.tx \in TxType(Data) /\ Sent(st) \in Int /\ Window \in 1 .. Ring /\ h \in Int
            /\ Coupled(st.tx, rr, Sent(st), h, Window) /\ Base(st) \in Nat /\ lo <= Base(st)
        BY <1>1, <2>2, LineNumbers
      <3>2. PICK n \in Base(st) .. Sent(st) - 1 : seq = n % SeqMod /\ d = n + 1
        BY <2>1, <3>1, CoupledOutstanding DEF Base, d
      <3>3. lo < d /\ d <= Sent(st) /\ seq = (d - 1) % SeqMod
        <4>1. n \in Int /\ (n + 1) - 1 = n
          BY <3>1
        <4>2. QED
          BY <3>1, <3>2, <4>1
      <3>4. DataFrame(seq, d) \in OnAir(lo, Sent(st), st.rx)
        BY <1>4, <3>3 DEF OnAir, DataFrame
      <3>5. InLine(sent, rr, h, lo) /\ Base(sent) = Base(st)
        BY <1>5, <2>2, <3>4, LineKeyed
      <3>6. Coupled(tx, rr, Sent(st), h, Window) /\ InFlight(tx) = InFlight(st.tx)
        <4>1. {seq} \in SUBSET SeqNum
          OBVIOUS
        <4>2. QED
          BY <1>7, <3>1, <4>1, CoupledMark
      <3>7. Sent(r) = Sent(st) /\ Base(r) = Base(st) /\ Sent(sent) = Sent(st) /\ r.rx = sent.rx
        BY <1>5, <1>8, <3>6 DEF Sent, Base, SendBase, Untouched
      <3>8. QED
        BY <1>8, <3>1, <3>5, <3>6, <3>7 DEF InLine, Stocks
    <2>3. r.rx = st.rx
      BY <1>5, <1>8 DEF Untouched
    <2>4. QED
      BY <2>2, <2>3 DEF LineKept
  <1>12. QED
    BY <1>3, <1>5, <1>7, <1>8, <1>9, <1>10, <1>11 DEF Settled, r

\* check_arq_retransmits: a failed probe, a timeout, and every resend in turn.
LEMMA Resent ==
    ASSUME NEW st, Settled(st), NEW expired, NEW env \in Env
    PROVE  LET r == CheckArqRetransmits(st, expired, env)
           IN Settled(r) /\ r.submitted = st.submitted /\ LineKept(st, r)
  <1> DEFINE seqs == GetRetransmits(st.tx, expired, MaxRetransmit)
             probe == IF st.probe.seq \in seqs THEN NoProbe ELSE st.probe
             judged == [st EXCEPT !.probe = probe]
             loop == OnTimeout(st.loop)
             lowered == IF seqs \ {st.probe.seq} = {} THEN judged
                        ELSE ApplyRateLoopLevel([judged EXCEPT !.loop = loop], loop.level, env)
             n == Cardinality(seqs)
             order == CHOOSE o \in [1 .. n -> seqs] :
                        \A i, j \in DOMAIN o :
                            i < j => WrapSub(o[i], st.tx.send_base) < WrapSub(o[j], st.tx.send_base)
             Runs(m, f) == f = [k \in 0 .. m |->
                                  IF k = 0 THEN lowered ELSE RetransmitOne(f[k - 1], order[k], env)]
             run == CHOOSE f : Runs(n, f)
  <1>1. Sound(st) /\ Counted(st) /\ InForce(st) /\ Due(st) /\ st \in Shape /\ st.tx \in TxType(Data)
    BY ShapeIs DEF Settled, Sound, Shape, TxSet
  <1>2. /\ seqs \in SUBSET SeqNum /\ Filled(st.tx, seqs) /\ st.tx.send_base \in Int
        /\ seqs \subseteq Outstanding(st.tx)
    <2>1. st.tx.send_base \in Int
      BY <1>1 DEF TxType, SeqNum
    <2>2. \A k \in Int : WrapAdd(st.tx.send_base, k) \in SeqNum
      BY <2>1, WrapType
    <2>3. Outstanding(st.tx) \subseteq SeqNum
      BY <2>2 DEF Outstanding
    <2>4. QED
      BY <2>1, <2>3 DEF GetRetransmits, Filled
  <1>3. CheckArqRetransmits(st, expired, env) = run[n]
    <2>1. judged = [st EXCEPT !.probe = IF @.seq \in seqs THEN NoProbe ELSE @]
      OBVIOUS
    <2> HIDE DEF judged
    <2>2. QED
      BY <2>1 DEF CheckArqRetransmits
  <1> HIDE DEF seqs
  <1>4. n \in Nat /\ \A k \in 1 .. n : order[k] \in seqs
    <2>1. n \in Nat /\ order \in [1 .. n -> seqs]
      BY <1>2, OrderExists
    <2> HIDE DEF order, n
    <2>2. QED
      BY <2>1
  <1>5. probe \in ProbeSet
    BY <1>1 DEF Shape, ProbeSet
  <1> HIDE DEF probe
  <1>6. /\ judged \in Shape /\ SameTuning(st, judged) /\ judged.air = st.air /\ judged.queue = st.queue
        /\ judged.held = st.held /\ judged.backlog = st.backlog /\ judged.submitted = st.submitted
        /\ judged.tx = st.tx /\ judged.reported = st.reported /\ judged.rx = st.rx
    BY <1>1, <1>5 DEF Shape, SameTuning
  <1> HIDE DEF judged
  <1>7. /\ Sound(judged) /\ InForce(judged) /\ Due(judged) /\ Counted(judged)
    BY <1>1, <1>6, WindowPart, CountedKept DEF Sound, Due, Transmitting
  <1>8. /\ Settled(lowered) /\ lowered.submitted = st.submitted /\ Filled(lowered.tx, seqs)
        /\ lowered.tx = st.tx /\ LineKept(st, lowered)
    <2>1. CASE seqs \ {st.probe.seq} = {}
      <3>1. LineKept(st, judged)
        BY <1>6, LineUnchanged DEF Sent
      <3>2. QED
        BY <1>2, <1>6, <1>7, <2>1, <3>1 DEF Settled
    <2>2. CASE seqs \ {st.probe.seq} # {}
      <3> DEFINE y == ApplyRateLoopLevel([judged EXCEPT !.loop = loop], loop.level, env)
      <3>1. loop \in RateLoopType(Top(judged))
        <4>1. st.loop \in RateLoopType(Top(st)) /\ Top(st) \in Nat \ {0} /\ 0 \in Nat
          BY <1>1, SoundLevel, TopIs
        <4>2. OnTimeout(st.loop) \in RateLoopType(Top(st))
          BY <4>1, LoopStays
        <4>3. QED
          BY <4>2, <1>6, TuningKept
      <3> HIDE DEF loop
      <3>2. Sound(y) /\ Retuned(judged, y) /\ InForce(y)
        BY <1>7, <3>1, WithLoop
      <3>3. lowered = y
        BY <2>2
      <3> HIDE DEF y, lowered
      <3>4. Counted(y) /\ Due(y) /\ y.tx = st.tx /\ y.submitted = st.submitted
        BY <1>6, <1>7, <3>2, RetunedKeeps DEF Retuned, Untouched
      <3>5. LineKept(st, y)
        BY <1>6, <3>2, LineUnchanged DEF Retuned, Untouched, Sent
      <3>6. QED
        BY <1>2, <3>2, <3>3, <3>4, <3>5 DEF Settled
    <2>3. QED
      BY <2>1, <2>2
  <1> HIDE DEF n, run, order, lowered
  <1>9. \A m \in Nat : \E f : Runs(m, f)
    <2> DEFINE Bad == {m \in Nat : ~\E f : Runs(m, f)}
    <2>1. SUFFICES ASSUME Bad # {} PROVE FALSE
      OBVIOUS
    <2>2. PICK m \in Bad : \A y \in Bad : m <= y
      BY <2>1, MinNat
    <2>3. CASE m = 0
      <3> DEFINE f == [k \in 0 .. 0 |-> lowered]
      <3>1. Runs(0, f)
        OBVIOUS
      <3>2. QED
        BY <2>2, <2>3, <3>1
    <2>4. CASE m # 0
      <3>1. m - 1 \in Nat /\ m - 1 \notin Bad /\ m \in Nat
        <4>1. m \in Nat
          BY <2>2
        <4> HIDE DEF Bad
        <4>2. QED
          BY <2>2, <2>4, <4>1
      <3>2. PICK f : Runs(m - 1, f)
        BY <3>1
      <3> DEFINE g == [k \in 0 .. m |-> IF k < m THEN f[k] ELSE RetransmitOne(f[m - 1], order[m], env)]
      <3>3. ASSUME NEW k \in 0 .. m
            PROVE  g[k] = IF k = 0 THEN lowered ELSE RetransmitOne(g[k - 1], order[k], env)
        <4>1. CASE k < m
          <5>1. k \in 0 .. m - 1 /\ g[k] = f[k] /\ (k # 0 => g[k - 1] = f[k - 1])
            BY <4>1, <3>1
          <5>2. f[k] = IF k = 0 THEN lowered ELSE RetransmitOne(f[k - 1], order[k], env)
            BY <3>2, <5>1
          <5>3. QED
            BY <5>1, <5>2
        <4>2. CASE k = m
          BY <4>2, <3>1, <2>4
        <4>3. QED
          BY <4>1, <4>2, <3>1
      <3>4. Runs(m, g)
        BY <3>3
      <3>5. QED
        BY <2>2, <3>4
    <2>5. QED
      BY <2>3, <2>4
  <1>10. Runs(n, run)
    BY <1>4, <1>9 DEF run
  <1>11. \A k \in 0 .. n : run[k] = IF k = 0 THEN lowered ELSE RetransmitOne(run[k - 1], order[k], env)
    BY <1>10
  <1> HIDE DEF Runs
  <1> DEFINE Good(k) == /\ Settled(run[k]) /\ run[k].submitted = st.submitted
                        /\ Filled(run[k].tx, seqs)
                        /\ Outstanding(run[k].tx) = Outstanding(st.tx) /\ LineKept(st, run[k])
             Bad == {k \in 0 .. n : ~Good(k)}
  <1>12. Bad = {}
    <2>1. SUFFICES ASSUME Bad # {} PROVE FALSE
      OBVIOUS
    <2>2. Bad \in SUBSET Nat
      BY <1>4
    <2>3. PICK k \in Bad : \A y \in Bad : k <= y
      BY <2>1, <2>2, MinNat
    <2>4. CASE k = 0
      <3>1. Good(0)
        BY <1>4, <1>8, <1>11, <2>3, <2>4
      <3>2. QED
        BY <2>3, <2>4, <3>1
    <2>5. CASE k # 0
      <3>1. k - 1 \in 0 .. n /\ k - 1 \notin Bad /\ k \in 0 .. n /\ k \in 1 .. n
        BY <1>4, <2>3, <2>5
      <3>2. Good(k - 1)
        BY <3>1
      <3>3. order[k] \in seqs
        BY <1>4, <3>1
      <3>4. run[k] = RetransmitOne(run[k - 1], order[k], env)
        BY <1>11, <2>5, <3>1
      <3>5. /\ Settled(run[k]) /\ run[k].submitted = run[k - 1].submitted
            /\ Filled(run[k].tx, seqs) /\ Outstanding(run[k].tx) = Outstanding(run[k - 1].tx)
            /\ LineKept(run[k - 1], run[k])
        BY <1>2, <3>2, <3>3, <3>4, OneResent
      <3>6. LineKept(st, run[k])
        BY <3>2, <3>5, LineTrans
      <3>8. Good(k)
        BY <3>2, <3>5, <3>6
      <3>9. QED
        BY <2>3, <3>8
    <2>6. QED
      BY <2>4, <2>5
  <1>13. n \in 0 .. n
    BY <1>4
  <1>14. Good(n)
    BY <1>12, <1>13
  <1>15. QED
    BY <1>3, <1>14

-----------------------------------------------------------------------------
(* Events. *)

\* A frame has played; with the last of them the queue goes on.
LEMMA PlayedKeeps ==
    ASSUME NEW st, Settled(st), st.air # << >>, NEW env \in Env
    PROVE  /\ Settled(Played(st, env)) /\ Untouched(st, Played(st, env))
           /\ StocksKept(st, Played(st, env))
  <1> DEFINE off == [st EXCEPT !.air = Tail(@)]
             r == ReportBuffer(off)
  <1>1. Sound(st) /\ Counted(st) /\ InForce(st) /\ st \in Shape /\ st.air \in Seq(AirFrame)
    BY ShapeIs DEF Settled, Sound
  <1>2. Tail(st.air) \in Seq(AirFrame) /\ Tail(st.air) \in AirSet
    <2> DEFINE a == st.air
    <2>1. a # << >> /\ a \in Seq(AirFrame) /\ a \in Seq(Frame)
      BY <1>1 DEF Shape, AirSet
    <2> HIDE DEF a
    <2>2. Tail(a) \in Seq(AirFrame) /\ Tail(a) \in Seq(Frame)
      BY <2>1
    <2>3. QED
      BY <2>2 DEF a, AirSet
  <1>3. /\ off \in Shape /\ SameTuning(st, off) /\ Untouched(st, off) /\ off.air = Tail(st.air)
        /\ off.backlog = st.backlog /\ off.submitted = st.submitted /\ off.reported = st.reported
        /\ off.tx = st.tx /\ off.queue = st.queue
    BY <1>1, <1>2 DEF Shape, SameTuning, Untouched
  <1>4. Played(st, env) = IF Transmitting(off) THEN off ELSE TryDrainTxQueue(r, env)
    BY DEF Played
  <1> HIDE DEF off
  <1>5. Sound(off) /\ InForce(off) /\ Counted(off)
    BY <1>1, <1>2, <1>3, SidePart, TuningKept, CountedKept
  <1>6. Transmitting(off) => Settled(off)
    BY <1>5 DEF Settled, Due
  <1>7. /\ Sound(r) /\ Counted(r) /\ Untouched(off, r) /\ SameTuning(off, r)
        /\ r.queue = off.queue /\ r.air = off.air
    BY <1>5, Report
  <1> HIDE DEF r
  <1>8. InForce(r)
    BY <1>5, <1>7, TuningKept
  <1>9. /\ Settled(TryDrainTxQueue(r, env)) /\ Untouched(r, TryDrainTxQueue(r, env))
        /\ StocksKept(r, TryDrainTxQueue(r, env))
    BY <1>7, <1>8, Drained
  <1>10. StocksKept(st, off)
    <2>1. ASSUME NEW Q, NEW A, Stocks(st, Q, A) PROVE Stocks(off, Q, A)
      BY <2>1, <1>3, HeadTailProperties DEF Stocks
    <2>2. QED
      BY <2>1 DEF StocksKept
  <1>11. StocksKept(st, TryDrainTxQueue(r, env))
    BY <1>7, <1>9, <1>10 DEF StocksKept, Stocks
  <1>12. QED
    BY <1>3, <1>4, <1>6, <1>7, <1>9, <1>10, <1>11 DEF Untouched

\* The operator's pin: the engine is taken there first, as far as it goes.
LEMMA Pinned ==
    ASSUME NEW st, Settled(st), NEW level \in LevelSet, NEW env \in Env
    PROVE  LET at == IF st.level = level THEN st ELSE ApplySpeedLevel(st, level, env)
               r == [at EXCEPT !.manual = at.level]
           IN Settled(r) /\ r.submitted = st.submitted /\ LineKept(st, r)
  <1> DEFINE at == IF st.level = level THEN st ELSE ApplySpeedLevel(st, level, env)
             r == [at EXCEPT !.manual = at.level]
  <1>1. Sound(st) /\ Counted(st) /\ Due(st)
    BY DEF Settled
  <1>2. Sound(at) /\ Retuned(st, at)
    <2>1. Retuned(st, st)
      BY DEF Retuned, Untouched
    <2>2. Sound(ApplySpeedLevel(st, level, env)) /\ Retuned(st, ApplySpeedLevel(st, level, env))
      BY <1>1, SpeedLevel
    <2>3. QED
      BY <1>1, <2>1, <2>2
  <1> HIDE DEF at
  <1>3. /\ at \in Shape /\ at.level \in 1 .. Top(at) /\ at.level \in Nat /\ at.level \in PinSet
        /\ Top(at) \in Nat
    <2>1. at \in Shape /\ at.level \in 1 .. Top(at) /\ at.level \in Nat /\ Top(at) \in Nat
      BY <1>2, SoundLevel, TopIs
    <2>2. at.level \in LevelSet
      BY <2>1 DEF Shape
    <2>3. QED
      BY <2>1, <2>2 DEF LevelSet, PinSet
  <1>4. /\ r \in Shape /\ r.manual = at.level /\ r.level = at.level /\ r.band = at.band
        /\ r.loop = at.loop /\ r.tx = at.tx /\ r.backlog = at.backlog /\ r.submitted = at.submitted
        /\ r.reported = at.reported /\ r.queue = at.queue /\ r.held = at.held /\ r.air = at.air
        /\ r.rx = at.rx
    BY <1>3 DEF Shape
  <1> HIDE DEF r
  <1>5. Top(r) = Top(at)
    BY <1>4 DEF Top
  <1>6. Sound(r)
    BY <1>2, <1>4, <1>5, ShapeIs DEF Sound
  <1>7. Min({r.manual, Top(r)}) = r.level /\ r.manual # 0
    BY <1>3, <1>4, <1>5, MinMax
  <1>8. InForce(r)
    BY <1>7 DEF InForce
  <1>9. Counted(at) /\ Due(at) /\ at.submitted = st.submitted
    BY <1>1, <1>2, RetunedKeeps DEF Retuned, Untouched
  <1>10. Counted(r) /\ Due(r)
    BY <1>4, <1>9, CountedKept DEF Due, Transmitting
  <1>11. LineKept(st, r)
    BY <1>2, <1>4, LineUnchanged DEF Retuned, Untouched, Sent
  <1>12. QED
    BY <1>4, <1>6, <1>8, <1>9, <1>10, <1>11 DEF Settled, r, at

\* The pin taken back: the engine goes to the controller's level.
LEMMA Unpinned ==
    ASSUME NEW st, Settled(st), NEW env \in Env
    PROVE  LET x == [st EXCEPT !.manual = 0]
               r == IF x.level = x.loop.level THEN x ELSE ApplySpeedLevel(x, x.loop.level, env)
           IN Settled(r) /\ r.submitted = st.submitted /\ LineKept(st, r)
  <1> DEFINE x == [st EXCEPT !.manual = 0]
             y == ApplySpeedLevel(x, x.loop.level, env)
  <1>1. Sound(st) /\ Counted(st) /\ Due(st) /\ st \in Shape /\ st.loop.level \in LevelSet
    BY SoundLevel, TopIs DEF Settled
  <1>2. 0 \in PinSet
    BY Constants DEF PinSet
  <1>3. /\ x \in Shape /\ x.manual = 0 /\ x.level = st.level /\ x.band = st.band
        /\ x.loop = st.loop /\ x.tx = st.tx /\ x.backlog = st.backlog /\ x.submitted = st.submitted
        /\ x.reported = st.reported /\ x.queue = st.queue /\ x.held = st.held /\ x.air = st.air
        /\ x.rx = st.rx
    BY <1>1, <1>2 DEF Shape
  <1> HIDE DEF x
  <1>4. Top(x) = Top(st)
    BY <1>3 DEF Top
  <1>5. Sound(x)
    BY <1>1, <1>3, <1>4, ShapeIs DEF Sound
  <1>6. Counted(x) /\ Due(x)
    BY <1>1, <1>3, CountedKept DEF Due, Transmitting
  <1>7. x.level = x.loop.level => Settled(x)
    BY <1>3, <1>5, <1>6 DEF Settled, InForce
  <1>8. /\ Sound(y) /\ Retuned(x, y) /\ y.level = Min({x.loop.level, Top(y)})
        /\ y.loop.level = Min({x.loop.level, Top(y)})
    BY <1>1, <1>3, <1>5, SpeedLevel
  <1> HIDE DEF y
  <1>9. Settled(y) /\ y.submitted = x.submitted
    <2>1. y.manual = 0 /\ y.submitted = x.submitted
      BY <1>3, <1>8 DEF Retuned, Untouched
    <2>2. InForce(y)
      BY <1>8, <2>1 DEF InForce
    <2>3. QED
      BY <1>6, <1>8, <2>1, <2>2, RetunedKeeps DEF Settled
  <1>10. LineKept(st, x)
    BY <1>3, LineUnchanged DEF Sent
  <1>11. LineKept(st, y)
    BY <1>3, <1>8, LineUnchanged DEF Retuned, Untouched, Sent
  <1>12. QED
    BY <1>3, <1>7, <1>9, <1>10, <1>11 DEF x, y

\* A payload of the host's.
LEMMA Submitted ==
    ASSUME NEW s \in Stations, NEW st, Settled(st), st.submitted < Payloads[s], NEW env \in Env
    PROVE  LET x == [st EXCEPT !.backlog = @ + 1, !.submitted = @ + 1]
               r == PumpArqBacklog(ReportBuffer(x), env)
           IN /\ Settled(r) /\ r.submitted <= Payloads[s] /\ LineKept(st, r)
              /\ r.submitted = st.submitted + 1
  <1> DEFINE b == st.backlog + 1
             n == st.submitted + 1
             x == [st EXCEPT !.backlog = b, !.submitted = n]
  <1>1. /\ Sound(st) /\ InForce(st) /\ Due(st) /\ st \in Shape /\ st.backlog <= st.submitted
        /\ st.backlog \in Nat /\ st.submitted \in Nat /\ st.submitted \in Data \cup {0}
    BY ShapeIs DEF Settled, Sound, Shape
  <1>2. b \in Nat /\ n \in Nat /\ b <= n /\ n \in Data \cup {0} /\ n <= Payloads[s]
    <2>1. Payloads[s] \in Nat /\ 0 .. Payloads[s] \subseteq Data \cup {0}
      BY Constants, SessionlessAssumption
    <2>2. b \in Nat /\ n \in Nat /\ b <= n /\ n <= Payloads[s] /\ n \in 0 .. Payloads[s]
      BY <1>1, <2>1
    <2> HIDE DEF n, b
    <2>3. QED
      BY <2>1, <2>2
  <1>3. x = [st EXCEPT !.backlog = @ + 1, !.submitted = @ + 1]
    OBVIOUS
  <1> HIDE DEF b, n
  <1>4. /\ x \in Shape /\ SameTuning(st, x) /\ x.air = st.air /\ x.queue = st.queue
        /\ x.held = st.held /\ x.backlog = b /\ x.submitted = n /\ x.tx = st.tx /\ x.rx = st.rx
    BY <1>1, <1>2 DEF Shape, SameTuning
  <1> HIDE DEF x
  <1>5. Sound(x) /\ InForce(x) /\ Due(x)
    BY <1>1, <1>2, <1>4, WindowPart DEF Due, Transmitting
  <1>6. LET r == PumpArqBacklog(ReportBuffer(x), env)
        IN Settled(r) /\ r.submitted = x.submitted /\ LineKept(x, r)
    BY <1>5, Resumed
  <1>7. LineKept(st, x)
    <2>1. Sent(x) = Sent(st)
      BY <1>1, <1>4 DEF Sent, b, n
    <2>2. QED
      BY <1>4, <2>1, LineUnchanged
  <1>8. n = st.submitted + 1
    BY DEF n
  <1>9. QED
    BY <1>2, <1>3, <1>4, <1>6, <1>7, <1>8, LineTrans

\* The poll: the resends, then the queue that waits.
LEMMA Polled ==
    ASSUME NEW st, Settled(st), NEW expired, NEW env \in Env
    PROVE  LET r == RetryHeld(CheckArqRetransmits(st, expired, env), env)
           IN Settled(r) /\ r.submitted = st.submitted /\ LineKept(st, r)
  <1> DEFINE c == CheckArqRetransmits(st, expired, env)
  <1>1. Settled(c) /\ c.submitted = st.submitted /\ LineKept(st, c)
    BY Resent
  <1> HIDE DEF c
  <1>2. /\ Settled(TryDrainTxQueue(c, env)) /\ Untouched(c, TryDrainTxQueue(c, env))
        /\ StocksKept(c, TryDrainTxQueue(c, env))
    BY <1>1, Drained DEF Settled
  <1>3. LineKept(st, TryDrainTxQueue(c, env))
    BY <1>1, <1>2, LineStocked, LineTrans
  <1>4. QED
    BY <1>1, <1>2, <1>3 DEF RetryHeld, Untouched, c

-----------------------------------------------------------------------------
(* The invariant. *)

\* The events of one station.
LEMMA OneStation ==
    ASSUME SessionlessInv, NEW s \in Stations, NEW st, Settled(st), st.submitted <= Payloads[s],
           station' = [station EXCEPT ![s] = st]
    PROVE  /\ station' \in [Stations -> StationType]
           /\ \A q \in Stations : Settled(station'[q]) /\ station'[q].submitted <= Payloads[q]
  <1>1. st \in StationType
    BY DEF Settled, Sound
  <1> HIDE DEF StationType
  <1>2. QED
    BY <1>1 DEF SessionlessInv

\* And of two: one plays, the other hears.
LEMMA BothStations ==
    ASSUME SessionlessInv, NEW s \in Stations,
           NEW x, Settled(x), x.submitted <= Payloads[s],
           NEW y, Settled(y), y.submitted <= Payloads[Other(s)],
           station' = [station EXCEPT ![s] = x, ![Other(s)] = y]
    PROVE  /\ station' \in [Stations -> StationType]
           /\ \A q \in Stations : Settled(station'[q]) /\ station'[q].submitted <= Payloads[q]
  <1> DEFINE p == Other(s)
  <1>1. x \in StationType /\ y \in StationType
    BY DEF Settled, Sound
  <1>2. p \in Stations /\ p # s /\ Stations = {s, p}
    BY TwoStations
  <1> HIDE DEF p
  <1>3. station' = [station EXCEPT ![s] = x, ![p] = y]
    BY DEF p
  <1>4. station \in [Stations -> StationType] /\ y.submitted <= Payloads[p]
    BY DEF SessionlessInv, p
  <1>5. station'[s] = x /\ station'[p] = y /\ station' \in [Stations -> StationType]
    BY <1>1, <1>2, <1>3, <1>4
  <1>6. QED
    BY <1>2, <1>4, <1>5

\* The initial stations.
LEMMA SessionlessInit ==
    Init => SessionlessInv
  <1> SUFFICES ASSUME Init PROVE SessionlessInv
    OBVIOUS
  <1>1. ASSUME NEW s \in Stations PROVE Settled(StationNew(s)) /\ StationNew(s).submitted = 0
    <2> DEFINE st == StationNew(s)
               top == IF Band[s] = "hf" THEN HfTop ELSE VhfTop
               loop == RateLoopNew(top, InitLevel[s])
    <2>1. /\ Band[s] \in BandSet /\ InitLevel[s] \in 1 .. HfTop /\ InitLevel[s] \in Nat
          /\ top \in Nat \ {0} /\ InitLevel[s] \in 1 .. top /\ InitLevel[s] \in LevelSet
      BY Constants, SessionlessAssumption DEF BandSet, LevelSet
    <2>2. loop \in RateLoopType(top) /\ loop.level = InitLevel[s]
      <3> DEFINE l == InitLevel[s]
      <3>1. top \in Nat \ {0} /\ l \in Nat /\ l \in Int /\ l \in 1 .. top
        BY <2>1
      <3> HIDE DEF top, l
      <3>2. RateLoopNew(top, l) \in RateLoopType(top) /\ RateLoopNew(top, l).level = l
        BY <3>1, NewLoop, RankIs
      <3>3. QED
        BY <3>2 DEF l
    <2>3. loop \in LoopSet /\ loop.top = top
      BY <2>2, LoopSets
    <2>4. /\ ArqTxNew \in TxSet /\ ArqRxNew \in RxSet /\ NoProbe \in ProbeSet /\ 0 \in PinSet
          /\ << >> \in QueueSet /\ << >> \in AirSet /\ << >> \in Seq(AirFrame) /\ 0 \in Nat
      BY NewTx, Constants DEF TxSet, RxSet, ProbeSet, PinSet, QueueSet, AirSet
    <2>5. /\ st.tx = ArqTxNew /\ st.rx = ArqRxNew /\ st.backlog = 0 /\ st.queue = << >>
          /\ st.held = FALSE /\ st.probe = NoProbe /\ st.loop = loop /\ st.level = InitLevel[s]
          /\ st.band = Band[s] /\ st.manual = 0 /\ st.reported = 0 /\ st.air = << >> /\ st.submitted = 0
      BY DEF StationNew
    <2>6. st \in Shape
      <3> HIDE DEF loop
      <3>1. QED
        BY <2>1, <2>3, <2>4 DEF StationNew, Shape, loop
    <2> HIDE DEF st, loop
    <2>7. Top(st) = top
      BY <2>5 DEF Top
    <2>8. Sound(st)
      BY <2>1, <2>3, <2>4, <2>5, <2>6, <2>7, ShapeIs DEF Sound
    <2>9. Counted(st)
      <3>1. UnackedSlots(ArqTxNew) = {}
        BY DEF UnackedSlots, ArqTxNew
      <3>2. Cardinality(UnackedSlots(ArqTxNew)) = 0
        BY <3>1, FS_EmptySet
      <3>3. QED
        BY <2>5, <3>2 DEF Counted, BufferedTx
    <2>10. InForce(st) /\ Due(st)
      BY <2>2, <2>5 DEF InForce, Due
    <2>11. QED
      BY <2>5, <2>8, <2>9, <2>10 DEF Settled, st
  <1>2. \A s \in Stations : 0 <= Payloads[s]
    BY SessionlessAssumption
  <1>3. station = [s \in Stations |-> StationNew(s)]
    BY DEF Init
  <1>4. \A s \in Stations : StationNew(s) \in StationType
    BY <1>1 DEF Settled, Sound
  <1> HIDE DEF StationType
  <1>5. station \in [Stations -> StationType]
    BY <1>3, <1>4
  <1>6. handed \in [Stations -> Seq(Data)] /\ resets \in 0 .. MaxResets
    BY SessionlessAssumption DEF Init
  <1>7. QED
    BY <1>1, <1>2, <1>3, <1>5, <1>6 DEF SessionlessInv

\* Every event leaves both stations settled.
LEMMA SessionlessStep ==
    SessionlessInv /\ [Next]_vars => SessionlessInv'
  <1> SUFFICES ASSUME SessionlessInv, [Next]_vars PROVE SessionlessInv'
    OBVIOUS
  <1> DEFINE Stands == /\ station' \in [Stations -> StationType]
                       /\ \A q \in Stations : Settled(station'[q]) /\ station'[q].submitted <= Payloads[q]
  <1>1. /\ \A s \in Stations : Settled(station[s]) /\ station[s].submitted <= Payloads[s]
        /\ handed \in [Stations -> Seq(Data)] /\ resets \in 0 .. MaxResets /\ Calm \subseteq Env
    BY DEF SessionlessInv, Calm
  <1>2. Stands /\ UNCHANGED << handed, resets >> => SessionlessInv'
    BY <1>1 DEF SessionlessInv
  <1>3. CASE UNCHANGED vars
    BY <1>3 DEF vars, SessionlessInv
  <1>4. ASSUME NEW s \in Stations, NEW env \in Calm, HostData(s, env) PROVE SessionlessInv'
    <2> DEFINE r == PumpArqBacklog(ReportBuffer(
                      [station[s] EXCEPT !.backlog = @ + 1, !.submitted = @ + 1]), env)
    <2>1. Settled(r) /\ r.submitted <= Payloads[s]
      BY <1>1, <1>4, Submitted DEF HostData
    <2>2. station' = [station EXCEPT ![s] = r] /\ UNCHANGED << handed, resets >>
      BY <1>4 DEF HostData, Update
    <2> HIDE DEF r
    <2>3. Stands
      BY <2>1, <2>2, OneStation
    <2>4. QED
      BY <1>2, <2>2, <2>3
  <1>5. ASSUME NEW s \in Stations, NEW env \in Calm, NEW level \in Pins[s], SetSpeedLevel(s, level, env)
        PROVE  SessionlessInv'
    <2> DEFINE at == IF station[s].level = level THEN station[s]
                     ELSE ApplySpeedLevel(station[s], level, env)
               r == [at EXCEPT !.manual = at.level]
    <2>1. level \in LevelSet
      BY SessionlessAssumption DEF LevelSet
    <2>2. Settled(r) /\ r.submitted = station[s].submitted
      BY <1>1, <2>1, Pinned
    <2>3. station' = [station EXCEPT ![s] = r] /\ UNCHANGED << handed, resets >>
      BY <1>5 DEF SetSpeedLevel, Update
    <2> HIDE DEF r
    <2>4. Stands
      BY <1>1, <2>2, <2>3, OneStation
    <2>5. QED
      BY <1>2, <2>3, <2>4
  <1>6. ASSUME NEW s \in Stations, NEW env \in Calm, SetSpeedAuto(s, env) PROVE SessionlessInv'
    <2> DEFINE x == [station[s] EXCEPT !.manual = 0]
               r == IF x.level = x.loop.level THEN x ELSE ApplySpeedLevel(x, x.loop.level, env)
    <2>1. Settled(r) /\ r.submitted = station[s].submitted
      BY <1>1, Unpinned
    <2>2. station' = [station EXCEPT ![s] = r] /\ UNCHANGED << handed, resets >>
      BY <1>6 DEF SetSpeedAuto, Update
    <2> HIDE DEF r
    <2>3. Stands
      BY <1>1, <2>1, <2>2, OneStation
    <2>4. QED
      BY <1>2, <2>2, <2>3
  <1>7. ASSUME NEW s \in Stations, NEW env \in Env, NEW expired, Poll(s, expired, env)
        PROVE  SessionlessInv'
    <2> DEFINE r == RetryHeld(CheckArqRetransmits(station[s], expired, env), env)
    <2>1. Settled(r) /\ r.submitted = station[s].submitted
      BY <1>1, Polled
    <2>2. station' = [station EXCEPT ![s] = r] /\ UNCHANGED << handed, resets >>
      BY <1>7 DEF Poll, Update
    <2> HIDE DEF r
    <2>3. Stands
      BY <1>1, <2>1, <2>2, OneStation
    <2>4. QED
      BY <1>2, <2>2, <2>3
  <1>8. ASSUME NEW s \in Stations, Transmitting(station[s]), NEW env \in Env
        PROVE  /\ Head(station[s].air) \in AirFrame
               /\ Settled(Played(station[s], env))
               /\ Played(station[s], env).submitted <= Payloads[s]
    <2>1. station[s].air \in Seq(AirFrame) /\ station[s].air # << >>
      BY <1>1, <1>8 DEF Settled, Sound, Transmitting
    <2>2. Head(station[s].air) \in AirFrame
      <3> DEFINE a == station[s].air
      <3>1. a \in Seq(AirFrame) /\ a # << >>
        BY <2>1
      <3> HIDE DEF a
      <3>2. Head(a) \in AirFrame
        BY <3>1
      <3>3. QED
        BY <3>2 DEF a
    <2>3. /\ Settled(Played(station[s], env)) /\ Untouched(station[s], Played(station[s], env))
      BY <1>1, <2>1, PlayedKeeps
    <2>4. QED
      BY <1>1, <2>2, <2>3 DEF Untouched
  <1>9. ASSUME NEW s \in Stations, NEW env \in Env, DeliverData(s, env) PROVE SessionlessInv'
    <2> DEFINE p == Other(s)
               f == Head(station[s].air)
               x == Played(station[s], env)
               y == HandleReliable(station[p], f, env)
               out == RxDelivered(station[p].rx, f.num, f.data, Window)
    <2>1. p \in Stations /\ p # s /\ Transmitting(station[s]) /\ f.type = "Data"
      BY <1>9, TwoStations DEF DeliverData, Heard
    <2>2. f \in Frame /\ f.data \in Data /\ f.num \in SeqNum
      BY <1>8, <2>1 DEF AirFrame, Frame
    <2>3. Settled(x) /\ x.submitted <= Payloads[s]
      BY <1>8, <2>1
    <2>4. Settled(y) /\ y.submitted = station[p].submitted
      BY <1>1, <2>1, <2>2, ReliableHandled
    <2>5. y.submitted <= Payloads[p]
      BY <1>1, <2>1, <2>4
    <2>6. out \in Seq(Data)
      <3>1. station[p].rx \in RxType(Data)
        BY <1>1, <2>1, ShapeIs DEF Settled, Sound, Shape, RxSet
      <3>2. QED
        BY <2>2, <3>1, RxReceiveType
    <2>7. /\ station' = [station EXCEPT ![s] = x, ![p] = y]
          /\ handed' = [handed EXCEPT ![p] = @ \o out] /\ UNCHANGED resets
      <3>1. station \in [Stations -> StationType]
        BY DEF SessionlessInv
      <3>2. /\ station' = [station EXCEPT ![s] = Played(@, env), ![p] = HandleReliable(@, f, env)]
            /\ handed' = [handed EXCEPT ![p] = @ \o out] /\ UNCHANGED resets
        BY <1>9 DEF DeliverData
      <3> HIDE DEF p, f
      <3>3. QED
        BY <2>1, <3>1, <3>2
    <2> HIDE DEF x, y, out
    <2>8. Stands
      BY <2>3, <2>4, <2>5, <2>7, BothStations
    <2>9. handed' \in [Stations -> Seq(Data)]
      <3> HIDE DEF p
      <3>1. handed[p] \o out \in Seq(Data)
        BY <1>1, <2>1, <2>6
      <3>2. QED
        BY <1>1, <2>1, <2>7, <3>1
    <2>10. QED
      BY <1>1, <2>7, <2>8, <2>9 DEF SessionlessInv
  <1>10. ASSUME NEW s \in Stations, NEW rate \in Rates, NEW env \in Calm, DeliverAck(s, rate, env)
         PROVE  SessionlessInv'
    <2> DEFINE p == Other(s)
               f == Head(station[s].air)
               x == Played(station[s], env)
               y == HandleAck(station[p], f, rate, env)
    <2>1. p \in Stations /\ p # s /\ Transmitting(station[s]) /\ env \in Env /\ rate \in Nat
      BY <1>1, <1>10, TwoStations, SessionlessAssumption DEF DeliverAck, Heard
    <2>2. f \in Frame
      BY <1>8, <2>1 DEF AirFrame
    <2>3. Settled(x) /\ x.submitted <= Payloads[s]
      BY <1>8, <2>1
    <2>4. Settled(y) /\ y.submitted = station[p].submitted
      BY <1>1, <2>1, <2>2, AckHandled
    <2>5. y.submitted <= Payloads[p]
      BY <1>1, <2>1, <2>4
    <2>6. station' = [station EXCEPT ![s] = x, ![p] = y] /\ UNCHANGED << handed, resets >>
      <3>1. station \in [Stations -> StationType]
        BY DEF SessionlessInv
      <3>2. /\ station' = [station EXCEPT ![s] = Played(@, env), ![p] = HandleAck(@, f, rate, env)]
            /\ UNCHANGED << handed, resets >>
        BY <1>10 DEF DeliverAck
      <3> HIDE DEF p, f
      <3>3. QED
        BY <2>1, <3>1, <3>2
    <2> HIDE DEF x, y
    <2>7. Stands
      BY <2>3, <2>4, <2>5, <2>6, BothStations
    <2>8. QED
      BY <1>2, <2>6, <2>7
  <1>11. ASSUME NEW s \in Stations, NEW env \in Calm, Lose(s, env) PROVE SessionlessInv'
    <2> DEFINE x == Played(station[s], env)
    <2>1. Settled(x) /\ x.submitted <= Payloads[s]
      BY <1>1, <1>8, <1>11 DEF Lose
    <2>2. station' = [station EXCEPT ![s] = x] /\ UNCHANGED << handed, resets >>
      BY <1>11 DEF Lose
    <2> HIDE DEF x
    <2>3. Stands
      BY <2>1, <2>2, OneStation
    <2>4. QED
      BY <1>2, <2>2, <2>3
  <1>12. ASSUME NEW s \in Stations, NEW env \in Calm, ForeignReset(s, env) PROVE SessionlessInv'
    <2> DEFINE x == HandleReset(station[s], env)
    <2>1. Settled(x) /\ x.submitted = station[s].submitted
      BY <1>1, ResetHandled
    <2>2. station' = [station EXCEPT ![s] = x] /\ UNCHANGED handed /\ resets' \in 0 .. MaxResets
      BY <1>1, <1>12, SessionlessAssumption DEF ForeignReset
    <2> HIDE DEF x
    <2>3. Stands
      BY <1>1, <2>1, <2>2, OneStation
    <2>4. QED
      BY <1>1, <2>2, <2>3 DEF SessionlessInv
  <1>13. ResetAt \subseteq Stations
    BY SessionlessAssumption
  <1>14. QED
    BY <1>3, <1>4, <1>5, <1>6, <1>7, <1>9, <1>10, <1>11, <1>12, <1>13 DEF Next

\* Both stations are settled in every reachable state: an engine on its own
\* ladder, a backlog the hosts did submit, and the three properties below.
THEOREM SessionlessInductive ==
    Spec => []SessionlessInv
  <1>1. QED
    BY SessionlessInit, SessionlessStep, PTL DEF Spec

\* What is sent, queued and handed to hosts is well formed, whatever is heard.
THEOREM SessionlessTypeOK ==
    Spec => []TypeOK
  <1>1. SessionlessInv => TypeOK
    BY DEF TypeOK, SessionlessInv
  <1>2. QED
    BY <1>1, SessionlessInductive, PTL

\* No probe, timeout, recommendation, rebind or pin, in any order, leaves the
\* engine at another level than the operator's or the rate loop's, and nothing
\* wideband is keyed on evidence that no longer permits it.
THEOREM EngineAtItsLevel ==
    Spec => []LevelInForce
  <1>1. SessionlessInv => LevelInForce
    <2>1. ASSUME SessionlessInv, NEW s \in Stations, NEW i \in DOMAIN station[s].air
          PROVE  station[s].air[i].lawful
      <3>1. station[s].air \in Seq(AirFrame)
        BY <2>1 DEF SessionlessInv, Settled, Sound
      <3>2. station[s].air[i] \in AirFrame
        BY <3>1, <2>1
      <3>3. QED
        BY <3>2 DEF AirFrame
    <2>2. QED
      BY <2>1 DEF LevelInForce, SessionlessInv, Settled, InForce
  <1>2. QED
    BY <1>1, SessionlessInductive, PTL

\* The last BUFFER a host heard is what the backlog and the window hold.
THEOREM BufferStaysHonest ==
    Spec => []BufferIsHonest
  <1>1. SessionlessInv => BufferIsHonest
    BY DEF BufferIsHonest, SessionlessInv, Settled, Counted, BufferedTx
  <1>2. QED
    BY <1>1, SessionlessInductive, PTL

\* A queue that waits with nothing keyed is marked for the 500 ms poll.
THEOREM NoQueueParked ==
    Spec => []NothingParked
  <1>1. SessionlessInv => NothingParked
    BY DEF NothingParked, SessionlessInv, Settled, Due
  <1>2. QED
    BY <1>1, SessionlessInductive, PTL

-----------------------------------------------------------------------------
(* Payloads reach the other host in order. *)

InOrder(s) == \A i \in DOMAIN handed[s] : handed[s][i] = i

\* Station s is in line with its peer, its copies above segment lo; all are.
InLineAt(s, lo) == InLine(station[s], station[Other(s)].rx, Len(handed[Other(s)]), lo)
Line(lo) == \A s \in Stations : InLineAt(s, lo[s]) /\ InOrder(s)

\* No copy keyed is so old that the peer, moved on, takes its number for a later
\* one's: SeqMod - Window segments is how far a copy may fall behind.
KeepsUp ==
    \A s \in Stations : \A i \in DOMAIN station[s].air :
        station[s].air[i].type = "Data" =>
            Len(handed[Other(s)]) - station[s].air[i].data < SeqMod - Window

\* No refusal by the gate and no ABORT leaves a queue to the poll: what is queued
\* goes out at the next release.  And too few payloads for a number to come round.
NeverHeld == \A s \in Stations : ~station[s].held
Short == \A s \in Stations : station[s].submitted <= SeqMod - Window

\* The three kinds of event as one station and the other see them.
OneEvent(s, st) ==
    /\ station' = [station EXCEPT ![s] = st] /\ UNCHANGED << handed, resets >>
    /\ LineKept(station[s], st) /\ station[s].submitted <= st.submitted

DataHeard(s, x, y) ==
    LET p == Other(s)
        f == Head(station[s].air)
    IN /\ Heard(s, "Data")
       /\ station' = [station EXCEPT ![s] = x, ![p] = y]
       /\ handed' = [handed EXCEPT ![p] = @ \o RxDelivered(station[p].rx, f.num, f.data, Window)]
       /\ UNCHANGED resets
       /\ LineKept(station[s], x) /\ x.submitted = station[s].submitted
       /\ LineAcked(station[p], y, 0, {}) /\ y.submitted = station[p].submitted
       /\ y.rx = RxReceive(station[p].rx, f.num, f.data, Window)

AckHeard(s, x, y) ==
    LET p == Other(s)
        f == Head(station[s].air)
    IN /\ Heard(s, "Ack")
       /\ station' = [station EXCEPT ![s] = x, ![p] = y] /\ UNCHANGED << handed, resets >>
       /\ LineKept(station[s], x) /\ x.submitted = station[s].submitted
       /\ LineAcked(station[p], y, f.num, f.bitmap) /\ y.submitted = station[p].submitted
       /\ y.rx = station[p].rx

\* Every step is one of them, or a Reset.
LEMMA Events ==
    ASSUME SessionlessInv, [Next]_vars
    PROVE  \/ UNCHANGED vars
           \/ \E s \in Stations : \E st : OneEvent(s, st)
           \/ \E s \in Stations : \E x, y : DataHeard(s, x, y)
           \/ \E s \in Stations : \E x, y : AckHeard(s, x, y)
           \/ /\ resets' = resets + 1
              /\ \E s \in Stations : \E st : /\ station' = [station EXCEPT ![s] = st]
                                             /\ st.submitted = station[s].submitted
  <1>1. /\ \A s \in Stations : Settled(station[s]) /\ station[s].submitted <= Payloads[s]
        /\ station \in [Stations -> StationType] /\ Calm \subseteq Env
        /\ \A s \in Stations : station[s].submitted \in Nat
    <2>1. \A s \in Stations : Settled(station[s]) => station[s].submitted \in Nat
      BY ShapeIs DEF Settled, Sound, Shape
    <2>2. QED
      BY <2>1 DEF SessionlessInv, Calm
  <1>2. ASSUME NEW s \in Stations, NEW env \in Calm, HostData(s, env)
        PROVE  \E st : OneEvent(s, st)
    <2> DEFINE r == PumpArqBacklog(ReportBuffer(
                      [station[s] EXCEPT !.backlog = @ + 1, !.submitted = @ + 1]), env)
    <2>1. LineKept(station[s], r) /\ r.submitted = station[s].submitted + 1
      BY <1>1, <1>2, Submitted DEF HostData
    <2>2. station' = [station EXCEPT ![s] = r] /\ UNCHANGED << handed, resets >>
      BY <1>2 DEF HostData, Update
    <2> HIDE DEF r
    <2>3. station[s].submitted <= r.submitted
      BY <1>1, <2>1
    <2>4. OneEvent(s, r)
      BY <2>1, <2>2, <2>3 DEF OneEvent
    <2>5. QED
      BY <2>4
  <1>3. ASSUME NEW s \in Stations, NEW env \in Calm, NEW level \in Pins[s], SetSpeedLevel(s, level, env)
        PROVE  \E st : OneEvent(s, st)
    <2> DEFINE at == IF station[s].level = level THEN station[s]
                     ELSE ApplySpeedLevel(station[s], level, env)
               r == [at EXCEPT !.manual = at.level]
    <2>1. level \in LevelSet
      BY SessionlessAssumption DEF LevelSet
    <2>2. LineKept(station[s], r) /\ r.submitted = station[s].submitted
      BY <1>1, <2>1, Pinned
    <2>3. station' = [station EXCEPT ![s] = r] /\ UNCHANGED << handed, resets >>
      BY <1>3 DEF SetSpeedLevel, Update
    <2> HIDE DEF r
    <2>4. OneEvent(s, r)
      BY <1>1, <2>2, <2>3 DEF OneEvent
    <2>5. QED
      BY <2>4
  <1>4. ASSUME NEW s \in Stations, NEW env \in Calm, SetSpeedAuto(s, env)
        PROVE  \E st : OneEvent(s, st)
    <2> DEFINE x == [station[s] EXCEPT !.manual = 0]
               r == IF x.level = x.loop.level THEN x ELSE ApplySpeedLevel(x, x.loop.level, env)
    <2>1. LineKept(station[s], r) /\ r.submitted = station[s].submitted
      BY <1>1, Unpinned
    <2>2. station' = [station EXCEPT ![s] = r] /\ UNCHANGED << handed, resets >>
      BY <1>4 DEF SetSpeedAuto, Update
    <2> HIDE DEF r
    <2>3. OneEvent(s, r)
      BY <1>1, <2>1, <2>2 DEF OneEvent
    <2>4. QED
      BY <2>3
  <1>5. ASSUME NEW s \in Stations, NEW env \in Env, NEW expired, Poll(s, expired, env)
        PROVE  \E st : OneEvent(s, st)
    <2> DEFINE r == RetryHeld(CheckArqRetransmits(station[s], expired, env), env)
    <2>1. LineKept(station[s], r) /\ r.submitted = station[s].submitted
      BY <1>1, Polled
    <2>2. station' = [station EXCEPT ![s] = r] /\ UNCHANGED << handed, resets >>
      BY <1>5 DEF Poll, Update
    <2> HIDE DEF r
    <2>3. OneEvent(s, r)
      BY <1>1, <2>1, <2>2 DEF OneEvent
    <2>4. QED
      BY <2>3
  <1>6. ASSUME NEW s \in Stations, Transmitting(station[s]), NEW env \in Env
        PROVE  /\ Head(station[s].air) \in AirFrame
               /\ LineKept(station[s], Played(station[s], env))
               /\ Played(station[s], env).submitted = station[s].submitted
    <2>1. station[s].air \in Seq(AirFrame) /\ station[s].air # << >>
      BY <1>1, <1>6 DEF Settled, Sound, Transmitting
    <2>2. Head(station[s].air) \in AirFrame
      <3> DEFINE a == station[s].air
      <3>1. a \in Seq(AirFrame) /\ a # << >>
        BY <2>1
      <3> HIDE DEF a
      <3>2. Head(a) \in AirFrame
        BY <3>1
      <3>3. QED
        BY <3>2 DEF a
    <2>3. /\ Untouched(station[s], Played(station[s], env))
          /\ StocksKept(station[s], Played(station[s], env))
      BY <1>1, <2>1, PlayedKeeps
    <2>4. QED
      BY <2>2, <2>3, LineStocked DEF Untouched
  <1>7. ASSUME NEW s \in Stations, NEW env \in Env, DeliverData(s, env)
        PROVE  \E x, y : DataHeard(s, x, y)
    <2> DEFINE p == Other(s)
               f == Head(station[s].air)
               x == Played(station[s], env)
               y == HandleReliable(station[p], f, env)
               out == RxDelivered(station[p].rx, f.num, f.data, Window)
    <2>1. p \in Stations /\ p # s /\ Transmitting(station[s]) /\ f.type = "Data" /\ Heard(s, "Data")
      BY <1>7, TwoStations DEF DeliverData, Heard
    <2>2. f \in Frame /\ f.data \in Data /\ f.num \in SeqNum
      BY <1>6, <2>1 DEF AirFrame, Frame
    <2>3. LineKept(station[s], x) /\ x.submitted = station[s].submitted
      BY <1>6, <2>1
    <2>4. /\ y.submitted = station[p].submitted /\ LineAcked(station[p], y, 0, {})
          /\ y.rx = RxReceive(station[p].rx, f.num, f.data, Window)
      <3>1. station[p].air = << >>
        BY <1>7 DEF DeliverData, Heard, Transmitting
      <3> DEFINE z == station[p]
      <3> HIDE DEF f
      <3>2. Settled(z) /\ z.air = << >>
        BY <1>1, <2>1, <3>1
      <3> HIDE DEF z
      <3>3. /\ HandleReliable(z, f, env).submitted = z.submitted
            /\ LineAcked(z, HandleReliable(z, f, env), 0, {})
            /\ HandleReliable(z, f, env).rx = RxReceive(z.rx, f.num, f.data, Window)
        BY <2>2, <3>2, ReliableHandled
      <3>4. QED
        BY <3>3 DEF z
    <2>5. /\ station' = [station EXCEPT ![s] = x, ![p] = y]
          /\ handed' = [handed EXCEPT ![p] = @ \o out] /\ UNCHANGED resets
      <3>1. /\ station' = [station EXCEPT ![s] = Played(@, env), ![p] = HandleReliable(@, f, env)]
            /\ handed' = [handed EXCEPT ![p] = @ \o out] /\ UNCHANGED resets
        BY <1>7 DEF DeliverData
      <3> HIDE DEF p, f, out
      <3>2. QED
        BY <1>1, <2>1, <3>1
    <2> HIDE DEF x, y
    <2>6. DataHeard(s, x, y)
      BY <2>1, <2>3, <2>4, <2>5 DEF DataHeard
    <2>7. QED
      BY <2>6
  <1>8. ASSUME NEW s \in Stations, NEW rate \in Rates, NEW env \in Calm, DeliverAck(s, rate, env)
        PROVE  \E x, y : AckHeard(s, x, y)
    <2> DEFINE p == Other(s)
               f == Head(station[s].air)
               x == Played(station[s], env)
               y == HandleAck(station[p], f, rate, env)
    <2>1. /\ p \in Stations /\ p # s /\ Transmitting(station[s]) /\ env \in Env /\ rate \in Nat
          /\ Heard(s, "Ack")
      BY <1>1, <1>8, TwoStations, SessionlessAssumption DEF DeliverAck, Heard
    <2>2. f \in Frame
      BY <1>6, <2>1 DEF AirFrame
    <2>3. LineKept(station[s], x) /\ x.submitted = station[s].submitted
      BY <1>6, <2>1
    <2>4. /\ y.submitted = station[p].submitted /\ LineAcked(station[p], y, f.num, f.bitmap)
          /\ y.rx = station[p].rx
      BY <1>1, <2>1, <2>2, AckHandled
    <2>5. station' = [station EXCEPT ![s] = x, ![p] = y] /\ UNCHANGED << handed, resets >>
      <3>1. /\ station' = [station EXCEPT ![s] = Played(@, env), ![p] = HandleAck(@, f, rate, env)]
            /\ UNCHANGED << handed, resets >>
        BY <1>8 DEF DeliverAck
      <3> HIDE DEF p, f
      <3>2. QED
        BY <1>1, <2>1, <3>1
    <2> HIDE DEF x, y
    <2>6. AckHeard(s, x, y)
      BY <2>1, <2>3, <2>4, <2>5 DEF AckHeard
    <2>7. QED
      BY <2>6
  <1>9. ASSUME NEW s \in Stations, NEW env \in Calm, Lose(s, env)
        PROVE  \E st : OneEvent(s, st)
    <2> DEFINE x == Played(station[s], env)
    <2>1. LineKept(station[s], x) /\ x.submitted = station[s].submitted
      BY <1>1, <1>6, <1>9 DEF Lose
    <2>2. station' = [station EXCEPT ![s] = x] /\ UNCHANGED << handed, resets >>
      BY <1>9 DEF Lose
    <2> HIDE DEF x
    <2>3. OneEvent(s, x)
      BY <1>1, <2>1, <2>2 DEF OneEvent
    <2>4. QED
      BY <2>3
  <1>10. ASSUME NEW s \in Stations, NEW env \in Calm, ForeignReset(s, env)
         PROVE  /\ resets' = resets + 1
                /\ \E st : /\ station' = [station EXCEPT ![s] = st]
                           /\ st.submitted = station[s].submitted
    <2>1. HandleReset(station[s], env).submitted = station[s].submitted
      BY <1>1, ResetHandled
    <2>2. QED
      BY <1>1, <1>10, <2>1 DEF ForeignReset
  <1>11. ResetAt \subseteq Stations
    BY SessionlessAssumption
  <1>12. QED
    BY <1>2, <1>3, <1>4, <1>5, <1>7, <1>8, <1>9, <1>10, <1>11 DEF Next

\* Hosts only ever submit more, and a Reset stays on record.
LEMMA SubmittedGrows ==
    ASSUME SessionlessInv, [Next]_vars
    PROVE  /\ \A s \in Stations : station[s].submitted <= station'[s].submitted
           /\ \A s \in Stations : station[s].submitted \in Nat /\ station'[s].submitted \in Nat
           /\ resets' = 0 => resets = 0
           /\ ~Crossed' => ~Crossed
           /\ Short' => Short
  <1>1. SessionlessInv'
    BY SessionlessStep
  <1>2. \A st : Settled(st) => st.submitted \in Nat
    BY ShapeIs DEF Settled, Sound, Shape
  <1>3. /\ \A s \in Stations : station[s].submitted \in Nat /\ station'[s].submitted \in Nat
        /\ station \in [Stations -> StationType] /\ resets \in Nat
    BY <1>1, <1>2 DEF SessionlessInv
  <1>4. \A s \in Stations : station[s].submitted <= station'[s].submitted
    <2>1. CASE UNCHANGED vars
      BY <1>3, <2>1 DEF vars
    <2>2. ASSUME NEW s \in Stations, NEW st, OneEvent(s, st)
          PROVE  \A q \in Stations : station[q].submitted <= station'[q].submitted
      BY <1>3, <2>2 DEF OneEvent
    <2>3. ASSUME NEW s \in Stations, NEW x, NEW y,
                 station' = [station EXCEPT ![s] = x, ![Other(s)] = y],
                 x.submitted = station[s].submitted, y.submitted = station[Other(s)].submitted
          PROVE  \A q \in Stations : station[q].submitted <= station'[q].submitted
      <3> DEFINE p == Other(s)
      <3>1. p \in Stations /\ p # s /\ Stations = {s, p}
        BY TwoStations
      <3> HIDE DEF p
      <3>2. station' = [station EXCEPT ![s] = x, ![p] = y] /\ y.submitted = station[p].submitted
        BY <2>3 DEF p
      <3>3. station'[s] = x /\ station'[p] = y
        BY <1>3, <3>1, <3>2
      <3>4. QED
        BY <1>3, <2>3, <3>1, <3>2, <3>3
    <2>4. ASSUME NEW s \in Stations, NEW st, station' = [station EXCEPT ![s] = st],
                 st.submitted = station[s].submitted
          PROVE  \A q \in Stations : station[q].submitted <= station'[q].submitted
      BY <1>3, <2>4
    <2>5. QED
      BY <2>1, <2>2, <2>3, <2>4, Events DEF DataHeard, AckHeard
  <1>5. resets' = 0 => resets = 0
    <2>1. resets' = resets \/ resets' = resets + 1
      BY Events DEF vars, OneEvent, DataHeard, AckHeard
    <2>2. QED
      BY <1>3, <2>1
  <1>6. ~Crossed' => ~Crossed
    <2>1. SUFFICES ASSUME NEW s \in Stations, station[s].submitted >= HalfSpace,
                          station[Other(s)].submitted > 0
                   PROVE  Crossed'
      BY DEF Crossed
    <2>2. station'[s].submitted >= HalfSpace /\ station'[Other(s)].submitted > 0
      <3> DEFINE p == Other(s)
      <3>1. p \in Stations /\ station[p].submitted > 0
        BY <2>1, TwoStations
      <3> HIDE DEF p
      <3>2. station'[s].submitted >= HalfSpace /\ station'[p].submitted > 0
        BY <1>3, <1>4, <2>1, <3>1, ArqBounds
      <3>3. QED
        BY <3>2 DEF p
    <2>3. QED
      BY <2>2 DEF Crossed
  <1>7. Short' => Short
    <2>1. SeqMod - Window \in Int
      BY ArqBounds, Constants
    <2>2. ASSUME NEW s \in Stations, station'[s].submitted <= SeqMod - Window
          PROVE  station[s].submitted <= SeqMod - Window
      BY <1>3, <1>4, <2>1, <2>2
    <2>3. QED
      BY <2>2 DEF Short
  <1>8. QED
    BY <1>3, <1>4, <1>5, <1>6, <1>7

\* One station moves, hearing nothing: both stay in line.
LEMMA OneInLine ==
    ASSUME SessionlessInv, NEW s \in Stations, NEW st, OneEvent(s, st),
           NEW lo \in [Stations -> Nat], Line(lo)
    PROVE  /\ Line(lo)'
           /\ \A q \in Stations : lo[q] = Base(station[q]) => InLineAt(q, Base(station[q]))'
  <1> DEFINE p == Other(s)
  <1>1. p \in Stations /\ p # s /\ Stations = {s, p} /\ Other(p) = s
    BY TwoStations
  <1>2. lo[s] \in Nat /\ lo[p] \in Nat /\ Len(handed[p]) \in Nat /\ Len(handed[s]) \in Nat
    BY <1>1, LenProperties DEF SessionlessInv
  <1>3. /\ InLine(station[s], station[p].rx, Len(handed[p]), lo[s]) /\ InOrder(s)
        /\ InLine(station[p], station[s].rx, Len(handed[s]), lo[p]) /\ InOrder(p)
    BY <1>1 DEF Line, InLineAt
  <1> HIDE DEF p
  <1>4. station'[s] = st /\ station'[p] = station[p] /\ handed' = handed
    BY <1>1 DEF OneEvent, SessionlessInv
  <1>5. /\ InLine(st, station[p].rx, Len(handed[p]), lo[s]) /\ Base(st) = Base(station[s])
        /\ st.rx = station[s].rx
    BY <1>2, <1>3 DEF OneEvent, LineKept
  <1>6. /\ InLine(station'[s], station'[p].rx, Len(handed'[p]), lo[s])
        /\ InLine(station'[p], station'[s].rx, Len(handed'[s]), lo[p])
        /\ Base(station'[s]) = Base(station[s]) /\ Base(station'[p]) = Base(station[p])
    BY <1>3, <1>4, <1>5
  <1>7. InOrder(s)' /\ InOrder(p)'
    BY <1>3, <1>4 DEF InOrder
  <1>8. Other(s) = p
    BY DEF p
  <1>9. QED
    BY <1>1, <1>6, <1>7, <1>8 DEF Line, InLineAt

\* The head of the keyed interval of a station in line.
LEMMA HeadInLine ==
    ASSUME NEW st, st.air # << >>, NEW r, NEW h, NEW lo, InLine(st, r, h, lo)
    PROVE  Head(st.air) \in OnAir(lo, Sent(st), st.rx) /\ 1 \in DOMAIN st.air /\ Head(st.air) = st.air[1]
  <1> DEFINE a == st.air
             A == OnAir(lo, Sent(st), st.rx)
  <1>1. a \in Seq(A) /\ a # << >>
    BY DEF InLine, Stocks
  <1> HIDE DEF a, A
  <1>2. Head(a) \in A /\ 1 \in DOMAIN a /\ Head(a) = a[1]
    BY <1>1
  <1>3. QED
    BY <1>2 DEF a, A

\* A station that hears is not keying, and its queue was empty or held.
LEMMA HearerIdle ==
    ASSUME SessionlessInv, NEW s \in Stations, NEW type, Heard(s, type)
    PROVE  /\ station[Other(s)].air = << >> /\ station[s].air # << >>
           /\ Head(station[s].air).type = type
           /\ NeverHeld => station[Other(s)].queue = << >>
  <1>1. Settled(station[Other(s)]) /\ Other(s) \in Stations
    BY TwoStations DEF SessionlessInv
  <1>2. QED
    BY <1>1 DEF Heard, Transmitting, Settled, Due, NeverHeld

\* A data frame is heard: the sender's window is coupled to what the receiver
\* became, and the receiver's own takes the ack_num 0 for what it is.
LEMMA DataInLine ==
    ASSUME SessionlessInv, NEW s \in Stations, NEW x, NEW y, DataHeard(s, x, y), ~Crossed, KeepsUp,
           NEW lo \in [Stations -> Nat], Line(lo)
    PROVE  /\ Line(lo)'
           /\ \A q \in Stations :
                lo[q] = Base(station[q]) /\ NeverHeld => InLineAt(q, Base(station[q]))'
  <1> DEFINE p == Other(s)
             f == Head(station[s].air)
             h == Len(handed[p])
             out == RxDelivered(station[p].rx, f.num, f.data, Window)
             hs == Len(handed[s])
  <1>1. p \in Stations /\ p # s /\ Stations = {s, p} /\ Other(p) = s /\ Other(s) = p
    BY TwoStations
  <1>2. /\ lo[s] \in Nat /\ lo[p] \in Nat /\ h \in Nat /\ hs \in Nat
        /\ handed[p] \in Seq(Data) /\ handed \in [Stations -> Seq(Data)]
    <2>1. handed[p] \in Seq(Data) /\ handed[s] \in Seq(Data) /\ handed \in [Stations -> Seq(Data)]
      BY <1>1 DEF SessionlessInv
    <2>2. QED
      BY <1>1, <2>1, LenProperties
  <1>3. /\ InLine(station[s], station[p].rx, h, lo[s]) /\ InOrder(s)
        /\ InLine(station[p], station[s].rx, hs, lo[p]) /\ InOrder(p)
    BY <1>1 DEF Line, InLineAt
  <1>4. /\ station[p].air = << >> /\ station[s].air # << >> /\ f.type = "Data"
        /\ NeverHeld => station[p].queue = << >>
    BY HearerIdle DEF DataHeard
  <1>5. /\ f \in OnAir(lo[s], Sent(station[s]), station[s].rx)
        /\ 1 \in DOMAIN station[s].air /\ f = station[s].air[1]
    BY <1>3, <1>4, HeadInLine
  <1>6. h - f.data < SeqMod - Window
    BY <1>4, <1>5 DEF KeepsUp
  <1>7. /\ station[s].tx \in TxType(Data) /\ Sent(station[s]) \in Int /\ Window \in 1 .. Ring
        /\ Coupled(station[s].tx, station[p].rx, Sent(station[s]), h, Window)
        /\ Sent(station[s]) <= station[s].submitted /\ station[s].submitted \in Nat
        /\ lo[s] <= Base(station[s]) /\ Base(station[s]) \in Nat
    <2>1. Sound(station[s])
      BY DEF SessionlessInv, Settled
    <2>2. QED
      BY <1>2, <1>3, <2>1, LineNumbers
  <1>8. /\ station[p].rx \in RxType(Data)
        /\ Base(station[p]) \in Nat /\ Base(station[p]) <= station[p].submitted
        /\ station[p].submitted \in Nat
    <2>1. Sound(station[p])
      BY <1>1 DEF SessionlessInv, Settled
    <2>2. /\ Base(station[p]) \in Nat /\ Base(station[p]) <= hs /\ hs <= Sent(station[p])
          /\ Sent(station[p]) <= station[p].submitted /\ station[p].submitted \in Nat
          /\ Sent(station[p]) \in Int
      BY <1>2, <1>3, <2>1, LineNumbers
    <2>3. station[p].rx \in RxType(Data)
      BY <2>1, ShapeIs DEF Sound, Shape, RxSet
    <2>4. QED
      BY <1>2, <2>2, <2>3
  <1>9. /\ f.data \in Data /\ f.data \in Int /\ 1 <= f.data /\ f.data <= Sent(station[s])
        /\ f.num = (f.data - 1) % SeqMod
    <2>1. /\ lo[s] < f.data /\ f.data <= Sent(station[s]) /\ f.num = (f.data - 1) % SeqMod
          /\ f.data \in Data \cup {0}
      BY <1>4, <1>5 DEF OnAir, Frame
    <2>2. \A e \in Data \cup {0} : e \in Nat
      <3>1. Data \subseteq Nat
        BY Constants
      <3>2. QED
        BY <3>1
    <2>3. \A l, d \in Nat : l < d => d # 0 /\ 1 <= d
      OBVIOUS
    <2>4. f.data \in Nat /\ lo[s] \in Nat
      BY <1>2, <2>1, <2>2, Zenon
    <2>5. f.data # 0 /\ 1 <= f.data
      BY <2>1, <2>3, <2>4, Zenon
    <2>6. f.data \in Int
      BY <2>4
    <2>7. QED
      BY <2>1, <2>5, <2>6
  <1> DEFINE r2 == RxReceive(station[p].rx, f.num, f.data, Window)
  <1>10. /\ out \in Seq(Data) /\ Len(out) \in 0 .. Ring
         /\ \A k \in 1 .. Len(out) : out[k] = h + k
         /\ Coupled(station[s].tx, r2, Sent(station[s]), h + Len(out), Window)
    <2> DEFINE t == station[s].tx
               r == station[p].rx
               d == f.data
               n == Sent(station[s])
    <2>1. /\ t \in TxType(Data) /\ r \in RxType(Data) /\ n \in Int /\ h \in Int /\ Window \in 1 .. Ring
          /\ Coupled(t, r, n, h, Window) /\ d \in Data \cap Int /\ 1 <= d /\ d <= n
          /\ h - d < SeqMod - Window /\ f.num = (d - 1) % SeqMod
      BY <1>2, <1>6, <1>7, <1>8, <1>9
    <2> HIDE DEF t, r, d, n, h, f
    <2> DEFINE taken == RxReceive(r, (d - 1) % SeqMod, d, Window)
               up == RxDelivered(r, (d - 1) % SeqMod, d, Window)
    <2>2. /\ up \in Seq(Data) /\ Len(up) \in 0 .. Ring
          /\ \A k \in 1 .. Len(up) : up[k] = h + k
          /\ Coupled(t, taken, n, h + Len(up), Window)
      BY <2>1, CoupledReceive
    <2>3. out = up /\ r2 = taken
      BY <2>1 DEF r, d
    <2> HIDE DEF up, taken, out, r2
    <2>4. /\ out \in Seq(Data) /\ Len(out) \in 0 .. Ring
          /\ \A k \in 1 .. Len(out) : out[k] = h + k
          /\ Coupled(t, r2, n, h + Len(out), Window)
      BY <2>2, <2>3
    <2>5. QED
      BY <2>4 DEF t, n
  <1>11. h + Len(out) \in Nat
    <2>1. \A a \in Nat, n \in 0 .. Ring : a + n \in Nat
      BY ArqBounds
    <2>2. QED
      BY <1>2, <1>10, <2>1, Zenon
  <1>12. InLine(station[s], r2, h + Len(out), lo[s])
    BY <1>3, <1>10 DEF InLine
  <1>13. /\ InLine(x, r2, h + Len(out), lo[s]) /\ Base(x) = Base(station[s]) /\ x.rx = station[s].rx
    BY <1>2, <1>11, <1>12 DEF DataHeard, LineKept
  <1>14. TrueAck(station[p], station[s].rx, hs, 0, {})
    <2>1. station[p].submitted < HalfSpace
      <3>1. station[s].submitted > 0
        BY <1>7, <1>9
      <3>2. ~(station[p].submitted >= HalfSpace)
        BY <1>1, <3>1 DEF Crossed
      <3>3. QED
        BY <1>8, <3>2, ArqBounds
    <2>2. 0 \in Int /\ 0 = 0 % SeqMod /\ 0 <= hs /\ Base(station[p]) - 0 < SeqMod - HalfSpace
      <3>1. 0 = 0 % SeqMod
        BY ModSmall, ArqBounds
      <3>2. QED
        BY <1>2, <1>8, <2>1, <3>1, ArqBounds
    <2>3. QED
      BY <2>2 DEF TrueAck
  <1>15. /\ InLine(y, station[s].rx, hs, lo[p])
         /\ NeverHeld => InLine(y, station[s].rx, hs, Base(y))
    <2>1. LineAcked(station[p], y, 0, {})
      BY DEF DataHeard
    <2>2. QED
      BY <1>2, <1>3, <1>4, <1>14, <2>1 DEF LineAcked
  <1>16. /\ station'[s] = x /\ station'[p] = y /\ y.rx = r2
         /\ handed'[p] = handed[p] \o out /\ handed'[s] = handed[s]
    <2>1. /\ station' = [station EXCEPT ![s] = x, ![p] = y]
          /\ handed' = [handed EXCEPT ![p] = @ \o out] /\ y.rx = r2
      BY DEF DataHeard
    <2> HIDE DEF p, out, r2
    <2>2. station \in [Stations -> StationType]
      BY DEF SessionlessInv
    <2>3. QED
      BY <1>1, <1>2, <2>1, <2>2
  <1>17. Len(handed'[p]) = h + Len(out) /\ InOrder(p)'
    <2> DEFINE g == handed[p]
    <2>1. /\ g \in Seq(Data) /\ h = Len(g) /\ \A i \in 1 .. h : g[i] = i
      <3>1. DOMAIN g = 1 .. Len(g)
        BY <1>2, LenProperties
      <3>2. QED
        BY <1>2, <1>3, <3>1 DEF InOrder
    <2> HIDE DEF g, out, h
    <2>2. Len(g \o out) = h + Len(out) /\ DOMAIN (g \o out) = 1 .. h + Len(out)
      BY <2>1, <1>10, ConcatProperties
    <2>3. ASSUME NEW i \in 1 .. h + Len(out) PROVE (g \o out)[i] = i
      <3>1. i \in Nat /\ h \in Nat /\ Len(out) \in Nat
        BY <1>10, <2>1, LenProperties
      <3>2. CASE i <= h
        <4>1. (g \o out)[i] = g[i]
          BY <3>1, <3>2, <2>1, <1>10, ConcatProperties
        <4>2. QED
          BY <4>1, <3>1, <3>2, <2>1
      <3>3. CASE i > h
        <4>1. i - h \in 1 .. Len(out) /\ h + (i - h) = i
          BY <3>1, <3>3
        <4>2. (g \o out)[i] = out[i - h]
          BY <3>1, <3>3, <2>1, <1>10, ConcatProperties
        <4>3. QED
          BY <4>1, <4>2, <1>10
      <3>4. i <= h \/ i > h
        BY <3>1
      <3>5. QED
        BY <3>2, <3>3, <3>4, Zenon
    <2>4. handed'[p] = g \o out
      BY <1>16 DEF g
    <2>5. QED
      BY <2>2, <2>3, <2>4 DEF InOrder
  <1>18. InOrder(s)'
    BY <1>3, <1>16 DEF InOrder
  <1> HIDE DEF p, h, hs, out, r2, f
  <1>19. /\ InLine(station'[s], station'[p].rx, Len(handed'[p]), lo[s])
         /\ InLine(station'[p], station'[s].rx, Len(handed'[s]), lo[p])
         /\ NeverHeld => InLine(station'[p], station'[s].rx, Len(handed'[s]), Base(station'[p]))
         /\ Base(station'[s]) = Base(station[s])
    BY <1>13, <1>15, <1>16, <1>17 DEF hs
  <1>20. QED
    BY <1>1, <1>17, <1>18, <1>19 DEF Line, InLineAt

\* An ACK is heard: it is the one of the sender's window as that now stands.
LEMMA AckInLine ==
    ASSUME SessionlessInv, NEW s \in Stations, NEW x, NEW y, AckHeard(s, x, y),
           NEW lo \in [Stations -> Nat], Line(lo)
    PROVE  /\ Line(lo)'
           /\ \A q \in Stations :
                lo[q] = Base(station[q]) /\ NeverHeld => InLineAt(q, Base(station[q]))'
  <1> DEFINE p == Other(s)
             f == Head(station[s].air)
             h == Len(handed[p])
             hs == Len(handed[s])
  <1>1. p \in Stations /\ p # s /\ Stations = {s, p} /\ Other(p) = s /\ Other(s) = p
    BY TwoStations
  <1>2. lo[s] \in Nat /\ lo[p] \in Nat /\ h \in Nat /\ hs \in Nat
    <2>1. handed[p] \in Seq(Data) /\ handed[s] \in Seq(Data)
      BY <1>1 DEF SessionlessInv
    <2>2. QED
      BY <1>1, <2>1, LenProperties
  <1>3. /\ InLine(station[s], station[p].rx, h, lo[s]) /\ InOrder(s)
        /\ InLine(station[p], station[s].rx, hs, lo[p]) /\ InOrder(p)
    BY <1>1 DEF Line, InLineAt
  <1>4. /\ station[p].air = << >> /\ station[s].air # << >> /\ f.type = "Ack"
        /\ NeverHeld => station[p].queue = << >>
    BY HearerIdle DEF AckHeard
  <1>5. f \in OnAir(lo[s], Sent(station[s]), station[s].rx)
    BY <1>3, <1>4, HeadInLine
  <1>6. f.num = AckInfo(station[s].rx).ack_num /\ f.bitmap = AckInfo(station[s].rx).bitmap
    BY <1>4, <1>5 DEF OnAir
  <1>7. TrueAck(station[p], station[s].rx, hs, f.num, f.bitmap)
    <2> DEFINE r == station[s].rx
               n == Sent(station[p])
    <2>1. Sound(station[p]) /\ Sound(station[s])
      BY <1>1 DEF SessionlessInv, Settled
    <2>2. /\ n \in Int /\ Window \in 1 .. Ring /\ Base(station[p]) \in Nat /\ Base(station[p]) <= hs
          /\ Coupled(station[p].tx, r, n, hs, Window)
      BY <1>2, <1>3, <2>1, LineNumbers
    <2>3. r \in RxType(Data) /\ ReceiverCoupled(r, n, hs, Window)
      BY <2>1, <2>2, ShapeIs DEF Sound, Shape, RxSet, Coupled
    <2> HIDE DEF r, n, f, hs
    <2>4. /\ AckInfo(r).ack_num = hs % SeqMod
          /\ AckInfo(r).bitmap \in SUBSET (0 .. SackRange - 1)
          /\ \A bit \in AckInfo(r).bitmap : ReceivedAt(r, hs, hs + (bit + 1))
      BY <1>2, <2>2, <2>3, CoupledAckInfo
    <2>5. hs \in Int /\ hs <= hs /\ Base(station[p]) - hs < SeqMod - HalfSpace
      BY <1>2, <2>2, ArqBounds
    <2>6. TrueAck(station[p], r, hs, AckInfo(r).ack_num, AckInfo(r).bitmap)
      BY <2>4, <2>5 DEF TrueAck
    <2>7. QED
      BY <1>6, <2>6 DEF r
  <1>8. /\ InLine(y, station[s].rx, hs, lo[p])
        /\ NeverHeld => InLine(y, station[s].rx, hs, Base(y))
    <2>1. LineAcked(station[p], y, f.num, f.bitmap)
      BY DEF AckHeard
    <2>2. QED
      BY <1>2, <1>3, <1>4, <1>7, <2>1 DEF LineAcked
  <1>9. /\ InLine(x, station[p].rx, h, lo[s]) /\ Base(x) = Base(station[s]) /\ x.rx = station[s].rx
    BY <1>2, <1>3 DEF AckHeard, LineKept
  <1>10. /\ station'[s] = x /\ station'[p] = y /\ y.rx = station[p].rx /\ handed' = handed
    <2>1. /\ station' = [station EXCEPT ![s] = x, ![p] = y] /\ handed' = handed
          /\ y.rx = station[p].rx
      BY DEF AckHeard
    <2> HIDE DEF p
    <2>2. station \in [Stations -> StationType]
      BY DEF SessionlessInv
    <2>3. QED
      BY <1>1, <2>1, <2>2
  <1>11. InOrder(s)' /\ InOrder(p)'
    BY <1>3, <1>10 DEF InOrder
  <1> HIDE DEF p, f
  <1>12. /\ InLine(station'[s], station'[p].rx, Len(handed'[p]), lo[s])
         /\ InLine(station'[p], station'[s].rx, Len(handed'[s]), lo[p])
         /\ NeverHeld => InLine(station'[p], station'[s].rx, Len(handed'[s]), Base(station'[p]))
         /\ Base(station'[s]) = Base(station[s])
    BY <1>8, <1>9, <1>10
  <1> HIDE DEF h, hs
  <1>13. QED
    BY <1>1, <1>11, <1>12 DEF Line, InLineAt

\* Without a Reset and outside the exception, every step keeps both in line.
LEMMA LineStep ==
    ASSUME SessionlessInv, [Next]_vars, resets' = 0, ~Crossed', KeepsUp,
           NEW lo \in [Stations -> Nat], Line(lo)
    PROVE  /\ Line(lo)'
           /\ \A q \in Stations :
                lo[q] = Base(station[q]) /\ NeverHeld => InLineAt(q, Base(station[q]))'
  <1>1. ~Crossed /\ resets = 0
    BY SubmittedGrows
  <1>2. CASE UNCHANGED vars
    <2>1. station' = station /\ handed' = handed
      BY <1>2 DEF vars
    <2>2. ASSUME NEW q \in Stations
          PROVE  /\ InLineAt(q, lo[q])' /\ InOrder(q)'
                 /\ lo[q] = Base(station[q]) => InLineAt(q, Base(station[q]))'
      <3>1. InLineAt(q, lo[q]) /\ InOrder(q)
        BY DEF Line
      <3>2. Base(station'[q]) = Base(station[q])
        BY <2>1
      <3>3. QED
        BY <2>1, <3>1, <3>2 DEF InLineAt, InOrder
    <2>3. QED
      BY <2>2 DEF Line
  <1>3. ASSUME NEW s \in Stations, NEW st, OneEvent(s, st)
        PROVE  /\ Line(lo)'
               /\ \A q \in Stations : lo[q] = Base(station[q]) => InLineAt(q, Base(station[q]))'
    BY <1>3, OneInLine
  <1>4. ASSUME NEW s \in Stations, NEW x, NEW y, DataHeard(s, x, y)
        PROVE  /\ Line(lo)'
               /\ \A q \in Stations :
                    lo[q] = Base(station[q]) /\ NeverHeld => InLineAt(q, Base(station[q]))'
    BY <1>1, <1>4, DataInLine
  <1>5. ASSUME NEW s \in Stations, NEW x, NEW y, AckHeard(s, x, y)
        PROVE  /\ Line(lo)'
               /\ \A q \in Stations :
                    lo[q] = Base(station[q]) /\ NeverHeld => InLineAt(q, Base(station[q]))'
    BY <1>5, AckInLine
  <1>6. resets' # resets + 1
    <2>1. resets' = 0 /\ resets = 0
      BY <1>1
    <2>2. QED
      BY <2>1
  <1>7. QED
    BY <1>2, <1>3, <1>4, <1>5, <1>6, Events

\* Two stations that have sent nothing are in line.
LEMMA LineInit ==
    ASSUME Init, NEW lo \in [Stations -> Nat], \A s \in Stations : lo[s] = 0
    PROVE  Line(lo) /\ \A s \in Stations : Base(station[s]) = 0
  <1> SUFFICES ASSUME NEW s \in Stations
               PROVE  InLineAt(s, 0) /\ InOrder(s) /\ Base(station[s]) = 0
    BY DEF Line
  <1>1. Other(s) \in Stations
    BY TwoStations
  <1>2. /\ station[s].tx = ArqTxNew /\ station[Other(s)].rx = ArqRxNew
        /\ station[s].submitted = 0 /\ station[s].backlog = 0
        /\ station[s].queue = << >> /\ station[s].air = << >>
    BY <1>1 DEF Init, StationNew
  <1>3. handed[s] = << >> /\ Len(handed[Other(s)]) = 0
    BY <1>1, EmptySeq DEF Init
  <1>4. Sent(station[s]) = 0
    BY <1>2 DEF Sent
  <1>5. Coupled(ArqTxNew, ArqRxNew, 0, 0, Window) /\ SendBase(ArqTxNew, 0) = 0
    BY Constants, CoupledNew
  <1>6. Base(station[s]) = 0
    BY <1>2, <1>4, <1>5 DEF Base
  <1>7. InLineAt(s, 0)
    BY <1>2, <1>3, <1>4, <1>5, <1>6, EmptySeq DEF InLineAt, InLine, Stocks
  <1>8. InOrder(s)
    BY <1>3, EmptySeq DEF InOrder
  <1>9. QED
    BY <1>6, <1>7, <1>8

\* Two stations in line hand up in order, and BUFFER forgets only what arrived.
LEMMA LineIsReliable ==
    ASSUME SessionlessInv, NEW lo \in [Stations -> Nat], Line(lo)
    PROVE  \A s \in Stations :
              /\ \A i \in DOMAIN handed[s] : handed[s][i] = i
              /\ station[s].submitted - station[s].reported <= AtPeer(s)
  <1> SUFFICES ASSUME NEW s \in Stations
               PROVE  station[s].submitted - station[s].reported <= AtPeer(s)
    BY DEF Line, InOrder
  <1> DEFINE st == station[s]
             r == station[Other(s)].rx
             h == Len(handed[Other(s)])
             buf == Cardinality({i \in Slot : r.rx_buf[i].received})
             un == Cardinality(UnackedSlots(st.tx))
  <1>1. h \in Nat /\ lo[s] \in Nat
    <2>1. handed[Other(s)] \in Seq(Data)
      BY TwoStations DEF SessionlessInv
    <2>2. QED
      BY <2>1, LenProperties
  <1>2. Sound(st) /\ Counted(st)
    BY DEF SessionlessInv, Settled
  <1>3. InLine(st, r, h, lo[s])
    BY DEF Line, InLineAt
  <1>4. AtPeer(s) = h + buf
    BY DEF AtPeer
  <1> HIDE DEF st, r, h
  <1>5. /\ st.tx \in TxType(Data) /\ Sent(st) \in Int /\ Window \in 1 .. Ring /\ h \in Int
        /\ Coupled(st.tx, r, Sent(st), h, Window) /\ st.submitted \in Nat
    BY <1>1, <1>2, <1>3, LineNumbers
  <1>6. Waiting(st.tx) = UnackedSlots(st.tx)
    BY DEF Waiting, UnackedSlots
  <1>7. Sent(st) - h <= un + buf
    BY <1>5, <1>6, CoupledCount
  <1>8. un \in Nat /\ buf \in Nat
    <2>1. IsFiniteSet(Slot) /\ UnackedSlots(st.tx) \subseteq Slot
      BY ArqBounds, FS_Interval DEF Slot, UnackedSlots
    <2>2. QED
      BY <2>1, FS_Subset, FS_CardinalityType
  <1>9. st.reported = st.backlog + un /\ st.backlog \in Nat
    BY <1>2, ShapeIs DEF Counted, BufferedTx, Sound, Shape
  <1>10. Sent(st) = st.submitted - st.backlog
    BY DEF Sent
  <1> HIDE DEF un, buf
  <1>11. st.submitted - st.reported <= h + buf
    BY <1>5, <1>7, <1>8, <1>9, <1>10
  <1>12. QED
    BY <1>4, <1>11 DEF st

\* Floors at nothing, and at what each sender has seen acknowledged.
Ground == [s \in Stations |-> 0]
Tight == \A s \in Stations : InLineAt(s, Base(station[s])) /\ InOrder(s)

\* The inductive invariants, where ReliableInOrder says anything.
Plain == resets = 0 /\ ~Crossed
Aligned == Plain => Line(Ground)
ShortAligned == Plain /\ Short => Line(Ground)
TightAligned == Plain => Tight

\* The floors of a tight line.
LEMMA TightFloors ==
    ASSUME SessionlessInv, Tight
    PROVE  \E lo \in [Stations -> Nat] : Line(lo) /\ \A s \in Stations : lo[s] = Base(station[s])
  <1>1. ASSUME NEW s \in Stations PROVE Base(station[s]) \in Nat
    <2>1. Sound(station[s]) /\ handed[Other(s)] \in Seq(Data)
      BY TwoStations DEF SessionlessInv, Settled
    <2>2. /\ station[s].tx \in TxType(Data) /\ Sent(station[s]) \in Int /\ Window \in 1 .. Ring
          /\ Len(handed[Other(s)]) \in Int
      BY <2>1, ShapeIs, Constants, LenProperties DEF Sound, Shape, TxSet, Sent
    <2>3. Coupled(station[s].tx, station[Other(s)].rx, Sent(station[s]), Len(handed[Other(s)]), Window)
      BY DEF Tight, InLineAt, InLine
    <2>4. QED
      BY <2>2, <2>3, CoupledCounters DEF Base
  <1> DEFINE lo == [s \in Stations |-> Base(station[s])]
  <1>2. lo \in [Stations -> Nat] /\ \A s \in Stations : lo[s] = Base(station[s])
    BY <1>1
  <1>3. Line(lo)
    BY <1>2 DEF Line, Tight
  <1>4. QED
    BY <1>2, <1>3

\* A copy above the floor of a tight line is less than a window behind.
LEMMA TightKeepsUp ==
    ASSUME SessionlessInv, NEW lo \in [Stations -> Nat], Line(lo),
           (\A s \in Stations : lo[s] = Base(station[s])) \/ Short
    PROVE  KeepsUp
  <1> SUFFICES ASSUME NEW s \in Stations, NEW i \in DOMAIN station[s].air,
                      station[s].air[i].type = "Data"
               PROVE  Len(handed[Other(s)]) - station[s].air[i].data < SeqMod - Window
    BY DEF KeepsUp
  <1> DEFINE st == station[s]
             h == Len(handed[Other(s)])
             d == station[s].air[i].data
  <1>1. Sound(st) /\ h \in Nat /\ lo[s] \in Nat
    <2>1. handed[Other(s)] \in Seq(Data)
      BY TwoStations DEF SessionlessInv
    <2>2. QED
      BY <2>1, LenProperties DEF SessionlessInv, Settled
  <1>2. InLine(st, station[Other(s)].rx, h, lo[s])
    BY DEF Line, InLineAt
  <1>3. st.air[i] \in OnAir(lo[s], Sent(st), st.rx)
    <2> DEFINE a == st.air
               A == OnAir(lo[s], Sent(st), st.rx)
    <2>1. a \in Seq(A) /\ i \in DOMAIN a
      BY <1>2 DEF InLine, Stocks
    <2> HIDE DEF a, A
    <2>2. a[i] \in A
      BY <2>1
    <2>3. QED
      BY <2>2 DEF a, A
  <1>4. d \in Data \cup {0} /\ lo[s] < d
    BY <1>3 DEF OnAir, Frame
  <1>5. d \in Nat
    <2>1. \A e \in Data \cup {0} : e \in Nat
      <3>1. Data \subseteq Nat
        BY Constants
      <3>2. QED
        BY <3>1
    <2>2. QED
      BY <1>4, <2>1
  <1> HIDE DEF st, h, d
  <1>6. /\ Sent(st) \in Int /\ h <= Sent(st) /\ InFlight(st.tx) = Sent(st) - Base(st)
        /\ Base(st) \in Nat /\ Sent(st) <= st.submitted /\ st.submitted \in Nat
        /\ Sent(st) <= Base(st) + Window
    <2>1. /\ Sent(st) \in Int /\ h <= Sent(st) /\ InFlight(st.tx) = Sent(st) - Base(st)
          /\ Base(st) \in Nat /\ Sent(st) <= st.submitted /\ st.submitted \in Nat
          /\ Coupled(st.tx, station[Other(s)].rx, Sent(st), h, Window)
      BY <1>1, <1>2, LineNumbers
    <2>2. Sent(st) <= Base(st) + Window
      BY <2>1 DEF Coupled, SenderCoupled, Base
    <2>3. QED
      BY <2>1, <2>2
  <1>7. Window \in Nat /\ SeqMod \in Nat /\ 2 * Window <= SeqMod
    BY Constants, ArqBounds
  <1>8. CASE lo[s] = Base(st)
    BY <1>1, <1>4, <1>5, <1>6, <1>7, <1>8 DEF d, h
  <1>9. CASE st.submitted <= SeqMod - Window
    BY <1>1, <1>4, <1>5, <1>6, <1>7, <1>9 DEF d, h
  <1>10. QED
    BY <1>8, <1>9 DEF Short, st

\* As long as no copy waits so long that its number has come round, payloads
\* reach the other host in order and once each, and a payload BUFFER no longer
\* counts has reached the peer: through probes, early timeouts and stale queue
\* entries, whatever is lost and whatever the gate says.
THEOREM ReliableWhileCopiesKeepUp ==
    Spec /\ []KeepsUp => []ReliableInOrder
  <1>1. Ground \in [Stations -> Nat] /\ \A s \in Stations : Ground[s] = 0
    BY DEF Ground
  <1>2. Init => Aligned
    BY <1>1, LineInit DEF Aligned
  <1>3. SessionlessInv /\ KeepsUp /\ Aligned /\ [Next]_vars => Aligned'
    <2> SUFFICES ASSUME SessionlessInv, KeepsUp, Aligned, [Next]_vars, Plain'
                 PROVE  Line(Ground)'
      BY DEF Aligned
    <2>1. resets' = 0 /\ ~Crossed' /\ Plain
      BY SubmittedGrows DEF Plain
    <2>2. PICK lo \in [Stations -> Nat] : lo = Ground
      BY <1>1
    <2>3. Line(lo)
      BY <2>1, <2>2 DEF Aligned
    <2>4. Line(lo)'
      BY <2>1, <2>3, LineStep
    <2>5. QED
      BY <2>2, <2>4
  <1>4. SessionlessInv /\ Aligned => ReliableInOrder
    BY <1>1, LineIsReliable DEF ReliableInOrder, Aligned, Plain
  <1>5. QED
    BY <1>2, <1>3, <1>4, SessionlessInductive, PTL DEF Spec

\* That needs no more than a queue that never waits with nothing keyed: a station
\* then hears no ACK before its queue is empty, so that no queued copy outlives the
\* acknowledgement of its segment.
THEOREM ReliableWithoutHolds ==
    Spec /\ []NeverHeld => []ReliableInOrder
  <1>1. Init => TightAligned
    <2> SUFFICES ASSUME Init PROVE Tight
      BY DEF TightAligned
    <2>1. PICK lo \in [Stations -> Nat] : \A s \in Stations : lo[s] = 0
      <3>1. Ground \in [Stations -> Nat] /\ \A s \in Stations : Ground[s] = 0
        BY DEF Ground
      <3>2. QED
        BY <3>1
    <2>2. Line(lo) /\ \A s \in Stations : Base(station[s]) = 0
      BY <2>1, LineInit
    <2>3. QED
      BY <2>1, <2>2 DEF Line, Tight
  <1>2. SessionlessInv /\ NeverHeld /\ TightAligned /\ [Next]_vars => TightAligned'
    <2> SUFFICES ASSUME SessionlessInv, NeverHeld, TightAligned, [Next]_vars, Plain'
                 PROVE  Tight'
      BY DEF TightAligned
    <2>1. resets' = 0 /\ ~Crossed' /\ Plain
      BY SubmittedGrows DEF Plain
    <2>2. PICK lo \in [Stations -> Nat] : Line(lo) /\ \A s \in Stations : lo[s] = Base(station[s])
      BY <2>1, TightFloors DEF TightAligned
    <2>3. KeepsUp
      BY <2>2, TightKeepsUp
    <2>4. Line(lo)' /\ \A q \in Stations : InLineAt(q, Base(station[q]))'
      BY <2>1, <2>2, <2>3, LineStep
    <2>5. QED
      BY <2>4 DEF Line, Tight
  <1>3. SessionlessInv /\ TightAligned => ReliableInOrder
    BY TightFloors, LineIsReliable DEF ReliableInOrder, TightAligned, Plain
  <1>4. QED
    BY <1>1, <1>2, <1>3, SessionlessInductive, PTL DEF Spec

\* And nothing at all before the numbers come round: while no host has sent more
\* than the sequence space less a window.
THEOREM ReliableWhileShort ==
    Spec => [](Short => ReliableInOrder)
  <1>1. Ground \in [Stations -> Nat] /\ \A s \in Stations : Ground[s] = 0
    BY DEF Ground
  <1>2. Init => ShortAligned
    BY <1>1, LineInit DEF ShortAligned
  <1>3. SessionlessInv /\ ShortAligned /\ [Next]_vars => ShortAligned'
    <2> SUFFICES ASSUME SessionlessInv, ShortAligned, [Next]_vars, Plain', Short'
                 PROVE  Line(Ground)'
      BY DEF ShortAligned
    <2>1. resets' = 0 /\ ~Crossed' /\ Plain /\ Short
      BY SubmittedGrows DEF Plain
    <2>2. PICK lo \in [Stations -> Nat] : lo = Ground
      BY <1>1
    <2>3. Line(lo)
      BY <2>1, <2>2 DEF ShortAligned
    <2>4. KeepsUp
      BY <2>1, <2>3, TightKeepsUp
    <2>5. Line(lo)'
      BY <2>1, <2>3, <2>4, LineStep
    <2>6. QED
      BY <2>2, <2>5
  <1>4. SessionlessInv /\ ShortAligned => (Short => ReliableInOrder)
    BY <1>1, LineIsReliable DEF ReliableInOrder, ShortAligned, Plain
  <1>5. QED
    BY <1>2, <1>3, <1>4, SessionlessInductive, PTL DEF Spec

\* Traffic both ways is always short, outside the exception: so there
\* ReliableInOrder holds without any condition on queues or gate.
THEOREM ReliableBothWays ==
    Spec => []((\A s \in Stations : station[s].submitted > 0) => ReliableInOrder)
  <1>1. SessionlessInv /\ (Short => ReliableInOrder)
           => ((\A s \in Stations : station[s].submitted > 0) => ReliableInOrder)
    <2> SUFFICES ASSUME SessionlessInv, Short => ReliableInOrder,
                        \A s \in Stations : station[s].submitted > 0, ~Crossed
                 PROVE  ReliableInOrder
      BY DEF ReliableInOrder
    <2>1. ASSUME NEW s \in Stations PROVE station[s].submitted <= SeqMod - Window
      <3>1. station[s].submitted \in Nat
        BY ShapeIs DEF SessionlessInv, Settled, Sound, Shape
      <3>2. ~(station[s].submitted >= HalfSpace)
        BY TwoStations DEF Crossed
      <3>3. HalfSpace <= SeqMod - Window /\ HalfSpace \in Nat /\ SeqMod - Window \in Int
        BY Constants, ArqBounds
      <3>4. QED
        BY <3>1, <3>2, <3>3
    <2>2. QED
      BY <2>1 DEF Short
  <1>2. QED
    BY <1>1, SessionlessInductive, ReliableWhileShort, PTL

=============================================================================
