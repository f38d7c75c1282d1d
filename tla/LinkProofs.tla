----------------------------- MODULE LinkProofs -----------------------------
(***************************************************************************)
(* Theorems about Link for every timer, retry budget, window of one and    *)
(* sequence space, and every number of connections and payloads.           *)
(*                                                                         *)
(* First the transmit queue: it never holds a frame of another session,    *)
(* nor two copies of one. That needs the queue to be a sequence and the    *)
(* station to be a record, and nothing of the ARQ pair.                    *)
(*                                                                         *)
(* Then the two stations together: in-order delivery, and the delivery of  *)
(* everything by a drain that ends well. Both rest on LinkSafe, which pairs*)
(* the sender of each session with a receiver (Coupled, of ArqLemmas): the *)
(* peer's own while the peer is engaged in that session, or one already    *)
(* drained. A session is told from the ones before it by the number of     *)
(* connect() calls that its id counts.                                     *)
(***************************************************************************)
EXTENDS Link, ArqLemmas, FiniteSetTheorems

-----------------------------------------------------------------------------
(* The inductive invariant. *)

LinkFields ==
    {"phase", "listening", "sid", "tx", "rx", "submitted", "backlog", "queue", "air",
     "closing", "event", "req_attempts", "req_keyed", "awaiting_first_ack", "data_keyed", "idle"}

IsQueue(queue) == \E S : queue \in Seq(S)

\* Frames of which one in the queue is enough.
Sole == {"Data", "Ack", "Req"}

\* A frame in the queue of a station that is in the given phase and session.
Belongs(f, phase, sid) ==
    /\ f.type \in {"Data", "Ack", "Keepalive"} => phase \in {"Connected", "Draining"} /\ f.sid = sid
    /\ f.type = "Disconnect" => phase = "Closing"
    /\ f.type = "Req" => phase = "Calling"

AllBelong(queue, phase, sid) == \A i \in DOMAIN queue : Belongs(queue[i], phase, sid)
NoneTwice(queue) ==
    \A i, j \in DOMAIN queue : queue[i].type \in Sole /\ queue[j].type = queue[i].type => i = j
Lacks(queue, type) == \A i \in DOMAIN queue : queue[i].type # type

\* A request that was keyed and not answered has left the queue: its retry is
\* then the only copy in it.
Current(st) ==
    /\ DOMAIN st = LinkFields /\ IsQueue(st.queue)
    /\ AllBelong(st.queue, st.phase, st.sid)
    /\ NoneTwice(st.queue)
    /\ st.req_keyed => Lacks(st.queue, "Req")

LinkInv == DOMAIN station = Stations /\ \A s \in Stations : Current(station[s])

-----------------------------------------------------------------------------
(* Queues. *)

\* A finite set of positions can be listed in increasing order.
LEMMA PositionsListed ==
    ASSUME NEW n \in Nat, NEW T \in SUBSET (1 .. n)
    PROVE  /\ Cardinality(T) \in Nat
           /\ \E o \in [1 .. Cardinality(T) -> T] :
                 \A i, j \in DOMAIN o : i < j => o[i] < o[j]
  <1> DEFINE Listed(S) == \E o \in [1 .. Cardinality(S) -> S] :
                              \A i, j \in DOMAIN o : i < j => o[i] < o[j]
             Bad == {m \in Nat : \E S \in SUBSET (1 .. m) : ~Listed(S)}
  <1>1. ASSUME NEW m \in Nat, NEW S \in SUBSET (1 .. m)
        PROVE  IsFiniteSet(S) /\ Cardinality(S) \in Nat
    <2>1. IsFiniteSet(1 .. m)
      BY FS_Interval
    <2>2. QED
      BY <2>1, FS_Subset, FS_CardinalityType
  <1>2. ASSUME Bad # {} PROVE FALSE
    <2> DEFINE m == Min(Bad)
    <2>1. m \in Bad /\ \A y \in Bad : m <= y
      BY <1>2, MinNat
    <2>2. PICK S \in SUBSET (1 .. m) : ~Listed(S)
      BY <2>1
    <2>3. m \in Nat /\ m - 1 \notin Bad
      <3> HIDE DEF Listed
      <3>1. Bad \subseteq Nat
        OBVIOUS
      <3> HIDE DEF Bad, m
      <3>2. QED
        BY <2>1, <3>1
    <2> HIDE DEF m
    <2>4. CASE S = {}
      <3>1. Cardinality(S) = 0
        BY <2>4, FS_EmptySet
      <3>2. 1 .. Cardinality(S) = {}
        BY <3>1
      <3>3. [i \in {} |-> 0] \in [1 .. Cardinality(S) -> S]
        BY <3>2
      <3>4. QED
        BY <3>3, <2>2
    <2>5. CASE S # {}
      <3> DEFINE R == S \ {m}
      <3>1. m - 1 \in Nat /\ R \in SUBSET (1 .. m - 1)
        <4>1. PICK e \in S : TRUE
          BY <2>5
        <4>2. e \in Nat /\ 1 <= e /\ e <= m
          OBVIOUS
        <4>3. \A q \in R : q \in 1 .. m /\ q # m
          OBVIOUS
        <4>4. \A q \in R : q \in 1 .. m - 1
          BY <2>3, <4>3
        <4>5. QED
          BY <2>3, <4>2, <4>4
      <3>2. Listed(R)
        <4> HIDE DEF Listed, R
        <4>1. QED
          BY <2>3, <3>1
      <3>3. m \in S
        <4>1. m \notin S => R = S
          OBVIOUS
        <4> HIDE DEF Listed
        <4>2. QED
          BY <4>1, <3>2, <2>2
      <3>4. Cardinality(R) = Cardinality(S) - 1 /\ Cardinality(S) \in Nat /\ Cardinality(R) \in Nat
        BY <1>1, <2>3, <3>1, <3>3, FS_RemoveElement
      <3>5. PICK o \in [1 .. Cardinality(R) -> R] : \A i, j \in DOMAIN o : i < j => o[i] < o[j]
        BY <3>2
      <3> DEFINE c == Cardinality(S)
                 o2 == [i \in 1 .. c |-> IF i = c THEN m ELSE o[i]]
      <3> HIDE DEF R
      <3>6. \A i \in 1 .. c : i # c => i \in 1 .. Cardinality(R) /\ o[i] \in R /\ o2[i] = o[i]
        <4> DEFINE r == Cardinality(R)
        <4>1. c \in Nat /\ r \in Nat /\ r = c - 1 /\ o \in [1 .. r -> R]
          BY <3>4, <3>5
        <4>2. \A i \in 1 .. c : i # c => o2[i] = o[i]
          OBVIOUS
        <4> HIDE DEF r, c, o2
        <4>3. \A i \in 1 .. c : i # c => i \in 1 .. r
          BY <4>1
        <4>4. QED
          BY <4>1, <4>2, <4>3 DEF r
      <3>7. \A i \in 1 .. c : i = c => o2[i] = m
        OBVIOUS
      <3>8. \A q \in R : q < m
        BY <3>1, <2>3
      <3>9. o2 \in [1 .. c -> S] /\ DOMAIN o2 = 1 .. c
        BY <3>3, <3>5, <3>6 DEF R
      <3> HIDE DEF o2, c
      <3>10. ASSUME NEW i \in 1 .. c, NEW j \in 1 .. c, i < j
             PROVE  o2[i] < o2[j]
        <4>1. i # c
          BY <3>4, <3>10 DEF c
        <4>2. CASE j = c
          BY <4>1, <4>2, <3>6, <3>7, <3>8
        <4>3. CASE j # c
          BY <4>1, <4>3, <3>5, <3>6, <3>10
        <4>4. QED
          BY <4>2, <4>3
      <3>11. QED
        BY <3>9, <3>10, <2>2 DEF c
    <2>6. QED
      BY <2>4, <2>5
  <1>3. Listed(T)
    BY <1>2
  <1>4. QED
    BY <1>1, <1>3

\* Every frame of w is one of the queue, each from a place of its own.
PickedFrom(w, queue) ==
    \E o \in [DOMAIN w -> DOMAIN queue] :
        /\ \A i \in DOMAIN w : w[i] = queue[o[i]]
        /\ \A i, j \in DOMAIN w : o[i] = o[j] => i = j

\* retain: what stays are frames of the queue, each from a place of its own,
\* and none of the type taken out.
LEMMA WithoutPicks ==
    ASSUME NEW queue, IsQueue(queue), NEW type
    PROVE  /\ IsQueue(Without(queue, type)) /\ Lacks(Without(queue, type), type)
           /\ PickedFrom(Without(queue, type), queue)
  <1> DEFINE kept == {i \in DOMAIN queue : queue[i].type # type}
             Rising(o) == \A i, j \in DOMAIN o : i < j => o[i] < o[j]
             order == CHOOSE o \in [1 .. Cardinality(kept) -> kept] : Rising(o)
  <1>1. PICK S : queue \in Seq(S)
    BY DEF IsQueue
  <1>2. Len(queue) \in Nat /\ DOMAIN queue = 1 .. Len(queue)
    BY <1>1
  <1>3. kept \in SUBSET (1 .. Len(queue))
    BY <1>2
  <1>4. Cardinality(kept) \in Nat /\ \E o \in [1 .. Cardinality(kept) -> kept] : Rising(o)
    BY <1>2, <1>3, PositionsListed
  <1>5. order \in [1 .. Cardinality(kept) -> kept] /\ Rising(order)
    <2> HIDE DEF Rising
    <2>1. QED
      BY <1>4
  <1>6. Without(queue, type) = [i \in DOMAIN order |-> queue[order[i]]]
    BY DEF Without
  <1>7. \A i \in kept : queue[i] \in S /\ queue[i].type # type /\ i \in DOMAIN queue
    BY <1>1, <1>2
  <1>8. kept \subseteq Nat /\ kept \subseteq DOMAIN queue
    BY <1>2, <1>3
  <1> HIDE DEF kept, order
  <1>9. Without(queue, type) \in [1 .. Cardinality(kept) -> S]
    BY <1>5, <1>6, <1>7
  <1>10. IsQueue(Without(queue, type))
    <2>1. Without(queue, type) \in Seq(S)
      BY <1>4, <1>9
    <2>2. QED
      BY <2>1 DEF IsQueue
  <1>11. DOMAIN Without(queue, type) = 1 .. Cardinality(kept) /\ DOMAIN order = 1 .. Cardinality(kept)
    BY <1>5, <1>9
  <1>12. \A i, j \in 1 .. Cardinality(kept) : order[i] = order[j] => i = j
    <2>1. ASSUME NEW i \in 1 .. Cardinality(kept), NEW j \in 1 .. Cardinality(kept), i < j
          PROVE  order[i] # order[j]
      <3>1. order[i] \in Nat /\ order[j] \in Nat
        BY <1>5, <1>8
      <3>2. order[i] < order[j]
        BY <1>5, <1>11, <2>1
      <3>3. QED
        BY <3>1, <3>2
    <2>2. \A i, j \in 1 .. Cardinality(kept) : i = j \/ i < j \/ j < i
      BY <1>4
    <2>3. QED
      BY <2>1, <2>2
  <1>13. Lacks(Without(queue, type), type)
    BY <1>5, <1>6, <1>7, <1>11 DEF Lacks
  <1>14. /\ order \in [DOMAIN Without(queue, type) -> DOMAIN queue]
         /\ \A i \in DOMAIN Without(queue, type) : Without(queue, type)[i] = queue[order[i]]
    BY <1>5, <1>6, <1>8, <1>11
  <1>15. PickedFrom(Without(queue, type), queue)
    BY <1>11, <1>12, <1>14 DEF PickedFrom
  <1>16. QED
    BY <1>10, <1>13, <1>15

\* So a sound queue stays sound, and lacks what it lacked.
LEMMA WithoutKeeps ==
    ASSUME NEW queue, IsQueue(queue), NoneTwice(queue), NEW type
    PROVE  /\ IsQueue(Without(queue, type)) /\ Lacks(Without(queue, type), type)
           /\ NoneTwice(Without(queue, type))
           /\ \A phase, sid : AllBelong(queue, phase, sid) => AllBelong(Without(queue, type), phase, sid)
           /\ \A t : Lacks(queue, t) => Lacks(Without(queue, type), t)
  <1>1. /\ IsQueue(Without(queue, type)) /\ Lacks(Without(queue, type), type)
        /\ PickedFrom(Without(queue, type), queue)
    BY WithoutPicks
  <1> DEFINE W == Without(queue, type)
  <1>2. PICK o \in [DOMAIN W -> DOMAIN queue] :
           /\ \A i \in DOMAIN W : W[i] = queue[o[i]]
           /\ \A i, j \in DOMAIN W : o[i] = o[j] => i = j
    BY <1>1 DEF PickedFrom
  <1>3. \A i \in DOMAIN W : W[i] = queue[o[i]] /\ o[i] \in DOMAIN queue
    BY <1>2
  <1>4. \A i, j \in DOMAIN W : o[i] = o[j] => i = j
    BY <1>2
  <1> HIDE DEF W
  <1>5. NoneTwice(W)
    BY <1>3, <1>4 DEF NoneTwice
  <1>6. \A phase, sid : AllBelong(queue, phase, sid) => AllBelong(W, phase, sid)
    BY <1>3 DEF AllBelong
  <1>7. \A t : Lacks(queue, t) => Lacks(W, t)
    BY <1>3 DEF Lacks
  <1>8. QED
    BY <1>1, <1>5, <1>6, <1>7 DEF W

\* Appending a frame of a type the queue lacks, or that may be there twice.
LEMMA AppendKeeps ==
    ASSUME NEW queue, IsQueue(queue), NoneTwice(queue), NEW f,
           f.type \in Sole => Lacks(queue, f.type)
    PROVE  /\ IsQueue(Append(queue, f)) /\ NoneTwice(Append(queue, f))
           /\ \A phase, sid : AllBelong(queue, phase, sid) /\ Belongs(f, phase, sid)
                                => AllBelong(Append(queue, f), phase, sid)
           /\ \A t : Lacks(queue, t) /\ f.type # t => Lacks(Append(queue, f), t)
  <1>1. PICK S : queue \in Seq(S)
    BY DEF IsQueue
  <1> DEFINE A == Append(queue, f)
             n == Len(queue)
  <1>2. queue \in Seq(S \cup {f})
    BY <1>1
  <1>3. n \in Nat /\ DOMAIN queue = 1 .. n /\ A \in Seq(S \cup {f}) /\ DOMAIN A = 1 .. n + 1
    BY <1>2
  <1>4. A[n + 1] = f /\ \A i \in 1 .. n : A[i] = queue[i]
    BY <1>2
  <1>5. IsQueue(A)
    BY <1>3 DEF IsQueue
  <1> HIDE DEF A, n
  <1>6. \A i \in DOMAIN A : i = n + 1 \/ i \in DOMAIN queue
    BY <1>3
  <1>7. \A i \in DOMAIN queue : A[i] = queue[i]
    BY <1>3, <1>4
  <1>8. NoneTwice(A)
    BY <1>4, <1>6, <1>7 DEF NoneTwice, Lacks
  <1>9. \A phase, sid : AllBelong(queue, phase, sid) /\ Belongs(f, phase, sid) => AllBelong(A, phase, sid)
    BY <1>4, <1>6, <1>7 DEF AllBelong
  <1>10. \A t : Lacks(queue, t) /\ f.type # t => Lacks(A, t)
    BY <1>4, <1>6, <1>7 DEF Lacks
  <1>11. QED
    BY <1>5, <1>8, <1>9, <1>10 DEF A

\* Taking the head leaves no second copy of it.
LEMMA TailKeeps ==
    ASSUME NEW queue, IsQueue(queue), NoneTwice(queue), queue # << >>
    PROVE  /\ IsQueue(Tail(queue)) /\ NoneTwice(Tail(queue))
           /\ \A phase, sid : AllBelong(queue, phase, sid) => AllBelong(Tail(queue), phase, sid)
           /\ \A t : Lacks(queue, t) => Lacks(Tail(queue), t)
           /\ Head(queue).type \in Sole => Lacks(Tail(queue), Head(queue).type)
  <1>1. PICK S : queue \in Seq(S)
    BY DEF IsQueue
  <1> DEFINE T == Tail(queue)
             n == Len(queue)
  <1>2. /\ n \in Nat \ {0} /\ DOMAIN queue = 1 .. n /\ T \in Seq(S) /\ DOMAIN T = 1 .. n - 1
        /\ Head(queue) = queue[1] /\ \A i \in 1 .. n - 1 : T[i] = queue[i + 1]
    BY <1>1
  <1>3. IsQueue(T)
    BY <1>2 DEF IsQueue
  <1> HIDE DEF T, n
  <1>4. \A i \in DOMAIN T : T[i] = queue[i + 1] /\ i + 1 \in DOMAIN queue /\ i + 1 # 1 /\ i \in Int
    BY <1>2
  <1>5. 1 \in DOMAIN queue
    BY <1>2
  <1>6. NoneTwice(T)
    BY <1>4 DEF NoneTwice
  <1>7. \A phase, sid : AllBelong(queue, phase, sid) => AllBelong(T, phase, sid)
    BY <1>4 DEF AllBelong
  <1>8. \A t : Lacks(queue, t) => Lacks(T, t)
    BY <1>4 DEF Lacks
  <1>9. Head(queue).type \in Sole => Lacks(T, Head(queue).type)
    BY <1>2, <1>4, <1>5 DEF NoneTwice, Lacks
  <1>10. QED
    BY <1>3, <1>6, <1>7, <1>8, <1>9 DEF T

\* The empty queue is sound.
LEMMA EmptyQueue ==
    /\ IsQueue(<< >>) /\ NoneTwice(<< >>)
    /\ \A phase, sid : AllBelong(<< >>, phase, sid)
    /\ \A t : Lacks(<< >>, t)
  <1>1. << >> \in Seq({}) /\ DOMAIN << >> = {}
    OBVIOUS
  <1>2. QED
    BY <1>1 DEF IsQueue, NoneTwice, AllBelong, Lacks

-----------------------------------------------------------------------------
(* The pieces every handler uses. *)

\* A station whose phase, session, queue and pending request are as they were.
LEMMA SameQueue ==
    ASSUME NEW st, Current(st), NEW st2, DOMAIN st2 = DOMAIN st,
           st2.phase = st.phase, st2.sid = st.sid, st2.queue = st.queue,
           st2.req_keyed = st.req_keyed
    PROVE  Current(st2)
  BY DEF Current

\* Frames that belong to a handshake belong everywhere; once no request is
\* left, the queue of a caller has no others.
LEMMA HandshakeFrames ==
    ASSUME NEW queue, NEW phase, NEW sid,
           \/ phase \in {"Idle", "Accepting"} /\ AllBelong(queue, phase, sid)
           \/ phase = "Calling" /\ AllBelong(queue, phase, sid) /\ Lacks(queue, "Req")
    PROVE  \A p, n : AllBelong(queue, p, n)
  BY DEF AllBelong, Belongs, Lacks

\* The effect of reset_session_state on what the invariant speaks of.
LEMMA ResetFields ==
    ASSUME NEW st, DOMAIN st = LinkFields
    PROVE  LET r == ResetSessionState(st)
           IN /\ DOMAIN r = LinkFields /\ r.queue = << >> /\ ~r.req_keyed
              /\ r.phase = st.phase /\ r.sid = st.sid
  BY DEF ResetSessionState, LinkFields

\* session activity touches the timer only.
LEMMA TouchCurrent ==
    ASSUME NEW st, Current(st)
    PROVE  Current(Touch(st)) /\ Touch(st).queue = st.queue
  <1>1. DOMAIN st = LinkFields
    BY DEF Current
  <1>2. /\ DOMAIN Touch(st) = DOMAIN st /\ Touch(st).phase = st.phase /\ Touch(st).sid = st.sid
        /\ Touch(st).queue = st.queue /\ Touch(st).req_keyed = st.req_keyed
    BY <1>1 DEF Touch, LinkFields
  <1> HIDE DEF Current
  <1>3. QED
    BY <1>2, SameQueue

\* A queue of one frame.
LEMMA OneFrame ==
    ASSUME NEW f
    PROVE  /\ IsQueue(Append(<< >>, f)) /\ NoneTwice(Append(<< >>, f))
           /\ \A phase, sid : Belongs(f, phase, sid) => AllBelong(Append(<< >>, f), phase, sid)
           /\ \A t : f.type # t => Lacks(Append(<< >>, f), t)
  <1>1. IsQueue(<< >>) /\ NoneTwice(<< >>) /\ \A t : Lacks(<< >>, t)
    BY EmptyQueue
  <1>2. \A phase, sid : AllBelong(<< >>, phase, sid)
    BY EmptyQueue
  <1>3. QED
    BY <1>1, <1>2, AppendKeeps

\* end_session leaves nothing queued but the DISCONNECT it is closing with.
LEMMA EndSessionCurrent ==
    ASSUME NEW st, DOMAIN st = LinkFields, NEW reason, NEW send \in BOOLEAN
    PROVE  /\ Current(EndSession(st, reason, send))
           /\ send => EndSession(st, reason, send).queue # << >>
  <1> DEFINE r == ResetSessionState(st)
             f == Control(st, "Disconnect")
             e == EndSession(st, reason, send)
  <1>1. DOMAIN r = LinkFields /\ r.queue = << >> /\ ~r.req_keyed
    BY ResetFields
  <1> HIDE DEF r
  <1>2. CASE ~send
    <2>1. /\ DOMAIN e = LinkFields /\ e.queue = << >> /\ ~e.req_keyed
      BY <1>1, <1>2 DEF EndSession, LinkFields, r
    <2> HIDE DEF e
    <2>2. Current(e)
      BY <2>1, EmptyQueue DEF Current
    <2>3. QED
      BY <2>2, <1>2 DEF e
  <1>3. CASE send
    <2>1. f.type = "Disconnect"
      BY DEF Control
    <2>2. /\ DOMAIN e = LinkFields /\ e.queue = Append(<< >>, f) /\ ~e.req_keyed
          /\ e.phase = "Closing"
      <3> DEFINE z == [r EXCEPT !.idle = 0]
      <3>1. e = [Enqueue(z, f) EXCEPT !.phase = "Closing", !.closing = reason]
        BY <1>3 DEF EndSession, r
      <3>2. DOMAIN z = LinkFields /\ z.queue = << >> /\ ~z.req_keyed
        BY <1>1 DEF LinkFields
      <3> HIDE DEF z, f, e
      <3>3. QED
        BY <3>1, <3>2 DEF Enqueue, LinkFields
    <2> HIDE DEF e, f
    <2>3. Belongs(f, e.phase, e.sid)
      BY <2>1, <2>2 DEF Belongs
    <2>4. IsQueue(e.queue) /\ NoneTwice(e.queue) /\ AllBelong(e.queue, e.phase, e.sid)
      BY <2>2, <2>3, OneFrame
    <2>5. Current(e)
      BY <2>2, <2>4 DEF Current
    <2>6. e.queue # << >>
      BY <2>2
    <2>7. QED
      BY <2>5, <2>6 DEF e
  <1>4. QED
    BY <1>2, <1>3

\* established starts a session of which no frame can be queued yet.
LEMMA EstablishedCurrent ==
    ASSUME NEW st, DOMAIN st = LinkFields, IsQueue(st.queue), NoneTwice(st.queue),
           \A p, n : AllBelong(st.queue, p, n), st.req_keyed => Lacks(st.queue, "Req")
    PROVE  Current(Established(st)) /\ DOMAIN Established(st) = LinkFields
           /\ Established(st).queue = st.queue
  <1> DEFINE e == Established(st)
  <1>1. DOMAIN e = LinkFields /\ e.queue = st.queue /\ e.req_keyed = st.req_keyed
    BY DEF Established, LinkFields
  <1>2. AllBelong(e.queue, e.phase, e.sid)
    BY <1>1
  <1> HIDE DEF e
  <1>3. Current(e)
    BY <1>1, <1>2 DEF Current
  <1>4. QED
    BY <1>1, <1>3 DEF e

-----------------------------------------------------------------------------
(* The handlers of received frames. *)

\* An answerer starts over with one CONNECT_ACK in its queue.
LEMMA ConnectReqCurrent ==
    ASSUME NEW st, Current(st) PROVE Current(OnConnectReq(st))
  <1>1. DOMAIN st = LinkFields
    BY DEF Current
  <1> DEFINE r == ResetSessionState(st)
             f == Control(st, "ConnectAck")
             e == [Enqueue(r, f) EXCEPT !.phase = "Accepting", !.idle = 0]
  <1>2. DOMAIN r = LinkFields /\ r.queue = << >> /\ ~r.req_keyed
    BY <1>1, ResetFields
  <1> HIDE DEF r
  <1>3. f.type = "ConnectAck"
    BY DEF Control
  <1> HIDE DEF f
  <1>4. DOMAIN e = LinkFields /\ e.queue = Append(<< >>, f) /\ ~e.req_keyed
    BY <1>2 DEF Enqueue, LinkFields
  <1> HIDE DEF e
  <1>5. Belongs(f, e.phase, e.sid)
    BY <1>3 DEF Belongs
  <1>6. Current(e)
    BY <1>4, <1>5, OneFrame DEF Current
  <1>7. OnConnectReq(st) \in {e, st}
    BY DEF OnConnectReq, e, f, r
  <1>8. QED
    BY <1>6, <1>7

\* A caller drops its request and answers; no frame of a session is queued.
LEMMA ConnectAckCurrent ==
    ASSUME NEW st, Current(st) PROVE Current(OnConnectAck(st))
  <1>1. CASE st.phase # "Calling"
    BY <1>1 DEF OnConnectAck
  <1>2. CASE st.phase = "Calling"
    <2> DEFINE W == Without(st.queue, "Req")
               f == Control(st, "Cfm")
               m == [st EXCEPT !.queue = Append(W, f), !.req_keyed = FALSE]
               e == [Established(m) EXCEPT !.awaiting_first_ack = TRUE]
    <2>1. /\ DOMAIN st = LinkFields /\ IsQueue(st.queue) /\ NoneTwice(st.queue)
          /\ AllBelong(st.queue, "Calling", st.sid)
      BY <1>2 DEF Current
    <2>2. /\ IsQueue(W) /\ NoneTwice(W) /\ Lacks(W, "Req") /\ AllBelong(W, "Calling", st.sid)
      BY <2>1, WithoutKeeps
    <2> HIDE DEF W
    <2>3. \A p, n : AllBelong(W, p, n)
      BY <2>2, HandshakeFrames
    <2>4. f.type = "Cfm"
      BY DEF Control
    <2> HIDE DEF f
    <2>5. (\A p, n : Belongs(f, p, n)) /\ f.type \notin Sole
      BY <2>4 DEF Belongs, Sole
    <2>6. IsQueue(Append(W, f)) /\ NoneTwice(Append(W, f)) /\ \A p, n : AllBelong(Append(W, f), p, n)
      BY <2>2, <2>3, <2>5, AppendKeeps
    <2>7. DOMAIN m = LinkFields /\ m.queue = Append(W, f) /\ ~m.req_keyed
      BY <2>1 DEF LinkFields
    <2> HIDE DEF m
    <2>8. Current(Established(m)) /\ DOMAIN Established(m) = LinkFields
      BY <2>6, <2>7, EstablishedCurrent
    <2>9. /\ DOMAIN e = DOMAIN Established(m) /\ e.phase = Established(m).phase
          /\ e.sid = Established(m).sid /\ e.queue = Established(m).queue
          /\ e.req_keyed = Established(m).req_keyed
      BY <2>8 DEF LinkFields
    <2>10. OnConnectAck(st) = e
      BY <1>2 DEF OnConnectAck, m, f, W
    <2> HIDE DEF e
    <2>11. QED
      BY <2>8, <2>9, <2>10, SameQueue
  <1>3. QED
    BY <1>1, <1>2

\* So does the answerer's side of it.
LEMMA ConnectCfmCurrent ==
    ASSUME NEW st, Current(st) PROVE Current(OnConnectCfm(st))
  <1>1. CASE st.phase # "Accepting"
    BY <1>1 DEF OnConnectCfm
  <1>2. CASE st.phase = "Accepting"
    <2>1. /\ DOMAIN st = LinkFields /\ IsQueue(st.queue) /\ NoneTwice(st.queue)
          /\ AllBelong(st.queue, "Accepting", st.sid) /\ (st.req_keyed => Lacks(st.queue, "Req"))
      BY <1>2 DEF Current
    <2>2. \A p, n : AllBelong(st.queue, p, n)
      BY <2>1, HandshakeFrames
    <2>3. QED
      BY <1>2, <2>1, <2>2, EstablishedCurrent DEF OnConnectCfm
  <1>3. QED
    BY <1>1, <1>2

\* queue_ack replaces the ACK that waits.
LEMMA DataCurrent ==
    ASSUME NEW st, Current(st), NEW f PROVE Current(OnData(st, f))
  <1>1. CASE ~HasArq(st)
    BY <1>1 DEF OnData
  <1>2. CASE HasArq(st)
    <2> DEFINE got == [st EXCEPT !.rx = RxReceive(@, f.num, f.data, Window)]
               W == Without(st.queue, "Ack")
               a == AckFrame(got)
               e == [got EXCEPT !.queue = Append(W, a)]
    <2>1. /\ DOMAIN st = LinkFields /\ IsQueue(st.queue) /\ NoneTwice(st.queue)
          /\ AllBelong(st.queue, st.phase, st.sid) /\ (st.req_keyed => Lacks(st.queue, "Req"))
      BY DEF Current
    <2>2. /\ IsQueue(W) /\ NoneTwice(W) /\ Lacks(W, "Ack") /\ AllBelong(W, st.phase, st.sid)
          /\ st.req_keyed => Lacks(W, "Req")
      BY <2>1, WithoutKeeps
    <2>3. /\ DOMAIN got = LinkFields /\ got.phase = st.phase /\ got.sid = st.sid
          /\ got.queue = st.queue /\ got.req_keyed = st.req_keyed
      BY <2>1 DEF LinkFields
    <2>4. OnData(st, f) = e
      BY <1>2, <2>3 DEF OnData
    <2> HIDE DEF got, W
    <2>5. a.type = "Ack" /\ a.sid = st.sid
      BY <2>3 DEF AckFrame
    <2> HIDE DEF a
    <2>6. Belongs(a, st.phase, st.sid)
      BY <1>2, <2>5 DEF Belongs, HasArq
    <2>7. /\ DOMAIN e = LinkFields /\ e.phase = st.phase /\ e.sid = st.sid
          /\ e.queue = Append(W, a) /\ e.req_keyed = st.req_keyed
      BY <2>3 DEF LinkFields
    <2> HIDE DEF e
    <2>8. /\ IsQueue(Append(W, a)) /\ NoneTwice(Append(W, a))
          /\ AllBelong(Append(W, a), st.phase, st.sid)
          /\ st.req_keyed => Lacks(Append(W, a), "Req")
      BY <2>2, <2>5, <2>6, AppendKeeps
    <2>9. Current(e)
      BY <2>7, <2>8 DEF Current
    <2>10. QED
      BY <2>4, <2>9
  <1>3. QED
    BY <1>1, <1>2

\* on_ack takes back a retransmission that the peer no longer needs.
LEMMA AckCurrent ==
    ASSUME NEW st, Current(st), NEW f PROVE Current(OnAck(st, f))
  <1> DEFINE tx == ProcessAck(st.tx, f.num, {})
             e == [st EXCEPT !.tx = tx,
                             !.data_keyed = @ /\ InFlight(tx) > 0,
                             !.queue = IF InFlight(tx) = 0 THEN Without(@, "Data") ELSE @,
                             !.awaiting_first_ack = FALSE]
  <1>1. /\ DOMAIN st = LinkFields /\ IsQueue(st.queue) /\ NoneTwice(st.queue)
        /\ AllBelong(st.queue, st.phase, st.sid) /\ (st.req_keyed => Lacks(st.queue, "Req"))
    BY DEF Current
  <1>2. OnAck(st, f) \in {st, e}
    BY DEF OnAck
  <1>3. /\ DOMAIN e = LinkFields /\ e.phase = st.phase /\ e.sid = st.sid
        /\ e.queue \in {st.queue, Without(st.queue, "Data")} /\ e.req_keyed = st.req_keyed
    BY <1>1 DEF LinkFields
  <1> HIDE DEF e
  <1>4. Current(e)
    BY <1>1, <1>3, WithoutKeeps DEF Current
  <1>5. QED
    BY <1>2, <1>4

\* No received frame, in any phase, leaves the queue otherwise.
LEMMA ReceiveCurrent ==
    ASSUME NEW st, Current(st), NEW f PROVE Current(Receive(st, f))
  <1>1. CASE f = NoFrame
    BY <1>1 DEF Receive
  <1>2. CASE f # NoFrame /\ f.type = "Disconnect"
    <2>1. Current(EndSession(st, "Remote", FALSE))
      BY EndSessionCurrent DEF Current
    <2>2. QED
      BY <1>2, <2>1 DEF Receive, HandlePdu
  <1>3. CASE f # NoFrame /\ f.type # "Disconnect"
    <2> DEFINE h == CASE f.type = "Req" -> OnConnectReq(st)
                      [] f.type = "ConnectAck" -> OnConnectAck(st)
                      [] f.type = "Cfm" -> OnConnectCfm(st)
                      [] f.type = "Data" -> OnData(st, f)
                      [] f.type = "Ack" -> OnAck(st, f)
                      [] OTHER -> st
    <2>1. Receive(st, f) = Touch(h)
      BY <1>3 DEF Receive, HandlePdu
    <2>2. h \in {OnConnectReq(st), OnConnectAck(st), OnConnectCfm(st), OnData(st, f), OnAck(st, f), st}
      OBVIOUS
    <2> HIDE DEF h
    <2>3. Current(h)
      BY <2>2, ConnectReqCurrent, ConnectAckCurrent, ConnectCfmCurrent, DataCurrent, AckCurrent
    <2>4. QED
      BY <2>1, <2>3, TouchCurrent
  <1>4. QED
    BY <1>1, <1>2, <1>3

-----------------------------------------------------------------------------
(* Timers. *)

\* A retransmission takes the place of the copy that waits.
LEMMA RetransmitsCurrent ==
    ASSUME NEW st, Current(st), NEW due PROVE Current(RunRetransmits(st, due))
  <1> DEFINE seqs == GetRetransmits(st.tx, IF "rto" \in due THEN SeqNum ELSE {}, MaxRetransmit)
             W == Without(st.queue, "Data")
             c == Control(st, "Cfm")
             d == DataFrame(st, st.tx.send_base)
             pre == IF st.awaiting_first_ack THEN << c >> ELSE << >>
             e == [st EXCEPT !.tx = MarkRetransmitted(@, seqs), !.queue = W \o pre \o << d >>]
             ended == EndSession(st, "RetriesExhausted", TRUE)
  <1>1. /\ DOMAIN st = LinkFields /\ IsQueue(st.queue) /\ NoneTwice(st.queue)
        /\ AllBelong(st.queue, st.phase, st.sid) /\ (st.req_keyed => Lacks(st.queue, "Req"))
    BY DEF Current
  <1>2. /\ IsQueue(W) /\ NoneTwice(W) /\ Lacks(W, "Data") /\ AllBelong(W, st.phase, st.sid)
        /\ st.req_keyed => Lacks(W, "Req")
    BY <1>1, WithoutKeeps
  <1>3. RunRetransmits(st, due) \in {st, e, ended} /\ (HasArq(st) \/ RunRetransmits(st, due) = st)
    BY DEF RunRetransmits
  <1>4. Current(ended)
    BY <1>1, EndSessionCurrent
  <1> HIDE DEF W, ended, seqs
  <1>5. ASSUME HasArq(st) PROVE Current(e)
    <2>1. c.type = "Cfm" /\ d.type = "Data" /\ d.sid = st.sid
      BY DEF Control, DataFrame
    <2> HIDE DEF c, d
    <2> DEFINE V == W \o pre
    <2>2. V \in {W, Append(W, c)}
      <3>1. PICK S : W \in Seq(S)
        BY <1>2 DEF IsQueue
      <3>2. W \in Seq(S \cup {c})
        BY <3>1
      <3>3. W \o << >> = W /\ W \o << c >> = Append(W, c)
        BY <3>2
      <3>4. QED
        BY <3>3
    <2> HIDE DEF pre
    <2>3. Belongs(c, st.phase, st.sid) /\ c.type \notin Sole /\ Belongs(d, st.phase, st.sid)
      BY <2>1, <1>5 DEF Belongs, Sole, HasArq
    <2>4. /\ IsQueue(V) /\ NoneTwice(V) /\ Lacks(V, "Data") /\ AllBelong(V, st.phase, st.sid)
          /\ st.req_keyed => Lacks(V, "Req")
      BY <1>2, <2>1, <2>2, <2>3, AppendKeeps
    <2> HIDE DEF V
    <2>5. V \o << d >> = Append(V, d)
      <3>1. PICK S : V \in Seq(S)
        BY <2>4 DEF IsQueue
      <3>2. V \in Seq(S \cup {d})
        BY <3>1
      <3>3. QED
        BY <3>2
    <2>6. /\ IsQueue(Append(V, d)) /\ NoneTwice(Append(V, d))
          /\ AllBelong(Append(V, d), st.phase, st.sid)
          /\ st.req_keyed => Lacks(Append(V, d), "Req")
      BY <2>1, <2>3, <2>4, AppendKeeps
    <2>7. e = [st EXCEPT !.tx = MarkRetransmitted(@, seqs), !.queue = Append(V, d)]
      BY <2>5 DEF V
    <2> HIDE DEF e
    <2>8. /\ DOMAIN e = LinkFields /\ e.phase = st.phase /\ e.sid = st.sid
          /\ e.queue = Append(V, d) /\ e.req_keyed = st.req_keyed
      BY <1>1, <2>7 DEF LinkFields
    <2>9. QED
      BY <2>6, <2>8 DEF Current
  <1> HIDE DEF e
  <1>6. QED
    BY <1>3, <1>4, <1>5

\* A keepalive is queued in a session only.
LEMMA SessionTimersCurrent ==
    ASSUME NEW st, Current(st), NEW due PROVE Current(RunSessionTimers(st, due))
  <1> DEFINE k == Control(st, "Keepalive")
             z == [st EXCEPT !.idle = 0]
             kept == Enqueue(z, k)
  <1>1. /\ DOMAIN st = LinkFields /\ IsQueue(st.queue) /\ NoneTwice(st.queue)
        /\ AllBelong(st.queue, st.phase, st.sid) /\ (st.req_keyed => Lacks(st.queue, "Req"))
    BY DEF Current
  <1>2. CASE IsTimedOut(st)
    <2>1. \A reason : Current(EndSession(st, reason, FALSE))
      BY <1>1, EndSessionCurrent
    <2>2. QED
      BY <1>2, <2>1 DEF RunSessionTimers
  <1>3. ASSUME NeedsKeepalive(st) PROVE Current(kept)
    <2>1. /\ DOMAIN z = LinkFields /\ z.queue = st.queue /\ z.phase = st.phase /\ z.sid = st.sid
          /\ z.req_keyed = st.req_keyed
      BY <1>1 DEF LinkFields
    <2>2. k.type = "Keepalive" /\ k.sid = st.sid
      BY DEF Control
    <2> HIDE DEF k, z
    <2>3. Belongs(k, st.phase, st.sid) /\ k.type \notin Sole
      BY <1>3, <2>2 DEF Belongs, Sole, NeedsKeepalive
    <2>4. /\ IsQueue(Append(st.queue, k)) /\ NoneTwice(Append(st.queue, k))
          /\ AllBelong(Append(st.queue, k), st.phase, st.sid)
          /\ st.req_keyed => Lacks(Append(st.queue, k), "Req")
      BY <1>1, <2>2, <2>3, AppendKeeps
    <2>5. /\ DOMAIN kept = LinkFields /\ kept.phase = st.phase /\ kept.sid = st.sid
          /\ kept.queue = Append(st.queue, k) /\ kept.req_keyed = st.req_keyed
      BY <2>1 DEF Enqueue, LinkFields
    <2> HIDE DEF kept
    <2>6. QED
      BY <2>4, <2>5 DEF Current
  <1>4. CASE ~IsTimedOut(st)
    <2> DEFINE x == IF NeedsKeepalive(st) /\ st.queue = << >> THEN kept ELSE st
    <2>1. RunSessionTimers(st, due) = RunRetransmits(x, due)
      BY <1>4 DEF RunSessionTimers
    <2>2. Current(x)
      <3> HIDE DEF kept
      <3>1. QED
        BY <1>3
    <2> HIDE DEF x
    <2>3. QED
      BY <2>1, <2>2, RetransmitsCurrent
  <1>5. QED
    BY <1>2, <1>4

\* A CONNECT_REQ is repeated when the last one was keyed, so it is the only one.
LEMMA TimersCurrent ==
    ASSUME NEW st, Current(st), NEW due PROVE Current(RunTimers(st, due))
  <1>1. /\ DOMAIN st = LinkFields /\ IsQueue(st.queue) /\ NoneTwice(st.queue)
        /\ AllBelong(st.queue, st.phase, st.sid) /\ (st.req_keyed => Lacks(st.queue, "Req"))
    BY DEF Current
  <1> DEFINE z == [st EXCEPT !.req_keyed = FALSE]
             f == Control(st, "Req")
             again == Enqueue(z, f)
  <1>2. ASSUME st.phase = "Calling", st.req_keyed PROVE Current(again)
    <2>1. DOMAIN z = LinkFields /\ z.queue = st.queue /\ z.phase = "Calling" /\ z.sid = st.sid /\ ~z.req_keyed
      BY <1>1, <1>2 DEF LinkFields
    <2>2. f.type = "Req"
      BY DEF Control
    <2> HIDE DEF f, z
    <2>3. Belongs(f, "Calling", st.sid)
      BY <2>2 DEF Belongs
    <2>4. /\ IsQueue(Append(st.queue, f)) /\ NoneTwice(Append(st.queue, f))
          /\ AllBelong(Append(st.queue, f), "Calling", st.sid)
      BY <1>1, <1>2, <2>2, <2>3, AppendKeeps
    <2>5. /\ DOMAIN again = LinkFields /\ again.phase = "Calling" /\ again.sid = st.sid
          /\ again.queue = Append(st.queue, f) /\ ~again.req_keyed
      BY <2>1 DEF Enqueue, LinkFields
    <2> HIDE DEF again
    <2>6. QED
      BY <2>4, <2>5 DEF Current
  <1>3. Current(EndSession(st, "HandshakeFailed", FALSE))
    BY <1>1, EndSessionCurrent
  <1>4. \/ RunTimers(st, due) = RunSessionTimers(st, due)
        \/ RunTimers(st, due) = EndSession(st, "HandshakeFailed", FALSE)
        \/ st.phase = "Calling" /\ st.req_keyed /\ RunTimers(st, due) = RunSessionTimers(again, due)
    BY DEF RunTimers
  <1> HIDE DEF again
  <1>5. QED
    BY <1>2, <1>3, <1>4, SessionTimersCurrent

-----------------------------------------------------------------------------
(* Keying. *)

\* Keying a frame leaves the queue as it is; a keyed request must not be in it.
LEMMA KeyCurrent ==
    ASSUME NEW st, Current(st), NEW f, f.type = "Req" => Lacks(st.queue, "Req")
    PROVE  Current(Key(st, f))
  <1> DEFINE a == [st EXCEPT !.air = f]
             on == Touch(a)
             k == Key(st, f)
  <1>1. DOMAIN st = LinkFields
    BY DEF Current
  <1>2. /\ DOMAIN a = DOMAIN st /\ a.phase = st.phase /\ a.sid = st.sid /\ a.queue = st.queue
        /\ a.req_keyed = st.req_keyed
    BY <1>1 DEF LinkFields
  <1> HIDE DEF a
  <1>3. Current(a)
    BY <1>2, SameQueue
  <1>4. Current(on) /\ on.queue = st.queue
    BY <1>2, <1>3, TouchCurrent
  <1>5. /\ DOMAIN on = LinkFields /\ IsQueue(on.queue) /\ NoneTwice(on.queue)
        /\ AllBelong(on.queue, on.phase, on.sid) /\ (on.req_keyed => Lacks(on.queue, "Req"))
    BY <1>4 DEF Current
  <1>6. k = CASE f.type = "Req" -> [on EXCEPT !.req_attempts = @ + 1, !.req_keyed = TRUE]
              [] f.type = "Data" -> [on EXCEPT !.data_keyed = TRUE]
              [] OTHER -> on
    BY DEF Key, a
  <1> HIDE DEF on, k
  <1>7. /\ DOMAIN k = LinkFields /\ k.queue = on.queue /\ k.phase = on.phase /\ k.sid = on.sid
        /\ k.req_keyed => on.req_keyed \/ f.type = "Req"
    BY <1>5, <1>6 DEF LinkFields
  <1>8. Current(k)
    BY <1>4, <1>5, <1>7 DEF Current
  <1>9. QED
    BY <1>8 DEF k

\* The head of the queue goes on the air.
LEMMA KeyHeadCurrent ==
    ASSUME NEW st, Current(st), st.queue # << >> PROVE Current(KeyHead(st))
  <1> DEFINE p == [st EXCEPT !.queue = Tail(@)]
  <1>1. /\ DOMAIN st = LinkFields /\ IsQueue(st.queue) /\ NoneTwice(st.queue)
        /\ AllBelong(st.queue, st.phase, st.sid) /\ (st.req_keyed => Lacks(st.queue, "Req"))
    BY DEF Current
  <1>2. /\ IsQueue(Tail(st.queue)) /\ NoneTwice(Tail(st.queue))
        /\ AllBelong(Tail(st.queue), st.phase, st.sid)
        /\ (st.req_keyed => Lacks(Tail(st.queue), "Req"))
        /\ Head(st.queue).type \in Sole => Lacks(Tail(st.queue), Head(st.queue).type)
    BY <1>1, TailKeeps
  <1>3. /\ DOMAIN p = LinkFields /\ p.queue = Tail(st.queue) /\ p.phase = st.phase
        /\ p.sid = st.sid /\ p.req_keyed = st.req_keyed
    BY <1>1 DEF LinkFields
  <1>4. KeyHead(st) = Key(p, Head(st.queue))
    BY DEF KeyHead
  <1> HIDE DEF p
  <1>5. Current(p)
    BY <1>2, <1>3 DEF Current
  <1>6. Head(st.queue).type = "Req" => Lacks(p.queue, "Req")
    BY <1>2, <1>3 DEF Sole
  <1>7. QED
    BY <1>4, <1>5, <1>6, KeyCurrent

\* Whatever key_up keys, the queue it leaves is current.
LEMMA KeyUpCurrent ==
    ASSUME NEW st, Current(st), NEW hold PROVE Current(KeyUp(st, hold))
  <1>1. DOMAIN st = LinkFields
    BY DEF Current
  <1>2. Current(KeyNewChunk(st))
    <2> DEFINE sent == [st EXCEPT !.tx = TxSend(@, st.submitted - st.backlog + 1), !.backlog = @ - 1]
               f == DataFrame(sent, st.tx.next_seq)
    <2>1. /\ DOMAIN sent = DOMAIN st /\ sent.phase = st.phase /\ sent.sid = st.sid
          /\ sent.queue = st.queue /\ sent.req_keyed = st.req_keyed
      BY <1>1 DEF LinkFields
    <2>2. f.type # "Req"
      BY DEF DataFrame
    <2>3. KeyNewChunk(st) = Key(sent, f)
      BY DEF KeyNewChunk
    <2> HIDE DEF sent, f
    <2>4. Current(sent)
      BY <2>1, SameQueue
    <2>5. QED
      BY <2>2, <2>3, <2>4, KeyCurrent
  <1>3. Current(KeyHead(EndSession(st, "Local", TRUE)))
    <2>1. /\ Current(EndSession(st, "Local", TRUE))
          /\ EndSession(st, "Local", TRUE).queue # << >>
      BY <1>1, EndSessionCurrent
    <2>2. QED
      BY <2>1, KeyHeadCurrent
  <1>4. st.queue # << >> => Current(KeyHead(st))
    BY KeyHeadCurrent
  <1>5. \/ KeyUp(st, hold) \in {st, KeyNewChunk(st), KeyHead(EndSession(st, "Local", TRUE))}
        \/ st.queue # << >> /\ KeyUp(st, hold) = KeyHead(st)
    BY DEF KeyUp
  <1>6. QED
    BY <1>2, <1>3, <1>4, <1>5

\* A whole call of process().
LEMMA ProcessCurrent ==
    ASSUME NEW st, Current(st), NEW f, NEW due, NEW hold
    PROVE  Current(Process(st, f, due, hold))
  <1>1. Current(Receive(st, f))
    BY ReceiveCurrent
  <1>2. Current(RunTimers(Receive(st, f), due))
    BY <1>1, TimersCurrent
  <1>3. QED
    BY <1>2, KeyUpCurrent DEF Process

\* A link that closes is idle again once its DISCONNECT has left the queue.
LEMMA PlayedCurrent ==
    ASSUME NEW st, Current(st) PROVE Current(Played(st))
  <1> DEFINE off == [st EXCEPT !.air = NoFrame]
             p == Played(st)
  <1>1. /\ DOMAIN st = LinkFields /\ IsQueue(st.queue) /\ NoneTwice(st.queue)
        /\ AllBelong(st.queue, st.phase, st.sid) /\ (st.req_keyed => Lacks(st.queue, "Req"))
    BY DEF Current
  <1>2. /\ DOMAIN p = LinkFields /\ p.queue = st.queue /\ p.sid = st.sid /\ p.req_keyed = st.req_keyed
        /\ st.queue = << >> \/ p.phase = st.phase
    BY <1>1 DEF Played, LinkFields
  <1> HIDE DEF p
  <1>3. AllBelong(p.queue, p.phase, p.sid)
    BY <1>1, <1>2, EmptyQueue
  <1>4. Current(p)
    BY <1>1, <1>2, <1>3 DEF Current
  <1>5. QED
    BY <1>4 DEF p

-----------------------------------------------------------------------------
(* The invariant. *)

\* Two new links are current.
LEMMA LinkInit == Init => LinkInv
  <1>1. DOMAIN LinkNew = LinkFields /\ LinkNew.queue = << >> /\ ~LinkNew.req_keyed
    BY DEF LinkNew, LinkFields
  <1>2. Current(LinkNew)
    BY <1>1, EmptyQueue DEF Current
  <1>3. QED
    BY <1>2 DEF Init, LinkInv

\* What happens at one station leaves the other as it is.
LEMMA UpdateInv ==
    ASSUME LinkInv, NEW s, NEW st, Current(st), station' = [station EXCEPT ![s] = st]
    PROVE  LinkInv'
  BY DEF LinkInv

\* connect() of an idle link queues the one request.
LEMMA ConnectInv ==
    ASSUME LinkInv, NEW s \in Stations, Connect(s) PROVE LinkInv'
  <1> DEFINE r == ResetSessionState(station[s])
             f == Control(r, "Req")
             e == [Enqueue(r, f) EXCEPT !.phase = "Calling", !.idle = 0]
  <1>1. DOMAIN station[s] = LinkFields
    BY DEF LinkInv, Current
  <1>2. DOMAIN r = LinkFields /\ r.queue = << >> /\ ~r.req_keyed
    BY <1>1, ResetFields
  <1>3. station' = [station EXCEPT ![s] = e]
    BY DEF Connect, Update
  <1>4. f.type = "Req"
    BY DEF Control
  <1> HIDE DEF r, f
  <1>5. DOMAIN e = LinkFields /\ e.queue = Append(<< >>, f) /\ ~e.req_keyed /\ e.phase = "Calling"
    BY <1>2 DEF Enqueue, LinkFields
  <1> HIDE DEF e
  <1>6. Belongs(f, e.phase, e.sid)
    BY <1>4, <1>5 DEF Belongs
  <1>7. Current(e)
    BY <1>5, <1>6, OneFrame DEF Current
  <1>8. QED
    BY <1>3, <1>7, UpdateInv

\* disconnect() ends a handshake at once and lets a session drain.
LEMMA DisconnectInv ==
    ASSUME LinkInv, NEW s \in Stations, Disconnect(s) PROVE LinkInv'
  <1> DEFINE st == station[s]
             d == [st EXCEPT !.phase = "Draining"]
  <1>1. /\ Current(st) /\ DOMAIN st = LinkFields
    BY DEF LinkInv, Current
  <1>2. CASE station' = [station EXCEPT ![s] = EndSession(st, "Local", FALSE)]
    <2>1. Current(EndSession(st, "Local", FALSE))
      BY <1>1, EndSessionCurrent
    <2>2. QED
      BY <1>2, <2>1, UpdateInv
  <1>3. CASE st.phase = "Connected" /\ station' = [station EXCEPT ![s] = Touch(d)]
    <2>1. /\ DOMAIN d = LinkFields /\ d.queue = st.queue /\ d.sid = st.sid
          /\ d.req_keyed = st.req_keyed /\ d.phase = "Draining"
      BY <1>1 DEF LinkFields
    <2> HIDE DEF d
    <2>2. AllBelong(st.queue, "Connected", st.sid) => AllBelong(st.queue, "Draining", st.sid)
      BY DEF AllBelong, Belongs
    <2>3. Current(d)
      BY <1>1, <1>3, <2>1, <2>2 DEF Current
    <2>4. Current(Touch(d))
      BY <2>3, TouchCurrent
    <2>5. QED
      BY <1>3, <2>4, UpdateInv
  <1>4. QED
    BY <1>2, <1>3 DEF Disconnect, Update

\* Every step keeps both queues current.
LEMMA LinkStep == LinkInv /\ [Next]_vars => LinkInv'
  <1> SUFFICES ASSUME LinkInv, [Next]_vars PROVE LinkInv'
    OBVIOUS
  <1>1. \A s \in Stations : Current(station[s]) /\ DOMAIN station[s] = LinkFields
    BY DEF LinkInv, Current
  <1>2. ASSUME NEW s \in Stations, NEW st, DOMAIN st = LinkFields, st.queue = station[s].queue,
               st.phase = station[s].phase, st.sid = station[s].sid,
               st.req_keyed = station[s].req_keyed
        PROVE  Current(st)
    BY <1>1, <1>2, SameQueue
  <1>3. ASSUME NEW s \in Listeners, NEW on \in BOOLEAN, SetListening(s, on) PROVE LinkInv'
    <2> DEFINE st == [station[s] EXCEPT !.listening = on]
    <2>1. s \in Stations
      BY LinkAssumption
    <2>2. Current(st)
      BY <1>1, <1>2, <2>1 DEF LinkFields
    <2>3. QED
      BY <1>3, <2>2, UpdateInv DEF SetListening, Update
  <1>4. ASSUME NEW s \in Callers, Connect(s) PROVE LinkInv'
    BY <1>4, ConnectInv, LinkAssumption
  <1>5. ASSUME NEW s \in Senders, Send(s) PROVE LinkInv'
    <2> DEFINE st == [station[s] EXCEPT !.submitted = @ + 1, !.backlog = @ + 1]
    <2>1. s \in Stations
      BY LinkAssumption
    <2>2. Current(st)
      BY <1>1, <1>2, <2>1 DEF LinkFields
    <2>3. QED
      BY <1>5, <2>2, UpdateInv DEF Send, Update
  <1>6. ASSUME NEW s \in Stations, Disconnect(s) PROVE LinkInv'
    BY <1>6, DisconnectInv
  <1>7. ASSUME NEW s \in Stations, NEW due \in SUBSET Timers, NEW hold \in BOOLEAN,
               Poll(s, due, hold)
        PROVE  LinkInv'
    <2>1. Current(Process(station[s], NoFrame, due, hold))
      BY <1>1, ProcessCurrent
    <2>2. QED
      BY <1>7, <2>1, UpdateInv DEF Poll, Update
  <1>8. ASSUME NEW s \in Stations, NEW due \in SUBSET Timers, Deliver(s, due) PROVE LinkInv'
    <2> DEFINE p == Other(s)
    <2>1. Current(Played(station[s]))
      BY <1>1, PlayedCurrent
    <2>2. \E q \in Stations : q # s
      <3>1. IsFiniteSet({s}) /\ Cardinality({s}) = 1
        BY FS_Singleton
      <3>2. Cardinality(Stations) = 2
        BY LinkAssumption
      <3>3. Stations # {s}
        BY <3>1, <3>2
      <3>4. QED
        BY <3>3
    <2>3. p \in Stations /\ p # s
      BY <2>2 DEF Other
    <2> HIDE DEF p
    <2>4. Current(Process(station[p], station[s].air, due, TRUE))
      BY <1>1, <2>3, ProcessCurrent
    <2>5. station' = [station EXCEPT ![s] = Played(station[s]),
                                     ![p] = Process(station[p], station[s].air, due, TRUE)]
      BY <1>8, <2>3 DEF Deliver, p, LinkInv
    <2>6. QED
      BY <1>1, <2>1, <2>3, <2>4, <2>5 DEF LinkInv
  <1>9. ASSUME NEW s \in Stations, Lose(s) PROVE LinkInv'
    BY <1>1, <1>9, PlayedCurrent, UpdateInv DEF Lose, Update
  <1>10. CASE Tick
    <2>1. ASSUME NEW s \in Stations PROVE Current(station'[s])
      <3> DEFINE st == [station[s] EXCEPT !.idle = @ + 1]
      <3>1. Current(st)
        BY <1>1, <1>2 DEF LinkFields
      <3>2. station'[s] \in {st, station[s]}
        BY <1>10 DEF Tick
      <3>3. QED
        BY <1>1, <3>1, <3>2
    <2>2. DOMAIN station' = Stations
      BY <1>10 DEF Tick
    <2>3. QED
      BY <2>1, <2>2 DEF LinkInv
  <1>11. CASE UNCHANGED vars
    BY <1>11 DEF vars, LinkInv
  <1>12. QED
    BY <1>3, <1>4, <1>5, <1>6, <1>7, <1>8, <1>9, <1>10, <1>11 DEF Next

-----------------------------------------------------------------------------
(* Theorems. *)

\* Whatever is lost, retried, timed out, closed or opened again, in every
\* handler, the queue of each link is sound and a keyed request has left it.
THEOREM LinkInductive == Spec => []LinkInv
  BY LinkInit, LinkStep, PTL DEF Spec

\* QueueIsCurrent: nothing queued outlives the session it was queued in
\* (reset_session_state, on_connect_ack), and no data frame, ACK or request is
\* queued beside its newer copy (run_retransmits, queue_ack, run_timers).
THEOREM QueueStaysCurrent == Spec => []QueueIsCurrent
  <1>1. LinkInv => QueueIsCurrent
    <2> SUFFICES ASSUME LinkInv, NEW s \in Stations
                 PROVE  /\ \A i \in 1 .. Len(station[s].queue) :
                             LET f == station[s].queue[i]
                             IN /\ f.type \in {"Data", "Ack", "Keepalive"} =>
                                     HasArq(station[s]) /\ f.sid = station[s].sid
                                /\ f.type = "Disconnect" => station[s].phase = "Closing"
                                /\ f.type = "Req" => station[s].phase = "Calling"
                        /\ \A i, j \in 1 .. Len(station[s].queue) :
                             LET type == station[s].queue[i].type
                             IN type \in {"Data", "Ack", "Req"} /\ station[s].queue[j].type = type => i = j
      BY DEF QueueIsCurrent
    <2> DEFINE queue == station[s].queue
    <2>1. /\ IsQueue(queue) /\ NoneTwice(queue)
          /\ AllBelong(queue, station[s].phase, station[s].sid)
      BY DEF LinkInv, Current
    <2>2. DOMAIN queue = 1 .. Len(queue)
      BY <2>1 DEF IsQueue
    <2>3. QED
      BY <2>1, <2>2 DEF AllBelong, Belongs, NoneTwice, Sole, HasArq
  <1>2. QED
    BY <1>1, LinkInductive, PTL

-----------------------------------------------------------------------------
(* Two links and what they handed up. *)

\* Payloads given to the ARQ in the current session.
Sent(st) == st.submitted - st.backlog
\* A station that answers, or is in session, has the receiver its peer counts on.
Engaged(st) == st.phase \in {"Accepting", "Connected", "Draining"}

\* What a queued or keyed frame tells of its station: a data frame is the one
\* outstanding segment, an ACK what the receiver waits for.
Tells(f, st) ==
    /\ f.type \in {"Data", "Ack", "Keepalive", "Cfm"} => HasArq(st)
    /\ f.type \in {"Data", "Ack"} => f.sid = st.sid
    /\ f.type = "Data" => InFlight(st.tx) > 0 /\ f.num = (Sent(st) - 1) % SeqMod /\ f.data = Sent(st)
    /\ f.type = "Ack" => f.num = st.rx.recv_base
    /\ f.type = "Disconnect" => st.phase = "Closing"

\* A queued frame leaves with its phase; disconnect() of a handshake, and the
\* connect() after it, may come while the frame is on the air.
Waits(f, st) ==
    /\ Tells(f, st)
    /\ f.type = "Req" => st.phase = "Calling"
    /\ f.type = "ConnectAck" => st.phase = "Accepting"
Airs(f, st) ==
    /\ Tells(f, st)
    /\ f.type = "Req" => st.phase \in {"Idle", "Calling"}
    /\ f.type = "ConnectAck" => st.phase \in {"Idle", "Calling", "Accepting"}

AllWait(queue, st) == IsQueue(queue) /\ \A i \in DOMAIN queue : Waits(queue[i], st)

\* The fields of one link.
Typed(st) ==
    /\ DOMAIN st = LinkFields
    /\ st.phase \in Phases /\ st.sid \in Nat
    /\ st.tx \in TxType(Nat) /\ st.rx \in RxType(Nat)
    /\ st.submitted \in Nat /\ st.backlog \in Nat /\ st.backlog <= st.submitted

\* Outside a session the ARQ pair is new; an answerer has its one CONNECT_ACK
\* in the queue or on the air.
Shape(st) ==
    /\ Typed(st)
    /\ HasArq(st) => st.sid >= 1
    /\ ~HasArq(st) => st.tx = ArqTxNew /\ st.rx = ArqRxNew /\ st.backlog = 0
    /\ AllWait(st.queue, st) /\ Airs(st.air, st)
    /\ st.phase = "Accepting" =>
         st.queue = << >> \/ (st.air = NoFrame /\ Tail(st.queue) = << >>)

\* A session's transmitter is coupled with a receiver that has handed up what
\* the peer has: the peer's own, while it has one.
Tied(st, q, hq) ==
    HasArq(st) => \E r \in RxType(Nat) :
        /\ Coupled(st.tx, r, Sent(st), Len(hq[st.sid]), 1)
        /\ Engaged(q) => q.rx = r

\* While the peer waits for the CONNECT_CFM, it sends nothing and nothing of
\* it has been received.
Meets(st, q) ==
    HasArq(st) /\ q.phase = "Accepting" =>
        st.rx = ArqRxNew /\ q.queue = << >> /\ q.air = NoFrame

\* Sessions a station may still establish are covered by the calls of connect().
Tally(st, q, c) ==
    st.sid + (IF st.phase = "Calling" THEN 1 ELSE 0)
           + (IF q.phase = "Calling" \/ (HasArq(q) /\ st.phase = "Accepting") THEN 1 ELSE 0) <= c

\* Nothing was handed up of a session to come, everything of one that drained.
Unused(st, hq) == \A n \in 1 .. MaxConnects : n > st.sid => hq[n] = << >>
Drained(st, hq) ==
    st.phase = "Closing" /\ st.closing = "Local" => Len(hq[st.sid]) = st.submitted

Toward(st, q, hq, c) ==
    Tied(st, q, hq) /\ Meets(st, q) /\ Tally(st, q, c) /\ Unused(st, hq) /\ Drained(st, hq)

\* hq: what the other link handed up, by session of st; hs the other way round.
Paired(st, q, hq, hs, c) ==
    Shape(st) /\ Shape(q) /\ Toward(st, q, hq, c) /\ Toward(q, st, hs, c)

Listed(h) ==
    /\ h \in [1 .. MaxConnects -> Seq(Nat)]
    /\ \A n \in 1 .. MaxConnects : \A i \in 1 .. Len(h[n]) : h[n][i] = i

LinkSafe ==
    /\ DOMAIN station = Stations /\ connects \in 0 .. MaxConnects
    /\ DOMAIN handed = Stations /\ \A s \in Stations : Listed(handed[s])
    /\ \A s \in Stations : Paired(station[s], station[Other(s)], handed[Other(s)], handed[s], connects)

-----------------------------------------------------------------------------
(* Frames. *)

\* What frames tell depends on a few fields of the station.
LEMMA TellsSame ==
    ASSUME NEW st, NEW st2, st2.phase = st.phase, st2.sid = st.sid, st2.rx = st.rx,
           Sent(st2) = Sent(st), InFlight(st.tx) > 0 => InFlight(st2.tx) > 0
    PROVE  /\ \A f : Waits(f, st) => Waits(f, st2)
           /\ \A f : Airs(f, st) => Airs(f, st2)
           /\ \A queue : AllWait(queue, st) => AllWait(queue, st2)
  <1>1. \A f : Tells(f, st) => Tells(f, st2)
    BY DEF Tells, HasArq
  <1>2. QED
    BY <1>1 DEF Waits, Airs, AllWait

\* No frame is on the air, no frame waits.
LEMMA NoneTell ==
    ASSUME NEW st
    PROVE  AllWait(<< >>, st) /\ Airs(NoFrame, st)
  <1>1. IsQueue(<< >>) /\ DOMAIN << >> = {}
    BY EmptyQueue
  <1>2. Airs(NoFrame, st)
    BY DEF Airs, Tells, NoFrame
  <1>3. QED
    BY <1>1, <1>2 DEF AllWait

\* retain: the frames that stay still wait.
LEMMA WithoutWaits ==
    ASSUME NEW queue, NEW st, NEW st2, AllWait(queue, st), NEW type,
           \A f : Waits(f, st) /\ f.type # type => Waits(f, st2)
    PROVE  AllWait(Without(queue, type), st2)
  <1> DEFINE W == Without(queue, type)
  <1>1. IsQueue(queue) /\ \A i \in DOMAIN queue : Waits(queue[i], st)
    BY DEF AllWait
  <1>2. IsQueue(W) /\ Lacks(W, type) /\ PickedFrom(W, queue)
    BY <1>1, WithoutPicks
  <1> HIDE DEF W
  <1>3. PICK o \in [DOMAIN W -> DOMAIN queue] : \A i \in DOMAIN W : W[i] = queue[o[i]]
    BY <1>2 DEF PickedFrom
  <1>4. \A i \in DOMAIN W : o[i] \in DOMAIN queue /\ W[i].type # type
    BY <1>2 DEF Lacks
  <1>5. \A i \in DOMAIN W : Waits(W[i], st2)
    BY <1>1, <1>3, <1>4
  <1>6. QED
    BY <1>2, <1>5 DEF AllWait, W

\* One more frame.
LEMMA AppendWaits ==
    ASSUME NEW queue, NEW st, AllWait(queue, st), NEW f, Waits(f, st)
    PROVE  AllWait(Append(queue, f), st)
  <1>1. PICK S : queue \in Seq(S)
    BY DEF AllWait, IsQueue
  <1> DEFINE A == Append(queue, f)
             n == Len(queue)
  <1>2. queue \in Seq(S \cup {f})
    BY <1>1
  <1>3. n \in Nat /\ DOMAIN queue = 1 .. n /\ A \in Seq(S \cup {f}) /\ DOMAIN A = 1 .. n + 1
    BY <1>2
  <1>4. A[n + 1] = f /\ \A i \in 1 .. n : A[i] = queue[i]
    BY <1>2
  <1>5. \A i \in DOMAIN A : i = n + 1 \/ i \in DOMAIN queue
    BY <1>3
  <1> HIDE DEF A, n
  <1>6. IsQueue(A)
    BY <1>3 DEF IsQueue
  <1>7. \A i \in DOMAIN A : Waits(A[i], st)
    BY <1>3, <1>4, <1>5 DEF AllWait
  <1>8. QED
    BY <1>6, <1>7 DEF AllWait, A

\* The head may be keyed, the others wait on.
LEMMA TailWaits ==
    ASSUME NEW queue, NEW st, AllWait(queue, st), queue # << >>
    PROVE  AllWait(Tail(queue), st) /\ Waits(Head(queue), st)
  <1>1. PICK S : queue \in Seq(S)
    BY DEF AllWait, IsQueue
  <1> DEFINE T == Tail(queue)
             n == Len(queue)
  <1>2. /\ n \in Nat \ {0} /\ DOMAIN queue = 1 .. n /\ T \in Seq(S) /\ DOMAIN T = 1 .. n - 1
        /\ Head(queue) = queue[1] /\ \A i \in 1 .. n - 1 : T[i] = queue[i + 1]
    BY <1>1
  <1> HIDE DEF T, n
  <1>3. \A i \in DOMAIN T : T[i] = queue[i + 1] /\ i + 1 \in DOMAIN queue
    BY <1>2
  <1>4. 1 \in DOMAIN queue /\ IsQueue(T)
    BY <1>2 DEF IsQueue
  <1>5. QED
    BY <1>2, <1>3, <1>4 DEF AllWait, T

-----------------------------------------------------------------------------
(* Steps of one station that keep the pair. *)

\* The station stays in its phase, or in its session; its receiver is as it was.
LEMMA Steady ==
    ASSUME NEW st, NEW q, NEW hq, NEW hs, NEW c, Paired(st, q, hq, hs, c),
           NEW st2, Shape(st2), st2.sid = st.sid, st2.rx = st.rx,
           st2.phase = st.phase \/ (HasArq(st) /\ HasArq(st2)),
           Tied(st2, q, hq),
           ~HasArq(st) => st2.submitted = st.submitted /\ st2.closing = st.closing,
           st.phase = "Accepting" /\ HasArq(q) => st2.queue = st.queue /\ st2.air = st.air
    PROVE  Paired(st2, q, hq, hs, c)
  <1>1. Shape(q) /\ Toward(st, q, hq, c) /\ Toward(q, st, hs, c)
    BY DEF Paired
  <1>2. HasArq(st2) <=> HasArq(st)
    BY DEF HasArq
  <1>3. /\ st2.phase = "Calling" <=> st.phase = "Calling"
        /\ st2.phase = "Accepting" <=> st.phase = "Accepting"
        /\ st2.phase = "Closing" => st.phase = "Closing" /\ ~HasArq(st)
        /\ Engaged(st2) <=> Engaged(st)
    BY DEF HasArq, Engaged
  <1>4. Meets(st2, q) /\ Meets(q, st2)
    BY <1>1, <1>2, <1>3 DEF Toward, Meets
  <1>5. Tally(st2, q, c) /\ Tally(q, st2, c)
    BY <1>1, <1>2, <1>3 DEF Toward, Tally
  <1>6. Unused(st2, hq) /\ Drained(st2, hq)
    BY <1>1, <1>3 DEF Toward, Unused, Drained
  <1>7. Tied(q, st2, hs)
    BY <1>1, <1>3 DEF Toward, Tied
  <1>8. QED
    BY <1>1, <1>4, <1>5, <1>6, <1>7 DEF Paired, Toward

\* The transmitter's side of the coupling is as it was.
LEMMA TiedSame ==
    ASSUME NEW st, NEW q, NEW hq, Tied(st, q, hq), NEW st2, st2.sid = st.sid, st2.tx = st.tx,
           Sent(st2) = Sent(st), HasArq(st2) => HasArq(st)
    PROVE  Tied(st2, q, hq)
  BY DEF Tied

\* Only the queue, the timers and the flags change.
LEMMA Requeued ==
    ASSUME NEW st, NEW q, NEW hq, NEW hs, NEW c, Paired(st, q, hq, hs, c),
           NEW st2, DOMAIN st2 = LinkFields,
           st2.phase = st.phase, st2.sid = st.sid, st2.tx = st.tx, st2.rx = st.rx,
           st2.submitted = st.submitted, st2.backlog = st.backlog, st2.air = st.air,
           st2.closing = st.closing,
           AllWait(st2.queue, st), st.phase = "Accepting" => st2.queue = st.queue
    PROVE  Paired(st2, q, hq, hs, c)
  <1>1. Shape(st) /\ Tied(st, q, hq)
    BY DEF Paired, Toward
  <1>2. Sent(st2) = Sent(st) /\ (HasArq(st2) <=> HasArq(st))
    BY DEF Sent, HasArq
  <1>3. AllWait(st2.queue, st2) /\ Airs(st2.air, st2)
    BY <1>1, <1>2, TellsSame DEF Shape
  <1>4. Shape(st2)
    BY <1>1, <1>2, <1>3 DEF Shape, Typed
  <1>5. Tied(st2, q, hq)
    BY <1>1, <1>2, TiedSame
  <1>6. QED
    BY <1>4, <1>5, Steady

-----------------------------------------------------------------------------
(* Sessions begin and end. *)

\* A station that is left without a session.
LEMMA Leaves ==
    ASSUME NEW st, NEW q, NEW hq, NEW hs, NEW c \in Nat, Paired(st, q, hq, hs, c),
           NEW st2, Shape(st2), st2.phase \in {"Idle", "Closing"}, st2.sid = st.sid,
           Drained(st2, hq)
    PROVE  Paired(st2, q, hq, hs, c)
  <1>1. Shape(st) /\ Shape(q) /\ Toward(st, q, hq, c) /\ Toward(q, st, hs, c)
    BY DEF Paired
  <1>2. ~HasArq(st2) /\ ~Engaged(st2) /\ st2.phase # "Calling" /\ st2.phase # "Accepting"
    BY DEF HasArq, Engaged
  <1>3. Tied(st2, q, hq) /\ Meets(st2, q) /\ Meets(q, st2) /\ Tied(q, st2, hs)
    BY <1>1, <1>2 DEF Tied, Meets, Toward
  <1>4. Tally(st2, q, c) /\ Tally(q, st2, c)
    <2>1. st.sid \in Nat /\ q.sid \in Nat /\ Tally(st, q, c) /\ Tally(q, st, c)
      BY <1>1 DEF Shape, Typed, Toward
    <2>2. QED
      BY <2>1, <1>2 DEF Tally
  <1>5. Unused(st2, hq)
    BY <1>1 DEF Toward, Unused
  <1>6. QED
    BY <1>1, <1>3, <1>4, <1>5 DEF Paired, Toward

\* reset_session_state.
LEMMA Reset ==
    ASSUME NEW st, Typed(st)
    PROVE  LET r == ResetSessionState(st)
           IN /\ DOMAIN r = LinkFields /\ r.queue = << >> /\ r.tx = ArqTxNew /\ r.rx = ArqRxNew
              /\ r.backlog = 0 /\ r.phase = st.phase /\ r.sid = st.sid /\ r.submitted = st.submitted
              /\ r.air = st.air /\ r.closing = st.closing
  BY DEF ResetSessionState, LinkFields, Typed

\* A new ARQ pair has the right type.
LEMMA NewPair == ArqTxNew \in TxType(Nat) /\ ArqRxNew \in RxType(Nat)
  <1>1. 0 \in SeqNum
    BY ArqBounds DEF SeqNum
  <1>2. QED
    BY <1>1 DEF ArqTxNew, ArqRxNew, TxType, RxType, RxCell

\* end_session without a DISCONNECT.
LEMMA Ends ==
    ASSUME NEW st, NEW q, NEW hq, NEW hs, NEW c \in Nat, Paired(st, q, hq, hs, c), NEW reason,
           st.air = NoFrame \/ st.phase \in {"Calling", "Accepting"}
    PROVE  LET e == EndSession(st, reason, FALSE)
           IN Paired(e, q, hq, hs, c) /\ e.air = st.air
  <1> DEFINE r == ResetSessionState(st)
             e == EndSession(st, reason, FALSE)
  <1>1. Shape(st) /\ Typed(st)
    BY DEF Paired, Shape
  <1>2. /\ DOMAIN r = LinkFields /\ r.queue = << >> /\ r.tx = ArqTxNew /\ r.rx = ArqRxNew
        /\ r.backlog = 0 /\ r.sid = st.sid /\ r.submitted = st.submitted /\ r.air = st.air
    BY <1>1, Reset
  <1>3. e = [[r EXCEPT !.idle = 0] EXCEPT !.phase = "Idle", !.event = reason]
    BY DEF EndSession
  <1> HIDE DEF r, e
  <1>4. /\ DOMAIN e = LinkFields /\ e.queue = << >> /\ e.tx = ArqTxNew /\ e.rx = ArqRxNew
        /\ e.backlog = 0 /\ e.sid = st.sid /\ e.submitted = st.submitted /\ e.air = st.air
        /\ e.phase = "Idle"
    BY <1>2, <1>3 DEF LinkFields
  <1>5. Airs(e.air, e)
    <2>1. CASE st.air = NoFrame
      BY <2>1, <1>4, NoneTell
    <2>2. CASE st.phase \in {"Calling", "Accepting"}
      BY <2>2, <1>1, <1>4 DEF Shape, Airs, Tells, HasArq
    <2>3. QED
      BY <2>1, <2>2
  <1>6. Typed(e)
    BY <1>1, <1>4, NewPair DEF Typed, Phases
  <1>7. Shape(e)
    BY <1>4, <1>5, <1>6, NoneTell DEF Shape, HasArq
  <1>8. Drained(e, hq)
    BY <1>4 DEF Drained
  <1>9. QED
    BY <1>4, <1>7, <1>8, Leaves DEF e

\* end_session with a DISCONNECT: everything was acknowledged, if its reason is
\* that the link has drained.
LEMMA Closes ==
    ASSUME NEW st, NEW q, NEW hq, NEW hs, NEW c \in Nat, Paired(st, q, hq, hs, c), NEW reason,
           HasArq(st), st.air = NoFrame,
           reason = "Local" => st.backlog = 0 /\ InFlight(st.tx) = 0
    PROVE  LET e == EndSession(st, reason, TRUE)
           IN Paired(e, q, hq, hs, c) /\ e.air = NoFrame /\ e.queue # << >>
  <1> DEFINE r == ResetSessionState(st)
             z == [r EXCEPT !.idle = 0]
             f == Control(st, "Disconnect")
             e == EndSession(st, reason, TRUE)
  <1>1. Shape(st) /\ Typed(st) /\ Tied(st, q, hq)
    BY DEF Paired, Shape, Toward
  <1>2. /\ DOMAIN r = LinkFields /\ r.queue = << >> /\ r.tx = ArqTxNew /\ r.rx = ArqRxNew
        /\ r.backlog = 0 /\ r.sid = st.sid /\ r.submitted = st.submitted /\ r.air = st.air
    BY <1>1, Reset
  <1> HIDE DEF r
  <1>3. /\ DOMAIN z = LinkFields /\ z.queue = << >> /\ z.tx = ArqTxNew /\ z.rx = ArqRxNew
        /\ z.backlog = 0 /\ z.sid = st.sid /\ z.submitted = st.submitted /\ z.air = NoFrame
    BY <1>2 DEF LinkFields
  <1>4. e = [Enqueue(z, f) EXCEPT !.phase = "Closing", !.closing = reason]
    BY DEF EndSession, r
  <1>5. f.type = "Disconnect"
    BY DEF Control
  <1> HIDE DEF z, f, e
  <1>6. /\ DOMAIN e = LinkFields /\ e.queue = Append(<< >>, f) /\ e.tx = ArqTxNew /\ e.rx = ArqRxNew
        /\ e.backlog = 0 /\ e.sid = st.sid /\ e.submitted = st.submitted /\ e.air = NoFrame
        /\ e.phase = "Closing" /\ e.closing = reason
    BY <1>3, <1>4 DEF Enqueue, LinkFields
  <1>7. AllWait(e.queue, e) /\ Airs(e.air, e)
    <2>1. Waits(f, e)
      BY <1>5, <1>6 DEF Waits, Tells
    <2>2. QED
      BY <2>1, <1>6, NoneTell, AppendWaits
  <1>8. Typed(e)
    BY <1>1, <1>6, NewPair DEF Typed, Phases
  <1>9. Shape(e)
    BY <1>6, <1>7, <1>8 DEF Shape, HasArq
  <1>10. Drained(e, hq)
    <2>1. PICK x \in RxType(Nat) : Coupled(st.tx, x, Sent(st), Len(hq[st.sid]), 1)
      BY <1>1 DEF Tied
    <2>2. ASSUME reason = "Local" PROVE Len(hq[st.sid]) = st.submitted
      <3>1. /\ InFlight(st.tx) = 0 /\ Sent(st) = st.submitted /\ Sent(st) \in Int
        BY <1>1, <2>2 DEF Sent, Typed
      <3>2. SendBase(st.tx, Sent(st)) = Sent(st)
        BY <3>1 DEF SendBase
      <3>3. Len(hq[st.sid]) <= Sent(st) /\ Sent(st) <= Len(hq[st.sid])
        BY <2>1, <3>2 DEF Coupled, SenderCoupled
      <3>4. QED
        BY <3>1, <3>3
    <2>3. QED
      BY <2>2, <1>6 DEF Drained
  <1>11. e.queue # << >>
    BY <1>6
  <1>12. QED
    BY <1>6, <1>9, <1>10, <1>11, Leaves DEF e

\* connect() of an idle link.
LEMMA Connects ==
    ASSUME NEW st, NEW q, NEW hq, NEW hs, NEW c \in Nat, Paired(st, q, hq, hs, c), st.phase = "Idle"
    PROVE  LET r == ResetSessionState(st)
           IN Paired([Enqueue(r, Control(r, "Req")) EXCEPT !.phase = "Calling", !.idle = 0], q, hq, hs, c + 1)
  <1> DEFINE r == ResetSessionState(st)
             f == Control(r, "Req")
             e == [Enqueue(r, f) EXCEPT !.phase = "Calling", !.idle = 0]
  <1>1. Shape(st) /\ Typed(st) /\ Shape(q) /\ Toward(st, q, hq, c) /\ Toward(q, st, hs, c)
    BY DEF Paired, Shape
  <1>2. /\ DOMAIN r = LinkFields /\ r.queue = << >> /\ r.tx = ArqTxNew /\ r.rx = ArqRxNew
        /\ r.backlog = 0 /\ r.sid = st.sid /\ r.submitted = st.submitted /\ r.air = st.air
    BY <1>1, Reset
  <1>3. f.type = "Req"
    BY DEF Control
  <1> HIDE DEF r, f
  <1>4. /\ DOMAIN e = LinkFields /\ e.queue = Append(<< >>, f) /\ e.tx = ArqTxNew /\ e.rx = ArqRxNew
        /\ e.backlog = 0 /\ e.sid = st.sid /\ e.submitted = st.submitted /\ e.air = st.air
        /\ e.phase = "Calling"
    BY <1>2 DEF Enqueue, LinkFields
  <1> HIDE DEF e
  <1>5. AllWait(e.queue, e)
    <2>1. Waits(f, e)
      BY <1>3, <1>4 DEF Waits, Tells
    <2>2. QED
      BY <2>1, <1>4, NoneTell, AppendWaits
  <1>6. Airs(e.air, e)
    BY <1>1, <1>4 DEF Shape, Airs, Tells, HasArq
  <1>7. Shape(e)
    BY <1>1, <1>4, <1>5, <1>6, NewPair DEF Shape, Typed, Phases, HasArq
  <1>8. Tied(e, q, hq) /\ Meets(e, q) /\ Meets(q, e) /\ Unused(e, hq) /\ Drained(e, hq)
    BY <1>1, <1>4 DEF Tied, Meets, Unused, Drained, HasArq, Toward
  <1>9. Tied(q, e, hs)
    BY <1>1, <1>4 DEF Tied, Toward, Engaged
  <1>10. Tally(e, q, c + 1) /\ Tally(q, e, c + 1)
    <2>1. st.sid \in Nat /\ q.sid \in Nat /\ Tally(st, q, c) /\ Tally(q, st, c) /\ ~HasArq(e) /\ ~HasArq(st)
      BY <1>1, <1>4 DEF Shape, Typed, Toward, HasArq
    <2>2. QED
      BY <2>1, <1>4 DEF Tally
  <1>11. QED
    BY <1>1, <1>7, <1>8, <1>9, <1>10 DEF Paired, Toward, e, r, f

\* The last sample of a frame leaves.
LEMMA PlaysOut ==
    ASSUME NEW st, NEW q, NEW hq, NEW hs, NEW c \in Nat, Paired(st, q, hq, hs, c)
    PROVE  /\ Paired(Played(st), q, hq, hs, c) /\ Played(st).air = NoFrame
           /\ st.air.type # "Disconnect" => Airs(st.air, Played(st))
           /\ st.air # NoFrame /\ Played(st).phase = "Accepting" => Played(st).queue = << >>
  <1> DEFINE off == [st EXCEPT !.air = NoFrame]
             p == Played(st)
  <1>1. Shape(st) /\ Typed(st) /\ Tied(st, q, hq)
    BY DEF Paired, Shape, Toward
  <1>2. CASE st.phase = "Closing" /\ st.queue = << >>
    <2>1. /\ DOMAIN p = LinkFields /\ p.queue = << >> /\ p.tx = st.tx /\ p.rx = st.rx
          /\ p.backlog = st.backlog /\ p.sid = st.sid /\ p.submitted = st.submitted /\ p.air = NoFrame
          /\ p.phase = "Idle"
      BY <1>1, <1>2 DEF Played, LinkFields, Typed
    <2> HIDE DEF p
    <2>2. Shape(p)
      BY <1>1, <1>2, <2>1, NoneTell DEF Shape, Typed, Phases, HasArq
    <2>3. Drained(p, hq)
      BY <2>1 DEF Drained
    <2>4. Paired(p, q, hq, hs, c)
      BY <2>1, <2>2, <2>3, Leaves
    <2>5. st.air.type # "Disconnect" => Airs(st.air, p)
      BY <1>1, <1>2, <2>1 DEF Shape, Airs, Tells, HasArq
    <2>6. QED
      BY <2>1, <2>4, <2>5 DEF p
  <1>3. CASE ~(st.phase = "Closing" /\ st.queue = << >>)
    <2>1. /\ DOMAIN p = LinkFields /\ p.queue = st.queue /\ p.tx = st.tx /\ p.rx = st.rx
          /\ p.backlog = st.backlog /\ p.sid = st.sid /\ p.submitted = st.submitted /\ p.air = NoFrame
          /\ p.phase = st.phase /\ p.closing = st.closing
      BY <1>1, <1>3 DEF Played, LinkFields, Typed
    <2> HIDE DEF p
    <2>2. Sent(p) = Sent(st) /\ (HasArq(p) <=> HasArq(st))
      BY <2>1 DEF Sent, HasArq
    <2>3. AllWait(p.queue, p) /\ Airs(st.air, p)
      BY <1>1, <2>1, <2>2, TellsSame DEF Shape
    <2>4. Shape(p)
      BY <1>1, <2>1, <2>2, <2>3, NoneTell DEF Shape, Typed
    <2>5. Tied(p, q, hq)
      BY <1>1, <2>1, <2>2, TiedSame
    <2>6. st.phase = "Accepting" /\ HasArq(q) => p.queue = st.queue /\ p.air = st.air
      BY <2>1 DEF Paired, Toward, Meets
    <2>7. Paired(p, q, hq, hs, c)
      BY <2>1, <2>4, <2>5, <2>6, Steady
    <2>8. st.air # NoFrame /\ p.phase = "Accepting" => p.queue = << >>
      BY <1>1, <2>1 DEF Shape
    <2>9. QED
      BY <2>1, <2>3, <2>7, <2>8 DEF p
  <1>4. QED
    BY <1>2, <1>3

-----------------------------------------------------------------------------
(* Timers. *)

\* With a window of one, what is outstanding is the last segment sent.
LEMMA LastOut ==
    ASSUME NEW t \in TxType(Nat), NEW r, NEW n \in Int, NEW h \in Int,
           Coupled(t, r, n, h, 1), InFlight(t) > 0
    PROVE  /\ n >= 1 /\ n \in Nat /\ SendBase(t, n) = n - 1 /\ InFlight(t) = 1
           /\ t.send_base = (n - 1) % SeqMod /\ t.tx_buf[SlotOf(t.send_base)].data = n
  <1> DEFINE b == SendBase(t, n)
  <1>1. b \in Nat /\ b <= h /\ h <= n /\ n <= b + 1 /\ InFlight(t) = n - b
    BY CoupledCounters, ArqBounds
  <1>2. b = n - 1 /\ n >= 1 /\ n \in Nat /\ InFlight(t) = 1
    BY <1>1
  <1>3. t.send_base = b % SeqMod /\ \A k \in b .. n - 1 : t.tx_buf[k % Ring].data = k + 1
    BY DEF Coupled, SenderCoupled
  <1> HIDE DEF b
  <1>4. SlotOf(t.send_base) = b % Ring
    BY <1>1, <1>3, SlotOfMod
  <1>5. t.tx_buf[b % Ring].data = b + 1
    BY <1>2, <1>3
  <1>6. QED
    BY <1>2, <1>3, <1>4, <1>5 DEF b

\* A station on its own whose transmitter has just moved.
LEMMA Typeful ==
    ASSUME NEW st, NEW q, NEW hq, NEW hs, NEW c, Paired(st, q, hq, hs, c), HasArq(st)
    PROVE  /\ Typed(st) /\ AllWait(st.queue, st) /\ Airs(st.air, st) /\ st.sid >= 1
           /\ Sent(st) \in Int
           /\ \E r \in RxType(Nat) : Coupled(st.tx, r, Sent(st), Len(hq[st.sid]), 1)
  BY DEF Paired, Shape, Toward, Tied, Typed, Sent

\* run_retransmits queues the outstanding segment again, or gives up.
LEMMA Retransmits ==
    ASSUME NEW st, NEW q, NEW hq, NEW hs, NEW c \in Nat, Paired(st, q, hq, hs, c),
           Listed(hq), st.sid <= MaxConnects, st.air = NoFrame, NEW due
    PROVE  /\ Paired(RunRetransmits(st, due), q, hq, hs, c)
           /\ RunRetransmits(st, due).air = NoFrame
  <1> DEFINE seqs == GetRetransmits(st.tx, IF "rto" \in due THEN SeqNum ELSE {}, MaxRetransmit)
             W == Without(st.queue, "Data")
             k == Control(st, "Cfm")
             d == DataFrame(st, st.tx.send_base)
             pre == IF st.awaiting_first_ack THEN << k >> ELSE << >>
             e == [st EXCEPT !.tx = MarkRetransmitted(@, seqs), !.queue = W \o pre \o << d >>]
             ended == EndSession(st, "RetriesExhausted", TRUE)
  <1>1. \/ RunRetransmits(st, due) = st
        \/ HasArq(st) /\ RunRetransmits(st, due) = ended
        \/ HasArq(st) /\ seqs # {} /\ RunRetransmits(st, due) = e
    BY DEF RunRetransmits
  <1>2. ASSUME HasArq(st) PROVE Paired(ended, q, hq, hs, c) /\ ended.air = NoFrame
    BY <1>2, Closes
  <1>3. ASSUME HasArq(st), seqs # {} PROVE Paired(e, q, hq, hs, c) /\ e.air = NoFrame
    <2>1. /\ Typed(st) /\ AllWait(st.queue, st) /\ st.sid >= 1 /\ Sent(st) \in Int
          /\ Tied(st, q, hq)
      BY <1>3, Typeful DEF Paired, Toward
    <2>2. PICK r \in RxType(Nat) : /\ Coupled(st.tx, r, Sent(st), Len(hq[st.sid]), 1)
                                   /\ Engaged(q) => q.rx = r
      BY <1>3, <2>1 DEF Tied
    <2>3. Len(hq[st.sid]) \in Int /\ 1 \in 1 .. Ring
      BY <2>1, ArqBounds DEF Listed, Typed
    <2>4. seqs \in SUBSET SeqNum /\ InFlight(st.tx) > 0 /\ InFlight(st.tx) \in Nat
      <3>1. InFlight(st.tx) \in Nat
        BY <2>1, InFlightType DEF Typed, SeqNum
      <3>2. seqs \subseteq Outstanding(st.tx) /\ seqs \subseteq SeqNum
        BY DEF GetRetransmits
      <3>3. Outstanding(st.tx) # {} => InFlight(st.tx) > 0
        BY <3>1 DEF Outstanding
      <3>4. QED
        BY <1>3, <3>1, <3>2, <3>3
    <2>5. /\ st.tx.send_base = (Sent(st) - 1) % SeqMod
          /\ st.tx.tx_buf[SlotOf(st.tx.send_base)].data = Sent(st)
      BY <2>1, <2>2, <2>3, <2>4, LastOut DEF Typed
    <2>6. /\ d.type = "Data" /\ d.sid = st.sid /\ d.num = (Sent(st) - 1) % SeqMod /\ d.data = Sent(st)
          /\ k.type = "Cfm"
      BY <2>5 DEF DataFrame, Control
    <2>7. Waits(d, st) /\ Waits(k, st)
      BY <1>3, <2>4, <2>6 DEF Waits, Tells
    <2> DEFINE t2 == MarkRetransmitted(st.tx, seqs)
    <2>8. /\ t2 \in TxType(Nat) /\ InFlight(t2) = InFlight(st.tx)
          /\ Coupled(t2, r, Sent(st), Len(hq[st.sid]), 1)
      BY <2>1, <2>2, <2>3, <2>4, CoupledMark, MarkRetransmittedType DEF Typed
    <2> HIDE DEF t2, seqs, d, k
    <2>9. AllWait(W \o pre \o << d >>, st)
      <3>1. AllWait(W, st)
        BY <2>1, WithoutWaits
      <3> HIDE DEF W
      <3> DEFINE V == W \o pre
      <3>2. V \in {W, Append(W, k)}
        <4>1. PICK S : W \in Seq(S)
          BY <3>1 DEF AllWait, IsQueue
        <4>2. W \in Seq(S \cup {k})
          BY <4>1
        <4>3. W \o << >> = W /\ W \o << k >> = Append(W, k)
          BY <4>2
        <4>4. QED
          BY <4>3
      <3>3. AllWait(V, st)
        BY <3>1, <3>2, <2>7, AppendWaits
      <3> HIDE DEF V
      <3>4. V \o << d >> = Append(V, d)
        <4>1. PICK S : V \in Seq(S)
          BY <3>3 DEF AllWait, IsQueue
        <4>2. V \in Seq(S \cup {d})
          BY <4>1
        <4>3. QED
          BY <4>2
      <3>5. AllWait(Append(V, d), st)
        BY <3>3, <2>7, AppendWaits
      <3>6. QED
        BY <3>4, <3>5 DEF V
    <2> DEFINE Q == W \o pre \o << d >>
    <2>10. e = [st EXCEPT !.tx = t2, !.queue = Q]
      BY <2>1 DEF t2, Typed, LinkFields
    <2> HIDE DEF e, Q
    <2>11. /\ DOMAIN e = LinkFields /\ e.tx = t2 /\ e.queue = Q /\ e.phase = st.phase
           /\ e.sid = st.sid /\ e.rx = st.rx /\ e.submitted = st.submitted
           /\ e.backlog = st.backlog /\ e.air = NoFrame /\ e.closing = st.closing
      BY <2>1, <2>10 DEF Typed, LinkFields
    <2>12. Sent(e) = Sent(st) /\ HasArq(e)
      BY <1>3, <2>11 DEF Sent, HasArq
    <2>13. AllWait(e.queue, e)
      BY <2>8, <2>9, <2>11, <2>12, TellsSame DEF Q
    <2>14. Shape(e)
      BY <2>1, <2>8, <2>11, <2>12, <2>13, NoneTell DEF Shape, Typed, HasArq
    <2>15. Tied(e, q, hq)
      BY <2>2, <2>8, <2>11, <2>12 DEF Tied
    <2>16. st.phase # "Accepting"
      BY <1>3 DEF HasArq
    <2>17. Paired(e, q, hq, hs, c)
      BY <1>3, <2>11, <2>14, <2>15, <2>16, Steady
    <2>18. QED
      BY <2>11, <2>17
  <1> HIDE DEF e, ended, seqs
  <1>4. QED
    BY <1>1, <1>2, <1>3

\* run_timers of a session: the timeout, the keepalive, then the ARQ.
LEMMA SessionTimers ==
    ASSUME NEW st, NEW q, NEW hq, NEW hs, NEW c \in Nat, Paired(st, q, hq, hs, c),
           Listed(hq), st.sid <= MaxConnects, st.air = NoFrame, NEW due
    PROVE  /\ Paired(RunSessionTimers(st, due), q, hq, hs, c)
           /\ RunSessionTimers(st, due).air = NoFrame
  <1> DEFINE k == Control(st, "Keepalive")
             z == [st EXCEPT !.idle = 0]
             kept == Enqueue(z, k)
  <1>1. Typed(st) /\ AllWait(st.queue, st)
    BY DEF Paired, Shape
  <1>2. CASE IsTimedOut(st)
    <2>1. \A reason : Paired(EndSession(st, reason, FALSE), q, hq, hs, c)
                      /\ EndSession(st, reason, FALSE).air = NoFrame
      BY Ends
    <2>2. QED
      BY <1>2, <2>1 DEF RunSessionTimers
  <1>3. ASSUME NeedsKeepalive(st)
        PROVE  Paired(kept, q, hq, hs, c) /\ kept.sid = st.sid /\ kept.air = NoFrame
    <2>1. k.type = "Keepalive"
      BY DEF Control
    <2>2. kept = [z EXCEPT !.queue = Append(st.queue, k)] /\ DOMAIN z = LinkFields
      BY <1>1 DEF Enqueue, Typed, LinkFields
    <2> HIDE DEF k
    <2>3. Waits(k, st)
      BY <1>3, <2>1 DEF Waits, Tells, HasArq, NeedsKeepalive
    <2>4. AllWait(Append(st.queue, k), st)
      BY <1>1, <2>3, AppendWaits
    <2>5. /\ DOMAIN kept = LinkFields /\ kept.tx = st.tx /\ kept.queue = Append(st.queue, k)
          /\ kept.phase = st.phase /\ kept.sid = st.sid /\ kept.rx = st.rx
          /\ kept.submitted = st.submitted /\ kept.backlog = st.backlog /\ kept.air = st.air
          /\ kept.closing = st.closing
      BY <1>1, <2>2 DEF Typed, LinkFields
    <2> HIDE DEF kept
    <2>6. st.phase # "Accepting"
      BY <1>3 DEF NeedsKeepalive
    <2>7. QED
      BY <2>4, <2>5, <2>6, Requeued
  <1>4. CASE ~IsTimedOut(st)
    <2> DEFINE x == IF NeedsKeepalive(st) /\ st.queue = << >> THEN kept ELSE st
    <2>1. RunSessionTimers(st, due) = RunRetransmits(x, due)
      BY <1>4 DEF RunSessionTimers
    <2>2. Paired(x, q, hq, hs, c) /\ x.sid = st.sid /\ x.air = NoFrame
      <3> HIDE DEF kept
      <3>1. QED
        BY <1>3
    <2> HIDE DEF x
    <2>3. QED
      BY <2>1, <2>2, Retransmits
  <1>5. QED
    BY <1>2, <1>4

\* run_timers.
LEMMA Timed ==
    ASSUME NEW st, NEW q, NEW hq, NEW hs, NEW c \in Nat, Paired(st, q, hq, hs, c),
           Listed(hq), st.sid <= MaxConnects, st.air = NoFrame, NEW due
    PROVE  /\ Paired(RunTimers(st, due), q, hq, hs, c)
           /\ RunTimers(st, due).air = NoFrame
  <1> DEFINE z == [st EXCEPT !.req_keyed = FALSE]
             f == Control(st, "Req")
             again == Enqueue(z, f)
  <1>1. Typed(st) /\ AllWait(st.queue, st)
    BY DEF Paired, Shape
  <1>2. ASSUME st.phase = "Calling"
        PROVE  Paired(again, q, hq, hs, c) /\ again.sid = st.sid /\ again.air = NoFrame
    <2>1. f.type = "Req"
      BY DEF Control
    <2>2. again = [z EXCEPT !.queue = Append(st.queue, f)] /\ DOMAIN z = LinkFields
      BY <1>1 DEF Enqueue, Typed, LinkFields
    <2> HIDE DEF f
    <2>3. Waits(f, st)
      BY <1>2, <2>1 DEF Waits, Tells
    <2>4. AllWait(Append(st.queue, f), st)
      BY <1>1, <2>3, AppendWaits
    <2>5. /\ DOMAIN again = LinkFields /\ again.tx = st.tx /\ again.queue = Append(st.queue, f)
          /\ again.phase = st.phase /\ again.sid = st.sid /\ again.rx = st.rx
          /\ again.submitted = st.submitted /\ again.backlog = st.backlog /\ again.air = st.air
          /\ again.closing = st.closing
      BY <1>1, <2>2 DEF Typed, LinkFields
    <2> HIDE DEF again
    <2>6. QED
      BY <1>2, <2>4, <2>5, Requeued
  <1>3. Paired(EndSession(st, "HandshakeFailed", FALSE), q, hq, hs, c)
        /\ EndSession(st, "HandshakeFailed", FALSE).air = NoFrame
    BY Ends
  <1>4. \/ RunTimers(st, due) = RunSessionTimers(st, due)
        \/ RunTimers(st, due) = EndSession(st, "HandshakeFailed", FALSE)
        \/ st.phase = "Calling" /\ RunTimers(st, due) = RunSessionTimers(again, due)
    BY DEF RunTimers
  <1> HIDE DEF again
  <1>5. QED
    BY <1>2, <1>3, <1>4, SessionTimers

-----------------------------------------------------------------------------
(* Keying. *)

\* A frame goes on the air.
LEMMA KeyFields ==
    ASSUME NEW st, DOMAIN st = LinkFields, NEW f
    PROVE  LET k == Key(st, f)
           IN /\ DOMAIN k = LinkFields /\ k.tx = st.tx /\ k.queue = st.queue
              /\ k.phase = st.phase /\ k.sid = st.sid /\ k.rx = st.rx
              /\ k.submitted = st.submitted /\ k.backlog = st.backlog /\ k.air = f
              /\ k.closing = st.closing
  <1> DEFINE a == [st EXCEPT !.air = f]
             on == Touch(a)
             k == Key(st, f)
  <1>1. /\ DOMAIN a = LinkFields /\ a.tx = st.tx /\ a.queue = st.queue
        /\ a.phase = st.phase /\ a.sid = st.sid /\ a.rx = st.rx
        /\ a.submitted = st.submitted /\ a.backlog = st.backlog /\ a.air = f
        /\ a.closing = st.closing
    BY DEF LinkFields
  <1> HIDE DEF a
  <1>2. /\ DOMAIN on = LinkFields /\ on.tx = st.tx /\ on.queue = st.queue
        /\ on.phase = st.phase /\ on.sid = st.sid /\ on.rx = st.rx
        /\ on.submitted = st.submitted /\ on.backlog = st.backlog /\ on.air = f
        /\ on.closing = st.closing
    BY <1>1 DEF Touch, LinkFields
  <1>3. k = CASE f.type = "Req" -> [on EXCEPT !.req_attempts = @ + 1, !.req_keyed = TRUE]
              [] f.type = "Data" -> [on EXCEPT !.data_keyed = TRUE]
              [] OTHER -> on
    BY DEF Key, a
  <1> HIDE DEF on, k
  <1>4. QED
    BY <1>2, <1>3 DEF LinkFields, k

\* The head of the queue goes on the air.
LEMMA KeysHead ==
    ASSUME NEW st, NEW q, NEW hq, NEW hs, NEW c \in Nat, Paired(st, q, hq, hs, c),
           st.air = NoFrame, st.queue # << >>
    PROVE  Paired(KeyHead(st), q, hq, hs, c)
  <1> DEFINE p == [st EXCEPT !.queue = Tail(@)]
             f == Head(st.queue)
             e == KeyHead(st)
  <1>1. Shape(st) /\ Typed(st) /\ Tied(st, q, hq) /\ AllWait(st.queue, st)
    BY DEF Paired, Shape, Toward
  <1>2. AllWait(Tail(st.queue), st) /\ Waits(f, st)
    BY <1>1, TailWaits
  <1>3. /\ DOMAIN p = LinkFields /\ p.tx = st.tx /\ p.queue = Tail(st.queue)
        /\ p.phase = st.phase /\ p.sid = st.sid /\ p.rx = st.rx
        /\ p.submitted = st.submitted /\ p.backlog = st.backlog /\ p.closing = st.closing
    BY <1>1 DEF Typed, LinkFields
  <1>4. e = Key(p, f)
    BY DEF KeyHead
  <1> HIDE DEF p, f, e
  <1>5. /\ DOMAIN e = LinkFields /\ e.tx = st.tx /\ e.queue = Tail(st.queue)
        /\ e.phase = st.phase /\ e.sid = st.sid /\ e.rx = st.rx /\ e.air = f
        /\ e.submitted = st.submitted /\ e.backlog = st.backlog /\ e.closing = st.closing
    BY <1>3, <1>4, KeyFields
  <1>6. Sent(e) = Sent(st) /\ (HasArq(e) <=> HasArq(st))
    BY <1>5 DEF Sent, HasArq
  <1>7. Airs(f, st)
    BY <1>2 DEF Waits, Airs
  <1>8. AllWait(e.queue, e) /\ Airs(e.air, e)
    BY <1>2, <1>5, <1>6, <1>7, TellsSame
  <1>9. e.phase = "Accepting" => e.queue = << >>
    BY <1>1, <1>5 DEF Shape
  <1>10. Shape(e)
    BY <1>1, <1>5, <1>6, <1>8, <1>9 DEF Shape, Typed
  <1>11. Tied(e, q, hq)
    BY <1>1, <1>5, <1>6, TiedSame
  <1>12. ~(st.phase = "Accepting" /\ HasArq(q))
    BY DEF Paired, Toward, Meets
  <1>13. QED
    BY <1>5, <1>10, <1>11, <1>12, Steady DEF e

\* A new segment goes on the air when none is outstanding.
LEMMA KeysChunk ==
    ASSUME NEW st, NEW q, NEW hq, NEW hs, NEW c \in Nat, Paired(st, q, hq, hs, c),
           Listed(hq), st.sid <= MaxConnects,
           st.air = NoFrame, HasArq(st), st.queue = << >>, InFlight(st.tx) = 0, st.backlog > 0
    PROVE  Paired(KeyNewChunk(st), q, hq, hs, c)
  <1> DEFINE n == Sent(st)
             t2 == TxSend(st.tx, n + 1)
             sent == [st EXCEPT !.tx = TxSend(@, st.submitted - st.backlog + 1), !.backlog = @ - 1]
             f == DataFrame(sent, st.tx.next_seq)
             e == KeyNewChunk(st)
  <1>1. /\ Typed(st) /\ st.sid >= 1 /\ n \in Int /\ Tied(st, q, hq)
    BY Typeful DEF Paired, Toward
  <1>2. PICK r \in RxType(Nat) : /\ Coupled(st.tx, r, n, Len(hq[st.sid]), 1)
                                 /\ Engaged(q) => q.rx = r
    BY <1>1 DEF Tied
  <1>3. Len(hq[st.sid]) \in Int /\ 1 \in 1 .. Ring /\ CountMax >= 1
    BY <1>1, ArqBounds, ArqAssumption, LinkAssumption DEF Listed, Typed
  <1>4. /\ Coupled(t2, r, n + 1, Len(hq[st.sid]), 1) /\ InFlight(t2) = 1
    BY <1>1, <1>2, <1>3, CoupledSend DEF Typed
  <1>5. n \in Nat
    BY <1>1 DEF Typed, Sent
  <1>6. t2 \in TxType(Nat)
    BY <1>1, <1>3, <1>5, TxSendType DEF Typed
  <1>7. /\ DOMAIN sent = LinkFields /\ sent.tx = t2 /\ sent.queue = << >>
        /\ sent.phase = st.phase /\ sent.sid = st.sid /\ sent.rx = st.rx
        /\ sent.submitted = st.submitted /\ sent.backlog = st.backlog - 1 /\ sent.closing = st.closing
    BY <1>1 DEF Typed, LinkFields, Sent
  <1>8. /\ f.type = "Data" /\ f.sid = st.sid /\ f.num = st.tx.next_seq
        /\ f.data = t2.tx_buf[SlotOf(st.tx.next_seq)].data
    BY <1>7 DEF DataFrame
  <1>9. e = Key(sent, f)
    BY DEF KeyNewChunk
  <1> HIDE DEF sent, f, e, n, t2
  <1>10. /\ DOMAIN e = LinkFields /\ e.tx = t2 /\ e.queue = << >>
         /\ e.phase = st.phase /\ e.sid = st.sid /\ e.rx = st.rx /\ e.air = f
         /\ e.submitted = st.submitted /\ e.backlog = st.backlog - 1 /\ e.closing = st.closing
    BY <1>7, <1>9, KeyFields
  <1>11. Sent(e) = n + 1 /\ HasArq(e)
    BY <1>1, <1>10 DEF Sent, HasArq, Typed, n
  <1>12. st.tx.next_seq = n % SeqMod /\ t2.tx_buf[n % Ring].data = n + 1 /\ SlotOf(st.tx.next_seq) = n % Ring
    <2>1. st.tx.next_seq = n % SeqMod
      BY <1>2 DEF Coupled, SenderCoupled
    <2>2. SlotOf(st.tx.next_seq) = n % Ring
      BY <2>1, <1>1, SlotOfMod
    <2>3. SendBase(t2, n + 1) = n
      BY <1>1, <1>4 DEF SendBase
    <2>4. t2.tx_buf[n % Ring].data = n + 1
      BY <2>3, <1>1, <1>4 DEF Coupled, SenderCoupled
    <2>5. QED
      BY <2>1, <2>2, <2>4
  <1>13. Airs(f, e)
    BY <1>1, <1>4, <1>8, <1>10, <1>11, <1>12 DEF Airs, Tells
  <1>14. Shape(e)
    BY <1>1, <1>6, <1>10, <1>11, <1>13, NoneTell DEF Shape, Typed, HasArq
  <1>15. Tied(e, q, hq)
    BY <1>2, <1>4, <1>10, <1>11 DEF Tied
  <1>16. st.phase # "Accepting"
    BY DEF HasArq
  <1>17. QED
    BY <1>10, <1>11, <1>14, <1>15, <1>16, Steady DEF e

\* key_up.
LEMMA KeysUp ==
    ASSUME NEW st, NEW q, NEW hq, NEW hs, NEW c \in Nat, Paired(st, q, hq, hs, c),
           Listed(hq), st.sid <= MaxConnects, st.air = NoFrame, NEW hold
    PROVE  Paired(KeyUp(st, hold), q, hq, hs, c)
  <1> DEFINE ended == EndSession(st, "Local", TRUE)
  <1>1. /\ st.backlog \in Nat
        /\ HasArq(st) => InFlight(st.tx) \in Nat
    BY InFlightType DEF Paired, Shape, Typed, SeqNum
  <1>2. \/ KeyUp(st, hold) = st
        \/ st.queue # << >> /\ KeyUp(st, hold) = KeyHead(st)
        \/ /\ HasArq(st) /\ InFlight(st.tx) = 0 /\ st.queue = << >> /\ st.backlog > 0
           /\ KeyUp(st, hold) = KeyNewChunk(st)
        \/ /\ HasArq(st) /\ InFlight(st.tx) = 0 /\ st.backlog = 0
           /\ KeyUp(st, hold) = KeyHead(ended)
    <2>1. HasArq(st) => InFlight(st.tx) = 0 \/ InFlight(st.tx) > 0
      BY <1>1
    <2>2. st.backlog = 0 \/ st.backlog > 0
      BY <1>1
    <2>3. QED
      BY <2>1, <2>2, Zenon DEF KeyUp
  <1>3. ASSUME HasArq(st), InFlight(st.tx) = 0, st.backlog = 0
        PROVE  Paired(KeyHead(ended), q, hq, hs, c)
    <2>1. Paired(ended, q, hq, hs, c) /\ ended.air = NoFrame /\ ended.queue # << >>
      BY <1>3, Closes
    <2> HIDE DEF ended
    <2>2. QED
      BY <2>1, KeysHead
  <1>4. QED
    BY <1>2, <1>3, KeysHead, KeysChunk

-----------------------------------------------------------------------------
(* What is heard.  The frame is one the peer has just played. *)

Heard(f, q) ==
    /\ q.air = NoFrame
    /\ f.type # "Disconnect" => Airs(f, q)
    /\ f # NoFrame /\ q.phase = "Accepting" => q.queue = << >>

\* on_connect_req.
LEMMA HearsReq ==
    ASSUME NEW st, NEW q, NEW hq, NEW hs, NEW c \in Nat, Paired(st, q, hq, hs, c),
           st.air = NoFrame, NEW f, Heard(f, q), f.type = "Req"
    PROVE  Paired(OnConnectReq(st), q, hq, hs, c)
  <1> DEFINE r == ResetSessionState(st)
             g == Control(st, "ConnectAck")
             e == [Enqueue(r, g) EXCEPT !.phase = "Accepting", !.idle = 0]
  <1>1. Shape(st) /\ Typed(st) /\ Shape(q) /\ Toward(st, q, hq, c) /\ Toward(q, st, hs, c)
    BY DEF Paired, Shape
  <1>2. ~HasArq(q)
    BY DEF Heard, Airs, HasArq
  <1>3. /\ OnConnectReq(st) = st \/ (OnConnectReq(st) = e /\ st.phase \in {"Accepting", "Idle"})
    BY DEF OnConnectReq
  <1>4. /\ DOMAIN r = LinkFields /\ r.queue = << >> /\ r.tx = ArqTxNew /\ r.rx = ArqRxNew
        /\ r.backlog = 0 /\ r.sid = st.sid /\ r.submitted = st.submitted /\ r.air = st.air
    BY <1>1, Reset
  <1>5. g.type = "ConnectAck"
    BY DEF Control
  <1> HIDE DEF r, g
  <1>6. /\ DOMAIN e = LinkFields /\ e.queue = Append(<< >>, g) /\ e.tx = ArqTxNew /\ e.rx = ArqRxNew
        /\ e.backlog = 0 /\ e.sid = st.sid /\ e.submitted = st.submitted /\ e.air = NoFrame
        /\ e.phase = "Accepting"
    BY <1>4 DEF Enqueue, LinkFields
  <1> HIDE DEF e
  <1>7. ASSUME st.phase \in {"Accepting", "Idle"} PROVE Paired(e, q, hq, hs, c)
    <2>1. AllWait(e.queue, e) /\ Tail(e.queue) = << >>
      <3>1. Waits(g, e)
        BY <1>5, <1>6 DEF Waits, Tells
      <3>2. g \in {g} /\ Tail(Append(<< >>, g)) = << >>
        OBVIOUS
      <3>3. QED
        BY <3>1, <3>2, <1>6, NoneTell, AppendWaits
    <2>2. Shape(e)
      BY <1>1, <1>6, <2>1, NewPair, NoneTell DEF Shape, Typed, Phases, HasArq
    <2>3. /\ Tied(e, q, hq) /\ Meets(e, q) /\ Tied(q, e, hs) /\ Meets(q, e)
          /\ Unused(e, hq) /\ Drained(e, hq)
      BY <1>1, <1>2, <1>6 DEF Tied, Meets, Unused, Drained, HasArq, Toward
    <2>4. Tally(e, q, c) /\ Tally(q, e, c)
      BY <1>1, <1>2, <1>6, <1>7 DEF Toward, Tally, HasArq
    <2>5. QED
      BY <1>1, <2>2, <2>3, <2>4 DEF Paired, Toward
  <1>8. QED
    BY <1>3, <1>7

\* What established does, for both sides of the handshake.
LEMMA EstablishedFields ==
    ASSUME NEW st, DOMAIN st = LinkFields
    PROVE  LET e == Established(st)
           IN /\ DOMAIN e = LinkFields /\ e.queue = st.queue /\ e.tx = ArqTxNew /\ e.rx = ArqRxNew
              /\ e.backlog = st.backlog /\ e.sid = st.sid + 1 /\ e.submitted = 0 /\ e.air = st.air
              /\ e.phase = "Connected"
  BY DEF Established, LinkFields

\* A new session has a new transmitter; nothing was handed up of it.
LEMMA NewSession ==
    ASSUME NEW st, NEW q, NEW hq, NEW c \in Nat, c <= MaxConnects, Shape(q), Typed(st), Listed(hq),
           Unused(st, hq), Tally(st, q, c), st.phase \in {"Calling", "Accepting"},
           st.phase = "Calling" \/ HasArq(q),
           q.rx = ArqRxNew \/ ~Engaged(q),
           NEW e, e.tx = ArqTxNew, Sent(e) = 0, e.sid = st.sid + 1
    PROVE  Tied(e, q, hq) /\ Unused(e, hq)
  <1>1. st.sid \in Nat /\ st.sid + 1 <= c
    BY DEF Typed, Tally
  <1>2. MaxConnects \in Nat
    BY LinkAssumption
  <1>3. st.sid + 1 \in 1 .. MaxConnects
    BY <1>1, <1>2
  <1>4. hq[e.sid] = << >>
    BY <1>1, <1>3 DEF Unused
  <1>5. Coupled(ArqTxNew, ArqRxNew, 0, 0, 1)
    BY CoupledNew, ArqBounds
  <1>6. Tied(e, q, hq)
    BY <1>4, <1>5, NewPair DEF Tied
  <1>7. Unused(e, hq)
    BY <1>1, <1>2 DEF Unused
  <1>8. QED
    BY <1>6, <1>7

\* on_connect_ack: the caller is in session.
LEMMA HearsConnectAck ==
    ASSUME NEW st, NEW q, NEW hq, NEW hs, NEW c \in Nat, Paired(st, q, hq, hs, c), c <= MaxConnects,
           Listed(hq), st.air = NoFrame, NEW f, Heard(f, q), f.type = "ConnectAck"
    PROVE  Paired(OnConnectAck(st), q, hq, hs, c)
  <1>1. CASE st.phase # "Calling"
    BY <1>1 DEF OnConnectAck
  <1>2. CASE st.phase = "Calling"
    <2> DEFINE W == Without(st.queue, "Req")
               k == Control(st, "Cfm")
               m == [st EXCEPT !.queue = Append(W, k), !.req_keyed = FALSE]
               e == [Established(m) EXCEPT !.awaiting_first_ack = TRUE]
    <2>1. /\ Shape(st) /\ Typed(st) /\ AllWait(st.queue, st) /\ Shape(q)
          /\ Toward(st, q, hq, c) /\ Toward(q, st, hs, c)
      BY DEF Paired, Shape
    <2>2. /\ q.phase \in {"Idle", "Calling", "Accepting"} /\ ~HasArq(q) /\ q.rx = ArqRxNew
          /\ q.air = NoFrame
          /\ q.phase = "Accepting" => q.queue = << >>
      BY <2>1 DEF Heard, Airs, HasArq, Shape, NoFrame
    <2>3. OnConnectAck(st) = e
      BY <1>2 DEF OnConnectAck
    <2>4. k.type = "Cfm"
      BY DEF Control
    <2> HIDE DEF W, k
    <2>5. /\ DOMAIN m = LinkFields /\ m.queue = Append(W, k) /\ m.backlog = st.backlog /\ m.sid = st.sid
          /\ m.air = NoFrame
      BY <2>1 DEF LinkFields, Typed
    <2> HIDE DEF m
    <2>6. /\ DOMAIN e = LinkFields /\ e.queue = Append(W, k) /\ e.tx = ArqTxNew /\ e.rx = ArqRxNew
          /\ e.backlog = 0 /\ e.sid = st.sid + 1 /\ e.submitted = 0 /\ e.air = NoFrame
          /\ e.phase = "Connected"
      <3>1. st.backlog = 0
        BY <1>2, <2>1 DEF Shape, HasArq
      <3>2. QED
        BY <3>1, <2>5, EstablishedFields DEF LinkFields
    <2> HIDE DEF e
    <2>7. HasArq(e) /\ Sent(e) = 0
      BY <2>6 DEF HasArq, Sent
    <2>8. AllWait(e.queue, e)
      <3>1. \A g : Waits(g, st) /\ g.type # "Req" => Waits(g, e)
        BY <1>2 DEF Waits, Tells, HasArq
      <3>2. AllWait(W, e)
        BY <2>1, <3>1, WithoutWaits DEF W
      <3>3. Waits(k, e)
        BY <2>4, <2>7 DEF Waits, Tells
      <3>4. QED
        BY <2>6, <3>2, <3>3, AppendWaits
    <2>9. Shape(e)
      BY <2>1, <2>6, <2>8, NewPair, NoneTell DEF Shape, Typed, Phases, HasArq
    <2>10. Tied(e, q, hq) /\ Unused(e, hq)
      <3>1. q.rx = ArqRxNew /\ Unused(st, hq) /\ Tally(st, q, c)
        BY <2>1, <2>2 DEF Toward
      <3>2. QED
        BY <1>2, <2>1, <2>6, <2>7, <3>1, NewSession
    <2>11. Meets(e, q) /\ Meets(q, e) /\ Tied(q, e, hs) /\ Drained(e, hq)
      BY <2>2, <2>6 DEF Meets, Tied, Drained
    <2>12. Tally(e, q, c) /\ Tally(q, e, c)
      <3>1. st.sid \in Nat /\ q.sid \in Nat /\ Tally(st, q, c) /\ Tally(q, st, c)
        BY <2>1 DEF Shape, Typed, Toward
      <3>2. QED
        BY <1>2, <2>2, <2>6, <3>1 DEF Tally
    <2>13. QED
      BY <2>1, <2>3, <2>9, <2>10, <2>11, <2>12 DEF Paired, Toward
  <1>3. QED
    BY <1>1, <1>2

\* on_connect_cfm: so is the answerer, with the caller that confirms.
LEMMA HearsCfm ==
    ASSUME NEW st, NEW q, NEW hq, NEW hs, NEW c \in Nat, Paired(st, q, hq, hs, c), c <= MaxConnects,
           Listed(hq), st.air = NoFrame, NEW f, Heard(f, q), f.type = "Cfm"
    PROVE  Paired(OnConnectCfm(st), q, hq, hs, c)
  <1>1. CASE st.phase # "Accepting"
    BY <1>1 DEF OnConnectCfm
  <1>2. CASE st.phase = "Accepting"
    <2> DEFINE e == Established(st)
    <2>1. /\ Shape(st) /\ Typed(st) /\ Shape(q) /\ Toward(st, q, hq, c) /\ Toward(q, st, hs, c)
      BY DEF Paired, Shape
    <2>2. /\ HasArq(q) /\ q.phase # "Calling" /\ q.phase # "Accepting"
      BY DEF Heard, Airs, Tells, HasArq
    <2>3. OnConnectCfm(st) = e
      BY <1>2 DEF OnConnectCfm
    <2>4. /\ st.backlog = 0 /\ st.rx = ArqRxNew /\ q.rx = ArqRxNew /\ st.queue = << >>
      BY <1>2, <2>1, <2>2 DEF Shape, HasArq, Toward, Meets
    <2>5. /\ DOMAIN e = LinkFields /\ e.queue = << >> /\ e.tx = ArqTxNew /\ e.rx = ArqRxNew
          /\ e.backlog = 0 /\ e.sid = st.sid + 1 /\ e.submitted = 0 /\ e.air = NoFrame
          /\ e.phase = "Connected"
      BY <2>1, <2>4, EstablishedFields DEF Typed
    <2> HIDE DEF e
    <2>6. HasArq(e) /\ Sent(e) = 0
      BY <2>5 DEF HasArq, Sent
    <2>7. Shape(e)
      BY <2>1, <2>5, NewPair, NoneTell DEF Shape, Typed, Phases, HasArq
    <2>8. Tied(e, q, hq) /\ Unused(e, hq)
      <3>1. Unused(st, hq) /\ Tally(st, q, c)
        BY <2>1 DEF Toward
      <3>2. QED
        BY <1>2, <2>1, <2>2, <2>4, <2>5, <2>6, <3>1, NewSession
    <2>9. Tied(q, e, hs)
      <3>1. Engaged(st)
        BY <1>2 DEF Engaged
      <3>2. QED
        BY <2>1, <2>4, <2>5, <3>1 DEF Tied, Toward
    <2>10. Meets(e, q) /\ Meets(q, e) /\ Drained(e, hq)
      BY <2>2, <2>5 DEF Meets, Drained
    <2>11. Tally(e, q, c) /\ Tally(q, e, c)
      <3>1. st.sid \in Nat /\ q.sid \in Nat /\ Tally(st, q, c) /\ Tally(q, st, c)
        BY <2>1 DEF Shape, Typed, Toward
      <3>2. QED
        BY <1>2, <2>2, <2>5, <3>1 DEF Tally
    <2>12. QED
      BY <2>1, <2>3, <2>7, <2>8, <2>9, <2>10, <2>11 DEF Paired, Toward
  <1>3. QED
    BY <1>1, <1>2

\* The list of what is handed up after a data frame.
After(hs, n, out) == [hs EXCEPT ![n] = @ \o out]

\* on_data: what it hands up is the next payload of the peer's session, or nothing.
LEMMA HearsData ==
    ASSUME NEW st, NEW q, NEW hq, NEW hs, NEW c \in Nat, Paired(st, q, hq, hs, c), c <= MaxConnects,
           Listed(hs), st.air = NoFrame, NEW f, Heard(f, q), f.type = "Data", HasArq(st)
    PROVE  LET hs2 == After(hs, f.sid, HandedUp(st, f))
           IN Paired(OnData(st, f), q, hq, hs2, c) /\ Listed(hs2)
  <1> DEFINE out == HandedUp(st, f)
             hs2 == After(hs, f.sid, out)
             n == Sent(q)
             h == Len(hs[q.sid])
             rx2 == RxReceive(st.rx, f.num, f.data, Window)
             got == [st EXCEPT !.rx = RxReceive(@, f.num, f.data, Window)]
             W == Without(st.queue, "Ack")
             a == AckFrame(got)
             e == [got EXCEPT !.queue = Append(W, a)]
  <1>1. /\ Shape(st) /\ Typed(st) /\ AllWait(st.queue, st) /\ Shape(q) /\ Typed(q)
        /\ Toward(st, q, hq, c) /\ Toward(q, st, hs, c)
    BY DEF Paired, Shape
  <1>2. /\ HasArq(q) /\ f.sid = q.sid /\ InFlight(q.tx) > 0 /\ f.num = (n - 1) % SeqMod /\ f.data = n
    BY DEF Heard, Airs, Tells
  <1>3. Engaged(st) /\ ~(q.phase = "Accepting") /\ ~(q.phase = "Calling")
    BY <1>2 DEF HasArq, Engaged
  <1>4. /\ Coupled(q.tx, st.rx, n, h, 1) /\ st.rx \in RxType(Nat) /\ q.tx \in TxType(Nat)
    BY <1>1, <1>2, <1>3 DEF Toward, Tied, Typed
  <1>5. /\ q.sid \in 1 .. MaxConnects /\ MaxConnects \in Nat
    <2>1. q.sid \in Nat /\ q.sid >= 1 /\ q.sid <= c /\ MaxConnects \in Nat
      BY <1>1, <1>2, <1>3, LinkAssumption DEF Shape, Typed, Toward, Tally
    <2>2. QED
      BY <2>1
  <1>6. /\ hs[q.sid] \in Seq(Nat) /\ h \in Nat /\ n \in Int /\ 1 \in 1 .. Ring
    BY <1>1, <1>5, ArqBounds DEF Listed, Typed, Sent
  <1>7. n >= 1 /\ n \in Nat /\ h <= n
    <2>1. n >= 1 /\ n \in Nat
      BY <1>2, <1>4, <1>6, LastOut
    <2>2. h <= n
      BY <1>4 DEF Coupled, SenderCoupled
    <2>3. QED
      BY <2>1, <2>2
  <1>8. out = RxDelivered(st.rx, (n - 1) % SeqMod, n, 1) /\ rx2 = RxReceive(st.rx, (n - 1) % SeqMod, n, 1)
    BY <1>2 DEF HandedUp, Window
  <1> HIDE DEF n, h
  <1>9. /\ out \in Seq(Nat) /\ Len(out) \in Nat /\ \A i \in 1 .. Len(out) : out[i] = h + i
        /\ Coupled(q.tx, rx2, n, h + Len(out), 1)
    <2>1. h - n < SeqMod - 1 /\ n \in Nat \cap Int
      BY <1>6, <1>7, ArqBounds
    <2> DEFINE t == q.tx
               r == st.rx
               d == n
               w == 1
               N == Nat
    <2>2. /\ t \in TxType(N) /\ r \in RxType(N) /\ n \in Int /\ h \in Int /\ w \in 1 .. Ring
          /\ Coupled(t, r, n, h, w) /\ d \in N \cap Int /\ 1 <= d /\ d <= n
          /\ h - d < SeqMod - w
      BY <2>1, <1>4, <1>6, <1>7
    <2>0. out = RxDelivered(r, (d - 1) % SeqMod, d, w) /\ rx2 = RxReceive(r, (d - 1) % SeqMod, d, w)
      BY <1>8
    <2> HIDE DEF t, r, d, w, n, h, out, rx2, N
    <2> DEFINE o == RxDelivered(r, (d - 1) % SeqMod, d, w)
               x == RxReceive(r, (d - 1) % SeqMod, d, w)
    <2>3. /\ o \in Seq(N) /\ Len(o) \in 0 .. Ring /\ \A i \in 1 .. Len(o) : o[i] = h + i
          /\ Coupled(t, x, n, h + Len(o), w)
      <3>1. o \in Seq(N) /\ Len(o) \in 0 .. Ring
        BY <2>2, CoupledReceive
      <3>2. \A i \in 1 .. Len(o) : o[i] = h + i
        BY <2>2, CoupledReceive
      <3>3. Coupled(t, x, n, h + Len(o), w)
        BY <2>2, CoupledReceive
      <3>4. QED
        BY <3>1, <3>2, <3>3
    <2> HIDE DEF o, x
    <2>4. Len(o) \in Nat
      BY <2>3, ArqBounds
    <2>5. QED
      BY <2>0, <2>3, <2>4 DEF t, o, x, w, N
  <1>10. rx2 \in RxType(Nat)
    <2>1. (n - 1) % SeqMod \in SeqNum
      BY <1>6, ArqBounds DEF SeqNum
    <2>2. QED
      BY <2>1, <1>4, <1>7, <1>8, RxReceiveType
  <1> HIDE DEF out, rx2
  <1>11. /\ hs2 \in [1 .. MaxConnects -> Seq(Nat)]
         /\ \A k \in 1 .. MaxConnects : k # q.sid => hs2[k] = hs[k]
         /\ hs2[q.sid] = hs[q.sid] \o out
    BY <1>2, <1>5, <1>6, <1>9 DEF Listed, After
  <1>12. Len(hs2[q.sid]) = h + Len(out) /\ \A i \in 1 .. Len(hs2[q.sid]) : hs2[q.sid][i] = i
    <2>1. Len(hs2[q.sid]) = h + Len(out)
      BY <1>6, <1>9, <1>11 DEF h
    <2>2. ASSUME NEW i \in 1 .. h + Len(out) PROVE (hs[q.sid] \o out)[i] = i
      <3>1. CASE i <= h
        <4>1. (hs[q.sid] \o out)[i] = hs[q.sid][i] /\ i \in 1 .. Len(hs[q.sid])
          BY <3>1, <1>6, <1>9 DEF h
        <4>2. QED
          BY <4>1, <1>5 DEF Listed
      <3>2. CASE i > h
        <4>1. i - h \in 1 .. Len(out)
          BY <3>2, <1>6, <1>9
        <4>2. (hs[q.sid] \o out)[i] = out[i - h]
          BY <3>2, <4>1, <1>6, <1>9 DEF h
        <4>3. QED
          BY <4>1, <4>2, <1>6, <1>9
      <3>3. i \in Int
        BY <1>6, <1>9
      <3>4. i <= h \/ i > h
        BY <3>3, <1>6
      <3>5. QED
        BY <3>1, <3>2, <3>4
    <2>3. QED
      BY <2>1, <2>2, <1>11
  <1> HIDE DEF hs2
  <1>13. Listed(hs2)
    BY <1>11, <1>12 DEF Listed
  <1>14. /\ DOMAIN got = LinkFields /\ got.rx = rx2 /\ got.queue = st.queue /\ got.tx = st.tx
         /\ got.phase = st.phase /\ got.sid = st.sid /\ got.submitted = st.submitted
         /\ got.backlog = st.backlog /\ got.air = NoFrame /\ got.closing = st.closing
    BY <1>1 DEF Typed, LinkFields, rx2
  <1>15. OnData(st, f) = e
    BY <1>1, <1>14 DEF OnData
  <1>16. a.type = "Ack" /\ a.sid = st.sid /\ a.num = rx2.recv_base
    BY <1>14 DEF AckFrame, AckInfo
  <1> HIDE DEF got, a, W
  <1>17. /\ DOMAIN e = LinkFields /\ e.rx = rx2 /\ e.queue = Append(W, a) /\ e.tx = st.tx
         /\ e.phase = st.phase /\ e.sid = st.sid /\ e.submitted = st.submitted
         /\ e.backlog = st.backlog /\ e.air = NoFrame /\ e.closing = st.closing
    BY <1>14 DEF LinkFields
  <1> HIDE DEF e
  <1>18. HasArq(e) /\ Sent(e) = Sent(st) /\ Engaged(e)
    BY <1>3, <1>17 DEF HasArq, Sent, Engaged
  <1>19. AllWait(e.queue, e)
    <2>1. \A g : Waits(g, st) /\ g.type # "Ack" => Waits(g, e)
      BY <1>17, <1>18 DEF Waits, Tells
    <2>2. AllWait(W, e)
      BY <1>1, <2>1, WithoutWaits DEF W
    <2>3. Waits(a, e)
      BY <1>16, <1>17, <1>18 DEF Waits, Tells
    <2>4. QED
      BY <1>17, <2>2, <2>3, AppendWaits
  <1>20. Shape(e)
    BY <1>1, <1>10, <1>17, <1>18, <1>19, NoneTell DEF Shape, Typed, HasArq
  <1>21. Tied(q, e, hs2)
    BY <1>2, <1>9, <1>10, <1>12, <1>17 DEF Tied, n
  <1>22. Tied(e, q, hq)
    BY <1>1, <1>17, <1>18, TiedSame DEF Toward
  <1>23. Meets(e, q) /\ Meets(q, e) /\ Drained(e, hq) /\ Drained(q, hs2)
    BY <1>2, <1>3, <1>18 DEF Meets, Drained, HasArq
  <1>24. Tally(e, q, c) /\ Tally(q, e, c)
    BY <1>1, <1>17, <1>18 DEF Tally, Toward
  <1>25. Unused(e, hq) /\ Unused(q, hs2)
    <2>1. Unused(e, hq)
      BY <1>1, <1>17 DEF Unused, Toward
    <2>2. \A k \in 1 .. MaxConnects : k > q.sid => k # q.sid
      BY <1>5
    <2>3. \A k \in 1 .. MaxConnects : k > q.sid => hs[k] = << >>
      BY <1>1 DEF Unused, Toward
    <2>4. QED
      BY <2>1, <2>2, <2>3, <1>11 DEF Unused
  <1>26. QED
    BY <1>1, <1>13, <1>15, <1>20, <1>21, <1>22, <1>23, <1>24, <1>25 DEF Paired, Toward, hs2, out

\* on_ack: the transmitter advances to what the peer has handed up.
LEMMA HearsAck ==
    ASSUME NEW st, NEW q, NEW hq, NEW hs, NEW c \in Nat, Paired(st, q, hq, hs, c), c <= MaxConnects,
           Listed(hq), st.air = NoFrame, NEW f, Heard(f, q), f.type = "Ack"
    PROVE  Paired(OnAck(st, f), q, hq, hs, c)
  <1> DEFINE tx == ProcessAck(st.tx, f.num, {})
             Q == IF InFlight(tx) = 0 THEN Without(st.queue, "Data") ELSE st.queue
             e == [st EXCEPT !.tx = tx,
                             !.data_keyed = @ /\ InFlight(tx) > 0,
                             !.queue = IF InFlight(tx) = 0 THEN Without(@, "Data") ELSE @,
                             !.awaiting_first_ack = FALSE]
             n == Sent(st)
             h == Len(hq[st.sid])
  <1>1. OnAck(st, f) = st \/ (HasArq(st) /\ OnAck(st, f) = e)
    BY DEF OnAck
  <1>2. ASSUME HasArq(st) PROVE Paired(e, q, hq, hs, c)
    <2>1. /\ Typed(st) /\ AllWait(st.queue, st) /\ Airs(st.air, st) /\ st.sid >= 1 /\ n \in Int
          /\ Tied(st, q, hq) /\ Shape(q)
      BY <1>2, Typeful DEF Paired, Toward
    <2>2. HasArq(q) /\ f.num = q.rx.recv_base /\ Engaged(q)
      BY DEF Heard, Airs, Tells, HasArq, Engaged
    <2>3. Coupled(st.tx, q.rx, n, h, 1) /\ q.rx \in RxType(Nat)
      BY <1>2, <2>1, <2>2 DEF Tied
    <2>4. st.sid \in 1 .. MaxConnects /\ h \in Nat /\ 1 \in 1 .. Ring
      <3>1. st.sid <= c /\ st.sid \in Nat /\ MaxConnects \in Nat
        BY <2>1, <2>2, LinkAssumption DEF Paired, Toward, Tally, Typed, HasArq
      <3>2. st.sid \in 1 .. MaxConnects
        BY <2>1, <3>1
      <3>3. QED
        BY <3>2, ArqBounds DEF Listed
    <2>5. f.num = h % SeqMod
      BY <2>2, <2>3 DEF Coupled, ReceiverCoupled
    <2>6. Coupled(tx, q.rx, n, h, 1)
      <3>1. SendBase(st.tx, n) <= h /\ SendBase(st.tx, n) \in Nat
        BY <2>1, <2>3, <2>4, CoupledCounters DEF Typed
      <3>2. SendBase(st.tx, n) - h < SeqMod - HalfSpace
        BY <3>1, <2>4, ArqBounds
      <3> DEFINE none == {}
      <3>3. none \in SUBSET (0 .. SackRange - 1) /\ \A bit \in none : ReceivedAt(q.rx, h, h + (bit + 1))
        OBVIOUS
      <3> HIDE DEF none
      <3>4. h \in Int /\ h <= h /\ st.tx \in TxType(Nat)
        BY <2>1, <2>4 DEF Typed
      <3>5. Coupled(ProcessAck(st.tx, h % SeqMod, none), q.rx, n, h, 1)
        BY <2>1, <2>3, <2>4, <3>2, <3>3, <3>4, CoupledAck
      <3>6. QED
        BY <2>5, <3>5 DEF none
    <2>7. tx \in TxType(Nat)
      <3>1. f.num \in SeqNum /\ {} \in SUBSET Nat
        BY <2>2, <2>3 DEF RxType
      <3>2. QED
        BY <2>1, <3>1, ProcessAckType DEF Typed
    <2>8. InFlight(tx) \in Nat
      BY <2>7, InFlightType DEF SeqNum
    <2> HIDE DEF tx
    <2>9. /\ DOMAIN e = LinkFields /\ e.rx = st.rx /\ e.queue = Q /\ e.tx = tx
          /\ e.phase = st.phase /\ e.sid = st.sid /\ e.submitted = st.submitted
          /\ e.backlog = st.backlog /\ e.air = NoFrame /\ e.closing = st.closing
      BY <2>1 DEF Typed, LinkFields
    <2> HIDE DEF e, Q
    <2>10. Sent(e) = n /\ HasArq(e)
      BY <1>2, <2>9 DEF Sent, HasArq
    <2>11. AllWait(e.queue, e)
      <3>1. CASE InFlight(tx) = 0
        <4>1. \A g : Waits(g, st) /\ g.type # "Data" => Waits(g, e)
          BY <2>9, <2>10 DEF Waits, Tells, HasArq
        <4>2. QED
          BY <3>1, <4>1, <2>1, <2>9, WithoutWaits DEF Q
      <3>2. CASE InFlight(tx) > 0
        BY <3>2, <2>1, <2>9, <2>10, TellsSame DEF Q
      <3>3. QED
        BY <3>1, <3>2, <2>8
    <2>12. Shape(e)
      BY <2>1, <2>7, <2>9, <2>10, <2>11, NoneTell DEF Shape, Typed, HasArq
    <2>13. Tied(e, q, hq)
      BY <2>3, <2>6, <2>9, <2>10 DEF Tied
    <2>14. st.phase # "Accepting"
      BY <1>2 DEF HasArq
    <2>15. QED
      BY <1>2, <2>9, <2>10, <2>12, <2>13, <2>14, Steady
  <1>3. QED
    BY <1>1, <1>2

\* Handlers of received frames key nothing.
LEMMA StaysQuiet ==
    ASSUME NEW st, DOMAIN st = LinkFields, st.air = NoFrame, NEW f
    PROVE  Receive(st, f).air = NoFrame
  <1>1. ResetSessionState(st).air = NoFrame /\ DOMAIN ResetSessionState(st) = LinkFields
    BY DEF ResetSessionState, LinkFields
  <1>2. \A reason : EndSession(st, reason, FALSE).air = NoFrame
    BY <1>1 DEF EndSession, LinkFields
  <1>3. /\ OnConnectReq(st).air = NoFrame /\ DOMAIN OnConnectReq(st) = LinkFields
    BY <1>1 DEF OnConnectReq, Enqueue, LinkFields
  <1>4. OnConnectAck(st).air = NoFrame /\ DOMAIN OnConnectAck(st) = LinkFields
    BY DEF OnConnectAck, Established, LinkFields
  <1>5. OnConnectCfm(st).air = NoFrame /\ DOMAIN OnConnectCfm(st) = LinkFields
    BY DEF OnConnectCfm, Established, LinkFields
  <1>6. OnData(st, f).air = NoFrame /\ DOMAIN OnData(st, f) = LinkFields
    BY DEF OnData, LinkFields
  <1>7. OnAck(st, f).air = NoFrame /\ DOMAIN OnAck(st, f) = LinkFields
    BY DEF OnAck, LinkFields
  <1>8. \A x : x.air = NoFrame /\ DOMAIN x = LinkFields => Touch(x).air = NoFrame
    BY DEF Touch, LinkFields
  <1>9. \/ Receive(st, f) = st
        \/ Receive(st, f) = EndSession(st, "Remote", FALSE)
        \/ \E x \in {OnConnectReq(st), OnConnectAck(st), OnConnectCfm(st), OnData(st, f), OnAck(st, f), st} :
              Receive(st, f) = Touch(x)
    BY DEF Receive, HandlePdu
  <1>10. QED
    BY <1>2, <1>3, <1>4, <1>5, <1>6, <1>7, <1>8, <1>9

\* A frame from the peer, in any phase, and what it makes the link hand up.
LEMMA Hears ==
    ASSUME NEW st, NEW q, NEW hq, NEW hs, NEW c \in Nat, Paired(st, q, hq, hs, c), c <= MaxConnects,
           Listed(hq), Listed(hs), st.air = NoFrame, NEW f, Heard(f, q)
    PROVE  LET up  == HandedUp(st, f)
               hs2 == IF up = << >> THEN hs ELSE After(hs, f.sid, up)
           IN Paired(Receive(st, f), q, hq, hs2, c) /\ Listed(hs2)
  <1> DEFINE up  == HandedUp(st, f)
             hs2 == IF up = << >> THEN hs ELSE After(hs, f.sid, up)
  <1>1. ASSUME NEW x, NEW h, Paired(x, q, hq, h, c) PROVE Paired(Touch(x), q, hq, h, c)
    <2>1. DOMAIN x = LinkFields /\ AllWait(x.queue, x)
      BY <1>1 DEF Paired, Shape, Typed
    <2> DEFINE y == Touch(x)
    <2>2. /\ DOMAIN y = LinkFields /\ y.tx = x.tx /\ y.queue = x.queue
          /\ y.phase = x.phase /\ y.sid = x.sid /\ y.rx = x.rx /\ y.submitted = x.submitted
          /\ y.backlog = x.backlog /\ y.air = x.air /\ y.closing = x.closing
      BY <2>1 DEF Touch, LinkFields
    <2> HIDE DEF y
    <2>3. Paired(y, q, hq, h, c)
      BY <1>1, <2>1, <2>2, Requeued
    <2>4. QED
      BY <2>3 DEF y
  <1>2. CASE f.type = "Data" /\ HasArq(st)
    <2>1. Paired(OnData(st, f), q, hq, After(hs, f.sid, up), c) /\ Listed(After(hs, f.sid, up))
      BY <1>2, HearsData
    <2>2. After(hs, f.sid, << >>) = hs
      <3>1. hs \in [1 .. MaxConnects -> Seq(Nat)]
        BY DEF Listed
      <3>2. f.sid \in 1 .. MaxConnects => hs[f.sid] \o << >> = hs[f.sid]
        BY <3>1
      <3>3. QED
        BY <3>1, <3>2 DEF After
    <2>3. Receive(st, f) = Touch(OnData(st, f))
      BY <1>2 DEF Receive, HandlePdu, NoFrame
    <2> HIDE DEF up
    <2>4. hs2 = After(hs, f.sid, up)
      BY <2>2
    <2>5. QED
      BY <1>1, <2>1, <2>3, <2>4 DEF up
  <1>3. CASE ~(f.type = "Data" /\ HasArq(st))
    <2>1. hs2 = hs
      BY <1>3 DEF HandedUp
    <2>2. Paired(EndSession(st, "Remote", FALSE), q, hq, hs, c)
      BY Ends
    <2>3. \/ Receive(st, f) = st
          \/ Receive(st, f) = EndSession(st, "Remote", FALSE)
          \/ f.type = "Req" /\ Receive(st, f) = Touch(OnConnectReq(st))
          \/ f.type = "ConnectAck" /\ Receive(st, f) = Touch(OnConnectAck(st))
          \/ f.type = "Cfm" /\ Receive(st, f) = Touch(OnConnectCfm(st))
          \/ f.type = "Ack" /\ Receive(st, f) = Touch(OnAck(st, f))
          \/ Receive(st, f) = Touch(st)
      BY <1>3 DEF Receive, HandlePdu, OnData
    <2>4. f.type = "Req" => Paired(OnConnectReq(st), q, hq, hs, c)
      BY HearsReq
    <2>5. f.type = "ConnectAck" => Paired(OnConnectAck(st), q, hq, hs, c)
      BY HearsConnectAck
    <2>6. f.type = "Cfm" => Paired(OnConnectCfm(st), q, hq, hs, c)
      BY HearsCfm
    <2>7. f.type = "Ack" => Paired(OnAck(st, f), q, hq, hs, c)
      BY HearsAck
    <2>8. Paired(Receive(st, f), q, hq, hs, c)
      BY <1>1, <2>2, <2>3, <2>4, <2>5, <2>6, <2>7
    <2>9. QED
      BY <2>1, <2>8
  <1>4. QED
    BY <1>2, <1>3

\* A whole call of process().
LEMMA Processes ==
    ASSUME NEW st, NEW q, NEW hq, NEW hs, NEW c \in Nat, Paired(st, q, hq, hs, c), c <= MaxConnects,
           Listed(hq), Listed(hs), st.air = NoFrame, NEW f, Heard(f, q), NEW due, NEW hold
    PROVE  LET up  == HandedUp(st, f)
               hs2 == IF up = << >> THEN hs ELSE After(hs, f.sid, up)
           IN Paired(Process(st, f, due, hold), q, hq, hs2, c) /\ Listed(hs2)
  <1> DEFINE up  == HandedUp(st, f)
             hs2 == IF up = << >> THEN hs ELSE After(hs, f.sid, up)
             x == Receive(st, f)
             y == RunTimers(x, due)
  <1>1. Paired(x, q, hq, hs2, c) /\ Listed(hs2)
    BY Hears
  <1>2. x.air = NoFrame
    BY StaysQuiet DEF Paired, Shape, Typed
  <1> HIDE DEF x, hs2
  <1>3. ASSUME NEW z, Paired(z, q, hq, hs2, c) PROVE z.sid <= MaxConnects
    <2>1. z.sid \in Nat /\ z.sid <= c /\ MaxConnects \in Nat
      BY <1>3, LinkAssumption DEF Paired, Shape, Typed, Toward, Tally
    <2>2. QED
      BY <2>1
  <1>4. Paired(y, q, hq, hs2, c) /\ y.air = NoFrame
    BY <1>1, <1>2, <1>3, Timed
  <1> HIDE DEF y
  <1>5. Paired(KeyUp(y, hold), q, hq, hs2, c)
    BY <1>1, <1>3, <1>4, KeysUp
  <1>6. QED
    BY <1>1, <1>5 DEF Process, x, y, hs2

-----------------------------------------------------------------------------
(* The invariant. *)

\* Each of the two stations is the other's other.
LEMMA TwoLinks ==
    ASSUME NEW s \in Stations
    PROVE  /\ Other(s) \in Stations /\ Other(s) # s /\ Other(Other(s)) = s
           /\ \A t \in Stations : t = s \/ t = Other(s)
  <1>1. \A t \in Stations : \E p : Stations \ {t} = {p}
    <2>1. ASSUME NEW t \in Stations PROVE \E p : Stations \ {t} = {p}
      <3>1. IsFiniteSet(Stations \ {t}) /\ Cardinality(Stations \ {t}) = 1
        BY FS_RemoveElement, LinkAssumption
      <3>2. QED
        BY <3>1, FS_Singleton
    <2>2. QED
      BY <2>1
  <1>2. ASSUME NEW t \in Stations PROVE Other(t) \in Stations /\ Other(t) # t
    <2>1. \E p \in Stations : p # t
      BY <1>1
    <2>2. QED
      BY <2>1 DEF Other
  <1>3. QED
    BY <1>1, <1>2

\* Two new links.
LEMMA SafeInit == Init => LinkSafe
  <1> DEFINE none == [n \in 1 .. MaxConnects |-> << >>]
  <1>1. /\ DOMAIN LinkNew = LinkFields /\ LinkNew.phase = "Idle" /\ LinkNew.sid = 0
        /\ LinkNew.tx = ArqTxNew /\ LinkNew.rx = ArqRxNew /\ LinkNew.submitted = 0
        /\ LinkNew.backlog = 0 /\ LinkNew.queue = << >> /\ LinkNew.air = NoFrame
    BY DEF LinkNew, LinkFields
  <1>2. Shape(LinkNew)
    BY <1>1, NewPair, NoneTell DEF Shape, Typed, Phases, HasArq
  <1>3. Toward(LinkNew, LinkNew, none, 0)
    BY <1>1 DEF Toward, Tied, Meets, Tally, Unused, Drained, HasArq
  <1>4. Paired(LinkNew, LinkNew, none, none, 0)
    BY <1>2, <1>3 DEF Paired
  <1>5. Listed(none)
    BY DEF Listed
  <1>6. 0 \in 0 .. MaxConnects
    BY LinkAssumption
  <1> HIDE DEF none
  <1>7. ASSUME Init PROVE LinkSafe
    <2>1. /\ DOMAIN station = Stations /\ DOMAIN handed = Stations /\ connects = 0
          /\ \A s \in Stations : station[s] = LinkNew /\ handed[s] = none
      BY <1>7 DEF Init, none
    <2>2. QED
      BY <1>4, <1>5, <1>6, <2>1, TwoLinks DEF LinkSafe
  <1>8. QED
    BY <1>7

\* What happens at one station while the other waits.
LEMMA UpdateSafe ==
    ASSUME LinkSafe, NEW s \in Stations, NEW st, station' = [station EXCEPT ![s] = st],
           handed' = handed, connects' \in 0 .. MaxConnects,
           Paired(st, station[Other(s)], handed[Other(s)], handed[s], connects')
    PROVE  LinkSafe'
  <1> DEFINE p == Other(s)
  <1>1. p \in Stations /\ p # s /\ Other(p) = s /\ \A t \in Stations : t = s \/ t = p
    BY TwoLinks
  <1>2. /\ DOMAIN station' = Stations /\ station'[s] = st /\ station'[p] = station[p]
        /\ DOMAIN handed = Stations /\ \A t \in Stations : Listed(handed[t])
    BY <1>1 DEF LinkSafe
  <1>3. Paired(station[p], st, handed[s], handed[p], connects')
    BY DEF Paired
  <1> HIDE DEF p
  <1>4. Other(s) = p
    BY DEF p
  <1>5. \A t \in Stations : Paired(station'[t], station'[Other(t)], handed[Other(t)], handed[t], connects')
    BY <1>1, <1>2, <1>3, <1>4
  <1>6. QED
    BY <1>2, <1>5 DEF LinkSafe

\* A frame that reaches the other station.
LEMMA DeliverSafe ==
    ASSUME LinkSafe, NEW s \in Stations, NEW due, Deliver(s, due)
    PROVE  LinkSafe'
  <1> DEFINE p == Other(s)
             f == station[s].air
             st == Played(station[s])
             q == Process(station[p], f, due, TRUE)
             up == HandedUp(station[p], f)
             hs2 == IF up = << >> THEN handed[p] ELSE After(handed[p], f.sid, up)
  <1>1. p \in Stations /\ p # s /\ Other(p) = s /\ \A t \in Stations : t = s \/ t = p
    BY TwoLinks
  <1>2. /\ DOMAIN station = Stations /\ DOMAIN handed = Stations
        /\ connects \in 0 .. MaxConnects /\ connects \in Nat /\ connects <= MaxConnects
        /\ Listed(handed[s]) /\ Listed(handed[p])
        /\ Paired(station[s], station[p], handed[p], handed[s], connects)
    BY <1>1, LinkAssumption DEF LinkSafe
  <1>3. /\ Paired(st, station[p], handed[p], handed[s], connects) /\ Heard(f, st)
    BY <1>2, PlaysOut DEF Heard
  <1>4. Paired(station[p], st, handed[s], handed[p], connects)
    BY <1>3 DEF Paired
  <1>5. station[p].air = NoFrame
    BY DEF Deliver, Transmitting
  <1> HIDE DEF st, f
  <1>6. Paired(q, st, handed[s], hs2, connects) /\ Listed(hs2)
    BY <1>2, <1>3, <1>4, <1>5, Processes
  <1>7. Paired(st, q, hs2, handed[s], connects)
    BY <1>6 DEF Paired
  <1>8. /\ station' = [station EXCEPT ![s] = st, ![p] = q] /\ connects' = connects
        /\ handed' = IF up = << >> THEN handed ELSE [handed EXCEPT ![p] = After(handed[p], f.sid, up)]
    <2>1. station' = [station EXCEPT ![s] = st, ![p] = q] /\ connects' = connects
      BY <1>1, <1>2 DEF Deliver, st, q, f
    <2>2. handed' = IF up = << >> THEN handed ELSE [handed EXCEPT ![p][f.sid] = @ \o up]
      BY DEF Deliver, f, up
    <2>3. [handed EXCEPT ![p][f.sid] = @ \o up] = [handed EXCEPT ![p] = After(handed[p], f.sid, up)]
      BY DEF After
    <2>4. QED
      BY <2>1, <2>2, <2>3
  <1> HIDE DEF q, up, p
  <1>9. /\ DOMAIN station' = Stations /\ station'[s] = st /\ station'[p] = q
        /\ DOMAIN handed' = Stations /\ handed'[p] = hs2 /\ handed'[s] = handed[s]
    BY <1>1, <1>2, <1>8
  <1> HIDE DEF hs2
  <1>10. Other(s) = p
    BY DEF p
  <1>11. \A t \in Stations : Listed(handed'[t])
    BY <1>1, <1>2, <1>6, <1>9
  <1>12. \A t \in Stations : Paired(station'[t], station'[Other(t)], handed'[Other(t)], handed'[t], connects)
    BY <1>1, <1>6, <1>7, <1>9, <1>10
  <1>13. QED
    BY <1>2, <1>8, <1>9, <1>11, <1>12 DEF LinkSafe

\* Every step keeps the pair in step.
LEMMA SafeStep == LinkSafe /\ [Next]_vars => LinkSafe'
  <1> SUFFICES ASSUME LinkSafe, [Next]_vars PROVE LinkSafe'
    OBVIOUS
  <1>1. /\ DOMAIN station = Stations /\ connects \in 0 .. MaxConnects /\ connects \in Nat
        /\ connects <= MaxConnects /\ MaxConnects \in Nat
    BY LinkAssumption DEF LinkSafe
  <1>2. ASSUME NEW s \in Stations
        PROVE  /\ Paired(station[s], station[Other(s)], handed[Other(s)], handed[s], connects)
               /\ Listed(handed[s]) /\ Listed(handed[Other(s)]) /\ Shape(station[s]) /\ Typed(station[s])
               /\ DOMAIN station[s] = LinkFields
    BY TwoLinks DEF LinkSafe, Paired, Shape, Typed
  <1>3. ASSUME NEW s \in Listeners, NEW on \in BOOLEAN, SetListening(s, on) PROVE LinkSafe'
    <2> DEFINE st == station[s]
               e == [st EXCEPT !.listening = on]
    <2>1. s \in Stations
      BY LinkAssumption
    <2>2. /\ DOMAIN e = LinkFields /\ e.phase = st.phase /\ e.sid = st.sid /\ e.tx = st.tx
          /\ e.rx = st.rx /\ e.submitted = st.submitted /\ e.backlog = st.backlog
          /\ e.air = st.air /\ e.closing = st.closing /\ e.queue = st.queue
      BY <1>2, <2>1 DEF LinkFields
    <2>3. AllWait(st.queue, st)
      BY <1>2, <2>1 DEF Shape
    <2>4. station' = [station EXCEPT ![s] = e] /\ handed' = handed /\ connects' = connects
      BY <1>3 DEF SetListening, Update
    <2> HIDE DEF e
    <2>5. Paired(e, station[Other(s)], handed[Other(s)], handed[s], connects)
      BY <1>2, <2>1, <2>2, <2>3, Requeued
    <2>6. QED
      BY <1>1, <2>1, <2>4, <2>5, UpdateSafe
  <1>4. ASSUME NEW s \in Callers, Connect(s) PROVE LinkSafe'
    <2> DEFINE r == ResetSessionState(station[s])
               e == [Enqueue(r, Control(r, "Req")) EXCEPT !.phase = "Calling", !.idle = 0]
    <2>1. s \in Stations
      BY LinkAssumption
    <2>2. /\ station' = [station EXCEPT ![s] = e] /\ handed' = handed /\ connects' = connects + 1
          /\ station[s].phase = "Idle" /\ connects < MaxConnects
      BY <1>4 DEF Connect, Update
    <2>3. Paired(e, station[Other(s)], handed[Other(s)], handed[s], connects + 1)
      BY <1>1, <1>2, <2>1, <2>2, Connects
    <2> HIDE DEF e
    <2>4. connects' \in 0 .. MaxConnects
      BY <1>1, <2>2
    <2>5. QED
      BY <2>1, <2>2, <2>3, <2>4, UpdateSafe
  <1>5. ASSUME NEW s \in Senders, Send(s) PROVE LinkSafe'
    <2> DEFINE st == station[s]
               e == [st EXCEPT !.submitted = @ + 1, !.backlog = @ + 1]
    <2>1. s \in Stations
      BY LinkAssumption
    <2>2. /\ station' = [station EXCEPT ![s] = e] /\ handed' = handed /\ connects' = connects
          /\ st.phase = "Connected"
      BY <1>5 DEF Send, Update
    <2>3. /\ DOMAIN e = LinkFields /\ e.phase = st.phase /\ e.sid = st.sid /\ e.tx = st.tx
          /\ e.rx = st.rx /\ e.submitted = st.submitted + 1 /\ e.backlog = st.backlog + 1
          /\ e.air = st.air /\ e.closing = st.closing /\ e.queue = st.queue
      BY <1>2, <2>1 DEF LinkFields
    <2> HIDE DEF e
    <2>4. Sent(e) = Sent(st) /\ HasArq(e) /\ HasArq(st)
      BY <1>2, <2>1, <2>2, <2>3 DEF Sent, Typed, HasArq
    <2>5. AllWait(e.queue, e) /\ Airs(e.air, e)
      BY <1>2, <2>1, <2>3, <2>4, TellsSame DEF Shape
    <2>6. Shape(e)
      BY <1>2, <2>1, <2>2, <2>3, <2>4, <2>5 DEF Shape, Typed
    <2>7. Tied(e, station[Other(s)], handed[Other(s)])
      BY <1>2, <2>1, <2>3, <2>4, TiedSame DEF Paired, Toward
    <2>8. Paired(e, station[Other(s)], handed[Other(s)], handed[s], connects)
      BY <1>2, <2>1, <2>2, <2>3, <2>4, <2>6, <2>7, Steady
    <2>9. QED
      BY <1>1, <2>1, <2>2, <2>8, UpdateSafe
  <1>6. ASSUME NEW s \in Stations, Disconnect(s) PROVE LinkSafe'
    <2> DEFINE st == station[s]
               d == [st EXCEPT !.phase = "Draining"]
               e == Touch(d)
    <2>1. handed' = handed /\ connects' = connects
      BY <1>6 DEF Disconnect
    <2>2. CASE /\ st.phase \in {"Calling", "Accepting"}
               /\ station' = [station EXCEPT ![s] = EndSession(st, "Local", FALSE)]
      <3>1. Paired(EndSession(st, "Local", FALSE), station[Other(s)], handed[Other(s)], handed[s], connects)
        BY <1>1, <1>2, <2>2, Ends
      <3>2. QED
        BY <1>1, <2>1, <2>2, <3>1, UpdateSafe
    <2>3. CASE st.phase = "Connected" /\ station' = [station EXCEPT ![s] = e]
      <3>1. /\ DOMAIN e = LinkFields /\ e.phase = "Draining" /\ e.sid = st.sid /\ e.tx = st.tx
            /\ e.rx = st.rx /\ e.submitted = st.submitted /\ e.backlog = st.backlog
            /\ e.air = st.air /\ e.closing = st.closing /\ e.queue = st.queue
        BY <1>2 DEF Touch, LinkFields
      <3> HIDE DEF e
      <3>2. Sent(e) = Sent(st) /\ HasArq(e) /\ HasArq(st)
        BY <2>3, <3>1 DEF Sent, HasArq
      <3>3. AllWait(st.queue, st) /\ Airs(st.air, st)
        BY <1>2 DEF Shape
      <3>4. \A g : (Waits(g, st) => Waits(g, e)) /\ (Airs(g, st) => Airs(g, e))
        BY <2>3, <3>1, <3>2 DEF Waits, Airs, Tells
      <3>5. AllWait(e.queue, e) /\ Airs(e.air, e)
        BY <3>1, <3>3, <3>4 DEF AllWait
      <3>6. Shape(e)
        BY <1>2, <3>1, <3>2, <3>5 DEF Shape, Typed, Phases
      <3>7. Tied(e, station[Other(s)], handed[Other(s)])
        BY <1>2, <3>1, <3>2, TiedSame DEF Paired, Toward
      <3>8. Paired(e, station[Other(s)], handed[Other(s)], handed[s], connects)
        BY <1>2, <2>3, <3>1, <3>2, <3>6, <3>7, Steady
      <3>9. QED
        BY <1>1, <2>1, <2>3, <3>8, UpdateSafe
    <2>4. QED
      BY <1>6, <2>2, <2>3 DEF Disconnect, Update
  <1>7. ASSUME NEW s \in Stations, NEW due \in SUBSET Timers, NEW hold \in BOOLEAN,
               Poll(s, due, hold)
        PROVE  LinkSafe'
    <2> DEFINE st == station[s]
               q == station[Other(s)]
               z == RunTimers(st, due)
               e == Process(st, NoFrame, due, hold)
    <2>1. /\ station' = [station EXCEPT ![s] = e] /\ handed' = handed /\ connects' = connects
          /\ st.air = NoFrame
      BY <1>7 DEF Poll, Update, Transmitting
    <2>2. e = KeyUp(z, hold)
      BY DEF Process, Receive
    <2>3. ASSUME NEW x, Paired(x, q, handed[Other(s)], handed[s], connects) PROVE x.sid <= MaxConnects
      <3>1. x.sid \in Nat /\ x.sid <= connects
        BY <1>1, <2>3 DEF Paired, Shape, Typed, Toward, Tally
      <3>2. QED
        BY <1>1, <3>1
    <2>4. Paired(z, q, handed[Other(s)], handed[s], connects) /\ z.air = NoFrame
      BY <1>1, <1>2, <2>1, <2>3, Timed
    <2> HIDE DEF z, e
    <2>5. Paired(e, q, handed[Other(s)], handed[s], connects)
      BY <1>1, <1>2, <2>2, <2>3, <2>4, KeysUp
    <2>6. QED
      BY <1>1, <2>1, <2>5, UpdateSafe
  <1>8. ASSUME NEW s \in Stations, NEW due \in SUBSET Timers, Deliver(s, due) PROVE LinkSafe'
    BY <1>8, DeliverSafe
  <1>9. ASSUME NEW s \in Stations, Lose(s) PROVE LinkSafe'
    <2>1. Paired(Played(station[s]), station[Other(s)], handed[Other(s)], handed[s], connects)
      BY <1>1, <1>2, PlaysOut
    <2>2. QED
      BY <1>1, <1>9, <2>1, UpdateSafe DEF Lose, Update
  <1>10. CASE Tick
    <2>1. /\ handed' = handed /\ connects' = connects /\ DOMAIN station' = Stations
          /\ \A s \in Stations : station'[s] \in {station[s], [station[s] EXCEPT !.idle = @ + 1]}
      BY <1>10 DEF Tick
    <2>2. ASSUME NEW x, NEW q, NEW hq, NEW hs, Paired(x, q, hq, hs, connects),
                 NEW e \in {x, [x EXCEPT !.idle = @ + 1]}
          PROVE  Paired(e, q, hq, hs, connects)
      <3>1. DOMAIN x = LinkFields /\ AllWait(x.queue, x)
        BY <2>2 DEF Paired, Shape, Typed
      <3>2. /\ DOMAIN e = LinkFields /\ e.phase = x.phase /\ e.sid = x.sid /\ e.tx = x.tx
            /\ e.rx = x.rx /\ e.submitted = x.submitted /\ e.backlog = x.backlog
            /\ e.air = x.air /\ e.closing = x.closing /\ e.queue = x.queue
        BY <3>1 DEF LinkFields
      <3>3. QED
        BY <2>2, <3>1, <3>2, Requeued
    <2>3. ASSUME NEW s \in Stations
          PROVE  Paired(station'[s], station'[Other(s)], handed[Other(s)], handed[s], connects)
      <3> DEFINE p == Other(s)
      <3>1. p \in Stations
        BY TwoLinks
      <3> HIDE DEF p
      <3>2. Paired(station[s], station[p], handed[p], handed[s], connects)
        BY <1>2 DEF p
      <3>3. Paired(station'[s], station[p], handed[p], handed[s], connects)
        BY <2>1, <2>2, <3>2
      <3>4. Paired(station[p], station'[s], handed[s], handed[p], connects)
        BY <3>3 DEF Paired
      <3>5. Paired(station'[p], station'[s], handed[s], handed[p], connects)
        BY <2>1, <2>2, <3>1, <3>4
      <3>6. Paired(station'[s], station'[p], handed[p], handed[s], connects)
        BY <3>5 DEF Paired
      <3>7. QED
        BY <3>6 DEF p
    <2>4. QED
      BY <1>1, <2>1, <2>3 DEF LinkSafe
  <1>11. CASE UNCHANGED vars
    BY <1>11 DEF vars, LinkSafe
  <1>12. QED
    BY <1>3, <1>4, <1>5, <1>6, <1>7, <1>8, <1>9, <1>10, <1>11 DEF Next

-----------------------------------------------------------------------------
(* The theorems it gives. *)

\* The pair invariant, for every sequence of calls, losses and timeouts.
THEOREM LinkStaysPaired == Spec => []LinkSafe
  BY SafeInit, SafeStep, PTL DEF Spec

\* ReliableInOrder: in every session, across losses, retries, reconnections and
\* half-open sessions, payloads are handed up in order and exactly once, and no
\* acknowledgement covers what the peer has not handed up (on_data, on_ack,
\* established, reset_session_state).
THEOREM LinkReliable == Spec => []ReliableInOrder
  <1>1. LinkSafe => ReliableInOrder
    <2> SUFFICES ASSUME LinkSafe
                 PROVE  /\ \A s \in Stations, n \in 1 .. MaxConnects :
                             \A i \in 1 .. Len(handed[s][n]) : handed[s][n][i] = i
                        /\ \A s \in Stations :
                             HasArq(station[s]) =>
                               station[s].submitted - station[s].backlog - InFlight(station[s].tx)
                                 <= Len(handed[Other(s)][station[s].sid])
      BY DEF ReliableInOrder
    <2>1. \A s \in Stations, n \in 1 .. MaxConnects :
            \A i \in 1 .. Len(handed[s][n]) : handed[s][n][i] = i
      BY DEF LinkSafe, Listed
    <2>2. ASSUME NEW s \in Stations, HasArq(station[s])
          PROVE  station[s].submitted - station[s].backlog - InFlight(station[s].tx)
                   <= Len(handed[Other(s)][station[s].sid])
      <3>1. Tied(station[s], station[Other(s)], handed[Other(s)])
        BY DEF LinkSafe, Paired, Toward
      <3>2. PICK r : Coupled(station[s].tx, r, Sent(station[s]), Len(handed[Other(s)][station[s].sid]), 1)
        BY <2>2, <3>1 DEF Tied
      <3>3. QED
        BY <3>2 DEF Coupled, SenderCoupled, SendBase, Sent
    <2>3. QED
      BY <2>1, <2>2
  <1>2. QED
    BY <1>1, LinkStaysPaired, PTL

\* DrainDeliversEverything: a link that closes after its drain has had every
\* payload of the session handed up by the peer (key_up, end_session).
THEOREM LinkDrains == Spec => []DrainDeliversEverything
  <1>1. LinkSafe => DrainDeliversEverything
    BY DEF LinkSafe, Paired, Toward, Drained, DrainDeliversEverything
  <1>2. QED
    BY <1>1, LinkStaysPaired, PTL

=============================================================================
