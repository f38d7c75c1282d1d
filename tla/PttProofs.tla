------------------------------ MODULE PttProofs ------------------------------
(***************************************************************************)
(* Four safety theorems about the release of the transmitter, for any       *)
(* number of transmissions, aborts and failed commands.                    *)
(***************************************************************************)
EXTENDS Ptt, TLAPS

\* What makes GuardianArmed inductive: between the report and the command of a
\* keying the guardian already knows, a release is reported only once the rig
\* has taken it, a guardian that runs is one the daemon still writes to, and it
\* acts only when the daemon is gone.
ArmedInv ==
    /\ guardian \in [alive : BOOLEAN, link : BOOLEAN, last : {"none", "K", "R"},
                     attempts : Nat, done : BOOLEAN]
    /\ guardian.alive => guardian.link
    /\ (pc = "keyDrive" /\ guardian.alive) => guardian.last = "K"
    /\ pc = "unkeyReport" => rig = "rx"
    /\ guardian.done => pc \in Gone
    /\ GuardianArmed

\* What makes StoppedMeansReleased inductive: the client's flag covers a keyed
\* rig, and its Drop gives up only after two failed commands.
DropInv ==
    /\ rig \in {"rx", "tx"} /\ faults \in Nat
    /\ rig = "tx" => mayBeKeyed = TRUE
    /\ pc = "dropRetry" => faults >= 1
    /\ (pc = "exited" /\ mayBeKeyed = TRUE) => faults >= 2

\* What makes KeyedBoundedIfObeyed inductive while the rig obeys: between the
\* command and its mark a rig that joins no interval was keyed just now; from the
\* mark to the release the interval's clock, which the backstop reads, is never
\* behind the rig's.
BoundInv ==
    /\ onAir \in Nat /\ keyedFor \in Nat \cup {NotKeyed} /\ faults \in Nat
    /\ isTransmitting \in BOOLEAN
    /\ pc \in Running \cup Exiting \cup Gone
    /\ (pc \in Running /\ faults = 0) =>
         /\ isTransmitting <=> keyedFor # NotKeyed
         /\ pc \in {"unkeyReport", "unkeyMark"} => rig = "rx"
         /\ rig = "tx" => onAir <= IF isTransmitting THEN keyedFor ELSE 0
         /\ (rig = "tx" /\ ~isTransmitting) => pc = "keyMark"
         /\ rig = "tx" => onAir <= MaxTx + Grace

\* A completion in the inbox is of a generation taken, and a successful one of a
\* generation that has been heard.
Reported(inb, unh, g) ==
    \A i \in DOMAIN inb :
        inb[i].type = "complete" =>
            /\ inb[i].gen \in 1 .. g
            /\ inb[i].ok => inb[i].gen \notin unh

\* What makes NoClippedAudio inductive: the transmissions not fully heard are the
\* newest ones, a completion that reports success is of one that was heard, and
\* from the choice to release to the next keying nothing is left to hear.
AudioInv ==
    /\ txGeneration \in Nat /\ faults \in Nat
    /\ inbox \in Seq(Event)
    /\ \E oldest \in 1 .. txGeneration + 1 : unheard = oldest .. txGeneration
    /\ tasks \subseteq [gen : 1 .. txGeneration, left : Int]
    /\ Reported(inbox, unheard, txGeneration)
    /\ pc \in {"unkeyDrive", "unkeyReport", "unkeyMark"} => unheard = {}
    /\ (pc \in {"keyMark", "preDelay"} /\ faults = 0) => rig = "tx"
    /\ NoClippedAudio

\* Every step that leaves the rig, the guardian and the client's flag alone and
\* does not enter a place the invariants speak of preserves them.
LEMMA QuietArmed ==
    ASSUME ArmedInv, UNCHANGED <<rig, guardian>>,
           pc' # "keyDrive" \/ pc' = pc, pc' # "unkeyReport" \/ pc' = pc,
           pc \in Gone => pc' \in Gone
    PROVE  ArmedInv'
  BY DEF ArmedInv, GuardianArmed

\* The same for the invariant of the client's Drop.
LEMMA QuietDrop ==
    ASSUME DropInv, UNCHANGED <<rig, mayBeKeyed, faults>>,
           pc' # "dropRetry" \/ pc' = pc, pc' # "exited" \/ pc' = pc
    PROVE  DropInv'
  BY DEF DropInv

\* The guardian's argument: whatever step the daemon takes or is killed at, a
\* guardian that runs believes a keyed rig keyed.
LEMMA ArmedStep == ArmedInv /\ [Next]_vars => ArmedInv'
  <1> SUFFICES ASSUME ArmedInv, [Next]_vars PROVE ArmedInv'
      OBVIOUS
  <1> USE DEF Running, AwaitPoints, Exiting, Gone
  <1>1. CASE StartTransmit \/ UnkeyMark
        BY <1>1, QuietArmed DEF StartTransmit, UnkeyMark, Transmit
  <1>2. CASE KeyReport
        BY <1>2 DEF KeyReport, Report, ArmedInv, GuardianArmed
  <1>3. CASE KeyDrive
        BY <1>3 DEF KeyDrive, ArmedInv, GuardianArmed
  <1>4. CASE KeyMark \/ SubmitSamples
        BY <1>4, QuietArmed DEF KeyMark, SubmitSamples
  <1>5. CASE UnkeyDrive
        BY <1>5 DEF UnkeyDrive, DriveOk, DriveFails, Rig, ArmedInv, GuardianArmed
  <1>6. CASE UnkeyReport
        BY <1>6 DEF UnkeyReport, Report, ArmedInv, GuardianArmed
  <1>7. CASE Dispatch
        BY <1>7, QuietArmed DEF Dispatch, HandleTxComplete, HandleShutdown, HandleAbort,
                                ForceRelease, Release
  <1>8. CASE Backstop \/ WaitForClearChannel
        BY <1>8, QuietArmed DEF Backstop, WaitForClearChannel, ForceRelease, Release
  <1>9. CASE ForcedRelease
        BY <1>9 DEF ForcedRelease, DriveOk, DriveFails, Rig, Report, ArmedInv, GuardianArmed
  <1>10. CASE DropBackend
        BY <1>10 DEF DropBackend, DriveOk, DriveFails, Rig, ArmedInv, GuardianArmed
  <1>11. CASE Heard \/ HostAbort \/ StopSignal \/ ForceSignal \/ Panic \/ Kill \/ Tick
        BY <1>11, QuietArmed DEF Heard, HostAbort, StopSignal, ForceSignal, Panic, Kill, Tick
  <1>12. CASE \E t \in tasks : TaskEnds(t, TRUE) \/ TaskEnds(t, FALSE) \/ TaskDies(t)
        BY <1>12, QuietArmed DEF TaskEnds, TaskDies
  <1>13. CASE GuardianDies
        BY <1>13 DEF GuardianDies, ArmedInv, GuardianArmed
  <1>14. CASE GuardianReleases
    <2>1. pc \in Gone /\ pc' = pc /\ guardian.link /\ ~guardian.done
          BY <1>14 DEF GuardianReleases, ArmedInv
    <2>2. CASE guardian' = [guardian EXCEPT !.done = TRUE]
          BY <2>1, <2>2 DEF ArmedInv, GuardianArmed
    <2>3. CASE /\ guardian.last = "K"
               /\ guardian' = [guardian EXCEPT !.attempts = @ + 1,
                                               !.done = guardian.attempts + 1 = ReleaseAttempts]
      <3>1. guardian.attempts + 1 \in Nat
            BY DEF ArmedInv
      <3>2. (guardian.attempts + 1 = ReleaseAttempts) \in BOOLEAN
            OBVIOUS
      <3>3. guardian' \in [alive : BOOLEAN, link : BOOLEAN, last : {"none", "K", "R"},
                           attempts : Nat, done : BOOLEAN]
            BY <2>3, <3>1, <3>2 DEF ArmedInv
      <3>4. guardian'.last = "K" /\ guardian'.link
            BY <2>1, <2>3 DEF ArmedInv
      <3> QED
            BY <2>1, <3>3, <3>4 DEF ArmedInv, GuardianArmed
    <2> QED
          BY <1>14, <2>2, <2>3 DEF GuardianReleases
  <1>15. CASE UNCHANGED vars
        BY <1>15, QuietArmed DEF vars
  <1> QED
        BY <1>1, <1>2, <1>3, <1>4, <1>5, <1>6, <1>7, <1>8, <1>9, <1>10, <1>11, <1>12, <1>13,
           <1>14, <1>15 DEF Next, LoopStep

\* The client's argument: its flag is set before the rig is told to key and
\* cleared only by a release the rig took.
LEMMA DropStep == DropInv /\ [Next]_vars => DropInv'
  <1> SUFFICES ASSUME DropInv, [Next]_vars PROVE DropInv'
      OBVIOUS
  <1> USE DEF Running, AwaitPoints, Exiting, Gone
  <1>1. CASE StartTransmit \/ UnkeyMark
        BY <1>1, QuietDrop DEF StartTransmit, UnkeyMark, Transmit
  <1>2. CASE KeyReport \/ KeyMark \/ SubmitSamples \/ UnkeyReport
        BY <1>2, QuietDrop DEF KeyReport, KeyMark, SubmitSamples, UnkeyReport
  <1>3. CASE KeyDrive
        BY <1>3 DEF KeyDrive, DriveOk, DriveFails, Rig, DropInv
  <1>4. CASE UnkeyDrive
        BY <1>4 DEF UnkeyDrive, DriveOk, DriveFails, Rig, DropInv
  <1>5. CASE Dispatch
        BY <1>5, QuietDrop DEF Dispatch, HandleTxComplete, HandleShutdown, HandleAbort,
                               ForceRelease, Release
  <1>6. CASE Backstop \/ WaitForClearChannel
        BY <1>6, QuietDrop DEF Backstop, WaitForClearChannel, ForceRelease, Release
  <1>7. CASE ForcedRelease
        BY <1>7 DEF ForcedRelease, DriveOk, DriveFails, Rig, DropInv
  <1>8. CASE DropBackend
        BY <1>8 DEF DropBackend, DropReleases, DriveOk, DriveFails, Rig, DropInv
  <1>9. CASE Heard \/ HostAbort \/ StopSignal \/ ForceSignal \/ Panic \/ Kill \/ Tick
        BY <1>9, QuietDrop DEF Heard, HostAbort, StopSignal, ForceSignal, Panic, Kill, Tick
  <1>10. CASE \E t \in tasks : TaskEnds(t, TRUE) \/ TaskEnds(t, FALSE) \/ TaskDies(t)
        BY <1>10, QuietDrop DEF TaskEnds, TaskDies
  <1>11. CASE GuardianDies
        BY <1>11, QuietDrop DEF GuardianDies
  <1>12. CASE GuardianReleases
        BY <1>12 DEF GuardianReleases, DriveOk, DriveFails, Rig, DropInv
  <1>13. CASE UNCHANGED vars
        BY <1>13, QuietDrop DEF vars
  <1> QED
        BY <1>1, <1>2, <1>3, <1>4, <1>5, <1>6, <1>7, <1>8, <1>9, <1>10, <1>11, <1>12, <1>13
           DEF Next, LoopStep

\* Wherever the daemon dies, a guardian that still runs believes a keyed rig
\* keyed, and so releases it: set_ptt reports `K` before keying and `R` only after
\* a release that succeeded.
THEOREM Armed == Spec => []GuardianArmed
  <1>1. Init => ArmedInv
        BY DEF Init, ArmedInv, GuardianArmed
  <1>2. ArmedInv => GuardianArmed
        BY DEF ArmedInv
  <1> QED
        BY <1>1, <1>2, ArmedStep, PTL DEF Spec

\* A daemon that ended other than by a kill has released the rig, unless two
\* commands to the rig failed: RigctldClient::drop retries once.
THEOREM Stopped == Spec => []StoppedMeansReleased
  <1>1. Init => DropInv
        BY DEF Init, DropInv
  <1>2. DropInv => StoppedMeansReleased
        BY DEF DropInv, StoppedMeansReleased
  <1> QED
        BY <1>1, <1>2, DropStep, PTL DEF Spec

-----------------------------------------------------------------------------
(* Sequences. *)

\* What the inbox holds after an event was taken, and after one was added.
LEMMA InboxTail ==
    ASSUME NEW q \in Seq(Event), q # << >>
    PROVE  /\ Tail(q) \in Seq(Event) /\ Head(q) \in Event
           /\ 1 \in DOMAIN q /\ Head(q) = q[1]
           /\ \A i \in DOMAIN Tail(q) : i + 1 \in DOMAIN q /\ Tail(q)[i] = q[i + 1]
  OBVIOUS

\* The same after an event was added.
LEMMA InboxAppend ==
    ASSUME NEW q \in Seq(Event), NEW e \in Event
    PROVE  /\ Append(q, e) \in Seq(Event)
           /\ \A i \in DOMAIN Append(q, e) :
                \/ i \in DOMAIN q /\ Append(q, e)[i] = q[i]
                \/ Append(q, e)[i] = e
  OBVIOUS

-----------------------------------------------------------------------------
(* How long the rig stays keyed. *)

\* Steps that leave the rig, its clock and the bookkeeping alone.
LEMMA QuietBound ==
    ASSUME BoundInv, UNCHANGED <<rig, onAir, isTransmitting, keyedFor>>,
           faults' \in Nat, faults' = 0 => faults = 0,
           pc' \in Running \cup Exiting \cup Gone,
           pc' \in Running => pc \in Running,
           pc' \in {"unkeyReport", "unkeyMark"} => pc \in {"unkeyReport", "unkeyMark"},
           pc' # "keyMark" => pc # "keyMark" \/ pc' \notin Running
    PROVE  BoundInv'
  BY DEF BoundInv

\* The bound's argument: the rig is keyed no longer than the interval, and time
\* does not pass over an overdue interval.
LEMMA BoundStep == BoundInv /\ [Next]_vars => BoundInv'
  <1> SUFFICES ASSUME BoundInv, [Next]_vars PROVE BoundInv'
      OBVIOUS
  <1> USE PttAssumption DEF Running, AwaitPoints, Exiting, Gone
  <1>1. CASE StartTransmit
        BY <1>1, QuietBound DEF StartTransmit, Transmit, BoundInv
  <1>2. CASE KeyReport
        BY <1>2, QuietBound DEF KeyReport, BoundInv
  <1>3. CASE KeyDrive
        BY <1>3 DEF KeyDrive, DriveOk, DriveFails, Rig, BoundInv
  <1>4. CASE KeyMark
        BY <1>4 DEF KeyMark, KeyedSince, BoundInv, NotKeyed
  <1>5. CASE SubmitSamples
        BY <1>5, QuietBound DEF SubmitSamples, BoundInv
  <1>6. CASE UnkeyDrive
        BY <1>6 DEF UnkeyDrive, DriveOk, DriveFails, Rig, BoundInv
  <1>7. CASE UnkeyReport
        BY <1>7, QuietBound DEF UnkeyReport, BoundInv
  <1>8. CASE UnkeyMark
        BY <1>8 DEF UnkeyMark, Transmit, BoundInv, NotKeyed
  <1>9. CASE Dispatch \/ Backstop \/ WaitForClearChannel
        BY <1>9, QuietBound DEF Dispatch, HandleTxComplete, HandleShutdown, HandleAbort,
              Backstop, WaitForClearChannel, ForceRelease, Release, BoundInv
  <1>10. CASE ForcedRelease
    <2>1. onAir' \in Nat /\ keyedFor' = keyedFor /\ faults' \in Nat /\ pc' = "drop"
          BY <1>10 DEF ForcedRelease, DriveOk, DriveFails, Rig, BoundInv
    <2>2. isTransmitting' \in BOOLEAN
          BY <1>10 DEF ForcedRelease
    <2> QED
          BY <2>1, <2>2 DEF BoundInv
  <1>11. CASE DropBackend
        BY <1>11 DEF DropBackend, DriveOk, DriveFails, Rig, BoundInv
  <1>12. CASE Heard \/ HostAbort \/ StopSignal \/ ForceSignal \/ Panic \/ Kill \/ GuardianDies
        BY <1>12, QuietBound DEF Heard, HostAbort, StopSignal, ForceSignal, Panic, Kill,
                                 GuardianDies, BoundInv
  <1>13. CASE \E t \in tasks : TaskEnds(t, TRUE) \/ TaskEnds(t, FALSE) \/ TaskDies(t)
        BY <1>13, QuietBound DEF TaskEnds, TaskDies, BoundInv
  <1>14. CASE GuardianReleases
        BY <1>14 DEF GuardianReleases, DriveOk, DriveFails, Rig, BoundInv
  <1>15. CASE Tick
        BY <1>15 DEF Tick, Due, Overdue, BoundInv, NotKeyed
  <1>16. CASE UNCHANGED vars
        BY <1>16, QuietBound DEF vars, BoundInv
  <1> QED
        BY <1>1, <1>2, <1>3, <1>4, <1>5, <1>6, <1>7, <1>8, <1>9, <1>10, <1>11, <1>12, <1>13,
           <1>14, <1>15, <1>16 DEF Next, LoopStep

\* BoundInv holds initially and every step keeps it.
LEMMA BoundAlways == Spec => []BoundInv
  <1>1. ASSUME Init PROVE BoundInv
    <2>1. isTransmitting = FALSE /\ rig = "rx" /\ keyedFor = NotKeyed /\ pc = "idle"
          BY <1>1 DEF Init
    <2>2. onAir \in Nat /\ faults \in Nat
          BY <1>1 DEF Init
    <2> QED
          BY <2>1, <2>2 DEF BoundInv, Running, AwaitPoints
  <1> QED
        BY <1>1, BoundStep, PTL DEF Spec

\* While the rig obeys, the transmitter is never keyed for longer than
\* max_tx_duration_s and the grace, however many transmissions join the interval
\* and whichever of their completion tasks die.
THEOREM Bounded == Spec => []KeyedBoundedIfObeyed
  <1>1. BoundInv => KeyedBoundedIfObeyed
        BY DEF BoundInv, KeyedBoundedIfObeyed, KeyedBounded
  <1> QED
        BY <1>1, BoundAlways, PTL

-----------------------------------------------------------------------------
(* What is heard with the rig keyed. *)

\* Steps that queue no samples, choose no release and leave the rig alone.
LEMMA QuietAudio ==
    ASSUME AudioInv, UNCHANGED <<rig, txGeneration, unheard>>,
           faults' \in Nat, faults' = 0 => faults = 0,
           inbox' \in Seq(Event), tasks' \subseteq tasks \/ tasks' = {[t EXCEPT !.left = @ - 1] : t \in tasks},
           Reported(inbox, unheard, txGeneration) => Reported(inbox', unheard', txGeneration'),
           pc' \in Running => pc \in Running,
           pc' \in {"unkeyDrive", "unkeyReport", "unkeyMark"} =>
               pc \in {"unkeyDrive", "unkeyReport", "unkeyMark"},
           pc' \in {"keyMark", "preDelay"} => pc \in {"keyMark", "preDelay"}
    PROVE  AudioInv'
  <1>1. tasks' \subseteq [gen : 1 .. txGeneration', left : Int]
        BY DEF AudioInv
  <1>2. Reported(inbox', unheard', txGeneration')
        BY DEF AudioInv
  <1> QED
        BY <1>1, <1>2 DEF AudioInv, NoClippedAudio

\* Steps that cancel what is not yet heard and lead to a release.
LEMMA CancelAudio ==
    ASSUME AudioInv, pc' = "unkeyDrive", unheard' = {},
           txGeneration' = txGeneration \/ txGeneration' = txGeneration + 1,
           UNCHANGED <<rig, faults, tasks>>,
           inbox' \in Seq(Event),
           Reported(inbox, unheard, txGeneration) => Reported(inbox', unheard, txGeneration)
    PROVE  AudioInv'
  <1>1. /\ txGeneration' \in Nat /\ txGeneration <= txGeneration'
        /\ txGeneration' + 1 \in 1 .. txGeneration' + 1
        /\ unheard' = (txGeneration' + 1) .. txGeneration'
        BY DEF AudioInv
  <1>2. Reported(inbox', unheard', txGeneration')
        BY <1>1 DEF AudioInv, Reported
  <1>3. tasks' \subseteq [gen : 1 .. txGeneration', left : Int]
        BY <1>1 DEF AudioInv
  <1>4. \E oldest \in 1 .. txGeneration' + 1 : unheard' = oldest .. txGeneration'
        BY <1>1
  <1> QED
        BY <1>1, <1>2, <1>3, <1>4 DEF AudioInv, NoClippedAudio

\* The audio's argument, action by action.
LEMMA AudioStep == BoundInv /\ AudioInv /\ [Next]_vars => AudioInv'
  <1> SUFFICES ASSUME BoundInv, AudioInv, [Next]_vars PROVE AudioInv'
      OBVIOUS
  <1> USE DEF Running, AwaitPoints, Exiting, Gone
  <1>a. /\ inbox \in Seq(Event) /\ txGeneration \in Nat /\ faults \in Nat
        /\ Reported(inbox, unheard, txGeneration)
        /\ tasks \subseteq [gen : 1 .. txGeneration, left : Int]
        BY DEF AudioInv
  <1>1. CASE StartTransmit
        BY <1>1, <1>a, QuietAudio DEF StartTransmit, Transmit
  <1>2. CASE KeyReport
        BY <1>2, <1>a, QuietAudio DEF KeyReport
  <1>3. CASE KeyDrive
        BY <1>3 DEF KeyDrive, DriveOk, DriveFails, Rig, AudioInv, NoClippedAudio
  <1>4. CASE KeyMark
        BY <1>4, <1>a, QuietAudio DEF KeyMark
  <1>5. CASE SubmitSamples
    <2> DEFINE g == txGeneration + 1
    <2>1. /\ pc = "preDelay" /\ pc' = "idle" /\ txGeneration' = g /\ unheard' = unheard \cup {g}
          /\ UNCHANGED <<rig, inbox, faults>>
          BY <1>5 DEF SubmitSamples
    <2>2. PICK oldest \in 1 .. txGeneration + 1 : unheard = oldest .. txGeneration
          BY DEF AudioInv
    <2>3. unheard' = oldest .. g /\ oldest \in 1 .. g + 1
          BY <1>a, <2>1, <2>2
    <2>4. Reported(inbox', unheard', txGeneration')
          BY <1>a, <2>1 DEF Reported
    <2>5. tasks' \subseteq [gen : 1 .. txGeneration', left : Int]
          <3>1. PICK left \in Nat : tasks' = tasks \cup {[gen |-> g, left |-> left]}
                <4>1. tasks' = tasks \cup {[gen |-> g, left |-> IF keyedFor < MaxTx THEN MaxTx - keyedFor ELSE 0]}
                      BY <1>5 DEF SubmitSamples
                <4>2. (IF keyedFor < MaxTx THEN MaxTx - keyedFor ELSE 0) \in Nat
                      BY PttAssumption DEF BoundInv, NotKeyed
                <4> QED
                      BY <4>1, <4>2
          <3> QED
                BY <1>a, <2>1, <3>1
    <2>6. faults' = 0 => rig' = "tx"
          BY <2>1 DEF AudioInv
    <2> QED
          BY <1>a, <2>1, <2>3, <2>4, <2>5, <2>6 DEF AudioInv, NoClippedAudio
  <1>6. CASE UnkeyDrive
        BY <1>6 DEF UnkeyDrive, DriveOk, DriveFails, Rig, AudioInv, NoClippedAudio
  <1>7. CASE UnkeyReport
        BY <1>7, <1>a, QuietAudio DEF UnkeyReport
  <1>8. CASE UnkeyMark
        BY <1>8, <1>a, QuietAudio DEF UnkeyMark, Transmit
  <1>9. CASE Dispatch
    <2>1. /\ inbox # << >> /\ inbox' = Tail(inbox) /\ pc = "idle"
          /\ UNCHANGED <<rig, faults, tasks>>
          BY <1>9 DEF Dispatch
    <2>2. /\ inbox' \in Seq(Event) /\ Head(inbox) \in Event
          /\ Reported(inbox', unheard, txGeneration)
          BY <1>a, <2>1, InboxTail DEF Reported
    <2>3. CASE UNCHANGED <<unheard, txGeneration>> /\ pc' \in {"idle", "drop"}
          BY <1>a, <2>1, <2>2, <2>3, QuietAudio
    <2>4. CASE pc' = "unkeyDrive" /\ unheard' = {} /\ txGeneration' \in {txGeneration, txGeneration + 1}
          BY <1>a, <2>1, <2>2, <2>4, CancelAudio
    <2>5. CASE Head(inbox).type = "complete" /\ HandleTxComplete(Head(inbox))
      <3>1. CASE ~IsCurrent(Head(inbox).gen)
            BY <2>1, <2>3, <2>5, <3>1 DEF HandleTxComplete
      <3>2. CASE IsCurrent(Head(inbox).gen) /\ ~Head(inbox).ok
            BY <2>4, <2>5, <3>2 DEF HandleTxComplete, Release
      <3>3. CASE IsCurrent(Head(inbox).gen) /\ Head(inbox).ok
        <4>1. Head(inbox).gen = txGeneration /\ txGeneration \notin unheard /\ txGeneration \in 1 .. txGeneration
              BY <1>a, <2>1, <2>5, <3>3, InboxTail DEF Reported, IsCurrent
        <4>2. unheard = {}
              BY <1>a, <4>1 DEF AudioInv
        <4> QED
              BY <2>4, <2>5, <3>3, <4>2 DEF HandleTxComplete, Release
      <3> QED
            BY <3>1, <3>2, <3>3
    <2>6. CASE HandleShutdown
          BY <2>1, <2>3, <2>4, <2>6 DEF HandleShutdown, ForceRelease, Release
    <2>7. CASE HandleAbort
          BY <2>1, <2>3, <2>4, <2>7 DEF HandleAbort, ForceRelease, Release
    <2> QED
          BY <1>9, <2>5, <2>6, <2>7 DEF Dispatch
  <1>10. CASE Backstop
        BY <1>10, <1>a, CancelAudio DEF Backstop, ForceRelease, Release
  <1>11. CASE WaitForClearChannel
    <2>1. pc = "waitClear" /\ UNCHANGED <<rig, inbox, faults, tasks>>
          BY <1>11 DEF WaitForClearChannel
    <2>2. CASE UNCHANGED <<unheard, txGeneration>> /\ pc' \in {"idle", "keyReport"}
          BY <1>a, <2>1, <2>2, QuietAudio
    <2>3. CASE ForceRelease("wait")
          BY <1>a, <2>1, <2>3, CancelAudio DEF ForceRelease, Release
    <2> QED
          BY <1>11, <2>2, <2>3 DEF WaitForClearChannel
  <1>12. CASE Heard
    <2>1. PICK oldest \in 1 .. txGeneration + 1 : unheard = oldest .. txGeneration
          BY DEF AudioInv
    <2>2. oldest \in unheard /\ \A h \in unheard : oldest <= h
          BY <1>12, <1>a, <2>1 DEF Heard
    <2>3. (CHOOSE g \in unheard : \A h \in unheard : g <= h) = oldest
          BY <1>a, <2>1, <2>2
    <2>4. unheard' = unheard \ {oldest}
          BY <1>12, <2>3 DEF Heard
    <2>5. unheard' = (oldest + 1) .. txGeneration /\ oldest + 1 \in 1 .. txGeneration + 1
          BY <1>a, <2>1, <2>2, <2>4
    <2>6. UNCHANGED <<pc, rig, txGeneration, inbox, tasks, faults>>
          BY <1>12 DEF Heard
    <2>7. Reported(inbox', unheard', txGeneration')
          BY <1>a, <2>4, <2>6 DEF Reported
    <2> QED
          BY <2>2, <2>4, <2>5, <2>6, <2>7 DEF AudioInv, NoClippedAudio
  <1>13. ASSUME NEW t \in tasks, NEW ok \in BOOLEAN, TaskEnds(t, ok) PROVE AudioInv'
    <2>1. Complete(t.gen, ok) \in Event /\ t.gen \in 1 .. txGeneration
          BY <1>a DEF Event, Complete
    <2>2. inbox' \in Seq(Event)
          BY <1>a, <1>13, <2>1, InboxAppend DEF TaskEnds
    <2>3. Reported(inbox', unheard', txGeneration')
          BY <1>a, <1>13, <2>1, InboxAppend DEF TaskEnds, Complete, Reported
    <2> QED
          BY <1>a, <1>13, <2>2, <2>3, QuietAudio DEF TaskEnds
  <1>14. CASE \E t \in tasks : TaskDies(t)
        BY <1>14, <1>a, QuietAudio DEF TaskDies
  <1>15. CASE HostAbort \/ StopSignal
    <2>1. PICK e \in {Abort, Shutdown} : inbox' = Append(inbox, e)
          BY <1>15 DEF HostAbort, StopSignal
    <2>2. e \in Event /\ e.type # "complete"
          BY DEF Event, Abort, Shutdown
    <2>3. inbox' \in Seq(Event) /\ Reported(inbox', unheard, txGeneration)
          BY <1>a, <2>1, <2>2, InboxAppend DEF Reported
    <2> QED
          BY <1>15, <1>a, <2>3, QuietAudio DEF HostAbort, StopSignal
  <1>16. CASE ForceSignal \/ Panic \/ Kill \/ GuardianDies
        BY <1>16, <1>a, QuietAudio DEF ForceSignal, Panic, Kill, GuardianDies
  <1>17. CASE ForcedRelease
        BY <1>17 DEF ForcedRelease, DriveOk, DriveFails, Rig, AudioInv, NoClippedAudio
  <1>18. CASE DropBackend
        BY <1>18 DEF DropBackend, DriveOk, DriveFails, Rig, AudioInv, NoClippedAudio
  <1>19. CASE GuardianReleases
        BY <1>19 DEF GuardianReleases, DriveOk, DriveFails, Rig, AudioInv, NoClippedAudio
  <1>20. CASE Tick
        BY <1>20, <1>a, QuietAudio DEF Tick
  <1>21. CASE UNCHANGED vars
        BY <1>21, <1>a, QuietAudio DEF vars
  <1> QED
        BY <1>1, <1>2, <1>3, <1>4, <1>5, <1>6, <1>7, <1>8, <1>9, <1>10, <1>11, <1>12, <1>13,
           <1>14, <1>15, <1>16, <1>17, <1>18, <1>19, <1>20, <1>21 DEF Next, LoopStep

\* While the rig obeys, no part of a transmission that was not cancelled is heard
\* with the transmitter released: only the newest transmission's completion, and
\* only once its last sample was heard, releases without cancelling.
THEOREM Unclipped == Spec => []NoClippedAudio
  <1>1. ASSUME Init PROVE AudioInv
    <2>1. /\ pc = "idle" /\ unheard = {} /\ inbox = << >> /\ tasks = {}
          /\ txGeneration = 0 /\ faults = 0
          BY <1>1 DEF Init
    <2>2. 1 \in 1 .. txGeneration + 1 /\ unheard = 1 .. txGeneration
          BY <2>1
    <2>3. inbox \in Seq(Event) /\ Reported(inbox, unheard, txGeneration)
          BY <2>1 DEF Reported
    <2> QED
          BY <2>1, <2>2, <2>3 DEF AudioInv, NoClippedAudio
  <1>2. AudioInv => NoClippedAudio
        BY DEF AudioInv
  <1> QED
        BY <1>1, <1>2, AudioStep, BoundAlways, PTL DEF Spec
=============================================================================
