-------------------------------- MODULE Ptt --------------------------------
(***************************************************************************)
(* Who keys and who releases the transmitter: the daemon's event loop      *)
(* (set_ptt, the generation-tagged TxComplete, the in-loop backstop, ABORT,*)
(* shutdown and forced exit), the completion task of each transmission, the*)
(* rigctld client's Drop, and the PTT guardian process that outlives the   *)
(* daemon (coppa-daemon/event_loop.rs, ptt_guardian.rs, coppa-radio/       *)
(* rigctld.rs).                                                            *)
(*                                                                         *)
(* The event loop is one task; pc says where it is.  set_ptt is split into *)
(* its report, its command to the rig and its bookkeeping, because the     *)
(* process can be killed between any two of them and a forced exit cancels *)
(* the loop at an await.  A command to the rig may fail, and one whose     *)
(* reply was lost may still have been carried out.  The playing of the     *)
(* samples (TxAudio) is reduced to which transmissions are not yet heard.  *)
(*                                                                         *)
(* Time is counted in ticks.  Handlers take none; it passes while the loop *)
(* waits, and not while something that is due has not run.                 *)
(***************************************************************************)
EXTENDS Integers, Sequences, FiniteSets

CONSTANTS
    MaxTx,           \* [radio] max_tx_duration_s, in ticks
    Grace,           \* PTT_BACKSTOP_GRACE, in ticks
    ReleaseAttempts, \* RELEASE_ATTEMPTS of the guardian, 5
    TasksMayDie,     \* whether a completion task may die before it reports
    GuardianMayDie,  \* whether the guardian process may be killed
    MaxJobs,         \* bound: transmissions
    MaxAborts,       \* bound: host ABORTs
    MaxFaults        \* bound: commands to the rig that fail

ASSUME PttAssumption ==
    /\ MaxTx \in Nat /\ Grace \in Nat /\ ReleaseAttempts \in Nat \ {0}
    /\ TasksMayDie \in BOOLEAN /\ GuardianMayDie \in BOOLEAN
    /\ MaxJobs \in Nat /\ MaxAborts \in Nat /\ MaxFaults \in Nat

VARIABLES
    pc, after,          \* where the event loop is, and where an unkey leads
    rig,                \* the transmitter
    isTransmitting,     \* EventLoop::is_transmitting
    keyedFor,           \* time since tx_keyed_since, NotKeyed when None
    txGeneration,       \* EventLoop::tx_generation
    mayBeKeyed,         \* RigctldClient::may_be_keyed
    inbox,              \* event_rx, behind deferred_events
    tasks,              \* completion tasks running: generation and time left
    unheard,            \* generations queued, not cancelled, not fully played
    guardian,           \* the guardian process and the daemon's pipe to it
    stopRequested,      \* a first stop signal has been received
    onAir,              \* history: time since the rig was keyed
    jobs, aborts, faults \* bound counters

vars == <<pc, after, rig, isTransmitting, keyedFor, txGeneration, mayBeKeyed, inbox, tasks,
          unheard, guardian, stopRequested, onAir, jobs, aborts, faults>>

NotKeyed == -1

\* Awaits at which a forced exit can cancel the loop.
AwaitPoints == {"idle", "waitClear", "keyMark", "preDelay", "unkeyMark"}
Running == AwaitPoints \cup {"keyReport", "keyDrive", "unkeyDrive", "unkeyReport"}
Exiting == {"forced", "drop", "dropRetry"}
Gone == {"exited", "killed"}

Complete(g, ok) == [type |-> "complete", gen |-> g, ok |-> ok]
Shutdown == [type |-> "shutdown"]
Abort == [type |-> "abort"]
Event == [type : {"complete"}, gen : Nat, ok : BOOLEAN] \cup {Shutdown, Abort}
Queued(e) == \E i \in DOMAIN inbox : inbox[i] = e

\* The shapes of the state; an interval that is_transmitting has a keying time.
TypeOK ==
    /\ pc \in Running \cup Exiting \cup Gone
    /\ after \in {"drain", "wait", "exit"}
    /\ rig \in {"rx", "tx"}
    /\ isTransmitting \in BOOLEAN
    /\ keyedFor \in Nat \cup {NotKeyed}
    /\ isTransmitting => keyedFor # NotKeyed
    /\ txGeneration \in Nat
    /\ mayBeKeyed \in BOOLEAN
    /\ inbox \in Seq(Event)
    /\ tasks \subseteq [gen : Nat, left : 0..MaxTx]
    /\ unheard \subseteq Nat
    /\ guardian \in [alive : BOOLEAN, link : BOOLEAN, last : {"none", "K", "R"},
                     attempts : Nat, done : BOOLEAN]
    /\ stopRequested \in BOOLEAN
    /\ onAir \in Nat
    /\ jobs \in Nat /\ aborts \in Nat /\ faults \in Nat

\* EventLoop::new has released PTT and the guardian has been spawned.
Init ==
    /\ pc = "idle" /\ after = "drain"
    /\ rig = "rx"
    /\ isTransmitting = FALSE /\ keyedFor = NotKeyed /\ txGeneration = 0
    /\ mayBeKeyed = FALSE
    /\ inbox = << >> /\ tasks = {} /\ unheard = {}
    /\ guardian = [alive |-> TRUE, link |-> TRUE, last |-> "none", attempts |-> 0, done |-> FALSE]
    /\ stopRequested = FALSE
    /\ onAir = 0
    /\ jobs = 0 /\ aborts = 0 /\ faults = 0

-----------------------------------------------------------------------------
(* Commands to the rig and reports to the guardian.                         *)

Rig(state) ==
    /\ rig' = state
    /\ onAir' = IF state = "tx" /\ rig = "tx" THEN onAir ELSE 0

\* A command that succeeds, and one that fails and may have taken effect.
DriveOk(state) == Rig(state) /\ UNCHANGED faults
DriveFails(state) ==
    /\ faults < MaxFaults /\ faults' = faults + 1
    /\ Rig(state) \/ Rig(rig)

\* PttGuardian::report: a write to a guardian that is gone closes the link.
Report(byte) ==
    guardian' = IF ~guardian.link THEN guardian
                ELSE IF guardian.alive THEN [guardian EXCEPT !.last = byte]
                ELSE [guardian EXCEPT !.link = FALSE]

-----------------------------------------------------------------------------
(* set_ptt(true), as transmit_samples_keyed calls it.                       *)

\* Where a transmission starts: behind a busy channel, or at once.
Transmit ==
    /\ jobs < MaxJobs /\ jobs' = jobs + 1
    /\ pc' \in {"waitClear", "keyReport"}

StartTransmit ==
    /\ pc = "idle" /\ inbox = << >>
    /\ Transmit
    /\ UNCHANGED <<after, rig, isTransmitting, keyedFor, txGeneration, mayBeKeyed, inbox, tasks,
                   unheard, guardian, stopRequested, onAir, aborts, faults>>

KeyReport ==
    /\ pc = "keyReport"
    /\ Report("K")
    /\ pc' = "keyDrive"
    /\ UNCHANGED <<after, rig, isTransmitting, keyedFor, txGeneration, mayBeKeyed, inbox, tasks,
                   unheard, stopRequested, onAir, jobs, aborts, faults>>

\* RigctldClient::set_ptt(Tx): may_be_keyed is set before `T 1` goes out.
KeyDrive ==
    /\ pc = "keyDrive"
    /\ mayBeKeyed' = TRUE
    /\ DriveOk("tx") \/ DriveFails("tx")
    /\ pc' = "keyMark"
    /\ UNCHANGED <<after, isTransmitting, keyedFor, txGeneration, inbox, tasks, unheard,
                   guardian, stopRequested, jobs, aborts>>

\* Faulty variant: a transmission that joins the interval restarts its clock.
KeyedSince_Restarts == 0

\* tx_keyed_since.get_or_insert_with(now).
KeyedSince == IF keyedFor = NotKeyed THEN 0 ELSE keyedFor

KeyMark ==
    /\ pc = "keyMark"
    /\ isTransmitting' = TRUE
    /\ keyedFor' = KeyedSince
    /\ pc' = "preDelay"
    /\ UNCHANGED <<after, rig, txGeneration, mayBeKeyed, inbox, tasks, unheard, guardian,
                   stopRequested, onAir, jobs, aborts, faults>>

\* After the PTT pre-delay: queue the samples, take a generation, spawn the
\* task that reports when they have played or the interval's time is up.
SubmitSamples ==
    LET g == txGeneration + 1
        left == IF keyedFor < MaxTx THEN MaxTx - keyedFor ELSE 0
    IN
    /\ pc = "preDelay"
    /\ txGeneration' = g
    /\ tasks' = tasks \cup {[gen |-> g, left |-> left]}
    /\ unheard' = unheard \cup {g}
    /\ pc' = "idle"
    /\ UNCHANGED <<after, rig, isTransmitting, keyedFor, mayBeKeyed, inbox, guardian,
                   stopRequested, onAir, jobs, aborts, faults>>

-----------------------------------------------------------------------------
(* set_ptt(false).                                                          *)

\* Faulty variant: a release is reported whether or not the rig took it.
UnkeyDrive_AlwaysReports ==
    /\ pc = "unkeyDrive"
    /\ \/ DriveOk("rx") /\ mayBeKeyed' = FALSE /\ pc' = "unkeyReport"
       \/ DriveFails("rx") /\ UNCHANGED mayBeKeyed /\ pc' = "unkeyReport"
    /\ UNCHANGED <<after, isTransmitting, keyedFor, txGeneration, inbox, tasks, unheard,
                   guardian, stopRequested, jobs, aborts>>

\* RigctldClient::set_ptt(Rx): only an accepted `T 0` clears may_be_keyed, and
\* only a release that succeeded is reported.
UnkeyDrive ==
    /\ pc = "unkeyDrive"
    /\ \/ DriveOk("rx") /\ mayBeKeyed' = FALSE /\ pc' = "unkeyReport"
       \/ DriveFails("rx") /\ UNCHANGED mayBeKeyed /\ pc' = "unkeyMark"
    /\ UNCHANGED <<after, isTransmitting, keyedFor, txGeneration, inbox, tasks, unheard,
                   guardian, stopRequested, jobs, aborts>>

UnkeyReport ==
    /\ pc = "unkeyReport"
    /\ Report("R")
    /\ pc' = "unkeyMark"
    /\ UNCHANGED <<after, rig, isTransmitting, keyedFor, txGeneration, mayBeKeyed, inbox, tasks,
                   unheard, stopRequested, onAir, jobs, aborts, faults>>

\* The bookkeeping, whether or not the rig obeyed; then the caller goes on:
\* drain the queues (which may transmit at once), keep waiting, or stop.
UnkeyMark ==
    /\ pc = "unkeyMark"
    /\ isTransmitting' = FALSE /\ keyedFor' = NotKeyed
    /\ \/ after = "drain" /\ Transmit
       \/ after = "drain" /\ pc' = "idle" /\ UNCHANGED jobs
       \/ after = "wait" /\ pc' = "waitClear" /\ UNCHANGED jobs
       \/ after = "exit" /\ pc' = "drop" /\ UNCHANGED jobs
    /\ UNCHANGED <<after, rig, txGeneration, mayBeKeyed, inbox, tasks, unheard, guardian,
                   stopRequested, onAir, aborts, faults>>

\* The start of a release: what it leads to, and whether the audio is cancelled.
Release(next, cancel) ==
    /\ pc' = "unkeyDrive" /\ after' = next
    /\ unheard' = IF cancel THEN {} ELSE unheard

\* force_release_ptt: a late TxComplete of the interval becomes stale.
ForceRelease(next) == txGeneration' = txGeneration + 1 /\ Release(next, TRUE)

-----------------------------------------------------------------------------
(* The event loop's events.                                                 *)

\* Faulty variant: any completion is taken for the newest.
IsCurrent_Any(g) == g <= txGeneration

\* handle_tx_complete ignores the completion of any but the newest job.
IsCurrent(g) == g = txGeneration

HandleTxComplete(e) ==
    /\ IF IsCurrent(e.gen) THEN Release("drain", ~e.ok) ELSE UNCHANGED <<pc, after, unheard>>
    /\ UNCHANGED txGeneration

\* dispatch_event's Shutdown arm, and the end of run().
HandleShutdown ==
    IF isTransmitting THEN ForceRelease("exit")
    ELSE pc' = "drop" /\ UNCHANGED <<after, unheard, txGeneration>>

\* abort_session of a live session.
HandleAbort ==
    IF isTransmitting THEN ForceRelease("drain")
    ELSE UNCHANGED <<pc, after, unheard, txGeneration>>

Dispatch ==
    /\ pc = "idle" /\ inbox # << >>
    /\ inbox' = Tail(inbox)
    /\ \/ Head(inbox).type = "complete" /\ HandleTxComplete(Head(inbox))
       \/ Head(inbox).type = "shutdown" /\ HandleShutdown
       \/ Head(inbox).type = "abort" /\ HandleAbort
    /\ UNCHANGED <<rig, isTransmitting, keyedFor, mayBeKeyed, tasks, guardian, stopRequested,
                   onAir, jobs, aborts, faults>>

\* Faulty variant: the backstop leaves the release to a task, if there is one.
Overdue_NoTask == isTransmitting /\ keyedFor >= MaxTx + Grace /\ tasks # {}

\* ptt_backstop_overdue.
Overdue == isTransmitting /\ keyedFor >= MaxTx + Grace

\* enforce_ptt_backstop, on the 500 ms tick.
Backstop ==
    /\ pc = "idle" /\ Overdue
    /\ ForceRelease("drain")
    /\ UNCHANGED <<rig, isTransmitting, keyedFor, mayBeKeyed, inbox, tasks, guardian,
                   stopRequested, onAir, jobs, aborts, faults>>

\* wait_for_clear_channel: an ABORT or a Shutdown that has arrived drops the
\* waiting frame; an overdue interval is released and the wait goes on; the
\* channel clears and the frame is keyed.
WaitForClearChannel ==
    /\ pc = "waitClear"
    /\ \/ /\ Queued(Shutdown) \/ Queued(Abort)
          /\ pc' = "idle" /\ UNCHANGED <<after, unheard, txGeneration>>
       \/ Overdue /\ ForceRelease("wait")
       \/ /\ ~Overdue /\ ~Queued(Shutdown) /\ ~Queued(Abort)
          /\ pc' = "keyReport" /\ UNCHANGED <<after, unheard, txGeneration>>
    /\ UNCHANGED <<rig, isTransmitting, keyedFor, mayBeKeyed, inbox, tasks, guardian,
                   stopRequested, onAir, jobs, aborts, faults>>

-----------------------------------------------------------------------------
(* The completion tasks, the host and the signals.                          *)

\* A job's last sample has been heard; playback is in submission order.
Heard ==
    /\ unheard # {}
    /\ unheard' = unheard \ {CHOOSE g \in unheard : \A h \in unheard : g <= h}
    /\ UNCHANGED <<pc, after, rig, isTransmitting, keyedFor, txGeneration, mayBeKeyed, inbox,
                   tasks, guardian, stopRequested, onAir, jobs, aborts, faults>>

\* The task of a job reports: played through, or cut short by the output's
\* failure, a stall, or the end of the interval's time.
TaskEnds(t, ok) ==
    /\ ok => t.gen \notin unheard
    /\ tasks' = tasks \ {t}
    /\ inbox' = Append(inbox, Complete(t.gen, ok))
    /\ UNCHANGED <<pc, after, rig, isTransmitting, keyedFor, txGeneration, mayBeKeyed, unheard,
                   guardian, stopRequested, onAir, jobs, aborts, faults>>

TaskDies(t) ==
    /\ TasksMayDie
    /\ tasks' = tasks \ {t}
    /\ UNCHANGED <<pc, after, rig, isTransmitting, keyedFor, txGeneration, mayBeKeyed, inbox,
                   unheard, guardian, stopRequested, onAir, jobs, aborts, faults>>

HostAbort ==
    /\ pc \in Running /\ aborts < MaxAborts /\ aborts' = aborts + 1
    /\ inbox' = Append(inbox, Abort)
    /\ UNCHANGED <<pc, after, rig, isTransmitting, keyedFor, txGeneration, mayBeKeyed, tasks,
                   unheard, guardian, stopRequested, onAir, jobs, faults>>

\* The first SIGINT or SIGTERM.
StopSignal ==
    /\ pc \in Running /\ ~stopRequested /\ stopRequested' = TRUE
    /\ inbox' = Append(inbox, Shutdown)
    /\ UNCHANGED <<pc, after, rig, isTransmitting, keyedFor, txGeneration, mayBeKeyed, tasks,
                   unheard, guardian, onAir, jobs, aborts, faults>>

\* A second one cancels run() at an await.
ForceSignal ==
    /\ stopRequested /\ pc \in AwaitPoints
    /\ pc' = "forced"
    /\ UNCHANGED <<after, rig, isTransmitting, keyedFor, txGeneration, mayBeKeyed, inbox, tasks,
                   unheard, guardian, stopRequested, onAir, jobs, aborts, faults>>

-----------------------------------------------------------------------------
(* The ways out of the process, and the guardian.                           *)

\* release_ptt_for_forced_exit.
ForcedRelease ==
    /\ pc = "forced"
    /\ \/ DriveOk("rx") /\ mayBeKeyed' = FALSE /\ Report("R")
       \/ DriveFails("rx") /\ UNCHANGED <<mayBeKeyed, guardian>>
    /\ isTransmitting' = FALSE
    /\ pc' = "drop"
    /\ UNCHANGED <<after, keyedFor, txGeneration, inbox, tasks, unheard, stopRequested, jobs,
                   aborts>>

\* A panic unwinds the loop, which drops the backend.
Panic ==
    /\ pc \in Running
    /\ pc' = "drop"
    /\ UNCHANGED <<after, rig, isTransmitting, keyedFor, txGeneration, mayBeKeyed, inbox, tasks,
                   unheard, guardian, stopRequested, onAir, jobs, aborts, faults>>

\* Faulty variant: only a client that knows the rig is keyed releases it.
DropReleases_Transmitting == isTransmitting

\* Whether RigctldClient::drop has something to release.
DropReleases == mayBeKeyed

\* RigctldClient::drop: one attempt, and one more if it fails.
DropBackend ==
    /\ pc \in {"drop", "dropRetry"}
    /\ \/ /\ ~DropReleases
          /\ pc' = "exited" /\ UNCHANGED <<rig, onAir, faults, mayBeKeyed>>
       \/ /\ DropReleases /\ DriveOk("rx")
          /\ mayBeKeyed' = FALSE /\ pc' = "exited"
       \/ /\ DropReleases /\ DriveFails("rx")
          /\ pc' = IF pc = "drop" THEN "dropRetry" ELSE "exited"
          /\ UNCHANGED mayBeKeyed
    /\ UNCHANGED <<after, isTransmitting, keyedFor, txGeneration, inbox, tasks, unheard,
                   guardian, stopRequested, jobs, aborts>>

\* SIGKILL, an out-of-memory kill or a crash: nothing of the daemon runs again.
Kill ==
    /\ pc \notin Gone
    /\ pc' = "killed"
    /\ UNCHANGED <<after, rig, isTransmitting, keyedFor, txGeneration, mayBeKeyed, inbox, tasks,
                   unheard, guardian, stopRequested, onAir, jobs, aborts, faults>>

GuardianDies ==
    /\ GuardianMayDie /\ guardian.alive /\ ~guardian.done
    /\ guardian' = [guardian EXCEPT !.alive = FALSE]
    /\ UNCHANGED <<pc, after, rig, isTransmitting, keyedFor, txGeneration, mayBeKeyed, inbox,
                   tasks, unheard, stopRequested, onAir, jobs, aborts, faults>>

\* watch: at the end of the daemon's pipe, if the last report was `K`, release
\* with a backend of its own, at most ReleaseAttempts times.
GuardianReleases ==
    /\ pc \in Gone /\ guardian.alive /\ ~guardian.done
    /\ \/ /\ guardian.last # "K"
          /\ guardian' = [guardian EXCEPT !.done = TRUE]
          /\ UNCHANGED <<rig, onAir, faults>>
       \/ /\ guardian.last = "K" /\ DriveOk("rx")
          /\ guardian' = [guardian EXCEPT !.done = TRUE]
       \/ /\ guardian.last = "K" /\ DriveFails("rx")
          /\ guardian' = [guardian EXCEPT !.attempts = @ + 1,
                                          !.done = guardian.attempts + 1 = ReleaseAttempts]
    /\ UNCHANGED <<pc, after, isTransmitting, keyedFor, txGeneration, mayBeKeyed, inbox, tasks,
                   unheard, stopRequested, jobs, aborts>>

-----------------------------------------------------------------------------
\* Time passes while the loop waits and nothing is due.
Due ==
    \/ pc = "idle" /\ inbox # << >>
    \/ Overdue
    \/ \E t \in tasks : t.left = 0

Tick ==
    /\ pc \in {"idle", "waitClear"} /\ ~Due
    /\ rig = "tx" \/ isTransmitting \/ tasks # {}
    /\ onAir <= MaxTx + Grace
    /\ keyedFor' = IF keyedFor = NotKeyed THEN NotKeyed ELSE keyedFor + 1
    /\ tasks' = {[t EXCEPT !.left = @ - 1] : t \in tasks}
    /\ onAir' = IF rig = "tx" THEN onAir + 1 ELSE onAir
    /\ UNCHANGED <<pc, after, rig, isTransmitting, txGeneration, mayBeKeyed, inbox, unheard,
                   guardian, stopRequested, jobs, aborts, faults>>

\* The steps of the event loop's own task.
LoopStep ==
    \/ KeyReport \/ KeyDrive \/ KeyMark \/ SubmitSamples
    \/ UnkeyDrive \/ UnkeyReport \/ UnkeyMark
    \/ Dispatch \/ Backstop \/ WaitForClearChannel
    \/ ForcedRelease \/ DropBackend

Next ==
    \/ StartTransmit \/ LoopStep
    \/ Heard \/ (\E t \in tasks : TaskEnds(t, TRUE) \/ TaskEnds(t, FALSE) \/ TaskDies(t))
    \/ HostAbort \/ StopSignal \/ ForceSignal
    \/ Panic \/ Kill
    \/ GuardianDies \/ GuardianReleases
    \/ Tick

Spec == Init /\ [][Next]_vars

\* The loop's task runs, its backstop included; the guardian's process runs;
\* time passes.  Nothing is assumed of the completion tasks or the channel.
Fairness ==
    /\ WF_vars(LoopStep) /\ WF_vars(GuardianReleases) /\ WF_vars(Tick)
    /\ WF_vars(\E t \in tasks : t.left = 0 /\ TaskEnds(t, FALSE))

FairSpec == Spec /\ Fairness

-----------------------------------------------------------------------------
\* ptt_guardian.rs: "`K` before keying, `R` after a successful unkey".  Wherever
\* the daemon dies, a guardian that still runs believes a keyed rig keyed.
GuardianArmed == (rig = "tx" /\ guardian.alive /\ ~guardian.done) => guardian.last = "K"

\* handle_tx_complete: "an earlier job's completion can never unkey a later one".
\* While the rig obeys, audio that was not cancelled is only heard with it keyed.
NoClippedAudio == (unheard # {} /\ pc \in Running /\ faults = 0) => rig = "tx"

\* "Once PTT has been keyed for `max_tx_duration_s` plus 2 s, it forces PTT off"
\* (docs/OPERATING.md).
KeyedBounded == (rig = "tx" /\ pc \in Running) => onAir <= MaxTx + Grace

\* The bound holds while the rig obeys, however many jobs join the interval and
\* whichever of their tasks die.
KeyedBoundedIfObeyed == faults = 0 => KeyedBounded

\* "coppad releases PTT when it stops" (OPERATING.md): a daemon that ended other
\* than by a kill has released the rig, wherever it was stopped and whatever its
\* bookkeeping said, even when one command to the rig has failed.
StoppedMeansReleased == (pc = "exited" /\ faults < 2) => rig = "rx"

\* A rig that obeys is released in the end: by the completion, the backstop, a
\* shutdown, or the guardian, if it still runs, when the daemon was killed.
EventuallyReleased ==
    (rig = "tx") ~> (rig = "rx" \/ faults > 0 \/ (pc = "killed" /\ ~guardian.alive))
=============================================================================
