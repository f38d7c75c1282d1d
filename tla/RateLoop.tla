------------------------------ MODULE RateLoop ------------------------------
(***************************************************************************)
(* The sender-side rate controller of coppa-ml (rate_loop.rs) as operators *)
(* on a record: raise slowly, drop fast, and now and then probe above the  *)
(* current level.  The daemon's ladders are 1 .. top (8 on HF, 9 on VHF),  *)
(* so the index into the ladder is the level itself.                       *)
(***************************************************************************)
EXTENDS Integers, FiniteSetsExt

CONSTANTS
    RaiseDwell,     \* raise_dwell, 5 in coppad
    ProbeInterval,  \* rate_loop_probe_interval, 0 for no probing
    ProbeOffset     \* rate_loop_probe_offset

ASSUME RateLoopAssumption ==
    RaiseDwell \in Nat \ {0} /\ ProbeInterval \in Nat /\ ProbeOffset \in Nat

RateLoopType(top) ==
    [top : {top}, level : 1 .. top, raise_run : 0 .. RaiseDwell, frames_since_probe : 0 .. ProbeInterval]

\* RateLoop::rank: the highest level of the ladder not above the given one.
Rank(top, level) == Max({1, Min({top, level})})

\* RateLoop::new and with_probing, as build_rate_loop calls them.
RateLoopNew(top, level) ==
    [top |-> top, level |-> Rank(top, level), raise_run |-> 0, frames_since_probe |-> 0]

\* level_for_next_transmission: the controller after it, and the level.  The
\* frame is a probe when that level is above the current one.
ProbeDue(loop) == loop.frames_since_probe + 1 >= ProbeInterval
CountFrame(loop) ==
    IF ProbeInterval = 0 THEN loop
    ELSE [loop EXCEPT !.frames_since_probe = IF ProbeDue(loop) THEN 0 ELSE @ + 1]
LevelForNext(loop) ==
    IF ProbeInterval # 0 /\ ProbeDue(loop) /\ loop.raise_run = 0
      THEN Min({loop.level + ProbeOffset, loop.top}) ELSE loop.level

\* on_probe_result: success jumps there, failure says nothing.
OnProbeDelivered(loop, probed) ==
    [loop EXCEPT !.level = Rank(loop.top, probed), !.raise_run = 0]

\* on_ack, for a delivered frame.
OnAck(loop, feedback) ==
    LET fb == Rank(loop.top, feedback)
    IN CASE fb < loop.level -> [loop EXCEPT !.level = fb, !.raise_run = 0]
         [] fb = loop.level -> [loop EXCEPT !.raise_run = 0]
         [] OTHER -> IF loop.raise_run + 1 < RaiseDwell THEN [loop EXCEPT !.raise_run = @ + 1]
                     ELSE [loop EXCEPT !.level = Min({@ + 1, loop.top}), !.raise_run = 0]

OnTimeout(loop) == [loop EXCEPT !.level = Max({1, @ - 1}), !.raise_run = 0]
=============================================================================
