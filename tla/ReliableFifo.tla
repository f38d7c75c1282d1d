---------------------------- MODULE ReliableFifo ----------------------------
(***************************************************************************)
(* What the ARQ promises its two users, with no sequence numbers, buffers  *)
(* or frames: payloads are submitted in order, handed up in the same order *)
(* exactly once, and confirmed to the sender only after they were handed   *)
(* up.  Payload i is the i-th submitted one, so three counters suffice.    *)
(* The sender may give up, after which nothing more is submitted or        *)
(* confirmed; what is already on its way may still be handed up.           *)
(***************************************************************************)
EXTENDS Naturals

VARIABLES
    submitted,  \* payloads accepted from the sending user
    handed,     \* payloads handed to the receiving user
    confirmed,  \* payloads the sender knows were handed up
    closed      \* the sender has given up

fifoVars == << submitted, handed, confirmed, closed >>

FifoInit == submitted = 0 /\ handed = 0 /\ confirmed = 0 /\ closed = FALSE

Submit ==
    /\ ~closed
    /\ submitted' = submitted + 1
    /\ UNCHANGED << handed, confirmed, closed >>

HandUp ==
    /\ handed' > handed /\ handed' <= submitted
    /\ UNCHANGED << submitted, confirmed, closed >>

Confirm ==
    /\ ~closed
    /\ confirmed' > confirmed /\ confirmed' <= handed
    /\ UNCHANGED << submitted, handed, closed >>

GiveUp ==
    /\ ~closed /\ confirmed < submitted
    /\ closed' = TRUE
    /\ UNCHANGED << submitted, handed, confirmed >>

FifoNext == Submit \/ HandUp \/ Confirm \/ GiveUp

FifoSpec == FifoInit /\ [][FifoNext]_fifoVars
=============================================================================
