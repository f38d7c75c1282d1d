----------------------------- MODULE HostSession -----------------------------
(***************************************************************************)
(* What each coppad promises the programs on its host ports about the one  *)
(* session it holds (docs/OPERATING.md, "Connected sessions", "Ending a    *)
(* session", "Inbound connect attempts"): `stage` is the session, `told`   *)
(* what its notices (PENDING, CANCELPENDING, CONNECTED, DISCONNECTED) add  *)
(* up to, `buffer` the last BUFFER value.  Every notice comes with the     *)
(* change it announces, in an order a host can follow, and DISCONNECTED    *)
(* comes with BUFFER 0.  One frame on the air may move both stations.      *)
(***************************************************************************)
EXTENDS Naturals

CONSTANT Stations
VARIABLES stage, told, buffer

hostVars == << stage, told, buffer >>

HostInit ==
    /\ stage = [s \in Stations |-> "idle"]
    /\ told = [s \in Stations |-> "disconnected"]
    /\ buffer = [s \in Stations |-> 0]

Moves(s, from, to) == stage[s] \in from /\ stage'[s] = to

\* CONNECT from a host; during a drain it ends the drain first.
Dial(s) == Moves(s, {"idle", "closing"}, "calling") /\ told'[s] = "disconnected" /\ buffer'[s] = 0

\* PENDING: an inbound call is being answered.
Offer(s) == Moves(s, {"idle"}, "offered") /\ told'[s] = "pending" /\ buffer'[s] = buffer[s]

\* CANCELPENDING (and DISCONNECTED when the host itself ended the attempt).
Withdraw(s) == Moves(s, {"offered"}, "idle") /\ told'[s] = "disconnected" /\ buffer'[s] = buffer[s]

\* CONNECTED, once per session, to a dialled or an offered call.
Up(s) == Moves(s, {"calling", "offered"}, "up") /\ told'[s] = "connected" /\ buffer'[s] = buffer[s]

\* BUFFER while connected or draining; a draining side takes no more data.
Report(s) ==
    /\ \/ Moves(s, {"up"}, "up")
       \/ Moves(s, {"closing"}, "closing") /\ buffer'[s] < buffer[s]
    /\ buffer'[s] \in Nat /\ told'[s] = told[s]

\* DISCONNECT from a host while data is still held or a frame on the air.
Close(s) == Moves(s, {"calling", "up"}, "closing") /\ told'[s] = told[s] /\ buffer'[s] = buffer[s]

\* DISCONNECTED.
Down(s) == Moves(s, {"calling", "up", "closing"}, "idle") /\ told'[s] = "disconnected" /\ buffer'[s] = 0

Stutter(s) == stage'[s] = stage[s] /\ told'[s] = told[s] /\ buffer'[s] = buffer[s]

HostNext ==
    \A s \in Stations :
        Stutter(s) \/ Dial(s) \/ Offer(s) \/ Withdraw(s) \/ Up(s) \/ Report(s) \/ Close(s) \/ Down(s)

HostSpec == HostInit /\ [][HostNext]_hostVars
=============================================================================
