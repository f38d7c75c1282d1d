---------------------------- MODULE MCSessionless ----------------------------
(* Small instance: a's engine is level-derived, b's is VHF_FAST. *)
EXTENDS Sessionless

CONSTANTS a, b

Bands == [s \in {a, b} |-> IF s = a THEN "level" ELSE "vhf"]
Levels == [s \in {a, b} |-> 1]
Submissions == [s \in {a, b} |-> IF s = a THEN 2 ELSE 1]
Pinned == [s \in {a, b} |-> IF s = a THEN {3} ELSE {}]
=============================================================================
