------------------------------- MODULE MCLink -------------------------------
(* Small instances of the connected session: the two stations are a and b. *)
EXTENDS Link

CONSTANTS a, b
=============================================================================
