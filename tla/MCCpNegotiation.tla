-------------------------- MODULE MCCpNegotiation --------------------------
(* Small instances of the cyclic-prefix handshake: the two stations are a and b. *)
EXTENDS CpNegotiation

CONSTANTS a, b
=============================================================================
