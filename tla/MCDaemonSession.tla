--------------------------- MODULE MCDaemonSession ---------------------------
(* Small instances of coppad's connected session: a calls b. *)
EXTENDS DaemonSession

CONSTANTS a, b

\* a asks for the RS(12,6) outer code, b accepts it.
FadeRequested == [s \in {a, b} |-> IF s = a THEN "request" ELSE "accept"]
=============================================================================
