---------------------------- MODULE MCArqChannel ----------------------------
(* Small instances of the ARQ pair over a lossy channel. *)
EXTENDS ArqChannel
=============================================================================
