----------------------------- MODULE MCTxAudio -----------------------------
(* Small instances of the transmit audio path.                              *)
EXTENDS TxAudio
=============================================================================
