------------------------------- MODULE MCPtt -------------------------------
(* Small instances of the keying and release of the transmitter.            *)
EXTENDS Ptt
=============================================================================
