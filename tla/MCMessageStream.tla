---------------------------- MODULE MCMessageStream -------------------------
(* Two writers and one page; a small instance of MessageStream.            *)
EXTENDS MessageStream

CONSTANTS w1, w2

MCWriter == {w1, w2}
=============================================================================
