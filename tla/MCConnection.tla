---------------------------- MODULE MCConnection ----------------------------
(* Instances of Connection for TLC.  A queue of one message makes senders    *)
(* block; a keepalive PING is sent on every tick.                            *)
EXTENDS Connection

CONSTANT c1  \* a client goroutine

MCCallers == {c1}
=============================================================================
