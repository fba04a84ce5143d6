----------------------------- MODULE MCEventHub -----------------------------
(* Small instance of the event hub: two subscriptions compete for the       *)
(* publisher, buffers of one and two events, a ring of two, four events   *)
(* and then the exhausted sequence.                                         *)
EXTENDS EventHub, TLC

CONSTANTS s1, s2

MCSubs == {s1, s2}
MCBuffers == {1, 2}
=============================================================================
