---------------------------- MODULE MCLifecycle ----------------------------
(* One host saver beside the loop, one lease, and a checkpoint due after    *)
(* every transaction.                                                       *)
EXTENDS Lifecycle

CONSTANTS h1, l1

MCHosts == {h1}
MCLeases == {l1}
=============================================================================
