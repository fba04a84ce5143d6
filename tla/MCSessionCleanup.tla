-------------------------- MODULE MCSessionCleanup --------------------------
(* Two Sessions and a host that reclaims share a directory which is new,    *)
(* the leftover of a crash, or not Docengine's.                             *)
EXTENDS SessionCleanup, TLC

CONSTANTS s1, s2, r

MCSessions == {s1, s2}
MCReclaimers == {r}
SessionSymmetry == Permutations(MCSessions)
MCNone == {}
Dir(m, o, s, f) == [dir |-> TRUE, marker |-> m, old |-> o, store |-> s, foreign |-> f]
MCLeftovers == {Dir("magic", TRUE, TRUE, FALSE), Dir("malformed", FALSE, TRUE, FALSE),
                Dir("magic", TRUE, FALSE, TRUE)}
MCNew == {[Dir("none", FALSE, FALSE, FALSE) EXCEPT !.dir = FALSE]}
=============================================================================
