------------------------ MODULE MCSessionPersistence ------------------------
(* Small instance: three contents in a row.  "step" moves one content on,   *)
(* "back" one back, as an undo does, so that the two return to a content    *)
(* seen before; "jump" is a transaction of two operations.                  *)
EXTENDS SessionPersistence, TLC

CONSTANTS c0, c1, c2, step, back, jump, j1, j2, j3

MCContents == {c0, c1, c2}
MCForeign == {c2}
MCEdits == {step, back, jump}
MCEffect == step :> (c0 :> c1 @@ c1 :> c2) @@ back :> (c1 :> c0 @@ c2 :> c1)
            @@ jump :> (c0 :> c2)
MCWidth == step :> 1 @@ back :> 1 @@ jump :> 2
MCEditBytes == step :> 2 @@ back :> 2 @@ jump :> 3
MCTwoIds == {j1, j2}
TwoSymmetry == Permutations(MCTwoIds)
MCThreeIds == {j1, j2, j3}
ThreeSymmetry == Permutations(MCThreeIds)
=============================================================================
