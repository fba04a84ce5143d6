--------------------------- MODULE MCUndoHistory ---------------------------
(* Two characters; transactions that insert, delete and replace, one of them *)
(* of two overlapping operations, around a quota of four characters.         *)
EXTENDS UndoHistory

CONSTANTS a, b

MCChars == {a, b}
MCBases == {<<>>, <<a, b>>}
MCBatches == {
    <<[start |-> 0, del |-> 0, ins |-> <<a>>]>>,
    <<[start |-> 1, del |-> 1, ins |-> <<>>]>>,
    <<[start |-> 0, del |-> 2, ins |-> <<b>>]>>,
    <<[start |-> 0, del |-> 1, ins |-> <<b>>],
      [start |-> 0, del |-> 1, ins |-> <<a, a>>]>>}
=============================================================================
