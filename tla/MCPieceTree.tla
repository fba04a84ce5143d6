---------------------------- MODULE MCPieceTree ----------------------------
(* A base of three bytes and two journals.  The ranks are those of the      *)
(* priorities that xorshift64* yields from the seed of NewWithBasePiece.    *)
EXTENDS PieceTree

MCBaseContents == {<<"a", "n", "b">>}
MCReaders == {<<"c", "n">>, <<"n", "d">>}
Insert(o, l, k) == [offset |-> o, length |-> l, known |-> k]
MCInserts == {Insert(0, 0, FALSE), Insert(0, 1, TRUE), Insert(1, 1, TRUE)}
MCRanks == <<3, 10, 17, 12, 14, 15, 22, 11, 13, 21, 1, 20, 6, 24, 4, 9, 5, 2,
             23, 7, 16, 18, 19, 8>>
MCThresholds == {0, 2}
=============================================================================
