-------------------------- MODULE MCChangeHistory --------------------------
\* One-byte and two-byte runes and line feeds.  The operations insert at the
\* start, inside and at the end of the document, split and join lines, replace
\* and delete; offset 3 is at first inside the two-byte rune.
EXTENDS ChangeHistory

MCWidth == [x |-> 1, w |-> 2, n |-> 1]
MCDocument == <<"x", "n", "w", "x", "n">>
Op(start, delete, insert) ==
    [start |-> start, delete |-> delete, insert |-> insert]
MCOperations ==
    {Op(0, 0, <<"w">>), Op(1, 0, <<"n", "x">>), Op(2, 2, <<"x">>),
     Op(3, 0, <<"x">>), Op(0, 4, <<>>)}
=============================================================================
