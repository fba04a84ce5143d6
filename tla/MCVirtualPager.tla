--------------------------- MODULE MCVirtualPager ---------------------------
(* Two callers share a Pager of a source with two logical pages.  The       *)
(* layout is compared with its reference for short sources of one-byte      *)
(* runes, two-byte runes and line feeds, under every publication of up to   *)
(* two fragments.                                                           *)
EXTENDS VirtualPager, TLC

CONSTANTS c1, c2, k1, f1, f2

MCCallers == {c1, c2}
MCClosers == {k1}
MCCalls == c1 :> {"read", "publish"} @@ c2 :> {"read", "rebuild", "refresh"}
MCWidth == "a" :> 1 @@ "e" :> 2 @@ "n" :> 1
MCKeyBytes == f1 :> 1 @@ f2 :> 2
Limit(b, p, q, m) == [bytes |-> b, pages |-> p, fragments |-> q, measure |-> m]
MCWindowLimit == Limit(5, 3, 2, 2)

Part(id, from, to, m) == [id |-> id, start |-> from, end |-> to, measure |-> m]
Pub(t, c, s) == [through |-> t, complete |-> c, fragments |-> s]

MCSources == {<<"a", "n", "e">>}
MCOffered == {Pub(2, FALSE, <<Part(f1, 0, 2, 1)>>),
              Pub(4, TRUE, <<Part(f1, 0, 2, 1), Part(f2, 2, 4, 1)>>)}
MCRequests == {[kind |-> "page", index |-> 2],
               [kind |-> "byte", offset |-> 0, before |-> 0, after |-> 3,
                budget |-> Limit(4, 2, 2, 2)]}

MCSamples == {<<>>, <<"n", "a", "n", "e">>, <<"e", "a", "a", "n">>,
              <<"a", "e", "n", "a">>, <<"n", "n", "e", "n">>}
Offsets == 0..5
Ones == {<<>>} \cup {<<Part(f1, a, b, m)>> : a \in Offsets, b \in Offsets, m \in {0, 1}}
Twos == {<<Part(f1, a, b, m), Part(f2, c, d, 2)>> :
            a \in {0, 1, 2}, b \in Offsets, c \in Offsets, d \in Offsets, m \in {0, 1}}
MCPublications == {Pub(t, t = 5, s) : t \in {1, 3, 5}, s \in Ones \cup Twos}
MCSpans == {0, 2}
MCBudgets == {Limit(5, 3, 2, 2), Limit(3, 2, 1, 2)}
=============================================================================
