----------------------------- MODULE ChangeMap -----------------------------
(***************************************************************************)
(* coordinate.ChangeMap: an immutable sequence of edits, each in the byte  *)
(* coordinates of the document the edits before it produced, with the      *)
(* revisions and lengths on both sides.  Anchors and ranges are carried    *)
(* through a map; adjacent maps compose, and a map inverts.                *)
(***************************************************************************)
EXTENDS Integers, Sequences

CONSTANT MaximumEdits   \* bound on the edits of one map
ASSUME MaximumEditsAssumption == MaximumEdits \in Nat

Edit == [start : Nat, old : Nat, new : Nat]
Map == [beforeRevision : Nat, afterRevision : Nat,
        beforeLength : Nat, afterLength : Nat, edits : Seq(Edit)]
Affinity == {"before", "after"}

\* Errors are records of their own, never confused with a map.
Error(e) == [error |-> e]

\* Lengths of the successive documents, from length on.
Lengths(length, edits) ==
    LET l[i \in 0..Len(edits)] ==
            IF i = 0 THEN length
            ELSE l[i - 1] - edits[i].old + edits[i].new
    IN  l

\* NewChangeMap; its callers have proved every range valid.
NewChangeMap(before, after, length, edits) ==
    [beforeRevision |-> before, afterRevision |-> after,
     beforeLength |-> length,
     afterLength |-> Lengths(length, edits)[Len(edits)], edits |-> edits]

Identity(revision, length) == NewChangeMap(revision, revision, length, <<>>)

\* An anchor in front of the edit stays, one behind it shifts, and one at its
\* start or inside goes to the side its affinity names.
transformOffset(offset, affinity, edit) ==
    IF offset < edit.start THEN offset
    ELSE IF offset = edit.start \/ offset < edit.start + edit.old
         THEN edit.start + IF affinity = "after" THEN edit.new ELSE 0
         ELSE offset - edit.old + edit.new

\* Transform, for an anchor within the map's first document.
Transform(m, offset, affinity) ==
    LET at[i \in 0..Len(m.edits)] ==
            IF i = 0 THEN offset
            ELSE transformOffset(at[i - 1], affinity, m.edits[i])
    IN  at[Len(m.edits)]

\* TransformRange: the endpoints move on their own and may cross.
TransformRange(m, from, fromAffinity, to, toAffinity) ==
    LET start == Transform(m, from, fromAffinity)
        end == Transform(m, to, toAffinity)
    IN  IF start > end THEN Error("ErrInvertedRange")
        ELSE [start |-> start, end |-> end]

\* The maps m, chain[1], chain[2], ... follow on one another.
Adjacent(m, n) == /\ m.afterRevision = n.beforeRevision
                  /\ m.afterLength = n.beforeLength

\* ComposeAll: one validation pass, then all edits in one map.
ComposeAll(m, chain) ==
    LET all == <<m>> \o chain
        joined[i \in 0..Len(all)] ==
            IF i = 0 THEN <<>> ELSE joined[i - 1] \o all[i].edits
        edits == joined[Len(all)]
    IN  IF \E i \in 1..Len(chain) : ~Adjacent(all[i], all[i + 1])
        THEN Error("ErrRevisionMismatch")
        ELSE IF Len(edits) > MaximumEdits THEN Error("ErrTooComplex")
        ELSE [m EXCEPT !.afterRevision = all[Len(all)].afterRevision,
                       !.afterLength = all[Len(all)].afterLength,
                       !.edits = edits]

\* Mutant: the edits are turned round but not put in reverse order.
InvertKeepsOrder(m) ==
    [beforeRevision |-> m.afterRevision, afterRevision |-> m.beforeRevision,
     beforeLength |-> m.afterLength, afterLength |-> m.beforeLength,
     edits |-> [i \in 1..Len(m.edits) |->
                  LET e == m.edits[i]
                  IN  [start |-> e.start, old |-> e.new, new |-> e.old]]]

\* The last edit is undone first.
Invert(m) ==
    [beforeRevision |-> m.afterRevision, afterRevision |-> m.beforeRevision,
     beforeLength |-> m.afterLength, afterLength |-> m.beforeLength,
     edits |-> [i \in 1..Len(m.edits) |->
                  LET e == m.edits[Len(m.edits) + 1 - i]
                  IN  [start |-> e.start, old |-> e.new, new |-> e.old]]]

\* stableSuffix: [old, new] such that the bytes of the first document from old
\* on are the bytes of the last document from new on.
stableSuffix(m) ==
    LET at[i \in 0..Len(m.edits)] ==
            IF i = 0 THEN [old |-> 0, new |-> 0]
            ELSE LET e == m.edits[i]
                     s == at[i - 1]
                     end == e.start + e.old
                 IN  IF end <= s.new
                     THEN [s EXCEPT !.new = @ + e.new - e.old]
                     ELSE [old |-> s.old + end - s.new,
                           new |-> e.start + e.new]
    IN  at[Len(m.edits)]
=============================================================================
