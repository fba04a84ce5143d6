--------------------------- MODULE ChangeHistory ---------------------------
(***************************************************************************)
(* The retained changes of a Session: the ring of change maps that every   *)
(* committed Apply, Undo and Redo extends (changeHistory), the queries     *)
(* between two of its boundaries (ChangesBetween, TransformAnchors,        *)
(* TransformRanges), and the coordinate index a host keeps and refreshes   *)
(* through them (CoordinateIndex, RefreshCoordinateIndex).                 *)
(*                                                                         *)
(* A refresh copies the ring and takes a snapshot under s.mu and works on  *)
(* both after the unlock, while other transactions commit.                 *)
(***************************************************************************)
EXTENDS CoordinateIndex

CONSTANTS
    Operations,           \* ReplaceOperations: [start, delete, insert]
    InitialDocument,      \* content at open
    MaxBatchOperations,   \* Limits.MaxBatchOperations
    Limit,                \* Limits.ChangeHistory
    StartRevision,        \* revision recovered at open
    MaxRevision,          \* bound on revisions
    None

\* options.go admits at most 4096 maps of at most 256 operations, and one map
\* holds at most 2^20 edits.
ASSUME HistoryAssumption ==
    /\ MaxBatchOperations \in Nat \ {0} /\ Limit \in Nat \ {0}
    /\ Limit * MaxBatchOperations <= MaximumEdits
    /\ StartRevision \in Nat /\ MaxRevision \in Nat
    /\ StartRevision <= MaxRevision
    /\ InitialDocument \in Seq(DOMAIN Width)
    /\ \A op \in Operations :
          /\ op.start \in Nat /\ op.delete \in Nat
          /\ op.insert \in Seq(DOMAIN Width)

VARIABLES
    doc,        \* content of s.tree
    revision,   \* s.revision
    history,    \* s.changeHistory
    index,      \* the host's coordinate index
    job,        \* a refresh between its unlock and its return
    published   \* history variable: <<revision, content>> after each commit

vars == <<doc, revision, history, index, job, published>>

Batches == UNION {[1..n -> Operations] : n \in 1..MaxBatchOperations}
Text(kinds, r) == [i \in 1..Len(kinds) |-> [kind |-> kinds[i], id |-> <<r, i>>]]

-----------------------------------------------------------------------------
\* changeHistory

newChangeHistory(r, length) ==
    [entries |-> [i \in 0..(Limit - 1) |-> None], start |-> 0, count |-> 0,
     baseRevision |-> r, baseLength |-> length,
     currentRevision |-> r, currentLength |-> length]

\* entry: index counts from the oldest retained map.
entry(h, i) == h.entries[(h.start + i) % Limit]

\* The change does not continue the ring.
Breaks(h, change) ==
    \/ change.beforeRevision # h.currentRevision
    \/ change.beforeLength # h.currentLength
    \/ change.afterRevision <= change.beforeRevision

\* Mutant: the oldest boundary is not moved when its map is overwritten.
appendKeepsBase(h, change) ==
    IF h.count = Limit
    THEN [h EXCEPT !.entries[h.start] = change,
                   !.start = (@ + 1) % Limit,
                   !.currentRevision = change.afterRevision,
                   !.currentLength = change.afterLength]
    ELSE [h EXCEPT !.entries[(h.start + h.count) % Limit] = change,
                   !.count = @ + 1,
                   !.currentRevision = change.afterRevision,
                   !.currentLength = change.afterLength]

\* Mutant: a full ring still counts the new map.
appendCountsAll(h, change) ==
    [h EXCEPT !.entries[(h.start + h.count) % Limit] = change,
              !.count = @ + 1,
              !.currentRevision = change.afterRevision,
              !.currentLength = change.afterLength]

\* append: a full ring loses its oldest map and with it its oldest boundary.  A
\* Session never appends a map without edits.
append(h, change) ==
    LET ring == IF Breaks(h, change)
                THEN newChangeHistory(change.beforeRevision, change.beforeLength)
                ELSE h
        oldest == entry(ring, 0)
        now == [ring EXCEPT !.currentRevision = change.afterRevision,
                            !.currentLength = change.afterLength]
    IN  IF ring.count = Limit
        THEN [now EXCEPT !.baseRevision = oldest.afterRevision,
                         !.baseLength = oldest.afterLength,
                         !.entries[ring.start] = change,
                         !.start = (@ + 1) % Limit]
        ELSE [now EXCEPT !.entries[(ring.start + ring.count) % Limit] = change,
                         !.count = @ + 1]

\* boundaryLength: the retained boundaries, and the length at one.
Boundaries(h) ==
    {h.baseRevision} \cup {entry(h, i).afterRevision : i \in 0..(h.count - 1)}
boundaryLength(h, r) ==
    IF r = h.baseRevision THEN h.baseLength
    ELSE LET i == CHOOSE n \in 0..(h.count - 1) : entry(h, n).afterRevision = r
         IN  entry(h, i).afterLength

\* The retained maps from boundary low to boundary high, oldest first.
Chain(h, low, high) ==
    LET inside == {i \in 0..(h.count - 1) : /\ entry(h, i).afterRevision > low
                                            /\ entry(h, i).afterRevision <= high}
    IN  IF inside = {} THEN <<>>
        ELSE [k \in 1..Cardinality(inside) |-> entry(h, Min(inside) + k - 1)]

\* between
between(h, from, to) ==
    IF from < h.baseRevision \/ to < h.baseRevision
    THEN Error("ErrChangeHistoryExpired")
    ELSE IF ~{from, to} \subseteq Boundaries(h)
    THEN Error("ErrRevisionUnavailable")
    ELSE LET low == Min({from, to})
             high == Max({from, to})
             whole == ComposeAll(Identity(low, boundaryLength(h, low)),
                                 Chain(h, low, high))
         IN  IF "error" \in DOMAIN whole THEN Error("ErrRevisionUnavailable")
             ELSE IF from > to THEN Invert(whole) ELSE whole

-----------------------------------------------------------------------------
Init ==
    /\ doc = Text(InitialDocument, 0)
    /\ revision = StartRevision
    /\ history = newChangeHistory(StartRevision, ByteLength(doc))
    /\ index = None /\ job = None
    /\ published = <<[revision |-> StartRevision, doc |-> doc]>>

\* stageOperationsLocked: each operation within the document so far, at rune
\* boundaries on both sides.
Allowed(d, op) == /\ op.start + op.delete <= ByteLength(d)
                  /\ IsBoundary(d, op.start)
                  /\ IsBoundary(d, op.start + op.delete)
Replace(d, op, r) ==
    SubSeq(d, 1, RunesBefore(d, op.start)) \o Text(op.insert, r)
      \o SubSeq(d, RunesBefore(d, op.start + op.delete) + 1, Len(d))

EditOf(op) == [start |-> op.start, old |-> op.delete,
               new |-> ByteLength(Text(op.insert, 0))]

\* A committed ApplyBatch, Undo or Redo: one map for the whole batch.
Commit(batch) ==
    LET docs[i \in 0..Len(batch)] ==
            IF i = 0 THEN doc ELSE Replace(docs[i - 1], batch[i], revision + i)
        after == revision + Len(batch)
        change == NewChangeMap(revision, after, ByteLength(doc),
                               [i \in 1..Len(batch) |-> EditOf(batch[i])])
    IN  /\ after <= MaxRevision
        /\ \A i \in 1..Len(batch) : Allowed(docs[i - 1], batch[i])
        /\ doc' = docs[Len(batch)]
        /\ revision' = after
        /\ history' = append(history, change)
        /\ published' = Append(published, [revision |-> after, doc |-> doc'])
        /\ UNCHANGED <<index, job>>

\* CoordinateIndex builds from a snapshot; nothing of the Session is read later.
BuildIndex ==
    /\ index = None /\ job = None
    /\ index' = build(doc, revision)
    /\ UNCHANGED <<doc, revision, history, job, published>>

\* RefreshCoordinateIndex under s.mu: ring and snapshot are captured together.
RefreshCapture ==
    /\ index # None /\ job = None
    /\ job' = [history |-> history, doc |-> doc]
    /\ UNCHANGED <<doc, revision, history, index, published>>

\* The rest of it, without the lock: the host replaces its index.
RefreshFinish ==
    LET changes == between(job.history, index.revision,
                           job.history.currentRevision)
    IN  /\ job # None
        /\ "error" \notin DOMAIN changes
        /\ index' = rebuild(job.doc, index, changes)
        /\ job' = None
        /\ UNCHANGED <<doc, revision, history, published>>

\* The index is older than the ring: the host drops it and may build anew.
RefreshExpired ==
    /\ job # None
    /\ "error" \in DOMAIN between(job.history, index.revision,
                                  job.history.currentRevision)
    /\ index' = None /\ job' = None
    /\ UNCHANGED <<doc, revision, history, published>>

Next ==
    \/ \E batch \in Batches : Commit(batch)
    \/ BuildIndex \/ RefreshCapture \/ RefreshFinish \/ RefreshExpired

Spec == Init /\ [][Next]_vars

-----------------------------------------------------------------------------
\* Properties

\* Ring, revisions and index keep the types of their Go fields.
TypeOK ==
    /\ revision \in StartRevision..MaxRevision
    /\ history.entries \in [0..(Limit - 1) -> Map \cup {None}]
    /\ history.start \in 0..(Limit - 1) /\ history.count \in 0..Limit
    /\ history.baseRevision \in StartRevision..revision
    /\ history.baseLength \in Nat
    /\ history.currentRevision = revision
    /\ history.currentLength = ByteLength(doc)
    /\ index # None => "error" \notin DOMAIN index

\* Contents by revision, for the revisions that were ever observable.
ContentAt(r) == published[CHOOSE i \in 1..Len(published) :
                            published[i].revision = r].doc

\* The boundaries a full ring must still answer for.
Retained ==
    {published[i].revision :
        i \in Max({1, Len(published) - Limit})..Len(published)}

\* ChangesBetween answers for exactly the last Limit transactions, in both
\* directions, with the revisions and lengths of the two contents; it calls an
\* older revision expired and one inside a batch, or to come, unavailable; and
\* the composed map of a full ring never exceeds MaximumEdits.
QueryExact ==
    \A from, to \in 0..(MaxRevision + 1) :
        LET answer == between(history, from, to)
        IN  IF {from, to} \subseteq Retained
            THEN /\ "error" \notin DOMAIN answer
                 /\ answer.beforeRevision = from /\ answer.afterRevision = to
                 /\ answer.beforeLength = ByteLength(ContentAt(from))
                 /\ answer.afterLength = ByteLength(ContentAt(to))
                 /\ Lengths(answer.beforeLength, answer.edits)
                       [Len(answer.edits)] = answer.afterLength
            ELSE answer = Error(IF Min({from, to}) < Min(Retained)
                                THEN "ErrChangeHistoryExpired"
                                ELSE "ErrRevisionUnavailable")

\* Surviving runes of a range are held by its image under m, which is never
\* reported inverted while its ends lean outwards or a rune survives.
RangeFollows(m, d, e, from, to, a, b) ==
    LET kept == {j \in 1..Len(e) : \E i \in (a + 1)..b : d[i] = e[j]}
        wide == TransformRange(m, from[a], "before", from[b], "after")
        tight == TransformRange(m, from[a], "after", from[b], "before")
    IN  /\ "error" \notin DOMAIN wide
        /\ kept # {} => /\ "error" \notin DOMAIN tight
                        /\ tight.start <= to[Min(kept) - 1]
                        /\ tight.end >= to[Max(kept)]

\* Through any composed or inverted map, an anchor that holds on to the text
\* behind it stays in front of the first rune behind it as long as that rune
\* lives, and one that holds on to the text before it stays behind its last
\* rune: a bookmark never drifts off the text it marks.  Nor does a range lose
\* its text between a retained revision and the current one, either way.
AnchorsTrackText ==
    \A before, after \in Retained :
        LET m == between(history, before, after)
            d == ContentAt(before)
            e == ContentAt(after)
            from == Starts(d)
            to == Starts(e)
        IN  /\ \A i \in 1..Len(d), j \in 1..Len(e) : d[i] = e[j] =>
                 /\ Transform(m, from[i - 1], "after") = to[j - 1]
                 /\ Transform(m, from[i], "before") = to[j]
            /\ revision \in {before, after} /\ before # after =>
                 \A a \in 0..Len(d) : \A b \in a..Len(d) :
                   RangeFollows(m, d, e, from, to, a, b)

\* However often it was rebuilt incrementally, an index answers every query,
\* by byte, by rune and by line and column, as the definition of a position
\* over the whole content does, from one window of bytes.
IndexAnswersExactly ==
    index # None =>
        LET d == ContentAt(index.revision)
            end == PositionOf(d, Len(d))
        IN  /\ index.byteLength = end.byteOffset
            /\ index.runeCount = end.runeOffset
            /\ index.lineCount = end.line + 1
            /\ \A k \in 0..Len(d) :
                  LET p == PositionOf(d, k)
                  IN  /\ ByteToPosition(d, index, p.byteOffset) = p
                      /\ RuneToPosition(d, index, p.runeOffset) = p
                      /\ LineToPosition(d, index, p.line, p.column) = p
=============================================================================
