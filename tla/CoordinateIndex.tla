-------------------------- MODULE CoordinateIndex --------------------------
(***************************************************************************)
(* coordinate.Index: the checkpoints of a full scan, the incremental       *)
(* rebuild that keeps the checkpoints in front of every edit, scans the    *)
(* changed middle and translates the checkpoints of the untouched suffix,  *)
(* and the queries, which decode one window behind a checkpoint.           *)
(*                                                                         *)
(* A document is a sequence of runes; a rune is a record of its kind and   *)
(* of an identity that no code reads and that tells inserted runes apart.  *)
(* Only a kind's width in bytes and its being a line feed matter.          *)
(***************************************************************************)
EXTENDS ChangeMap, FiniteSetsExt, SequencesExt

CONSTANTS
    Width,             \* bytes of the encoding of each kind of rune
    LineFeed,          \* the kind that ends a line
    UTFMax,            \* utf8.UTFMax, the longest encoding
    CheckpointBytes    \* Options.CheckpointBytes

ASSUME IndexAssumption ==
    /\ LineFeed \in DOMAIN Width
    /\ UTFMax \in Nat /\ CheckpointBytes \in Nat \ {0}
    /\ \A k \in DOMAIN Width : Width[k] \in 1..UTFMax

\* Starts(doc)[k]: byte offset behind the first k runes.
Starts(doc) ==
    LET s[k \in 0..Len(doc)] ==
            IF k = 0 THEN 0 ELSE s[k - 1] + Width[doc[k].kind]
    IN  s
ByteLength(doc) == Starts(doc)[Len(doc)]

\* Rune boundaries, and the number of runes in front of one.
IsBoundary(doc, offset) == \E k \in 0..Len(doc) : Starts(doc)[k] = offset
RunesBefore(doc, offset) ==
    CHOOSE k \in 0..Len(doc) : Starts(doc)[k] = offset

\* A checkpoint, and what decoding one rune makes of it.
Origin == [byteOffset |-> 0, runeOffset |-> 0, line |-> 0, column |-> 0]
advance(state, rune) ==
    [byteOffset |-> state.byteOffset + Width[rune.kind],
     runeOffset |-> state.runeOffset + 1,
     line |-> IF rune.kind = LineFeed THEN state.line + 1 ELSE state.line,
     column |-> IF rune.kind = LineFeed THEN 0 ELSE state.column + 1]

nextCheckpointAfter(offset) ==
    (offset \div CheckpointBytes + 1) * CheckpointBytes

\* scanSegment over the bytes [from, to), from a state known at from: the
\* final state and the checkpoints with those the scan sets.
scanSegment(doc, state, checkpoints, from, to) ==
    LET first == RunesBefore(doc, from)
        last == RunesBefore(doc, to)
        scan[k \in first..last] ==
            IF k = first
            THEN [state |-> state, next |-> nextCheckpointAfter(from),
                  checkpoints |-> checkpoints]
            ELSE LET s == scan[k - 1]
                     rune == doc[k]
                     due == s.state.byteOffset >= s.next
                 IN  [state |-> advance(s.state, rune),
                      next |-> IF due
                               THEN nextCheckpointAfter(s.state.byteOffset)
                               ELSE s.next,
                      checkpoints |-> IF due
                                      THEN Append(s.checkpoints, s.state)
                                      ELSE s.checkpoints]
    IN  scan[last]

\* A state at the offset of the last checkpoint replaces it.
AppendCheckpoint(checkpoints, state) ==
    IF checkpoints[Len(checkpoints)].byteOffset = state.byteOffset
    THEN [checkpoints EXCEPT ![Len(checkpoints)] = state]
    ELSE Append(checkpoints, state)

Index(revision, length, checkpoints) ==
    LET end == checkpoints[Len(checkpoints)]
    IN  [revision |-> revision, byteLength |-> length,
         runeCount |-> end.runeOffset, lineCount |-> end.line + 1,
         checkpoints |-> checkpoints]

\* finishScan
finishScan(revision, doc, scan) ==
    Index(revision, ByteLength(doc),
          AppendCheckpoint(scan.checkpoints, scan.state))

\* build: one scan of the whole document.
build(doc, revision) ==
    finishScan(revision, doc,
               scanSegment(doc, Origin, <<Origin>>, 0, ByteLength(doc)))

\* sort.Search: the first of the checkpoints beyond a place, or one past all.
Search(checkpoints, beyond) ==
    Min({i \in 1..Len(checkpoints) : checkpoints[i] \in beyond}
          \cup {Len(checkpoints) + 1})

-----------------------------------------------------------------------------
\* Incremental rebuild

\* Mutant: columns on the seam's line keep their old value.
translatedKeepsColumn(old, oldSeam, newSeam) ==
    [byteOffset |-> newSeam.byteOffset + old.byteOffset - oldSeam.byteOffset,
     runeOffset |-> newSeam.runeOffset + old.runeOffset - oldSeam.runeOffset,
     line |-> newSeam.line + old.line - oldSeam.line,
     column |-> old.column]

\* A checkpoint of the suffix, moved from the old seam to the new one.
translated(old, oldSeam, newSeam) ==
    [byteOffset |-> newSeam.byteOffset + old.byteOffset - oldSeam.byteOffset,
     runeOffset |-> newSeam.runeOffset + old.runeOffset - oldSeam.runeOffset,
     line |-> newSeam.line + old.line - oldSeam.line,
     column |-> IF old.line = oldSeam.line
                THEN newSeam.column + old.column - oldSeam.column
                ELSE old.column]

\* appendTranslatedSuffix
appendTranslatedSuffix(checkpoints, newSeam, suffix) ==
    LET appended[i \in 0..Len(suffix)] ==
            IF i = 0 THEN checkpoints
            ELSE AppendCheckpoint(appended[i - 1],
                                  translated(suffix[i], suffix[1], newSeam))
    IN  appended[Len(suffix)]

\* The lowest start of the map's edits: no byte in front of it has changed.
stablePrefix(m) ==
    Min({m.beforeLength} \cup {m.edits[i].start : i \in 1..Len(m.edits)})

\* incrementalSeed: which checkpoints are kept and which bytes are scanned.
incrementalSeed(previous, m, length) ==
    LET cps == previous.checkpoints
        first == stablePrefix(m)
        last == Search(cps, {c \in ToSet(cps) : c.byteOffset > first}) - 1
        stable == stableSuffix(m)
        seam == Search(cps, {c \in ToSet(cps) : c.byteOffset >= stable.old})
        plan == [prefix |-> SubSeq(cps, 1, last),
                 scanStart |-> cps[last].byteOffset, scanEnd |-> length,
                 suffix |-> <<>>]
    IN  IF m.edits = <<>>
        THEN [plan EXCEPT !.scanEnd = plan.scanStart,
                          !.suffix = SubSeq(cps, last + 1, Len(cps))]
        ELSE IF seam >= Len(cps) THEN plan
        ELSE [plan EXCEPT
                !.scanEnd = stable.new + cps[seam].byteOffset - stable.old,
                !.suffix = SubSeq(cps, seam, Len(cps))]

\* rebuild: previous belongs to m's first document, doc is its last one.
rebuild(doc, previous, m) ==
    IF previous.revision # m.beforeRevision THEN Error("ErrRevisionMismatch")
    ELSE IF previous.byteLength # m.beforeLength
            \/ ByteLength(doc) # m.afterLength
    THEN Error("ErrLengthMismatch")
    ELSE LET plan == incrementalSeed(previous, m, ByteLength(doc))
             scan == scanSegment(doc, plan.prefix[Len(plan.prefix)],
                                 plan.prefix, plan.scanStart, plan.scanEnd)
         IN  IF plan.suffix = <<>>
             THEN finishScan(m.afterRevision, doc, scan)
             ELSE Index(m.afterRevision, ByteLength(doc),
                        appendTranslatedSuffix(scan.checkpoints, scan.state,
                                               plan.suffix))

-----------------------------------------------------------------------------
\* Queries

\* The states that decoding the window behind checkpoint cp passes through.
Decoded(doc, cp) ==
    LET window == cp.byteOffset + CheckpointBytes + UTFMax
        first == RunesBefore(doc, cp.byteOffset)
        state[k \in first..Len(doc)] ==
            IF k = first THEN cp ELSE advance(state[k - 1], doc[k])
    IN  {state[k] : k \in {n \in first..Len(doc) :
                             n = first \/ Starts(doc)[n] <= window}}

\* The one state a query is after, among those decoded.
Hit(states) == IF states = {} THEN Error("ErrSourceInconsistent")
               ELSE CHOOSE s \in states : TRUE

ByteToPosition(doc, index, offset) ==
    LET cps == index.checkpoints
        cp == cps[Search(cps, {c \in ToSet(cps) : c.byteOffset > offset}) - 1]
    IN  Hit({s \in Decoded(doc, cp) : s.byteOffset = offset})

\* RuneToByte
RuneToPosition(doc, index, offset) ==
    LET cps == index.checkpoints
        cp == cps[Search(cps, {c \in ToSet(cps) : c.runeOffset > offset}) - 1]
    IN  Hit({s \in Decoded(doc, cp) : s.runeOffset = offset})

\* PositionToByte
LineToPosition(doc, index, line, column) ==
    LET cps == index.checkpoints
        beyond == {c \in ToSet(cps) :
                     c.line > line \/ (c.line = line /\ c.column > column)}
        cp == cps[Search(cps, beyond) - 1]
    IN  Hit({s \in Decoded(doc, cp) :
                s.line = line /\ s.column = column})

\* Reference: the position behind the first k runes, from its definition.
PositionOf(doc, k) ==
    LET feeds == {i \in 1..k : doc[i].kind = LineFeed}
    IN  [byteOffset |-> Starts(doc)[k], runeOffset |-> k,
         line |-> Cardinality(feeds), column |-> k - Max(feeds \cup {0})]
=============================================================================
