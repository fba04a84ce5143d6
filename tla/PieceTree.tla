----------------------------- MODULE PieceTree -----------------------------
(***************************************************************************)
(* The piece tree of document/store/tree.go, the only representation of a  *)
(* document's content in memory: a persistent treap of pieces, each a      *)
(* range of bytes of a source, with cached sums, and its compaction.       *)
(*                                                                         *)
(* A node is a record that holds its subtrees, so that a root, once taken, *)
(* is a value; what can still go wrong with a Snapshot is the source map   *)
(* it is read through.  Nil carries what nodeBytes, nodePieceCount,        *)
(* nodeNewlines and nodeNewlinesKnown answer for a nil node.  A source is  *)
(* the sequence of its bytes.  Of a priority only its rank among those the *)
(* generator yields from its fixed seed matters: rng counts the calls of   *)
(* makeNode and Ranks gives the rank of each.                              *)
(*                                                                         *)
(* A tree is changed in two ways.  Replay and the rebasing after a save    *)
(* call ReplacePiece on the tree itself; a transaction runs on a clone,    *)
(* which takes the tree's place when the transaction is published.         *)
(***************************************************************************)
EXTENDS Naturals, Sequences, FiniteSets

CONSTANTS
    LineFeed,     \* the byte that is counted
    BaseContents, \* contents the base may have
    Readers,      \* contents SetSource may bind to the journal
    Inserts,      \* replacement pieces, [offset, length, known]
    Deletes,      \* lengths of the deletions
    Ranks,        \* ranks of the generator's priorities, in its order
    Default,      \* DefaultAutoCompactPieces
    Thresholds,   \* AutoCompactPieces as resolved; 0 is disabled
    MaxInt,       \* math.MaxInt64
    MaxCalls      \* bound on edits, compactions and restores

\* resolveOptions refuses a threshold of one.
ASSUME PieceTreeAssumption ==
    /\ Default \in Thresholds /\ Default >= 2
    /\ \A n \in Thresholds : n = 0 \/ n >= 2
    /\ MaxInt \in Nat /\ MaxCalls \in Nat
    /\ \A b \in BaseContents : Len(b) <= MaxInt

VARIABLES
    tree,     \* the Tree
    text,     \* history variable: the content it should have
    clone,    \* the clone of a running transaction, its text, and if there is one
    snap,     \* a Snapshot some reader holds, with the text it should have
    restored, \* history variable: no edit and no compaction since Restore
    calls     \* for the bound

vars == <<tree, text, clone, snap, restored, calls>>

-----------------------------------------------------------------------------
\* Nodes

Nil == [bytes |-> 0, pieceCount |-> 0, newlines |-> 0, newlinesKnown |-> TRUE]

recalc(piece, priority, left, right) ==
    [piece |-> piece, priority |-> priority, left |-> left, right |-> right,
     bytes |-> left.bytes + piece.length + right.bytes,
     pieceCount |-> left.pieceCount + 1 + right.pieceCount,
     newlines |-> left.newlines + piece.newlines + right.newlines,
     newlinesKnown |-> left.newlinesKnown /\ piece.known /\ right.newlinesKnown]

cloneNode(n, left, right) == recalc(n.piece, n.priority, left, right)

makeNode(rng, piece) == recalc(piece, Ranks[rng + 1], Nil, Nil)

RECURSIVE merge(_, _)
merge(left, right) ==
    IF left = Nil THEN right
    ELSE IF right = Nil THEN left
    ELSE IF left.priority >= right.priority
    THEN cloneNode(left, left.left, merge(left.right, right))
    ELSE cloneNode(right, merge(left, right.left), right.right)

\* The piece of n from its byte i on, for length bytes: the count of its
\* line feeds is no longer known.
Cut(n, i, length) ==
    [n.piece EXCEPT !.offset = @ + i, !.length = length,
                    !.newlines = 0, !.known = FALSE]

\* Mutant: a fragment may rank above the node it comes from.
FragmentOutranks(n, i, length) ==
    recalc(Cut(n, i, length), n.priority + 2, Nil, Nil)

\* Both parts of a cut piece keep the priority of the node.
Fragment(n, i, length) == recalc(Cut(n, i, length), n.priority, Nil, Nil)

RECURSIVE split(_, _)
split(n, pos) ==
    IF n = Nil THEN <<Nil, Nil>>
    ELSE LET leftBytes == n.left.bytes
             pieceEnd == leftBytes + n.piece.length
         IN  IF pos < leftBytes
             THEN LET s == split(n.left, pos)
                  IN  <<s[1], cloneNode(n, s[2], n.right)>>
             ELSE IF pos > pieceEnd
             THEN LET s == split(n.right, pos - pieceEnd)
                  IN  <<cloneNode(n, n.left, s[1]), s[2]>>
             ELSE IF pos = leftBytes
             THEN <<n.left, cloneNode(n, Nil, n.right)>>
             ELSE IF pos = pieceEnd
             THEN <<cloneNode(n, n.left, Nil), n.right>>
             ELSE LET length == pos - leftBytes
                  IN  <<merge(n.left, Fragment(n, 0, length)),
                        merge(Fragment(n, length, n.piece.length - length),
                              n.right)>>

RECURSIVE walk(_)
walk(n) ==
    IF n = Nil THEN <<>> ELSE walk(n.left) \o <<n.piece>> \o walk(n.right)

\* What ReadAt returns for count bytes from off on.
RECURSIVE readNode(_, _, _, _)
readNode(n, sources, off, count) ==
    IF n = Nil \/ count = 0 THEN <<>>
    ELSE LET leftBytes == n.left.bytes
             fromLeft == IF off < leftBytes
                         THEN readNode(n.left, sources, off, count) ELSE <<>>
             here == IF off < leftBytes THEN 0 ELSE off - leftBytes
             left == count - Len(fromLeft)
             available == n.piece.length - here
             want == IF here >= n.piece.length THEN 0
                     ELSE IF left > available THEN available ELSE left
             at == n.piece.offset + here
             beyond == IF here < n.piece.length THEN 0 ELSE here - n.piece.length
         IN  fromLeft
             \o SubSeq(sources[n.piece.source], at + 1, at + want)
             \o readNode(n.right, sources, beyond, left - want)

-----------------------------------------------------------------------------
\* Compaction

Contiguous(p, q) == p.source = q.source /\ p.offset + p.length = q.offset

Joined(p, q) ==
    [p EXCEPT !.length = @ + q.length,
              !.newlines = IF p.known /\ q.known THEN @ + q.newlines ELSE 0,
              !.known = p.known /\ q.known]

RECURSIVE Coalesce(_, _)
Coalesce(done, rest) ==
    IF rest = <<>> THEN done
    ELSE LET last == Len(done)
         IN  Coalesce(IF last > 0 /\ Contiguous(done[last], Head(rest))
                      THEN [done EXCEPT ![last] = Joined(@, Head(rest))]
                      ELSE Append(done, Head(rest)),
                      Tail(rest))

RECURSIVE Rebuild(_, _, _)
Rebuild(root, rng, pieces) ==
    IF pieces = <<>> THEN root
    ELSE Rebuild(merge(root, makeNode(rng, Head(pieces))), rng + 1, Tail(pieces))

Rebuilt(t, pieces) ==
    [t EXCEPT !.root = Rebuild(Nil, t.rng, pieces), !.rng = @ + Len(pieces)]

compactLocked(t) ==
    IF t.root.pieceCount < 2 THEN t ELSE Rebuilt(t, Coalesce(<<>>, walk(t.root)))

NextTrigger(auto, pieces) ==
    IF auto = 0 THEN 0
    ELSE IF pieces < auto THEN auto
    ELSE IF pieces > MaxInt - auto THEN MaxInt
    ELSE pieces + auto

scheduleNextAutoCompact(t) ==
    [t EXCEPT !.next = NextTrigger(t.auto, t.root.pieceCount)]

Compact(t) == scheduleNextAutoCompact(compactLocked(t))

maybeAutoCompact(t) ==
    IF t.auto = 0 THEN t
    ELSE IF t.root.pieceCount < t.auto THEN [t EXCEPT !.next = t.auto]
    ELSE IF t.root.pieceCount < t.next THEN t
    ELSE [Compact(t) EXCEPT !.autoCompactions = @ + 1]

-----------------------------------------------------------------------------
\* Trees

Count(bytes) == Cardinality({i \in 1..Len(bytes) : bytes[i] = LineFeed})

Bytes(sources, p) == SubSeq(sources[p.source], p.offset + 1, p.offset + p.length)

PieceOf(sources, source, offset, length, known) ==
    [source |-> source, offset |-> offset, length |-> length, known |-> known,
     newlines |-> IF known THEN Count(SubSeq(sources[source], offset + 1, offset + length))
                  ELSE 0]

Empty(auto) ==
    [root |-> Nil, sources |-> <<>>, rng |-> 0, auto |-> auto, next |-> auto,
     autoCompactions |-> 0]

\* Open knows the line feeds of the base from its scan.
NewWithBasePiece(base, auto) ==
    LET sources == [id \in {"base"} |-> base]
    IN  IF base = <<>> THEN [Empty(auto) EXCEPT !.sources = sources]
        ELSE [Empty(auto) EXCEPT
                !.sources = sources, !.rng = 1,
                !.root = makeNode(0, PieceOf(sources, "base", 0, Len(base), TRUE))]

\* Mutant: the schedule of the replaced root is inherited.
RestoreKeepsTrigger(t, s) == [t EXCEPT !.root = s.root, !.sources = s.sources]

Restore(t, s) == [t EXCEPT !.root = s.root, !.sources = s.sources, !.next = t.auto]

\* cloneDocumentTree
CloneDocumentTree(t) == Restore(Empty(Default), t)

\* The checks of ReplacePiece, for a piece that is within its source.
MayReplace(t, start, del, length) ==
    /\ start + del <= t.root.bytes
    /\ length > 0 => "journal" \in DOMAIN t.sources
    /\ length <= MaxInt - (t.root.bytes - del)

Spliced(t, start, del, piece) ==
    LET cut == split(t.root, start)
        right == split(cut[2], del)[2]
    IN  IF piece.length > 0
        THEN [t EXCEPT !.root = merge(merge(cut[1], makeNode(t.rng, piece)), right),
                       !.rng = @ + 1]
        ELSE [t EXCEPT !.root = merge(cut[1], right)]

ReplacePiece(t, start, del, piece) ==
    IF del = 0 /\ piece.length = 0 THEN t
    ELSE maybeAutoCompact(Spliced(t, start, del, piece))

Replaced(s, start, del, bytes) ==
    SubSeq(s, 1, start) \o bytes \o SubSeq(s, start + del + 1, Len(s))

-----------------------------------------------------------------------------
\* Operations

NoClone == [open |-> FALSE, tree |-> Empty(Default), text |-> <<>>]
NoSnapshot == [root |-> Nil, sources |-> <<>>, text |-> <<>>]

Init ==
    /\ \E base \in BaseContents, auto \in Thresholds :
          tree = NewWithBasePiece(base, auto) /\ text = base
    /\ clone = NoClone /\ snap = NoSnapshot
    /\ restored = FALSE /\ calls = 0

Called == calls < MaxCalls /\ calls' = calls + 1

\* Replay, and the operations a save carries over, edit the tree in place.
\* A deletion has a piece of no bytes.
Edit(start, del, i) ==
    /\ Called /\ ~clone.open
    /\ MayReplace(tree, start, del, i.length)
    /\ LET sources == IF i.length > 0 THEN tree.sources ELSE [id \in {"journal"} |-> <<>>]
           p == PieceOf(sources, "journal", i.offset, i.length, i.known)
       IN  /\ tree' = ReplacePiece(tree, start, del, p)
           /\ text' = Replaced(text, start, del, Bytes(sources, p))
           /\ restored' = (restored /\ tree' = tree)
    /\ UNCHANGED <<clone, snap>>

\* applyOperationsLocked clones the tree of the Session, ...
Begin ==
    /\ ~clone.open /\ tree.auto = Default /\ calls < MaxCalls
    /\ clone' = [open |-> TRUE, tree |-> CloneDocumentTree(tree), text |-> text]
    /\ UNCHANGED <<tree, text, snap, restored, calls>>

\* ... replaces in the clone, ...
EditClone(start, del, i) ==
    /\ Called /\ clone.open
    /\ MayReplace(clone.tree, start, del, i.length)
    /\ LET sources == IF i.length > 0 THEN clone.tree.sources
                      ELSE [id \in {"journal"} |-> <<>>]
           p == PieceOf(sources, "journal", i.offset, i.length, i.known)
       IN  clone' = [clone EXCEPT !.tree = ReplacePiece(@, start, del, p),
                                  !.text = Replaced(@, start, del, Bytes(sources, p))]
    /\ UNCHANGED <<tree, text, snap, restored>>

\* ... and publishes it or drops it.
Publish ==
    /\ clone.open /\ clone' = NoClone
    /\ tree' = clone.tree /\ text' = clone.text
    /\ restored' = (clone.tree.root = tree.root)
    /\ UNCHANGED <<snap, calls>>

Abort ==
    /\ clone.open /\ clone' = NoClone
    /\ UNCHANGED <<tree, text, snap, restored, calls>>

CompactTree ==
    /\ Called /\ ~clone.open
    /\ tree' = Compact(tree) /\ restored' = FALSE
    /\ UNCHANGED <<text, clone, snap>>

\* A caller binds another journal only while no piece of the tree is in it.
SetSource(reader) ==
    /\ ~clone.open /\ calls < MaxCalls
    /\ \A i \in 1..Len(walk(tree.root)) : walk(tree.root)[i].source # "journal"
    /\ tree' = [tree EXCEPT !.sources =
                  [id \in {"base", "journal"} |->
                      IF id = "journal" THEN reader ELSE tree.sources[id]]]
    /\ UNCHANGED <<text, clone, snap, restored, calls>>

\* One Snapshot, taken at any time, is followed.
TakeSnapshot ==
    /\ ~clone.open /\ snap = NoSnapshot /\ calls < MaxCalls
    /\ snap' = [root |-> tree.root, sources |-> tree.sources, text |-> text]
    /\ UNCHANGED <<tree, text, clone, restored, calls>>

RestoreSnapshot ==
    /\ Called /\ ~clone.open /\ snap # NoSnapshot
    /\ tree' = Restore(tree, snap) /\ text' = snap.text /\ restored' = TRUE
    /\ UNCHANGED <<clone, snap>>

Positions(t) == 0..t.root.bytes

Next ==
    \/ \E s \in Positions(tree), d \in Deletes, i \in Inserts : Edit(s, d, i)
    \/ \E s \in Positions(clone.tree), d \in Deletes, i \in Inserts :
          EditClone(s, d, i)
    \/ \E r \in Readers : SetSource(r)
    \/ Begin \/ Publish \/ Abort \/ CompactTree \/ TakeSnapshot \/ RestoreSnapshot

Spec == Init /\ [][Next]_vars

-----------------------------------------------------------------------------
\* Properties

RECURSIVE WellFormed(_)
WellFormed(n) ==
    n = Nil \/ /\ n = cloneNode(n, n.left, n.right)
               /\ n.piece.length > 0
               /\ \A child \in {n.left, n.right} \ {Nil} : n.priority >= child.priority
               /\ WellFormed(n.left) /\ WellFormed(n.right)

Holds(root, sources, content) ==
    /\ WellFormed(root)
    /\ root.bytes = Len(content)
    /\ root.newlinesKnown => root.newlines = Count(content)
    /\ \A off \in 0..Len(content) : \A n \in 0..(Len(content) - off) :
          readNode(root, sources, off, n) = SubSeq(content, off + 1, off + n)

\* Whatever sequence of replacements (of a tree or of its clones), splits,
\* compactions and restores led to it, a tree, a clone and a Snapshot taken
\* at any time read, at every offset, exactly the bytes of the reference
\* content; the cached sums are exact in every subtree, a known count of
\* line feeds is the true one, and split and merge keep the heap order that
\* bounds the height (ReadAt, split, merge, compactLocked, Restore).
TreeExact ==
    /\ Holds(tree.root, tree.sources, text)
    /\ Holds(clone.tree.root, clone.tree.sources, clone.text)
    /\ Holds(snap.root, snap.sources, snap.text)

\* The pieces of a tree stay below the trigger of the next compaction unless
\* Restore has just put an older root in place, and the trigger is ahead of
\* the threshold only while the tree is that large: no schedule outlives the
\* root it was made for (maybeAutoCompactLocked, Restore).
TriggerAhead(t, stale) ==
    t.auto > 0 =>
        /\ stale \/ t.root.pieceCount < t.next \/ t.next = MaxInt
        /\ t.next = t.auto \/ t.auto <= t.root.pieceCount

PiecesBounded ==
    TriggerAhead(tree, restored) /\ TriggerAhead(clone.tree, clone.tree.rng = 0)
=============================================================================
