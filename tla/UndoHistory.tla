---------------------------- MODULE UndoHistory ----------------------------
(***************************************************************************)
(* Undo and redo of document.Session: the two history stacks, the undo     *)
(* store that keeps their texts under a quota (historyText), compaction of *)
(* the store (rewriteContext, remapHistoryRefs) and the rebuilding of the  *)
(* history by replay after an exit.                                        *)
(*                                                                         *)
(* A document and a text are sequences of Chars; an operation replaces     *)
(* del characters after position start by ins.  A history operation keeps  *)
(* its text as a reference [offset, length] into the store, a file that is *)
(* truncated when the quota is exceeded, so that an old reference would    *)
(* read other bytes or none.  The counter s.undoEpoch is represented by    *)
(* what it is compared for: job.reset, a reset since the job began.        *)
(*                                                                         *)
(* Every operation runs under s.mu.  A transaction is taken apart at each  *)
(* staged operation, because a reset is not undone when a later one fails. *)
(***************************************************************************)
EXTENDS Naturals, Sequences, SequencesExt

CONSTANTS
    Chars,          \* characters of documents and texts
    Bases,          \* contents the file may have at first
    Batches,        \* transactions a host asks for
    Quota,          \* Limits.UndoBytes
    MaxInsertBytes, \* Limits.MaxInsertBytes
    MaxLength,      \* bound on the length of a document
    MaxRevision     \* bound on transactions

Operation == [start : 0..MaxLength, del : 0..MaxLength, ins : Seq(Chars)]

ASSUME UndoAssumption ==
    /\ Quota \in Nat /\ MaxInsertBytes \in Nat
    /\ MaxLength \in Nat /\ MaxRevision \in Nat
    /\ \A b \in Bases : b \in Seq(Chars) /\ Len(b) <= MaxLength
    /\ \A b \in Batches : b \in Seq(Operation) /\ b # <<>>

VARIABLES
    base,     \* content of the file
    journal,  \* transactions in the recovery journal
    doc,      \* content of s.tree
    undo,     \* s.undo
    redo,     \* s.redo
    store,    \* content of the undo store's file
    job,      \* the transaction or replay that holds s.mu
    past,     \* history variable: document before each entry of undo
    future,   \* history variable: document after each entry of redo
    tainted,  \* history variable: a replay ran into the quota
    count     \* transactions begun, for the bound

vars == <<base, journal, doc, undo, redo, store, job, past, future, tainted,
          count>>
disk == <<base, journal>>

Ref == [offset : Nat, length : Nat]
NoText == [offset |-> 0, length |-> 0]
HistoryOperation == [start : Nat, del : Nat, ref : Ref]
HistoryEntry == [forward : Seq(HistoryOperation),
                 inverse : Seq(HistoryOperation)]

Idle == [kind |-> "idle", batch |-> <<>>, at |-> 0, tree |-> <<>>,
         entry |-> [forward |-> <<>>, inverse |-> <<>>], reset |-> FALSE,
         next |-> 0]

-----------------------------------------------------------------------------
\* Operations on documents

\* ReplacePiece
Replace(d, op) ==
    SubSeq(d, 1, op.start) \o op.ins \o SubSeq(d, op.start + op.del + 1, Len(d))

Deleted(d, op) == SubSeq(d, op.start + 1, op.start + op.del)

\* The document after each of the operations.
Runs(ops, d) ==
    LET run[i \in 0..Len(ops)] == IF i = 0 THEN d ELSE Replace(run[i - 1], ops[i])
    IN  run
RunOps(ops, d) == Runs(ops, d)[Len(ops)]

\* What stageOperationsLocked checks: each range in the document it meets.
InRange(ops, d) ==
    LET run == Runs(ops, d)
    IN  \A i \in 1..Len(ops) :
          /\ ops[i].start + ops[i].del <= Len(run[i - 1])
          /\ Len(run[i - 1]) - ops[i].del + Len(ops[i].ins) <= MaxLength

WithinInsertLimit(ops) == \A i \in 1..Len(ops) : Len(ops[i].ins) <= MaxInsertBytes

-----------------------------------------------------------------------------
\* The undo store

Readable(ref) == ref.offset + ref.length <= Len(store)

\* undoStore.read
Text(ref) == SubSeq(store, ref.offset + 1, ref.offset + ref.length)

\* materializeHistory
Materialize(hops) ==
    [i \in 1..Len(hops) |-> [start |-> hops[i].start, del |-> hops[i].del,
                             ins |-> Text(hops[i].ref)]]

\* Mutant: the quota is compared with the size before the append.
HistoryTextOverQuota(file, text) ==
    IF text = <<>> THEN [file |-> file, ref |-> NoText, reset |-> FALSE]
    ELSE LET start == IF Len(file) <= Quota THEN file ELSE <<>>
         IN  [file |-> start \o text, reset |-> Len(file) > Quota,
              ref |-> [offset |-> Len(start), length |-> Len(text)]]

\* historyText: append; over the quota the store is emptied, the stacks are
\* cleared, and a text that alone exceeds the quota is not kept.
HistoryText(file, text) ==
    LET at(f) == [offset |-> Len(f), length |-> Len(text)]
    IN  CASE text = <<>> ->
                 [file |-> file, ref |-> NoText, reset |-> FALSE]
          [] text # <<>> /\ Len(text) + Len(file) <= Quota ->
                 [file |-> file \o text, ref |-> at(file), reset |-> FALSE]
          [] text # <<>> /\ Len(text) + Len(file) > Quota /\ Len(text) <= Quota ->
                 [file |-> text, ref |-> at(<<>>), reset |-> TRUE]
          [] OTHER ->
                 [file |-> <<>>, ref |-> NoText, reset |-> TRUE]

-----------------------------------------------------------------------------
Init ==
    /\ base \in Bases
    /\ journal = <<>> /\ doc = base
    /\ undo = <<>> /\ redo = <<>> /\ store = <<>>
    /\ job = Idle
    /\ past = <<>> /\ future = <<>> /\ tainted = FALSE
    /\ count = 0

\* ApplyBatch up to the append to the recovery journal.
ApplyBegin(batch) ==
    /\ job = Idle /\ count < MaxRevision
    /\ InRange(batch, doc) /\ WithinInsertLimit(batch)
    /\ journal' = Append(journal, batch)
    /\ job' = [Idle EXCEPT !.kind = "apply", !.batch = batch, !.tree = doc]
    /\ count' = count + 1
    /\ UNCHANGED <<base, doc, undo, redo, store, past, future, tainted>>

\* The two texts of the next operation go to the store, the inserted one
\* first; the inverse operations are kept in reverse order.
RecordOperation ==
    /\ job.kind # "idle" /\ job.at < Len(job.batch)
    /\ LET op == job.batch[job.at + 1]
           forward == HistoryText(store, op.ins)
           inverse == HistoryText(forward.file, Deleted(job.tree, op))
           reset == forward.reset \/ inverse.reset
       IN  /\ store' = inverse.file
           /\ job' = [job EXCEPT
                 !.at = @ + 1,
                 !.tree = Replace(@, op),
                 !.reset = @ \/ reset,
                 !.entry.forward = Append(@,
                     [start |-> op.start, del |-> op.del, ref |-> forward.ref]),
                 !.entry.inverse = <<[start |-> op.start, del |-> Len(op.ins),
                                      ref |-> inverse.ref]>> \o @]
           /\ undo' = IF reset THEN <<>> ELSE undo
           /\ redo' = IF reset THEN <<>> ELSE redo
           /\ past' = IF reset THEN <<>> ELSE past
           /\ future' = IF reset THEN <<>> ELSE future
           /\ tainted' = IF ~reset THEN tainted ELSE job.kind = "replay"
    /\ UNCHANGED <<base, journal, doc, count>>

\* The transaction is published; an entry of an ended epoch is dropped.
ApplyPublish ==
    /\ job.kind = "apply" /\ job.at = Len(job.batch)
    /\ doc' = job.tree
    /\ IF job.reset THEN UNCHANGED <<undo, redo, past, future>>
       ELSE /\ undo' = Append(undo, job.entry) /\ past' = Append(past, doc)
            /\ redo' = <<>> /\ future' = <<>>
    /\ job' = Idle
    /\ UNCHANGED <<base, journal, store, tainted, count>>

\* Cancellation or an undo-store failure: the journal is repaired, what
\* historyText has done stays.
ApplyCancel ==
    /\ job.kind = "apply"
    /\ journal' = Front(journal)
    /\ job' = Idle
    /\ UNCHANGED <<base, doc, undo, redo, store, past, future, tainted, count>>

CanRun(hops) ==
    /\ \A i \in 1..Len(hops) : Readable(hops[i].ref)
    /\ InRange(Materialize(hops), doc) /\ WithinInsertLimit(Materialize(hops))

\* Undo.  With a text that cannot be read or staged nothing changes.
Undo ==
    /\ job = Idle /\ undo # <<>> /\ count < MaxRevision
    /\ CanRun(Last(undo).inverse)
    /\ LET ops == Materialize(Last(undo).inverse)
       IN  /\ doc' = RunOps(ops, doc)
           /\ journal' = Append(journal, ops)
    /\ undo' = Front(undo) /\ past' = Front(past)
    /\ redo' = Append(redo, Last(undo)) /\ future' = Append(future, doc)
    /\ count' = count + 1
    /\ UNCHANGED <<base, store, job, tainted>>

Redo ==
    /\ job = Idle /\ redo # <<>> /\ count < MaxRevision
    /\ CanRun(Last(redo).forward)
    /\ LET ops == Materialize(Last(redo).forward)
       IN  /\ doc' = RunOps(ops, doc)
           /\ journal' = Append(journal, ops)
    /\ redo' = Front(redo) /\ future' = Front(future)
    /\ undo' = Append(undo, Last(redo)) /\ past' = Append(past, doc)
    /\ count' = count + 1
    /\ UNCHANGED <<base, store, job, tainted>>

-----------------------------------------------------------------------------
\* Compaction

\* References of one entry, in the order of collectHistoryRefs.  The code drops
\* a reference without a text here and again in rewriteContext; UniqueRefs does
\* it for both, and NoText is readable in every store.
EntryRefs(entry) ==
    [i \in 1..(Len(entry.forward) + Len(entry.inverse)) |->
        (entry.forward \o entry.inverse)[i].ref]

\* Mutant: the redo stack is not scanned for live references.
LiveRefsUndoOnly ==
    FlattenSeq([i \in 1..Len(undo) |-> EntryRefs(undo[i])])

\* collectHistoryRefs
LiveRefs ==
    LET entries == undo \o redo
    IN  FlattenSeq([i \in 1..Len(entries) |-> EntryRefs(entries[i])])

\* rewriteContext: each reference that holds a text, once.
UniqueRefs(refs) ==
    LET seen[i \in 0..Len(refs)] ==
            IF i = 0 THEN <<>>
            ELSE IF refs[i].length = 0 \/ Contains(seen[i - 1], refs[i]) THEN seen[i - 1]
            ELSE Append(seen[i - 1], refs[i])
    IN  seen[Len(refs)]

\* Size of the rewritten store after each kept reference, and the offset of
\* each of them in it.
Sizes(unique) ==
    LET size[i \in 0..Len(unique)] ==
            IF i = 0 THEN 0 ELSE size[i - 1] + unique[i].length
    IN  size
NewOffset(unique, i) == Sizes(unique)[i - 1]

\* The new place of a reference; a missing one maps to no text.
RemapRef(unique, ref) ==
    IF ref.length > 0 /\ Contains(unique, ref)
    THEN [offset |-> NewOffset(unique,
                        CHOOSE i \in 1..Len(unique) : unique[i] = ref),
          length |-> ref.length]
    ELSE NoText

\* remapHistoryRefs
RemapEntries(entries, unique) ==
    LET remap(hops) == [i \in 1..Len(hops) |->
                          [hops[i] EXCEPT !.ref = RemapRef(unique, @)]]
    IN  [i \in 1..Len(entries) |->
            [forward |-> remap(entries[i].forward),
             inverse |-> remap(entries[i].inverse)]]

\* Compact: the live texts are copied to a new store, both stacks remapped.
Compact ==
    /\ job = Idle
    /\ \A i \in 1..Len(LiveRefs) : Readable(LiveRefs[i])
    /\ LET unique == UniqueRefs(LiveRefs)
       IN  /\ store' = FlattenSeq([i \in 1..Len(unique) |-> Text(unique[i])])
           /\ undo' = RemapEntries(undo, unique)
           /\ redo' = RemapEntries(redo, unique)
    /\ UNCHANGED <<disk, doc, job, past, future, tainted, count>>

-----------------------------------------------------------------------------
\* Save, exit and replay

\* A save in one step; SessionPersistence has its parts.
Save ==
    /\ job = Idle /\ base # doc
    /\ base' = doc /\ journal' = <<>>
    /\ UNCHANGED <<doc, undo, redo, store, job, past, future, tainted, count>>

ReplayJob(k, tree) ==
    IF k > Len(journal) THEN Idle
    ELSE [Idle EXCEPT !.kind = "replay", !.batch = journal[k], !.tree = tree,
                      !.next = k + 1]

\* The process ends at any moment and the file is opened again: stacks and
\* store are new, the journal is replayed.
Reopen ==
    /\ doc' = base
    /\ undo' = <<>> /\ redo' = <<>> /\ store' = <<>>
    /\ past' = <<>> /\ future' = <<>> /\ tainted' = FALSE
    /\ job' = ReplayJob(1, base)
    /\ UNCHANGED <<disk, count>>

\* The end of a batch in replay: its entry is pushed, whatever the epoch.
ReplayPublish ==
    /\ job.kind = "replay" /\ job.at = Len(job.batch)
    /\ doc' = job.tree
    /\ undo' = Append(undo, job.entry) /\ past' = Append(past, doc)
    /\ job' = ReplayJob(job.next, job.tree)
    /\ UNCHANGED <<disk, redo, store, future, tainted, count>>

Next ==
    \/ \E batch \in Batches : ApplyBegin(batch)
    \/ RecordOperation \/ ApplyPublish \/ ApplyCancel
    \/ Undo \/ Redo \/ Compact
    \/ Save \/ Reopen \/ ReplayPublish

Spec == Init /\ [][Next]_vars

-----------------------------------------------------------------------------
\* Properties

\* The documents, texts, stacks and the job keep their types; the undo store
\* stays within UndoBytes through appends, resets and rewrites.
TypeOK ==
    /\ base \in Seq(Chars) /\ doc \in Seq(Chars)
    /\ journal \in Seq(Seq(Operation))
    /\ undo \in Seq(HistoryEntry) /\ redo \in Seq(HistoryEntry)
    /\ store \in Seq(Chars) /\ (~tainted => Len(store) <= Quota)
    /\ job \in [kind : {"idle", "apply", "replay"}, batch : Seq(Operation),
                at : Nat, tree : Seq(Chars), entry : HistoryEntry,
                reset : BOOLEAN, next : Nat]
    /\ past \in Seq(Seq(Chars)) /\ future \in Seq(Seq(Chars))
    /\ tainted \in BOOLEAN
    /\ count \in 0..MaxRevision

\* The inverse of entry i, run on d with the texts now in the store, gives
\* the document before it.
Inverts(i, d) ==
    /\ \A k \in 1..Len(undo[i].inverse) : Readable(undo[i].inverse[k].ref)
    /\ InRange(Materialize(undo[i].inverse), d)
    /\ RunOps(Materialize(undo[i].inverse), d) = past[i]

AllUndoRestores ==
    /\ Len(past) = Len(undo)
    /\ \A i \in 1..Len(undo) :
          Inverts(i, IF i = Len(undo) THEN doc ELSE past[i + 1])

AllRedoRestores ==
    /\ Len(future) = Len(redo)
    /\ \A i \in 1..Len(redo) :
          LET ops == Materialize(redo[i].forward)
              d == IF i = Len(redo) THEN doc ELSE future[i + 1]
          IN  /\ \A k \in 1..Len(ops) : Readable(redo[i].forward[k].ref)
              /\ InRange(ops, d) /\ RunOps(ops, d) = future[i]

\* Undo, called again and again, restores exactly the earlier documents, and
\* Redo returns through the documents that Undo left: the texts are found at
\* their references across quota resets, compactions, failed transactions and
\* saves, in batches whose operations overlap; and Compact is never refused
\* for a reference outside the store (io.ErrUnexpectedEOF in rewriteContext).
UndoRedoRestore ==
    ~tainted =>
        /\ job.kind # "replay" => AllUndoRestores /\ AllRedoRestores
        /\ \A i \in 1..Len(LiveRefs) : Readable(LiveRefs[i])

\* Contradicted by replay.  historyText says of a text over the quota: "The
\* edit remains valid but intentionally has no undo entry after the epoch
\* change above."
UndoRestoresAfterReplay == job = Idle => AllUndoRestores
=============================================================================
