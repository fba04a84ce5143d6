# Docengine: a TLA+ model of the document core

Docengine keeps one local UTF-8 file open as a `document.Session`: edits go into
a recovery journal and a piece tree, saves replace the file atomically, a crash
is repaired by replaying the journal, and hosts follow along through snapshots,
change maps, coordinate indexes, pagers and an event stream. These modules model
the parts where orders of steps, failures and limits meet. Everything is
translated from the Go source; `PROJECT.json` maps each definition to its lines.

## Inventory

| Component | State | Operations | What is hard |
|---|---|---|---|
| Event stream (`document/events.go`) | ring of events, subscriptions with bounded channels, drop counters | publish, subscribe with catch-up, unsubscribe, close | the publisher drains a full channel while its consumer receives from it; the hub must not wait; the ring wraps; the sequence ends |
| Transactions, save, recovery (`document/session.go`, `recovery/journal.go`, `document/save`) | base file, journals, revision, committed revision, pending operations, fault | `ApplyBatch`, journal sync, `CommitAtLeast`, `Close`, `Open` with quarantine and replay | a crash between any two writes; edits during a save; failure after the rename; other programs writing the file; leased old journals |
| Undo (`session.go`, `undo_store.go`, `compaction.go`) | two stacks of references into a quota-bound file, an epoch | edit, `Undo`, `Redo`, `Compact`, replay | a reset in the middle of an edit; references moved by compaction |
| Lifecycle (`session_lifecycle.go`, `generation.go`, `session.go`) | save token, waiters, generations with reference counts, leases, checkpoint request, background loop, close barrier | `acquireSave`, snapshot, `syncLoop`, `CloseContext` | close, background save and host saves wait for each other; results that arrive after a generation was replaced |
| Retained changes (`change_history.go`, `coordinate/changemap.go`) | ring of change maps | append on commit, queries both ways, anchors, ranges | eviction, boundaries inside batches, boundary offsets, limits that meet exactly |
| Coordinate index (`coordinate/index.go`) | checkpoints | build, incremental rebuild, three queries | seams of repeated incremental rebuilds; data captured under a lock and used after it |
| Virtual pager (`document/virtual`) | published state with its generation, task tokens, reserved bytes, page cache, progress operations, close barrier | build, rebuild, read page and windows, publish by compare-and-swap, refresh through a provider, report, close | slow providers against newer publications, pages stored late, reports after the provider has returned, close against admitted tasks, pages cut by fragments and budgets |
| Piece tree (`document/store`) | treap of pieces with cached sums, sources, generator, compaction schedule | replace, read, compact, snapshot, restore, clone of a transaction | long sequences of cuts; caches; roots that move between schedules |
| Session directories (`session_cleanup.go`) | directory, marker with its lock, undo stores | open, reclaim, close, crash | paths removed after the lock was given up; reclaim against start-up |
| Options, scanning, codecs, system shims | none of their own | | |

A Session calls the journal, the tree, the undo store and the change ring while
it holds `s.mu`; a save holds the token of `s.saveGate` and takes `s.mu` only at
its ends; the background goroutine syncs the journal without `s.mu` and saves
like a host; readers hold reference-counted leases on generations; the event hub
has a lock of its own and is called under `s.mu`.

What makes each part correct: no acknowledged edit is lost or replayed twice; the
file is the committed revision; a save never changes the document; undo restores
exactly what was; the token is unique and close completes; sources outlive their
readers; no event is lost without being counted; anchors stay with their text; an
incremental index equals a full one; a page generation names one state, built from
the generation before; a session directory belongs to one Session; a tree reads
the bytes that were put into it.

## Modules

| Module | Models | Checked by | Proofs |
|---|---|---|---|
| `EventHub` | event stream | `MCEventHub` | `EventHubProofs` |
| `DurableDocument` | abstract: what a Session promises of one document | as a property of `SessionPersistence` | `SessionPersistenceProofs` |
| `SessionPersistence` | transactions, journal, save, crash, open; implements `DurableDocument` | `MCSessionPersistence` | `SessionPersistenceProofs` |
| `UndoHistory` | undo, redo, compaction, history after replay | `MCUndoHistory` | `UndoHistoryProofs` |
| `Lifecycle` | savers, loop, leases, generations, close | `MCLifecycle` | `LifecycleProofs` |
| `ChangeMap` | operators on change maps | through `ChangeHistory` | `ChangeHistoryProofs` |
| `CoordinateIndex` | scan, incremental rebuild, queries, as operators | through `ChangeHistory` | `ChangeHistoryProofs` |
| `ChangeHistory` | ring of maps, refresh of a host's index; composes the two above | `MCChangeHistory` | `ChangeHistoryProofs` |
| `PageLayout` | logical pages, published pages, windows, as operators with reference definitions | through `VirtualPager` | |
| `VirtualPager` | goroutines of one pager; composes `PageLayout` | `MCVirtualPager` | `VirtualPagerProofs` |
| `SessionCleanup` | opens, closes and reclamations of one session directory | `MCSessionCleanup` | `SessionCleanupProofs` |
| `PieceTree` | piece tree, its compaction and its clones | `MCPieceTree` | |
| `DataInduction` | nothing of the code: induction, recursion and sums for the proofs | | itself |

**EventHub.** `h.mu` is held for the whole of a publish or a join (`work`); a
consumer receives without it, so each channel operation of `offerEvent`
(`OfferRoom`, `OfferFull`, `DrainOne`, `DrainEnd`) is a step and `Receive` may
fall between any two. An event is its sequence number and the `Dropped` count of
the delivery.

**SessionPersistence.** A content is a model value, a transaction a partial function on
contents with a width (operations, hence revisions) and a size in the journal. A
fingerprint is the content it was taken from. `apply` and `save` say where the holder of
`s.mu` and of the save token are; `commitAtLeast` is taken apart at every write that
survives a crash: journal created, header written, filled and synced, base renamed,
directory synced, base reopened, groups rebound, generation installed. `left` counts,
for each content, the journals of a failed `openJournal` that hold a readable header and
nothing else: the header was written, only its Sync failed, and nobody removes the file
(`ApplyHeaderUnsynced`, `SavePrepareUnsynced`). `ProcessExit` keeps files as written and
may tear the batch being written; `PowerLoss` also drops unsynced batches, directory
entries and an unsynced rename. `hist`, `acked` and `durable` remember what each
revision stood for (nothing, if it was never attempted or was taken back), what a host
was told and what was synced.

`DurableDocument` says the same without any file: numbered versions of a text, of which
the last answered one survives an exit and the last durable one a loss of power; an Open
shows it, or a later attempt, or reports an error. A version that was not attempted, or
that was taken back (`Withdraw`), has no text, so an Open can never show it, and never
one older than the last answered version; where numbering starts again (`Restart`) it
does so with the text that is shown. An Open that reports an error and quarantines what
it could not match is `Refuse`. The mapping takes `hist` for the texts of the versions
and shows `doc` while a Session is open; a save, its rebase and its failures are then
stuttering steps or `Harden`. A foreign write or a fingerprint seen before ends the
promise (`trusted`) until an Open starts a new lineage.

**UndoHistory.** Documents and texts are short character sequences, so that a
wrong reference reads wrong text. A transaction is taken apart at each staged
operation since a quota reset is not taken back when a later step fails. `past`
and `future` remember the documents the stacks must lead to.

**Lifecycle.** One action is one critical section or one channel operation. The
contents are left out; journal bytes count uncommitted transactions.

**ChangeHistory.** A document is a sequence of runes with widths of one or two
bytes; each inserted rune has an identity no code reads, which lets a property
say that *the same* rune is still behind an anchor. Undo and Redo commit batches
like any other. A refresh captures ring and snapshot in one step and works on
them later.

**VirtualPager.** One action is one critical section under `p.mu` or `o.mu`, one
channel operation, or the code between two of them. Cancellation and failing reads
are early returns that are always possible where the code looks. A token is
taken out of `p.tasks` (`LeaveTask`) before `taskCond` is broadcast (`Wake`), as
in `releaseTask`; `taskCond.Wait` unlocks and parks in one step (`CloserCheck`).
`author` remembers which operation published a generation. `PageLayout` computes
pages as the code does, by scans, sorted boundaries and searches; `LogicalExact`,
`PublishedExact` and the `...WindowExact` operators say without them what the
results have to be.

**SessionCleanup.** One action is one system call of `reclaimSessionDirectoryWith`,
`openOwnedSessionMarkerWith` or `sessionMarker.close`. The marker's path names an
inode, and a lock belongs to an inode (`flock`), so that a path can be removed and
created again under a process that has the old file open.

**PieceTree.** A node is a record with its subtrees, so a root is a value, as it is
in the code, where nodes are never changed. `rng` counts the calls of `makeNode`,
and `Ranks` are the ranks of the priorities that xorshift64* yields from the fixed
seed. Replay and a save edit a tree in place; a transaction edits a clone
(`cloneDocumentTree`), whose generator and schedule start anew.

## Runs

| Run | Result | What it shows |
|---|---|---|
| `event_hub` | passes, 130 048 states | two subscribers, buffers of 1 and 2, a ring of 2, sequences up to exhaustion at 4: `Dropped` counts add up to what was offered and not received, and over all subscriptions to what `EventStats` counts; the newest event survives, order is kept, a publish ends |
| `event_gap` | violation | the overflow delivery carries `Dropped` 1 where the gap `MODULES.md` describes is 0, when the consumer receives a later event during the drain |
| `persistence` | passes, 1 095 946 states | three contents in a row with a forward, a backward and a two-operation transaction, two journals at a time, three revisions, two faults (exits, power losses, headers left by a failed Sync, foreign writes) at any moment: every behaviour is one of `DurableDocument`, what an Open would recover contains everything acknowledged, in every state, and only a foreign write behind the final check can be overwritten |
| `stale_replay` | violation | a leased old journal survives a clean close and is replayed once the base has its fingerprint again |
| `undo` | passes, 99 702 states | a quota of four characters met by texts of one and two: resets, compaction, saves, failed transactions |
| `undo_replay` | violation | replay keeps an entry built across a quota reset |
| `lifecycle` | passes, 50 192 states | one host saver, the loop, a lease under a budget of one, two transactions, three generations, close at any time, after which no save runs; with liveness |
| `change_history` | passes, 28 050 states | five operations in batches of one and two over a ring of two maps; blocks of two bytes so that most rebuilds have a prefix, a seam and a suffix |
| `pager` | passes, 401 042 states | one caller that reads and publishes, one that reads, refreshes and rebuilds, a closer; two generations, two operations, a cache of three bytes; and the layout of five sources under every publication of up to two fragments |
| `cleanup` | passes, 278 046 states | two Sessions and a reclaimer on a leftover of a crash, a directory with a malformed marker and one with a foreign file; three calls, a crash or a failure at any system call; what a held lock protects from, and that a written marker left by a crash keeps no Open out |
| `cleanup_race` | violation | two Opens of a new directory: the second removes the marker of the first, before or after the first has locked it |
| `piece_tree` | passes, 473 016 states | a base of three bytes, two journals, three edits, compactions or restores, with compaction at two pieces or disabled, in place or on clones, and a snapshot taken at any time |

Why the bounds are enough. Two subscribers show that serving one does not
disturb the other; buffer 1 is the case in which draining empties the channel,
buffer 2 the one in which it does not. A save meets at most one current and one
prepared journal, and a third matters only with a leased one (`stale_replay` has
three); two faults allow a crash during the recovery from a
crash; three revisions allow a saved, a carried-over and a new transaction in one
save. The lifecycle needs one host beside the loop for contention, a generation
retired while leased, and one that replaces the leased one. Two publications from
one generation, and a third operation that finds the identifiers used up, show the
race of the pager; page sizes of two and three bytes with runes of one and two put
every kind of cut within four runes. Removal after unlocking needs one process
beside the one it harms, a third shows that the lock protects from everybody who
comes later. Two insertions into a base of three bytes give five pieces, which is the second
trigger of a threshold of two. A ring of two maps
wraps with three transactions, and two incremental rebuilds follow one another.
`MaximumEdits` is 4 there, exactly ring times batch, as 4096 x 256 = 2^20 is in
the code.

Deadlock checking is off throughout: the counters that bound a model end every
behaviour, and a closed Session rightly stops.

Assumptions of `NothingLost`, `ImplementsDurableDocument` and `BaseIsCommitted`: no
other program wrote the base (`external`), and no save met its own fingerprint on disk
(`aba`: edit, undo and save, say). `ReopenFindsOnePair` also excludes a clean close that
left a leased generation (`stray`, the case of `stale_replay`), a half-created journal,
a header left by a failed Sync (`left`), a journal whose directory entry a power loss
took, and what is left by an Open that quarantined several matching journals and
reported it. With a left header `NothingLost` still holds, but an Open quarantines the
journal together with the header instead of replaying it, and says so. Truncation,
removal and quarantine renames succeed; no power is lost while a rename is still
unsynced after its `DurabilityError` or after a process exit; the filling of a prepared
journal is one step (a partly filled one has no matching base yet, unless `aba`); one
Session has a file open.

## Fairness

`EventHub`: weak fairness of the steps of the goroutine that holds `h.mu`; a
consumer may never receive again. `Lifecycle`: goroutines past their last
blocking point run on (weak); Go's `select` chooses at random among ready cases,
so a case that is ready again and again is taken (strong, `LoopTake`,
`LoopStop`); a channel serves blocked receivers in order (strong, `AcquireGate`);
a cancelled Session wakes its waiters (weak); hosts close their leases. Nothing is
assumed of the Context of a host's save. `VirtualPager`: goroutines run on, and a
provider, host code that may take for ever, returns once the pager is closed
(`types.go`: "Calls must honor Context cancellation"); nobody has to call or close
anything. The other modules state no liveness.

## What the model found

Each is a finding in `PROJECT.json` with the run that shows it.

1. `offerEvent` (`document/events.go:282`): the `Dropped` of an overflow delivery can
   exceed the gap in front of it, when the consumer receives a later event between two
   receives of the drain: the drained one is counted although it lies before what the
   consumer has seen. `LossAccounting` is the exact statement that does hold.
2. `replay` (`document/session.go:530`) pushes an undo entry without the epoch
   check that `applyOperationsLocked` makes.
3. `finishClose` waits for the current generation only, so an older leased journal
   can be matched by a later Open.
4. `reclaimSessionDirectoryWith` (`session_cleanup.go:174`) removes by path after
   it has given the lock up, and a marker is written before it is locked, so a held
   lock does not always protect a Session; the removal may come before or after the
   lock. `LockProtects` is what does hold, as long as the Session has its marker: only
   a call that was under way when the Session locked can take its undo store, and only
   such a call, or the Close of a Session that had itself lost its marker
   (`session_cleanup.go:247` removes whatever is at the path), can take its marker.

Four observations have no run of their own; the modules and the exceptions of their
properties cover them. When the Sync behind a written journal header fails
(`recovery/journal.go:409`), the journal stays and nobody removes it; the next
transaction, or the next save, creates another one with the same fingerprint, and an
Open finds two matching journals and quarantines both. The variable `left` counts
these files. The empty marker of a process that ended between its creation and its
write (`session_cleanup.go:215-225`) is not reclaimed, locked or not, and every later
Open of that directory returns `ErrSessionInUse`; `LeftoverReclaimed` is what does
hold, once the marker was written. A save of a content equal to its base
(edit, undo, save) has two journals with the base's fingerprint on disk while it
runs, so a crash then leaves two matching pairs, where `MODULES.md:510` speaks of
a unique one; the variable `aba` of `SessionPersistence` marks these states. And
since every transaction runs on a clone, whose `Restore` sets the compaction
trigger back to the threshold, the back-off that `MODULES.md:104` describes does
not reach a Session: beyond the threshold each transaction scans the pieces. The
clone's generator starts anew as well, so that the pieces of single insertions all
have one priority. Neither changes a content.

## Proofs

TLC checks the instances above; the theorems hold for every value of the constants
the `ASSUME`s admit. TLC has checked each inductive invariant on the instance of its
run too, except `HistoryInv`, which says that a timeline exists and so quantifies over
functions.

| Module | Theorem | States |
|---|---|---|
| `EventHubProofs` | `TypeCorrect`, `RingIsWindow`, `OrderedDelivery`, `NewestIsKept`, `LossesAreExact` | `[]TypeOK`, `[]RingWindow`, `[]DeliveryOrder`, `[]NewestSurvives`, `[]LossAccounting` |
| `SessionPersistenceProofs` | `TypeCorrect`, `JournalIsPending`, `ForeignWriteKept` | `[]TypeOK`, `[]JournalMirrorsPending`, `NoClobber` |
| | `ReplayIsTotal`, `AnsweredIsKept`, `CommittedIsOnDisk`, `OpenFindsThePair` | `[]ReplayNeverRejects`, `[]NothingLost`, `[]BaseIsCommitted`, `[]ReopenFindsOnePair` |
| | `SessionImplementsDocument` | `ImplementsDurableDocument`, the refinement |
| `UndoHistoryProofs` | `UndoTypeCorrect`, `UndoRedoIsExact`, `UndoInvariance` | `[]TypeOK`, `[]UndoRedoRestore`, and the inductive invariant `[]UndoInv` of both |
| `LifecycleProofs` | `TypeCorrect`, `TokenIsUnique`, `ReferencesAreExact`, `RequestFindsRoom`, `CloseIsFinal`, `NoUseAfterClose` | `[]TypeOK`, `[]OneToken`, `[]RefsAreExact`, `[]RequestNeverBlocks`, `QuietAfterClose`, `[]SourcesStayOpen` |
| `VirtualPagerProofs` | `SourceReleasedLast`, `GenerationsChain`, `ReportsAreHonest`, `BudgetsAreExact` | `[]SourceOutlivesTasks`, `PublicationsChain`, `ProgressHonest`, `[]BudgetsExact` |
| `ChangeHistoryProofs` | `HistoryTypeCorrect`, `QueriesAreExact`, `AnchorsStayWithText`, `IndexIsExact`, `HistoryInvariance` | `[]TypeOK`, `[]QueryExact`, `[]AnchorsTrackText`, `[]IndexAnswersExactly`, and the inductive invariant `[]HistoryInv` of all four |
| `SessionCleanupProofs` | `ReclamationIsConservative`, `OneUserAtATime`, `LateCallsFindTheLock`, `CrashKeepsNobodyOut` | `[]ForeignKept`, `[]UsedByOne`, `LockProtects`, `LeftoverReclaimed` |

**EventHubProofs.** `TypeInv` adds to the types that the holder of the lock
serves live subscribers with the newest event (`WorkOK`), that a drain serves the
event the holder owes (`OfferOK`) and that capacities are positive (`CapOK`).
`ChannelInv` adds that every event still owed to a subscriber is newer than all
it has queued or received, which needs `RingWindow` for a subscriber that joins:
the ring gives it its events in increasing order. `TipInv` adds that whoever is
not owed the newest event has it. `LossInv` is `LossAccounting` with two facts about
subscriptions that have not started or are joining; a drained delivery turns into the
losses it reported and one more, and since the account never exceeds the sequence,
`saturatingAdd` does not saturate. What the recursive `QueueWeight` computes for a
send and a receive is proved by induction (`WeightSend`, `WeightReceive`); the
induction principle is `SetInduction` of `DataInduction`. The ring lemma `WrapOnce`
is the only arithmetic about `%`.

**SessionPersistenceProofs.** Who owns which file. `StructInv` is the types and, by
the step a transaction, a save or an Open has reached, what each journal holds:
`DownInv` (no Session), `ReplayInv` and `OpenInv` (what an Open has found and replayed),
`ApplyInv` (a batch written and not yet published, or to be taken back), `SaveInv`
(the prepared journal against the list it was filled from). `JournalMirrorsPending`
is the case in which nobody is under way, and needs all the others.

Then what the files mean. `ValidInv`: every journal can be
replayed from the content its header names, and base and groups lead to `doc`; this
gives `ReplayNeverRejects`. `TrustInv`: along that replay lie the contents the host was
shown. `NothingLost` is not inductive because it speaks of the journal that matches the
base now, while a save is about to change which one does and a power loss which parts
of it there are; so `Pair` and `Carries` say for the matching and for the prepared
journal how far they reach now and how far after a loss of power. The refinement maps
`ApplyAppend` to `Attempt`, `ApplyRollback` to `Withdraw`, `ApplyPublish` to `Answer`, the syncs of journal and
directory to `Harden`, `Close` and `ProcessExit` to `Leave`, `PowerLoss` to `LosePower`,
the end of an Open (`OpenFresh`, `OpenAdopt`, `ReplayDone`) to `Reopen`, one that
quarantines what might have matched (`OpenAmbiguous`, `OpenMismatch`, `OpenFails`) to `Refuse`, a foreign write or a fingerprint met again
to `Distrust`; every other step is a stuttering one. Fairness is on neither side.

**UndoHistoryProofs.** `UndoRedoRestore` speaks of what undo entries lead back to and redo
entries forward to; `UndoInv` makes it inductive. `StackInv`: every entry leads both ways
with the texts now in the store, since Undo moves it to the other stack. `RefInv`: no two
references share a byte, so that the store copied by `rewriteContext`, each text once, is
never longer than the old one (`SizesFit` counts the bytes) and stays within the quota.
`JobInv`: the entry of the transaction under way leads from the document to the staged tree
and back, or a reset has emptied the stacks under it. `JournalInv`: the journal's
transactions fit the documents they meet, so that a replay after an exit rebuilds entries
that fit. The lemmas say that an operation is undone by what it deleted
(`InverseUndoes`), what a run of operations is when one is appended or put in front
(`RunAppend`, `RunCons`, for the reversed inverse), that a longer store reads the same texts
(`MatGrows`), and that a moved reference reads the text it had (`RemapShape`, `RemapMat`).
Where the texts lie in the store is the recursive `Sizes`, and `FlattenSeq` puts them there
(`FlattenShape`); both are unfolded by induction. `tainted`, a replay that ran into the
quota, is the case of the run `undo_replay` and the only exception.

**ChangeHistoryProofs.** `HistoryInv` says that one timeline explains the state: a document
for every revision, those inside a batch included, and one edit from each to the next. Every
map of the ring is the slice of the timeline between two boundaries, the boundaries are the
last published revisions, and what a refresh captured, as well as the index of the host, is
read off the same timeline however far it has gone on since (`Told`). Appending keeps this
because a full ring gives up exactly its oldest slice (`AppendRing`); a query composes
adjacent slices to one slice, never with more edits than `MaximumEdits` (`ComposeChain`), and
inverting it runs the timeline backwards (`TrackBack`). For anchors, one edit moves the offsets
of a surviving rune as it moves the rune (`OneStep`), a rune once gone does not come back
(`Timeline`), and offsets never overtake one another (`TransformMonotone`), which gives the
ranges.

For the index, `Covers` says that checkpoints are positions from the start of the document on,
each within one window of the next. A scan keeps it (`ScanCovers`, by induction over the
runes), and so does the rebuild: the checkpoints in front of every edit are positions of the
new document (`PrefixCovers`); from `stableSuffix` on both documents hold the same runes
(`SuffixStays`, by induction over the edits), also where edits overlap one another; a position
translated across such a suffix is the position there (`PositionTranslated`: the column is that
of the new seam only up to the first line feed), and consecutive ones stay within one window
(`AppendTranslated`). A query then finds its place: the checkpoint in front of it is the last
one not behind it in bytes, runes, or lines and columns, which order the positions alike
(`PositionOrder`), and decoding one window passes it (`Found`).

**LifecycleProofs.** The token is in one place because whoever waits, saves or closes is
counted (`TokenInv`, `QueueInv`); the closer passes its barriers in order (`CloseInv`);
a reference count is a cardinality of the leases and savers that point to the generation
(`RefsInv`, `CounterInv`), so that a count of zero means that nobody reads it
(`ReaderInv`, `ClosedInv`). `CloseIsFinal` uses that the closer has had the token
itself: nobody was past `acquireSave` then, and whoever gets the token after it finds
the Session closed and puts it back.

**VirtualPagerProofs.** `RequestInv` ties the phase of a caller to its request,
`TaskInv` the token counter to the admitted callers and the closer to the counter,
`OperationInv` and `AuthorInv` say which operation has published what, by the phase its
caller has reached; a report that comes late finds `reporting` ended. `BudgetInv` adds
what the bytes are: a read that has captured a state holds a range of pages of that very
state and a natural number of bytes, the reserved bytes are the sum over the reads that
hold some, and the cache lists pages of the current generation, each once, within its
budget. Its terms are lengths of pages, so the layout has to be typed: the scan ends
with a sequence of pages (`LogicalType`), the boundaries of any publication are finitely
many numbers that sort to a growing sequence (`BoundariesFinite`, `SortedGrows`), and a
window never leaves the pages of its state (`WindowOK`). A sum takes out or adds one
term (`BytesSplit`) and does not change when its terms are reordered (`BytesReindex`,
for the move to the front).

**DataInduction.** What these proofs use of induction: `SetInduction` (the property is a
set, since the provers cannot instantiate an operator), that recursions over a prefix or
over the subsets of a finite set have a solution (`ChainExists`, `FoldExists`), that a
fold with `+` does not depend on the order (`FoldIsSum`, `SumReindex`), and the greatest
element and the ranks of a finite set of numbers (`GreatestOf`, `RankExists`).

**SessionCleanupProofs.** `HandleInv` ties a process's phase to the inodes it has open
and locked, `MalformedInv` and `ForeignInv` say what keeps a directory from being
removed, `RacersInv` says who can still be about to remove a path: a call that was under
way when the lock was taken, or a Close that is `displaced`. `AloneInv` and `StoreInv`
are what holds as long as no two calls overlap; they give `UsedByOne` (one user at a
time, no undo store without a written marker), which is proved and has no run of its
own. `LeftInv` is how far a reclamation of the exact directory has got by then: what it
has read of the marker that is still at the path, and that it is gone when the directory
is removed. The half of `ForeignKept` that is about entries of the host rests on there
being no step that removes one.

Assumptions on the constants, besides bounds being naturals: the sets of subscriptions,
hosts, leases, callers and processes are finite; transactions have positive width and
effects within the contents; sources are sequences of kinds of runes; publications carry
an integer watermark and fragments with integer bounds; requests are of the four kinds
and carry budgets `resolveBudget` admits; a file has at most `MaxLength` characters and a
host's transaction at least one operation; the initial document and inserted texts consist
of known kinds of runes, and a full ring composes to at most `MaximumEdits` edits;
`Nobody` is not a process. Every one is evaluated by TLC in a run.

Only model-checked:

- `PublisherNeverWaits`, `CloseCompletes`, `RequestsEnd`, `CloseEnds`: liveness.
- `EventHub!StatsMatchReports`: a sum over all subscriptions.
- `VirtualPager!LayoutExact`: it compares the page scan and the windows with reference
  definitions on chosen inputs.
- `PieceTree`: uses `RECURSIVE` and is for TLC alone.
- the violations: a counterexample is the point.

## Not modelled

The window cache of an index (transparent over an immutable source) and the bulk
transform budgets; byte encodings and checksums of the journal, UTF-8 decoding,
BOM and line-ending detection; partial writes of the undo file; the 64 KiB blocks
of the page scan; locks and removal on Windows; options, system shims; the payloads
of persistence events.

## What is left

1. Proofs: the page scan of `PageLayout` against its reference definitions; `PieceTree`,
   whose `RECURSIVE` operators the provers do not reach.
2. `SessionPersistence`: a failing `RepairTail`; the filling of a prepared journal
   batch by batch.
