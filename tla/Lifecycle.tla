----------------------------- MODULE Lifecycle -----------------------------
(***************************************************************************)
(* The goroutines of one document.Session and what they share: the save    *)
(* serializer (saveGate, acquireSave, releaseSave), source generations and *)
(* their leases (sourceGeneration, snapshotLocked), the background loop    *)
(* with its journal sync and automatic checkpoints (syncLoop), and the     *)
(* close barrier (CloseContext, finishClose).                              *)
(*                                                                         *)
(* One action is one critical section under s.mu, one channel operation,   *)
(* or one critical section of a generation's own mutex.  The barrier of a  *)
(* save, its replacement and its installation keep s.mu throughout and are *)
(* one action; SessionPersistence takes them apart.  A cancellation may    *)
(* fall behind the last check of a save, so every save that streams may    *)
(* still commit.  s.journalBytes counts transactions not yet committed.    *)
(***************************************************************************)
EXTENDS Naturals, Sequences, FiniteSets

CONSTANTS
    Hosts,             \* goroutines of the host that save
    Loop,              \* the goroutine of syncLoop, a saver as well
    Leases,            \* names of Snapshot leases
    MaxSnapshotLeases, \* Limits.MaxSnapshotLeases
    Threshold,         \* AutoCheckpointJournalBytes, 0 for none
    MaxRevision,       \* bound on transactions
    MaxGeneration      \* bound on committed saves

ASSUME LifecycleAssumption ==
    /\ Loop \notin Hosts /\ IsFiniteSet(Hosts) /\ IsFiniteSet(Leases)
    /\ MaxSnapshotLeases \in Nat /\ Threshold \in Nat
    /\ MaxRevision \in Nat /\ MaxGeneration \in Nat \ {0}

Savers == Hosts \cup {Loop}
Generations == 1..MaxGeneration
Revisions == 0..MaxRevision

VARIABLES
    rev, committed, fault, \* s.revision, s.committedRevision, s.fault # nil
    gen,          \* s.generation
    refs,         \* refs of each generation
    retired,      \* retired of each generation
    released,     \* generations whose file handles are closed
    lease,        \* Snapshot lease -> [gen, counted]
    active,       \* s.activeSnapshotLeases
    gate,         \* a token is in s.saveGate
    waiting,      \* s.waitingSaves
    saveActive,   \* s.saveActive
    pc, saveGen, target, \* of each saver
    loop,         \* where syncLoop is
    syncing, failed,     \* the journal being synced, and whether Sync failed
    syncErr,      \* s.journalSyncErr # nil
    queue,        \* s.checkpointRequest, capacity one
    ckptPending,  \* s.automaticCheckpointPending
    nextCkpt,     \* s.nextJournalCheckpoint
    cancelled,    \* s.lifecycleContext is cancelled
    closed,       \* s.closed; s.stopSync is closed with it
    closer,       \* where finishClose is
    stale         \* history variable: a sync error of a closed journal was kept

document == <<rev, committed, fault>>
sources == <<gen, refs, retired, released>>
snapshots == <<lease, active>>
serializer == <<gate, waiting, saveActive>>
saving == <<pc, saveGen, target>>
background == <<loop, syncing, failed, syncErr, stale>>
checkpoint == <<queue, ckptPending, nextCkpt>>
closing == <<cancelled, closed, closer>>
vars == <<document, sources, snapshots, serializer, saving, background,
          checkpoint, closing>>

NoLease == [gen |-> 0, counted |-> FALSE]
Ending == cancelled \/ closed
HasJournal == rev > 0 \/ gen > 1

Init ==
    /\ rev = 0 /\ committed = 0 /\ fault = FALSE
    /\ gen = 1
    /\ refs = [g \in Generations |-> IF g = 1 THEN 1 ELSE 0]
    /\ retired = {} /\ released = {}
    /\ lease = [l \in Leases |-> NoLease] /\ active = 0
    /\ gate = TRUE /\ waiting = 0 /\ saveActive = FALSE
    /\ pc = [p \in Savers |-> "idle"]
    /\ saveGen = [p \in Savers |-> 0] /\ target = [p \in Savers |-> 0]
    /\ loop = "select" /\ syncing = 0 /\ failed = FALSE
    /\ syncErr = FALSE /\ stale = FALSE
    /\ queue = <<>> /\ ckptPending = FALSE /\ nextCkpt = Threshold
    /\ cancelled = FALSE /\ closed = FALSE /\ closer = "none"

Goto(p, label) == pc' = [pc EXCEPT ![p] = label]

-----------------------------------------------------------------------------
\* Automatic checkpoints

\* Mutant: a request may be queued while one is under way.
MayScheduleTwice(r, c, next, pending) ==
    Threshold # 0 /\ ~Ending /\ ~fault /\ r - c >= next

\* The early returns of maybeScheduleJournalCheckpointLocked.
MaySchedule(r, c, next, pending) ==
    Threshold # 0 /\ ~Ending /\ ~fault /\ ~pending /\ r - c >= next

\* maybeScheduleJournalCheckpointLocked at revision r with c committed.  The
\* send is made under s.mu: with a full channel the Session would stop.
ScheduleCheckpoint(r, c, next, pending) ==
    IF MaySchedule(r, c, next, pending)
    THEN /\ nextCkpt' = (r - c) + Threshold
         /\ ckptPending' = TRUE
         /\ queue' = Append(queue, r)
    ELSE /\ nextCkpt' = next /\ ckptPending' = pending /\ UNCHANGED queue

\* Mutant: a transaction does not look at s.closed.
EditIgnoresClose ==
    /\ ~fault /\ rev < MaxRevision
    /\ rev' = rev + 1
    /\ ScheduleCheckpoint(rev + 1, committed, nextCkpt, ckptPending)
    /\ UNCHANGED <<committed, fault, sources, snapshots, serializer, saving,
                   background, closing>>

\* ApplyBatch, Undo or Redo.
Edit ==
    /\ ~Ending /\ ~fault /\ rev < MaxRevision
    /\ rev' = rev + 1
    /\ ScheduleCheckpoint(rev + 1, committed, nextCkpt, ckptPending)
    /\ UNCHANGED <<committed, fault, sources, snapshots, serializer, saving,
                   background, closing>>

-----------------------------------------------------------------------------
\* Generations and leases

\* release and closeIfUnusedLocked after one reference of g is gone.
Drop(g, nowRetired) ==
    /\ refs' = [refs EXCEPT ![g] = @ - 1]
    /\ released' = IF refs[g] = 1 /\ g \in nowRetired
                   THEN released \cup {g} ELSE released

\* Mutant: the lease does not count as a reference of its generation.
TakeSnapshotUnreferenced(l) ==
    /\ ~Ending /\ lease[l] = NoLease /\ active < MaxSnapshotLeases
    /\ lease' = [lease EXCEPT ![l] = [gen |-> gen, counted |-> TRUE]]
    /\ active' = active + 1
    /\ UNCHANGED <<document, sources, serializer, saving, background,
                   checkpoint, closing>>

\* Snapshot
TakeSnapshot(l) ==
    /\ ~Ending /\ lease[l] = NoLease
    /\ active < MaxSnapshotLeases
    /\ lease' = [lease EXCEPT ![l] = [gen |-> gen, counted |-> TRUE]]
    /\ refs' = [refs EXCEPT ![gen] = @ + 1]
    /\ active' = active + 1
    /\ UNCHANGED <<document, gen, retired, released, serializer, saving,
                   background, checkpoint, closing>>

\* trackedSnapshotLease.Close: the budget is given back first ...
UncountLease(l) ==
    /\ lease[l].counted
    /\ lease' = [lease EXCEPT ![l].counted = FALSE]
    /\ active' = IF active > 0 THEN active - 1 ELSE 0
    /\ UNCHANGED <<document, sources, serializer, saving, background,
                   checkpoint, closing>>

\* Mutant: a lease can be closed twice.
ReleaseLeaseAgain(l) ==
    /\ lease[l] # NoLease /\ ~lease[l].counted
    /\ Drop(lease[l].gen, retired)
    /\ UNCHANGED <<document, gen, retired, snapshots, serializer, saving,
                   background, checkpoint, closing>>

\* ... and then the generation, without s.mu.
ReleaseLease(l) ==
    /\ lease[l] # NoLease /\ ~lease[l].counted
    /\ Drop(lease[l].gen, retired)
    /\ lease' = [lease EXCEPT ![l] = NoLease]
    /\ UNCHANGED <<document, gen, retired, active, serializer, saving,
                   background, checkpoint, closing>>

-----------------------------------------------------------------------------
\* The save serializer

\* acquireSave up to the select; the loop saves for a queued checkpoint.
AcquireBegin(p) ==
    /\ pc[p] = "idle" /\ ~Ending
    /\ p = Loop => loop = "checkpoint"
    /\ waiting' = waiting + 1
    /\ Goto(p, "wait")
    /\ UNCHANGED <<document, sources, snapshots, gate, saveActive, saveGen,
                   target, background, checkpoint, closing>>

\* A closing Session refuses the loop's save at once.
AcquireRefused ==
    /\ pc[Loop] = "idle" /\ loop = "checkpoint" /\ Ending
    /\ loop' = "after"
    /\ UNCHANGED <<document, sources, snapshots, serializer, saving, syncing,
                   failed, syncErr, stale, checkpoint, closing>>

\* End of a saver's call; the loop goes on with its own code.
Return(p) ==
    /\ Goto(p, "idle")
    /\ loop' = IF p = Loop THEN "after" ELSE loop

\* The select takes <-ctx.Done() or <-lifecycleContext.Done().
AcquireLeave(p) ==
    /\ pc[p] = "wait"
    /\ cancelled \/ p # Loop
    /\ waiting' = waiting - 1
    /\ Return(p)
    /\ UNCHANGED <<document, sources, snapshots, gate, saveActive, saveGen,
                   target, syncing, failed, syncErr, stale, checkpoint,
                   closing>>

\* The select takes the token, even if a cancellation is ready too.
AcquireGate(p) ==
    /\ pc[p] = "wait" /\ gate
    /\ gate' = FALSE
    /\ Goto(p, "recheck")
    /\ UNCHANGED <<document, sources, snapshots, waiting, saveActive, saveGen,
                   target, background, checkpoint, closing>>

\* Mutant: the token is not put back when the Session turns out to be closing.
AcquireRecheckKeepsToken(p) ==
    /\ pc[p] = "recheck"
    /\ waiting' = waiting - 1
    /\ IF Ending THEN Return(p) /\ UNCHANGED saveActive
       ELSE saveActive' = TRUE /\ Goto(p, "begin") /\ UNCHANGED loop
    /\ UNCHANGED <<document, sources, snapshots, gate, saveGen, target,
                   syncing, failed, syncErr, stale, checkpoint, closing>>

\* Mutant: a caller that got the token does not look at s.closed again.
AcquireRecheckTrusts(p) ==
    /\ pc[p] = "recheck"
    /\ waiting' = waiting - 1
    /\ saveActive' = TRUE /\ Goto(p, "begin")
    /\ UNCHANGED <<document, sources, snapshots, gate, saveGen, target,
                   background, checkpoint, closing>>

\* acquireSave after the select: closing or cancelled callers give up.
AcquireRecheck(p) ==
    /\ pc[p] = "recheck"
    /\ waiting' = waiting - 1
    /\ \/ Ending /\ Goto(p, "return") /\ UNCHANGED saveActive
       \/ p # Loop /\ Goto(p, "return") /\ UNCHANGED saveActive
       \/ ~Ending /\ saveActive' = TRUE /\ Goto(p, "begin")
    /\ UNCHANGED <<document, sources, snapshots, gate, saveGen, target,
                   background, checkpoint, closing>>

\* Mutant: an early return that skips releaseSave.
SaveNothingLeaks(p) ==
    /\ pc[p] = "begin"
    /\ Ending \/ fault \/ rev = committed
    /\ saveActive' = FALSE
    /\ Return(p)
    /\ UNCHANGED <<document, sources, snapshots, gate, waiting, saveGen,
                   target, syncing, failed, syncErr, stale, checkpoint,
                   closing>>

\* commitAtLeast finds the Session closing or faulted, or nothing to write.
SaveNothing(p) ==
    /\ pc[p] = "begin"
    /\ Ending \/ fault \/ rev = committed
    /\ Goto(p, "release")
    /\ UNCHANGED <<document, sources, snapshots, serializer, saveGen, target,
                   background, checkpoint, closing>>

\* commitAtLeast captures its target and a lease on the current generation.
SaveBegin(p) ==
    /\ pc[p] = "begin" /\ ~Ending /\ ~fault /\ rev > committed
    /\ saveGen' = [saveGen EXCEPT ![p] = gen]
    /\ target' = [target EXCEPT ![p] = rev]
    /\ refs' = [refs EXCEPT ![gen] = @ + 1]
    /\ Goto(p, "stream")
    /\ UNCHANGED <<document, gen, retired, released, snapshots, serializer,
                   background, checkpoint, closing>>

\* The save fails or is cancelled before the replacement.
SaveAbort(p) ==
    /\ pc[p] = "stream"
    /\ Goto(p, "unlease")
    /\ UNCHANGED <<document, sources, snapshots, serializer, saveGen, target,
                   background, checkpoint, closing>>

\* Mutant: the old generation is retired but the Session's reference stays.
SaveCommitKeepsOwner(p) ==
    /\ pc[p] = "stream" /\ gen < MaxGeneration
    /\ committed' = target[p]
    /\ gen' = gen + 1
    /\ retired' = retired \cup {gen}
    /\ refs' = [refs EXCEPT ![gen + 1] = 1]
    /\ syncErr' = FALSE
    /\ ScheduleCheckpoint(rev, target[p], Threshold, ckptPending)
    /\ Goto(p, "unlease")
    /\ UNCHANGED <<rev, fault, released, snapshots, serializer, saveGen,
                   target, loop, syncing, failed, stale, closing>>

\* Replacement, new generation, retirement of the old one.
SaveCommit(p) ==
    /\ pc[p] = "stream" /\ gen < MaxGeneration
    /\ committed' = target[p]
    /\ gen' = gen + 1
    /\ retired' = retired \cup {gen}
    /\ refs' = [refs EXCEPT ![gen] = @ - 1, ![gen + 1] = 1]
    /\ released' = IF refs[gen] = 1 THEN released \cup {gen} ELSE released
    /\ syncErr' = FALSE
    /\ ScheduleCheckpoint(rev, target[p], Threshold, ckptPending)
    /\ Goto(p, "unlease")
    /\ UNCHANGED <<rev, fault, snapshots, serializer, saveGen, target, loop,
                   syncing, failed, stale, closing>>

\* Replacement, and a failure behind it: the Session is faulted.
SaveCommitFaults(p) ==
    /\ pc[p] = "stream"
    /\ committed' = target[p] /\ fault' = TRUE
    /\ Goto(p, "unlease")
    /\ UNCHANGED <<rev, sources, snapshots, serializer, saveGen, target,
                   background, checkpoint, closing>>

\* The deferred lease.Close of commitAtLeast, after s.mu.
SaveUnlease(p) ==
    /\ pc[p] = "unlease"
    /\ Drop(saveGen[p], retired)
    /\ saveGen' = [saveGen EXCEPT ![p] = 0] /\ target' = [target EXCEPT ![p] = 0]
    /\ Goto(p, "release")
    /\ UNCHANGED <<document, gen, retired, snapshots, serializer, background,
                   checkpoint, closing>>

\* releaseSave
ReleaseActive(p) ==
    /\ pc[p] = "release"
    /\ saveActive' = FALSE
    /\ Goto(p, "return")
    /\ UNCHANGED <<document, sources, snapshots, gate, waiting, saveGen,
                   target, background, checkpoint, closing>>

ReturnToken(p) ==
    /\ pc[p] = "return" /\ ~gate
    /\ gate' = TRUE
    /\ Return(p)
    /\ UNCHANGED <<document, sources, snapshots, waiting, saveActive, saveGen,
                   target, syncing, failed, syncErr, stale, checkpoint,
                   closing>>

-----------------------------------------------------------------------------
\* syncLoop

\* The ticker: the current journal is read under s.mu.
LoopTick ==
    /\ loop = "select" /\ HasJournal
    /\ syncing' = gen
    /\ loop' = "sync"
    /\ UNCHANGED <<document, sources, snapshots, serializer, saving, failed,
                   syncErr, stale, checkpoint, closing>>

\* Journal.Sync without s.mu; a journal closed meanwhile reports an error.
LoopSync ==
    /\ loop = "sync"
    /\ \E ok \in BOOLEAN :
         /\ ok => syncing \notin released
         /\ failed' = ~ok
    /\ loop' = "record"
    /\ UNCHANGED <<document, sources, snapshots, serializer, saving, syncing,
                   syncErr, stale, checkpoint, closing>>

\* recordJournalSyncResultLocked
LoopRecord ==
    /\ loop = "record"
    /\ IF syncing # gen THEN UNCHANGED <<syncErr, stale>>
       ELSE /\ syncErr' = failed
            /\ stale' = (stale \/ (failed /\ syncing \in released))
    /\ loop' = "select" /\ syncing' = 0 /\ failed' = FALSE
    /\ UNCHANGED <<document, sources, snapshots, serializer, saving,
                   checkpoint, closing>>

\* A checkpoint request is received.
LoopTake ==
    /\ loop = "select" /\ queue # <<>>
    /\ queue' = Tail(queue)
    /\ loop' = "checkpoint"
    /\ UNCHANGED <<document, sources, snapshots, serializer, saving, syncing,
                   failed, syncErr, stale, ckptPending, nextCkpt, closing>>

\* The request is done, successful or not; the next one may be due already.
LoopAfter ==
    /\ loop = "after"
    /\ ScheduleCheckpoint(rev, committed, nextCkpt, FALSE)
    /\ loop' = "select"
    /\ UNCHANGED <<document, sources, snapshots, serializer, saving, syncing,
                   failed, syncErr, stale, closing>>

LoopStop ==
    /\ loop = "select" /\ closed
    /\ loop' = "exited"
    /\ UNCHANGED <<document, sources, snapshots, serializer, saving, syncing,
                   failed, syncErr, stale, checkpoint, closing>>

-----------------------------------------------------------------------------
\* Close

\* The first CloseContext: cancelLifecycle and go finishClose().
Close ==
    /\ closer = "none"
    /\ cancelled' = TRUE /\ closer' = "mark"
    /\ UNCHANGED <<document, sources, snapshots, serializer, saving,
                   background, checkpoint, closed>>

CloseMark ==
    /\ closer = "mark"
    /\ closed' = TRUE /\ closer' = "join"
    /\ UNCHANGED <<document, sources, snapshots, serializer, saving,
                   background, checkpoint, cancelled>>

\* <-s.syncDone
CloseJoin ==
    /\ closer = "join" /\ loop = "exited"
    /\ closer' = "gate"
    /\ UNCHANGED <<document, sources, snapshots, serializer, saving,
                   background, checkpoint, cancelled, closed>>

\* <-s.saveGate
CloseGate ==
    /\ closer = "gate" /\ gate
    /\ gate' = FALSE /\ closer' = "retire"
    /\ UNCHANGED <<document, sources, snapshots, waiting, saveActive, saving,
                   background, checkpoint, cancelled, closed>>

\* The last journal sync and generation.retireAndWait up to the wait.
CloseRetire ==
    /\ closer = "retire"
    /\ ckptPending' = FALSE
    /\ \E ok \in BOOLEAN : syncErr' = (HasJournal /\ ~ok)
    /\ retired' = retired \cup {gen}
    /\ Drop(gen, retired \cup {gen})
    /\ closer' = "drain"
    /\ UNCHANGED <<document, gen, snapshots, serializer, saving, loop,
                   syncing, failed, stale, queue, nextCkpt, cancelled, closed>>

\* No reference is left: stores, marker and events are closed, closeDone too.
CloseDrain ==
    /\ closer = "drain" /\ refs[gen] = 0
    /\ gate' = TRUE /\ closer' = "done"
    /\ UNCHANGED <<document, sources, snapshots, waiting, saveActive, saving,
                   background, checkpoint, cancelled, closed>>

-----------------------------------------------------------------------------
SaveEnd(p) == SaveAbort(p) \/ SaveCommit(p) \/ SaveCommitFaults(p)

SaverStep(p) ==
    \/ AcquireGate(p) \/ AcquireRecheck(p)
    \/ SaveNothing(p) \/ SaveBegin(p) \/ SaveEnd(p)
    \/ SaveUnlease(p) \/ ReleaseActive(p) \/ ReturnToken(p)

LoopStep ==
    \/ LoopSync \/ LoopRecord \/ LoopAfter \/ AcquireRefused
    \/ AcquireBegin(Loop)

CloserStep == CloseMark \/ CloseJoin \/ CloseGate \/ CloseRetire \/ CloseDrain

Next ==
    \/ Edit
    \/ \E l \in Leases : TakeSnapshot(l) \/ UncountLease(l) \/ ReleaseLease(l)
    \/ \E p \in Hosts : AcquireBegin(p)
    \/ \E p \in Savers : AcquireLeave(p) \/ SaverStep(p)
    \/ LoopTick \/ LoopTake \/ LoopStop \/ LoopStep
    \/ Close \/ CloserStep

\* Goroutines run on; a select picks among its ready cases at random, so a
\* case that is ready again and again is taken; a channel serves blocked
\* receivers in order, so a queued saver gets the token; a cancellation of
\* the Session wakes it; hosts close their leases, as Snapshot asks them to.
\* Nothing is assumed of a host's own Context.
Fairness ==
    /\ \A p \in Savers : /\ WF_vars(SaverStep(p)) /\ SF_vars(AcquireGate(p))
                          /\ WF_vars(cancelled /\ AcquireLeave(p))
    /\ WF_vars(LoopStep) /\ SF_vars(LoopTake) /\ SF_vars(LoopStop)
    /\ WF_vars(CloserStep)
    /\ \A l \in Leases : WF_vars(UncountLease(l) \/ ReleaseLease(l))

Spec == Init /\ [][Next]_vars /\ Fairness

-----------------------------------------------------------------------------
\* Properties

SaverPhases == {"idle", "wait", "recheck", "begin", "stream", "unlease",
                "release", "return"}

\* Types of the Session's fields; the counters waiting and active never go
\* below zero, and the reference counts neither.
TypeOK ==
    /\ rev \in Revisions /\ committed \in Revisions /\ fault \in BOOLEAN
    /\ gen \in Generations /\ refs \in [Generations -> Nat]
    /\ retired \subseteq Generations /\ released \subseteq Generations
    /\ lease \in [Leases -> [gen : 0..MaxGeneration, counted : BOOLEAN]]
    /\ active \in Nat /\ waiting \in Nat
    /\ gate \in BOOLEAN /\ saveActive \in BOOLEAN
    /\ pc \in [Savers -> SaverPhases]
    /\ saveGen \in [Savers -> 0..MaxGeneration]
    /\ target \in [Savers -> Revisions]
    /\ loop \in {"select", "sync", "record", "checkpoint", "after", "exited"}
    /\ syncing \in 0..MaxGeneration
    /\ {failed, syncErr, stale, ckptPending, cancelled, closed} \subseteq BOOLEAN
    /\ queue \in Seq(Revisions)
    /\ nextCkpt \in Nat
    /\ closer \in {"none", "mark", "join", "gate", "retire", "drain", "done"}

HoldingToken == {p \in Savers : pc[p] \in SaverPhases \ {"idle", "wait"}}

\* The token of saveGate is in exactly one place: the channel, one saver, or
\* finishClose.  So saves are serialized, putting the token back never blocks,
\* and the last generation is retired only with no save under way.
OneToken ==
    Cardinality(HoldingToken) + (IF gate THEN 1 ELSE 0)
        + (IF closer \in {"retire", "drain"} THEN 1 ELSE 0) = 1

Streaming(p) == pc[p] \in {"stream", "unlease"}

\* A generation's count is the Session's own reference plus one for each
\* lease and each save that reads from it; and the host's leases of all
\* generations together are counted and stay within MaxSnapshotLeases.
RefsAreExact ==
    /\ active = Cardinality({l \in Leases : lease[l].counted})
    /\ active <= MaxSnapshotLeases
    /\ \A g \in Generations :
        refs[g] = Cardinality({l \in Leases : lease[l].gen = g})
                  + Cardinality({p \in Savers : Streaming(p) /\ saveGen[p] = g})
                  + (IF g = gen /\ g \notin retired THEN 1 ELSE 0)

\* The files behind a lease, a save or the live Session are open; a closed
\* Session has closed those of its last generation.  The loop, which syncs the
\* journal it read before without the lock, never records the failure of one
\* that a save has retired and closed in the meantime.
SourcesStayOpen ==
    /\ \A l \in Leases : lease[l] # NoLease => lease[l].gen \notin released
    /\ \A p \in Savers : Streaming(p) => saveGen[p] \notin released
    /\ gen \in released => closer \in {"drain", "done"}
    /\ closer = "done" => gen \in released
    /\ ~stale

\* The send in maybeScheduleJournalCheckpointLocked, made with s.mu held,
\* always finds room in the channel of capacity one.
RequestNeverBlocks ==
    /\ Len(queue) <= 1
    /\ loop \in {"checkpoint", "after"} => queue = <<>>

\* Past acquireSave and not yet through releaseSave.
Saving(p) == pc[p] \in {"begin", "stream", "unlease", "release"}

\* Once Close has returned no edit is published, nothing is committed, and no
\* save runs: a caller that is still queued then may take the token, but only
\* to put it back.
QuietAfterClose ==
    [][closer = "done" => /\ UNCHANGED <<rev, committed, fault, gen>>
                          /\ \A p \in Savers : ~Saving(p) /\ ~Saving(p)']_vars

\* Close always completes: queued saves leave, the save under way ends, the
\* loop stops, the leases of the last generation are released.
CloseCompletes == cancelled ~> closer = "done"

\* A caller queued for the serializer gets out of it, also during Close, and
\* every automatic checkpoint request is worked off, also after a failed save.
RequestsEnd ==
    /\ \A p \in Savers : pc[p] = "wait" ~> pc[p] # "wait"
    /\ ckptPending ~> ~ckptPending
=============================================================================
