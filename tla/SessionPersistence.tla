------------------------- MODULE SessionPersistence -------------------------
(***************************************************************************)
(* The persistence core of document.Session: the base file, the recovery   *)
(* journals beside it, the transactions that append to the journal         *)
(* (applyOperationsLocked), the save that rebases newer transactions onto  *)
(* a replacement base (commitAtLeast, prepareJournalRebaseLocked), close,  *)
(* process exit, power loss, and the recovery of the next open             *)
(* (openMatchingJournalWithQuarantine, replay).                            *)
(*                                                                         *)
(* Data.  A file's content is a member of Contents; a transaction is a     *)
(* member of Edits that maps the contents it is valid for to the contents  *)
(* it produces (Effect), takes Width revisions, one per operation, and     *)
(* EditBytes of journal.  A journal's fingerprint is the content of the    *)
(* base it belongs to (path, length and SHA-256 in the code).  A pending   *)
(* list, kept per operation with a group number in the code, is kept per   *)
(* group here: a save's target is a published revision, so a group boundary.*)
(*                                                                         *)
(* s.mu is held exactly while an apply is under way or a save is past its  *)
(* streaming phase (MuFree); one save at a time owns s.saveGate.           *)
(***************************************************************************)
EXTENDS Naturals, Sequences, FiniteSets

CONSTANTS
    Contents,         \* contents a file can have
    Foreign,          \* contents another program may write
    Edits,            \* transactions
    Effect,           \* Effect[e][c]: content after e; defined where e is valid
    Width,            \* operations (and revisions) of a transaction
    EditBytes,        \* recovery.BatchEncodedSize of a transaction
    JournalIds,       \* journal file names; a random suffix never repeats
    HeaderBytes,      \* recovery.EmptyJournalBytes
    MaxJournalBytes,  \* Limits.MaxJournalBytes
    MaxRevision,      \* bound standing for math.MaxUint64
    MaxFaults,        \* bound on exits, power losses, headers left, foreign writes
    MaxExternal,      \* bound on writes of another program to the base
    None

ASSUME EffectAssumption ==
    /\ Foreign \subseteq Contents
    /\ None \notin Contents /\ None \notin Edits /\ None \notin JournalIds
    /\ DOMAIN Effect = Edits
    /\ \A e \in Edits : /\ DOMAIN Effect[e] \subseteq Contents
                        /\ \A c \in DOMAIN Effect[e] : Effect[e][c] \in Contents
ASSUME WidthAssumption ==
    Width \in [Edits -> Nat \ {0}] /\ EditBytes \in [Edits -> Nat \ {0}]
ASSUME BoundsAssumption ==
    /\ HeaderBytes \in Nat /\ MaxJournalBytes \in Nat /\ MaxRevision \in Nat
    /\ MaxFaults \in Nat /\ MaxExternal \in Nat

VARIABLES
    base,         \* content of the document file
    journals,     \* journal files of this path still in the search namespace
    left,         \* journals of a failed openJournal that hold nothing but a
                  \* readable header: how many there are for each content
    phase,        \* "down", "replay" (inside Open) or "open"
    doc,          \* content of s.tree
    rev,          \* s.revision
    committed,    \* s.committedRevision; s.dirty is rev > committed
    pending,      \* s.pending, per group
    jid,          \* file of s.journal
    fp,           \* s.fingerprint and s.diskIdentity
    journalBytes, \* s.journalBytes
    fault,        \* s.fault # nil
    uncertain,    \* s.durabilityUncertain
    apply,        \* the transaction that holds s.mu
    save,         \* the save that holds s.saveGate
    retired,      \* journals of retired generations that are still leased
    hist,         \* history variable: revision -> content it stands for, None
                  \* if it was not attempted or was taken back
    acked,        \* history variable: last revision a host was told of
    durable,      \* history variable: revision a power loss must preserve
    external,     \* history variable: another program changed the base
    aba,          \* history variable: a save met its own fingerprint on disk
    stray,        \* history variable: a journal may have lost its partner
    volatile,     \* history variable: a rename whose directory sync failed or
                  \* was cut off by a process exit
    failures,     \* counters for the bounds: exits, power losses, headers left;
    writes        \* writes of another program

disk == <<base, journals, left>>
session == <<phase, doc, rev, committed, pending, jid, fp, journalBytes,
             fault, uncertain>>
ghost == <<hist, acked, durable, external, aba, stray>>
env == <<volatile, failures, writes>>
vars == <<disk, session, apply, save, retired, ghost, env>>

Revisions == 0..MaxRevision
FaultsLeft == failures + writes < MaxFaults
Batch == [first : Revisions, edit : Edits, end : Nat]
Journal == [fp : Contents \cup {None}, batches : Seq(Batch), synced : Nat,
            torn : BOOLEAN, entry : {"new", "synced", "removed"}]
NoFile == [absent |-> TRUE]

LastRevision(b) == b.first + Width[b.edit] - 1
\* Physical length of a journal with these batches.
EndOffset(batches) ==
    IF batches = <<>> THEN HeaderBytes ELSE batches[Len(batches)].end

NoApply == [pc |-> "idle", edit |-> None, file |-> None]
NoSave == [pc |-> "idle", target |-> 0, text |-> None, prep |-> None,
           tree |-> None, at |-> 0, uncertain |-> FALSE, late |-> FALSE]

\* The files an Open finds; a journal removed while a Session has it open is
\* written to without being found again.
Candidates == {j \in JournalIds :
                 journals[j] # NoFile /\ journals[j].entry # "removed"}
BadHeaders == {j \in Candidates : journals[j].fp = None}
Matching == {j \in Candidates : journals[j].fp = base}
Free(j) == journals[j] = NoFile /\ j \notin retired
NoHeaders == [c \in Contents |-> 0]
\* Journals whose header is that of the base, as Open counts them.
Matches == Cardinality(Matching) + left[base]

Dirty == rev > committed
MuFree == apply.pc = "idle" /\ save.pc \in {"idle", "stream"}
Mutable == phase = "open" /\ MuFree /\ ~fault

Init ==
    /\ base \in Contents
    /\ journals = [j \in JournalIds |-> NoFile] /\ left = NoHeaders
    /\ phase = "down" /\ doc = None /\ rev = 0 /\ committed = 0
    /\ pending = <<>> /\ jid = None /\ fp = None /\ journalBytes = 0
    /\ fault = FALSE /\ uncertain = FALSE
    /\ apply = NoApply /\ save = NoSave /\ retired = {}
    /\ hist = [r \in Revisions |-> IF r = 0 THEN base ELSE None]
    /\ acked = 0 /\ durable = 0
    /\ external = FALSE /\ aba = FALSE /\ stray = FALSE /\ volatile = FALSE
    /\ failures = 0 /\ writes = 0

\* The Session object is gone.
Forget ==
    /\ phase' = "down" /\ doc' = None /\ rev' = 0 /\ committed' = 0
    /\ pending' = <<>> /\ jid' = None /\ fp' = None /\ journalBytes' = 0
    /\ fault' = FALSE /\ uncertain' = FALSE
    /\ apply' = NoApply /\ save' = NoSave

-----------------------------------------------------------------------------
\* Transactions: ApplyBatch, Undo and Redo all end in applyOperationsLocked.

\* checkJournalQuota
QuotaAllows(current, e) ==
    /\ EditBytes[e] <= MaxJournalBytes
    /\ current <= MaxJournalBytes - EditBytes[e]

\* recovery.Open of a new file, before its header is written.
NewJournal == [fp |-> None, batches |-> <<>>, synced |-> 0, torn |-> FALSE,
               entry |-> "new"]

\* Mutant: the revision counter is not checked for overflow.
CanStageWraps(e) == doc \in DOMAIN Effect[e]

\* Revision overflow check, then stageOperationsLocked.
CanStage(e) == rev + Width[e] <= MaxRevision /\ doc \in DOMAIN Effect[e]

\* Staging, quota, and the creation of a missing journal.
ApplyBegin(e) ==
    /\ Mutable
    /\ CanStage(e)
    /\ QuotaAllows(IF jid = None THEN HeaderBytes ELSE journalBytes, e)
    /\ IF jid # None
       THEN /\ apply' = [pc |-> "append", edit |-> e, file |-> jid]
            /\ UNCHANGED journals
       ELSE \E j \in JournalIds :
              /\ Free(j)
              /\ journals' = [journals EXCEPT ![j] = NewJournal]
              /\ apply' = [pc |-> "header", edit |-> e, file |-> j]
    /\ UNCHANGED <<base, left, session, save, retired, ghost, env>>

\* ensureJournalLocked: header written and synced, journal attached.
ApplyHeader ==
    /\ apply.pc = "header"
    /\ journals' = [journals EXCEPT ![apply.file].fp = fp]
    /\ jid' = apply.file
    /\ journalBytes' = HeaderBytes
    /\ apply' = [apply EXCEPT !.pc = "append"]
    /\ UNCHANGED <<base, left, phase, doc, rev, committed, pending, fp, fault,
                   uncertain, save, retired, ghost, env>>

\* openJournal fails before its header is complete; the file stays behind.
ApplyHeaderFails ==
    /\ apply.pc = "header"
    /\ apply' = NoApply
    /\ UNCHANGED <<disk, session, save, retired, ghost, env>>

\* A journal for content c whose header was written but not synced is closed
\* and left where it is.
LeaveHeader(c) ==
    /\ FaultsLeft
    /\ left' = [left EXCEPT ![c] = @ + 1]
    /\ failures' = failures + 1

\* openJournal fails on the Sync of a complete header.
ApplyHeaderUnsynced ==
    /\ apply.pc = "header"
    /\ journals' = [journals EXCEPT ![apply.file] = NoFile]
    /\ LeaveHeader(fp)
    /\ apply' = NoApply
    /\ UNCHANGED <<base, session, save, retired, ghost, volatile, writes>>

\* sizeRecovery fails: ensureJournalLocked removes the new journal.
ApplyHeaderRemoved ==
    /\ apply.pc = "header"
    /\ journals' = [journals EXCEPT ![apply.file] = NoFile]
    /\ apply' = NoApply
    /\ UNCHANGED <<base, left, session, save, retired, ghost, env>>

\* Bytes written after an unreadable tail are never replayed.
AppendTo(journal, b) ==
    IF journal.torn THEN journal
    ELSE [journal EXCEPT !.batches = Append(@, b)]

NewBatch(e) ==
    [first |-> rev + 1, edit |-> e, end |-> journalBytes + EditBytes[e]]

\* appendRecovery has written header and payload; nothing is published yet.
ApplyAppend ==
    /\ apply.pc = "append"
    /\ journals' = [journals EXCEPT ![jid] = AppendTo(@, NewBatch(apply.edit))]
    /\ hist' = [hist EXCEPT ![rev + Width[apply.edit]] = Effect[apply.edit][doc]]
    /\ apply' = [apply EXCEPT !.pc = "publish"]
    /\ UNCHANGED <<base, left, session, save, retired, acked, durable, external,
                   aba, stray, env>>

\* appendBatch fails: its rollback truncates to the previous end.
ApplyAppendFails ==
    /\ apply.pc = "append"
    /\ apply' = NoApply
    /\ UNCHANGED <<disk, session, save, retired, ghost, env>>

\* Content, pending list and revision are published; the host is answered.
ApplyPublish ==
    /\ apply.pc = "publish"
    /\ doc' = Effect[apply.edit][doc]
    /\ rev' = rev + Width[apply.edit]
    /\ pending' = Append(pending, NewBatch(apply.edit))
    /\ journalBytes' = journalBytes + EditBytes[apply.edit]
    /\ acked' = rev + Width[apply.edit]
    /\ apply' = NoApply
    /\ UNCHANGED <<disk, phase, committed, jid, fp, fault, uncertain, save,
                   retired, hist, durable, external, aba, stray, env>>

Cut(journal, n) ==
    [journal EXCEPT !.batches = SubSeq(@, 1, n),
                    !.synced = IF @ < n THEN @ ELSE n]

\* Mutant: a cancelled transaction leaves its batch in the journal.
ApplyRollbackKeepsBatch ==
    /\ apply.pc = "publish"
    /\ apply' = NoApply
    /\ UNCHANGED <<disk, session, save, retired, ghost, env>>

\* Cancellation, tree or undo-store failure after the append: RepairTail.
ApplyRollback ==
    /\ apply.pc = "publish"
    /\ journals' = [journals EXCEPT ![jid] = Cut(@, Len(@.batches) - 1)]
    /\ hist' = [hist EXCEPT ![rev + Width[apply.edit]] = None]
    /\ apply' = NoApply
    /\ UNCHANGED <<base, left, session, save, retired, acked, durable, external,
                   aba, stray, env>>

\* The ticker of syncLoop: file.Sync of the current journal.  s.mu is not held
\* during the call, so it may fall between the steps of an apply or a save.
SyncJournal ==
    /\ phase = "open" /\ jid # None
    /\ journals' = [journals EXCEPT ![jid].synced = Len(journals[jid].batches)]
    /\ durable' = IF journals[jid].entry = "synced" THEN acked ELSE durable
    /\ UNCHANGED <<base, left, session, apply, save, retired, hist, acked,
                   external, aba, stray, env>>

-----------------------------------------------------------------------------
\* Save: commitAtLeast

\* Target, text and expected identity are captured; s.mu is released.
SaveBegin ==
    /\ Mutable /\ save.pc = "idle" /\ Dirty
    /\ save' = [NoSave EXCEPT !.pc = "stream", !.target = rev, !.text = doc]
    /\ UNCHANGED <<disk, session, apply, retired, ghost, env>>

\* Cancellation, an I/O error or ErrExternalChange before the barrier.
SaveAbort ==
    /\ save.pc = "stream"
    /\ save' = NoSave
    /\ UNCHANGED <<disk, session, apply, retired, ghost, env>>

\* Mutant: the base is only checked before the streaming, not at the barrier.
SaveBarrierUnchecked ==
    /\ save.pc = "stream" /\ MuFree
    /\ \E j \in JournalIds :
         /\ Free(j)
         /\ journals' = [journals EXCEPT ![j] = NewJournal]
         /\ save' = [save EXCEPT !.pc = "prepare", !.prep = j]
    /\ UNCHANGED <<base, left, session, apply, retired, ghost, env>>

\* scanDiskIdentity: length and hash of the file are those remembered.
SameIdentity == base = fp

\* checkIdentity takes s.mu, rescans the base and creates the new journal.
SaveBarrier ==
    /\ save.pc = "stream" /\ MuFree
    /\ SameIdentity
    /\ \E j \in JournalIds :
         /\ Free(j)
         /\ journals' = [journals EXCEPT ![j] = NewJournal]
         /\ save' = [save EXCEPT !.pc = "prepare", !.prep = j]
    /\ UNCHANGED <<base, left, session, apply, retired, ghost, env>>

\* Mutant: the header carries the fingerprint of the base being replaced.
SavePrepareHeaderOldBase ==
    /\ save.pc = "prepare"
    /\ journals' = [journals EXCEPT ![save.prep].fp = fp]
    /\ save' = [save EXCEPT !.pc = "fill"]
    /\ UNCHANGED <<base, left, session, apply, retired, ghost, env>>

\* Its header carries the fingerprint of the replacement content.
SavePrepareHeader ==
    /\ save.pc = "prepare"
    /\ journals' = [journals EXCEPT ![save.prep].fp = save.text]
    /\ save' = [save EXCEPT !.pc = "fill"]
    /\ aba' = (aba \/ \E j \in Candidates : journals[j].fp = save.text)
    /\ UNCHANGED <<base, left, session, apply, retired, hist, acked, durable,
                   external, stray, env>>

\* openRecovery fails: s.mu is released, the file stays.
SavePrepareFails ==
    /\ save.pc = "prepare"
    /\ save' = NoSave
    /\ UNCHANGED <<disk, session, apply, retired, ghost, env>>

\* openRecovery fails on the Sync of a complete header.
SavePrepareUnsynced ==
    /\ save.pc = "prepare"
    /\ journals' = [journals EXCEPT ![save.prep] = NoFile]
    /\ LeaveHeader(save.text)
    /\ save' = NoSave
    /\ UNCHANGED <<base, session, apply, retired, ghost, volatile, writes>>

\* Number of pending groups the save covers; revisions grow along pending.
Covered(target) ==
    CHOOSE k \in 0..Len(pending) :
        \A i \in 1..Len(pending) : LastRevision(pending[i]) > target <=> i > k

\* Mutants: the replacement journal is left empty; it carries every group.
NewerNone(target) == <<>>
NewerAll(target) == pending

\* The groups newer than the target, at their offsets in the new journal.
Newer(target) ==
    LET k == Covered(target)
        moved == EndOffset(SubSeq(pending, 1, k)) - HeaderBytes
    IN  [i \in 1..(Len(pending) - k) |->
            [pending[k + i] EXCEPT !.end = @ - moved]]

\* A directory sync covers every file of the recovery directory.
DirSynced(files) ==
    [j \in JournalIds |->
        IF files[j] # NoFile /\ files[j].entry = "new"
        THEN [files[j] EXCEPT !.entry = "synced"] ELSE files[j]]

\* The newer groups are appended, the journal and its directory are synced.
SaveFill ==
    /\ save.pc = "fill"
    /\ LET newer == Newer(save.target)
       IN  journals' = DirSynced([journals EXCEPT
                                    ![save.prep].batches = newer,
                                    ![save.prep].synced = Len(newer)])
    /\ save' = [save EXCEPT !.pc = "barrier"]
    /\ UNCHANGED <<base, left, session, apply, retired, ghost, env>>

\* A failed append, sync or replacement: discardPreparedJournal, s.mu released.
SaveDiscard ==
    /\ save.pc \in {"fill", "barrier"}
    /\ journals' = [journals EXCEPT ![save.prep] = NoFile]
    /\ save' = NoSave
    /\ UNCHANGED <<base, left, session, apply, retired, ghost, env>>

\* replaceFile: rename of the synced temporary file over the base.
SaveRename ==
    /\ save.pc = "barrier"
    /\ base' = save.text
    /\ save' = [save EXCEPT !.pc = "renamed"]
    /\ UNCHANGED <<journals, left, session, apply, retired, ghost, env>>

\* The parent-directory sync; a failure is a DurabilityError, still committed.
SaveDirSync(ok) ==
    /\ save.pc = "renamed"
    /\ save' = [save EXCEPT !.pc = "replaced", !.uncertain = ~ok]
    /\ durable' = IF ok THEN acked ELSE durable
    /\ volatile' = ~ok
    /\ UNCHANGED <<disk, session, apply, retired, hist, acked, external, aba,
                   stray, failures, writes>>

\* The committed file is opened again and becomes the first piece.
SaveReopenBase ==
    /\ save.pc = "replaced"
    /\ save' = [save EXCEPT !.pc = "rebind", !.tree = base, !.at = 1]
    /\ UNCHANGED <<disk, session, apply, retired, ghost, env>>

\* One prepared group is replayed onto the new tree.
SaveRebindStep ==
    /\ save.pc = "rebind"
    /\ save.at <= Len(journals[save.prep].batches)
    /\ LET b == journals[save.prep].batches[save.at]
       IN  /\ save.tree \in DOMAIN Effect[b.edit]
           /\ save' = [save EXCEPT !.tree = Effect[b.edit][@], !.at = @ + 1]
    /\ UNCHANGED <<disk, session, apply, retired, ghost, env>>

\* Mutant: the save marks everything committed, edits made meanwhile too.
SaveInstallMarksAll ==
    /\ save.pc = "rebind"
    /\ save.at > Len(journals[save.prep].batches)
    /\ doc' = save.tree /\ committed' = rev
    /\ pending' = journals[save.prep].batches
    /\ jid' = save.prep /\ fp' = save.text
    /\ journalBytes' = EndOffset(journals[save.prep].batches)
    /\ uncertain' = save.uncertain
    /\ retired' = retired \cup {jid}
    /\ save' = NoSave
    /\ UNCHANGED <<disk, phase, rev, fault, apply, ghost, env>>

\* The new generation is installed, the old one retired; s.mu is released
\* before the save's own lease on the old generation is.
SaveInstall ==
    /\ save.pc = "rebind"
    /\ save.at > Len(journals[save.prep].batches)
    /\ doc' = save.tree
    /\ committed' = save.target
    /\ pending' = journals[save.prep].batches
    /\ jid' = save.prep
    /\ fp' = save.text
    /\ journalBytes' = EndOffset(journals[save.prep].batches)
    /\ uncertain' = save.uncertain
    /\ retired' = retired \cup {jid}
    /\ save' = NoSave
    /\ UNCHANGED <<disk, phase, rev, fault, apply, ghost, env>>

\* commitFailure: stat, reopen or rebind failed after the replacement.
SaveFault ==
    /\ save.pc \in {"replaced", "rebind"}
    /\ committed' = save.target
    /\ uncertain' = save.uncertain
    /\ fault' = TRUE
    /\ save' = NoSave
    /\ UNCHANGED <<disk, phase, doc, rev, pending, jid, fp, journalBytes,
                   apply, retired, ghost, env>>

\* A save with nothing to write, or for a revision already committed, retries
\* the directory sync of an uncertain replacement.
SaveRetryDirSync ==
    /\ Mutable /\ save.pc = "idle" /\ uncertain
    /\ uncertain' = FALSE /\ volatile' = FALSE
    /\ durable' = IF durable < committed THEN committed ELSE durable
    /\ UNCHANGED <<disk, phase, doc, rev, committed, pending, jid, fp,
                   journalBytes, fault, apply, save, retired, hist, acked,
                   external, aba, stray, failures, writes>>

\* The last lease of a retired generation closes: closeIfUnusedLocked removes
\* its journal.  The process may hold host leases beyond CloseSession, and the
\* next Session may meanwhile have matched that very file.
ReleaseRetired(j) ==
    /\ j \in retired
    /\ journals' = [journals EXCEPT ![j] =
          IF j = jid THEN [journals[j] EXCEPT !.entry = "removed"] ELSE NoFile]
    /\ retired' = retired \ {j}
    /\ UNCHANGED <<base, left, session, apply, save, ghost, env>>

-----------------------------------------------------------------------------
\* End of a Session

\* finishClose: the journal is synced, and removed when nothing is dirty.
CloseSession ==
    /\ phase = "open" /\ MuFree /\ save.pc = "idle"
    /\ IF jid = None THEN UNCHANGED <<journals, durable>>
       ELSE /\ journals' = [journals EXCEPT ![jid] =
                 IF Dirty THEN [journals[jid] EXCEPT
                                  !.synced = Len(journals[jid].batches)]
                 ELSE NoFile]
            /\ durable' = IF journals[jid].entry = "synced" THEN acked ELSE durable
    /\ stray' = (retired # {})
    /\ Forget
    /\ UNCHANGED <<base, left, retired, hist, acked, external, aba, env>>

\* The process ends; files keep what was written, and a write under way may
\* have left part of a batch behind.
ProcessExit ==
    /\ phase # "down" /\ FaultsLeft
    /\ IF apply.pc = "append"
       THEN \E t \in BOOLEAN :
              journals' = [journals EXCEPT ![jid].torn = (@ \/ t)]
       ELSE UNCHANGED journals
    /\ retired' = {}
    /\ failures' = failures + 1
    /\ Forget
    /\ volatile' = (volatile \/ save.pc = "renamed")
    /\ UNCHANGED <<base, left, ghost, writes>>

\* The machine stops: batches that were not synced may be lost, a file whose
\* directory was not synced may vanish, a rename whose directory was not
\* synced may be undone.  A header that was left may vanish too; if its bytes
\* do and its name stays, the next Open quarantines it with no other effect.
\* Nothing is promised for a rename that stays volatile, as the
\* DurabilityError says.
PowerLoss ==
    /\ FaultsLeft
    /\ ~volatile
    /\ \E keep \in [Candidates -> 0..MaxRevision],
          gone \in SUBSET {j \in Candidates : journals[j].entry = "new"} :
         /\ \A j \in Candidates :
               keep[j] \in journals[j].synced..Len(journals[j].batches)
         /\ journals' = [j \in JournalIds |->
               IF j \notin Candidates \/ j \in gone THEN NoFile
               ELSE [journals[j] EXCEPT
                       !.batches = SubSeq(@, 1, keep[j]),
                       !.torn = @ \/ keep[j] < Len(journals[j].batches),
                       !.synced = keep[j], !.entry = "synced"]]
         /\ stray' = (stray \/ gone # {})
    /\ left' \in [Contents -> 0..MaxFaults]
    /\ \A c \in Contents : left'[c] <= left[c]
    /\ base' \in IF save.pc = "renamed" THEN {base, fp} ELSE {base}
    /\ acked' = IF save.pc = "renamed" /\ base' = save.text THEN acked ELSE durable
    /\ durable' = acked'
    /\ retired' = {}
    /\ failures' = failures + 1
    /\ Forget
    /\ UNCHANGED <<hist, external, aba, volatile, writes>>

\* Another program writes the document file.
ExternalWrite(c) ==
    /\ FaultsLeft /\ writes < MaxExternal
    /\ c # base
    /\ base' = c
    /\ external' = TRUE
    /\ save' = [save EXCEPT !.late = save.pc \notin {"idle", "stream"}]
    /\ writes' = writes + 1
    /\ UNCHANGED <<journals, left, session, apply, retired, hist, acked,
                   durable, aba, stray, volatile, failures>>

-----------------------------------------------------------------------------
\* Open

\* Revision numbering starts again from the content that is on disk.
StartLineage ==
    /\ hist' = [r \in Revisions |-> IF r = 0 THEN base ELSE None]
    /\ acked' = 0 /\ durable' = 0

\* Mutant: Open does not look for the journals.
OpenFreshBlind ==
    /\ phase = "down"
    /\ phase' = "open" /\ doc' = base /\ fp' = base
    /\ StartLineage
    /\ external' = FALSE /\ aba' = FALSE /\ stray' = FALSE
    /\ UNCHANGED <<disk, rev, committed, pending, jid, journalBytes, fault,
                   uncertain, apply, save, retired, env>>

\* No journal of this path exists.
OpenFresh ==
    /\ phase = "down" /\ Candidates = {} /\ left = NoHeaders
    /\ phase' = "open" /\ doc' = base /\ fp' = base
    /\ StartLineage
    /\ external' = FALSE /\ aba' = FALSE /\ stray' = FALSE
    /\ UNCHANGED <<disk, rev, committed, pending, jid, journalBytes, fault,
                   uncertain, apply, save, retired, env>>

\* quarantineRecovery renames journals out of the search namespace.
Quarantine(set) ==
    journals' = [j \in JournalIds |-> IF j \in set THEN NoFile ELSE journals[j]]

\* Unreadable headers alone are quarantined; Open reports the error.
OpenBadHeader ==
    /\ phase = "down" /\ BadHeaders # {}
    /\ Quarantine(BadHeaders)
    /\ UNCHANGED <<base, left, session, apply, save, retired, ghost, env>>

\* Several journals match the base: all of them are quarantined and reported,
\* the others stay.
OpenAmbiguous ==
    /\ phase = "down" /\ BadHeaders = {} /\ Matches > 1
    /\ Quarantine(Matching) /\ left' = [left EXCEPT ![base] = 0]
    /\ StartLineage
    /\ stray' = TRUE
    /\ UNCHANGED <<base, session, apply, save, retired, external, aba, env>>

\* Every journal is quarantined and Open reports an error.
GiveUp ==
    /\ Quarantine(Candidates) /\ left' = NoHeaders
    /\ StartLineage
    /\ external' = FALSE /\ aba' = FALSE /\ stray' = FALSE
    /\ UNCHANGED <<base, session, apply, save, retired, env>>

\* Journals exist and none matches the base.
OpenMismatch ==
    /\ phase = "down" /\ BadHeaders = {} /\ Matches = 0
    /\ Candidates # {} \/ left # NoHeaders
    /\ GiveUp

\* openRecovery fails on the only journal that matches: "open-failed".
OpenFails ==
    /\ phase = "down" /\ BadHeaders = {} /\ Matches = 1
    /\ GiveUp

\* Exactly one journal matches; the others are quarantined as retired.
OpenMatching ==
    /\ phase = "down" /\ BadHeaders = {} /\ Matches = 1
    /\ \E j \in JournalIds :
         /\ Matching = {j}
         /\ Quarantine(Candidates \ {j}) /\ left' = NoHeaders
         /\ jid' = j
         /\ LET batches == journals[j].batches
                start == IF batches = <<>> THEN 0 ELSE batches[1].first - 1
            IN  committed' = start /\ rev' = start
    /\ phase' = "replay" /\ doc' = base /\ fp' = base
    /\ UNCHANGED <<base, pending, journalBytes, fault, uncertain, apply, save,
                   retired, ghost, env>>

\* The one that matches is a header that was left: its Session has nothing to
\* replay and goes on with the file.
OpenAdopt ==
    /\ phase = "down" /\ BadHeaders = {} /\ Matches = 1 /\ Matching = {}
    /\ \E j \in JournalIds :
         /\ Free(j) /\ jid' = j
         /\ journals' = [i \in JournalIds |->
               IF i = j THEN [NewJournal EXCEPT !.fp = base]
               ELSE IF i \in Candidates THEN NoFile ELSE journals[i]]
    /\ left' = NoHeaders
    /\ phase' = "open" /\ doc' = base /\ fp' = base
    /\ journalBytes' = HeaderBytes
    /\ StartLineage
    /\ stray' = FALSE
    /\ UNCHANGED <<base, rev, committed, pending, fault, uncertain, apply, save,
                   retired, external, aba, env>>

\* The next batch the replay loop has to apply.
NextBatch == journals[jid].batches[Len(pending) + 1]

\* One turn of the replay loop.
ReplayBatch ==
    /\ phase = "replay" /\ Len(pending) < Len(journals[jid].batches)
    /\ NextBatch.first = rev + 1
    /\ doc \in DOMAIN Effect[NextBatch.edit]
    /\ doc' = Effect[NextBatch.edit][doc]
    /\ rev' = LastRevision(NextBatch)
    /\ pending' = Append(pending, NextBatch)
    /\ UNCHANGED <<disk, phase, committed, jid, fp, journalBytes, fault,
                   uncertain, apply, save, retired, ghost, env>>

\* End of replay: an invalid tail is truncated, the Session is returned.
ReplayDone ==
    /\ phase = "replay" /\ Len(pending) = Len(journals[jid].batches)
    /\ journals' = [journals EXCEPT ![jid].torn = FALSE]
    /\ journalBytes' = EndOffset(journals[jid].batches)
    /\ phase' = "open"
    /\ IF pending = <<>> THEN StartLineage
       ELSE /\ hist' = [r \in Revisions |-> IF r > rev THEN None ELSE hist[r]]
            /\ acked' = rev /\ UNCHANGED durable
    /\ stray' = FALSE
    /\ UNCHANGED <<base, left, doc, rev, committed, pending, jid, fp, fault,
                   uncertain, apply, save, retired, external, aba, env>>

-----------------------------------------------------------------------------
Next ==
    \/ \E e \in Edits : ApplyBegin(e)
    \/ ApplyHeader \/ ApplyHeaderFails \/ ApplyHeaderUnsynced
    \/ ApplyHeaderRemoved
    \/ ApplyAppend \/ ApplyAppendFails
    \/ ApplyPublish \/ ApplyRollback
    \/ SyncJournal
    \/ SaveBegin \/ SaveAbort \/ SaveBarrier
    \/ SavePrepareHeader \/ SavePrepareFails \/ SavePrepareUnsynced
    \/ SaveFill \/ SaveDiscard \/ SaveRename
    \/ \E ok \in BOOLEAN : SaveDirSync(ok)
    \/ SaveReopenBase \/ SaveRebindStep \/ SaveInstall \/ SaveFault
    \/ SaveRetryDirSync
    \/ \E j \in JournalIds : ReleaseRetired(j)
    \/ CloseSession \/ ProcessExit \/ PowerLoss
    \/ \E c \in Foreign : ExternalWrite(c)
    \/ OpenFresh \/ OpenBadHeader \/ OpenAmbiguous \/ OpenMismatch
    \/ OpenFails \/ OpenMatching \/ OpenAdopt \/ ReplayBatch \/ ReplayDone

Spec == Init /\ [][Next]_vars

-----------------------------------------------------------------------------
\* Properties

SavePhases == {"idle", "stream", "prepare", "fill", "barrier", "renamed",
               "replaced", "rebind"}

\* Every variable keeps the type its Go field or file has.
TypeOK ==
    /\ base \in Contents
    /\ journals \in [JournalIds -> Journal \cup {NoFile}]
    /\ left \in [Contents -> Nat]
    /\ phase \in {"down", "replay", "open"}
    /\ doc \in Contents \cup {None} /\ fp \in Contents \cup {None}
    /\ rev \in Revisions /\ committed \in Revisions
    /\ pending \in Seq(Batch)
    /\ jid \in JournalIds \cup {None}
    /\ journalBytes \in Nat
    /\ fault \in BOOLEAN /\ uncertain \in BOOLEAN
    /\ apply \in [pc : {"idle", "header", "append", "publish"},
                  edit : Edits \cup {None}, file : JournalIds \cup {None}]
    /\ save \in [pc : SavePhases, target : Revisions,
                 text : Contents \cup {None}, prep : JournalIds \cup {None},
                 tree : Contents \cup {None}, at : Nat,
                 uncertain : BOOLEAN, late : BOOLEAN]
    /\ retired \subseteq JournalIds
    /\ hist \in [Revisions -> Contents \cup {None}]
    /\ acked \in Revisions /\ durable \in Revisions
    /\ {external, aba, stray, volatile} \subseteq BOOLEAN
    /\ failures \in 0..MaxFaults /\ writes \in 0..MaxExternal

\* Replaying journal j over its base passes through hist: every batch starts
\* where the one before it ended and maps hist to hist.
Chain(j) ==
    LET batches == journals[j].batches
    IN  /\ batches # <<>> => journals[j].fp = hist[batches[1].first - 1]
        /\ \A i \in 1..Len(batches) :
              /\ batches[i].first > 0
              /\ i > 1 => batches[i].first = LastRevision(batches[i - 1]) + 1
              /\ LastRevision(batches[i]) <= MaxRevision
              /\ LET c == hist[batches[i].first - 1]
                 IN  /\ c \in DOMAIN Effect[batches[i].edit]
                     /\ hist[LastRevision(batches[i])] =
                           Effect[batches[i].edit][c]

\* The files as they are now hold every acknowledged transaction: the base
\* itself, or a journal of this base whose replay reaches the last acknowledged
\* revision.  It holds in every state, in the middle of each transaction and of
\* each save, and after any exit.  (If a header was left for the same base, an
\* Open quarantines that journal with it instead of replaying it.)
NothingLost ==
    ~external /\ ~aba =>
        \/ base = hist[acked] /\ \A j \in Matching : journals[j].batches = <<>>
        \/ \E j \in Matching :
              /\ journals[j].batches # <<>>
              /\ Chain(j)
              /\ LastRevision(journals[j].batches[Len(journals[j].batches)])
                    >= acked

Document == INSTANCE DurableDocument WITH
    Versions <- Revisions,
    NoText <- None,
    status <- IF phase = "open" THEN "open" ELSE "closed",
    shown <- IF phase = "open" THEN doc ELSE None,
    text <- hist,
    trusted <- ~external /\ ~aba

\* The Session implements the document it promises: only transactions change
\* what it shows, never a save, its rebase or its failures; and an Open that
\* reports no error shows the last answered content, or that of a transaction
\* that was in the journal and not yet answered, after any crash; never an
\* older one, or one that was taken back.
ImplementsDurableDocument == Document!Spec

\* Between saves the file holds exactly the committed revision, so that
\* Metadata.CommittedRevision can be believed, in a faulted Session as well.
BaseIsCommitted ==
    phase = "open" /\ ~external /\ ~aba /\ save.pc \in {"idle", "stream"} =>
        base = hist[committed]

\* The journal on disk holds exactly the groups newer than the committed
\* revision, at the offsets the Session remembers, and journalBytes is its
\* physical length; the rebased journal of a save stays within the quota.
JournalMirrorsPending ==
    phase = "open" /\ jid # None /\ MuFree =>
        /\ journals[jid].batches = pending
        /\ journalBytes = EndOffset(pending)
        /\ journalBytes <= MaxJournalBytes \/ pending = <<>>
        /\ ~journals[jid].torn

\* The replay loop of Open never rejects a journal this program wrote, unless
\* another program wrote the base.
ReplayNeverRejects ==
    phase = "replay" /\ ~external /\ Len(pending) < Len(journals[jid].batches) =>
        NextBatch.first = rev + 1 /\ doc \in DOMAIN Effect[NextBatch.edit]

\* A foreign change of the base that was there at the final check of a save is
\* never overwritten; only a write that falls behind the check can be.
NoClobber ==
    [][save.pc = "barrier" /\ save'.pc = "renamed" =>
          base = fp \/ save.late]_vars

\* The next Open is refused only for a cause the code knows of: a foreign
\* write, a fingerprint seen before, a half-created journal, a journal left by
\* a failed header Sync, a clean Close that left a leased old generation
\* behind, a power loss that took a journal whose directory entry was never
\* synced, or an Open that quarantined several matching journals.
ReopenFindsOnePair ==
    ~external /\ ~aba /\ ~stray /\ BadHeaders = {} /\ left = NoHeaders =>
        Candidates = {} \/ Matches = 1

-----------------------------------------------------------------------------
\* A claim of the documentation that the code does not meet

\* MODULES.md: "A normal clean close removes the empty current journal, and
\* successful reopen quarantines the proven retired candidate."  So an Open
\* after any history of saves never replays edits that were saved over.
NoStaleReplay ==
    [][phase = "replay" /\ phase' = "open" /\ ~external =>
          \/ doc' = hist[acked]
          \/ rev' > acked /\ doc' = hist[rev']]_vars
=============================================================================
