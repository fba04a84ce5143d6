-------------------------- MODULE LifecycleProofs ---------------------------
(***************************************************************************)
(* Safety of the goroutines of one Session for every finite number of host *)
(* savers and leases, every lease budget and every checkpoint threshold.   *)
(***************************************************************************)
EXTENDS Lifecycle, FiniteSetTheorems, TLAPS

-----------------------------------------------------------------------------
\* Types

\* The counters and records, by the field group they belong to; the flags
\* are separate because another prover deals with them.
FlagTypes ==
    /\ fault \in BOOLEAN /\ gate \in BOOLEAN /\ saveActive \in BOOLEAN
    /\ failed \in BOOLEAN /\ syncErr \in BOOLEAN /\ stale \in BOOLEAN
    /\ ckptPending \in BOOLEAN /\ cancelled \in BOOLEAN /\ closed \in BOOLEAN

LoopPhases == {"select", "sync", "record", "checkpoint", "after", "exited"}
CloserPhases == {"none", "mark", "join", "gate", "retire", "drain", "done"}

PhaseTypes ==
    /\ pc \in [Savers -> SaverPhases]
    /\ loop \in LoopPhases /\ closer \in CloserPhases

DocumentTypes ==
    /\ rev \in Revisions /\ committed \in Revisions
    /\ target \in [Savers -> Revisions]
    /\ queue \in Seq(Revisions) /\ nextCkpt \in Nat

GenerationTypes ==
    /\ gen \in Generations
    /\ retired \subseteq Generations /\ released \subseteq Generations
    /\ lease \in [Leases -> [gen : 0..MaxGeneration, counted : BOOLEAN]]
    /\ saveGen \in [Savers -> 0..MaxGeneration]
    /\ syncing \in 0..MaxGeneration

LEMMA FlagInit == Init => FlagTypes
BY Zenon DEF Init, FlagTypes

LEMMA FlagStep == FlagTypes /\ [Next]_vars => FlagTypes'
<1>. SUFFICES ASSUME FlagTypes, [Next]_vars PROVE FlagTypes'
  OBVIOUS
<1>. USE DEF FlagTypes, document, sources, snapshots, serializer, saving,
             background, checkpoint, closing
<1>1. CASE Edit
  BY <1>1, ZenonT(40) DEF Edit, ScheduleCheckpoint
<1>2. CASE \E l \in Leases : TakeSnapshot(l) \/ UncountLease(l) \/ ReleaseLease(l)
  BY <1>2, ZenonT(40) DEF TakeSnapshot, UncountLease, ReleaseLease
<1>3. CASE \E p \in Savers : AcquireBegin(p) \/ AcquireLeave(p)
  BY <1>3, ZenonT(40) DEF AcquireBegin, AcquireLeave
<1>4. ASSUME NEW p \in Savers, SaverStep(p) PROVE FlagTypes'
  <2>1. CASE AcquireGate(p) \/ AcquireRecheck(p)
    BY <2>1, ZenonT(40) DEF AcquireGate, AcquireRecheck
  <2>2. CASE SaveNothing(p) \/ SaveBegin(p) \/ SaveAbort(p) \/ SaveCommitFaults(p)
    BY <2>2, ZenonT(40) DEF SaveNothing, SaveBegin, SaveAbort, SaveCommitFaults
  <2>3. CASE SaveCommit(p)
    BY <2>3, ZenonT(40) DEF SaveCommit, ScheduleCheckpoint
  <2>4. CASE SaveUnlease(p) \/ ReleaseActive(p) \/ ReturnToken(p)
    BY <2>4, ZenonT(40) DEF SaveUnlease, ReleaseActive, ReturnToken
  <2>. QED  BY <1>4, <2>1, <2>2, <2>3, <2>4 DEF SaverStep, SaveEnd
<1>5. CASE LoopTick \/ LoopTake \/ LoopStop \/ LoopSync \/ AcquireRefused
  BY <1>5, ZenonT(40) DEF LoopTick, LoopTake, LoopStop, LoopSync, AcquireRefused
<1>6. CASE LoopRecord
  BY <1>6, ZenonT(40) DEF LoopRecord
<1>7. CASE LoopAfter
  BY <1>7, ZenonT(40) DEF LoopAfter, ScheduleCheckpoint
<1>8. CASE Close \/ CloserStep
  BY <1>8, ZenonT(40) DEF Close, CloserStep, CloseMark, CloseJoin, CloseGate,
                     CloseRetire, CloseDrain
<1>9. CASE UNCHANGED vars
  BY <1>9, ZenonT(40) DEF vars
<1>. QED  BY <1>1, <1>2, <1>3, <1>4, <1>5, <1>6, <1>7, <1>8, <1>9
            DEF Next, LoopStep, Savers

-----------------------------------------------------------------------------
\* Control: where the goroutines can be at the same time

Holding(p) == pc[p] \in {"recheck", "begin", "stream", "unlease", "release", "return"}
CloserHolds == closer \in {"retire", "drain"}

\* The token is in one place.
TokenInv ==
    /\ \A p, q \in Savers : Holding(p) /\ Holding(q) => p = q
    /\ gate \/ CloserHolds => \A p \in Savers : ~Holding(p)
    /\ gate => ~CloserHolds
    /\ gate \/ CloserHolds \/ \E p \in Savers : Holding(p)

\* finishClose is past the loop's end when it asks for the token, and past
\* the last save when it is done.
CloseInv ==
    /\ cancelled <=> closer # "none"
    /\ closed <=> closer \notin {"none", "mark"}
    /\ closer \in {"gate", "retire", "drain", "done"} => loop = "exited"
    /\ closer = "done" =>
          \A p \in Savers : pc[p] \notin {"begin", "stream", "unlease", "release"}
    /\ pc[Loop] # "idle" => loop = "checkpoint"

\* A request is under way, from its send to the end of its save, or the loop
\* may be sent one; a closing Session sends none.
QueueInv ==
    /\ Len(queue) <= 1
    /\ loop \in {"checkpoint", "after"} => queue = <<>>
    /\ ~Ending /\ ~ckptPending => queue = <<>> /\ loop \notin {"checkpoint", "after"}

ControlInv == PhaseTypes /\ TokenInv /\ CloseInv

LEMMA ControlInit == Init => ControlInv
<1>. SUFFICES ASSUME Init PROVE ControlInv
  OBVIOUS
<1>. QED  BY DEF Init, ControlInv, PhaseTypes, TokenInv, CloseInv, Holding, CloserHolds,
          SaverPhases, LoopPhases, CloserPhases, Savers

LEMMA ControlSaver ==
    ASSUME ControlInv, FlagTypes, NEW p \in Savers,
           SaverStep(p) \/ AcquireBegin(p) \/ AcquireLeave(p)
    PROVE  ControlInv'
<1>. USE DEF ControlInv, PhaseTypes, TokenInv, CloseInv, Holding, CloserHolds,
          SaverPhases, LoopPhases, CloserPhases, Savers, Goto, Return,
          document, sources, snapshots, serializer, saving,
             background, checkpoint, closing
<1>1. CASE AcquireBegin(p)
  BY <1>1 DEF AcquireBegin
<1>2. CASE AcquireLeave(p)
  BY <1>2 DEF AcquireLeave
<1>3. CASE AcquireGate(p)
  BY <1>3 DEF AcquireGate
<1>4. CASE AcquireRecheck(p)
  BY <1>4 DEF AcquireRecheck, Ending
<1>5. CASE SaveNothing(p) \/ SaveBegin(p)
  BY <1>5 DEF SaveNothing, SaveBegin
<1>6. CASE SaveAbort(p) \/ SaveCommit(p) \/ SaveCommitFaults(p)
  BY <1>6 DEF SaveAbort, SaveCommit, SaveCommitFaults
<1>7. CASE SaveUnlease(p) \/ ReleaseActive(p)
  BY <1>7 DEF SaveUnlease, ReleaseActive
<1>8. CASE ReturnToken(p)
  BY <1>8 DEF ReturnToken
<1>. QED  BY <1>1, <1>2, <1>3, <1>4, <1>5, <1>6, <1>7, <1>8 DEF SaverStep, SaveEnd

LEMMA ControlOther ==
    ASSUME ControlInv, FlagTypes,
           \/ LoopTick \/ LoopTake \/ LoopStop \/ LoopSync \/ LoopRecord \/ LoopAfter
           \/ AcquireRefused \/ Close \/ CloserStep
    PROVE  ControlInv'
<1>. USE DEF ControlInv, PhaseTypes, TokenInv, CloseInv, Holding, CloserHolds,
          SaverPhases, LoopPhases, CloserPhases, Savers,
          document, sources, snapshots, serializer, saving,
             background, checkpoint, closing
<1>1. CASE LoopTick \/ LoopTake \/ LoopStop
  BY <1>1 DEF LoopTick, LoopTake, LoopStop
<1>5. CASE LoopSync
  BY <1>5 DEF LoopSync
<1>6. CASE LoopRecord
  BY <1>6 DEF LoopRecord
<1>7. CASE LoopAfter
  BY <1>7 DEF LoopAfter
<1>2. CASE AcquireRefused
  BY <1>2 DEF AcquireRefused
<1>3. CASE Close \/ CloseMark \/ CloseJoin
  BY <1>3 DEF Close, CloseMark, CloseJoin
<1>4. CASE CloseGate \/ CloseRetire \/ CloseDrain
  BY <1>4 DEF CloseGate, CloseRetire, CloseDrain
<1>. QED  BY <1>1, <1>2, <1>3, <1>4, <1>5, <1>6, <1>7 DEF CloserStep

\* Steps of the host that are not part of a save.
HostStep == Edit \/ \E l \in Leases : TakeSnapshot(l) \/ UncountLease(l) \/ ReleaseLease(l)

LEMMA ControlStep == ControlInv /\ FlagTypes /\ [Next]_vars => ControlInv'
<1>. SUFFICES ASSUME ControlInv, FlagTypes, [Next]_vars PROVE ControlInv'
  OBVIOUS
<1>1. CASE HostStep \/ UNCHANGED vars
  <2>1. UNCHANGED <<pc, loop, closer, gate, cancelled, closed>>
    BY <1>1 DEF HostStep, Edit, TakeSnapshot, UncountLease, ReleaseLease, vars,
                serializer, saving, background, closing
  <2>. QED  BY <2>1 DEF ControlInv, PhaseTypes, TokenInv, CloseInv, Holding, CloserHolds
<1>. QED  BY <1>1, ControlSaver, ControlOther DEF Next, LoopStep, HostStep, Savers

\* What a scheduled or refused checkpoint does to the channel.
LEMMA ScheduleQueue ==
    ASSUME NEW r \in Revisions, NEW c \in Revisions, NEW next \in Nat,
           NEW pending \in BOOLEAN,
           queue \in Seq(Revisions), Len(queue) <= 1,
           ~Ending /\ ~pending => queue = <<>>,
           ScheduleCheckpoint(r, c, next, pending)
    PROVE  /\ queue' \in Seq(Revisions) /\ Len(queue') <= 1
           /\ nextCkpt' \in Nat
           /\ queue' = queue \/ (ckptPending' /\ ~Ending /\ ~pending)
           /\ ckptPending' = pending \/ (ckptPending' /\ ~Ending /\ ~pending)
<1>1. CASE MaySchedule(r, c, next, pending)
  <2>1. queue = <<>> /\ queue' = Append(queue, r) /\ ckptPending' /\ ~Ending /\ ~pending
    BY <1>1 DEF MaySchedule, ScheduleCheckpoint
  <2>2. nextCkpt' \in Nat
    BY <1>1, LifecycleAssumption DEF MaySchedule, ScheduleCheckpoint, Revisions
  <2>3. queue' \in Seq(Revisions) /\ Len(queue') <= 1
    BY <2>1
  <2>. QED  BY <2>1, <2>2, <2>3
<1>2. CASE ~MaySchedule(r, c, next, pending)
  BY <1>2 DEF ScheduleCheckpoint
<1>. QED  BY <1>1, <1>2

LEMMA DocumentInit == Init => DocumentTypes /\ QueueInv
<1>. SUFFICES ASSUME Init PROVE DocumentTypes /\ QueueInv
  OBVIOUS
<1>. QED  BY LifecycleAssumption DEF Init, DocumentTypes, QueueInv, Revisions, Savers, Ending

LEMMA DocumentStep ==
    DocumentTypes /\ QueueInv /\ FlagTypes /\ ControlInv /\ [Next]_vars
        => DocumentTypes' /\ QueueInv'
<1>. SUFFICES ASSUME DocumentTypes, QueueInv, FlagTypes, ControlInv, [Next]_vars
              PROVE  DocumentTypes' /\ QueueInv'
  OBVIOUS
<1>0. /\ rev \in Revisions /\ committed \in Revisions /\ ckptPending \in BOOLEAN
      /\ nextCkpt \in Nat /\ Threshold \in Nat /\ FALSE \in BOOLEAN
      /\ queue \in Seq(Revisions) /\ Len(queue) <= 1
  BY LifecycleAssumption DEF DocumentTypes, QueueInv, FlagTypes
<1>1. CASE Edit
  <2>1. /\ rev + 1 \in Revisions /\ ~Ending
        /\ ScheduleCheckpoint(rev + 1, committed, nextCkpt, ckptPending)
        /\ rev' = rev + 1
        /\ UNCHANGED <<committed, target, loop, cancelled, closed>>
    BY <1>1, <1>0, LifecycleAssumption DEF Edit, Revisions, saving, background, closing
  <2>2. /\ queue' \in Seq(Revisions) /\ Len(queue') <= 1
        /\ nextCkpt' \in Nat
        /\ queue' = queue \/ (ckptPending' /\ ~Ending /\ ~ckptPending)
        /\ ckptPending' = ckptPending \/ (ckptPending' /\ ~Ending /\ ~ckptPending)
    BY <1>0, <2>1, ScheduleQueue DEF QueueInv
  <2>. QED  BY <2>1, <2>2 DEF DocumentTypes, QueueInv, Ending
<1>2. ASSUME NEW p \in Savers, SaveCommit(p) PROVE DocumentTypes' /\ QueueInv'
  <2>1. /\ target[p] \in Revisions
        /\ ScheduleCheckpoint(rev, target[p], Threshold, ckptPending)
        /\ committed' = target[p]
        /\ UNCHANGED <<rev, target, loop, cancelled, closed>>
    BY <1>2 DEF SaveCommit, closing, DocumentTypes
  <2>2. /\ queue' \in Seq(Revisions) /\ Len(queue') <= 1
        /\ nextCkpt' \in Nat
        /\ queue' = queue \/ (ckptPending' /\ ~Ending /\ ~ckptPending)
        /\ ckptPending' = ckptPending \/ (ckptPending' /\ ~Ending /\ ~ckptPending)
    BY <1>0, <2>1, ScheduleQueue DEF QueueInv
  <2>. QED  BY <2>1, <2>2 DEF DocumentTypes, QueueInv, Ending
<1>3. CASE LoopAfter
  <2>1. /\ ScheduleCheckpoint(rev, committed, nextCkpt, FALSE)
        /\ loop = "after" /\ loop' = "select" /\ queue = <<>>
        /\ UNCHANGED <<rev, committed, target, cancelled, closed>>
    BY <1>3 DEF LoopAfter, document, saving, closing, QueueInv
  <2>2. /\ queue' \in Seq(Revisions) /\ Len(queue') <= 1
        /\ nextCkpt' \in Nat
        /\ queue' = queue \/ (ckptPending' /\ ~Ending /\ ~FALSE)
    BY <1>0, <2>1, ScheduleQueue DEF QueueInv
  <2>. QED  BY <2>1, <2>2 DEF DocumentTypes, QueueInv, Ending
<1>4. CASE LoopTake
  <2>1. /\ queue # <<>> /\ queue' = Tail(queue) /\ loop' = "checkpoint"
        /\ UNCHANGED <<rev, committed, target, cancelled, closed, ckptPending, nextCkpt>>
    BY <1>4 DEF LoopTake, document, saving, closing
  <2>2. queue' = <<>>
    BY <1>0, <2>1
  <2>3. ~Ending => ckptPending
    BY <2>1 DEF QueueInv
  <2>. QED  BY <1>0, <2>1, <2>2, <2>3 DEF DocumentTypes, QueueInv, Ending
<1>5. ASSUME NEW p \in Savers, AcquireLeave(p) \/ ReturnToken(p)
      PROVE  DocumentTypes' /\ QueueInv'
  <2>1. /\ loop' = IF p = Loop THEN "after" ELSE loop
        /\ p = Loop => loop = "checkpoint"
        /\ UNCHANGED <<rev, committed, target, queue, ckptPending, nextCkpt, cancelled, closed>>
    BY <1>5 DEF AcquireLeave, ReturnToken, Return, document, checkpoint, closing,
                ControlInv, CloseInv
  <2>. QED  BY <2>1 DEF DocumentTypes, QueueInv, Ending
<1>6. CASE AcquireRefused
  BY <1>6 DEF AcquireRefused, DocumentTypes, QueueInv, Ending, document, saving, checkpoint,
              closing
<1>7. ASSUME NEW p \in Savers, SaveBegin(p) \/ SaveUnlease(p) \/ SaveCommitFaults(p)
      PROVE  DocumentTypes' /\ QueueInv'
  <2>1. DocumentTypes'
    BY <1>7, LifecycleAssumption DEF SaveBegin, SaveUnlease, SaveCommitFaults, DocumentTypes, Revisions,
        document, checkpoint
  <2>2. UNCHANGED <<loop, queue, ckptPending, cancelled, closed>>
    BY <1>7 DEF SaveBegin, SaveUnlease, SaveCommitFaults, background, checkpoint, closing
  <2>. QED  BY <2>1, <2>2 DEF QueueInv, Ending
<1>8. CASE LoopTick \/ LoopSync \/ LoopRecord \/ LoopStop
  BY <1>8 DEF LoopTick, LoopSync, LoopRecord, LoopStop, DocumentTypes, QueueInv, Ending,
       document, saving, checkpoint, closing
<1>9. CASE Close \/ CloserStep
  <2>1. UNCHANGED <<rev, committed, target, queue, nextCkpt, loop>>
    BY <1>9 DEF Close, CloserStep, CloseMark, CloseJoin, CloseGate, CloseRetire,
                CloseDrain, document, saving, checkpoint, background
  <2>2. Ending'
    BY <1>9 DEF Close, CloserStep, CloseMark, CloseJoin, CloseGate, CloseRetire,
                CloseDrain, closing, Ending, ControlInv, CloseInv
  <2>. QED  BY <2>1, <2>2 DEF DocumentTypes, QueueInv
<1>10. ASSUME \/ UNCHANGED vars
              \/ \E l \in Leases : TakeSnapshot(l) \/ UncountLease(l) \/ ReleaseLease(l)
              \/ \E p \in Savers :
                   \/ AcquireBegin(p) \/ AcquireGate(p) \/ AcquireRecheck(p)
                   \/ SaveNothing(p) \/ SaveAbort(p) \/ ReleaseActive(p)
       PROVE  DocumentTypes' /\ QueueInv'
  <2>1. UNCHANGED <<rev, committed, target, loop, queue, ckptPending, nextCkpt, cancelled, closed>>
    BY <1>10 DEF vars, TakeSnapshot, UncountLease, ReleaseLease, AcquireBegin,
         AcquireGate, AcquireRecheck, SaveNothing, SaveAbort, ReleaseActive,
         document, saving, background, checkpoint, closing
  <2>. QED  BY <2>1 DEF DocumentTypes, QueueInv, Ending
<1>. QED  BY <1>1, <1>2, <1>3, <1>4, <1>5, <1>6, <1>7, <1>8, <1>9, <1>10
            DEF Next, LoopStep, SaverStep, SaveEnd, Savers

-----------------------------------------------------------------------------
\* Generations and their references

LeasesOf(g) == {l \in Leases : lease[l].gen = g}
SavesOf(g) == {p \in Savers : Streaming(p) /\ saveGen[p] = g}
Own(g) == IF g = gen /\ g \notin retired THEN 1 ELSE 0

\* Leases and saves read from generations that exist, and the retired ones
\* are those before the current one, and that one too once the Session has
\* given it up.
ReaderInv ==
    /\ \A l \in Leases : lease[l].gen <= gen /\ (lease[l].gen = 0 => lease[l] = NoLease)
    /\ \A p \in Savers : Streaming(p) => saveGen[p] \in 1..gen
    /\ retired = 1..(IF closer \in {"drain", "done"} THEN gen ELSE gen - 1)

\* References are counted exactly, and files are closed with the last one.
RefsInv ==
    /\ refs \in [Generations -> Nat]
    /\ \A g \in Generations :
          /\ refs[g] = Cardinality(LeasesOf(g)) + Cardinality(SavesOf(g)) + Own(g)
          /\ g \in released <=> g \in retired /\ refs[g] = 0

GenerationInv == GenerationTypes /\ ReaderInv /\ RefsInv

\* Counting a set with one element more or less.
LEMMA CountIn ==
    ASSUME NEW S, IsFiniteSet(S), NEW x, x \notin S
    PROVE  Cardinality(S \cup {x}) = Cardinality(S) + 1 /\ Cardinality(S) \in Nat
BY FS_AddElement, FS_CardinalityType

LEMMA CountOut ==
    ASSUME NEW S, IsFiniteSet(S), NEW x \in S
    PROVE  Cardinality(S \ {x}) = Cardinality(S) - 1 /\ Cardinality(S) \in Nat \ {0}
BY FS_RemoveElement, FS_CardinalityType, FS_EmptySet

LEMMA FiniteReaders ==
    /\ IsFiniteSet(Savers)
    /\ \A g : IsFiniteSet(LeasesOf(g)) /\ IsFiniteSet(SavesOf(g))
    /\ \A g : Cardinality(LeasesOf(g)) \in Nat /\ Cardinality(SavesOf(g)) \in Nat
<1>1. IsFiniteSet(Savers)
  BY LifecycleAssumption, FS_AddElement DEF Savers
<1>2. \A g : LeasesOf(g) \in SUBSET Leases /\ SavesOf(g) \in SUBSET Savers
  BY DEF LeasesOf, SavesOf
<1>3. \A g : IsFiniteSet(LeasesOf(g)) /\ IsFiniteSet(SavesOf(g))
  BY <1>1, <1>2, LifecycleAssumption, FS_Subset
<1>. QED  BY <1>1, <1>3, FS_CardinalityType

LEMMA GenerationInit == Init => GenerationInv
<1>. SUFFICES ASSUME Init PROVE GenerationInv
  OBVIOUS
<1>1. GenerationTypes
  BY LifecycleAssumption DEF Init, GenerationTypes, Generations, NoLease
<1>2. ReaderInv
  BY LifecycleAssumption DEF Init, ReaderInv, Streaming, NoLease
<1>3. ASSUME NEW g \in Generations
      PROVE  LeasesOf(g) = {} /\ SavesOf(g) = {} /\ Own(g) = IF g = 1 THEN 1 ELSE 0
  BY LifecycleAssumption DEF Init, LeasesOf, SavesOf, Own, NoLease, Streaming, Generations
<1>4. RefsInv
  <2>1. Cardinality({}) = 0
    BY FS_EmptySet
  <2>2. refs \in [Generations -> Nat]
    BY DEF Init
  <2>3. ASSUME NEW g \in Generations
        PROVE  /\ refs[g] = Cardinality(LeasesOf(g)) + Cardinality(SavesOf(g)) + Own(g)
               /\ g \in released <=> g \in retired /\ refs[g] = 0
    <3>1. /\ refs = [k \in Generations |-> IF k = 1 THEN 1 ELSE 0]
          /\ retired = {} /\ released = {}
      BY DEF Init
    <3>. QED  BY <1>3, <2>1, <3>1
  <2>. QED  BY <2>2, <2>3 DEF RefsInv
<1>. QED  BY <1>1, <1>2, <1>4 DEF GenerationInv

\* Steps that move no reader leave the counts alone.
LEMMA SameReaders ==
    ASSUME GenerationInv, UNCHANGED <<gen, refs, retired, released, lease, saveGen>>,
           \A p \in Savers : Streaming(p)' <=> Streaming(p),
           closer' \in {"drain", "done"} <=> closer \in {"drain", "done"},
           syncing' \in 0..MaxGeneration
    PROVE  GenerationInv'
<1>1. GenerationTypes'
  BY DEF GenerationInv, GenerationTypes
<1>2. ReaderInv'
  BY DEF GenerationInv, ReaderInv
<1>3. \A g : LeasesOf(g)' = LeasesOf(g) /\ SavesOf(g)' = SavesOf(g) /\ Own(g)' = Own(g)
  BY DEF LeasesOf, SavesOf, Own
<1>4. RefsInv'
  BY <1>3 DEF GenerationInv, RefsInv
<1>. QED  BY <1>1, <1>2, <1>4 DEF GenerationInv

LEMMA TakeSnapshotRefs ==
    ASSUME GenerationInv, ControlInv, FlagTypes, NEW l \in Leases, TakeSnapshot(l)
    PROVE  GenerationInv'
<1>. USE LifecycleAssumption DEF GenerationInv, GenerationTypes, TakeSnapshot, document,
         serializer, saving, background, checkpoint, closing
<1>0. closer = "none" /\ closer' = closer /\ gen \in Generations /\ gen \notin retired
  BY DEF Ending, ControlInv, CloseInv, ReaderInv, Generations
<1>1. GenerationTypes'
  BY DEF Generations
<1>2. ReaderInv'
  <2>1. \A k \in Leases : lease'[k] = IF k = l THEN [gen |-> gen, counted |-> TRUE] ELSE lease[k]
    OBVIOUS
  <2>2. gen \in Nat \ {0} /\ UNCHANGED <<gen, retired, pc, saveGen>>
    BY DEF Generations
  <2>3. \A k \in Leases :
           lease'[k].gen <= gen /\ (lease'[k].gen = 0 => lease'[k] = NoLease)
    BY <2>1, <2>2 DEF ReaderInv
  <2>. QED  BY <1>0, <2>2, <2>3 DEF ReaderInv, Streaming
<1>3. LeasesOf(gen)' = LeasesOf(gen) \cup {l} /\ l \notin LeasesOf(gen)
  BY DEF LeasesOf, NoLease, Generations
<1>4. \A g \in Generations : g # gen => LeasesOf(g)' = LeasesOf(g)
  BY DEF LeasesOf, NoLease, Generations
<1>5. \A g : SavesOf(g)' = SavesOf(g) /\ Own(g)' = Own(g)
  BY DEF SavesOf, Own, Streaming
<1>6. Cardinality(LeasesOf(gen)') = Cardinality(LeasesOf(gen)) + 1
  BY <1>3, CountIn, FiniteReaders
<1>7. /\ refs' \in [Generations -> Nat] /\ refs'[gen] = refs[gen] + 1
      /\ \A g \in Generations : g # gen => refs'[g] = refs[g]
  BY <1>0 DEF RefsInv
<1>8. ASSUME NEW g \in Generations
      PROVE  /\ refs'[g] = Cardinality(LeasesOf(g)') + Cardinality(SavesOf(g)') + Own(g)'
             /\ g \in released' <=> g \in retired' /\ refs'[g] = 0
  <2>1. CASE g = gen
    BY <2>1, <1>0, <1>5, <1>6, <1>7, FiniteReaders DEF RefsInv, Own
  <2>2. CASE g # gen
    BY <2>2, <1>4, <1>5, <1>7 DEF RefsInv
  <2>. QED  BY <2>1, <2>2
<1>. QED  BY <1>1, <1>2, <1>7, <1>8 DEF RefsInv

LEMMA ReleaseLeaseRefs ==
    ASSUME GenerationInv, ControlInv, FlagTypes, NEW l \in Leases, ReleaseLease(l)
    PROVE  GenerationInv'
<1>. USE LifecycleAssumption DEF GenerationInv, GenerationTypes, ReleaseLease, Drop, document,
         serializer, saving, background, checkpoint, closing
<1>0. PICK h \in Generations : h = lease[l].gen
  BY DEF ReaderInv, Generations
<1>1. GenerationTypes'
  <2>1. lease' \in [Leases -> [gen : 0..MaxGeneration, counted : BOOLEAN]]
    BY DEF NoLease
  <2>2. released' \subseteq Generations
    BY <1>0
  <2>. QED  BY <2>1, <2>2
<1>2. ReaderInv'
  <2>1. \A k \in Leases : lease'[k] = IF k = l THEN NoLease ELSE lease[k]
    OBVIOUS
  <2>2. gen \in Nat \ {0} /\ UNCHANGED <<gen, retired, pc, saveGen, closer>>
    BY DEF Generations
  <2>3. \A k \in Leases :
           lease'[k].gen <= gen /\ (lease'[k].gen = 0 => lease'[k] = NoLease)
    BY <2>1, <2>2 DEF ReaderInv, NoLease
  <2>. QED  BY <2>2, <2>3 DEF ReaderInv, Streaming
<1>3. LeasesOf(h)' = LeasesOf(h) \ {l} /\ l \in LeasesOf(h)
  BY <1>0 DEF LeasesOf, NoLease, Generations
<1>4. \A g \in Generations : g # h => LeasesOf(g)' = LeasesOf(g)
  BY <1>0 DEF LeasesOf, NoLease, Generations
<1>5. \A g : SavesOf(g)' = SavesOf(g) /\ Own(g)' = Own(g)
  BY DEF SavesOf, Own, Streaming
<1>6. /\ Cardinality(LeasesOf(h)') = Cardinality(LeasesOf(h)) - 1
      /\ Cardinality(LeasesOf(h)) \in Nat \ {0}
  BY <1>3, CountOut, FiniteReaders
<1>7. refs[h] \in Nat \ {0}
  BY <1>0, <1>6, FiniteReaders DEF RefsInv, Own
<1>8. /\ refs' \in [Generations -> Nat] /\ refs'[h] = refs[h] - 1
      /\ \A g \in Generations : g # h => refs'[g] = refs[g]
  BY <1>0, <1>7 DEF RefsInv
<1>9. ASSUME NEW g \in Generations
      PROVE  /\ refs'[g] = Cardinality(LeasesOf(g)') + Cardinality(SavesOf(g)') + Own(g)'
             /\ g \in released' <=> g \in retired' /\ refs'[g] = 0
  <2>1. CASE g = h
    <3>1. refs'[h] = Cardinality(LeasesOf(h)') + Cardinality(SavesOf(h)') + Own(h)'
      BY <1>0, <1>5, <1>6, <1>8, FiniteReaders DEF RefsInv, Own
    <3>2. h \in released' <=> h \in retired' /\ refs'[h] = 0
      BY <1>0, <1>7, <1>8 DEF RefsInv
    <3>. QED  BY <2>1, <3>1, <3>2
  <2>2. CASE g # h
    BY <2>2, <1>4, <1>5, <1>8 DEF RefsInv
  <2>. QED  BY <2>1, <2>2
<1>. QED  BY <1>1, <1>2, <1>8, <1>9 DEF RefsInv

LEMMA SaveBeginRefs ==
    ASSUME GenerationInv, ControlInv, FlagTypes, NEW p \in Savers, SaveBegin(p)
    PROVE  GenerationInv'
<1>. USE LifecycleAssumption DEF GenerationInv, GenerationTypes, SaveBegin, Goto, document,
         snapshots, serializer, background, checkpoint, closing
<1>0. closer = "none" /\ closer' = closer /\ gen \in Generations /\ gen \notin retired
  BY DEF Ending, ControlInv, CloseInv, ReaderInv, Generations
<1>1. GenerationTypes'
  BY DEF Generations
<1>2. \A q \in Savers : /\ Streaming(q)' <=> (Streaming(q) \/ q = p)
                        /\ saveGen'[q] = IF q = p THEN gen ELSE saveGen[q]
  BY DEF Streaming, ControlInv, PhaseTypes
<1>3. ReaderInv'
  <2>1. \A q \in Savers : Streaming(q)' => saveGen'[q] \in 1..gen
    BY <1>2 DEF ReaderInv, Generations
  <2>. QED  BY <1>0, <2>1 DEF ReaderInv
<1>4. ~Streaming(p)
  BY DEF Streaming
<1>5. SavesOf(gen)' = SavesOf(gen) \cup {p} /\ p \notin SavesOf(gen)
  BY <1>2, <1>4 DEF SavesOf
<1>6. \A g \in Generations : g # gen => SavesOf(g)' = SavesOf(g)
  BY <1>2, <1>4 DEF SavesOf
<1>7. \A g : LeasesOf(g)' = LeasesOf(g) /\ Own(g)' = Own(g)
  BY DEF LeasesOf, Own
<1>8. Cardinality(SavesOf(gen)') = Cardinality(SavesOf(gen)) + 1
  BY <1>5, CountIn, FiniteReaders
<1>9. /\ refs' \in [Generations -> Nat] /\ refs'[gen] = refs[gen] + 1
      /\ \A g \in Generations : g # gen => refs'[g] = refs[g]
  BY <1>0 DEF RefsInv
<1>10. ASSUME NEW g \in Generations
      PROVE  /\ refs'[g] = Cardinality(LeasesOf(g)') + Cardinality(SavesOf(g)') + Own(g)'
             /\ g \in released' <=> g \in retired' /\ refs'[g] = 0
  <2>1. CASE g = gen
    BY <2>1, <1>0, <1>7, <1>8, <1>9, FiniteReaders DEF RefsInv, Own
  <2>2. CASE g # gen
    BY <2>2, <1>6, <1>7, <1>9 DEF RefsInv
  <2>. QED  BY <2>1, <2>2
<1>. QED  BY <1>1, <1>3, <1>9, <1>10 DEF RefsInv

LEMMA SaveUnleaseRefs ==
    ASSUME GenerationInv, ControlInv, FlagTypes, NEW p \in Savers, SaveUnlease(p)
    PROVE  GenerationInv'
<1>. USE LifecycleAssumption DEF GenerationInv, GenerationTypes, SaveUnlease, Drop, Goto, document,
         snapshots, serializer, background, checkpoint, closing
<1>. PICK h \in Generations : h = saveGen[p]
  BY DEF ReaderInv, Streaming, Generations
<1>0. Streaming(p) /\ h = saveGen[p]
  BY DEF Streaming
<1>1. GenerationTypes'
  <2>1. saveGen' \in [Savers -> 0..MaxGeneration]
    OBVIOUS
  <2>2. released' \subseteq Generations
    BY <1>0
  <2>. QED  BY <2>1, <2>2
<1>2. \A q \in Savers : /\ Streaming(q)' <=> Streaming(q) /\ q # p
                         /\ saveGen'[q] = IF q = p THEN 0 ELSE saveGen[q]
  BY DEF Streaming, ControlInv, PhaseTypes
<1>3. ReaderInv'
  <2>1. \A q \in Savers : Streaming(q)' => saveGen'[q] \in 1..gen
    BY <1>2 DEF ReaderInv, Generations
  <2>. QED  BY <2>1 DEF ReaderInv
<1>5. SavesOf(h)' = SavesOf(h) \ {p} /\ p \in SavesOf(h)
  BY <1>0, <1>2 DEF SavesOf
<1>6. \A g \in Generations : g # h => SavesOf(g)' = SavesOf(g)
  BY <1>0, <1>2 DEF SavesOf
<1>7. \A g : LeasesOf(g)' = LeasesOf(g) /\ Own(g)' = Own(g)
  BY DEF LeasesOf, Own
<1>8. /\ Cardinality(SavesOf(h)') = Cardinality(SavesOf(h)) - 1
      /\ Cardinality(SavesOf(h)) \in Nat \ {0}
  BY <1>5, CountOut, FiniteReaders
<1>9. refs[h] \in Nat \ {0}
  BY <1>0, <1>8, FiniteReaders DEF RefsInv, Own
<1>10. /\ refs' \in [Generations -> Nat] /\ refs'[h] = refs[h] - 1
      /\ \A g \in Generations : g # h => refs'[g] = refs[g]
  BY <1>0, <1>9 DEF RefsInv
<1>11. ASSUME NEW g \in Generations
      PROVE  /\ refs'[g] = Cardinality(LeasesOf(g)') + Cardinality(SavesOf(g)') + Own(g)'
             /\ g \in released' <=> g \in retired' /\ refs'[g] = 0
  <2>1. CASE g = h
    <3>1. refs'[h] = Cardinality(LeasesOf(h)') + Cardinality(SavesOf(h)') + Own(h)'
      BY <1>0, <1>7, <1>8, <1>10, FiniteReaders DEF RefsInv, Own
    <3>2. h \in released' <=> h \in retired' /\ refs'[h] = 0
      BY <1>0, <1>9, <1>10 DEF RefsInv
    <3>. QED  BY <2>1, <3>1, <3>2
  <2>2. CASE g # h
    BY <2>2, <1>6, <1>7, <1>10 DEF RefsInv
  <2>. QED  BY <2>1, <2>2
<1>. QED  BY <1>1, <1>3, <1>10, <1>11 DEF RefsInv

LEMMA SaveCommitRefs ==
    ASSUME GenerationInv, ControlInv, FlagTypes, NEW p \in Savers, SaveCommit(p)
    PROVE  GenerationInv'
<1>. USE LifecycleAssumption DEF GenerationInv, GenerationTypes, SaveCommit, Goto,
         snapshots, serializer, closing
<1>0. /\ closer \notin {"drain", "done"} /\ closer' = closer
      /\ gen \in Generations /\ gen + 1 \in Generations /\ gen \notin retired
  BY DEF ControlInv, TokenInv, CloseInv, Holding, CloserHolds, ReaderInv, Generations
<1>. PICK o \in Generations : o = gen
  BY <1>0
<1>1. GenerationTypes'
  BY <1>0 DEF Generations
<1>2. \A q \in Savers : Streaming(q)' <=> Streaming(q)
  BY DEF Streaming, ControlInv, PhaseTypes
<1>3. ReaderInv'
  <2>1. retired' = 1..gen
    BY <1>0 DEF ReaderInv, Generations
  <2>2. \A q \in Savers : Streaming(q)' => saveGen'[q] \in 1..gen'
    BY <1>0, <1>2 DEF ReaderInv, Generations
  <2>3. \A k \in Leases : lease'[k].gen <= gen' /\ (lease'[k].gen = 0 => lease'[k] = NoLease)
    <3>1. \A k \in Leases : lease[k].gen \in Nat
      OBVIOUS
    <3>. QED  BY <1>0, <3>1 DEF ReaderInv, Generations
  <2>. QED  BY <1>0, <2>1, <2>2, <2>3 DEF ReaderInv, Generations
<1>4. \A g : LeasesOf(g)' = LeasesOf(g) /\ SavesOf(g)' = SavesOf(g)
  BY <1>2 DEF LeasesOf, SavesOf
<1>5. LeasesOf(o + 1) = {} /\ SavesOf(o + 1) = {}
  BY <1>0 DEF LeasesOf, SavesOf, ReaderInv, Generations
<1>6. Cardinality({}) = 0
  BY FS_EmptySet
<1>7. /\ Own(o) = 1 /\ Own(o)' = 0 /\ Own(o + 1)' = 1
      /\ \A g \in Generations : g # o /\ g # o + 1 => Own(g)' = Own(g)
  BY <1>0 DEF Own, ReaderInv, Generations
<1>8. refs[o] \in Nat \ {0}
  BY <1>0, <1>7, FiniteReaders DEF RefsInv
<1>9. /\ refs' \in [Generations -> Nat]
      /\ refs'[o] = refs[o] - 1 /\ refs'[o + 1] = 1
      /\ \A g \in Generations : g # o /\ g # o + 1 => refs'[g] = refs[g]
  BY <1>0, <1>8, SMTT(30) DEF RefsInv, Generations
<1>10. ASSUME NEW g \in Generations
      PROVE  /\ refs'[g] = Cardinality(LeasesOf(g)') + Cardinality(SavesOf(g)') + Own(g)'
             /\ g \in released' <=> g \in retired' /\ refs'[g] = 0
  <2>1. CASE g = o
    <3>1. refs'[o] = Cardinality(LeasesOf(o)') + Cardinality(SavesOf(o)') + Own(o)'
      BY <1>0, <1>4, <1>7, <1>9, FiniteReaders DEF RefsInv
    <3>2. o \in released' <=> o \in retired' /\ refs'[o] = 0
      BY <1>0, <1>8, <1>9 DEF RefsInv
    <3>. QED  BY <2>1, <3>1, <3>2, <1>4, <1>7
  <2>2. CASE g = o + 1
    <3>1. refs'[g] = Cardinality(LeasesOf(g)') + Cardinality(SavesOf(g)') + Own(g)'
      <4>1. LeasesOf(g)' = {} /\ SavesOf(g)' = {}
        BY <2>2, <1>4, <1>5
      <4>2. Own(g)' = 1
        BY <2>2, <1>0 DEF Own, ReaderInv, Generations
      <4>3. refs'[g] = 1
        BY <2>2, <1>9
      <4>4. Cardinality(LeasesOf(g)') = 0 /\ Cardinality(SavesOf(g)') = 0
        BY <4>1, <1>6, Zenon
      <4>. QED  BY <4>2, <4>3, <4>4
    <3>2. g \notin retired' /\ g \notin released'
      BY <2>2, <1>0 DEF RefsInv, ReaderInv, Generations
    <3>. QED  BY <3>1, <3>2
  <2>3. CASE g # o /\ g # o + 1
    BY <2>3, <1>4, <1>7, <1>9 DEF RefsInv
  <2>. QED  BY <2>1, <2>2, <2>3
<1>. QED  BY <1>1, <1>3, <1>9, <1>10 DEF RefsInv

LEMMA CloseRetireRefs ==
    ASSUME GenerationInv, ControlInv, FlagTypes, CloseRetire
    PROVE  GenerationInv'
<1>. USE LifecycleAssumption DEF GenerationInv, GenerationTypes, CloseRetire, Drop,
         document, snapshots, serializer, saving
<1>0. /\ closer = "retire" /\ closer' = "drain"
      /\ gen \in Generations /\ gen \notin retired
  BY DEF ReaderInv, Generations
<1>1. GenerationTypes'
  BY <1>0 DEF Generations
<1>2. \A q \in Savers : Streaming(q)' <=> Streaming(q)
  BY DEF Streaming
<1>3. ReaderInv'
  BY <1>0, <1>2 DEF ReaderInv, Generations
<1>4. \A g : LeasesOf(g)' = LeasesOf(g) /\ SavesOf(g)' = SavesOf(g)
  BY <1>2 DEF LeasesOf, SavesOf
<1>7. /\ Own(gen) = 1 /\ Own(gen)' = 0
      /\ \A g \in Generations : g # gen => Own(g)' = Own(g)
  BY <1>0 DEF Own
<1>8. refs[gen] \in Nat \ {0}
  BY <1>0, <1>7, FiniteReaders DEF RefsInv
<1>9. /\ refs' \in [Generations -> Nat] /\ refs'[gen] = refs[gen] - 1
      /\ \A g \in Generations : g # gen => refs'[g] = refs[g]
  BY <1>0, <1>8 DEF RefsInv
<1>10. ASSUME NEW g \in Generations
      PROVE  /\ refs'[g] = Cardinality(LeasesOf(g)') + Cardinality(SavesOf(g)') + Own(g)'
             /\ g \in released' <=> g \in retired' /\ refs'[g] = 0
  <2>1. CASE g = gen
    <3>1. refs'[gen] = Cardinality(LeasesOf(gen)') + Cardinality(SavesOf(gen)') + Own(gen)'
      BY <1>0, <1>4, <1>7, <1>9, FiniteReaders DEF RefsInv
    <3>2. gen \in released' <=> gen \in retired' /\ refs'[gen] = 0
      BY <1>0, <1>8, <1>9 DEF RefsInv
    <3>. QED  BY <2>1, <3>1, <3>2, <1>4, <1>7
  <2>3. CASE g # gen
    BY <2>3, <1>4, <1>7, <1>9 DEF RefsInv
  <2>. QED  BY <2>1, <2>3
<1>. QED  BY <1>1, <1>3, <1>9, <1>10 DEF RefsInv

LEMMA GenerationStep ==
    GenerationInv /\ ControlInv /\ FlagTypes /\ [Next]_vars => GenerationInv'
<1>. SUFFICES ASSUME GenerationInv, ControlInv, FlagTypes, [Next]_vars
              PROVE  GenerationInv'
  OBVIOUS
<1>. USE DEF document, sources, snapshots, serializer, saving, background,
             checkpoint, closing
<1>1. ASSUME NEW l \in Leases, UncountLease(l) PROVE GenerationInv'
  <2>1. /\ lease' \in [Leases -> [gen : 0..MaxGeneration, counted : BOOLEAN]]
        /\ \A k \in Leases : lease'[k].gen = lease[k].gen
        /\ \A k \in Leases : k # l => lease'[k] = lease[k]
    BY <1>1 DEF UncountLease, GenerationInv, GenerationTypes
  <2>2. lease[l].gen # 0
    BY <1>1 DEF UncountLease, GenerationInv, ReaderInv, NoLease
  <2>3. UNCHANGED <<gen, refs, retired, released, pc, saveGen, syncing, closer>>
    BY <1>1 DEF UncountLease
  <2>4. GenerationTypes' /\ ReaderInv'
    BY <2>1, <2>2, <2>3 DEF GenerationInv, GenerationTypes, ReaderInv, Streaming
  <2>5. \A g : LeasesOf(g)' = LeasesOf(g) /\ SavesOf(g)' = SavesOf(g) /\ Own(g)' = Own(g)
    BY <2>1, <2>3 DEF LeasesOf, SavesOf, Own, Streaming
  <2>. QED  BY <2>3, <2>4, <2>5 DEF GenerationInv, RefsInv
<1>2. ASSUME NEW p \in Savers,
             \/ AcquireBegin(p) \/ AcquireLeave(p) \/ AcquireGate(p) \/ AcquireRecheck(p)
             \/ SaveNothing(p) \/ SaveAbort(p) \/ SaveCommitFaults(p)
             \/ ReleaseActive(p) \/ ReturnToken(p)
      PROVE  GenerationInv'
  <2>1. UNCHANGED <<gen, refs, retired, released, lease, saveGen, syncing, closer>>
    BY <1>2 DEF AcquireBegin, AcquireLeave, AcquireGate, AcquireRecheck, SaveNothing,
                SaveAbort, SaveCommitFaults, ReleaseActive, ReturnToken
  <2>2. \A q \in Savers : Streaming(q)' <=> Streaming(q)
    <3>0. pc \in [Savers -> SaverPhases]
      BY DEF ControlInv, PhaseTypes
    <3>1. CASE SaveAbort(p) \/ SaveCommitFaults(p)
      BY <3>0, <3>1 DEF SaveAbort, SaveCommitFaults, Goto, Streaming
    <3>2. CASE AcquireBegin(p) \/ AcquireGate(p)
      BY <3>0, <3>2 DEF AcquireBegin, AcquireGate, Goto, Streaming
    <3>4. CASE AcquireLeave(p)
      BY <3>0, <3>4 DEF AcquireLeave, Goto, Return, Streaming
    <3>5. CASE AcquireRecheck(p)
      <4>1. pc[p] = "recheck" /\ \E x \in {"return", "begin"} : pc' = [pc EXCEPT ![p] = x]
        BY <3>5 DEF AcquireRecheck, Goto
      <4>. QED  BY <3>0, <4>1 DEF Streaming
    <3>3. CASE SaveNothing(p) \/ ReleaseActive(p) \/ ReturnToken(p)
      BY <3>0, <3>3 DEF SaveNothing, ReleaseActive, ReturnToken, Goto, Return, Streaming
    <3>. QED  BY <1>2, <3>1, <3>2, <3>3, <3>4, <3>5
  <2>. QED  BY <2>1, <2>2, SameReaders DEF GenerationInv, GenerationTypes
<1>3. CASE \/ Edit \/ LoopTick \/ LoopTake \/ LoopStop \/ LoopSync \/ LoopRecord
           \/ LoopAfter \/ AcquireRefused
  <2>1. UNCHANGED <<gen, refs, retired, released, lease, saveGen, pc, closer>>
    BY <1>3 DEF Edit, LoopTick, LoopTake, LoopStop, LoopSync, LoopRecord, LoopAfter,
                AcquireRefused
  <2>2. syncing' \in 0..MaxGeneration
    <3>1. syncing' = syncing \/ syncing' = gen \/ syncing' = 0
      BY <1>3 DEF Edit, LoopTick, LoopTake, LoopStop, LoopSync, LoopRecord, LoopAfter,
                  AcquireRefused
    <3>. QED  BY <3>1, LifecycleAssumption DEF GenerationInv, GenerationTypes, Generations
  <2>. QED  BY <2>1, <2>2, SameReaders DEF Streaming
<1>4. CASE Close \/ CloseMark \/ CloseJoin \/ CloseGate \/ CloseDrain \/ UNCHANGED vars
  <2>1. UNCHANGED <<gen, refs, retired, released, lease, saveGen, pc, syncing>>
    BY <1>4 DEF Close, CloseMark, CloseJoin, CloseGate, CloseDrain, vars
  <2>2. closer' \in {"drain", "done"} <=> closer \in {"drain", "done"}
    BY <1>4 DEF Close, CloseMark, CloseJoin, CloseGate, CloseDrain, vars
  <2>. QED  BY <2>1, <2>2, SameReaders DEF Streaming, GenerationInv, GenerationTypes
<1>. QED  BY <1>1, <1>2, <1>3, <1>4, TakeSnapshotRefs, ReleaseLeaseRefs, SaveBeginRefs,
             SaveUnleaseRefs, SaveCommitRefs, CloseRetireRefs
          DEF Next, LoopStep, SaverStep, SaveEnd, CloserStep, Savers

-----------------------------------------------------------------------------
\* The counters of waiting saves and of counted leases

Waiters == {p \in Savers : pc[p] \in {"wait", "recheck"}}
Counted == {l \in Leases : lease[l].counted}

CounterInv ==
    /\ waiting = Cardinality(Waiters)
    /\ active = Cardinality(Counted) /\ active <= MaxSnapshotLeases

LEMMA FiniteCounted ==
    /\ IsFiniteSet(Waiters) /\ Cardinality(Waiters) \in Nat
    /\ IsFiniteSet(Counted) /\ Cardinality(Counted) \in Nat
<1>1. Waiters \in SUBSET Savers /\ Counted \in SUBSET Leases
  BY DEF Waiters, Counted
<1>. QED  BY <1>1, FiniteReaders, LifecycleAssumption, FS_Subset, FS_CardinalityType

LEMMA CounterInit == Init => CounterInv
<1>. SUFFICES ASSUME Init PROVE CounterInv
  OBVIOUS
<1>1. Waiters = {} /\ Counted = {}
  BY DEF Init, Waiters, Counted, NoLease
<1>2. waiting = 0 /\ active = 0 /\ Cardinality({}) = 0
  BY FS_EmptySet DEF Init
<1>. QED  BY <1>1, <1>2, LifecycleAssumption DEF CounterInv

LEMMA CounterStep ==
    CounterInv /\ GenerationInv /\ ControlInv /\ [Next]_vars => CounterInv'
<1>. SUFFICES ASSUME CounterInv, GenerationInv, ControlInv, [Next]_vars PROVE CounterInv'
  OBVIOUS
<1>. USE DEF document, sources, snapshots, serializer, saving, background,
             checkpoint, closing
<1>0. pc \in [Savers -> SaverPhases]
  BY DEF ControlInv, PhaseTypes
<1>1. ASSUME NEW p \in Savers, AcquireBegin(p) PROVE CounterInv'
  <2>1. Waiters' = Waiters \cup {p} /\ p \notin Waiters
    BY <1>0, <1>1 DEF AcquireBegin, Goto, Waiters
  <2>2. waiting' = waiting + 1 /\ active' = active /\ Counted' = Counted
    BY <1>1 DEF AcquireBegin, Counted
  <2>. QED  BY <2>1, <2>2, CountIn, FiniteCounted DEF CounterInv
<1>2. ASSUME NEW p \in Savers, AcquireLeave(p) \/ AcquireRecheck(p) PROVE CounterInv'
  <2>1. Waiters' = Waiters \ {p} /\ p \in Waiters
    BY <1>0, <1>2 DEF AcquireLeave, AcquireRecheck, Goto, Return, Waiters
  <2>2. waiting' = waiting - 1 /\ active' = active /\ Counted' = Counted
    BY <1>2 DEF AcquireLeave, AcquireRecheck, Counted
  <2>. QED  BY <2>1, <2>2, CountOut, FiniteCounted DEF CounterInv
<1>3. ASSUME NEW l \in Leases, TakeSnapshot(l) PROVE CounterInv'
  <2>0. lease \in [Leases -> [gen : 0..MaxGeneration, counted : BOOLEAN]]
    BY DEF GenerationInv, GenerationTypes
  <2>1. Counted' = Counted \cup {l} /\ l \notin Counted
    BY <2>0, <1>3 DEF TakeSnapshot, Counted, NoLease
  <2>2. /\ waiting' = waiting /\ Waiters' = Waiters
        /\ active' = active + 1 /\ active < MaxSnapshotLeases
    BY <1>3 DEF TakeSnapshot, Waiters
  <2>. QED  BY <2>1, <2>2, CountIn, FiniteCounted, LifecycleAssumption DEF CounterInv
<1>4. ASSUME NEW l \in Leases, UncountLease(l) PROVE CounterInv'
  <2>0. lease \in [Leases -> [gen : 0..MaxGeneration, counted : BOOLEAN]]
    BY DEF GenerationInv, GenerationTypes
  <2>1. Counted' = Counted \ {l} /\ l \in Counted
    BY <2>0, <1>4 DEF UncountLease, Counted
  <2>2. waiting' = waiting /\ Waiters' = Waiters /\ active' = IF active > 0 THEN active - 1 ELSE 0
    BY <1>4 DEF UncountLease, Waiters
  <2>. QED  BY <2>1, <2>2, CountOut, FiniteCounted, LifecycleAssumption DEF CounterInv
<1>5. ASSUME NEW l \in Leases, ReleaseLease(l) PROVE CounterInv'
  <2>0. lease \in [Leases -> [gen : 0..MaxGeneration, counted : BOOLEAN]]
    BY DEF GenerationInv, GenerationTypes
  <2>1. Counted' = Counted
    BY <2>0, <1>5 DEF ReleaseLease, Counted, NoLease
  <2>2. UNCHANGED <<waiting, active>> /\ Waiters' = Waiters
    BY <1>5 DEF ReleaseLease, Waiters
  <2>. QED  BY <2>1, <2>2 DEF CounterInv
<1>6. ASSUME NEW p \in Savers,
             \/ AcquireGate(p) \/ SaveNothing(p) \/ SaveBegin(p) \/ SaveEnd(p)
             \/ SaveUnlease(p) \/ ReleaseActive(p) \/ ReturnToken(p)
      PROVE  CounterInv'
  <2>1. UNCHANGED <<waiting, lease, active>>
    BY <1>6 DEF AcquireGate, SaveNothing, SaveBegin, SaveEnd, SaveAbort, SaveCommit,
                SaveCommitFaults, SaveUnlease, ReleaseActive, ReturnToken
  <2>2. Waiters' = Waiters
    BY <1>0, <1>6 DEF AcquireGate, SaveNothing, SaveBegin, SaveEnd, SaveAbort, SaveCommit,
                SaveCommitFaults, SaveUnlease, ReleaseActive, ReturnToken, Goto, Return, Waiters
  <2>. QED  BY <2>1, <2>2 DEF CounterInv, Counted
<1>7. CASE \/ Edit \/ LoopTick \/ LoopTake \/ LoopStop \/ LoopSync \/ LoopRecord
           \/ LoopAfter \/ AcquireRefused \/ Close \/ CloserStep \/ UNCHANGED vars
  <2>1. UNCHANGED <<waiting, lease, active, pc>>
    BY <1>7 DEF Edit, LoopTick, LoopTake, LoopStop, LoopSync, LoopRecord, LoopAfter,
                AcquireRefused, Close, CloserStep, CloseMark, CloseJoin, CloseGate,
                CloseRetire, CloseDrain, vars
  <2>. QED  BY <2>1 DEF CounterInv, Counted, Waiters
<1>. QED  BY <1>1, <1>2, <1>3, <1>4, <1>5, <1>6, <1>7 DEF Next, LoopStep, SaverStep, Savers

-----------------------------------------------------------------------------
\* The theorems

Inv ==
    /\ FlagTypes /\ ControlInv /\ DocumentTypes /\ QueueInv
    /\ GenerationInv /\ CounterInv

LEMMA Invariance == Spec => []Inv
<1>1. Init => Inv
  BY FlagInit, ControlInit, DocumentInit, GenerationInit, CounterInit DEF Inv
<1>2. Inv /\ [Next]_vars => Inv'
  BY FlagStep, ControlStep, DocumentStep, GenerationStep, CounterStep DEF Inv
<1>. QED  BY <1>1, <1>2, PTL DEF Spec

\* Fields keep their types and no counter goes below zero: a save is taken off
\* waitingSaves once for each time it was added, a generation is released
\* once for each reference.
THEOREM TypeCorrect == Spec => []TypeOK
<1>1. Inv => TypeOK
  <2>. SUFFICES ASSUME Inv PROVE TypeOK
    OBVIOUS
  <2>1. {failed, syncErr, stale, ckptPending, cancelled, closed} \subseteq BOOLEAN
    BY Zenon DEF Inv, FlagTypes
  <2>2. fault \in BOOLEAN /\ gate \in BOOLEAN /\ saveActive \in BOOLEAN
    BY Zenon DEF Inv, FlagTypes
  <2>3. active \in Nat /\ waiting \in Nat
    BY FiniteCounted DEF Inv, CounterInv
  <2>. QED  BY <2>1, <2>2, <2>3, Zenon
            DEF Inv, TypeOK, ControlInv, PhaseTypes, DocumentTypes, GenerationInv, GenerationTypes,
                RefsInv, LoopPhases, CloserPhases
<1>. QED  BY <1>1, Invariance, PTL

\* The token of saveGate is never lost and never doubled, by whatever order
\* savers, their cancellations and finishClose come in.
THEOREM TokenIsUnique == Spec => []OneToken
<1>1. Inv => OneToken
  <2>. SUFFICES ASSUME Inv PROVE OneToken
    OBVIOUS
  <2>0. HoldingToken = {p \in Savers : Holding(p)}
    BY DEF HoldingToken, Holding, Inv, ControlInv, PhaseTypes, SaverPhases
  <2>1. CASE gate \/ CloserHolds
    <3>1. HoldingToken = {}
      BY <2>0, <2>1 DEF Inv, ControlInv, TokenInv
    <3>2. Cardinality(HoldingToken) = 0
      BY <3>1, FS_EmptySet
    <3>. QED  BY <2>1, <3>2 DEF OneToken, Inv, ControlInv, TokenInv, CloserHolds
  <2>2. CASE ~(gate \/ CloserHolds)
    <3>1. PICK p \in Savers : Holding(p)
      BY <2>2 DEF Inv, ControlInv, TokenInv
    <3>2. HoldingToken = {p}
      BY <2>0, <3>1 DEF Inv, ControlInv, TokenInv
    <3>3. Cardinality(HoldingToken) = 1
      BY <3>2, FS_Singleton
    <3>. QED  BY <2>2, <3>3 DEF OneToken, CloserHolds
  <2>. QED  BY <2>1, <2>2
<1>. QED  BY <1>1, Invariance, PTL

\* Reference counts are exact, and the leases stay within their budget.
THEOREM ReferencesAreExact == Spec => []RefsAreExact
<1>1. Inv => RefsAreExact
  BY DEF Inv, RefsAreExact, GenerationInv, RefsInv, CounterInv, Counted, LeasesOf, SavesOf, Own
<1>. QED  BY <1>1, Invariance, PTL

\* A request for an automatic checkpoint always finds the channel empty.
THEOREM RequestFindsRoom == Spec => []RequestNeverBlocks
<1>1. Inv => RequestNeverBlocks
  BY DEF Inv, QueueInv, RequestNeverBlocks
<1>. QED  BY <1>1, Invariance, PTL

\* Nothing is published or committed once Close has returned.
LEMMA QuietStep ==
    Inv /\ [Next]_vars /\ closer = "done" => UNCHANGED <<rev, committed, fault, gen, closer>>
<1>. SUFFICES ASSUME Inv, [Next]_vars, closer = "done"
              PROVE  UNCHANGED <<rev, committed, fault, gen, closer>>
  OBVIOUS
<1>. USE DEF document, sources, closing
<1>1. Ending /\ \A p \in Savers : pc[p] # "stream"
  BY DEF Inv, ControlInv, CloseInv, Ending
<1>2. ~Edit
  BY <1>1 DEF Edit
<1>3. ASSUME NEW p \in Savers, AcquireBegin(p) \/ AcquireLeave(p) \/ SaverStep(p)
      PROVE  UNCHANGED <<rev, committed, fault, gen, closer>>
  BY <1>1, <1>3 DEF AcquireBegin, AcquireLeave, SaverStep, AcquireGate, AcquireRecheck,
      SaveNothing, SaveBegin, SaveEnd, SaveAbort, SaveCommit, SaveCommitFaults, SaveUnlease,
      ReleaseActive, ReturnToken
<1>4. ASSUME NEW l \in Leases, TakeSnapshot(l) \/ UncountLease(l) \/ ReleaseLease(l)
      PROVE  UNCHANGED <<rev, committed, fault, gen, closer>>
  BY <1>4 DEF TakeSnapshot, UncountLease, ReleaseLease
<1>5. CASE \/ LoopTick \/ LoopTake \/ LoopStop \/ LoopSync \/ LoopRecord \/ LoopAfter
           \/ AcquireRefused \/ Close \/ CloserStep \/ UNCHANGED vars
  BY <1>5 DEF LoopTick, LoopTake, LoopStop, LoopSync, LoopRecord, LoopAfter,
      AcquireRefused, Close, CloserStep, CloseMark, CloseJoin, CloseGate,
      CloseRetire, CloseDrain, vars
<1>. QED  BY <1>2, <1>3, <1>4, <1>5 DEF Next, LoopStep, Savers

\* Close is final: no edit is published, no save commits and none runs behind
\* it, also not one that was queued or cancelled during the close.
THEOREM CloseIsFinal == Spec => QuietAfterClose
<1>1. Inv /\ closer = "done" => \A p \in Savers : ~Saving(p)
  BY DEF Inv, ControlInv, CloseInv, Saving
<1>2. Inv' /\ closer' = "done" => \A p \in Savers : ~Saving(p)'
  BY DEF Inv, ControlInv, CloseInv, Saving
<1>3. Inv /\ Inv' /\ [Next]_vars =>
         [closer = "done" => /\ UNCHANGED <<rev, committed, fault, gen>>
                             /\ \A p \in Savers : ~Saving(p) /\ ~Saving(p)']_vars
  BY <1>1, <1>2, QuietStep
<1>. QED  BY <1>3, Invariance, PTL DEF Spec, QuietAfterClose

\* The history variable stale of a sync failure that no longer matters.
LEMMA StaleStep == Inv /\ ~stale /\ [Next]_vars => ~stale'
<1>. SUFFICES ASSUME Inv, ~stale, [Next]_vars PROVE ~stale'
  OBVIOUS
<1>. USE DEF background
<1>1. CASE LoopRecord
  <2>1. gen \notin released
    BY <1>1 DEF LoopRecord, Inv, ControlInv, CloseInv, GenerationInv, GenerationTypes,
                ReaderInv, RefsInv, Generations
  <2>. QED  BY <1>1, <2>1 DEF LoopRecord
<1>2. ASSUME NEW p \in Savers, AcquireBegin(p) \/ AcquireLeave(p) \/ SaverStep(p)
      PROVE  stale' = stale
  BY <1>2 DEF AcquireBegin, AcquireLeave, SaverStep, AcquireGate, AcquireRecheck,
      SaveNothing, SaveBegin, SaveEnd, SaveAbort, SaveCommit, SaveCommitFaults, SaveUnlease,
      ReleaseActive, ReturnToken
<1>3. ASSUME NEW l \in Leases, TakeSnapshot(l) \/ UncountLease(l) \/ ReleaseLease(l)
      PROVE  stale' = stale
  BY <1>3 DEF TakeSnapshot, UncountLease, ReleaseLease
<1>4. CASE \/ Edit \/ LoopTick \/ LoopTake \/ LoopStop \/ LoopSync \/ LoopAfter
           \/ AcquireRefused \/ Close \/ CloserStep \/ UNCHANGED vars
  BY <1>4 DEF Edit, LoopTick, LoopTake, LoopStop, LoopSync, LoopAfter,
      AcquireRefused, Close, CloserStep, CloseMark, CloseJoin, CloseGate,
      CloseRetire, CloseDrain, vars
<1>. QED  BY <1>1, <1>2, <1>3, <1>4 DEF Next, LoopStep, Savers

\* A closed Session has closed the files of its last generation.
ClosedInv == closer = "done" => gen \in released

LEMMA ClosedStep == Inv /\ ClosedInv /\ [Next]_vars => ClosedInv'
<1>. SUFFICES ASSUME Inv, ClosedInv, [Next]_vars, closer' = "done" PROVE gen' \in released'
  BY DEF ClosedInv
<1>. USE DEF sources, closing
<1>1. CASE CloseDrain
  BY <1>1 DEF CloseDrain, Inv, GenerationInv, GenerationTypes, ReaderInv, RefsInv, Generations
<1>2. CASE ~CloseDrain
  <2>0. ASSUME NEW p \in Savers, AcquireBegin(p) \/ AcquireLeave(p) \/ SaverStep(p)
        PROVE  closer' = closer /\ released \subseteq released'
    BY <2>0 DEF AcquireBegin, AcquireLeave, SaverStep, AcquireGate, AcquireRecheck,
        SaveNothing, SaveBegin, SaveEnd, SaveAbort, SaveCommit, SaveCommitFaults, SaveUnlease,
        ReleaseActive, ReturnToken, Drop
  <2>1. ASSUME NEW l \in Leases, TakeSnapshot(l) \/ UncountLease(l) \/ ReleaseLease(l)
        PROVE  closer' = closer /\ released \subseteq released'
    BY <2>1 DEF TakeSnapshot, UncountLease, ReleaseLease, Drop
  <2>2. ASSUME \/ Edit \/ LoopTick \/ LoopTake \/ LoopStop \/ LoopSync \/ LoopRecord
               \/ LoopAfter \/ AcquireRefused \/ UNCHANGED vars
        PROVE  closer' = closer /\ released \subseteq released'
    BY <2>2 DEF Edit, LoopTick, LoopTake, LoopStop, LoopSync, LoopRecord, LoopAfter,
        AcquireRefused, vars
  <2>3. ~(Close \/ CloseMark \/ CloseJoin \/ CloseGate \/ CloseRetire)
    BY DEF Close, CloseMark, CloseJoin, CloseGate, CloseRetire
  <2>4. closer = "done" /\ released \subseteq released'
    BY <1>2, <2>0, <2>1, <2>2, <2>3, Zenon DEF Next, LoopStep, CloserStep, Savers
  <2>. QED  BY <2>4, QuietStep DEF ClosedInv
<1>. QED  BY <1>1, <1>2

\* No file is closed under a reader, and none is left open by Close.
THEOREM NoUseAfterClose == Spec => []SourcesStayOpen
<1>1. Init => ~stale /\ ClosedInv
  BY DEF Init, ClosedInv
<1>2. Spec => [](Inv /\ ~stale /\ ClosedInv)
  BY <1>1, StaleStep, ClosedStep, Invariance, PTL DEF Spec
<1>3. Inv /\ ~stale /\ ClosedInv => SourcesStayOpen
  <2>. SUFFICES ASSUME Inv, ~stale, ClosedInv PROVE SourcesStayOpen
    OBVIOUS
  <2>. USE DEF Inv, GenerationInv, GenerationTypes
  <2>1. ASSUME NEW l \in Leases, lease[l] # NoLease PROVE lease[l].gen \notin released
    <3>1. lease[l].gen \in Generations
      BY <2>1, LifecycleAssumption DEF ReaderInv, Generations
    <3>2. PICK h \in Generations : h = lease[l].gen
      BY <3>1
    <3>0. l \in LeasesOf(h)
      BY <3>2 DEF LeasesOf
    <3>3. Cardinality(LeasesOf(h)) \in Nat \ {0}
      BY <3>0, CountOut, FiniteReaders
    <3>4. refs[h] # 0
      BY <3>3, FiniteReaders DEF RefsInv, Own
    <3>. QED  BY <3>2, <3>4 DEF RefsInv
  <2>2. ASSUME NEW p \in Savers, Streaming(p) PROVE saveGen[p] \notin released
    <3>1. saveGen[p] \in Generations
      BY <2>2, LifecycleAssumption DEF ReaderInv, Generations
    <3>2. PICK h \in Generations : h = saveGen[p]
      BY <3>1
    <3>0. p \in SavesOf(h)
      BY <2>2, <3>2 DEF SavesOf
    <3>3. Cardinality(SavesOf(h)) \in Nat \ {0}
      BY <3>0, CountOut, FiniteReaders
    <3>4. refs[h] # 0
      BY <3>3, FiniteReaders DEF RefsInv, Own
    <3>. QED  BY <3>2, <3>4 DEF RefsInv
  <2>3. gen \in released => closer \in {"drain", "done"}
    BY LifecycleAssumption DEF ReaderInv, RefsInv, Generations
  <2>. QED  BY <2>1, <2>2, <2>3 DEF SourcesStayOpen, ClosedInv
<1>. QED  BY <1>2, <1>3, PTL
=============================================================================
