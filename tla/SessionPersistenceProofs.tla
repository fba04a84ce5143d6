---------------------- MODULE SessionPersistenceProofs ----------------------
(***************************************************************************)
(* Proofs about SessionPersistence, for any contents, transactions,        *)
(* journals and bounds: who owns which file, and that the journal of an    *)
(* open Session mirrors its pending list through every append, rollback,   *)
(* save, crash and Open, whatever other programs write (first part).  Then *)
(* what the files mean: that a journal can be replayed from the content    *)
(* its header names, that replay passes through the contents the host was  *)
(* shown, and that base and journal hold every answered transaction in     *)
(* every state of a transaction, a save, a crash or an Open; and from      *)
(* these that the Session implements DurableDocument (second part).        *)
(*                                                                         *)
(* JournalMirrorsPending is not inductive: an append leaves a batch the    *)
(* pending list does not hold yet, a save rebases one list into another    *)
(* file while the first stays current, and a journal found by an Open was  *)
(* written by an earlier Session.  StructInv says what each of these       *)
(* owners may assume of its files while the others are half way.           *)
(*                                                                         *)
(* NothingLost is not inductive either: it speaks of the files that match  *)
(* the base now, while a save is about to change which ones do, and a      *)
(* power loss which parts of them there are.  TrustInv adds, for the       *)
(* journal that matches and for the one a save prepares, what a power loss *)
(* would leave of them.                                                    *)
(***************************************************************************)
EXTENDS SessionPersistence, FiniteSetTheorems, TLAPS

USE DEF disk, session, ghost, env

-----------------------------------------------------------------------------
\* Structure

\* Revisions and offsets of the batches of one journal.
Sound(b) ==
    /\ \A i \in 1..Len(b) : /\ b[i].first > 0 /\ LastRevision(b[i]) <= MaxRevision
                            /\ b[i].end >= HeaderBytes /\ b[i].end <= MaxJournalBytes
    /\ \A i, k \in 1..Len(b) : i < k => /\ LastRevision(b[i]) < b[k].first
                                        /\ b[i].end <= b[k].end
    /\ \A i \in 1..Len(b) : i > 1 => b[i].first = LastRevision(b[i - 1]) + 1

\* The last revision batches lead to from revision r.
EndsAt(b, r) == IF b = <<>> THEN r ELSE LastRevision(b[Len(b)])

File(j) == journals[j] # NoFile

FilesInv ==
    \A j \in JournalIds : File(j) =>
        /\ Sound(journals[j].batches) /\ journals[j].synced <= Len(journals[j].batches)
        /\ journals[j].fp = None => journals[j].batches = <<>>

\* A Session that is not there has no state.
DownInv ==
    phase = "down" =>
        /\ rev = 0 /\ committed = 0 /\ pending = <<>> /\ jid = None /\ fp = None
        /\ journalBytes = 0 /\ fault = FALSE /\ uncertain = FALSE /\ doc = None

\* Replay has applied a prefix of the journal.
ReplayInv ==
    phase = "replay" =>
        /\ jid # None /\ File(jid) /\ journals[jid].fp = fp /\ doc \in Contents /\ fp \in Contents
        /\ fault = FALSE /\ uncertain = FALSE /\ Candidates \subseteq {jid}
        /\ Len(pending) <= Len(journals[jid].batches)
        /\ \A i \in 1..Len(pending) : pending[i] = journals[jid].batches[i]
        /\ committed = IF journals[jid].batches = <<>> THEN 0
                       ELSE journals[jid].batches[1].first - 1
        /\ rev = EndsAt(pending, committed)

\* The journal an open Session appends to mirrors its pending list.
OpenInv ==
    phase = "open" =>
        /\ doc \in Contents /\ fp \in Contents
        /\ Sound(pending) /\ rev = EndsAt(pending, committed) /\ committed <= rev /\ acked = rev
        /\ jid = None => /\ pending = <<>> /\ rev = 0 /\ committed = 0 /\ fault = FALSE
                         /\ Candidates \subseteq BadHeaders
        /\ jid # None =>
             /\ File(jid) /\ journals[jid].fp = fp /\ ~journals[jid].torn
             /\ journals[jid].batches =
                   IF apply.pc = "publish" THEN Append(pending, NewBatch(apply.edit)) ELSE pending
             /\ journalBytes = EndOffset(pending)
             /\ journalBytes <= MaxJournalBytes \/ pending = <<>>
        /\ ~fault => /\ pending # <<>> => pending[1].first = committed + 1
                     /\ Candidates \ BadHeaders \subseteq {jid, save.prep} \cup retired

\* A transaction has passed its checks and owns s.mu.
ApplyInv ==
    /\ apply.pc = "idle" => apply = NoApply
    /\ apply.pc # "idle" =>
         /\ phase = "open" /\ ~fault /\ save.pc \in {"idle", "stream"}
         /\ apply.edit \in Edits /\ CanStage(apply.edit) /\ apply.file \in JournalIds
         /\ QuotaAllows(IF jid = None THEN HeaderBytes ELSE journalBytes, apply.edit)
    /\ apply.pc = "header" => /\ jid = None /\ journals[apply.file] = NewJournal
                              /\ apply.file \notin retired
    /\ apply.pc \in {"append", "publish"} => jid = apply.file

\* The number of pending groups a save covers.
Splits(k, target) ==
    /\ \A i \in 1..Len(pending) : LastRevision(pending[i]) > target <=> i > k
    /\ target = LastRevision(pending[k])

\* A save has captured its target, and from its barrier on owns s.mu and the
\* journal it prepares.
SaveInv ==
    /\ save.pc = "idle" => save = NoSave
    /\ save.pc # "idle" =>
         /\ phase = "open" /\ ~fault /\ jid # None /\ save.text \in Contents
         /\ save.target \in Revisions /\ save.target > committed
         /\ \E k \in 1..Len(pending) : Splits(k, save.target)
    /\ save.pc = "stream" => save.prep = None
    /\ save.pc \notin {"idle", "stream"} =>
         /\ apply = NoApply
         /\ save.prep \in JournalIds \ (retired \cup {jid}) /\ File(save.prep)
    /\ save.pc \in {"prepare", "fill", "barrier"} => base = fp \/ save.late
    /\ save.pc = "prepare" => journals[save.prep] = NewJournal
    /\ save.pc = "fill" => journals[save.prep] = [NewJournal EXCEPT !.fp = save.text]
    /\ save.pc \in {"barrier", "renamed", "replaced", "rebind"} =>
         LET p == journals[save.prep]
         IN  /\ p.fp = save.text /\ p.batches = Newer(save.target)
             /\ p.synced = Len(p.batches) /\ ~p.torn /\ p.entry = "synced"
    /\ save.pc = "rebind" => /\ save.tree \in Contents
                             /\ save.at \in 1..(Len(journals[save.prep].batches) + 1)

StructInv == TypeOK /\ FilesInv /\ DownInv /\ ReplayInv /\ OpenInv /\ ApplyInv /\ SaveInv
-----------------------------------------------------------------------------
\* Batches

LEMMA BatchFacts ==
    ASSUME NEW b \in Batch
    PROVE  /\ b.first \in Revisions /\ b.first \in Nat /\ b.edit \in Edits /\ b.end \in Nat
           /\ LastRevision(b) \in Nat /\ LastRevision(b) >= b.first
           /\ LastRevision(b) = b.first + Width[b.edit] - 1 /\ Width[b.edit] \in Nat \ {0}
BY WidthAssumption, BoundsAssumption DEF Batch, LastRevision, Revisions

LEMMA EndsAtType ==
    ASSUME NEW b \in Seq(Batch), NEW r \in Nat
    PROVE  EndsAt(b, r) \in Nat
<1>1. CASE b = <<>>
  BY <1>1 DEF EndsAt
<1>2. CASE b # <<>>
  <2>1. b[Len(b)] \in Batch
    BY <1>2
  <2>. QED  BY <1>2, <2>1, BatchFacts DEF EndsAt
<1>. QED  BY <1>1, <1>2

LEMMA EndOffsetType ==
    ASSUME NEW b \in Seq(Batch)
    PROVE  EndOffset(b) \in Nat
<1>1. CASE b = <<>>
  BY <1>1, BoundsAssumption DEF EndOffset
<1>2. CASE b # <<>>
  <2>1. b[Len(b)] \in Batch
    BY <1>2
  <2>. QED  BY <1>2, <2>1, BatchFacts DEF EndOffset
<1>. QED  BY <1>1, <1>2

\* The last batch is the furthest.
LEMMA SoundLast ==
    ASSUME NEW b \in Seq(Batch), Sound(b), NEW i \in 1..Len(b), NEW r
    PROVE  /\ LastRevision(b[i]) <= EndsAt(b, r) /\ b[i].end <= EndOffset(b)
           /\ b[i] \in Batch /\ EndsAt(b, r) <= MaxRevision
<1>1. b # <<>> /\ Len(b) \in Nat /\ Len(b) \in 1..Len(b) /\ b[i] \in Batch /\ b[Len(b)] \in Batch
  OBVIOUS
<1>2. EndsAt(b, r) = LastRevision(b[Len(b)]) /\ EndOffset(b) = b[Len(b)].end
  BY <1>1 DEF EndsAt, EndOffset
<1>3. CASE i = Len(b)
  BY <1>1, <1>2, <1>3, BatchFacts DEF Sound
<1>4. CASE i < Len(b)
  <2>1. LastRevision(b[i]) < b[Len(b)].first /\ b[i].end <= b[Len(b)].end
    BY <1>1, <1>4 DEF Sound
  <2>2. LastRevision(b[Len(b)]) >= b[Len(b)].first /\ b[Len(b)].first \in Nat
        /\ LastRevision(b[Len(b)]) \in Nat /\ LastRevision(b[i]) \in Nat
    BY <1>1, BatchFacts
  <2>. QED  BY <1>1, <1>2, <2>1, <2>2 DEF Sound
<1>. QED  BY <1>3, <1>4

LEMMA SoundEmpty == Sound(<<>>)
BY DEF Sound

LEMMA SoundAppend ==
    ASSUME NEW b \in Seq(Batch), Sound(b), NEW n \in Batch, NEW r \in Nat,
           n.first = EndsAt(b, r) + 1, LastRevision(n) <= MaxRevision, n.end >= EndOffset(b),
           n.end >= HeaderBytes, n.end <= MaxJournalBytes
    PROVE  Sound(Append(b, n)) /\ EndsAt(Append(b, n), r) = LastRevision(n)
           /\ EndOffset(Append(b, n)) = n.end
<1>. DEFINE a == Append(b, n)
<1>1. /\ Len(b) \in Nat /\ Len(a) = Len(b) + 1 /\ a[Len(a)] = n /\ a # <<>>
      /\ \A i \in 1..Len(b) : a[i] = b[i]
  OBVIOUS
<1>2. n.first \in Nat /\ n.first > 0 /\ EndsAt(b, r) \in Nat
  <2>1. EndsAt(b, r) \in Nat
    BY EndsAtType
  <2>. QED  BY <2>1
<1>3. \A i \in 1..Len(b) : /\ LastRevision(b[i]) < n.first /\ b[i].end <= n.end
  <2>. SUFFICES ASSUME NEW i \in 1..Len(b)
                PROVE  LastRevision(b[i]) < n.first /\ b[i].end <= n.end
    OBVIOUS
  <2>1. /\ LastRevision(b[i]) <= EndsAt(b, r) /\ b[i].end <= EndOffset(b) /\ b[i] \in Batch
    BY SoundLast
  <2>2. /\ LastRevision(b[i]) \in Nat /\ b[i].end \in Nat /\ n.end \in Nat /\ EndOffset(b) \in Nat
    BY <2>1, BatchFacts, EndOffsetType
  <2>. QED  BY <1>2, <2>1, <2>2
<1>4. \A i \in 1..Len(a) : i > 1 => a[i].first = LastRevision(a[i - 1]) + 1
  <2>. SUFFICES ASSUME NEW i \in 1..Len(a), i > 1
                PROVE  a[i].first = LastRevision(a[i - 1]) + 1
    OBVIOUS
  <2>1. CASE i \in 1..Len(b)
    BY <1>1, <2>1 DEF Sound
  <2>2. CASE i = Len(b) + 1
    <3>1. b # <<>> /\ i - 1 = Len(b) /\ Len(b) \in 1..Len(b)
      BY <1>1, <2>2
    <3>. QED  BY <1>1, <2>2, <3>1 DEF EndsAt
  <2>. QED  BY <1>1, <2>1, <2>2
<1>5. \A i \in 1..Len(a) : /\ a[i].first > 0 /\ LastRevision(a[i]) <= MaxRevision
                           /\ a[i].end >= HeaderBytes /\ a[i].end <= MaxJournalBytes
  <2>. SUFFICES ASSUME NEW i \in 1..Len(a)
                PROVE  /\ a[i].first > 0 /\ LastRevision(a[i]) <= MaxRevision
                       /\ a[i].end >= HeaderBytes /\ a[i].end <= MaxJournalBytes
    OBVIOUS
  <2>1. CASE i \in 1..Len(b)
    BY <1>1, <2>1 DEF Sound
  <2>2. CASE i = Len(a)
    BY <1>1, <1>2, <2>2
  <2>. QED  BY <1>1, <2>1, <2>2
<1>6. \A i, k \in 1..Len(a) : i < k => /\ LastRevision(a[i]) < a[k].first /\ a[i].end <= a[k].end
  <2>. SUFFICES ASSUME NEW i \in 1..Len(a), NEW k \in 1..Len(a), i < k
                PROVE  LastRevision(a[i]) < a[k].first /\ a[i].end <= a[k].end
    OBVIOUS
  <2>1. CASE k = Len(a)
    BY <1>1, <1>3, <2>1
  <2>2. CASE k # Len(a)
    <3>1. i \in 1..Len(b) /\ k \in 1..Len(b)
      BY <1>1, <2>2
    <3>. QED  BY <1>1, <3>1 DEF Sound
  <2>. QED  BY <2>1, <2>2
<1>. QED  BY <1>1, <1>4, <1>5, <1>6 DEF Sound, EndsAt, EndOffset

LEMMA SoundPrefix ==
    ASSUME NEW b \in Seq(Batch), Sound(b), NEW n \in 0..Len(b)
    PROVE  /\ SubSeq(b, 1, n) \in Seq(Batch) /\ Len(SubSeq(b, 1, n)) = n
           /\ \A i \in 1..n : SubSeq(b, 1, n)[i] = b[i]
           /\ Sound(SubSeq(b, 1, n))
<1>1. /\ SubSeq(b, 1, n) \in Seq(Batch) /\ Len(SubSeq(b, 1, n)) = n
      /\ \A i \in 1..n : SubSeq(b, 1, n)[i] = b[i]
  OBVIOUS
<1>. DEFINE s == SubSeq(b, 1, n)
<1>2. 1..Len(s) \subseteq 1..Len(b) /\ \A i \in 1..Len(s) : s[i] = b[i]
  BY <1>1
<1>3. \A i \in 1..Len(s) : i > 1 => i - 1 \in 1..Len(s)
  BY <1>1
<1>. HIDE DEF s
<1>4. Sound(s)
  BY <1>2, <1>3 DEF Sound
<1>. QED  BY <1>1, <1>4 DEF s

\* The groups a save carries over.
LEMMA NewerFacts ==
    ASSUME pending \in Seq(Batch), Sound(pending), NEW target, NEW k \in 1..Len(pending),
           Splits(k, target), NEW r
    PROVE  /\ Newer(target) \in Seq(Batch) /\ Len(Newer(target)) = Len(pending) - k
           /\ \A i \in 1..Len(pending) - k :
                /\ Newer(target)[i].first = pending[k + i].first
                /\ Newer(target)[i].edit = pending[k + i].edit
           /\ Sound(Newer(target))
           /\ EndOffset(Newer(target)) <= EndOffset(pending)
           /\ EndsAt(Newer(target), target) = EndsAt(pending, r)
           /\ Newer(target) # <<>> => Newer(target)[1].first = target + 1
<1>. DEFINE m == EndOffset(SubSeq(pending, 1, k)) - HeaderBytes
            s == Newer(target)
<1>1. Covered(target) = k
  <2>1. k \in 0..Len(pending)
    OBVIOUS
  <2>2. ASSUME NEW n \in 0..Len(pending),
               \A i \in 1..Len(pending) : LastRevision(pending[i]) > target <=> i > n
        PROVE  n = k
    <3>1. CASE n < k
      <4>1. k \in 1..Len(pending) /\ k > n /\ ~(k > k)
        BY <3>1
      <4>. QED  BY <2>2, <4>1 DEF Splits
    <3>2. CASE n > k
      <4>1. n \in 1..Len(pending) /\ n > k /\ ~(n > n)
        BY <3>2
      <4>. QED  BY <2>2, <4>1 DEF Splits
    <3>. QED  BY <3>1, <3>2
  <2>. QED  BY <2>1, <2>2 DEF Covered, Splits
<1>2. /\ pending[k] \in Batch /\ EndOffset(SubSeq(pending, 1, k)) = pending[k].end
      /\ pending[k].end >= HeaderBytes /\ pending[k].end \in Nat /\ HeaderBytes \in Nat
  <2>1. SubSeq(pending, 1, k) # <<>> /\ Len(SubSeq(pending, 1, k)) = k
        /\ SubSeq(pending, 1, k)[k] = pending[k] /\ pending[k] \in Batch
    BY SoundPrefix
  <2>. QED  BY <2>1, BatchFacts, BoundsAssumption DEF EndOffset, Sound
<1>3. s = [i \in 1..(Len(pending) - k) |-> [pending[k + i] EXCEPT !.end = @ - m]]
  BY <1>1 DEF Newer
<1>4. ASSUME NEW i \in 1..Len(pending) - k
      PROVE  /\ pending[k + i] \in Batch /\ s[i].first = pending[k + i].first
             /\ s[i].edit = pending[k + i].edit /\ s[i].end = pending[k + i].end - m
             /\ s[i].end >= HeaderBytes /\ s[i] \in Batch /\ pending[k + i].end \in Nat
             /\ s[i].end <= MaxJournalBytes
             /\ LastRevision(s[i]) = LastRevision(pending[k + i])
             /\ LastRevision(s[i]) \in Nat
  <2>1. pending[k + i] \in Batch /\ k + i \in 1..Len(pending) /\ k < k + i
    BY <1>4
  <2>2. s[i] = [pending[k + i] EXCEPT !.end = @ - m]
    BY <1>3
  <2>3. /\ s[i].first = pending[k + i].first
        /\ s[i].edit = pending[k + i].edit /\ s[i].end = pending[k + i].end - m
    BY <2>1, <2>2 DEF Batch
  <2>4. pending[k].end <= pending[k + i].end /\ pending[k + i].end \in Nat
        /\ pending[k + i].end <= MaxJournalBytes
    BY <2>1, BatchFacts DEF Sound
  <2>5. s[i].end >= HeaderBytes /\ s[i].end \in Nat /\ s[i].end <= MaxJournalBytes
    BY <1>2, <2>3, <2>4, BoundsAssumption
  <2>6. s[i] \in Batch
    BY <2>1, <2>2, <2>5 DEF Batch
  <2>. QED  BY <2>1, <2>3, <2>4, <2>5, <2>6, BatchFacts DEF LastRevision
<1>5. s \in Seq(Batch) /\ Len(s) = Len(pending) - k
  BY <1>3, <1>4, SMTT(40)
<1>6. Sound(s)
  <2>1. ASSUME NEW i \in 1..Len(s)
        PROVE  /\ s[i].first > 0 /\ LastRevision(s[i]) <= MaxRevision /\ s[i].end >= HeaderBytes
               /\ s[i].end <= MaxJournalBytes
    <3>1. k + i \in 1..Len(pending) /\ i \in 1..Len(pending) - k
      BY <1>5, <2>1
    <3>2. pending[k + i].first > 0 /\ LastRevision(pending[k + i]) <= MaxRevision
      BY <3>1 DEF Sound
    <3>. QED  BY <1>4, <3>1, <3>2
  <2>2. ASSUME NEW i \in 1..Len(s), NEW n \in 1..Len(s), i < n
        PROVE  LastRevision(s[i]) < s[n].first /\ s[i].end <= s[n].end
    <3>1. k + i \in 1..Len(pending) /\ k + n \in 1..Len(pending) /\ k + i < k + n
      BY <1>5, <2>2
    <3>2. LastRevision(pending[k + i]) < pending[k + n].first
          /\ pending[k + i].end <= pending[k + n].end
      BY <3>1 DEF Sound
    <3>3. /\ LastRevision(s[i]) = LastRevision(pending[k + i]) /\ s[n].first = pending[k + n].first
          /\ s[i].end = pending[k + i].end - m /\ s[n].end = pending[k + n].end - m
          /\ pending[k + i].end \in Nat /\ pending[k + n].end \in Nat /\ m \in Nat
      BY <1>2, <1>4, <1>5
    <3>. QED  BY <3>2, <3>3, SMTT(40)
  <2>3. ASSUME NEW i \in 1..Len(s), i > 1 PROVE s[i].first = LastRevision(s[i - 1]) + 1
    <3>1. k + i \in 1..Len(pending) /\ k + i > 1 /\ k + i - 1 = k + (i - 1)
          /\ i - 1 \in 1..Len(pending) - k
      BY <1>5, <2>3
    <3>2. pending[k + i].first = LastRevision(pending[k + (i - 1)]) + 1
      BY <3>1 DEF Sound
    <3>. QED  BY <1>4, <1>5, <3>1, <3>2
  <2>. QED  BY <2>1, <2>2, <2>3 DEF Sound
<1>7. CASE s = <<>>
  <2>1. k = Len(pending) /\ pending # <<>>
    BY <1>5, <1>7
  <2>2. EndsAt(pending, r) = target /\ EndsAt(s, target) = target
    BY <1>7, <2>1 DEF EndsAt, Splits
  <2>3. EndOffset(s) = HeaderBytes /\ EndOffset(pending) = pending[k].end
    BY <1>7, <2>1 DEF EndOffset
  <2>. QED  BY <1>2, <1>4, <1>5, <1>6, <1>7, <2>2, <2>3
<1>8. CASE s # <<>>
  <2>1. Len(s) \in 1..Len(pending) - k /\ k + Len(s) = Len(pending) /\ 1 \in 1..Len(pending) - k
        /\ pending # <<>>
    BY <1>5, <1>8
  <2>2. EndsAt(pending, r) = LastRevision(pending[k + Len(s)])
        /\ EndsAt(s, target) = LastRevision(s[Len(s)])
    BY <1>8, <2>1 DEF EndsAt
  <2>3. EndOffset(s) = pending[k + Len(s)].end - m /\ EndOffset(pending) = pending[k + Len(s)].end
    BY <1>4, <1>8, <2>1 DEF EndOffset
  <2>4. pending[k + 1].first = LastRevision(pending[k]) + 1
    <3>1. k + 1 \in 1..Len(pending) /\ k + 1 > 1 /\ (k + 1) - 1 = k
      BY <1>5, <2>1
    <3>2. \A i \in 1..Len(pending) : i > 1 => pending[i].first = LastRevision(pending[i - 1]) + 1
      BY DEF Sound
    <3>3. pending[k + 1].first = LastRevision(pending[(k + 1) - 1]) + 1
      BY <3>1, <3>2
    <3>. QED  BY <3>1, <3>3
  <2>5. EndOffset(s) <= EndOffset(pending)
    <3>1. pending[k + Len(s)].end \in Nat /\ m \in Nat
      BY <1>2, <1>4, <2>1
    <3>. QED  BY <2>3, <3>1
  <2>6. s[1].first = pending[k + 1].first /\ LastRevision(s[Len(s)]) = LastRevision(pending[k + Len(s)])
    BY <1>4, <2>1
  <2>7. target = LastRevision(pending[k])
    BY DEF Splits
  <2>8. EndsAt(s, target) = EndsAt(pending, r) /\ s[1].first = target + 1
    BY <2>2, <2>4, <2>6, <2>7
  <2>9. \A i \in 1..Len(pending) - k : /\ s[i].first = pending[k + i].first
                                       /\ s[i].edit = pending[k + i].edit
    BY <1>4
  <2>. HIDE DEF s
  <2>. QED  BY <1>5, <1>6, <2>5, <2>8, <2>9 DEF s
<1>. QED  BY <1>7, <1>8
-----------------------------------------------------------------------------
\* Journals

LEMMA JournalFields ==
    ASSUME NEW r \in Journal
    PROVE  /\ r.fp \in Contents \cup {None} /\ r.batches \in Seq(Batch) /\ r.synced \in Nat
           /\ r.torn \in BOOLEAN /\ r.entry \in {"new", "synced", "removed"} /\ r # NoFile
           /\ Len(r.batches) \in Nat
BY DEF Journal, NoFile

LEMMA JournalChange ==
    ASSUME NEW r \in Journal
    PROVE  /\ \A x \in Contents \cup {None} : [r EXCEPT !.fp = x] \in Journal
           /\ \A b \in Seq(Batch) : [r EXCEPT !.batches = b] \in Journal
           /\ \A n \in Nat : [r EXCEPT !.synced = n] \in Journal
           /\ \A t \in BOOLEAN : [r EXCEPT !.torn = t] \in Journal
           /\ \A e \in {"new", "synced", "removed"} : [r EXCEPT !.entry = e] \in Journal
BY DEF Journal

LEMMA NewJournalType == NewJournal \in Journal /\ Sound(NewJournal.batches)
<1>1. <<>> \in Seq(Batch)
  OBVIOUS
<1>. QED  BY <1>1, SoundEmpty DEF NewJournal, Journal

\* Every file keeps its type when only the ones in use change.
LEMMA FileType ==
    ASSUME TypeOK, NEW j \in JournalIds, File(j)
    PROVE  journals[j] \in Journal
BY DEF TypeOK, File

\* The types of hist, left, apply and save, in TypeOK.
Histories == [Revisions -> Contents \cup {None}]
Headers == [Contents -> Nat]
Applies == [pc : {"idle", "header", "append", "publish"},
            edit : Edits \cup {None}, file : JournalIds \cup {None}]
Saves == [pc : SavePhases, target : Revisions,
          text : Contents \cup {None}, prep : JournalIds \cup {None},
          tree : Contents \cup {None}, at : Nat, uncertain : BOOLEAN, late : BOOLEAN]

LEMMA IdleTypes == NoApply \in Applies /\ NoSave \in Saves /\ 0 \in Revisions /\ 0 \in Nat
BY BoundsAssumption DEF NoApply, NoSave, Applies, Saves, SavePhases, Revisions

LEMMA StructInit == Init => StructInv
<1>. SUFFICES ASSUME Init PROVE StructInv
  OBVIOUS
<1>1. <<>> \in Seq(Batch)
  OBVIOUS
<1>2. TypeOK
  <2>1. /\ journals \in [JournalIds -> Journal \cup {NoFile}] /\ hist \in Histories
        /\ left \in Headers
    BY DEF Init, NoHeaders, Histories, Headers
  <2>2. failures \in 0..MaxFaults /\ writes \in 0..MaxExternal
    BY BoundsAssumption DEF Init
  <2>3. {external, aba, stray, volatile} \subseteq BOOLEAN
    BY DEF Init
  <2>. QED  BY <1>1, <2>1, <2>2, <2>3, IdleTypes
            DEF Init, TypeOK, Applies, Saves, Histories, Headers
<1>3. FilesInv
  BY DEF Init, FilesInv, File
<1>. QED  BY <1>2, <1>3
          DEF Init, StructInv, DownInv, ReplayInv, OpenInv, ApplyInv, SaveInv, NoApply, NoSave

\* Forgetting the Session.
LEMMA ForgetType ==
    ASSUME TypeOK, Forget, base' \in Contents, journals' \in [JournalIds -> Journal \cup {NoFile}],
           left' \in Headers,
           retired' \subseteq JournalIds, hist' = hist, acked' \in Revisions,
           durable' \in Revisions, {external', aba', stray', volatile'} \subseteq BOOLEAN,
           failures' \in 0..MaxFaults, writes' \in 0..MaxExternal
    PROVE  TypeOK'
<1>1. <<>> \in Seq(Batch)
  OBVIOUS
<1>. QED  BY <1>1, IdleTypes, ZenonT(40) DEF TypeOK, Forget, Applies, Saves, Headers, Histories

\* Journal files change where a single one is written.
LEMMA OneFile ==
    ASSUME TypeOK, NEW j \in JournalIds, NEW r \in Journal \cup {NoFile},
           journals' = [journals EXCEPT ![j] = r]
    PROVE  /\ journals' \in [JournalIds -> Journal \cup {NoFile}] /\ journals'[j] = r
           /\ \A i \in JournalIds \ {j} : journals'[i] = journals[i]
BY DEF TypeOK

LEMMA NewBatchFacts ==
    ASSUME TypeOK, OpenInv, ApplyInv, apply.pc \in {"append", "publish"}
    PROVE  /\ NewBatch(apply.edit) \in Batch /\ apply.edit \in Edits /\ jid \in JournalIds
           /\ LastRevision(NewBatch(apply.edit)) = rev + Width[apply.edit]
           /\ rev + Width[apply.edit] \in Revisions /\ rev + Width[apply.edit] > rev
           /\ NewBatch(apply.edit).first = rev + 1
           /\ NewBatch(apply.edit).end = journalBytes + EditBytes[apply.edit]
           /\ EditBytes[apply.edit] \in Nat
           /\ NewBatch(apply.edit).end <= MaxJournalBytes /\ jid # None
           /\ doc \in DOMAIN Effect[apply.edit] /\ Effect[apply.edit][doc] \in Contents
           /\ Sound(Append(pending, NewBatch(apply.edit))) /\ pending \in Seq(Batch)
           /\ EndsAt(Append(pending, NewBatch(apply.edit)), committed) = rev + Width[apply.edit]
           /\ EndOffset(Append(pending, NewBatch(apply.edit))) = journalBytes + EditBytes[apply.edit]
           /\ phase = "open" /\ File(jid)
<1>. DEFINE e == apply.edit
            n == NewBatch(e)
<1>1. e \in Edits /\ jid \in JournalIds /\ jid # None /\ phase = "open" /\ CanStage(e)
      /\ File(jid) /\ QuotaAllows(journalBytes, e)
  <2>1. e \in Edits /\ jid \in JournalIds /\ phase = "open" /\ CanStage(e)
        /\ QuotaAllows(IF jid = None THEN HeaderBytes ELSE journalBytes, e)
    BY DEF ApplyInv
  <2>2. jid # None
    BY <2>1, EffectAssumption
  <2>. QED  BY <2>1, <2>2 DEF OpenInv
<1>2. Width[e] \in Nat \ {0} /\ EditBytes[e] \in Nat \ {0} /\ rev \in Nat /\ journalBytes \in Nat
      /\ MaxRevision \in Nat /\ rev + Width[e] <= MaxRevision /\ pending \in Seq(Batch)
      /\ committed \in Nat /\ HeaderBytes \in Nat /\ MaxJournalBytes \in Nat
  <2>1. Width[e] \in Nat \ {0} /\ EditBytes[e] \in Nat \ {0}
    BY <1>1, WidthAssumption
  <2>2. rev \in Nat /\ committed \in Nat /\ journalBytes \in Nat /\ pending \in Seq(Batch)
    BY BoundsAssumption DEF TypeOK, Revisions
  <2>. QED  BY <1>1, <2>1, <2>2, BoundsAssumption DEF CanStage
<1>3. n \in Batch /\ n.first = rev + 1 /\ n.edit = e /\ n.end = journalBytes + EditBytes[e]
  <2>1. rev + 1 \in Revisions /\ journalBytes + EditBytes[e] \in Nat
    BY <1>2 DEF Revisions
  <2>. QED  BY <1>1, <2>1 DEF NewBatch, Batch
<1>4. LastRevision(n) = rev + Width[e]
  BY <1>2, <1>3, SMTT(20) DEF LastRevision
<1>5. n.end <= MaxJournalBytes
  BY <1>1, <1>2, <1>3 DEF QuotaAllows
<1>6. doc \in DOMAIN Effect[e] /\ Effect[e][doc] \in Contents
  BY <1>1, EffectAssumption DEF CanStage
<1>7. Sound(pending) /\ rev = EndsAt(pending, committed) /\ journalBytes = EndOffset(pending)
  BY <1>1 DEF OpenInv
<1>8. n.end >= HeaderBytes
  <2>1. CASE pending = <<>>
    BY <1>2, <1>3, <1>7, <2>1 DEF EndOffset
  <2>2. CASE pending # <<>>
    <3>1. Len(pending) \in 1..Len(pending) /\ pending[Len(pending)] \in Batch
      BY <1>2, <2>2
    <3>2. pending[Len(pending)].end >= HeaderBytes
      BY <1>7, <3>1 DEF Sound
    <3>. QED  BY <1>2, <1>3, <1>7, <2>2, <3>2 DEF EndOffset
  <2>. QED  BY <2>1, <2>2
<1>9. /\ Sound(Append(pending, n)) /\ EndsAt(Append(pending, n), committed) = LastRevision(n)
      /\ EndOffset(Append(pending, n)) = n.end
  <2>1. n.first = EndsAt(pending, committed) + 1 /\ LastRevision(n) <= MaxRevision
        /\ n.end >= EndOffset(pending)
    BY <1>2, <1>3, <1>4, <1>7
  <2>. QED  BY <1>2, <1>3, <1>5, <1>7, <1>8, <2>1, SoundAppend
<1>. QED  BY <1>1, <1>2, <1>3, <1>4, <1>5, <1>6, <1>9, SMTT(40) DEF Revisions
-----------------------------------------------------------------------------
\* Structure: steps that write no journal

\* One file changes.
LEMMA FilesMove ==
    ASSUME FilesInv, NEW j \in JournalIds,
           \A i \in JournalIds \ {j} : journals'[i] = journals[i],
           journals'[j] # NoFile =>
              /\ Sound(journals'[j].batches) /\ journals'[j].synced <= Len(journals'[j].batches)
              /\ journals'[j].fp = None => journals'[j].batches = <<>>
    PROVE  FilesInv'
BY DEF FilesInv, File

LEMMA FilesSame == FilesInv /\ UNCHANGED journals => FilesInv'
BY DEF FilesInv, File, Sound, LastRevision

LEMMA ApplyBeginAttached ==
    ASSUME StructInv, NEW e \in Edits, ApplyBegin(e), jid # None
    PROVE  StructInv'
<1>1. /\ Mutable /\ CanStage(e) /\ QuotaAllows(journalBytes, e) /\ save.pc \in {"idle", "stream"}
      /\ apply' = [pc |-> "append", edit |-> e, file |-> jid] /\ apply = NoApply
      /\ UNCHANGED <<disk, session, save, retired, ghost, env>>
  BY DEF ApplyBegin, Mutable, MuFree, StructInv, ApplyInv
<1>2. jid \in JournalIds /\ phase = "open" /\ ~fault
  BY <1>1 DEF Mutable, StructInv, TypeOK
<1>3. TypeOK'
  BY <1>1, <1>2 DEF StructInv, TypeOK
<1>4. FilesInv' /\ DownInv' /\ ReplayInv'
  BY <1>1, <1>2, FilesSame DEF StructInv, DownInv, ReplayInv
<1>5. OpenInv'
  BY <1>1, <1>2 DEF StructInv, OpenInv, NoApply, Candidates, BadHeaders, File, Sound, LastRevision,
                    EndsAt, EndOffset
<1>6. ApplyInv'
  BY <1>1, <1>2 DEF StructInv, ApplyInv, CanStage, QuotaAllows
<1>7. SaveInv'
  BY <1>1, <1>2 DEF StructInv, SaveInv, Splits, LastRevision
<1>. QED  BY <1>3, <1>4, <1>5, <1>6, <1>7 DEF StructInv

LEMMA ApplyFails ==
    ASSUME StructInv, ApplyHeaderFails \/ ApplyAppendFails
    PROVE  StructInv'
<1>1. /\ apply.pc \in {"header", "append"} /\ apply' = NoApply
      /\ UNCHANGED <<disk, session, save, retired, ghost, env>>
  BY DEF ApplyHeaderFails, ApplyAppendFails
<1>3. TypeOK'
  BY <1>1, IdleTypes DEF StructInv, TypeOK, Applies
<1>4. FilesInv' /\ DownInv' /\ ReplayInv'
  BY <1>1, FilesSame DEF StructInv, DownInv, ReplayInv, File, EndsAt, LastRevision, Candidates
<1>5. OpenInv'
  BY <1>1 DEF StructInv, OpenInv, NoApply, Candidates, BadHeaders, File, Sound, LastRevision,
              EndsAt, EndOffset
<1>6. ApplyInv'
  BY <1>1 DEF ApplyInv, NoApply
<1>7. SaveInv'
  <2>1. save.pc \in {"idle", "stream"}
    BY <1>1 DEF StructInv, ApplyInv
  <2>. QED  BY <1>1, <2>1 DEF StructInv, SaveInv, Splits, LastRevision
<1>. QED  BY <1>3, <1>4, <1>5, <1>6, <1>7 DEF StructInv

\* A save moves on without writing a journal.
LEMMA SaveMoves ==
    ASSUME StructInv, UNCHANGED <<journals, phase, doc, rev, committed, pending, jid, fp,
                                  journalBytes, fault, apply, retired, acked>>,
           TypeOK', SaveInv', phase = "open", ~fault,
           Candidates \ BadHeaders \subseteq {jid, save'.prep} \cup retired,
           apply.pc # "idle" => save'.pc \in {"idle", "stream"}
    PROVE  StructInv'
<1>1. Candidates' = Candidates /\ BadHeaders' = BadHeaders
  BY DEF Candidates, BadHeaders
<1>4. FilesInv' /\ DownInv' /\ ReplayInv'
  BY FilesSame DEF StructInv, DownInv, ReplayInv
<1>5. OpenInv'
  BY <1>1 DEF StructInv, OpenInv, File, NewBatch
<1>6. ApplyInv'
  BY DEF StructInv, ApplyInv, CanStage, QuotaAllows
<1>. QED  BY <1>4, <1>5, <1>6 DEF StructInv
-----------------------------------------------------------------------------
\* Structure: a save goes on

LEMMA SaveBegins == ASSUME StructInv, SaveBegin PROVE StructInv'
<1>1. /\ phase = "open" /\ ~fault /\ save = NoSave /\ rev > committed /\ apply.pc = "idle"
      /\ save' = [NoSave EXCEPT !.pc = "stream", !.target = rev, !.text = doc]
      /\ UNCHANGED <<disk, session, apply, retired, ghost, env>>
  BY DEF SaveBegin, Mutable, MuFree, Dirty, StructInv, SaveInv
<1>2. /\ save'.pc = "stream" /\ save'.target = rev /\ save'.text = doc /\ save'.prep = None
      /\ save' = [NoSave EXCEPT !.pc = "stream", !.target = rev, !.text = doc]
  BY <1>1 DEF NoSave
<1>3. /\ doc \in Contents /\ rev \in Revisions /\ rev \in Nat /\ pending \in Seq(Batch)
      /\ Sound(pending) /\ rev = EndsAt(pending, committed) /\ committed \in Nat
      /\ jid = None => rev = 0
      /\ Candidates \ BadHeaders \subseteq {jid, save.prep} \cup retired
  BY <1>1, BoundsAssumption, SMTT(40) DEF StructInv, OpenInv, TypeOK, Revisions
<1>4. TypeOK'
  BY <1>1, <1>3, IdleTypes DEF StructInv, TypeOK, Saves, SavePhases
<1>5. pending # <<>> /\ Len(pending) \in 1..Len(pending) /\ jid # None
  BY <1>1, <1>3 DEF EndsAt
<1>6. Splits(Len(pending), rev)
  <2>1. rev = LastRevision(pending[Len(pending)])
    BY <1>3, <1>5 DEF EndsAt
  <2>2. ASSUME NEW i \in 1..Len(pending)
        PROVE  ~(LastRevision(pending[i]) > rev) /\ ~(i > Len(pending))
    <3>1. LastRevision(pending[i]) <= rev /\ LastRevision(pending[i]) \in Nat
      BY <1>3, SoundLast, BatchFacts
    <3>. QED  BY <1>3, <3>1
  <2>. QED  BY <2>1, <2>2 DEF Splits
<1>7. \E k \in 1..Len(pending) : Splits(k, rev)
  BY <1>5, <1>6
<1>8. SaveInv'
  <2>1. PICK k \in 1..Len(pending) : Splits(k, rev)
    BY <1>7
  <2>2. Splits(k, rev)'
    BY <1>1, <2>1 DEF Splits
  <2>3. (\E i \in 1..Len(pending) : Splits(i, save.target))'
    BY <1>1, <1>2, <2>1 DEF Splits
  <2>. QED  BY <1>1, <1>2, <1>3, <1>5, <2>3 DEF SaveInv
<1>. QED  BY <1>1, <1>2, <1>3, <1>4, <1>8, SaveMoves DEF NoSave

LEMMA SaveEnds ==
    ASSUME StructInv, SaveAbort \/ SavePrepareFails
    PROVE  StructInv'
<1>1. /\ save.pc \in {"stream", "prepare"} /\ save' = NoSave
      /\ UNCHANGED <<disk, session, apply, retired, ghost, env>>
  BY DEF SaveAbort, SavePrepareFails
<1>2. TypeOK'
  BY <1>1, IdleTypes DEF StructInv, TypeOK, Saves
<1>3. SaveInv'
  BY <1>1 DEF SaveInv, NoSave
<1>4. phase = "open" /\ ~fault /\ save'.pc = "idle" /\ save'.prep = None
  BY <1>1 DEF StructInv, SaveInv, NoSave
<1>5. Candidates \ BadHeaders \subseteq {jid} \cup retired
  <2>1. CASE save.pc = "stream"
    <3>1. save.prep \notin Candidates
      BY <2>1, EffectAssumption DEF StructInv, SaveInv, Candidates
    <3>. QED  BY <1>4, <3>1 DEF StructInv, OpenInv
  <2>2. CASE save.pc = "prepare"
    BY <1>4, <2>2 DEF StructInv, OpenInv, SaveInv, BadHeaders, NewJournal
  <2>. QED  BY <1>1, <2>1, <2>2
<1>. QED  BY <1>1, <1>2, <1>3, <1>4, <1>5, SaveMoves DEF StructInv, SaveInv
-----------------------------------------------------------------------------
\* Structure: a save after its barrier

LEMMA NewerSame ==
    ASSUME UNCHANGED pending
    PROVE  \A t, k : Newer(t)' = Newer(t) /\ (Splits(k, t)' <=> Splits(k, t))
BY DEF Newer, Covered, Splits

\* What stays when the phase of a save that has its barrier changes.
LEMMA SaveGoesOn ==
    ASSUME StructInv, UNCHANGED <<journals, phase, doc, rev, committed, pending, jid, fp,
                                  journalBytes, fault, apply, retired, acked>>,
           save.pc \in {"barrier", "renamed", "replaced", "rebind"},
           save'.pc \in {"renamed", "replaced", "rebind"}, TypeOK',
           save'.target = save.target, save'.text = save.text, save'.prep = save.prep,
           save'.pc = "rebind" => /\ save'.tree \in Contents
                                  /\ save'.at \in 1..(Len(journals[save.prep].batches) + 1)
    PROVE  StructInv'
<1>1. /\ phase = "open" /\ ~fault /\ apply.pc = "idle"
      /\ Candidates \ BadHeaders \subseteq {jid, save.prep} \cup retired
  BY DEF StructInv, SaveInv, OpenInv, NoApply
<1>2. PICK t : t = save.target
  OBVIOUS
<1>3. PICK k \in 1..Len(pending) : Splits(k, t)
  BY <1>2 DEF StructInv, SaveInv
<1>4. Newer(t)' = Newer(t) /\ Splits(k, t)'
  BY <1>3, NewerSame
<1>5. (\E i \in 1..Len(pending) : Splits(i, save.target))' /\ Newer(save.target)' = Newer(t)
  BY <1>2, <1>4
<1>6. journals[save.prep].batches = Newer(t)
  BY <1>2 DEF StructInv, SaveInv
<1>7. SaveInv'
  BY <1>5, <1>6 DEF StructInv, SaveInv, File
<1>. QED  BY <1>1, <1>7, SaveMoves

LEMMA SaveRenames == ASSUME StructInv, SaveRename PROVE StructInv'
<1>1. save' = [save EXCEPT !.pc = "renamed"] /\ save.text \in Contents /\ save \in Saves
  BY DEF SaveRename, StructInv, SaveInv, TypeOK, Saves
<1>2. /\ save' \in Saves /\ save'.pc = "renamed" /\ save'.target = save.target
      /\ save'.text = save.text /\ save'.prep = save.prep
  BY <1>1 DEF Saves, SavePhases
<1>3. TypeOK'
  BY <1>1, <1>2, SMTT(20) DEF SaveRename, StructInv, TypeOK, Saves
<1>. QED  BY <1>2, <1>3, SaveGoesOn DEF SaveRename

LEMMA SaveDirSyncs == ASSUME StructInv, NEW ok \in BOOLEAN, SaveDirSync(ok) PROVE StructInv'
<1>1. save' = [save EXCEPT !.pc = "replaced", !.uncertain = ~ok] /\ save \in Saves
  BY DEF SaveDirSync, StructInv, TypeOK, Saves
<1>2. /\ save' \in Saves /\ save'.pc = "replaced" /\ save'.target = save.target
      /\ save'.text = save.text /\ save'.prep = save.prep
  BY <1>1 DEF Saves, SavePhases
<1>3. durable' \in Revisions /\ volatile' \in BOOLEAN
  BY DEF SaveDirSync, StructInv, TypeOK
<1>4. TypeOK'
  BY <1>2, <1>3, SMTT(20) DEF SaveDirSync, StructInv, TypeOK, Saves
<1>. QED  BY <1>2, <1>4, SaveGoesOn DEF SaveDirSync

LEMMA SaveReopens == ASSUME StructInv, SaveReopenBase PROVE StructInv'
<1>1. /\ save' = [save EXCEPT !.pc = "rebind", !.tree = base, !.at = 1] /\ save \in Saves
      /\ base \in Contents
  BY DEF SaveReopenBase, StructInv, TypeOK, Saves
<1>2. /\ save' \in Saves /\ save'.pc = "rebind" /\ save'.target = save.target
      /\ save'.text = save.text /\ save'.prep = save.prep /\ save'.tree = base /\ save'.at = 1
  BY <1>1, ZenonT(40) DEF Saves, SavePhases
<1>3. TypeOK'
  BY <1>2, SMTT(20) DEF SaveReopenBase, StructInv, TypeOK, Saves
<1>4. Len(journals[save.prep].batches) \in Nat
  BY FileType, JournalFields DEF SaveReopenBase, StructInv, SaveInv
<1>. QED  BY <1>1, <1>2, <1>3, <1>4, SaveGoesOn DEF SaveReopenBase

LEMMA SaveOnly ==
    ASSUME TypeOK, save' \in Saves, UNCHANGED <<disk, session, apply, retired, ghost, env>>
    PROVE  TypeOK'
BY SMTT(40) DEF TypeOK, Saves

LEMMA SaveRebinds == ASSUME StructInv, SaveRebindStep PROVE StructInv'
<1>. DEFINE p == journals[save.prep].batches
<1>1. save.pc = "rebind" /\ save \in Saves /\ save.prep \in JournalIds /\ File(save.prep)
      /\ save.at \in 1..(Len(p) + 1) /\ save.at <= Len(p)
  <2>1. save.pc = "rebind" /\ save.at <= Len(p)
    BY DEF SaveRebindStep
  <2>2. save \in Saves
    BY DEF StructInv, TypeOK, Saves
  <2>3. SaveInv
    BY DEF StructInv
  <2>4. save.prep \in JournalIds /\ File(save.prep) /\ save.at \in 1..(Len(p) + 1)
    BY <2>1, <2>3, SMTT(40) DEF SaveInv
  <2>. QED  BY <2>1, <2>2, <2>4
<1>2. p \in Seq(Batch) /\ Len(p) \in Nat
  BY <1>1, FileType, JournalFields, SMTT(40) DEF StructInv
<1>3. PICK b : /\ b = p[save.at] /\ save.tree \in DOMAIN Effect[b.edit]
               /\ save' = [save EXCEPT !.tree = Effect[b.edit][save.tree], !.at = save.at + 1]
  BY DEF SaveRebindStep
<1>4. Effect[b.edit][save.tree] \in Contents /\ save.at \in Nat
  <2>1. b \in Batch
    <3>. HIDE DEF p
    <3>1. save.at \in 1..Len(p)
      BY <1>1, <1>2
    <3>. QED  BY <1>2, <1>3, <3>1
  <2>2. b.edit \in Edits
    BY <2>1, BatchFacts
  <2>3. Effect[b.edit][save.tree] \in Contents
    BY <1>3, <2>2, EffectAssumption
  <2>. QED  BY <1>1, <1>2, <2>3
<1>5. /\ save' \in Saves /\ save'.pc = "rebind" /\ save'.target = save.target
      /\ save'.text = save.text /\ save'.prep = save.prep
      /\ save'.tree = Effect[b.edit][save.tree] /\ save'.at = save.at + 1
  <2>1. PICK x \in Contents, n \in Nat : x = Effect[b.edit][save.tree] /\ n = save.at + 1
    BY <1>4
  <2>2. save' = [save EXCEPT !.tree = x, !.at = n]
    BY <1>3, <2>1
  <2>. QED  BY <1>1, <2>1, <2>2, ZenonT(40) DEF Saves, SavePhases
<1>6. TypeOK'
  BY <1>5, SaveOnly DEF SaveRebindStep, StructInv
<1>7. save'.tree \in Contents /\ save'.at \in 1..(Len(p) + 1)
  <2>1. save.at \in 1..Len(p) /\ Len(p) \in Nat /\ save'.at = save.at + 1
    <3>. HIDE DEF p
    <3>. QED  BY <1>1, <1>2, <1>5
  <2>2. save'.tree \in Contents
    BY <1>4, <1>5
  <2>. HIDE DEF p
  <2>. QED  BY <2>1, <2>2
<1>. QED  BY <1>1, <1>5, <1>6, <1>7, SaveGoesOn DEF SaveRebindStep

LEMMA SaveRetries == ASSUME StructInv, SaveRetryDirSync PROVE StructInv'
<1>1. TypeOK'
  <2>1. durable' \in Revisions /\ uncertain' \in BOOLEAN
        /\ {external, aba, stray, volatile'} \subseteq BOOLEAN
    BY DEF SaveRetryDirSync, StructInv, TypeOK
  <2>. QED  BY <2>1 DEF SaveRetryDirSync, StructInv, TypeOK
<1>2. phase = "open" /\ ~fault /\ save = NoSave /\ save.pc = "idle" /\ apply.pc = "idle"
      /\ UNCHANGED <<journals, phase, doc, rev, committed, pending, jid, fp,
                     journalBytes, fault, apply, retired, acked, save>>
  BY DEF SaveRetryDirSync, Mutable, MuFree, StructInv, SaveInv
<1>3. SaveInv'
  BY <1>2 DEF SaveInv, NoSave
<1>4. Candidates \ BadHeaders \subseteq {jid, save'.prep} \cup retired
  BY <1>2 DEF StructInv, OpenInv
<1>. QED  BY <1>1, <1>2, <1>3, <1>4, SaveMoves

LEMMA ExternalWrites == ASSUME StructInv, NEW c \in Foreign, ExternalWrite(c) PROVE StructInv'
<1>1. /\ save' = [save EXCEPT !.late = save.pc \notin {"idle", "stream"}] /\ save \in Saves
      /\ base' = c /\ c \in Contents
      /\ UNCHANGED <<journals, left, session, apply, retired, hist, acked, durable, aba, stray,
                     volatile, failures>>
  BY EffectAssumption DEF ExternalWrite, StructInv, TypeOK, Saves
<1>2. /\ save' \in Saves /\ save'.pc = save.pc /\ save'.target = save.target
      /\ save'.text = save.text /\ save'.prep = save.prep /\ save'.tree = save.tree
      /\ save'.at = save.at /\ save'.uncertain = save.uncertain
      /\ save'.late <=> save.pc \notin {"idle", "stream"}
  <2>1. CASE save.pc \in {"idle", "stream"}
    BY <1>1, <2>1 DEF Saves, SavePhases
  <2>2. CASE save.pc \notin {"idle", "stream"}
    BY <1>1, <2>2 DEF Saves, SavePhases
  <2>. QED  BY <2>1, <2>2
<1>3. writes' \in 0..MaxExternal
  BY BoundsAssumption, SMTT(20) DEF ExternalWrite, StructInv, TypeOK
<1>4. TypeOK'
  BY <1>1, <1>2, <1>3, SMTT(20) DEF ExternalWrite, StructInv, TypeOK, Saves
<1>5. save.pc = "idle" => save' = NoSave
  <2>. SUFFICES ASSUME save.pc = "idle" PROVE save' = NoSave
    OBVIOUS
  <2>1. save = NoSave /\ save' = [save EXCEPT !.late = FALSE]
    BY <1>1 DEF StructInv, SaveInv
  <2>. QED  BY <2>1 DEF NoSave
<1>6. PICK t : t = save.target
  OBVIOUS
<1>7. Newer(save.target)' = Newer(save.target)
      /\ \A k : Splits(k, save.target)' <=> Splits(k, save.target)
  <2>1. Newer(t)' = Newer(t) /\ \A k : Splits(k, t)' <=> Splits(k, t)
    BY <1>1, NewerSame
  <2>. QED  BY <1>2, <1>6, <2>1
<1>8. SaveInv'
  BY <1>1, <1>2, <1>5, <1>7 DEF StructInv, SaveInv, File
<1>9. FilesInv' /\ DownInv' /\ ReplayInv' /\ ApplyInv'
  BY <1>1, <1>2, FilesSame DEF StructInv, DownInv, ReplayInv, ApplyInv, CanStage, File, Candidates
<1>10. OpenInv'
  BY <1>1, <1>2 DEF StructInv, OpenInv, File, NewBatch, Candidates, BadHeaders
<1>. QED  BY <1>4, <1>8, <1>9, <1>10 DEF StructInv
-----------------------------------------------------------------------------
\* Structure: a transaction writes the journal

\* A new, unfinished journal is a bad header.
LEMMA CreateFacts ==
    ASSUME TypeOK, NEW j \in JournalIds, Free(j), journals' = [journals EXCEPT ![j] = NewJournal]
    PROVE  /\ journals' \in [JournalIds -> Journal \cup {NoFile}] /\ journals'[j] = NewJournal
           /\ \A i \in JournalIds \ {j} : journals'[i] = journals[i]
           /\ Candidates' = Candidates \cup {j} /\ BadHeaders' = BadHeaders \cup {j}
           /\ journals[j] = NoFile /\ j \notin retired
<1>1. /\ journals' \in [JournalIds -> Journal \cup {NoFile}] /\ journals'[j] = NewJournal
      /\ \A i \in JournalIds \ {j} : journals'[i] = journals[i]
      /\ journals[j] = NoFile /\ j \notin retired
  BY NewJournalType, OneFile DEF Free
<1>2. NewJournal # NoFile /\ NewJournal.entry = "new" /\ NewJournal.fp = None
  BY NewJournalType, JournalFields DEF NewJournal
<1>. QED  BY <1>1, <1>2 DEF Candidates, BadHeaders

\* A file keeps its name and its header.
LEMMA NamesSame ==
    ASSUME NEW j \in JournalIds, \A i \in JournalIds \ {j} : journals'[i] = journals[i],
           File(j), journals'[j] # NoFile, journals'[j].entry = journals[j].entry,
           journals'[j].fp = journals[j].fp
    PROVE  Candidates' = Candidates /\ BadHeaders' = BadHeaders
<1>1. \A i \in JournalIds : /\ i \in Candidates' <=> i \in Candidates
                            /\ i \in Candidates => journals'[i].fp = journals[i].fp
  BY DEF Candidates, File
<1>2. Candidates' = Candidates
  BY <1>1 DEF Candidates
<1>. QED  BY <1>1, <1>2 DEF BadHeaders, Candidates

LEMMA ApplyBeginCreates ==
    ASSUME StructInv, NEW e \in Edits, ApplyBegin(e), jid = None
    PROVE  StructInv'
<1>1. PICK j \in JournalIds : /\ Free(j) /\ journals' = [journals EXCEPT ![j] = NewJournal]
                              /\ apply' = [pc |-> "header", edit |-> e, file |-> j]
  BY DEF ApplyBegin
<1>2. /\ Mutable /\ CanStage(e) /\ QuotaAllows(HeaderBytes, e) /\ phase = "open" /\ ~fault
      /\ UNCHANGED <<base, left, session, save, retired, ghost, env>> /\ apply = NoApply
  BY DEF ApplyBegin, Mutable, MuFree, StructInv, ApplyInv
<1>3. /\ journals' \in [JournalIds -> Journal \cup {NoFile}] /\ journals'[j] = NewJournal
      /\ \A i \in JournalIds \ {j} : journals'[i] = journals[i]
      /\ Candidates' = Candidates \cup {j} /\ BadHeaders' = BadHeaders \cup {j}
      /\ j \notin retired
  BY <1>1, CreateFacts DEF StructInv
<1>4. save = NoSave /\ save.pc = "idle"
  <2>1. save.pc = "idle"
    BY <1>2 DEF StructInv, SaveInv
  <2>. QED  BY <2>1 DEF StructInv, SaveInv
<1>5. TypeOK'
  BY <1>1, <1>2, <1>3 DEF StructInv, TypeOK
<1>6. FilesInv'
  BY <1>3, NewJournalType, FilesMove DEF StructInv, NewJournal
<1>7. DownInv' /\ ReplayInv'
  BY <1>2 DEF DownInv, ReplayInv
<1>8. OpenInv'
  BY <1>1, <1>2, <1>3, <1>4 DEF StructInv, OpenInv
<1>9. ApplyInv'
  BY <1>1, <1>2, <1>3, <1>4 DEF ApplyInv, CanStage, QuotaAllows
<1>10. SaveInv'
  BY <1>2, <1>4 DEF SaveInv, NoSave
<1>. QED  BY <1>5, <1>6, <1>7, <1>8, <1>9, <1>10 DEF StructInv

LEMMA HeaderFacts ==
    ASSUME StructInv, ApplyHeader
    PROVE  /\ apply.pc = "header" /\ jid = None /\ journals[apply.file] = NewJournal
           /\ apply.file \in JournalIds /\ apply.file \notin retired /\ phase = "open" /\ ~fault
           /\ apply.edit \in Edits /\ apply.file # None /\ CanStage(apply.edit)
           /\ QuotaAllows(HeaderBytes, apply.edit) /\ fp \in Contents
           /\ jid' = apply.file /\ journalBytes' = HeaderBytes
           /\ UNCHANGED <<base, left, phase, doc, rev, committed, pending, fp, fault,
                          uncertain, save, retired, ghost, env>>
           /\ journals' \in [JournalIds -> Journal \cup {NoFile}]
           /\ journals'[apply.file] \in Journal /\ journals'[apply.file] # NoFile
           /\ journals'[apply.file].fp = fp /\ journals'[apply.file].batches = <<>>
           /\ journals'[apply.file].synced = 0 /\ journals'[apply.file].torn = FALSE
           /\ journals'[apply.file].entry = "new"
           /\ \A i \in JournalIds \ {apply.file} : journals'[i] = journals[i]
           /\ apply' \in Applies /\ apply'.pc = "append" /\ apply'.edit = apply.edit
           /\ apply'.file = apply.file /\ save = NoSave /\ save.pc = "idle"
           /\ Candidates' = Candidates /\ apply.file \in Candidates /\ Candidates \subseteq BadHeaders
<1>. DEFINE j == apply.file
            r == [NewJournal EXCEPT !.fp = fp]
<1>1. /\ apply.pc = "header" /\ jid = None /\ journals[j] = NewJournal /\ j \in JournalIds
      /\ j \notin retired /\ phase = "open" /\ ~fault /\ apply.edit \in Edits /\ j # None
      /\ CanStage(apply.edit) /\ QuotaAllows(HeaderBytes, apply.edit) /\ apply \in Applies
      /\ fp \in Contents
  BY EffectAssumption DEF ApplyHeader, StructInv, ApplyInv, OpenInv, TypeOK, Applies
<1>2. /\ journals' = [journals EXCEPT ![j] = r] /\ jid' = j /\ journalBytes' = HeaderBytes
      /\ apply' = [apply EXCEPT !.pc = "append"]
      /\ UNCHANGED <<base, left, phase, doc, rev, committed, pending, fp, fault,
                     uncertain, save, retired, ghost, env>>
  BY <1>1 DEF ApplyHeader
<1>3. /\ r \in Journal /\ r.fp = fp /\ r.batches = <<>> /\ r.synced = 0 /\ r.torn = FALSE
      /\ r.entry = "new" /\ r # NoFile
  <2>1. r \in Journal
    BY <1>1, NewJournalType, JournalChange
  <2>. QED  BY <2>1, JournalFields DEF NewJournal
<1>4. /\ journals' \in [JournalIds -> Journal \cup {NoFile}] /\ journals'[j] = r
      /\ \A i \in JournalIds \ {j} : journals'[i] = journals[i]
  BY <1>1, <1>2, <1>3, OneFile DEF StructInv
<1>5. /\ apply' \in Applies /\ apply'.pc = "append" /\ apply'.edit = apply.edit
      /\ apply'.file = j
  BY <1>1, <1>2 DEF Applies
<1>6. save = NoSave /\ save.pc = "idle"
  <2>1. save.pc = "idle"
    BY <1>1 DEF StructInv, SaveInv
  <2>. QED  BY <2>1 DEF StructInv, SaveInv
<1>7. j \in Candidates
  BY <1>1 DEF Candidates, NewJournal, NoFile
<1>8. Candidates' = Candidates
  BY <1>3, <1>4, <1>7 DEF Candidates
<1>9. Candidates \subseteq BadHeaders
  BY <1>1 DEF StructInv, OpenInv
<1>. HIDE DEF r
<1>. QED  BY <1>1, <1>2, <1>3, <1>4, <1>5, <1>6, <1>7, <1>8, <1>9

LEMMA ApplyHeaders == ASSUME StructInv, ApplyHeader PROVE StructInv'
<1>. DEFINE j == apply.file
            r == journals'[j]
<1>1. /\ apply.pc = "header" /\ jid = None /\ j \in JournalIds
      /\ j \notin retired /\ phase = "open" /\ ~fault /\ apply.edit \in Edits /\ j # None
      /\ CanStage(apply.edit) /\ QuotaAllows(HeaderBytes, apply.edit) /\ fp \in Contents
  BY HeaderFacts
<1>2. /\ jid' = j /\ journalBytes' = HeaderBytes
      /\ UNCHANGED <<base, left, phase, doc, rev, committed, pending, fp, fault,
                     uncertain, save, retired, ghost, env>>
  BY HeaderFacts
<1>3. /\ r \in Journal /\ r.fp = fp /\ r.batches = <<>> /\ r.synced = 0 /\ r.torn = FALSE
      /\ r.entry = "new" /\ r # NoFile
  BY HeaderFacts
<1>4. /\ journals' \in [JournalIds -> Journal \cup {NoFile}]
      /\ \A i \in JournalIds \ {j} : journals'[i] = journals[i]
  BY HeaderFacts
<1>5. /\ apply' \in Applies /\ apply'.pc = "append" /\ apply'.edit = apply.edit
      /\ apply'.file = j
  BY HeaderFacts
<1>6. save = NoSave /\ save.pc = "idle"
  BY HeaderFacts
<1>7. TypeOK'
  <2>1. jid' \in JournalIds \cup {None} /\ journalBytes' \in Nat
    BY <1>1, <1>2, BoundsAssumption
  <2>. QED  BY <1>2, <1>4, <1>5, <2>1 DEF StructInv, TypeOK, Applies
<1>8. FilesInv'
  <2>1. r.synced <= Len(r.batches) /\ Sound(r.batches) /\ r.batches = <<>>
    BY <1>3, SoundEmpty
  <2>. QED  BY <1>1, <1>4, <2>1, FilesMove DEF StructInv
<1>9. DownInv' /\ ReplayInv'
  BY <1>1, <1>2 DEF DownInv, ReplayInv
<1>10. (Candidates \ BadHeaders)' \subseteq {j}
  <2>1. Candidates \subseteq BadHeaders
    BY <1>1 DEF StructInv, OpenInv
  <2>. QED  BY <1>4, <2>1 DEF Candidates, BadHeaders
<1>11. OpenInv'
  <2>1. pending = <<>> /\ rev = 0 /\ committed = 0
    BY <1>1 DEF StructInv, OpenInv
  <2>2. journalBytes' = EndOffset(pending)'
    BY <1>2, <2>1 DEF EndOffset
  <2>. QED  BY <1>1, <1>2, <1>3, <1>4, <1>5, <1>10, <2>1, <2>2 DEF StructInv, OpenInv, File
<1>12. ApplyInv'
  BY <1>1, <1>2, <1>5, <1>6 DEF ApplyInv, CanStage, QuotaAllows
<1>13. SaveInv'
  BY <1>2, <1>6 DEF SaveInv, NoSave
<1>. QED  BY <1>7, <1>8, <1>9, <1>11, <1>12, <1>13 DEF StructInv

\* Writes to the current journal that change neither its header nor its entry.
LEMMA SaveSame ==
    ASSUME StructInv, UNCHANGED <<base, phase, committed, jid, fp, fault, save, retired>>,
           \A i \in JournalIds \ {jid} : journals'[i] = journals[i],
           save.pc \notin {"idle", "stream"} => apply' = apply /\ pending' = pending,
           \A t : \A k \in 1..Len(pending) :
              Splits(k, t) /\ t = save.target => k \in 1..Len(pending') /\ Splits(k, t)'
    PROVE  SaveInv'
<1>1. PICK t : t = save.target
  OBVIOUS
<1>2. CASE save.pc \notin {"idle", "stream"}
  <2>1. Newer(save.target)' = Newer(save.target)
    <3>1. Newer(t)' = Newer(t)
      BY <1>2, NewerSame
    <3>. QED  BY <1>1, <3>1
  <2>2. PICK k \in 1..Len(pending) : Splits(k, save.target)
    BY <1>2 DEF StructInv, SaveInv
  <2>3. k \in 1..Len(pending') /\ Splits(k, t)'
    BY <1>1, <2>2
  <2>4. (\E i \in 1..Len(pending) : Splits(i, save.target))'
    BY <1>1, <2>3
  <2>. QED  BY <1>2, <2>1, <2>4 DEF StructInv, SaveInv, File
<1>3. CASE save.pc = "stream"
  <2>2. PICK k \in 1..Len(pending) : Splits(k, save.target)
    BY <1>3 DEF StructInv, SaveInv
  <2>3. k \in 1..Len(pending') /\ Splits(k, t)'
    BY <1>1, <2>2
  <2>4. (\E i \in 1..Len(pending) : Splits(i, save.target))'
    BY <1>1, <2>3
  <2>. QED  BY <1>3, <2>4 DEF StructInv, SaveInv
<1>4. CASE save.pc = "idle"
  BY <1>4 DEF StructInv, SaveInv, NoSave
<1>. QED  BY <1>2, <1>3, <1>4

LEMMA AppendedFacts ==
    ASSUME StructInv, ApplyAppend
    PROVE  /\ apply.pc = "append" /\ jid \in JournalIds /\ jid # None /\ File(jid) /\ phase = "open"
           /\ hist' = [hist EXCEPT ![rev + Width[apply.edit]] = Effect[apply.edit][doc]]
           /\ UNCHANGED <<base, left, session, save, retired, acked, durable, external, aba, stray, env>>
           /\ Effect[apply.edit][doc] \in Contents /\ pending \in Seq(Batch) /\ fp \in Contents
           /\ Sound(Append(pending, NewBatch(apply.edit)))
           /\ journals[jid] \in Journal /\ journals[jid].batches = pending
           /\ journals[jid].fp = fp /\ journals[jid].synced <= Len(pending)
           /\ journals' \in [JournalIds -> Journal \cup {NoFile}]
           /\ \A i \in JournalIds \ {jid} : journals'[i] = journals[i]
           /\ journals'[jid] \in Journal /\ journals'[jid] # NoFile /\ journals'[jid].fp = fp
           /\ journals'[jid].batches = Append(pending, NewBatch(apply.edit))
           /\ journals'[jid].torn = FALSE /\ journals'[jid].synced = journals[jid].synced
           /\ journals'[jid].entry = journals[jid].entry /\ journals'[jid].synced \in Nat
           /\ Len(Append(pending, NewBatch(apply.edit))) = Len(pending) + 1 /\ Len(pending) \in Nat
           /\ apply' \in Applies /\ apply'.pc = "publish" /\ apply'.edit = apply.edit
           /\ apply'.file = apply.file
           /\ Candidates' = Candidates /\ BadHeaders' = BadHeaders
<1>. DEFINE b == NewBatch(apply.edit)
            r == [journals[jid] EXCEPT !.batches = Append(pending, b)]
<1>1. /\ apply.pc = "append" /\ apply' = [apply EXCEPT !.pc = "publish"] /\ apply \in Applies
      /\ hist' = [hist EXCEPT ![rev + Width[apply.edit]] = Effect[apply.edit][doc]]
      /\ UNCHANGED <<base, left, session, save, retired, acked, durable, external, aba, stray, env>>
  BY DEF ApplyAppend, StructInv, TypeOK, Applies
<1>2. /\ b \in Batch /\ jid \in JournalIds /\ jid # None /\ Sound(Append(pending, b))
      /\ pending \in Seq(Batch) /\ phase = "open" /\ File(jid) /\ Effect[apply.edit][doc] \in Contents
      /\ journals[jid] \in Journal
  BY <1>1, NewBatchFacts, FileType DEF StructInv
<1>3. journals[jid].torn = FALSE /\ journals[jid].batches = pending /\ journals[jid].fp = fp
      /\ fp \in Contents /\ journals[jid].synced <= Len(pending)
  <2>1. ~journals[jid].torn /\ journals[jid].batches = pending /\ journals[jid].fp = fp
        /\ fp \in Contents
    BY <1>1, <1>2 DEF StructInv, OpenInv
  <2>. QED  BY <1>2, <2>1, JournalFields DEF StructInv, FilesInv
<1>4. journals' = [journals EXCEPT ![jid] = r]
  BY <1>2, <1>3 DEF ApplyAppend, AppendTo
<1>5. Append(pending, b) \in Seq(Batch) /\ Len(Append(pending, b)) = Len(pending) + 1
      /\ Len(pending) \in Nat
  BY <1>2
<1>6. /\ r \in Journal /\ r.fp = fp /\ r.batches = Append(pending, b) /\ r.torn = FALSE
      /\ r.synced = journals[jid].synced /\ r.entry = journals[jid].entry
      /\ r.synced \in Nat /\ r # NoFile
  <2>1. r \in Journal
    BY <1>2, <1>5, JournalChange
  <2>. QED  BY <1>2, <1>3, <2>1, JournalFields DEF Journal
<1>7. /\ journals' \in [JournalIds -> Journal \cup {NoFile}] /\ journals'[jid] = r
      /\ \A i \in JournalIds \ {jid} : journals'[i] = journals[i]
  BY <1>2, <1>4, <1>6, OneFile DEF StructInv
<1>8. /\ apply' \in Applies /\ apply'.pc = "publish" /\ apply'.edit = apply.edit
      /\ apply'.file = apply.file
  BY <1>1 DEF Applies
<1>9. Candidates' = Candidates /\ BadHeaders' = BadHeaders
  BY <1>2, <1>3, <1>6, <1>7, NamesSame
<1>. HIDE DEF r
<1>. QED  BY <1>1, <1>2, <1>3, <1>5, <1>6, <1>7, <1>8, <1>9

LEMMA ApplyAppends == ASSUME StructInv, ApplyAppend PROVE StructInv'
<1>. DEFINE b == NewBatch(apply.edit)
            r == journals'[jid]
<1>1. /\ apply.pc = "append"
      /\ hist' = [hist EXCEPT ![rev + Width[apply.edit]] = Effect[apply.edit][doc]]
      /\ UNCHANGED <<base, left, session, save, retired, acked, durable, external, aba, stray, env>>
  BY AppendedFacts
<1>2. /\ jid \in JournalIds /\ jid # None /\ Sound(Append(pending, b))
      /\ pending \in Seq(Batch) /\ phase = "open" /\ Effect[apply.edit][doc] \in Contents
      /\ fp \in Contents /\ journals[jid].synced <= Len(pending)
  BY AppendedFacts
<1>5. Len(Append(pending, b)) = Len(pending) + 1 /\ Len(pending) \in Nat
  BY AppendedFacts
<1>6. /\ r \in Journal /\ r.fp = fp /\ r.batches = Append(pending, b) /\ r.torn = FALSE
      /\ r.synced = journals[jid].synced /\ r.synced \in Nat /\ r # NoFile
  BY AppendedFacts
<1>7. /\ journals' \in [JournalIds -> Journal \cup {NoFile}]
      /\ \A i \in JournalIds \ {jid} : journals'[i] = journals[i]
  BY AppendedFacts
<1>8. /\ apply' \in Applies /\ apply'.pc = "publish" /\ apply'.edit = apply.edit
      /\ apply'.file = apply.file
  BY AppendedFacts
<1>9. TypeOK'
  <2>1. hist' \in Histories
    BY <1>1, <1>2 DEF StructInv, TypeOK, Histories
  <2>. QED  BY <1>1, <1>7, <1>8, <2>1 DEF StructInv, TypeOK, Applies, Histories
<1>10. FilesInv'
  <2>1. r.synced <= Len(r.batches) /\ Sound(r.batches) /\ r.fp # None
    BY <1>2, <1>5, <1>6, EffectAssumption
  <2>. QED  BY <1>2, <1>7, <2>1, FilesMove DEF StructInv
<1>11. DownInv' /\ ReplayInv'
  BY <1>1, <1>2 DEF DownInv, ReplayInv
<1>12. Candidates' = Candidates /\ BadHeaders' = BadHeaders
  BY AppendedFacts
<1>13. OpenInv'
  <2>1. r.batches = Append(pending, NewBatch(apply.edit))'
    BY <1>1, <1>6, <1>8 DEF NewBatch
  <2>. QED  BY <1>1, <1>2, <1>6, <1>7, <1>8, <1>12, <2>1 DEF StructInv, OpenInv, File
<1>14. ApplyInv'
  BY <1>1, <1>8 DEF StructInv, ApplyInv, CanStage, QuotaAllows
<1>15. SaveInv'
  <2>1. save.pc \in {"idle", "stream"}
    BY <1>1 DEF StructInv, ApplyInv
  <2>2. \A t : \A k \in 1..Len(pending) : Splits(k, t) => k \in 1..Len(pending') /\ Splits(k, t)'
    BY <1>1, NewerSame
  <2>. QED  BY <1>1, <1>7, <2>1, <2>2, SaveSame
<1>. QED  BY <1>9, <1>10, <1>11, <1>13, <1>14, <1>15 DEF StructInv
-----------------------------------------------------------------------------
\* Structure: a transaction ends, and the ticker

LEMMA AppendFacts ==
    ASSUME NEW s \in Seq(Batch), NEW b \in Batch
    PROVE  /\ Append(s, b) \in Seq(Batch) /\ Len(Append(s, b)) = Len(s) + 1
           /\ Len(s) \in Nat /\ \A i \in 1..Len(s) : Append(s, b)[i] = s[i]
           /\ Append(s, b)[Len(s) + 1] = b /\ Append(s, b) # <<>>
OBVIOUS

LEMMA ApplyPublishes == ASSUME StructInv, ApplyPublish PROVE StructInv'
<1>. DEFINE b == NewBatch(apply.edit)
<1>1. /\ apply.pc = "publish" /\ doc' = Effect[apply.edit][doc] /\ rev' = rev + Width[apply.edit]
      /\ pending' = Append(pending, b) /\ journalBytes' = journalBytes + EditBytes[apply.edit]
      /\ acked' = rev + Width[apply.edit] /\ apply' = NoApply
      /\ UNCHANGED <<disk, phase, committed, jid, fp, fault, uncertain, save,
                     retired, hist, durable, external, aba, stray, env>>
  BY DEF ApplyPublish
<1>2. /\ b \in Batch /\ jid \in JournalIds /\ jid # None /\ Sound(Append(pending, b))
      /\ pending \in Seq(Batch) /\ phase = "open" /\ File(jid) /\ Effect[apply.edit][doc] \in Contents
      /\ rev + Width[apply.edit] \in Revisions /\ rev + Width[apply.edit] > rev
      /\ b.end = journalBytes + EditBytes[apply.edit] /\ b.end <= MaxJournalBytes
      /\ EndsAt(Append(pending, b), committed) = rev + Width[apply.edit]
      /\ EndOffset(Append(pending, b)) = journalBytes + EditBytes[apply.edit]
      /\ b.first = rev + 1 /\ LastRevision(b) = rev + Width[apply.edit] /\ b.end \in Nat
  BY <1>1, NewBatchFacts, BatchFacts DEF StructInv
<1>3. /\ Append(pending, b) \in Seq(Batch) /\ Len(Append(pending, b)) = Len(pending) + 1
      /\ Len(pending) \in Nat /\ \A i \in 1..Len(pending) : Append(pending, b)[i] = pending[i]
      /\ Append(pending, b)[Len(pending) + 1] = b /\ Append(pending, b) # <<>>
  BY <1>2, AppendFacts
<1>4. TypeOK'
  <2>1. journalBytes' \in Nat /\ pending' \in Seq(Batch)
    BY <1>1, <1>2, <1>3
  <2>2. doc' \in Contents /\ rev' \in Revisions /\ acked' \in Revisions /\ apply' \in Applies
    BY <1>1, <1>2, IdleTypes
  <2>3. UNCHANGED <<base, journals, left, phase, committed, jid, fp, fault, uncertain, save,
                    retired, hist, durable, external, aba, stray, volatile, failures, writes>>
    BY <1>1
  <2>4. TypeOK
    BY DEF StructInv
  <2>. QED  BY <2>1, <2>2, <2>3, <2>4, SMTT(30) DEF TypeOK, Applies
<1>5. FilesInv' /\ DownInv' /\ ReplayInv'
  BY <1>1, <1>2, FilesSame DEF StructInv, DownInv, ReplayInv
<1>6. Candidates' = Candidates /\ BadHeaders' = BadHeaders
  BY <1>1 DEF Candidates, BadHeaders
<1>7. rev \in Nat /\ committed \in Nat /\ committed <= rev
  BY <1>2, BoundsAssumption DEF StructInv, TypeOK, OpenInv, Revisions
<1>8. OpenInv'
  <2>1. ~fault => pending'[1].first = committed + 1
    <3>. SUFFICES ASSUME ~fault PROVE pending'[1].first = committed + 1
      OBVIOUS
    <3>1. CASE pending = <<>>
      <4>1. rev = committed
        BY <1>2, <3>1 DEF StructInv, OpenInv, EndsAt
      <4>. QED  BY <1>1, <1>2, <1>3, <3>1, <4>1
    <3>2. CASE pending # <<>>
      <4>1. 1 \in 1..Len(pending)
        BY <1>3, <1>2, <3>2
      <4>. QED  BY <1>1, <1>2, <1>3, <3>2, <4>1 DEF StructInv, OpenInv
    <3>. QED  BY <3>1, <3>2
  <2>2. rev' = EndsAt(pending, committed)' /\ journalBytes' = EndOffset(pending)'
    BY <1>1, <1>2
  <2>3. Sound(pending)' /\ committed' <= rev'
    BY <1>1, <1>2, <1>7
  <2>4. journals'[jid'].batches = pending' /\ apply'.pc = "idle"
    BY <1>1, <1>2 DEF StructInv, OpenInv, NoApply
  <2>. QED  BY <1>1, <1>2, <1>3, <1>6, <2>1, <2>2, <2>3, <2>4 DEF StructInv, OpenInv, File
<1>9. ApplyInv'
  BY <1>1 DEF ApplyInv, NoApply
<1>10. SaveInv'
  <2>1. save.pc \in {"idle", "stream"}
    BY <1>1 DEF StructInv, ApplyInv
  <2>2. ASSUME NEW k \in 1..Len(pending), NEW t, Splits(k, t), t = save.target
        PROVE  k \in 1..Len(pending') /\ Splits(k, t)'
    <3>1. t \in Nat /\ k \in 1..Len(pending') /\ pending'[k] = pending[k]
      BY <1>1, <1>3, <2>2, BoundsAssumption DEF StructInv, TypeOK, Revisions
    <3>2. t <= rev
      BY <1>2, <2>2, <1>7, SoundLast DEF StructInv, OpenInv, Splits
    <3>3. ASSUME NEW i \in 1..Len(pending') PROVE LastRevision(pending'[i]) > t <=> i > k
      <4>1. CASE i \in 1..Len(pending)
        BY <1>1, <1>3, <2>2, <4>1 DEF Splits
      <4>2. CASE i = Len(pending) + 1
        BY <1>1, <1>2, <1>3, <1>7, <2>2, <3>1, <3>2, <4>2
      <4>. QED  BY <1>1, <1>3, <4>1, <4>2
    <3>. QED  BY <2>2, <3>1, <3>3 DEF Splits
  <2>. QED  BY <1>1, <2>1, <2>2, SaveSame
<1>. QED  BY <1>4, <1>5, <1>8, <1>9, <1>10 DEF StructInv

LEMMA CutFacts ==
    ASSUME NEW r \in Journal, Sound(r.batches), r.synced <= Len(r.batches),
           NEW n \in 0..Len(r.batches)
    PROVE  /\ Cut(r, n) \in Journal /\ Cut(r, n).fp = r.fp /\ Cut(r, n).entry = r.entry
           /\ Cut(r, n).torn = r.torn /\ Cut(r, n).batches = SubSeq(r.batches, 1, n)
           /\ Cut(r, n).synced = IF r.synced < n THEN r.synced ELSE n
           /\ Sound(Cut(r, n).batches) /\ Cut(r, n).synced <= Len(Cut(r, n).batches)
           /\ Cut(r, n) # NoFile
<1>1. r.batches \in Seq(Batch) /\ r.synced \in Nat
  BY JournalFields
<1>2. /\ SubSeq(r.batches, 1, n) \in Seq(Batch) /\ Len(SubSeq(r.batches, 1, n)) = n
      /\ Sound(SubSeq(r.batches, 1, n)) /\ n \in Nat
  BY <1>1, SoundPrefix
<1>3. PICK s \in Nat : s = (IF r.synced < n THEN r.synced ELSE n) /\ s <= n
  BY <1>1, <1>2
<1>4. Cut(r, n) = [r EXCEPT !.batches = SubSeq(r.batches, 1, n), !.synced = s]
  BY <1>3 DEF Cut
<1>5. Cut(r, n) \in Journal
  BY <1>2, <1>4 DEF Journal
<1>6. /\ Cut(r, n).fp = r.fp /\ Cut(r, n).entry = r.entry
      /\ Cut(r, n).torn = r.torn /\ Cut(r, n).batches = SubSeq(r.batches, 1, n)
      /\ Cut(r, n).synced = s
  BY <1>4 DEF Journal
<1>. QED  BY <1>2, <1>3, <1>5, <1>6, JournalFields

\* The journal after a rolled back append is the one before it.
LEMMA RollbackFacts ==
    ASSUME StructInv, ApplyRollback
    PROVE  /\ jid \in JournalIds /\ jid # None /\ phase = "open" /\ File(jid)
           /\ journals' \in [JournalIds -> Journal \cup {NoFile}]
           /\ \A i \in JournalIds \ {jid} : journals'[i] = journals[i]
           /\ journals'[jid] = Cut(journals[jid], Len(pending))
           /\ journals'[jid] \in Journal /\ journals'[jid] # NoFile
           /\ journals'[jid].fp = journals[jid].fp /\ journals'[jid].entry = journals[jid].entry
           /\ journals'[jid].torn = journals[jid].torn /\ journals'[jid].batches = pending
           /\ journals'[jid].synced = IF journals[jid].synced < Len(pending)
                                      THEN journals[jid].synced ELSE Len(pending)
           /\ journals'[jid].synced <= Len(pending)
           /\ apply.pc = "publish" /\ apply' = NoApply
           /\ hist' = [hist EXCEPT ![rev + Width[apply.edit]] = None]
           /\ UNCHANGED <<base, left, session, save, retired, acked, durable, external, aba, stray, env>>
<1>. DEFINE b == NewBatch(apply.edit)
            a == Append(pending, b)
            r == journals[jid]
<1>1. /\ apply.pc = "publish" /\ apply' = NoApply
      /\ hist' = [hist EXCEPT ![rev + Width[apply.edit]] = None]
      /\ UNCHANGED <<base, left, session, save, retired, acked, durable, external, aba, stray, env>>
      /\ journals' = [journals EXCEPT ![jid] = Cut(@, Len(@.batches) - 1)]
  BY DEF ApplyRollback
<1>2. /\ b \in Batch /\ jid \in JournalIds /\ jid # None /\ Sound(Append(pending, b))
      /\ pending \in Seq(Batch) /\ phase = "open" /\ File(jid) /\ r \in Journal
  BY <1>1, NewBatchFacts, FileType DEF StructInv
<1>3. r.batches = a /\ r.synced <= Len(a)
  <2>1. r.batches = a
    BY <1>1, <1>2 DEF StructInv, OpenInv
  <2>. QED  BY <1>2, <2>1 DEF StructInv, FilesInv
<1>4. Len(a) - 1 = Len(pending) /\ Len(pending) \in 0..Len(a) /\ SubSeq(a, 1, Len(pending)) = pending
  BY <1>2
<1>5. journals' = [journals EXCEPT ![jid] = Cut(r, Len(pending))]
  BY <1>1, <1>3, <1>4
<1>6. /\ Cut(r, Len(pending)) \in Journal /\ Cut(r, Len(pending)).fp = r.fp
      /\ Cut(r, Len(pending)).entry = r.entry /\ Cut(r, Len(pending)).torn = r.torn
      /\ Cut(r, Len(pending)).batches = pending
      /\ Cut(r, Len(pending)).synced = IF r.synced < Len(pending) THEN r.synced ELSE Len(pending)
      /\ Cut(r, Len(pending)).synced <= Len(pending) /\ Cut(r, Len(pending)) # NoFile
  <2>1. Sound(r.batches) /\ r.synced <= Len(r.batches) /\ Len(pending) \in 0..Len(r.batches)
    BY <1>2, <1>3, <1>4
  <2>2. /\ Cut(r, Len(pending)).batches = SubSeq(a, 1, Len(pending))
        /\ Cut(r, Len(pending)).synced <= Len(Cut(r, Len(pending)).batches)
    BY <1>2, <1>3, <2>1, CutFacts, ZenonT(40)
  <2>. QED  BY <1>2, <1>4, <2>1, <2>2, CutFacts
<1>7. /\ journals' \in [JournalIds -> Journal \cup {NoFile}]
      /\ journals'[jid] = Cut(r, Len(pending))
      /\ \A i \in JournalIds \ {jid} : journals'[i] = journals[i]
  BY <1>2, <1>5, <1>6, OneFile DEF StructInv
<1>. QED  BY <1>1, <1>2, <1>6, <1>7

LEMMA ApplyRollsBack == ASSUME StructInv, ApplyRollback PROVE StructInv'
<1>1. /\ jid \in JournalIds /\ jid # None /\ phase = "open" /\ File(jid)
      /\ journals' \in [JournalIds -> Journal \cup {NoFile}]
      /\ \A i \in JournalIds \ {jid} : journals'[i] = journals[i]
      /\ journals'[jid] \in Journal /\ journals'[jid] # NoFile
      /\ journals'[jid].fp = journals[jid].fp /\ journals'[jid].entry = journals[jid].entry
      /\ journals'[jid].torn = journals[jid].torn /\ journals'[jid].batches = pending
      /\ journals'[jid].synced <= Len(pending)
      /\ apply.pc = "publish" /\ apply' = NoApply
      /\ hist' = [hist EXCEPT ![rev + Width[apply.edit]] = None]
      /\ UNCHANGED <<base, left, session, save, retired, acked, durable, external, aba, stray, env>>
  BY RollbackFacts
<1>2. TypeOK'
  <2>1. hist' \in Histories
    BY <1>1 DEF StructInv, TypeOK, Histories
  <2>. QED  BY <1>1, <2>1, IdleTypes DEF StructInv, TypeOK, Applies, Histories
<1>3. Sound(pending) /\ journals[jid].fp = fp /\ fp \in Contents /\ fp # None
  BY <1>1, EffectAssumption DEF StructInv, OpenInv
<1>4. FilesInv'
  BY <1>1, <1>3, FilesMove DEF StructInv
<1>5. DownInv' /\ ReplayInv'
  BY <1>1 DEF DownInv, ReplayInv
<1>6. Candidates' = Candidates /\ BadHeaders' = BadHeaders
  BY <1>1, NamesSame
<1>7. OpenInv'
  BY <1>1, <1>6 DEF StructInv, OpenInv, NoApply, File
<1>8. ApplyInv'
  BY <1>1 DEF ApplyInv, NoApply
<1>9. SaveInv'
  <2>1. save.pc \in {"idle", "stream"}
    BY <1>1 DEF StructInv, ApplyInv
  <2>2. \A t : \A k \in 1..Len(pending) : Splits(k, t) => k \in 1..Len(pending') /\ Splits(k, t)'
    BY <1>1, NewerSame
  <2>. QED  BY <1>1, <2>1, <2>2, SaveSame
<1>. QED  BY <1>2, <1>4, <1>5, <1>7, <1>8, <1>9 DEF StructInv

\* A sync of the current journal.
LEMMA SyncFacts ==
    ASSUME StructInv, SyncJournal
    PROVE  /\ jid \in JournalIds /\ jid # None /\ phase = "open" /\ File(jid)
           /\ journals' \in [JournalIds -> Journal \cup {NoFile}]
           /\ \A i \in JournalIds \ {jid} : journals'[i] = journals[i]
           /\ journals'[jid] \in Journal /\ journals'[jid] # NoFile
           /\ journals'[jid].fp = journals[jid].fp /\ journals'[jid].entry = journals[jid].entry
           /\ journals'[jid].torn = journals[jid].torn
           /\ journals'[jid].batches = journals[jid].batches
           /\ journals'[jid].synced = Len(journals[jid].batches)
           /\ Candidates' = Candidates /\ BadHeaders' = BadHeaders
           /\ UNCHANGED <<base, left, session, apply, save, retired, hist, acked, external, aba,
                          stray, env>>
<1>1. /\ phase = "open" /\ jid \in JournalIds /\ jid # None /\ File(jid)
      /\ UNCHANGED <<base, left, session, apply, save, retired, hist, acked, external, aba,
                     stray, env>>
  BY DEF SyncJournal, StructInv, TypeOK, OpenInv
<1>2. journals[jid] \in Journal /\ Len(journals[jid].batches) \in Nat
  BY <1>1, FileType, JournalFields DEF StructInv
<1>. DEFINE r == [journals[jid] EXCEPT !.synced = Len(journals[jid].batches)]
<1>3. journals' = [journals EXCEPT ![jid] = r]
  BY DEF SyncJournal
<1>4. /\ r \in Journal /\ r # NoFile /\ r.fp = journals[jid].fp /\ r.entry = journals[jid].entry
      /\ r.torn = journals[jid].torn /\ r.batches = journals[jid].batches
      /\ r.synced = Len(journals[jid].batches)
  <2>1. r \in Journal
    BY <1>2, JournalChange
  <2>. QED  BY <1>2, <2>1, JournalFields DEF Journal
<1>5. /\ journals' \in [JournalIds -> Journal \cup {NoFile}] /\ journals'[jid] = r
      /\ \A i \in JournalIds \ {jid} : journals'[i] = journals[i]
  BY <1>1, <1>3, <1>4, OneFile DEF StructInv
<1>6. Candidates' = Candidates /\ BadHeaders' = BadHeaders
  BY <1>1, <1>4, <1>5, NamesSame
<1>. QED  BY <1>1, <1>4, <1>5, <1>6

LEMMA Syncs == ASSUME StructInv, SyncJournal PROVE StructInv'
<1>1. /\ jid \in JournalIds /\ jid # None /\ phase = "open" /\ File(jid)
      /\ journals' \in [JournalIds -> Journal \cup {NoFile}]
      /\ \A i \in JournalIds \ {jid} : journals'[i] = journals[i]
      /\ journals'[jid] \in Journal /\ journals'[jid] # NoFile
      /\ journals'[jid].fp = journals[jid].fp /\ journals'[jid].entry = journals[jid].entry
      /\ journals'[jid].torn = journals[jid].torn
      /\ journals'[jid].batches = journals[jid].batches
      /\ journals'[jid].synced = Len(journals[jid].batches)
      /\ Candidates' = Candidates /\ BadHeaders' = BadHeaders
      /\ UNCHANGED <<base, left, session, apply, save, retired, hist, acked, external, aba, stray, env>>
  BY SyncFacts
<1>2. TypeOK'
  <2>1. durable' \in Revisions
    BY DEF SyncJournal, StructInv, TypeOK
  <2>. QED  BY <1>1, <2>1 DEF StructInv, TypeOK
<1>3. FilesInv'
  <2>1. Len(journals[jid].batches) <= Len(journals[jid].batches)
    BY <1>1, FileType, JournalFields DEF StructInv
  <2>2. Sound(journals[jid].batches) /\ (journals[jid].fp = None => journals[jid].batches = <<>>)
    BY <1>1 DEF StructInv, FilesInv
  <2>. QED  BY <1>1, <2>1, <2>2, FilesMove DEF StructInv
<1>4. DownInv' /\ ReplayInv'
  BY <1>1 DEF DownInv, ReplayInv
<1>5. OpenInv'
  BY <1>1 DEF StructInv, OpenInv, File, NewBatch
<1>6. ApplyInv'
  BY <1>1 DEF StructInv, ApplyInv, CanStage, QuotaAllows
<1>7. SaveInv'
  <2>1. \A t : \A k \in 1..Len(pending) : Splits(k, t) => k \in 1..Len(pending') /\ Splits(k, t)'
    BY <1>1, NewerSame
  <2>. QED  BY <1>1, <2>1, SaveSame
<1>. QED  BY <1>2, <1>3, <1>4, <1>5, <1>6, <1>7 DEF StructInv
-----------------------------------------------------------------------------
\* Structure: a save writes the new journal

\* The target of a save lies in the pending list.
LEMMA TargetFacts ==
    ASSUME StructInv, save.pc # "idle"
    PROVE  /\ phase = "open" /\ ~fault /\ jid \in JournalIds /\ jid # None /\ File(jid)
           /\ save.target \in Nat /\ committed \in Nat /\ rev \in Nat
           /\ committed < save.target /\ save.target <= rev
           /\ pending \in Seq(Batch) /\ Sound(pending) /\ pending # <<>>
           /\ rev = EndsAt(pending, committed) /\ save.text \in Contents /\ save.text # None
           /\ fp \in Contents /\ journals[jid].fp = fp
<1>1. /\ phase = "open" /\ ~fault /\ jid \in JournalIds /\ jid # None
      /\ save.target \in Nat /\ committed \in Nat /\ rev \in Nat /\ committed < save.target
      /\ pending \in Seq(Batch) /\ save.text \in Contents
  BY BoundsAssumption DEF StructInv, SaveInv, TypeOK, Revisions
<1>2. Sound(pending) /\ rev = EndsAt(pending, committed) /\ File(jid) /\ fp \in Contents
      /\ journals[jid].fp = fp
  BY <1>1 DEF StructInv, OpenInv
<1>3. PICK k \in 1..Len(pending) : Splits(k, save.target)
  BY DEF StructInv, SaveInv
<1>4. save.target <= rev /\ pending # <<>>
  BY <1>1, <1>2, <1>3, SoundLast DEF Splits
<1>. QED  BY <1>1, <1>2, <1>4, EffectAssumption

LEMMA SaveBarriers == ASSUME StructInv, SaveBarrier PROVE StructInv'
<1>1. PICK j \in JournalIds : /\ Free(j) /\ journals' = [journals EXCEPT ![j] = NewJournal]
                              /\ save' = [save EXCEPT !.pc = "prepare", !.prep = j]
  BY DEF SaveBarrier
<1>2. /\ save.pc = "stream" /\ apply = NoApply /\ base = fp /\ save \in Saves
      /\ UNCHANGED <<base, left, session, apply, retired, ghost, env>> /\ save.prep = None
  BY DEF SaveBarrier, MuFree, SameIdentity, StructInv, ApplyInv, SaveInv, TypeOK, Saves
<1>3. /\ journals' \in [JournalIds -> Journal \cup {NoFile}] /\ journals'[j] = NewJournal
      /\ \A i \in JournalIds \ {j} : journals'[i] = journals[i]
      /\ Candidates' = Candidates \cup {j} /\ BadHeaders' = BadHeaders \cup {j}
      /\ j \notin retired /\ journals[j] = NoFile
  BY <1>1, CreateFacts DEF StructInv
<1>4. /\ save' \in Saves /\ save'.pc = "prepare" /\ save'.target = save.target
      /\ save'.text = save.text /\ save'.prep = j
  BY <1>1, <1>2 DEF Saves, SavePhases
<1>5. phase = "open" /\ jid # None /\ j # jid /\ ~fault /\ jid \in JournalIds /\ File(jid)
  BY <1>2, <1>3, TargetFacts DEF File
<1>6. TypeOK'
  BY <1>2, <1>3, <1>4 DEF StructInv, TypeOK, Saves
<1>7. FilesInv'
  <2>1. NewJournal.synced <= Len(NewJournal.batches) /\ NewJournal.batches = <<>>
    BY DEF NewJournal
  <2>. QED  BY <1>3, <2>1, NewJournalType, FilesMove DEF StructInv
<1>8. DownInv' /\ ReplayInv'
  BY <1>2, <1>5 DEF DownInv, ReplayInv
<1>9. OpenInv'
  <2>1. None \notin Candidates
    BY EffectAssumption DEF Candidates
  <2>2. (Candidates \ BadHeaders)' \subseteq {jid, j} \cup retired
    BY <1>2, <1>3, <1>5, <2>1 DEF StructInv, OpenInv
  <2>3. journals'[jid] = journals[jid]
    BY <1>3, <1>5
  <2>. QED  BY <1>2, <1>4, <1>5, <2>2, <2>3 DEF StructInv, OpenInv, File, NoApply
<1>10. ApplyInv'
  BY <1>2 DEF ApplyInv, NoApply
<1>11. SaveInv'
  <2>1. PICK t : t = save.target
    OBVIOUS
  <2>2. PICK k \in 1..Len(pending) : Splits(k, t)
    BY <1>2, <2>1 DEF StructInv, SaveInv
  <2>3. (\E i \in 1..Len(pending) : Splits(i, save.target))'
    BY <1>2, <1>4, <2>1, <2>2, NewerSame
  <2>4. NewJournal # NoFile
    BY NewJournalType, JournalFields
  <2>. QED  BY <1>2, <1>3, <1>4, <1>5, <2>3, <2>4 DEF StructInv, SaveInv, File
<1>. QED  BY <1>6, <1>7, <1>8, <1>9, <1>10, <1>11 DEF StructInv

LEMMA PrepareFacts ==
    ASSUME StructInv, SavePrepareHeader
    PROVE  /\ save.pc = "prepare" /\ save.prep \in JournalIds /\ save.prep # jid
           /\ save.prep \notin retired
           /\ journals' \in [JournalIds -> Journal \cup {NoFile}]
           /\ journals'[save.prep] = [NewJournal EXCEPT !.fp = save.text]
           /\ journals'[save.prep] \in Journal /\ journals'[save.prep] # NoFile
           /\ journals'[save.prep].fp = save.text /\ journals'[save.prep].entry = "new"
           /\ journals'[save.prep].batches = <<>> /\ journals'[save.prep].synced = 0
           /\ \A i \in JournalIds \ {save.prep} : journals'[i] = journals[i]
           /\ Candidates' = Candidates /\ BadHeaders' = BadHeaders \ {save.prep}
           /\ save' \in Saves /\ save'.pc = "fill" /\ save'.target = save.target
           /\ save'.text = save.text /\ save'.prep = save.prep /\ save'.late = save.late
           /\ apply = NoApply
<1>1. /\ save.pc = "prepare" /\ save.prep \in JournalIds /\ save.prep # jid
      /\ save.prep \notin retired /\ journals[save.prep] = NewJournal /\ apply = NoApply
      /\ save \in Saves
  BY DEF SavePrepareHeader, StructInv, SaveInv, TypeOK, Saves
<1>2. save.text \in Contents /\ save.text # None
  BY <1>1, TargetFacts
<1>. DEFINE r == [NewJournal EXCEPT !.fp = save.text]
<1>3. /\ journals' = [journals EXCEPT ![save.prep] = r] /\ save' = [save EXCEPT !.pc = "fill"]
  BY <1>1 DEF SavePrepareHeader
<1>4. r \in Journal /\ r # NoFile
  <2>1. r \in Journal
    BY <1>2, NewJournalType, JournalChange
  <2>. QED  BY <2>1, JournalFields
<1>5. r.fp = save.text /\ r.entry = "new" /\ r.batches = <<>> /\ r.synced = 0
  BY DEF NewJournal
<1>6. /\ journals' \in [JournalIds -> Journal \cup {NoFile}] /\ journals'[save.prep] = r
      /\ \A i \in JournalIds \ {save.prep} : journals'[i] = journals[i]
  BY <1>1, <1>3, <1>4, OneFile DEF StructInv
<1>7. NewJournal # NoFile /\ NewJournal.entry = "new" /\ NewJournal.fp = None
  BY NewJournalType, JournalFields DEF NewJournal
<1>8. Candidates' = Candidates
  BY <1>1, <1>4, <1>5, <1>6, <1>7 DEF Candidates
<1>9. BadHeaders' = BadHeaders \ {save.prep}
  BY <1>1, <1>2, <1>5, <1>6, <1>8 DEF BadHeaders, Candidates
<1>10. /\ save' \in Saves /\ save'.pc = "fill" /\ save'.target = save.target
       /\ save'.text = save.text /\ save'.prep = save.prep /\ save'.late = save.late
  BY <1>1, <1>3 DEF Saves, SavePhases
<1>. QED  BY <1>1, <1>4, <1>5, <1>6, <1>8, <1>9, <1>10

LEMMA SavePrepares == ASSUME StructInv, SavePrepareHeader PROVE StructInv'
<1>1. /\ save.pc = "prepare" /\ save.prep \in JournalIds /\ save.prep # jid
      /\ save.prep \notin retired
      /\ journals' \in [JournalIds -> Journal \cup {NoFile}]
      /\ journals'[save.prep] = [NewJournal EXCEPT !.fp = save.text]
      /\ journals'[save.prep] \in Journal /\ journals'[save.prep] # NoFile
      /\ journals'[save.prep].fp = save.text
      /\ journals'[save.prep].batches = <<>> /\ journals'[save.prep].synced = 0
      /\ \A i \in JournalIds \ {save.prep} : journals'[i] = journals[i]
      /\ Candidates' = Candidates /\ BadHeaders' = BadHeaders \ {save.prep}
      /\ save' \in Saves /\ save'.pc = "fill" /\ save'.target = save.target
      /\ save'.text = save.text /\ save'.prep = save.prep /\ save'.late = save.late
      /\ apply = NoApply
  BY PrepareFacts
<1>2. UNCHANGED <<base, left, session, apply, retired, hist, acked, durable, external, stray, env>>
  BY DEF SavePrepareHeader
<1>3. phase = "open" /\ ~fault /\ jid \in JournalIds /\ jid # None /\ save.text # None
  BY <1>1, TargetFacts
<1>4. TypeOK'
  <2>1. aba' \in BOOLEAN
    BY DEF SavePrepareHeader, StructInv, TypeOK
  <2>. QED  BY <1>1, <1>2, <2>1 DEF StructInv, TypeOK, Saves
<1>5. FilesInv'
  <2>1. 0 <= Len(<<>>)
    OBVIOUS
  <2>. QED  BY <1>1, <1>3, <2>1, SoundEmpty, FilesMove DEF StructInv
<1>6. DownInv' /\ ReplayInv'
  BY <1>2, <1>3 DEF DownInv, ReplayInv
<1>7. OpenInv'
  BY <1>1, <1>2, <1>3 DEF StructInv, OpenInv, File, NoApply
<1>8. ApplyInv'
  BY <1>1, <1>2 DEF ApplyInv, NoApply
<1>9. SaveInv'
  <2>1. PICK t : t = save.target
    OBVIOUS
  <2>2. PICK k \in 1..Len(pending) : Splits(k, t)
    BY <1>1, <2>1 DEF StructInv, SaveInv
  <2>3. (\E i \in 1..Len(pending) : Splits(i, save.target))'
    BY <1>1, <1>2, <2>1, <2>2, NewerSame
  <2>. QED  BY <1>1, <1>2, <1>3, <2>3 DEF StructInv, SaveInv, File
<1>. QED  BY <1>4, <1>5, <1>6, <1>7, <1>8, <1>9 DEF StructInv
-----------------------------------------------------------------------------
\* Structure: the new journal is filled, thrown away, or becomes current

\* The directory sync changes entries only.
LEMMA FillFacts ==
    ASSUME StructInv, SaveFill
    PROVE  /\ save.pc = "fill" /\ save.prep \in JournalIds /\ save.prep # jid
           /\ save.prep \notin retired /\ apply = NoApply
           /\ journals' \in [JournalIds -> Journal \cup {NoFile}]
           /\ journals'[save.prep] # NoFile /\ journals'[save.prep].fp = save.text
           /\ journals'[save.prep].batches = Newer(save.target)
           /\ journals'[save.prep].synced = Len(Newer(save.target))
           /\ journals'[save.prep].torn = FALSE /\ journals'[save.prep].entry = "synced"
           /\ \A i \in JournalIds \ {save.prep} :
                 /\ journals'[i] = NoFile <=> journals[i] = NoFile
                 /\ File(i) => /\ journals'[i].fp = journals[i].fp
                               /\ journals'[i].batches = journals[i].batches
                               /\ journals'[i].synced = journals[i].synced
                               /\ journals'[i].torn = journals[i].torn
                               /\ journals'[i].entry = IF journals[i].entry = "new" THEN "synced"
                                                       ELSE journals[i].entry
           /\ Candidates' = Candidates /\ BadHeaders' = BadHeaders
           /\ save' \in Saves /\ save'.pc = "barrier" /\ save'.target = save.target
           /\ save'.text = save.text /\ save'.prep = save.prep /\ save'.late = save.late
           /\ UNCHANGED <<base, left, session, apply, retired, ghost, env>>
<1>1. /\ save.pc = "fill" /\ save.prep \in JournalIds /\ save.prep # jid
      /\ save.prep \notin retired /\ journals[save.prep] = [NewJournal EXCEPT !.fp = save.text]
      /\ apply = NoApply /\ save \in Saves /\ journals[save.prep] # NoFile
  BY DEF SaveFill, StructInv, SaveInv, TypeOK, Saves, File
<1>2. save.text \in Contents /\ save.text # None /\ pending \in Seq(Batch) /\ Sound(pending)
  BY <1>1, TargetFacts
<1>. DEFINE n == Newer(save.target)
            p == [journals[save.prep] EXCEPT !.batches = n, !.synced = Len(n)]
            files == [journals EXCEPT ![save.prep] = p]
<1>3. n \in Seq(Batch) /\ Len(n) \in Nat
  <2>1. PICK k \in 1..Len(pending) : Splits(k, save.target)
    BY <1>1 DEF StructInv, SaveInv
  <2>. QED  BY <1>2, <2>1, NewerFacts
<1>4. /\ journals' = DirSynced(files) /\ save' = [save EXCEPT !.pc = "barrier"]
      /\ UNCHANGED <<base, left, session, apply, retired, ghost, env>>
  BY DEF SaveFill
<1>5. journals[save.prep] \in Journal /\ journals[save.prep].fp = save.text
      /\ journals[save.prep].entry = "new" /\ journals[save.prep].torn = FALSE
  BY <1>1, FileType DEF StructInv, File, NewJournal
<1>6. /\ p \in Journal /\ p.fp = save.text /\ p.entry = "new" /\ p.torn = FALSE
      /\ p.batches = n /\ p.synced = Len(n) /\ p # NoFile
  <2>1. p \in Journal
    BY <1>3, <1>5 DEF Journal
  <2>. QED  BY <1>5, <2>1, JournalFields DEF Journal
<1>7. /\ files \in [JournalIds -> Journal \cup {NoFile}] /\ files[save.prep] = p
      /\ \A i \in JournalIds \ {save.prep} : files[i] = journals[i]
  BY <1>1, <1>6 DEF StructInv, TypeOK
<1>8. ASSUME NEW i \in JournalIds
      PROVE  /\ journals'[i] \in Journal \cup {NoFile}
             /\ journals'[i] = NoFile <=> files[i] = NoFile
             /\ files[i] # NoFile => /\ journals'[i].fp = files[i].fp
                                     /\ journals'[i].batches = files[i].batches
                                     /\ journals'[i].synced = files[i].synced
                                     /\ journals'[i].torn = files[i].torn
                                     /\ journals'[i].entry = IF files[i].entry = "new"
                                                             THEN "synced" ELSE files[i].entry
  <2>1. CASE files[i] # NoFile /\ files[i].entry = "new"
    <3>1. journals'[i] = [files[i] EXCEPT !.entry = "synced"] /\ files[i] \in Journal
      BY <1>4, <1>7, <2>1 DEF DirSynced
    <3>2. journals'[i] \in Journal
      BY <3>1, JournalChange
    <3>. QED  BY <2>1, <3>1, <3>2, JournalFields DEF Journal
  <2>2. CASE ~(files[i] # NoFile /\ files[i].entry = "new")
    <3>1. journals'[i] = files[i]
      BY <1>4, <2>2 DEF DirSynced
    <3>. QED  BY <1>7, <2>2, <3>1
  <2>. QED  BY <2>1, <2>2
<1>9. journals' \in [JournalIds -> Journal \cup {NoFile}]
  <2>1. journals' = [i \in JournalIds |-> journals'[i]]
    BY <1>4 DEF DirSynced
  <2>. QED  BY <1>8, <2>1
<1>10. \A i \in JournalIds :
          /\ journals'[i] = NoFile <=> journals[i] = NoFile
          /\ File(i) => /\ journals'[i].fp = journals[i].fp
                        /\ journals'[i].entry = "removed" <=> journals[i].entry = "removed"
  <2>. SUFFICES ASSUME NEW i \in JournalIds
                PROVE  /\ journals'[i] = NoFile <=> journals[i] = NoFile
                       /\ journals[i] # NoFile =>
                             /\ journals'[i].fp = journals[i].fp
                             /\ journals'[i].entry = "removed" <=> journals[i].entry = "removed"
    BY DEF File
  <2>1. CASE i = save.prep
    <3>1. /\ files[i] # NoFile /\ files[i].fp = journals[i].fp /\ files[i].entry = "new"
          /\ journals[i] # NoFile /\ journals[i].entry = "new"
      BY <1>1, <1>5, <1>6, <1>7, <2>1
    <3>. HIDE DEF files
    <3>. QED  BY <1>8, <3>1
  <2>2. CASE i # save.prep
    <3>1. files[i] = journals[i]
      BY <1>7, <2>2
    <3>. HIDE DEF files
    <3>. QED  BY <1>8, <3>1
  <2>. QED  BY <2>1, <2>2
<1>11. Candidates' = Candidates /\ BadHeaders' = BadHeaders
  BY <1>10 DEF Candidates, BadHeaders, File
<1>12. /\ save' \in Saves /\ save'.pc = "barrier" /\ save'.target = save.target
       /\ save'.text = save.text /\ save'.prep = save.prep /\ save'.late = save.late
  BY <1>1, <1>4 DEF Saves, SavePhases
<1>13. /\ journals'[save.prep] # NoFile /\ journals'[save.prep].fp = save.text
       /\ journals'[save.prep].batches = n /\ journals'[save.prep].synced = Len(n)
       /\ journals'[save.prep].torn = FALSE /\ journals'[save.prep].entry = "synced"
  BY <1>1, <1>6, <1>7, <1>8
<1>14. \A i \in JournalIds \ {save.prep} :
          /\ journals'[i] = NoFile <=> journals[i] = NoFile
          /\ File(i) => /\ journals'[i].fp = journals[i].fp
                        /\ journals'[i].batches = journals[i].batches
                        /\ journals'[i].synced = journals[i].synced
                        /\ journals'[i].torn = journals[i].torn
                        /\ journals'[i].entry = IF journals[i].entry = "new" THEN "synced"
                                                ELSE journals[i].entry
  BY <1>7, <1>8 DEF File
<1>. QED  BY <1>1, <1>4, <1>9, <1>11, <1>12, <1>13, <1>14

LEMMA SaveFills == ASSUME StructInv, SaveFill PROVE StructInv'
<1>1. /\ save.pc = "fill" /\ save.prep \in JournalIds /\ save.prep # jid
      /\ save.prep \notin retired /\ apply = NoApply
      /\ journals' \in [JournalIds -> Journal \cup {NoFile}]
      /\ journals'[save.prep] # NoFile /\ journals'[save.prep].fp = save.text
      /\ journals'[save.prep].batches = Newer(save.target)
      /\ journals'[save.prep].synced = Len(Newer(save.target))
      /\ journals'[save.prep].torn = FALSE /\ journals'[save.prep].entry = "synced"
      /\ \A i \in JournalIds \ {save.prep} :
            /\ journals'[i] = NoFile <=> journals[i] = NoFile
            /\ File(i) => /\ journals'[i].fp = journals[i].fp
                          /\ journals'[i].batches = journals[i].batches
                          /\ journals'[i].synced = journals[i].synced
                          /\ journals'[i].torn = journals[i].torn
      /\ Candidates' = Candidates /\ BadHeaders' = BadHeaders
      /\ save' \in Saves /\ save'.pc = "barrier" /\ save'.target = save.target
      /\ save'.text = save.text /\ save'.prep = save.prep /\ save'.late = save.late
      /\ UNCHANGED <<base, left, session, apply, retired, ghost, env>>
  BY FillFacts
<1>2. /\ phase = "open" /\ ~fault /\ jid \in JournalIds /\ jid # None /\ save.text # None
      /\ pending \in Seq(Batch) /\ Sound(pending) /\ File(jid)
  BY <1>1, TargetFacts
<1>3. TypeOK'
  BY <1>1, SMTT(20) DEF StructInv, TypeOK, Saves
<1>4. PICK k \in 1..Len(pending) : Splits(k, save.target)
  BY <1>1 DEF StructInv, SaveInv
<1>5. Sound(Newer(save.target)) /\ Len(Newer(save.target)) \in Nat
  BY <1>2, <1>4, NewerFacts
<1>6. FilesInv'
  <2>1. ASSUME NEW i \in JournalIds, journals'[i] # NoFile
        PROVE  /\ Sound(journals'[i].batches) /\ journals'[i].synced <= Len(journals'[i].batches)
               /\ journals'[i].fp = None => journals'[i].batches = <<>>
    <3>1. CASE i = save.prep
      BY <1>1, <1>2, <1>5, <3>1
    <3>2. CASE i # save.prep
      BY <1>1, <2>1, <3>2 DEF StructInv, FilesInv, File
    <3>. QED  BY <3>1, <3>2
  <2>. QED  BY <2>1 DEF FilesInv, File
<1>7. DownInv' /\ ReplayInv'
  BY <1>1, <1>2 DEF DownInv, ReplayInv
<1>8. OpenInv'
  <2>1. /\ journals'[jid] # NoFile /\ journals'[jid].fp = journals[jid].fp
        /\ journals'[jid].batches = journals[jid].batches
        /\ journals'[jid].torn = journals[jid].torn
    BY <1>1, <1>2 DEF File
  <2>. QED  BY <1>1, <1>2, <2>1 DEF StructInv, OpenInv, File, NoApply
<1>9. ApplyInv'
  BY <1>1 DEF ApplyInv, NoApply
<1>10. SaveInv'
  <2>1. PICK t : t = save.target
    OBVIOUS
  <2>2. Newer(t)' = Newer(t) /\ Splits(k, t)'
    BY <1>1, <1>4, <2>1, NewerSame
  <2>3. (\E i \in 1..Len(pending) : Splits(i, save.target))' /\ Newer(save.target)' = Newer(t)
    BY <1>1, <2>1, <2>2
  <2>. QED  BY <1>1, <1>2, <2>1, <2>3 DEF StructInv, SaveInv, File
<1>. QED  BY <1>3, <1>6, <1>7, <1>8, <1>9, <1>10 DEF StructInv

\* A file is removed, or loses its name.
LEMMA RemoveFacts ==
    ASSUME TypeOK, NEW j \in JournalIds,
           \/ journals' = [journals EXCEPT ![j] = NoFile]
           \/ File(j) /\ journals' = [journals EXCEPT ![j] = [journals[j] EXCEPT !.entry = "removed"]]
    PROVE  /\ journals' \in [JournalIds -> Journal \cup {NoFile}]
           /\ \A i \in JournalIds \ {j} : journals'[i] = journals[i]
           /\ Candidates' = Candidates \ {j} /\ BadHeaders' = BadHeaders \ {j}
           /\ journals'[j] # NoFile => /\ journals'[j].batches = journals[j].batches
                                       /\ journals'[j].synced = journals[j].synced
                                       /\ journals'[j].fp = journals[j].fp /\ File(j)
                                       /\ journals'[j].torn = journals[j].torn
<1>1. CASE journals' = [journals EXCEPT ![j] = NoFile]
  BY <1>1, OneFile DEF Candidates, BadHeaders
<1>2. CASE File(j) /\ journals' = [journals EXCEPT ![j] = [journals[j] EXCEPT !.entry = "removed"]]
  <2>. DEFINE r == [journals[j] EXCEPT !.entry = "removed"]
  <2>1. journals[j] \in Journal /\ r \in Journal
    BY <1>2, FileType, JournalChange
  <2>2. /\ r # NoFile /\ r.entry = "removed" /\ r.batches = journals[j].batches
        /\ r.synced = journals[j].synced /\ r.fp = journals[j].fp /\ r.torn = journals[j].torn
    BY <2>1, JournalFields DEF Journal
  <2>3. /\ journals' \in [JournalIds -> Journal \cup {NoFile}] /\ journals'[j] = r
        /\ \A i \in JournalIds \ {j} : journals'[i] = journals[i]
    BY <1>2, <2>1, OneFile
  <2>. QED  BY <1>2, <2>2, <2>3 DEF Candidates, BadHeaders
<1>. QED  BY <1>1, <1>2

LEMMA RemoveFiles ==
    ASSUME FilesInv, NEW j \in JournalIds, \A i \in JournalIds \ {j} : journals'[i] = journals[i],
           journals'[j] # NoFile => /\ journals'[j].batches = journals[j].batches
                                    /\ journals'[j].synced = journals[j].synced
                                    /\ journals'[j].fp = journals[j].fp /\ File(j)
    PROVE  FilesInv'
BY FilesMove DEF FilesInv

\* The counter of failures stays within its bound.
LEMMA FailureCounts ==
    ASSUME TypeOK, FaultsLeft
    PROVE  failures + 1 \in 0..MaxFaults
BY BoundsAssumption, SMTT(20) DEF TypeOK, FaultsLeft

LEMMA LeftFacts ==
    ASSUME TypeOK, NEW c \in Contents, LeaveHeader(c)
    PROVE  left' \in Headers /\ failures' \in 0..MaxFaults
<1>1. left' = [left EXCEPT ![c] = @ + 1] /\ left \in Headers /\ left[c] \in Nat
      /\ FaultsLeft /\ failures' = failures + 1
  BY DEF LeaveHeader, TypeOK, Headers
<1>2. left' \in Headers
  BY <1>1 DEF Headers
<1>. QED  BY <1>1, <1>2, FailureCounts, ZenonT(40)
-----------------------------------------------------------------------------
\* Structure: a new journal is not taken into use

HeaderGone == ApplyHeaderUnsynced \/ ApplyHeaderRemoved

LEMMA GoneFacts ==
    ASSUME StructInv, HeaderGone
    PROVE  /\ apply.pc = "header" /\ apply.file \in JournalIds /\ apply' = NoApply
           /\ journals[apply.file] = NewJournal /\ jid = None /\ phase = "open" /\ save = NoSave
           /\ journals' = [journals EXCEPT ![apply.file] = NoFile]
           /\ left' \in Headers /\ failures' \in 0..MaxFaults
           /\ UNCHANGED <<base, session, save, retired, ghost, volatile, writes>>
<1>1. /\ apply.pc = "header" /\ apply' = NoApply
      /\ journals' = [journals EXCEPT ![apply.file] = NoFile]
      /\ UNCHANGED <<base, session, save, retired, ghost, volatile, writes>>
  BY DEF HeaderGone, ApplyHeaderUnsynced, ApplyHeaderRemoved
<1>2. /\ apply.file \in JournalIds /\ journals[apply.file] = NewJournal /\ jid = None
      /\ phase = "open" /\ fp \in Contents
  BY <1>1 DEF StructInv, ApplyInv, OpenInv
<1>3. left' \in Headers /\ failures' \in 0..MaxFaults
  <2>1. CASE ApplyHeaderUnsynced
    BY <1>2, <2>1, LeftFacts DEF ApplyHeaderUnsynced, StructInv
  <2>2. CASE ApplyHeaderRemoved
    BY <2>2 DEF ApplyHeaderRemoved, StructInv, TypeOK, Headers
  <2>. QED  BY <2>1, <2>2 DEF HeaderGone
<1>4. save = NoSave
  <2>1. save.pc = "idle"
    BY <1>1, <1>2 DEF StructInv, ApplyInv, SaveInv
  <2>. QED  BY <2>1 DEF StructInv, SaveInv
<1>. QED  BY <1>1, <1>2, <1>3, <1>4

LEMMA HeaderGoes == ASSUME StructInv, HeaderGone PROVE StructInv'
<1>1. /\ apply.pc = "header" /\ apply.file \in JournalIds /\ apply' = NoApply
      /\ jid = None /\ phase = "open" /\ save = NoSave
      /\ journals' = [journals EXCEPT ![apply.file] = NoFile]
      /\ left' \in Headers /\ failures' \in 0..MaxFaults
      /\ UNCHANGED <<base, session, save, retired, ghost, volatile, writes>>
  BY GoneFacts
<1>2. /\ journals' \in [JournalIds -> Journal \cup {NoFile}]
      /\ \A i \in JournalIds \ {apply.file} : journals'[i] = journals[i]
      /\ Candidates' = Candidates \ {apply.file} /\ BadHeaders' = BadHeaders \ {apply.file}
      /\ journals'[apply.file] = NoFile
  BY <1>1, RemoveFacts, OneFile DEF StructInv
<1>3. TypeOK'
  BY <1>1, <1>2, IdleTypes, SMTT(20) DEF StructInv, TypeOK, Applies, Headers
<1>4. FilesInv'
  BY <1>1, <1>2, RemoveFiles DEF StructInv
<1>5. DownInv' /\ ReplayInv'
  BY <1>1 DEF DownInv, ReplayInv
<1>6. OpenInv'
  BY <1>1, <1>2 DEF StructInv, OpenInv, File
<1>7. ApplyInv' /\ SaveInv'
  BY <1>1 DEF ApplyInv, SaveInv, NoApply, NoSave
<1>. QED  BY <1>3, <1>4, <1>5, <1>6, <1>7 DEF StructInv
-----------------------------------------------------------------------------
\* Structure: the end of a save

\* The save gives its journal up: it removes it, or its header was not synced.
PreparedGone == SaveDiscard \/ SavePrepareUnsynced

LEMMA PreparedFacts ==
    ASSUME StructInv, PreparedGone
    PROVE  /\ save.pc \in {"prepare", "fill", "barrier"} /\ save' = NoSave
           /\ journals' = [journals EXCEPT ![save.prep] = NoFile]
           /\ left' \in Headers /\ failures' \in 0..MaxFaults
           /\ UNCHANGED <<base, session, apply, retired, ghost, volatile, writes>>
<1>1. CASE SaveDiscard
  BY <1>1 DEF SaveDiscard, StructInv, TypeOK, Headers
<1>2. CASE SavePrepareUnsynced
  <2>1. save.pc = "prepare" /\ save.text \in Contents
    BY <1>2 DEF SavePrepareUnsynced, StructInv, SaveInv
  <2>. QED  BY <1>2, <2>1, LeftFacts DEF SavePrepareUnsynced, StructInv
<1>. QED  BY <1>1, <1>2 DEF PreparedGone

LEMMA SaveDiscards == ASSUME StructInv, PreparedGone PROVE StructInv'
<1>1. /\ save.pc \in {"prepare", "fill", "barrier"} /\ save.prep \in JournalIds /\ save.prep # jid
      /\ save.prep \notin retired /\ apply = NoApply /\ save' = NoSave
      /\ journals' = [journals EXCEPT ![save.prep] = NoFile]
      /\ left' \in Headers /\ failures' \in 0..MaxFaults
      /\ UNCHANGED <<base, session, apply, retired, ghost, volatile, writes>>
  BY PreparedFacts DEF StructInv, SaveInv
<1>2. /\ journals' \in [JournalIds -> Journal \cup {NoFile}]
      /\ \A i \in JournalIds \ {save.prep} : journals'[i] = journals[i]
      /\ Candidates' = Candidates \ {save.prep} /\ BadHeaders' = BadHeaders \ {save.prep}
      /\ journals'[save.prep] = NoFile
  BY <1>1, RemoveFacts, OneFile DEF StructInv
<1>3. /\ phase = "open" /\ ~fault /\ jid \in JournalIds /\ jid # None
  BY <1>1, TargetFacts
<1>4. TypeOK'
  <2>1. save' \in Saves
    BY <1>1, IdleTypes
  <2>. QED  BY <1>1, <1>2, <2>1, ZenonT(40) DEF StructInv, TypeOK, Saves, Headers
<1>5. FilesInv'
  BY <1>1, <1>2, RemoveFiles DEF StructInv
<1>6. DownInv' /\ ReplayInv'
  BY <1>1, <1>3 DEF DownInv, ReplayInv
<1>7. OpenInv'
  <2>1. journals'[jid] = journals[jid] /\ save'.prep = None
    BY <1>1, <1>2, <1>3 DEF NoSave
  <2>. QED  BY <1>1, <1>2, <1>3, <2>1 DEF StructInv, OpenInv, File, NoApply
<1>8. ApplyInv'
  BY <1>1 DEF ApplyInv, NoApply
<1>9. SaveInv'
  BY <1>1 DEF SaveInv, NoSave
<1>. QED  BY <1>4, <1>5, <1>6, <1>7, <1>8, <1>9 DEF StructInv

LEMMA InstallFacts ==
    ASSUME StructInv, SaveInstall
    PROVE  /\ save.pc = "rebind" /\ save.prep \in JournalIds /\ save.prep # None /\ File(save.prep)
           /\ save.prep \notin retired \cup {jid} /\ apply = NoApply
           /\ doc' = save.tree /\ committed' = save.target /\ pending' = Newer(save.target)
           /\ journals[save.prep].batches = Newer(save.target)
           /\ journals[save.prep].fp = save.text /\ journals[save.prep].torn = FALSE
           /\ jid' = save.prep /\ fp' = save.text
           /\ journalBytes' = EndOffset(Newer(save.target)) /\ uncertain' = save.uncertain
           /\ retired' = retired \cup {jid} /\ save' = NoSave
           /\ UNCHANGED <<disk, phase, rev, fault, apply, ghost, env>>
           /\ Newer(save.target) \in Seq(Batch) /\ Sound(Newer(save.target))
           /\ EndOffset(Newer(save.target)) <= journalBytes /\ journalBytes <= MaxJournalBytes
           /\ rev = EndsAt(Newer(save.target), save.target)
           /\ Newer(save.target) # <<>> => Newer(save.target)[1].first = save.target + 1
           /\ save.at = Len(Newer(save.target)) + 1 /\ save.tree \in Contents
<1>1. /\ save.pc = "rebind" /\ save.prep \in JournalIds /\ File(save.prep)
      /\ save.prep \notin retired \cup {jid} /\ apply = NoApply
      /\ doc' = save.tree /\ committed' = save.target
      /\ journals[save.prep].batches = Newer(save.target)
      /\ journals[save.prep].fp = save.text /\ ~journals[save.prep].torn
      /\ jid' = save.prep /\ fp' = save.text /\ uncertain' = save.uncertain
      /\ retired' = retired \cup {jid} /\ save' = NoSave
      /\ UNCHANGED <<disk, phase, rev, fault, apply, ghost, env>> /\ save.tree \in Contents
      /\ save.at \in 1..(Len(journals[save.prep].batches) + 1)
      /\ save.at > Len(journals[save.prep].batches)
  BY DEF SaveInstall, StructInv, SaveInv
<1>2. pending' = Newer(save.target) /\ journalBytes' = EndOffset(Newer(save.target))
  BY <1>1 DEF SaveInstall
<1>3. PICK k \in 1..Len(pending) : Splits(k, save.target)
  BY <1>1 DEF StructInv, SaveInv
<1>4. /\ phase = "open" /\ pending \in Seq(Batch) /\ Sound(pending)
      /\ pending # <<>> /\ rev = EndsAt(pending, committed) /\ jid # None
  BY <1>1, TargetFacts
<1>5. /\ Newer(save.target) \in Seq(Batch) /\ Sound(Newer(save.target))
      /\ EndOffset(Newer(save.target)) <= EndOffset(pending)
      /\ EndsAt(Newer(save.target), save.target) = EndsAt(pending, committed)
      /\ Newer(save.target) # <<>> => Newer(save.target)[1].first = save.target + 1
  BY <1>3, <1>4, NewerFacts
<1>6. journalBytes = EndOffset(pending) /\ journalBytes <= MaxJournalBytes
  BY <1>4 DEF StructInv, OpenInv
<1>7. save.at = Len(Newer(save.target)) + 1
  BY <1>1, <1>5
<1>8. journals[save.prep].torn = FALSE
  BY <1>1, FileType, JournalFields DEF StructInv
<1>. QED  BY <1>1, <1>2, <1>4, <1>5, <1>6, <1>7, <1>8, EffectAssumption

LEMMA SaveInstalls == ASSUME StructInv, SaveInstall PROVE StructInv'
<1>1. /\ save.pc = "rebind" /\ save.prep \in JournalIds /\ save.prep # None /\ File(save.prep)
      /\ save.prep \notin retired \cup {jid} /\ apply = NoApply
      /\ doc' = save.tree /\ committed' = save.target /\ pending' = Newer(save.target)
      /\ journals[save.prep].batches = Newer(save.target)
      /\ journals[save.prep].fp = save.text /\ journals[save.prep].torn = FALSE
      /\ jid' = save.prep /\ fp' = save.text
      /\ journalBytes' = EndOffset(Newer(save.target)) /\ uncertain' = save.uncertain
      /\ retired' = retired \cup {jid} /\ save' = NoSave
      /\ UNCHANGED <<disk, phase, rev, fault, apply, ghost, env>>
      /\ Newer(save.target) \in Seq(Batch) /\ Sound(Newer(save.target))
      /\ EndOffset(Newer(save.target)) <= journalBytes /\ journalBytes <= MaxJournalBytes
      /\ rev = EndsAt(Newer(save.target), save.target)
      /\ Newer(save.target) # <<>> => Newer(save.target)[1].first = save.target + 1
      /\ save.tree \in Contents
  BY InstallFacts
<1>2. /\ phase = "open" /\ ~fault /\ jid \in JournalIds /\ jid # None
      /\ save.target \in Nat /\ save.target <= rev /\ save.text \in Contents
  BY <1>1, TargetFacts
<1>3. journalBytes' \in Nat /\ journalBytes' <= MaxJournalBytes
  BY <1>1, EndOffsetType, BoundsAssumption DEF StructInv, TypeOK
<1>4. TypeOK'
  <2>1. committed' \in Revisions /\ uncertain' \in BOOLEAN
    BY <1>1 DEF StructInv, TypeOK
  <2>. QED  BY <1>1, <1>2, <1>3, <2>1, IdleTypes, SMTT(20) DEF StructInv, TypeOK, Saves
<1>5. FilesInv' /\ DownInv' /\ ReplayInv'
  BY <1>1, <1>2, FilesSame DEF StructInv, DownInv, ReplayInv
<1>6. (Candidates \ BadHeaders)' \subseteq {save.prep} \cup retired'
  BY <1>1, <1>2 DEF StructInv, OpenInv, Candidates, BadHeaders
<1>7. OpenInv'
  <2>1. rev' = EndsAt(pending, committed)' /\ Sound(pending)' /\ journalBytes' = EndOffset(pending)'
        /\ committed' <= rev' /\ apply'.pc = "idle" /\ acked' = rev'
    BY <1>1, <1>2 DEF NoApply, StructInv, OpenInv
  <2>2. /\ journals'[jid'] # NoFile /\ journals'[jid'].fp = fp' /\ ~journals'[jid'].torn
        /\ journals'[jid'].batches = pending'
    BY <1>1 DEF File
  <2>3. doc' \in Contents /\ fp' \in Contents /\ jid' # None /\ ~fault'
        /\ (pending' # <<>> => pending'[1].first = committed' + 1)
    BY <1>1, <1>2
  <2>. QED  BY <1>3, <1>6, <2>1, <2>2, <2>3, <1>1 DEF OpenInv, File
<1>8. ApplyInv'
  BY <1>1 DEF ApplyInv, NoApply
<1>9. SaveInv'
  BY <1>1 DEF SaveInv, NoSave
<1>. QED  BY <1>4, <1>5, <1>7, <1>8, <1>9 DEF StructInv

LEMMA SaveFaults == ASSUME StructInv, SaveFault PROVE StructInv'
<1>1. /\ save.pc \in {"replaced", "rebind"} /\ committed' = save.target
      /\ uncertain' = save.uncertain /\ fault' = TRUE /\ save' = NoSave
      /\ UNCHANGED <<disk, phase, doc, rev, pending, jid, fp, journalBytes,
                     apply, retired, ghost, env>> /\ apply = NoApply
  BY DEF SaveFault, StructInv, SaveInv
<1>2. /\ phase = "open" /\ jid \in JournalIds /\ jid # None /\ pending # <<>>
      /\ save.target \in Nat /\ save.target <= rev
  BY <1>1, TargetFacts
<1>3. TypeOK'
  <2>1. committed' \in Revisions /\ uncertain' \in BOOLEAN
    BY <1>1 DEF StructInv, TypeOK
  <2>. QED  BY <1>1, <2>1, IdleTypes, SMTT(20) DEF StructInv, TypeOK, Saves
<1>4. FilesInv' /\ DownInv' /\ ReplayInv'
  BY <1>1, <1>2, FilesSame DEF StructInv, DownInv, ReplayInv
<1>5. OpenInv'
  <2>1. EndsAt(pending, committed)' = EndsAt(pending, committed)
    BY <1>1, <1>2 DEF EndsAt
  <2>. QED  BY <1>1, <1>2, <2>1 DEF StructInv, OpenInv, File, NoApply
<1>6. ApplyInv'
  BY <1>1 DEF ApplyInv, NoApply
<1>7. SaveInv'
  BY <1>1 DEF SaveInv, NoSave
<1>. QED  BY <1>3, <1>4, <1>5, <1>6, <1>7 DEF StructInv

LEMMA ReleaseFacts ==
    ASSUME StructInv, NEW j \in JournalIds, ReleaseRetired(j)
    PROVE  /\ j \in retired /\ retired' = retired \ {j}
           /\ journals' \in [JournalIds -> Journal \cup {NoFile}]
           /\ \A i \in JournalIds \ {j} : journals'[i] = journals[i]
           /\ Candidates' = Candidates \ {j} /\ BadHeaders' = BadHeaders \ {j}
           /\ journals'[j] # NoFile => /\ journals'[j].batches = journals[j].batches
                                       /\ journals'[j].synced = journals[j].synced
                                       /\ journals'[j].fp = journals[j].fp /\ File(j)
                                       /\ journals'[j].torn = journals[j].torn
           /\ j = jid => journals'[j] # NoFile
           /\ UNCHANGED <<base, left, session, apply, save, ghost, env>>
<1>1. j \in retired /\ retired' = retired \ {j} /\ UNCHANGED <<base, left, session, apply, save, ghost, env>>
  BY DEF ReleaseRetired
<1>2. CASE j = jid
  <2>1. File(j) /\ journals[j] \in Journal
    BY <1>2, EffectAssumption, FileType DEF StructInv, TypeOK, OpenInv, ReplayInv, DownInv
  <2>2. journals' = [journals EXCEPT ![j] = [journals[j] EXCEPT !.entry = "removed"]]
    BY <1>2 DEF ReleaseRetired
  <2>3. [journals[j] EXCEPT !.entry = "removed"] # NoFile
        /\ [journals[j] EXCEPT !.entry = "removed"] \in Journal
    BY <2>1, JournalChange, JournalFields
  <2>4. journals'[j] # NoFile
    BY <2>2, <2>3, OneFile DEF StructInv
  <2>. QED  BY <1>1, <2>1, <2>2, <2>4, RemoveFacts DEF StructInv
<1>3. CASE j # jid
  <2>1. journals' = [journals EXCEPT ![j] = NoFile]
    BY <1>3 DEF ReleaseRetired
  <2>. QED  BY <1>1, <1>3, <2>1, RemoveFacts DEF StructInv
<1>. QED  BY <1>2, <1>3

LEMMA Releases == ASSUME StructInv, NEW j \in JournalIds, ReleaseRetired(j) PROVE StructInv'
<1>1. /\ j \in retired /\ retired' = retired \ {j}
      /\ journals' \in [JournalIds -> Journal \cup {NoFile}]
      /\ \A i \in JournalIds \ {j} : journals'[i] = journals[i]
      /\ Candidates' = Candidates \ {j} /\ BadHeaders' = BadHeaders \ {j}
      /\ journals'[j] # NoFile => /\ journals'[j].batches = journals[j].batches
                                  /\ journals'[j].synced = journals[j].synced
                                  /\ journals'[j].fp = journals[j].fp /\ File(j)
                                  /\ journals'[j].torn = journals[j].torn
      /\ j = jid => journals'[j] # NoFile
      /\ UNCHANGED <<base, left, session, apply, save, ghost, env>>
  BY ReleaseFacts
<1>2. TypeOK'
  BY <1>1 DEF StructInv, TypeOK
<1>3. FilesInv'
  BY <1>1, RemoveFiles DEF StructInv
<1>4. DownInv'
  BY <1>1 DEF StructInv, DownInv
<1>5. jid # None => /\ jid \in JournalIds
                    /\ File(jid) => /\ journals'[jid] # NoFile
                                    /\ journals'[jid].batches = journals[jid].batches
                                    /\ journals'[jid].fp = journals[jid].fp
                                    /\ journals'[jid].torn = journals[jid].torn
  BY <1>1 DEF StructInv, TypeOK, File
<1>6. ReplayInv'
  BY <1>1, <1>5 DEF StructInv, ReplayInv, File
<1>7. OpenInv'
  BY <1>1, <1>5 DEF StructInv, OpenInv, File, NewBatch
<1>8. ApplyInv'
  BY <1>1 DEF StructInv, ApplyInv, CanStage, QuotaAllows
<1>9. SaveInv'
  <2>1. PICK t : t = save.target
    OBVIOUS
  <2>2. Newer(t)' = Newer(t) /\ \A k : Splits(k, t)' <=> Splits(k, t)
    BY <1>1, NewerSame
  <2>3. Newer(save.target)' = Newer(save.target)
        /\ \A k : Splits(k, save.target)' <=> Splits(k, save.target)
    BY <1>1, <2>1, <2>2
  <2>4. save.pc \notin {"idle", "stream"} => journals'[save.prep] = journals[save.prep]
    BY <1>1 DEF StructInv, SaveInv
  <2>. QED  BY <1>1, <2>3, <2>4 DEF StructInv, SaveInv, File
<1>. QED  BY <1>2, <1>3, <1>4, <1>6, <1>7, <1>8, <1>9 DEF StructInv
-----------------------------------------------------------------------------
\* Structure: the end of a Session

LEMMA ForgetInv ==
    Forget => DownInv' /\ ReplayInv' /\ OpenInv' /\ ApplyInv' /\ SaveInv'
BY DEF Forget, DownInv, ReplayInv, OpenInv, ApplyInv, SaveInv, NoApply, NoSave

LEMMA CloseFacts ==
    ASSUME StructInv, CloseSession
    PROVE  /\ phase = "open" /\ save.pc = "idle" /\ save = NoSave /\ apply.pc = "idle" /\ Forget
           /\ UNCHANGED <<base, left, retired, hist, acked, external, aba, env>>
           /\ stray' = (retired # {}) /\ durable' \in Revisions
           /\ journals' \in [JournalIds -> Journal \cup {NoFile}]
           /\ jid = None => journals' = journals /\ durable' = durable
           /\ jid # None =>
                /\ jid \in JournalIds /\ File(jid) /\ journals[jid] \in Journal
                /\ \A i \in JournalIds \ {jid} : journals'[i] = journals[i]
                /\ durable' = IF journals[jid].entry = "synced" THEN acked ELSE durable
                /\ ~Dirty => journals'[jid] = NoFile
                /\ Dirty => /\ journals'[jid] \in Journal /\ journals'[jid] # NoFile
                            /\ journals'[jid].batches = journals[jid].batches
                            /\ journals'[jid].fp = journals[jid].fp
                            /\ journals'[jid].entry = journals[jid].entry
                            /\ journals'[jid].synced = Len(journals[jid].batches)
<1>1. /\ phase = "open" /\ save.pc = "idle" /\ save = NoSave /\ apply.pc = "idle" /\ Forget
      /\ UNCHANGED <<base, left, retired, hist, acked, external, aba, env>>
      /\ stray' = (retired # {})
  BY DEF CloseSession, MuFree, StructInv, SaveInv
<1>2. durable' \in Revisions
  BY DEF CloseSession, StructInv, TypeOK
<1>3. CASE jid = None
  BY <1>1, <1>2, <1>3 DEF CloseSession, StructInv, TypeOK
<1>4. CASE jid # None
  <2>1. jid \in JournalIds /\ File(jid) /\ journals[jid] \in Journal
    BY <1>1, <1>4, FileType DEF StructInv, OpenInv, TypeOK
  <2>2. durable' = IF journals[jid].entry = "synced" THEN acked ELSE durable
    BY <1>4 DEF CloseSession
  <2>3. CASE Dirty
    <3>. DEFINE r == [journals[jid] EXCEPT !.synced = Len(journals[jid].batches)]
    <3>1. journals' = [journals EXCEPT ![jid] = r]
      BY <1>4, <2>3 DEF CloseSession
    <3>2. /\ r \in Journal /\ r.batches = journals[jid].batches /\ r.fp = journals[jid].fp
          /\ r.entry = journals[jid].entry /\ r.synced = Len(journals[jid].batches) /\ r # NoFile
      <4>1. r \in Journal
        BY <2>1, JournalFields, JournalChange
      <4>. QED  BY <2>1, <4>1, JournalFields DEF Journal
    <3>. HIDE DEF r
    <3>3. journals' \in [JournalIds -> Journal \cup {NoFile}] /\ journals'[jid] = r
          /\ \A i \in JournalIds \ {jid} : journals'[i] = journals[i]
      BY <2>1, <3>1, <3>2, OneFile DEF StructInv
    <3>. QED  BY <1>1, <1>2, <1>4, <2>1, <2>2, <2>3, <3>2, <3>3
  <2>4. CASE ~Dirty
    <3>1. journals' = [journals EXCEPT ![jid] = NoFile]
      BY <1>4, <2>4 DEF CloseSession
    <3>2. journals' \in [JournalIds -> Journal \cup {NoFile}] /\ journals'[jid] = NoFile
          /\ \A i \in JournalIds \ {jid} : journals'[i] = journals[i]
      BY <2>1, <3>1, OneFile DEF StructInv
    <3>. QED  BY <1>1, <1>2, <1>4, <2>1, <2>2, <2>4, <3>2
  <2>. QED  BY <2>3, <2>4
<1>. QED  BY <1>3, <1>4

LEMMA Closes == ASSUME StructInv, CloseSession PROVE StructInv'
<1>1. /\ Forget /\ UNCHANGED <<base, left, retired, hist, acked, external, aba, env>>
      /\ stray' \in BOOLEAN /\ durable' \in Revisions
      /\ journals' \in [JournalIds -> Journal \cup {NoFile}]
  BY CloseFacts
<1>2. FilesInv'
  <2>1. CASE jid = None
    BY <2>1, CloseFacts, FilesSame DEF StructInv
  <2>2. CASE jid # None
    <3>1. /\ jid \in JournalIds /\ File(jid) /\ journals[jid] \in Journal
          /\ \A i \in JournalIds \ {jid} : journals'[i] = journals[i]
          /\ journals'[jid] # NoFile => /\ journals'[jid].batches = journals[jid].batches
                                        /\ journals'[jid].fp = journals[jid].fp
                                        /\ journals'[jid].synced = Len(journals[jid].batches)
      BY <2>2, CloseFacts
    <3>2. journals'[jid] # NoFile =>
             /\ Sound(journals'[jid].batches)
             /\ journals'[jid].synced <= Len(journals'[jid].batches)
             /\ journals'[jid].fp = None => journals'[jid].batches = <<>>
      BY <3>1, JournalFields DEF StructInv, FilesInv
    <3>. QED  BY <3>1, <3>2, FilesMove DEF StructInv
  <2>. QED  BY <2>1, <2>2
<1>3. TypeOK'
  <2>1. base' \in Contents /\ retired' \subseteq JournalIds /\ hist' = hist /\ acked' \in Revisions
        /\ failures' \in 0..MaxFaults /\ writes' \in 0..MaxExternal /\ left' \in Headers
        /\ {external', aba', stray', volatile'} \subseteq BOOLEAN
    BY <1>1 DEF StructInv, TypeOK, Headers
  <2>. QED  BY <1>1, <2>1, ForgetType DEF StructInv
<1>. QED  BY <1>1, <1>2, <1>3, ForgetInv DEF StructInv

LEMMA ExitFacts ==
    ASSUME StructInv, ProcessExit
    PROVE  /\ phase # "down" /\ FaultsLeft /\ retired' = {} /\ failures' = failures + 1 /\ Forget
           /\ volatile' = (volatile \/ save.pc = "renamed") /\ UNCHANGED <<base, left, ghost, writes>>
           /\ journals' \in [JournalIds -> Journal \cup {NoFile}]
           /\ \A j \in JournalIds :
                 /\ journals'[j] = NoFile <=> journals[j] = NoFile
                 /\ File(j) => /\ journals'[j].fp = journals[j].fp
                               /\ journals'[j].batches = journals[j].batches
                               /\ journals'[j].synced = journals[j].synced
                               /\ journals'[j].entry = journals[j].entry
           /\ Candidates' = Candidates /\ BadHeaders' = BadHeaders
<1>1. /\ phase # "down" /\ FaultsLeft /\ retired' = {} /\ failures' = failures + 1 /\ Forget
      /\ volatile' = (volatile \/ save.pc = "renamed") /\ UNCHANGED <<base, left, ghost, writes>>
  BY DEF ProcessExit
<1>2. /\ journals' \in [JournalIds -> Journal \cup {NoFile}]
      /\ \A j \in JournalIds :
            /\ journals'[j] = NoFile <=> journals[j] = NoFile
            /\ File(j) => /\ journals'[j].fp = journals[j].fp
                          /\ journals'[j].batches = journals[j].batches
                          /\ journals'[j].synced = journals[j].synced
                          /\ journals'[j].entry = journals[j].entry
  <2>1. CASE apply.pc = "append"
    <3>1. PICK t \in BOOLEAN : journals' = [journals EXCEPT ![jid].torn = (@ \/ t)]
      BY <2>1 DEF ProcessExit
    <3>2. jid \in JournalIds /\ File(jid) /\ journals[jid] \in Journal
      BY <2>1, NewBatchFacts, FileType DEF StructInv
    <3>3. PICK x \in BOOLEAN : x = (journals[jid].torn \/ t)
      BY <3>1, <3>2, JournalFields
    <3>4. journals' = [journals EXCEPT ![jid] = [journals[jid] EXCEPT !.torn = x]]
      BY <3>1, <3>2, <3>3 DEF StructInv, TypeOK
    <3>. DEFINE r == [journals[jid] EXCEPT !.torn = x]
    <3>5. r \in Journal /\ r.fp = journals[jid].fp /\ r.batches = journals[jid].batches
          /\ r.synced = journals[jid].synced /\ r.entry = journals[jid].entry /\ r # NoFile
      BY <3>2, <3>3, JournalChange, JournalFields DEF Journal
    <3>. HIDE DEF r
    <3>6. /\ journals' \in [JournalIds -> Journal \cup {NoFile}] /\ journals'[jid] = r
          /\ \A i \in JournalIds \ {jid} : journals'[i] = journals[i]
      BY <3>2, <3>4, <3>5, OneFile DEF StructInv, r
    <3>. QED  BY <3>2, <3>5, <3>6 DEF File
  <2>2. CASE apply.pc # "append"
    BY <2>2 DEF ProcessExit, StructInv, TypeOK
  <2>. QED  BY <2>1, <2>2
<1>3. Candidates' = Candidates
  BY <1>2 DEF Candidates, File
<1>4. BadHeaders' = BadHeaders
  BY <1>2, <1>3 DEF BadHeaders, Candidates, File
<1>. QED  BY <1>1, <1>2, <1>3, <1>4

LEMMA Exits == ASSUME StructInv, ProcessExit PROVE StructInv'
<1>1. /\ FaultsLeft /\ retired' = {} /\ failures' = failures + 1 /\ Forget
      /\ volatile' \in BOOLEAN /\ UNCHANGED <<base, left, ghost, writes>>
      /\ journals' \in [JournalIds -> Journal \cup {NoFile}]
      /\ \A j \in JournalIds :
            /\ journals'[j] = NoFile <=> journals[j] = NoFile
            /\ File(j) => /\ journals'[j].fp = journals[j].fp
                          /\ journals'[j].batches = journals[j].batches
                          /\ journals'[j].synced = journals[j].synced
  BY ExitFacts
<1>2. FilesInv'
  BY <1>1 DEF StructInv, FilesInv, File
<1>3. TypeOK'
  <2>1. base' \in Contents /\ left' \in Headers /\ hist' = hist /\ acked' \in Revisions /\ durable' \in Revisions
        /\ writes' \in 0..MaxExternal /\ {external', aba', stray', volatile'} \subseteq BOOLEAN
    BY <1>1 DEF StructInv, TypeOK, Headers
  <2>2. failures' \in 0..MaxFaults /\ retired' \subseteq JournalIds
    BY <1>1, FailureCounts, SMTT(40) DEF StructInv
  <2>. QED  BY <1>1, <2>1, <2>2, ForgetType DEF StructInv
<1>. QED  BY <1>1, <1>2, <1>3, ForgetInv DEF StructInv

LEMMA LossFacts ==
    ASSUME StructInv, PowerLoss
    PROVE  /\ FaultsLeft /\ ~volatile /\ Forget /\ retired' = {} /\ failures' = failures + 1
           /\ UNCHANGED <<hist, external, aba, volatile, writes>>
           /\ base' \in Contents
           /\ base' = base \/ (save.pc = "renamed" /\ base' = fp)
           /\ acked' = IF save.pc = "renamed" /\ base' = save.text THEN acked ELSE durable
           /\ durable' = acked' /\ stray' \in BOOLEAN /\ (stray => stray')
           /\ journals' \in [JournalIds -> Journal \cup {NoFile}]
           /\ \A j \in JournalIds : journals'[j] # NoFile =>
                 /\ j \in Candidates /\ j \in Candidates'
                 /\ journals'[j].fp = journals[j].fp /\ journals'[j].entry = "synced"
                 /\ \E n \in 0..Len(journals[j].batches) :
                       /\ n >= journals[j].synced /\ journals'[j].synced = n
                       /\ journals'[j].batches = SubSeq(journals[j].batches, 1, n)
           /\ \A j \in Candidates :
                 journals'[j] = NoFile => journals[j].entry = "new" /\ stray'
<1>1. PICK keep \in [Candidates -> 0..MaxRevision],
           gone \in SUBSET {j \in Candidates : journals[j].entry = "new"} :
         /\ \A j \in Candidates : keep[j] \in journals[j].synced..Len(journals[j].batches)
         /\ journals' = [j \in JournalIds |->
               IF j \notin Candidates \/ j \in gone THEN NoFile
               ELSE [journals[j] EXCEPT
                       !.batches = SubSeq(@, 1, keep[j]),
                       !.torn = @ \/ keep[j] < Len(journals[j].batches),
                       !.synced = keep[j], !.entry = "synced"]]
         /\ stray' = (stray \/ gone # {})
  BY DEF PowerLoss
<1>2. /\ FaultsLeft /\ ~volatile /\ Forget /\ retired' = {} /\ failures' = failures + 1
      /\ UNCHANGED <<hist, external, aba, volatile, writes>>
      /\ base' \in IF save.pc = "renamed" THEN {base, fp} ELSE {base}
      /\ acked' = IF save.pc = "renamed" /\ base' = save.text THEN acked ELSE durable
      /\ durable' = acked'
  BY DEF PowerLoss
<1>3. base' \in Contents /\ (base' = base \/ (save.pc = "renamed" /\ base' = fp))
  <2>1. save.pc = "renamed" => fp \in Contents
    BY DEF StructInv, SaveInv, OpenInv
  <2>2. base \in Contents
    BY DEF StructInv, TypeOK
  <2>3. CASE save.pc = "renamed"
    BY <1>2, <2>1, <2>2, <2>3
  <2>4. CASE save.pc # "renamed"
    <3>1. base' \in {base}
      BY <1>2, <2>4
    <3>. QED  BY <2>2, <3>1
  <2>. QED  BY <2>3, <2>4
<1>4. ASSUME NEW j \in Candidates \ gone
      PROVE  /\ journals'[j] \in Journal /\ journals'[j] # NoFile
             /\ journals'[j].fp = journals[j].fp /\ journals'[j].entry = "synced"
             /\ \E n \in 0..Len(journals[j].batches) :
                   /\ n >= journals[j].synced /\ journals'[j].synced = n
                   /\ journals'[j].batches = SubSeq(journals[j].batches, 1, n)
  <2>1. /\ j \in JournalIds /\ journals[j] \in Journal /\ Sound(journals[j].batches)
        /\ journals[j].synced \in Nat /\ journals[j].batches \in Seq(Batch)
        /\ Len(journals[j].batches) \in Nat
    BY FileType, JournalFields DEF Candidates, File, StructInv, FilesInv
  <2>2. PICK n : n = keep[j] /\ n \in 0..Len(journals[j].batches) /\ n >= journals[j].synced
    <3>1. keep[j] \in journals[j].synced..Len(journals[j].batches)
      BY <1>1
    <3>2. keep[j] \in 0..Len(journals[j].batches) /\ keep[j] >= journals[j].synced
      BY <2>1, <3>1
    <3>. QED  BY <3>2
  <2>3. PICK x \in BOOLEAN : x = (journals[j].torn \/ n < Len(journals[j].batches))
    BY <2>1, JournalFields
  <2>4. PICK b : b = SubSeq(journals[j].batches, 1, n) /\ b \in Seq(Batch)
    BY <2>1, <2>2, SoundPrefix
  <2>5. journals'[j] = [journals[j] EXCEPT !.batches = b, !.torn = x, !.synced = n,
                                           !.entry = "synced"]
    <3>1. journals'[j] = [journals[j] EXCEPT
                       !.batches = SubSeq(@, 1, keep[j]),
                       !.torn = @ \/ keep[j] < Len(journals[j].batches),
                       !.synced = keep[j], !.entry = "synced"]
      BY <1>1, <2>1
    <3>2. CASE x = TRUE
      <4>1. (journals[j].torn \/ keep[j] < Len(journals[j].batches)) = TRUE
        BY <2>2, <2>3, <3>2
      <4>. QED  BY <2>2, <2>4, <3>1, <3>2, <4>1
    <3>3. CASE x = FALSE
      <4>1. (journals[j].torn \/ keep[j] < Len(journals[j].batches)) = FALSE
        BY <2>2, <2>3, <3>3
      <4>. QED  BY <2>2, <2>4, <3>1, <3>3, <4>1
    <3>. QED  BY <2>3, <3>2, <3>3
  <2>6. n \in Nat
    BY <2>1, <2>2
  <2>7. /\ journals'[j] \in Journal /\ journals'[j].batches = b /\ journals'[j].synced = n
        /\ journals'[j].fp = journals[j].fp /\ journals'[j].entry = "synced"
    BY <2>1, <2>3, <2>4, <2>5, <2>6 DEF Journal
  <2>. QED  BY <2>2, <2>4, <2>7, JournalFields
<1>5. \A j \in JournalIds : j \notin Candidates \/ j \in gone => journals'[j] = NoFile
  BY <1>1
<1>6. journals' \in [JournalIds -> Journal \cup {NoFile}]
  <2>. DEFINE F(j) == IF j \notin Candidates \/ j \in gone THEN NoFile
                      ELSE [journals[j] EXCEPT
                              !.batches = SubSeq(@, 1, keep[j]),
                              !.torn = @ \/ keep[j] < Len(journals[j].batches),
                              !.synced = keep[j], !.entry = "synced"]
  <2>0. journals' = [j \in JournalIds |-> F(j)]
    BY <1>1
  <2>. HIDE DEF F
  <2>1. DOMAIN journals' = JournalIds /\ journals' = [j \in JournalIds |-> journals'[j]]
    BY <2>0
  <2>2. \A j \in JournalIds : journals'[j] \in Journal \cup {NoFile}
    BY <1>4, <1>5
  <2>. QED  BY <2>1, <2>2
<1>7. \A j \in JournalIds : journals'[j] # NoFile => j \in Candidates'
  BY <1>4, <1>5 DEF Candidates
<1>8. stray' \in BOOLEAN /\ (stray => stray') /\ (gone # {} => stray')
  BY <1>1
<1>9. ASSUME NEW j \in JournalIds, journals'[j] # NoFile
      PROVE  /\ j \in Candidates /\ j \in Candidates'
             /\ journals'[j].fp = journals[j].fp /\ journals'[j].entry = "synced"
             /\ \E n \in 0..Len(journals[j].batches) :
                   /\ n >= journals[j].synced /\ journals'[j].synced = n
                   /\ journals'[j].batches = SubSeq(journals[j].batches, 1, n)
  BY <1>4, <1>5, <1>7, <1>9, SMTT(40)
<1>10. ASSUME NEW j \in Candidates, journals'[j] = NoFile
       PROVE  journals[j].entry = "new" /\ stray'
  BY <1>1, <1>4, <1>8, <1>10 DEF Candidates
<1>. QED  BY <1>1, <1>2, <1>3, <1>6, <1>8, <1>9, <1>10, ZenonT(40)

LEMMA Losses == ASSUME StructInv, PowerLoss PROVE StructInv'
<1>1. /\ FaultsLeft /\ Forget /\ retired' = {} /\ failures' = failures + 1
      /\ UNCHANGED <<hist, external, aba, volatile, writes>>
      /\ base' \in Contents
      /\ acked' = IF save.pc = "renamed" /\ base' = save.text THEN acked ELSE durable
      /\ durable' = acked' /\ stray' \in BOOLEAN
      /\ journals' \in [JournalIds -> Journal \cup {NoFile}]
      /\ \A j \in JournalIds : journals'[j] # NoFile =>
            /\ j \in Candidates
            /\ journals'[j].fp = journals[j].fp
            /\ \E n \in 0..Len(journals[j].batches) :
                  /\ journals'[j].synced = n
                  /\ journals'[j].batches = SubSeq(journals[j].batches, 1, n)
  BY LossFacts
<1>2. FilesInv'
  <2>. SUFFICES ASSUME NEW j \in JournalIds, journals'[j] # NoFile
                PROVE  /\ Sound(journals'[j].batches)
                       /\ journals'[j].synced <= Len(journals'[j].batches)
                       /\ journals'[j].fp = None => journals'[j].batches = <<>>
    BY DEF FilesInv, File
  <2>1. /\ journals[j] \in Journal /\ Sound(journals[j].batches)
        /\ journals[j].batches \in Seq(Batch)
        /\ journals[j].fp = None => journals[j].batches = <<>>
    BY <1>1, FileType, JournalFields DEF Candidates, File, StructInv, FilesInv
  <2>2. PICK n \in 0..Len(journals[j].batches) :
           journals'[j].synced = n /\ journals'[j].batches = SubSeq(journals[j].batches, 1, n)
    BY <1>1
  <2>3. Sound(journals'[j].batches) /\ Len(journals'[j].batches) = n /\ n \in Nat
        /\ n <= Len(journals[j].batches)
        /\ journals'[j].batches \in Seq(Batch)
    BY <2>1, <2>2, SoundPrefix
  <2>4. journals[j].batches = <<>> => journals'[j].batches = <<>>
    BY <2>2, <2>3
  <2>. QED  BY <1>1, <2>1, <2>2, <2>3, <2>4
<1>3. TypeOK'
  <2>3. left' \in Headers
    <3>1. left' \in [Contents -> 0..MaxFaults]
      BY DEF PowerLoss
    <3>. QED  BY <3>1, BoundsAssumption DEF Headers
  <2>1. hist' = hist /\ acked' \in Revisions /\ durable' \in Revisions
        /\ writes' \in 0..MaxExternal /\ {external', aba', stray', volatile'} \subseteq BOOLEAN
    BY <1>1 DEF StructInv, TypeOK
  <2>2. failures' \in 0..MaxFaults /\ retired' \subseteq JournalIds
    BY <1>1, FailureCounts DEF StructInv
  <2>. QED  BY <1>1, <2>1, <2>2, <2>3, ForgetType DEF StructInv
<1>. QED  BY <1>1, <1>2, <1>3, ForgetInv DEF StructInv
-----------------------------------------------------------------------------
\* Structure: Open

LEMMA QuarantineFacts ==
    ASSUME StructInv, NEW S, Quarantine(S)
    PROVE  /\ journals' \in [JournalIds -> Journal \cup {NoFile}] /\ FilesInv'
           /\ \A j \in JournalIds : journals'[j] = IF j \in S THEN NoFile ELSE journals[j]
           /\ Candidates' = Candidates \ S /\ BadHeaders' = BadHeaders \ S
<1>1. \A j \in JournalIds : journals'[j] = IF j \in S THEN NoFile ELSE journals[j]
  BY DEF Quarantine
<1>2. journals' \in [JournalIds -> Journal \cup {NoFile}]
  BY DEF Quarantine, StructInv, TypeOK
<1>3. Candidates' = Candidates \ S
  BY <1>1 DEF Candidates
<1>4. BadHeaders' = BadHeaders \ S
  BY <1>1, <1>3 DEF BadHeaders, Candidates
<1>5. FilesInv'
  BY <1>1 DEF StructInv, FilesInv, File
<1>. QED  BY <1>1, <1>2, <1>3, <1>4, <1>5

LEMMA LineageTypes ==
    ASSUME StructInv, StartLineage
    PROVE  hist' \in Histories /\ acked' \in Revisions /\ durable' \in Revisions
           /\ hist'[0] = base /\ \A r \in Revisions \ {0} : hist'[r] = None
<1>1. hist' = [r \in Revisions |-> IF r = 0 THEN base ELSE None] /\ acked' = 0 /\ durable' = 0
  BY DEF StartLineage
<1>2. base \in Contents /\ 0 \in Revisions
  BY IdleTypes DEF StructInv, TypeOK
<1>. QED  BY <1>1, <1>2 DEF Histories

LEMMA NoHeadersType == NoHeaders \in Headers /\ \A c \in Contents : NoHeaders[c] = 0
BY DEF NoHeaders, Headers

\* Nothing of a transaction or of a save outlives its Session.
LEMMA Quiet ==
    ASSUME StructInv, phase # "open"
    PROVE  apply = NoApply /\ save = NoSave
BY DEF StructInv, ApplyInv, SaveInv

LEMMA QuietInv ==
    (apply' = NoApply => ApplyInv') /\ (save' = NoSave => SaveInv')
BY DEF ApplyInv, SaveInv, NoApply, NoSave

\* Every journal is given up.
GivesUp == OpenMismatch \/ OpenFails

LEMMA GivesUpFacts ==
    ASSUME GivesUp
    PROVE  phase = "down" /\ GiveUp /\ BadHeaders = {}
BY DEF GivesUp, OpenMismatch, OpenFails

LEMMA Refuses ==
    ASSUME StructInv, OpenBadHeader \/ OpenAmbiguous \/ GivesUp
    PROVE  StructInv'
<1>1. phase = "down" /\ UNCHANGED <<base, session, apply, save, retired, env>>
  BY GivesUpFacts DEF OpenBadHeader, OpenAmbiguous, GiveUp
<1>2. journals' \in [JournalIds -> Journal \cup {NoFile}] /\ FilesInv'
  BY GivesUpFacts, QuarantineFacts DEF OpenBadHeader, OpenAmbiguous, GiveUp
<1>3. /\ hist' \in Histories /\ acked' \in Revisions /\ durable' \in Revisions
      /\ {external', aba', stray', volatile'} \subseteq BOOLEAN /\ left' \in Headers
  <2>1. CASE OpenBadHeader
    BY <2>1 DEF OpenBadHeader, StructInv, TypeOK, Histories, Headers
  <2>2. CASE OpenAmbiguous
    <3>1. /\ StartLineage /\ stray' = TRUE /\ left' = [left EXCEPT ![base] = 0]
          /\ UNCHANGED <<external, aba, volatile>>
      BY <2>2 DEF OpenAmbiguous
    <3>2. left' \in Headers
      BY <3>1 DEF StructInv, TypeOK, Headers
    <3>. QED  BY <3>1, <3>2, LineageTypes DEF StructInv, TypeOK
  <2>3. CASE GivesUp
    <3>1. /\ StartLineage /\ external' = FALSE /\ aba' = FALSE /\ stray' = FALSE
          /\ volatile' = volatile /\ left' = NoHeaders
      BY <2>3, GivesUpFacts DEF GiveUp
    <3>. QED  BY <3>1, LineageTypes, NoHeadersType DEF StructInv, TypeOK
  <2>. QED  BY <2>1, <2>2, <2>3
<1>4. TypeOK'
  BY <1>1, <1>2, <1>3, SMTT(20) DEF StructInv, TypeOK, Histories, Headers
<1>5. DownInv' /\ ReplayInv' /\ OpenInv'
  BY <1>1 DEF StructInv, DownInv, ReplayInv, OpenInv
<1>6. ApplyInv' /\ SaveInv'
  BY <1>1, Quiet, QuietInv
<1>. QED  BY <1>2, <1>4, <1>5, <1>6 DEF StructInv

LEMMA OpensFresh == ASSUME StructInv, OpenFresh PROVE StructInv'
<1>1. /\ phase = "down" /\ Candidates = {} /\ phase' = "open" /\ doc' = base /\ fp' = base
      /\ StartLineage /\ external' = FALSE /\ aba' = FALSE /\ stray' = FALSE
      /\ UNCHANGED <<disk, rev, committed, pending, jid, journalBytes, fault,
                     uncertain, apply, save, retired, env>>
  BY DEF OpenFresh
<1>2. /\ rev = 0 /\ committed = 0 /\ pending = <<>> /\ jid = None /\ fault = FALSE
      /\ apply = NoApply /\ save = NoSave /\ base \in Contents
  BY <1>1, Quiet DEF StructInv, DownInv, TypeOK
<1>3. TypeOK'
  <2>1. {external', aba', stray', volatile'} \subseteq BOOLEAN
    BY <1>1 DEF StructInv, TypeOK
  <2>2. hist' \in Histories /\ acked' \in Revisions /\ durable' \in Revisions
    BY <1>1, LineageTypes
  <2>. QED  BY <1>1, <1>2, <2>1, <2>2 DEF StructInv, TypeOK, Histories
<1>4. FilesInv' /\ DownInv' /\ ReplayInv'
  BY <1>1, FilesSame DEF StructInv, DownInv, ReplayInv
<1>5. OpenInv'
  <2>1. Sound(pending)' /\ rev' = EndsAt(pending, committed)' /\ committed' <= rev'
    BY <1>1, <1>2, SoundEmpty DEF EndsAt
  <2>2. Candidates' = {} /\ acked' = 0
    BY <1>1 DEF Candidates, StartLineage
  <2>. QED  BY <1>1, <1>2, <2>1, <2>2 DEF OpenInv
<1>6. ApplyInv' /\ SaveInv'
  BY <1>1, <1>2, QuietInv
<1>. QED  BY <1>3, <1>4, <1>5, <1>6 DEF StructInv

\* A header that was left becomes the journal of the Session.
LEMMA AdoptFacts ==
    ASSUME StructInv, OpenAdopt
    PROVE  \E j \in JournalIds :
             /\ phase = "down" /\ BadHeaders = {} /\ Matching = {} /\ jid' = j /\ Free(j)
             /\ phase' = "open" /\ doc' = base /\ fp' = base /\ base \in Contents
             /\ journals' \in [JournalIds -> Journal \cup {NoFile}] /\ FilesInv'
             /\ journals'[j] = [NewJournal EXCEPT !.fp = base] /\ journals'[j] \in Journal
             /\ journals'[j].fp = base /\ journals'[j].batches = <<>> /\ ~journals'[j].torn
             /\ \A i \in JournalIds \ {j} :
                   journals'[i] = IF i \in Candidates THEN NoFile ELSE journals[i]
             /\ Candidates' = {j} /\ BadHeaders' = {} /\ journalBytes' = HeaderBytes
             /\ StartLineage /\ stray' = FALSE /\ left' = NoHeaders
             /\ rev = 0 /\ committed = 0 /\ pending = <<>> /\ fault = FALSE /\ uncertain = FALSE
             /\ apply = NoApply /\ save = NoSave
             /\ UNCHANGED <<base, rev, committed, pending, fault, uncertain, apply, save,
                            retired, external, aba, env>>
<1>1. /\ phase = "down" /\ BadHeaders = {} /\ Matching = {} /\ left' = NoHeaders
      /\ phase' = "open" /\ doc' = base /\ fp' = base /\ journalBytes' = HeaderBytes
      /\ StartLineage /\ stray' = FALSE
      /\ UNCHANGED <<base, rev, committed, pending, fault, uncertain, apply, save,
                     retired, external, aba, env>>
  BY DEF OpenAdopt
<1>2. PICK j \in JournalIds :
        /\ Free(j) /\ jid' = j
        /\ journals' = [i \in JournalIds |->
              IF i = j THEN [NewJournal EXCEPT !.fp = base]
              ELSE IF i \in Candidates THEN NoFile ELSE journals[i]]
  BY DEF OpenAdopt
<1>. DEFINE f == [NewJournal EXCEPT !.fp = base]
<1>3. base \in Contents /\ base # None
  BY EffectAssumption DEF StructInv, TypeOK
<1>4. /\ f \in Journal /\ f.fp = base /\ f.batches = <<>> /\ ~f.torn /\ f.entry = "new"
      /\ f.synced = 0 /\ f # NoFile
  <2>1. f \in Journal
    BY <1>3, NewJournalType, JournalChange
  <2>2. f.fp = base /\ f.batches = <<>> /\ ~f.torn /\ f.entry = "new" /\ f.synced = 0
    BY DEF NewJournal
  <2>. QED  BY <2>1, <2>2, JournalFields
<1>. HIDE DEF f
<1>5. /\ journals'[j] = f /\ journals' \in [JournalIds -> Journal \cup {NoFile}]
      /\ \A i \in JournalIds \ {j} :
            journals'[i] = IF i \in Candidates THEN NoFile ELSE journals[i]
  BY <1>2, <1>4 DEF StructInv, TypeOK, f
<1>6. Candidates' = {j}
  BY <1>4, <1>5 DEF Candidates
<1>7. BadHeaders' = {}
  BY <1>3, <1>4, <1>5, <1>6 DEF BadHeaders
<1>8. FilesInv'
  <2>. SUFFICES ASSUME NEW i \in JournalIds, journals'[i] # NoFile
                PROVE  /\ Sound(journals'[i].batches)
                       /\ journals'[i].synced <= Len(journals'[i].batches)
                       /\ journals'[i].fp = None => journals'[i].batches = <<>>
    BY DEF FilesInv, File
  <2>1. CASE i = j
    BY <1>3, <1>4, <1>5, <2>1, SoundEmpty
  <2>2. CASE i # j
    <3>1. journals'[i] = journals[i] /\ File(i)
      BY <1>5, <2>2 DEF File
    <3>. QED  BY <3>1 DEF StructInv, FilesInv
  <2>. QED  BY <2>1, <2>2
<1>9. /\ rev = 0 /\ committed = 0 /\ pending = <<>> /\ fault = FALSE /\ uncertain = FALSE
      /\ apply = NoApply /\ save = NoSave
  BY <1>1, Quiet DEF StructInv, DownInv
<1>. QED  BY <1>1, <1>2, <1>3, <1>4, <1>5, <1>6, <1>7, <1>8, <1>9 DEF f

LEMMA OpensAdopt == ASSUME StructInv, OpenAdopt PROVE StructInv'
<1>1. PICK j \in JournalIds :
         /\ jid' = j /\ phase' = "open" /\ doc' = base /\ fp' = base /\ base \in Contents
         /\ journals' \in [JournalIds -> Journal \cup {NoFile}] /\ FilesInv'
         /\ journals'[j] \in Journal
         /\ journals'[j].fp = base /\ journals'[j].batches = <<>> /\ ~journals'[j].torn
         /\ Candidates' = {j} /\ BadHeaders' = {} /\ journalBytes' = HeaderBytes
         /\ StartLineage /\ stray' = FALSE /\ left' = NoHeaders
         /\ rev = 0 /\ committed = 0 /\ pending = <<>> /\ fault = FALSE
         /\ apply = NoApply /\ save = NoSave
         /\ UNCHANGED <<base, rev, committed, pending, fault, uncertain, apply, save,
                        retired, external, aba, env>>
  BY AdoptFacts
<1>2. j # None /\ journals'[j] # NoFile
  BY <1>1, EffectAssumption, JournalFields
<1>3. TypeOK'
  <2>1. {external', aba', stray', volatile'} \subseteq BOOLEAN
    BY <1>1 DEF StructInv, TypeOK
  <2>2. /\ hist' \in Histories /\ acked' \in Revisions /\ durable' \in Revisions
        /\ left' \in Headers /\ journalBytes' \in Nat
    BY <1>1, LineageTypes, NoHeadersType, BoundsAssumption
  <2>. QED  BY <1>1, <2>1, <2>2, SMTT(20) DEF StructInv, TypeOK, Histories, Headers
<1>4. DownInv' /\ ReplayInv'
  BY <1>1 DEF DownInv, ReplayInv
<1>5. OpenInv'
  <2>1. /\ Sound(pending)' /\ rev' = EndsAt(pending, committed)' /\ committed' <= rev'
        /\ journalBytes' = EndOffset(pending)' /\ acked' = 0
    BY <1>1, SoundEmpty DEF EndsAt, EndOffset, StartLineage
  <2>2. apply'.pc = "idle"
    BY <1>1 DEF NoApply
  <2>. QED  BY <1>1, <1>2, <2>1, <2>2 DEF OpenInv, File
<1>6. ApplyInv' /\ SaveInv'
  BY <1>1, QuietInv
<1>. QED  BY <1>1, <1>3, <1>4, <1>5, <1>6 DEF StructInv

LEMMA MatchFacts ==
    ASSUME StructInv, OpenMatching
    PROVE  \E j \in JournalIds :
             LET b == journals[j].batches
                 start == IF b = <<>> THEN 0 ELSE b[1].first - 1
             IN  /\ phase = "down" /\ BadHeaders = {} /\ Matching = {j} /\ jid' = j /\ j \in Candidates
                 /\ journals' \in [JournalIds -> Journal \cup {NoFile}] /\ FilesInv'
                 /\ \A i \in JournalIds : journals'[i] = IF i \in Candidates \ {j} THEN NoFile
                                                         ELSE journals[i]
                 /\ Candidates' = {j} /\ BadHeaders' = {} /\ File(j) /\ journals[j] \in Journal
                 /\ b \in Seq(Batch) /\ Sound(b) /\ journals[j].fp = base /\ base \in Contents
                 /\ committed' = start /\ rev' = start /\ start \in Revisions
                 /\ start \in Nat /\ start = IF b = <<>> THEN 0 ELSE b[1].first - 1
                 /\ phase' = "replay" /\ doc' = base /\ fp' = base
                 /\ pending = <<>> /\ fault = FALSE /\ uncertain = FALSE
                 /\ apply = NoApply /\ save = NoSave
                 /\ left' = NoHeaders
                 /\ UNCHANGED <<base, pending, journalBytes, fault, uncertain, apply, save,
                                retired, ghost, env>>
<1>1. PICK j \in JournalIds :
        /\ Matching = {j} /\ Quarantine(Candidates \ {j}) /\ jid' = j
        /\ LET batches == journals[j].batches
               start == IF batches = <<>> THEN 0 ELSE batches[1].first - 1
           IN  committed' = start /\ rev' = start
  BY DEF OpenMatching
<1>. DEFINE b == journals[j].batches
            start == IF b = <<>> THEN 0 ELSE b[1].first - 1
<1>2. /\ phase = "down" /\ BadHeaders = {} /\ phase' = "replay" /\ doc' = base /\ fp' = base
      /\ left' = NoHeaders
      /\ UNCHANGED <<base, pending, journalBytes, fault, uncertain, apply, save,
                     retired, ghost, env>>
  BY DEF OpenMatching
<1>3. j \in Candidates /\ journals[j].fp = base /\ File(j) /\ base \in Contents
  BY <1>1 DEF Matching, Candidates, File, StructInv, TypeOK
<1>4. journals[j] \in Journal /\ b \in Seq(Batch) /\ Sound(b)
  BY <1>3, FileType, JournalFields DEF StructInv, FilesInv
<1>5. /\ journals' \in [JournalIds -> Journal \cup {NoFile}] /\ FilesInv'
      /\ \A i \in JournalIds : journals'[i] = IF i \in Candidates \ {j} THEN NoFile ELSE journals[i]
      /\ Candidates' = Candidates \ (Candidates \ {j})
      /\ BadHeaders' = BadHeaders \ (Candidates \ {j})
  BY <1>1, QuarantineFacts
<1>6. Candidates' = {j} /\ BadHeaders' = {}
  BY <1>2, <1>3, <1>5
<1>7. start \in Revisions /\ start \in Nat
  <2>1. CASE b = <<>>
    BY <2>1, IdleTypes
  <2>2. CASE b # <<>>
    <3>1. 1 \in 1..Len(b) /\ b[1] \in Batch
      BY <1>4, <2>2
    <3>2. b[1].first \in Revisions /\ b[1].first > 0 /\ b[1].first \in Nat
      BY <1>4, <3>1, BatchFacts DEF Sound
    <3>. QED  BY <2>2, <3>2, BoundsAssumption DEF Revisions
  <2>. QED  BY <2>1, <2>2
<1>8. apply = NoApply /\ save = NoSave /\ pending = <<>> /\ fault = FALSE /\ uncertain = FALSE
  BY <1>2, Quiet DEF StructInv, DownInv
<1>. QED  BY <1>1, <1>2, <1>3, <1>4, <1>5, <1>6, <1>7, <1>8

LEMMA OpensMatching == ASSUME StructInv, OpenMatching PROVE StructInv'
<1>1. PICK j \in JournalIds :
             LET b == journals[j].batches
                 start == IF b = <<>> THEN 0 ELSE b[1].first - 1
             IN  /\ phase = "down" /\ jid' = j /\ j \in Candidates
                 /\ journals' \in [JournalIds -> Journal \cup {NoFile}] /\ FilesInv'
                 /\ \A i \in JournalIds : journals'[i] = IF i \in Candidates \ {j} THEN NoFile
                                                         ELSE journals[i]
                 /\ Candidates' = {j} /\ File(j) /\ journals[j] \in Journal
                 /\ b \in Seq(Batch) /\ Sound(b) /\ journals[j].fp = base /\ base \in Contents
                 /\ committed' = start /\ rev' = start /\ start \in Revisions
                 /\ phase' = "replay" /\ doc' = base /\ fp' = base
                 /\ pending = <<>> /\ fault = FALSE /\ uncertain = FALSE
                 /\ apply = NoApply /\ save = NoSave
                 /\ left' = NoHeaders
                 /\ UNCHANGED <<base, pending, journalBytes, fault, uncertain, apply, save,
                                retired, ghost, env>>
  BY MatchFacts
<1>2. journals'[j] = journals[j] /\ committed' \in Revisions /\ rev' \in Revisions
  BY <1>1
<1>3. j # None
  BY EffectAssumption
<1>4. TypeOK'
  BY <1>1, <1>2, NoHeadersType DEF StructInv, TypeOK, Headers
<1>5. FilesInv' /\ DownInv' /\ OpenInv'
  BY <1>1 DEF DownInv, OpenInv
<1>6. ReplayInv'
  <2>1. Len(journals[j].batches) \in Nat /\ Len(pending') = 0
    BY <1>1
  <2>2. rev' = EndsAt(pending, committed)'
    BY <1>1 DEF EndsAt
  <2>3. committed' = IF journals[j].batches = <<>> THEN 0 ELSE journals[j].batches[1].first - 1
    BY <1>1
  <2>4. /\ jid' = j /\ Candidates' = {j} /\ File(j) /\ journals[j].fp = base /\ base \in Contents
        /\ doc' = base /\ fp' = base /\ fault' = FALSE /\ uncertain' = FALSE
    BY <1>1
  <2>. QED  BY <1>2, <1>3, <2>1, <2>2, <2>3, <2>4 DEF ReplayInv, File
<1>7. ApplyInv' /\ SaveInv'
  BY <1>1, QuietInv
<1>. QED  BY <1>4, <1>5, <1>6, <1>7 DEF StructInv
-----------------------------------------------------------------------------
\* Structure: replay, and every step

LEMMA ReplayFacts ==
    ASSUME StructInv, ReplayBatch
    PROVE  /\ phase = "replay" /\ Len(pending) < Len(journals[jid].batches) /\ jid \in JournalIds
           /\ File(jid) /\ journals[jid] \in Journal /\ Sound(journals[jid].batches)
           /\ journals[jid].batches \in Seq(Batch) /\ NextBatch \in Batch
           /\ Len(pending) + 1 \in 1..Len(journals[jid].batches) /\ pending \in Seq(Batch)
           /\ NextBatch = journals[jid].batches[Len(pending) + 1] /\ NextBatch.first = rev + 1
           /\ doc \in DOMAIN Effect[NextBatch.edit] /\ NextBatch.edit \in Edits
           /\ doc' = Effect[NextBatch.edit][doc] /\ doc' \in Contents
           /\ rev' = LastRevision(NextBatch) /\ rev' \in Revisions
           /\ pending' = Append(pending, NextBatch) /\ pending' \in Seq(Batch)
           /\ UNCHANGED <<disk, phase, committed, jid, fp, journalBytes, fault,
                          uncertain, apply, save, retired, ghost, env>>
<1>1. /\ phase = "replay" /\ Len(pending) < Len(journals[jid].batches)
      /\ NextBatch.first = rev + 1 /\ doc \in DOMAIN Effect[NextBatch.edit]
      /\ doc' = Effect[NextBatch.edit][doc] /\ rev' = LastRevision(NextBatch)
      /\ pending' = Append(pending, NextBatch)
      /\ UNCHANGED <<disk, phase, committed, jid, fp, journalBytes, fault,
                     uncertain, apply, save, retired, ghost, env>>
  BY DEF ReplayBatch
<1>2. /\ jid \in JournalIds /\ File(jid) /\ journals[jid] \in Journal
      /\ Sound(journals[jid].batches) /\ journals[jid].batches \in Seq(Batch)
      /\ pending \in Seq(Batch)
  BY <1>1, FileType, JournalFields DEF StructInv, ReplayInv, FilesInv, TypeOK
<1>3. Len(pending) + 1 \in 1..Len(journals[jid].batches)
  BY <1>1, <1>2
<1>4. NextBatch = journals[jid].batches[Len(pending) + 1] /\ NextBatch \in Batch
  BY <1>2, <1>3 DEF NextBatch
<1>5. NextBatch.edit \in Edits /\ LastRevision(NextBatch) \in Nat
      /\ LastRevision(NextBatch) <= MaxRevision
  BY <1>2, <1>3, <1>4, BatchFacts DEF Sound
<1>6. doc' \in Contents /\ rev' \in Revisions
  BY <1>1, <1>5, EffectAssumption, BoundsAssumption DEF Revisions
<1>7. pending' \in Seq(Batch)
  BY <1>1, <1>2, <1>4
<1>. QED  BY <1>1, <1>2, <1>3, <1>4, <1>5, <1>6, <1>7

LEMMA Replays == ASSUME StructInv, ReplayBatch PROVE StructInv'
<1>1. /\ phase = "replay" /\ Len(pending) < Len(journals[jid].batches) /\ jid \in JournalIds
      /\ journals[jid].batches \in Seq(Batch) /\ NextBatch \in Batch
      /\ Len(pending) + 1 \in 1..Len(journals[jid].batches) /\ pending \in Seq(Batch)
      /\ NextBatch = journals[jid].batches[Len(pending) + 1]
      /\ doc' \in Contents /\ rev' = LastRevision(NextBatch) /\ rev' \in Revisions
      /\ pending' = Append(pending, NextBatch) /\ pending' \in Seq(Batch)
      /\ UNCHANGED <<disk, phase, committed, jid, fp, journalBytes, fault,
                     uncertain, apply, save, retired, ghost, env>>
  BY ReplayFacts
<1>2. TypeOK'
  BY <1>1, SMTT(20) DEF StructInv, TypeOK
<1>3. FilesInv' /\ DownInv' /\ OpenInv'
  BY <1>1, FilesSame DEF StructInv, DownInv, OpenInv
<1>4. ReplayInv'
  <2>1. /\ Len(pending') = Len(pending) + 1 /\ pending'[Len(pending) + 1] = NextBatch
        /\ \A i \in 1..Len(pending) : pending'[i] = pending[i] /\ Len(pending) \in Nat
        /\ pending' # <<>>
    BY <1>1, AppendFacts
  <2>2. rev' = EndsAt(pending, committed)'
    BY <1>1, <2>1 DEF EndsAt
  <2>3. \A i \in 1..Len(pending') : pending'[i] = journals[jid].batches[i]
    <3>1. \A i \in 1..Len(pending) : pending[i] = journals[jid].batches[i]
      BY <1>1 DEF StructInv, ReplayInv
    <3>2. \A i \in 1..Len(pending') : i \in 1..Len(pending) \/ i = Len(pending) + 1
      BY <1>1, <2>1
    <3>. QED  BY <1>1, <2>1, <3>1, <3>2
  <2>4. Len(pending') <= Len(journals[jid].batches)
    BY <1>1, <2>1
  <2>5. Candidates' = Candidates
    BY <1>1 DEF Candidates
  <2>. QED  BY <1>1, <2>2, <2>3, <2>4, <2>5 DEF StructInv, ReplayInv, File
<1>5. ApplyInv' /\ SaveInv'
  BY <1>1, Quiet, QuietInv
<1>. QED  BY <1>2, <1>3, <1>4, <1>5 DEF StructInv

\* The history without the attempts beyond the current revision.
TillNow(h) == [r \in Revisions |-> IF r > rev THEN None ELSE h[r]]

LEMMA DoneFacts ==
    ASSUME StructInv, ReplayDone
    PROVE  /\ phase = "replay" /\ phase' = "open" /\ jid \in JournalIds /\ jid # None /\ File(jid)
           /\ pending = journals[jid].batches /\ Sound(pending) /\ pending \in Seq(Batch)
           /\ journals' \in [JournalIds -> Journal \cup {NoFile}]
           /\ \A i \in JournalIds \ {jid} : journals'[i] = journals[i]
           /\ journals'[jid] \in Journal /\ journals'[jid] # NoFile /\ journals'[jid].torn = FALSE
           /\ journals'[jid].fp = journals[jid].fp /\ journals'[jid].entry = journals[jid].entry
           /\ journals'[jid].batches = journals[jid].batches
           /\ journals'[jid].synced = journals[jid].synced
           /\ Candidates' = Candidates /\ BadHeaders' = BadHeaders /\ Candidates \subseteq {jid}
           /\ journalBytes' = EndOffset(pending) /\ stray' = FALSE
           /\ IF pending = <<>> THEN StartLineage
              ELSE hist' = TillNow(hist) /\ acked' = rev /\ UNCHANGED durable
           /\ acked' = rev /\ apply = NoApply /\ save = NoSave /\ fault = FALSE
           /\ committed = IF pending = <<>> THEN 0 ELSE pending[1].first - 1
           /\ rev = EndsAt(pending, committed)
           /\ UNCHANGED <<base, left, doc, rev, committed, pending, jid, fp, fault,
                          uncertain, apply, save, retired, external, aba, env>>
<1>1. /\ phase = "replay" /\ Len(pending) = Len(journals[jid].batches)
      /\ journals' = [journals EXCEPT ![jid].torn = FALSE]
      /\ journalBytes' = EndOffset(journals[jid].batches) /\ phase' = "open"
      /\ IF pending = <<>> THEN StartLineage
         ELSE hist' = TillNow(hist) /\ acked' = rev /\ UNCHANGED durable
      /\ stray' = FALSE
      /\ UNCHANGED <<base, left, doc, rev, committed, pending, jid, fp, fault,
                     uncertain, apply, save, retired, external, aba, env>>
  BY DEF ReplayDone, TillNow
<1>2. /\ jid \in JournalIds /\ jid # None /\ File(jid) /\ journals[jid] \in Journal
      /\ Sound(journals[jid].batches) /\ journals[jid].batches \in Seq(Batch)
      /\ pending \in Seq(Batch) /\ Candidates \subseteq {jid} /\ fault = FALSE
      /\ \A i \in 1..Len(pending) : pending[i] = journals[jid].batches[i]
      /\ committed = IF journals[jid].batches = <<>> THEN 0 ELSE journals[jid].batches[1].first - 1
      /\ rev = EndsAt(pending, committed)
  BY <1>1, FileType, JournalFields DEF StructInv, ReplayInv, FilesInv, TypeOK
<1>3. pending = journals[jid].batches
  BY <1>1, <1>2
<1>. DEFINE r == [journals[jid] EXCEPT !.torn = FALSE]
<1>4. /\ r \in Journal /\ r # NoFile /\ r.torn = FALSE /\ r.fp = journals[jid].fp
      /\ r.entry = journals[jid].entry /\ r.batches = journals[jid].batches
      /\ r.synced = journals[jid].synced
  <2>1. r \in Journal
    BY <1>2, JournalChange
  <2>2. /\ r.torn = FALSE /\ r.fp = journals[jid].fp /\ r.entry = journals[jid].entry
        /\ r.batches = journals[jid].batches /\ r.synced = journals[jid].synced
    BY <1>2 DEF Journal
  <2>. QED  BY <2>1, <2>2, JournalFields
<1>5. journals' = [journals EXCEPT ![jid] = r]
  BY <1>1, <1>2 DEF StructInv, TypeOK
<1>. HIDE DEF r
<1>6. /\ journals' \in [JournalIds -> Journal \cup {NoFile}] /\ journals'[jid] = r
      /\ \A i \in JournalIds \ {jid} : journals'[i] = journals[i]
  BY <1>2, <1>4, <1>5, OneFile DEF StructInv
<1>7. Candidates' = Candidates /\ BadHeaders' = BadHeaders
  BY <1>2, <1>4, <1>6, NamesSame
<1>8. acked' = rev
  BY <1>1, <1>2, <1>3 DEF StartLineage, EndsAt
<1>9. apply = NoApply /\ save = NoSave
  BY <1>1, Quiet
<1>. QED  BY <1>1, <1>2, <1>3, <1>4, <1>6, <1>7, <1>8, <1>9

LEMMA ReplayEnds == ASSUME StructInv, ReplayDone PROVE StructInv'
<1>1. /\ phase = "replay" /\ phase' = "open" /\ jid \in JournalIds /\ jid # None /\ File(jid)
      /\ pending = journals[jid].batches /\ Sound(pending) /\ pending \in Seq(Batch)
      /\ journals' \in [JournalIds -> Journal \cup {NoFile}]
      /\ \A i \in JournalIds \ {jid} : journals'[i] = journals[i]
      /\ journals'[jid] # NoFile /\ journals'[jid].torn = FALSE
      /\ journals'[jid].fp = journals[jid].fp
      /\ journals'[jid].batches = journals[jid].batches
      /\ journals'[jid].synced = journals[jid].synced
      /\ Candidates' = Candidates /\ BadHeaders' = BadHeaders /\ Candidates \subseteq {jid}
      /\ journalBytes' = EndOffset(pending) /\ stray' = FALSE
      /\ IF pending = <<>> THEN StartLineage
         ELSE hist' = TillNow(hist) /\ acked' = rev /\ UNCHANGED durable
      /\ acked' = rev /\ apply = NoApply /\ save = NoSave /\ fault = FALSE
      /\ committed = IF pending = <<>> THEN 0 ELSE pending[1].first - 1
      /\ rev = EndsAt(pending, committed)
      /\ UNCHANGED <<base, left, doc, rev, committed, pending, jid, fp, fault,
                     uncertain, apply, save, retired, external, aba, env>>
  BY DoneFacts
<1>2. /\ hist' \in Histories /\ acked' \in Revisions /\ durable' \in Revisions
      /\ journalBytes' \in Nat
  <2>1. CASE pending = <<>>
    BY <1>1, <2>1, LineageTypes, EndOffsetType
  <2>2. CASE pending # <<>>
    BY <1>1, <2>2, EndOffsetType DEF StructInv, TypeOK, TillNow, Histories
  <2>. QED  BY <2>1, <2>2
<1>3. TypeOK'
  <2>1. {external', aba', stray', volatile'} \subseteq BOOLEAN
    BY <1>1 DEF StructInv, TypeOK
  <2>. QED  BY <1>1, <1>2, <2>1 DEF StructInv, TypeOK, Histories
<1>4. FilesInv'
  BY <1>1, FilesMove DEF StructInv, FilesInv
<1>5. DownInv' /\ ReplayInv'
  BY <1>1 DEF DownInv, ReplayInv
<1>6. OpenInv'
  <2>1. doc \in Contents /\ fp \in Contents /\ journals[jid].fp = fp
    BY <1>1 DEF StructInv, ReplayInv
  <2>2. rev' = EndsAt(pending, committed)' /\ Sound(pending)' /\ apply'.pc = "idle"
        /\ journalBytes' = EndOffset(pending)'
    BY <1>1 DEF NoApply
  <2>3. CASE pending = <<>>
    <3>1. committed' <= rev'
      BY <1>1, <2>3 DEF EndsAt
    <3>. QED  BY <1>1, <2>1, <2>2, <2>3, <3>1 DEF OpenInv, File
  <2>4. CASE pending # <<>>
    <3>1. /\ 1 \in 1..Len(pending) /\ pending[1] \in Batch /\ pending[Len(pending)] \in Batch
          /\ Len(pending) \in 1..Len(pending)
      BY <1>1, <2>4
    <3>2. pending[1].first \in Nat /\ pending[1].first > 0 /\ committed = pending[1].first - 1
      BY <1>1, <2>4, <3>1, BatchFacts DEF Sound
    <3>3. pending[1].first = committed + 1
      BY <3>2
    <3>4. LastRevision(pending[1]) <= rev
      BY <1>1, <3>1, SoundLast
    <3>5. LastRevision(pending[1]) \in Nat /\ LastRevision(pending[1]) >= pending[1].first
          /\ rev \in Nat
      BY <3>1, BatchFacts, BoundsAssumption DEF StructInv, TypeOK, Revisions
    <3>6. committed <= rev
      BY <3>2, <3>4, <3>5
    <3>7. EndOffset(pending) <= MaxJournalBytes
      BY <1>1, <2>4, <3>1 DEF Sound, EndOffset
    <3>. QED  BY <1>1, <2>1, <2>2, <2>4, <3>3, <3>6, <3>7 DEF OpenInv, File
  <2>. QED  BY <2>3, <2>4
<1>7. ApplyInv' /\ SaveInv'
  BY <1>1, QuietInv
<1>. QED  BY <1>3, <1>4, <1>5, <1>6, <1>7 DEF StructInv
-----------------------------------------------------------------------------
\* Structure: the theorems

LEMMA StructStep == StructInv /\ [Next]_vars => StructInv'
<1>. SUFFICES ASSUME StructInv, [Next]_vars PROVE StructInv'
  OBVIOUS
<1>1. ASSUME NEW e \in Edits, ApplyBegin(e) PROVE StructInv'
  BY <1>1, ApplyBeginAttached, ApplyBeginCreates
<1>2. CASE ApplyHeader
  BY <1>2, ApplyHeaders
<1>3. CASE ApplyHeaderFails \/ ApplyAppendFails
  BY <1>3, ApplyFails
<1>4. CASE ApplyAppend
  BY <1>4, ApplyAppends
<1>5. CASE ApplyPublish
  BY <1>5, ApplyPublishes
<1>6. CASE ApplyRollback
  BY <1>6, ApplyRollsBack
<1>7. CASE SyncJournal
  BY <1>7, Syncs
<1>8. CASE SaveBegin
  BY <1>8, SaveBegins
<1>9. CASE SaveAbort \/ SavePrepareFails
  BY <1>9, SaveEnds
<1>10. CASE SaveBarrier
  BY <1>10, SaveBarriers
<1>11. CASE SavePrepareHeader
  BY <1>11, SavePrepares
<1>12. CASE SaveFill
  BY <1>12, SaveFills
<1>13. CASE PreparedGone
  BY <1>13, SaveDiscards
<1>14. CASE SaveRename
  BY <1>14, SaveRenames
<1>15. ASSUME NEW ok \in BOOLEAN, SaveDirSync(ok) PROVE StructInv'
  BY <1>15, SaveDirSyncs
<1>16. CASE SaveReopenBase
  BY <1>16, SaveReopens
<1>17. CASE SaveRebindStep
  BY <1>17, SaveRebinds
<1>18. CASE SaveInstall
  BY <1>18, SaveInstalls
<1>19. CASE SaveFault
  BY <1>19, SaveFaults
<1>20. CASE SaveRetryDirSync
  BY <1>20, SaveRetries
<1>21. ASSUME NEW j \in JournalIds, ReleaseRetired(j) PROVE StructInv'
  BY <1>21, Releases
<1>22. CASE CloseSession
  BY <1>22, Closes
<1>23. CASE ProcessExit
  BY <1>23, Exits
<1>24. CASE PowerLoss
  BY <1>24, Losses
<1>25. ASSUME NEW c \in Foreign, ExternalWrite(c) PROVE StructInv'
  BY <1>25, ExternalWrites
<1>26. CASE OpenFresh
  BY <1>26, OpensFresh
<1>27. CASE OpenBadHeader \/ OpenAmbiguous \/ GivesUp
  BY <1>27, Refuses
<1>28. CASE OpenMatching
  BY <1>28, OpensMatching
<1>29. CASE ReplayBatch
  BY <1>29, Replays
<1>30. CASE ReplayDone
  BY <1>30, ReplayEnds
<1>32. CASE HeaderGone
  BY <1>32, HeaderGoes
<1>33. CASE OpenAdopt
  BY <1>33, OpensAdopt
<1>31. CASE UNCHANGED vars
  <2>1. UNCHANGED <<disk, session, apply, save, retired, ghost, env>>
    BY <1>31 DEF vars
  <2>2. /\ TypeOK' /\ FilesInv' /\ DownInv' /\ ReplayInv' /\ Candidates' = Candidates
        /\ BadHeaders' = BadHeaders
    BY <2>1, FilesSame DEF StructInv, TypeOK, DownInv, ReplayInv, File, Candidates, BadHeaders
  <2>3. OpenInv' /\ ApplyInv'
    BY <2>1, <2>2 DEF StructInv, OpenInv, ApplyInv, File, NewBatch, CanStage, QuotaAllows
  <2>4. SaveInv'
    <3>1. PICK t : t = save.target
      OBVIOUS
    <3>2. Newer(t)' = Newer(t) /\ \A k : Splits(k, t)' <=> Splits(k, t)
      BY <2>1, NewerSame
    <3>3. Newer(save.target)' = Newer(save.target)
          /\ \A k : Splits(k, save.target)' <=> Splits(k, save.target)
      BY <2>1, <3>1, <3>2
    <3>. QED  BY <2>1, <3>3 DEF StructInv, SaveInv, File
  <2>. QED  BY <2>2, <2>3, <2>4 DEF StructInv
<1>. QED  BY <1>1, <1>2, <1>3, <1>4, <1>5, <1>6, <1>7, <1>8, <1>9, <1>10, <1>11, <1>12, <1>13,
             <1>14, <1>15, <1>16, <1>17, <1>18, <1>19, <1>20, <1>21, <1>22, <1>23, <1>24, <1>25,
             <1>26, <1>27, <1>28, <1>29, <1>30, <1>31, <1>32, <1>33
          DEF Next, PreparedGone, HeaderGone, GivesUp

LEMMA StructInvariance == Spec => []StructInv
<1>1. Init => StructInv
  BY StructInit
<1>2. StructInv /\ [Next]_vars => StructInv'
  BY StructStep
<1>. QED  BY <1>1, <1>2, PTL DEF Spec

\* Base, journals and the fields of a Session keep their types through every
\* transaction, save, crash and Open.
THEOREM TypeCorrect == Spec => []TypeOK
<1>1. StructInv => TypeOK
  BY DEF StructInv
<1>. QED  BY <1>1, StructInvariance, PTL

\* Whenever s.mu is free, the journal of an open Session holds exactly the
\* groups newer than the committed revision, at the offsets the Session
\* remembers, within MaxJournalBytes: through appends that were rolled back,
\* rebases, failed saves, replays, and the removal of a matched file by a
\* lease of an earlier generation.
THEOREM JournalIsPending == Spec => []JournalMirrorsPending
<1>1. StructInv => JournalMirrorsPending
  BY DEF StructInv, OpenInv, JournalMirrorsPending, MuFree
<1>. QED  BY <1>1, StructInvariance, PTL

\* A save replaces the base only when its final scan found the identity it
\* expected; only a write that falls behind that scan can be overwritten.
THEOREM ForeignWriteKept == Spec => NoClobber
<1>1. StructInv /\ [Next]_vars =>
         [save.pc = "barrier" /\ save'.pc = "renamed" => base = fp \/ save.late]_vars
  BY DEF StructInv, SaveInv
<1>. QED  BY <1>1, StructInvariance, PTL DEF Spec, NoClobber

-----------------------------------------------------------------------------
\* Validity: while no other program writes the base

\* Applied to content c, the batches pass through the contents h gives to
\* their revisions.
Through(h, c, b) ==
    /\ b # <<>> => h[b[1].first - 1] = c
    /\ \A i \in 1..Len(b) :
          /\ h[b[i].first - 1] \in DOMAIN Effect[b[i].edit]
          /\ h[LastRevision(b[i])] = Effect[b[i].edit][h[b[i].first - 1]]

\* The phases of a save before and after its replacement of the base.
Before == {"idle", "stream", "prepare", "fill", "barrier"}
After == {"renamed", "replaced", "rebind"}

\* The revision a rebind has reached.
RebindRevision ==
    IF save.at = 1 THEN save.target ELSE LastRevision(journals[save.prep].batches[save.at - 1])

\* The Session has applied its journal to the content of its fingerprint.
SessionOver(h) ==
    /\ phase = "replay" =>
         /\ base = fp /\ Through(h, fp, journals[jid].batches)
         /\ doc = IF journals[jid].batches = <<>> THEN fp ELSE h[rev]
    /\ phase = "open" =>
         /\ Through(h, fp, pending) /\ doc = h[rev] /\ (pending = <<>> => fp = h[rev])
         /\ apply.pc = "publish" => h[rev + Width[apply.edit]] = Effect[apply.edit][doc]
         /\ ~fault /\ save.pc \in Before => base = fp
         /\ save.pc # "idle" => save.text = h[save.target]
         /\ save.pc \in After => base = save.text
         /\ save.pc = "rebind" => save.tree = h[RebindRevision]

\* Every journal an Open may find can be replayed, and so can the list of the
\* Session.
ValidFiles ==
    ~external => \A j \in Candidates : journals[j].fp # None =>
                    \E h \in Histories : Through(h, journals[j].fp, journals[j].batches)
ValidSession == ~external => \E h \in Histories : SessionOver(h)
ValidInv == ValidFiles /\ ValidSession

-----------------------------------------------------------------------------
\* History: while no content has come back either

Trusted == ~external /\ ~aba

\* Journal f holds revision a over content c after a process exit.
Keeps(f, h, c, a) ==
    IF f.batches = <<>> THEN c = h[a] ELSE Through(h, c, f.batches) /\ EndsAt(f.batches, a) >= a

\* Journal f holds revision r over content c after a power loss.
Survives(f, h, c, r) ==
    /\ f.synced = 0 \/ f.entry = "new" => c = h[r]
    /\ \A n \in 1..Len(f.batches) : n >= f.synced => LastRevision(f.batches[n]) >= r

Larger(r, s) == IF r < s THEN s ELSE r

\* The revision of the base journal f was begun for, where a is the last one.
StartsAt(f, a) == IF f.batches = <<>> THEN a ELSE f.batches[1].first - 1

\* Journal f carries on from revision r of the base content c, up to the last
\* answered revision a; a power loss leaves the durable revision d, unless the
\* base itself may still be undone (v).
Carries(f, h, c, r, a, d, v) ==
    /\ f.fp = c /\ Keeps(f, h, c, a) /\ Survives(f, h, c, Larger(d, r))
    /\ ~v => r <= d
    /\ r = StartsAt(f, a)

\* Every batch and the file's name are on disk.
Hard(f) == f.synced = Len(f.batches) /\ f.entry = "synced"

\* The journals an Open would find for content c.
Found(files, c) ==
    {j \in JournalIds : files[j] # NoFile /\ files[j].entry # "removed" /\ files[j].fp = c}

\* Content c and its journal, where there is one, hold what was answered.
Pair(files, h, c, a, d, v) ==
    /\ \A j \in Found(files, c) : \E r \in Revisions : Carries(files[j], h, c, r, a, d, v)
    /\ Found(files, c) = {} => c = h[a] /\ (~v => c = h[d])

\* One base content, one journal.
DistinctInv ==
    Trusted => \A i, j \in Candidates :
                  journals[i].fp = journals[j].fp /\ journals[i].fp # None => i = j

HistoryInv == Trusted => SessionOver(hist) /\ durable <= acked

\* Which journal belongs to the base when a Session is open.
OpenTrust ==
    Trusted /\ phase = "open" =>
        /\ stray = FALSE
        /\ jid # None => jid \in Candidates \ retired
        /\ jid # None /\ ~fault /\ save.pc \in Before \cup {"renamed"} =>
              /\ Survives(journals[jid], hist, fp, Larger(durable, committed))
              /\ ~volatile => committed <= durable
        /\ save.pc \in {"replaced", "rebind"} /\ ~volatile => save.target <= durable
        /\ fault => /\ base = hist[committed]
                    /\ \E p \in Candidates \ (retired \cup {jid}) :
                          /\ Carries(journals[p], hist, base, committed, acked, durable, volatile)
                          /\ Hard(journals[p])

\* ... and when none is.
DownTrust ==
    Trusted /\ phase # "open" =>
        /\ Matching \cap retired = {}
        /\ Pair(journals, hist, base, acked, durable, volatile)
        /\ ~stray => Candidates \subseteq BadHeaders \/ Matching # {}
        /\ phase = "replay" => jid \in Matching

TrustInv == DistinctInv /\ HistoryInv /\ OpenTrust /\ DownTrust
-----------------------------------------------------------------------------
\* Replaying batches

LEMMA ThroughEmpty ==
    ASSUME NEW h, NEW c PROVE Through(h, c, <<>>)
BY DEF Through

\* The revisions a sound list of batches touches.
LEMMA Touches ==
    ASSUME NEW b \in Seq(Batch), Sound(b), NEW i \in 1..Len(b)
    PROVE  /\ b[i] \in Batch /\ b[i].first - 1 \in Revisions /\ LastRevision(b[i]) \in Revisions
           /\ b[i].first - 1 \in Nat /\ LastRevision(b[i]) \in Nat
           /\ b[i].first - 1 < LastRevision(b[i]) /\ b[i].first \in Nat /\ b[i].first > 0
           /\ b[i].edit \in Edits
<1>1. b[i] \in Batch
  OBVIOUS
<1>2. b[i].first \in Nat /\ b[i].first > 0 /\ LastRevision(b[i]) \in Nat
      /\ LastRevision(b[i]) >= b[i].first /\ LastRevision(b[i]) <= MaxRevision
      /\ b[i].first \in Revisions
  BY <1>1, BatchFacts DEF Sound
<1>. QED  BY <1>1, <1>2, BatchFacts, BoundsAssumption DEF Revisions

LEMMA ThroughFrame ==
    ASSUME NEW h, NEW g, NEW c, NEW b \in Seq(Batch), Sound(b), Through(h, c, b),
           \A i \in 1..Len(b) : /\ g[b[i].first - 1] = h[b[i].first - 1]
                                /\ g[LastRevision(b[i])] = h[LastRevision(b[i])]
    PROVE  Through(g, c, b)
<1>1. b # <<>> => 1 \in 1..Len(b)
  OBVIOUS
<1>. QED  BY <1>1 DEF Through

\* Changing a history above, or before, the revisions of a journal.
LEMMA ThroughAbove ==
    ASSUME NEW h \in Histories, NEW c, NEW b \in Seq(Batch), Sound(b), Through(h, c, b),
           NEW x \in Revisions, NEW v, NEW s, EndsAt(b, s) < x
    PROVE  Through([h EXCEPT ![x] = v], c, b)
<1>1. ASSUME NEW i \in 1..Len(b)
      PROVE  b[i].first - 1 # x /\ LastRevision(b[i]) # x
             /\ b[i].first - 1 \in Revisions /\ LastRevision(b[i]) \in Revisions
  <2>1. LastRevision(b[i]) <= EndsAt(b, s)
    BY SoundLast
  <2>2. /\ b[i].first - 1 \in Nat /\ LastRevision(b[i]) \in Nat
        /\ b[i].first - 1 < LastRevision(b[i])
        /\ b[i].first - 1 \in Revisions /\ LastRevision(b[i]) \in Revisions
    BY Touches
  <2>3. EndsAt(b, s) \in Nat /\ x \in Nat
    <3>1. b # <<>> /\ Len(b) \in 1..Len(b)
      OBVIOUS
    <3>. QED  BY <3>1, Touches, BoundsAssumption DEF EndsAt, Revisions
  <2>. QED  BY <2>1, <2>2, <2>3
<1>2. \A i \in 1..Len(b) :
         /\ [h EXCEPT ![x] = v][b[i].first - 1] = h[b[i].first - 1]
         /\ [h EXCEPT ![x] = v][LastRevision(b[i])] = h[LastRevision(b[i])]
  BY <1>1 DEF Histories
<1>. QED  BY <1>2, ThroughFrame

\* Histories that agree up to the end of a journal.
LEMMA ThroughTill ==
    ASSUME NEW h, NEW g, NEW c, NEW b \in Seq(Batch), Sound(b), Through(h, c, b), NEW s,
           \A r \in Revisions : r <= EndsAt(b, s) => g[r] = h[r]
    PROVE  Through(g, c, b)
<1>1. ASSUME NEW i \in 1..Len(b)
      PROVE  g[b[i].first - 1] = h[b[i].first - 1] /\ g[LastRevision(b[i])] = h[LastRevision(b[i])]
  <2>1. LastRevision(b[i]) <= EndsAt(b, s)
    BY SoundLast
  <2>2. /\ b[i].first - 1 \in Nat /\ LastRevision(b[i]) \in Nat
        /\ b[i].first - 1 < LastRevision(b[i])
        /\ b[i].first - 1 \in Revisions /\ LastRevision(b[i]) \in Revisions
    BY Touches
  <2>3. EndsAt(b, s) \in Nat
    <3>1. b # <<>> /\ Len(b) \in 1..Len(b)
      OBVIOUS
    <3>. QED  BY <3>1, Touches DEF EndsAt
  <2>4. b[i].first - 1 <= EndsAt(b, s)
    BY <2>1, <2>2, <2>3
  <2>. QED  BY <2>1, <2>2, <2>4
<1>. QED  BY <1>1, ThroughFrame

LEMMA ThroughAppend ==
    ASSUME NEW h, NEW c, NEW b \in Seq(Batch), Through(h, c, b), NEW n \in Batch,
           b = <<>> => h[n.first - 1] = c,
           h[n.first - 1] \in DOMAIN Effect[n.edit],
           h[LastRevision(n)] = Effect[n.edit][h[n.first - 1]]
    PROVE  Through(h, c, Append(b, n))
<1>. DEFINE a == Append(b, n)
<1>1. /\ Len(a) = Len(b) + 1 /\ Len(b) \in Nat /\ \A i \in 1..Len(b) : a[i] = b[i]
      /\ a[Len(b) + 1] = n /\ a # <<>>
  BY AppendFacts
<1>2. h[a[1].first - 1] = c
  <2>1. CASE b = <<>>
    BY <1>1, <2>1
  <2>2. CASE b # <<>>
    <3>1. 1 \in 1..Len(b)
      BY <2>2
    <3>. QED  BY <1>1, <2>2, <3>1 DEF Through
  <2>. QED  BY <2>1, <2>2
<1>3. ASSUME NEW i \in 1..Len(a)
      PROVE  /\ h[a[i].first - 1] \in DOMAIN Effect[a[i].edit]
             /\ h[LastRevision(a[i])] = Effect[a[i].edit][h[a[i].first - 1]]
  <2>1. CASE i \in 1..Len(b)
    BY <1>1, <2>1 DEF Through
  <2>2. CASE i = Len(b) + 1
    BY <1>1, <2>2
  <2>. QED  BY <1>1, <2>1, <2>2
<1>. QED  BY <1>2, <1>3 DEF Through

LEMMA ThroughPrefix ==
    ASSUME NEW h, NEW c, NEW b \in Seq(Batch), Sound(b), Through(h, c, b), NEW n \in 0..Len(b)
    PROVE  Through(h, c, SubSeq(b, 1, n))
<1>. DEFINE s == SubSeq(b, 1, n)
<1>1. s \in Seq(Batch) /\ Len(s) = n /\ \A i \in 1..n : s[i] = b[i]
  BY SoundPrefix
<1>. HIDE DEF s
<1>2. s # <<>> => 1 \in 1..n /\ b # <<>>
  BY <1>1
<1>3. 1..n \subseteq 1..Len(b)
  OBVIOUS
<1>4. Through(h, c, s)
  BY <1>1, <1>2, <1>3 DEF Through
<1>. QED  BY <1>4 DEF s

\* Before a batch the replay is at its revision.
LEMMA ThroughAt ==
    ASSUME NEW h, NEW c, NEW b \in Seq(Batch), Sound(b), Through(h, c, b), NEW i \in 1..Len(b)
    PROVE  /\ h[b[i].first - 1] \in DOMAIN Effect[b[i].edit]
           /\ h[LastRevision(b[i])] = Effect[b[i].edit][h[b[i].first - 1]]
           /\ i = 1 => h[b[i].first - 1] = c
           /\ i > 1 => b[i].first - 1 = LastRevision(b[i - 1])
<1>1. b # <<>>
  OBVIOUS
<1>2. i > 1 => b[i].first - 1 = LastRevision(b[i - 1])
  <2>. SUFFICES ASSUME i > 1 PROVE b[i].first - 1 = LastRevision(b[i - 1])
    OBVIOUS
  <2>1. i - 1 \in 1..Len(b)
    OBVIOUS
  <2>2. LastRevision(b[i - 1]) \in Nat
    BY <2>1, Touches
  <2>3. b[i].first = LastRevision(b[i - 1]) + 1
    BY DEF Sound
  <2>. QED  BY <2>2, <2>3
<1>. QED  BY <1>1, <1>2 DEF Through

\* The groups a save carries over replay from the content it saved.
LEMMA ThroughNewer ==
    ASSUME NEW h, NEW c, pending \in Seq(Batch), Sound(pending), Through(h, c, pending),
           NEW target, NEW k \in 1..Len(pending), Splits(k, target)
    PROVE  Through(h, h[target], Newer(target))
<1>. DEFINE s == Newer(target)
<1>1. /\ s \in Seq(Batch) /\ Len(s) = Len(pending) - k
      /\ \A i \in 1..Len(pending) - k : /\ s[i].first = pending[k + i].first
                                       /\ s[i].edit = pending[k + i].edit
      /\ s # <<>> => s[1].first = target + 1
  BY NewerFacts
<1>. HIDE DEF s
<1>2. ASSUME NEW i \in 1..Len(s)
      PROVE  /\ h[s[i].first - 1] \in DOMAIN Effect[s[i].edit]
             /\ h[LastRevision(s[i])] = Effect[s[i].edit][h[s[i].first - 1]]
  <2>1. i \in 1..Len(pending) - k /\ k + i \in 1..Len(pending)
    BY <1>1, <1>2
  <2>2. LastRevision(s[i]) = LastRevision(pending[k + i])
    BY <1>1, <2>1 DEF LastRevision
  <2>3. /\ h[pending[k + i].first - 1] \in DOMAIN Effect[pending[k + i].edit]
        /\ h[LastRevision(pending[k + i])] =
              Effect[pending[k + i].edit][h[pending[k + i].first - 1]]
    BY <2>1 DEF Through
  <2>. QED  BY <1>1, <2>1, <2>2, <2>3
<1>3. target \in Nat
  <2>1. target = LastRevision(pending[k])
    BY DEF Splits
  <2>. QED  BY <2>1, Touches
<1>4. s # <<>> => h[s[1].first - 1] = h[target]
  BY <1>1, <1>3
<1>5. Through(h, h[target], s)
  BY <1>2, <1>4 DEF Through
<1>. QED  BY <1>5 DEF s
-----------------------------------------------------------------------------
\* The Session over a history, step by step

LEMMA OverFrame ==
    ASSUME NEW h, SessionOver(h), UNCHANGED <<base, phase, doc, rev, pending, fp, fault, save>>,
           apply'.pc = "publish" => apply' = apply,
           phase = "replay" => /\ jid' = jid
                               /\ journals'[jid].batches = journals[jid].batches,
           save.pc = "rebind" => journals'[save.prep].batches = journals[save.prep].batches
    PROVE  SessionOver(h)'
<1>1. save.pc = "rebind" => RebindRevision' = RebindRevision
  BY DEF RebindRevision, LastRevision
<1>. QED  BY <1>1 DEF SessionOver

\* A save that has not replaced the base yet.
LEMMA OverSave ==
    ASSUME NEW h, SessionOver(h), phase = "open", UNCHANGED <<base, phase, doc, rev, pending, fp>>,
           apply' = apply \/ apply'.pc # "publish",
           save.pc \in Before, save'.pc \in Before, fault' = fault,
           save'.pc # "idle" => save'.text = h[save'.target]
    PROVE  SessionOver(h)'
BY DEF SessionOver, Before, After

LEMMA OverDown ==
    ASSUME NEW h, phase' = "down" PROVE SessionOver(h)'
BY DEF SessionOver

LEMMA OverApplies ==
    ASSUME StructInv, NEW h, SessionOver(h),
           (\E e \in Edits : ApplyBegin(e)) \/ ApplyHeader \/ ApplyHeaderFails \/ ApplyAppendFails
              \/ ApplyRollback \/ HeaderGone
    PROVE  SessionOver(h)'
<1>1. UNCHANGED <<base, phase, doc, rev, pending, fp, fault, save>>
  BY DEF ApplyBegin, ApplyHeader, ApplyHeaderFails, ApplyAppendFails, ApplyRollback,
         HeaderGone, ApplyHeaderUnsynced, ApplyHeaderRemoved
<1>2. apply'.pc # "publish"
  <2>1. ASSUME NEW e \in Edits, ApplyBegin(e) PROVE apply'.pc # "publish"
    BY <2>1 DEF ApplyBegin
  <2>2. CASE ApplyHeader
    BY <2>2 DEF ApplyHeader, StructInv, TypeOK
  <2>3. CASE ApplyHeaderFails \/ ApplyAppendFails \/ ApplyRollback \/ HeaderGone
    BY <2>3 DEF ApplyHeaderFails, ApplyAppendFails, ApplyRollback, NoApply, HeaderGone,
                ApplyHeaderUnsynced, ApplyHeaderRemoved
  <2>. QED  BY <2>1, <2>2, <2>3
<1>3. phase = "open" /\ save.pc \in {"idle", "stream"}
  <2>1. ASSUME NEW e \in Edits, ApplyBegin(e) PROVE phase = "open" /\ save.pc \in {"idle", "stream"}
    BY <2>1 DEF ApplyBegin, Mutable, MuFree
  <2>2. CASE ApplyHeader \/ ApplyHeaderFails \/ ApplyAppendFails \/ ApplyRollback \/ HeaderGone
    BY <2>2 DEF ApplyHeader, ApplyHeaderFails, ApplyAppendFails, ApplyRollback, StructInv, ApplyInv,
                HeaderGone, ApplyHeaderUnsynced, ApplyHeaderRemoved
  <2>. QED  BY <2>1, <2>2
<1>. QED  BY <1>1, <1>2, <1>3, OverFrame

\* A rollback may change the history beyond the current revision.
LEMMA OverRollback ==
    ASSUME StructInv, NEW h, SessionOver(h), ApplyRollback,
           NEW g, \A r \in Revisions : r <= rev => g[r] = h[r]
    PROVE  SessionOver(g)'
<1>1. /\ phase = "open" /\ apply.pc = "publish" /\ apply' = NoApply /\ apply'.pc = "idle"
      /\ UNCHANGED <<base, phase, doc, rev, pending, fp, fault, save>>
  BY RollbackFacts DEF NoApply
<1>2. /\ rev \in Revisions /\ rev \in Nat /\ Sound(pending) /\ rev = EndsAt(pending, committed)
      /\ save.pc \in {"idle", "stream"} /\ pending \in Seq(Batch)
  BY <1>1, BoundsAssumption DEF StructInv, OpenInv, ApplyInv, TypeOK, Revisions
<1>3. /\ Through(h, fp, pending) /\ doc = h[rev] /\ (pending = <<>> => fp = h[rev])
      /\ ~fault /\ save.pc \in Before => base = fp
      /\ (save.pc # "idle" => save.text = h[save.target])
  BY <1>1 DEF SessionOver
<1>4. save.pc # "idle" => save.target \in Revisions /\ save.target <= rev
  BY TargetFacts DEF StructInv, SaveInv
<1>5. Through(g, fp, pending)
  BY <1>2, <1>3, ThroughTill
<1>6. g[rev] = h[rev] /\ (save.pc # "idle" => save.text = g[save.target])
  <2>1. rev <= rev
    BY <1>2
  <2>2. g[rev] = h[rev]
    BY <1>2, <2>1
  <2>3. save.pc # "idle" => g[save.target] = h[save.target]
    BY <1>4
  <2>. QED  BY <1>3, <2>2, <2>3
<1>7. save'.pc \notin After /\ save'.pc # "rebind"
  BY <1>1, <1>2 DEF After
<1>8. Through(g, fp', pending')
  BY <1>1, <1>5
<1>. QED  BY <1>1, <1>3, <1>6, <1>7, <1>8 DEF SessionOver

LEMMA OverAppend ==
    ASSUME StructInv, NEW h \in Histories, SessionOver(h), ApplyAppend
    PROVE  \E g \in Histories :
             /\ g = [h EXCEPT ![rev + Width[apply.edit]] = Effect[apply.edit][doc]]
             /\ SessionOver(g)' /\ Through(g, fp, Append(pending, NewBatch(apply.edit)))
<1>. DEFINE n == NewBatch(apply.edit)
            x == rev + Width[apply.edit]
            v == Effect[apply.edit][doc]
<1>1. /\ n \in Batch /\ apply.edit \in Edits /\ LastRevision(n) = x /\ x \in Revisions /\ x > rev
      /\ n.first = rev + 1 /\ doc \in DOMAIN Effect[apply.edit] /\ v \in Contents
      /\ Sound(Append(pending, n)) /\ pending \in Seq(Batch) /\ phase = "open"
  BY NewBatchFacts DEF StructInv, ApplyAppend
<1>2. n.edit = apply.edit
  BY DEF NewBatch
<1>3. /\ rev \in Revisions /\ rev \in Nat /\ Sound(pending) /\ rev = EndsAt(pending, committed)
      /\ x \in Nat /\ save.pc \in {"idle", "stream"} /\ ~fault
  <2>1. Sound(pending) /\ rev = EndsAt(pending, committed)
        /\ save.pc \in {"idle", "stream"} /\ ~fault
    BY <1>1 DEF ApplyAppend, StructInv, OpenInv, ApplyInv
  <2>. QED  BY <1>1, <2>1, BoundsAssumption DEF StructInv, TypeOK, Revisions
<1>4. /\ UNCHANGED <<base, left, session, save>> /\ apply' = [apply EXCEPT !.pc = "publish"]
      /\ apply'.edit = apply.edit
  BY DEF ApplyAppend, StructInv, TypeOK
<1>5. /\ Through(h, fp, pending) /\ doc = h[rev] /\ (pending = <<>> => fp = h[rev])
      /\ base = fp /\ (save.pc # "idle" => save.text = h[save.target])
  BY <1>1, <1>3 DEF SessionOver, Before
<1>6. save.pc # "idle" => save.target \in Revisions /\ save.target <= rev /\ save.target \in Nat
  BY TargetFacts, BoundsAssumption DEF StructInv, SaveInv, Revisions
<1>. DEFINE g == [h EXCEPT ![x] = v]
<1>7. /\ g[x] = v /\ g[rev] = h[rev]
      /\ save.pc # "idle" => g[save.target] = h[save.target]
  <2>1. DOMAIN h = Revisions /\ rev # x
    BY <1>1, <1>3 DEF Histories
  <2>2. save.pc # "idle" => save.target # x
    BY <1>1, <1>3, <1>6
  <2>. QED  BY <1>1, <1>3, <1>6, <2>1, <2>2
<1>8. Through(g, fp, pending)
  BY <1>1, <1>3, <1>5, ThroughAbove
<1>. HIDE DEF g
<1>9. Through(g, fp, Append(pending, n))
  <2>1. n.first - 1 = rev
    BY <1>1, <1>3
  <2>2. /\ pending = <<>> => g[n.first - 1] = fp
        /\ g[n.first - 1] \in DOMAIN Effect[n.edit]
        /\ g[LastRevision(n)] = Effect[n.edit][g[n.first - 1]]
    BY <1>1, <1>2, <1>5, <1>7, <2>1
  <2>. HIDE DEF n
  <2>. QED  BY <1>1, <1>8, <2>2, ThroughAppend
<1>10. PICK g0 : g0 = g
  OBVIOUS
<1>11. SessionOver(g0)'
  <2>1. phase' = "open" /\ save'.pc \in Before /\ save'.pc # "rebind" /\ save'.pc \notin After
    BY <1>1, <1>3, <1>4 DEF Before, After
  <2>2. Through(g0, fp', pending') /\ doc' = g0[rev'] /\ (pending' = <<>> => fp' = g0[rev'])
    BY <1>4, <1>5, <1>7, <1>8, <1>10
  <2>3. g0[rev' + Width[apply'.edit]] = Effect[apply'.edit][doc']
    BY <1>4, <1>7, <1>10
  <2>4. base' = fp' /\ (save'.pc # "idle" => save'.text = g0[save'.target])
    BY <1>4, <1>5, <1>7, <1>10
  <2>. QED  BY <2>1, <2>2, <2>3, <2>4 DEF SessionOver
<1>12. g \in Histories
  BY <1>1 DEF g, Histories
<1>13. g0 = [h EXCEPT ![x] = v]
  BY <1>10 DEF g
<1>. QED  BY <1>9, <1>10, <1>11, <1>12, <1>13
-----------------------------------------------------------------------------
\* The Session over a history: publication and saves

\* What a published or a saved list replays to.
LEMMA PublishThrough ==
    ASSUME StructInv, NEW h, SessionOver(h), apply.pc = "publish"
    PROVE  Through(h, fp, Append(pending, NewBatch(apply.edit)))
<1>. DEFINE n == NewBatch(apply.edit)
<1>1. /\ n \in Batch /\ pending \in Seq(Batch) /\ phase = "open" /\ n.first = rev + 1
      /\ LastRevision(n) = rev + Width[apply.edit] /\ doc \in DOMAIN Effect[apply.edit]
  BY NewBatchFacts DEF StructInv
<1>2. n.edit = apply.edit /\ rev \in Nat
  BY BoundsAssumption DEF NewBatch, StructInv, TypeOK, Revisions
<1>3. /\ Through(h, fp, pending) /\ doc = h[rev] /\ (pending = <<>> => fp = h[rev])
      /\ h[rev + Width[apply.edit]] = Effect[apply.edit][doc]
  BY <1>1 DEF SessionOver
<1>. HIDE DEF n
<1>4. n.first - 1 = rev
  BY <1>1, <1>2
<1>5. /\ pending = <<>> => h[n.first - 1] = fp
      /\ h[n.first - 1] \in DOMAIN Effect[n.edit]
      /\ h[LastRevision(n)] = Effect[n.edit][h[n.first - 1]]
  BY <1>1, <1>2, <1>3, <1>4
<1>6. Through(h, fp, Append(pending, n))
  BY <1>1, <1>3, <1>5, ThroughAppend
<1>. QED  BY <1>6 DEF n

LEMMA SavesThrough ==
    ASSUME StructInv, NEW h, SessionOver(h), save.pc # "idle"
    PROVE  Through(h, h[save.target], Newer(save.target))
<1>1. phase = "open" /\ pending \in Seq(Batch) /\ Sound(pending)
  BY TargetFacts
<1>2. PICK k \in 1..Len(pending) : Splits(k, save.target)
  BY DEF StructInv, SaveInv
<1>3. Through(h, fp, pending)
  BY <1>1 DEF SessionOver
<1>. QED  BY <1>1, <1>2, <1>3, ThroughNewer

LEMMA OverPublish ==
    ASSUME StructInv, NEW h, SessionOver(h), ApplyPublish
    PROVE  SessionOver(h)'
<1>. DEFINE n == NewBatch(apply.edit)
<1>1. /\ n \in Batch /\ pending \in Seq(Batch) /\ phase = "open"
      /\ save.pc \in {"idle", "stream"} /\ ~fault
  BY NewBatchFacts DEF StructInv, ApplyPublish, ApplyInv
<1>2. /\ doc' = Effect[apply.edit][doc] /\ rev' = rev + Width[apply.edit]
      /\ pending' = Append(pending, n) /\ apply' = NoApply
      /\ UNCHANGED <<base, phase, fp, fault, save>>
  BY DEF ApplyPublish
<1>3. pending' # <<>>
  BY <1>1, <1>2, AppendFacts
<1>4. h[rev + Width[apply.edit]] = Effect[apply.edit][doc] /\ base = fp
      /\ (save.pc # "idle" => save.text = h[save.target])
  BY <1>1 DEF SessionOver, ApplyPublish, Before
<1>. HIDE DEF n
<1>5. Through(h, fp', pending')
  BY <1>2, PublishThrough DEF n, ApplyPublish
<1>6. /\ phase' = "open" /\ save'.pc \in Before /\ save'.pc # "rebind" /\ save'.pc \notin After
      /\ apply'.pc # "publish"
  BY <1>1, <1>2 DEF Before, After, NoApply
<1>. QED  BY <1>2, <1>3, <1>4, <1>5, <1>6 DEF SessionOver

LEMMA OverSaves ==
    ASSUME StructInv, NEW h, SessionOver(h),
           SaveBegin \/ SaveAbort \/ SaveBarrier \/ SavePrepareHeader \/ SavePrepareFails
              \/ SaveFill \/ PreparedGone
    PROVE  SessionOver(h)'
<1>1. UNCHANGED <<base, phase, doc, rev, pending, fp, fault, apply>>
  BY DEF SaveBegin, SaveAbort, SaveBarrier, SavePrepareHeader, SavePrepareFails, SaveFill,
         PreparedGone, SaveDiscard, SavePrepareUnsynced
<1>2. phase = "open" /\ save.pc \in Before /\ save \in Saves
  BY DEF SaveBegin, SaveAbort, SaveBarrier, SavePrepareHeader, SavePrepareFails, SaveFill,
         PreparedGone, SaveDiscard, SavePrepareUnsynced, StructInv, SaveInv, Mutable, Before, TypeOK, Saves
<1>3. CASE SaveBegin
  <2>1. save' = [NoSave EXCEPT !.pc = "stream", !.target = rev, !.text = doc]
    BY <1>3 DEF SaveBegin
  <2>2. save'.pc = "stream" /\ save'.target = rev /\ save'.text = doc
    BY <2>1 DEF NoSave
  <2>3. doc = h[rev]
    BY <1>2 DEF SessionOver
  <2>4. save'.pc \in Before /\ save'.text = h[save'.target]
    BY <2>2, <2>3 DEF Before
  <2>. QED  BY <1>1, <1>2, <2>4, OverSave
<1>4. CASE SaveAbort \/ SavePrepareFails \/ PreparedGone
  <2>1. save' = NoSave
    BY <1>4 DEF SaveAbort, SavePrepareFails, PreparedGone, SaveDiscard, SavePrepareUnsynced
  <2>2. save'.pc = "idle" /\ save'.pc \in Before
    BY <2>1 DEF NoSave, Before
  <2>. QED  BY <1>1, <1>2, <2>2, OverSave
<1>5. CASE SaveBarrier \/ SavePrepareHeader \/ SaveFill
  <2>1. save.pc # "idle" /\ save'.pc \in Before /\ save'.text = save.text
        /\ save'.target = save.target
    <3>1. CASE SaveBarrier
      BY <1>2, <3>1 DEF SaveBarrier, Saves, Before
    <3>2. CASE SavePrepareHeader
      BY <1>2, <3>2 DEF SavePrepareHeader, Saves, Before
    <3>3. CASE SaveFill
      BY <1>2, <3>3 DEF SaveFill, Saves, Before
    <3>. QED  BY <1>5, <3>1, <3>2, <3>3
  <2>2. save'.text = h[save'.target]
    BY <1>2, <2>1 DEF SessionOver
  <2>. QED  BY <1>1, <1>2, <2>1, <2>2, OverSave
<1>. QED  BY <1>3, <1>4, <1>5

LEMMA OverRename ==
    ASSUME StructInv, NEW h, SessionOver(h), SaveRename \/ (\E ok \in BOOLEAN : SaveDirSync(ok))
    PROVE  SessionOver(h)'
<1>1. /\ UNCHANGED <<phase, doc, rev, pending, fp, fault, apply>>
      /\ save.pc # "idle" /\ save'.pc \in {"renamed", "replaced"} /\ save'.text = save.text
      /\ save'.target = save.target /\ base' = save.text /\ phase = "open"
  <2>1. save \in Saves
    BY DEF StructInv, TypeOK, Saves
  <2>2. CASE SaveRename
    BY <2>1, <2>2 DEF SaveRename, Saves, StructInv, SaveInv
  <2>3. CASE \E ok \in BOOLEAN : SaveDirSync(ok)
    BY <2>1, <2>3 DEF SaveDirSync, Saves, StructInv, SaveInv, SessionOver, After
  <2>. QED  BY <2>2, <2>3
<1>. QED  BY <1>1 DEF SessionOver, Before, After

LEMMA OverReopen ==
    ASSUME StructInv, NEW h, SessionOver(h), SaveReopenBase PROVE SessionOver(h)'
<1>1. /\ UNCHANGED <<base, phase, doc, rev, pending, fp, fault, apply>>
      /\ save.pc = "replaced" /\ save'.pc = "rebind" /\ save'.text = save.text
      /\ save'.target = save.target /\ save'.tree = base /\ save'.at = 1 /\ phase = "open"
  BY DEF SaveReopenBase, StructInv, TypeOK, SaveInv
<1>2. RebindRevision' = save.target
  BY <1>1 DEF RebindRevision
<1>3. base = save.text /\ save.text = h[save.target]
  BY <1>1 DEF SessionOver, After
<1>. QED  BY <1>1, <1>2, <1>3 DEF SessionOver, Before, After

\* Where a rebind stands, and where it is when it has replayed every group.
LEMMA RebindFacts ==
    ASSUME StructInv, save.pc = "rebind"
    PROVE  /\ save.prep \in JournalIds /\ journals[save.prep].batches = Newer(save.target)
           /\ Newer(save.target) \in Seq(Batch) /\ Sound(Newer(save.target))
           /\ Newer(save.target) # <<>> => Newer(save.target)[1].first = save.target + 1
           /\ EndsAt(Newer(save.target), save.target) = rev /\ save.target \in Nat
           /\ save.at \in 1..(Len(Newer(save.target)) + 1) /\ Len(Newer(save.target)) \in Nat
           /\ phase = "open" /\ save \in Saves /\ save.target \in Revisions
<1>1. /\ save.prep \in JournalIds /\ journals[save.prep].batches = Newer(save.target)
      /\ save.at \in 1..(Len(Newer(save.target)) + 1) /\ save \in Saves
      /\ save.target \in Revisions
  BY DEF StructInv, SaveInv, TypeOK, Saves
<1>2. PICK k \in 1..Len(pending) : Splits(k, save.target)
  BY DEF StructInv, SaveInv
<1>3. /\ phase = "open" /\ pending \in Seq(Batch) /\ Sound(pending)
      /\ rev = EndsAt(pending, committed) /\ save.target \in Nat
  BY TargetFacts, SMTT(40)
<1>. QED  BY <1>1, <1>2, <1>3, NewerFacts

LEMMA OverRebind ==
    ASSUME StructInv, NEW h, SessionOver(h), SaveRebindStep
    PROVE  SessionOver(h)'
<1>. DEFINE b == Newer(save.target)
<1>0. Through(h, h[save.target], b)
  <2>1. save.pc # "idle"
    BY DEF SaveRebindStep
  <2>. QED  BY <2>1, SavesThrough
<1>1. /\ save.prep \in JournalIds /\ journals[save.prep].batches = b
      /\ b \in Seq(Batch) /\ Sound(b) /\ (b # <<>> => b[1].first = save.target + 1)
      /\ save.target \in Nat /\ save.at \in 1..(Len(b) + 1) /\ Len(b) \in Nat
      /\ phase = "open" /\ save \in Saves
  BY RebindFacts DEF SaveRebindStep
<1>. HIDE DEF b
<1>2. /\ save.pc = "rebind" /\ save.at <= Len(b) /\ save.tree \in DOMAIN Effect[b[save.at].edit]
      /\ save' = [save EXCEPT !.tree = Effect[b[save.at].edit][@], !.at = @ + 1]
      /\ UNCHANGED <<disk, session, apply>>
  BY <1>1 DEF SaveRebindStep
<1>3. /\ save'.pc = "rebind" /\ save'.text = save.text /\ save'.target = save.target
      /\ save'.tree = Effect[b[save.at].edit][save.tree] /\ save'.at = save.at + 1
      /\ save'.prep = save.prep
  BY <1>1, <1>2 DEF Saves
<1>4. save.at \in 1..Len(b) /\ save.at \in Nat
  BY <1>1, <1>2
<1>5. save.tree = h[b[save.at].first - 1]
  <2>1. save.tree = h[RebindRevision]
    BY <1>1, <1>2 DEF SessionOver
  <2>2. CASE save.at = 1
    BY <1>1, <1>4, <2>1, <2>2 DEF RebindRevision
  <2>3. CASE save.at > 1
    <3>1. b[save.at].first - 1 = LastRevision(b[save.at - 1])
      BY <1>0, <1>1, <1>4, <2>3, ThroughAt DEF b
    <3>. QED  BY <1>1, <2>1, <2>3, <3>1 DEF RebindRevision
  <2>. QED  BY <1>4, <2>2, <2>3
<1>6. h[LastRevision(b[save.at])] = Effect[b[save.at].edit][h[b[save.at].first - 1]]
  BY <1>0, <1>1, <1>4, ThroughAt DEF b
<1>7. RebindRevision' = LastRevision(b[save.at])
  <2>1. journals'[save'.prep].batches = b /\ save'.at # 1 /\ save'.at - 1 = save.at
    BY <1>1, <1>2, <1>3, <1>4
  <2>. QED  BY <2>1 DEF RebindRevision, LastRevision
<1>. QED  BY <1>1, <1>2, <1>3, <1>5, <1>6, <1>7 DEF SessionOver, Before, After

LEMMA OverInstall ==
    ASSUME StructInv, NEW h, SessionOver(h), SaveInstall
    PROVE  SessionOver(h)'
<1>. DEFINE b == Newer(save.target)
<1>0. Through(h, h[save.target], b)
  BY SavesThrough DEF SaveInstall
<1>1. /\ save.pc = "rebind" /\ doc' = save.tree /\ pending' = b /\ fp' = save.text
      /\ journals[save.prep].batches = b /\ apply = NoApply
      /\ save' = NoSave /\ UNCHANGED <<disk, phase, rev, fault, apply, ghost, env>>
      /\ save.at = Len(b) + 1
  BY InstallFacts
<1>2. /\ b \in Seq(Batch) /\ Sound(b) /\ EndsAt(b, save.target) = rev /\ save.target \in Nat
      /\ Len(b) \in Nat /\ phase = "open"
  BY <1>1, RebindFacts
<1>3. save.tree = h[RebindRevision] /\ base = save.text /\ save.text = h[save.target]
  BY <1>1, <1>2 DEF SessionOver, After
<1>. HIDE DEF b
<1>4. RebindRevision = rev /\ (b = <<>> => rev = save.target)
  <2>1. CASE b = <<>>
    BY <1>1, <1>2, <2>1 DEF RebindRevision, EndsAt
  <2>2. CASE b # <<>>
    <3>1. save.at # 1 /\ save.at - 1 = Len(b)
      BY <1>1, <1>2, <2>2
    <3>. QED  BY <1>1, <1>2, <2>2, <3>1 DEF RebindRevision, EndsAt
  <2>. QED  BY <2>1, <2>2
<1>5. Through(h, fp', pending')
  BY <1>0, <1>1, <1>3 DEF b
<1>6. apply'.pc = "idle" /\ save'.pc = "idle"
  BY <1>1 DEF NoApply, NoSave
<1>. QED  BY <1>1, <1>2, <1>3, <1>4, <1>5, <1>6 DEF SessionOver, Before, After

LEMMA OverFault ==
    ASSUME StructInv, NEW h, SessionOver(h), SaveFault PROVE SessionOver(h)'
<1>1. /\ fault' = TRUE /\ save' = NoSave /\ apply = NoApply /\ phase = "open"
      /\ UNCHANGED <<phase, doc, rev, pending, fp, apply>>
  BY DEF SaveFault, StructInv, SaveInv
<1>. QED  BY <1>1 DEF SessionOver, Before, After, NoSave, NoApply
-----------------------------------------------------------------------------
\* The Session over a history: background, Open and replay

LEMMA OverBackground ==
    ASSUME StructInv, NEW h, SessionOver(h),
           SyncJournal \/ SaveRetryDirSync \/ (\E j \in JournalIds : ReleaseRetired(j))
    PROVE  SessionOver(h)'
<1>1. UNCHANGED <<base, phase, doc, rev, pending, fp, fault, save, apply, jid>>
  BY DEF SyncJournal, SaveRetryDirSync, ReleaseRetired
<1>2. phase = "replay" => journals'[jid].batches = journals[jid].batches
  <2>1. CASE SyncJournal \/ SaveRetryDirSync
    BY <2>1 DEF SyncJournal, SaveRetryDirSync, Mutable
  <2>2. ASSUME NEW j \in JournalIds, ReleaseRetired(j), phase = "replay"
        PROVE  journals'[jid].batches = journals[jid].batches
    <3>1. jid \in JournalIds
      BY <2>2 DEF StructInv, ReplayInv, TypeOK
    <3>. QED  BY <2>2, <3>1, ReleaseFacts
  <2>. QED  BY <2>1, <2>2
<1>3. save.pc = "rebind" => journals'[save.prep].batches = journals[save.prep].batches
  <2>. SUFFICES ASSUME save.pc = "rebind"
                PROVE  journals'[save.prep].batches = journals[save.prep].batches
    OBVIOUS
  <2>1. save.prep \in JournalIds \ (retired \cup {jid})
    BY DEF StructInv, SaveInv
  <2>2. CASE SyncJournal
    BY <2>1, <2>2, SyncFacts
  <2>3. CASE SaveRetryDirSync
    BY <2>3 DEF SaveRetryDirSync
  <2>4. ASSUME NEW j \in JournalIds, ReleaseRetired(j)
        PROVE  journals'[save.prep].batches = journals[save.prep].batches
    BY <2>1, <2>4, ReleaseFacts
  <2>. QED  BY <2>2, <2>3, <2>4
<1>. QED  BY <1>1, <1>2, <1>3, OverFrame

LEMMA OverReplay ==
    ASSUME StructInv, NEW h, SessionOver(h), ReplayBatch PROVE SessionOver(h)'
<1>. DEFINE b == journals[jid].batches
            i == Len(pending) + 1
<1>1. /\ phase = "replay" /\ b \in Seq(Batch) /\ Sound(b) /\ i \in 1..Len(b)
      /\ NextBatch = b[i] /\ NextBatch.first = rev + 1
      /\ doc' = Effect[NextBatch.edit][doc] /\ rev' = LastRevision(NextBatch)
      /\ UNCHANGED <<disk, phase, jid, fp, save>>
  BY ReplayFacts
<1>2. Through(h, fp, b) /\ doc = h[rev] /\ b # <<>> /\ base = fp
  BY <1>1 DEF SessionOver
<1>. HIDE DEF b, i
<1>3. h[LastRevision(b[i])] = Effect[b[i].edit][h[b[i].first - 1]]
  BY <1>1, <1>2, ThroughAt
<1>4. b[i].first - 1 = rev
  BY <1>1, BoundsAssumption DEF StructInv, TypeOK, Revisions
<1>5. doc' = h[rev']
  BY <1>1, <1>2, <1>3, <1>4
<1>6. Through(h, fp', journals'[jid'].batches) /\ journals'[jid'].batches # <<>>
  BY <1>1, <1>2 DEF b
<1>. QED  BY <1>1, <1>2, <1>5, <1>6 DEF SessionOver

\* Replay can begin when the journal can be replayed from the base, and what
\* it leaves in the end is an open Session.
LEMMA OverMatch ==
    ASSUME StructInv, NEW h, OpenMatching, Through(h, base, journals[jid'].batches)
    PROVE  SessionOver(h)'
<1>1. PICK j \in JournalIds :
             LET b == journals[j].batches
                 start == IF b = <<>> THEN 0 ELSE b[1].first - 1
             IN  /\ jid' = j /\ base' = base
                 /\ \A i \in JournalIds : journals'[i] = IF i \in Candidates \ {j} THEN NoFile
                                                         ELSE journals[i]
                 /\ rev' = start /\ phase' = "replay" /\ doc' = base /\ fp' = base
  BY MatchFacts
<1>2. journals'[j] = journals[j]
  BY <1>1
<1>3. Through(h, base, journals'[j].batches)
  BY <1>1, <1>2
<1>4. doc' = IF journals'[j].batches = <<>> THEN fp' ELSE h[rev']
  BY <1>1, <1>2, <1>3 DEF Through
<1>. QED  BY <1>1, <1>3, <1>4 DEF SessionOver

LEMMA OverDone ==
    ASSUME StructInv, NEW h \in Histories, SessionOver(h), ReplayDone
    PROVE  /\ pending # <<>> => \A g : (\A r \in Revisions : r <= rev => g[r] = h[r])
                                           => SessionOver(g)'
           /\ pending = <<>> => \A g : g[0] = base => SessionOver(g)'
<1>1. /\ phase = "replay" /\ phase' = "open" /\ pending = journals[jid].batches
      /\ apply' = NoApply /\ save' = NoSave /\ fault' = FALSE
      /\ committed = IF pending = <<>> THEN 0 ELSE pending[1].first - 1
      /\ rev = EndsAt(pending, committed)
      /\ UNCHANGED <<base, doc, rev, committed, pending, jid, fp>>
  BY DoneFacts
<1>2. /\ base = fp /\ Through(h, fp, pending)
      /\ doc = IF pending = <<>> THEN fp ELSE h[rev]
  BY <1>1 DEF SessionOver
<1>3. pending = <<>> => rev = 0
  BY <1>1 DEF EndsAt
<1>4. apply'.pc = "idle" /\ save'.pc = "idle"
  BY <1>1 DEF NoApply, NoSave
<1>5. ASSUME pending # <<>>, NEW g, \A r \in Revisions : r <= rev => g[r] = h[r]
      PROVE  SessionOver(g)'
  <2>1. rev \in Revisions /\ rev \in Nat /\ rev <= rev /\ Sound(pending) /\ pending \in Seq(Batch)
    <3>1. Sound(pending) /\ pending \in Seq(Batch)
      BY DoneFacts
    <3>2. rev \in Revisions
      BY DEF StructInv, TypeOK
    <3>. QED  BY <3>1, <3>2, BoundsAssumption DEF Revisions
  <2>2. Through(g, fp, pending)
    BY <1>1, <1>2, <1>5, <2>1, ThroughTill
  <2>3. doc = g[rev]
    BY <1>2, <1>5, <2>1
  <2>4. Through(g, fp', pending')
    BY <1>1, <2>2
  <2>. QED  BY <1>1, <1>2, <1>4, <1>5, <2>3, <2>4 DEF SessionOver, Before, After
<1>6. ASSUME pending = <<>>, NEW g, g[0] = base PROVE SessionOver(g)'
  <2>1. Through(g, fp', pending')
    BY <1>1, <1>6, ThroughEmpty
  <2>. QED  BY <1>1, <1>2, <1>3, <1>4, <1>6, <2>1 DEF SessionOver, Before, After
<1>. QED  BY <1>5, <1>6

LEMMA OverFresh ==
    ASSUME StructInv, NEW h, OpenFresh \/ OpenAdopt, h[0] = base PROVE SessionOver(h)'
<1>1. /\ phase' = "open" /\ doc' = base /\ fp' = base /\ base' = base
      /\ UNCHANGED <<rev, pending, fault, apply, save>> /\ phase = "down"
  BY DEF OpenFresh, OpenAdopt
<1>2. rev = 0 /\ pending = <<>> /\ apply.pc = "idle" /\ save.pc = "idle"
  <2>1. rev = 0 /\ pending = <<>>
    BY <1>1 DEF StructInv, DownInv
  <2>2. apply = NoApply /\ save = NoSave
    BY <1>1, Quiet
  <2>. QED  BY <2>1, <2>2 DEF NoApply, NoSave
<1>3. Through(h, fp', pending')
  BY <1>1, <1>2, ThroughEmpty
<1>. QED  BY <1>1, <1>2, <1>3 DEF SessionOver, Before, After

\* Every step that neither extends the history nor begins a lineage.
LEMMA OverStep ==
    ASSUME StructInv, NEW h \in Histories, SessionOver(h), [Next]_vars, ~external',
           ~ApplyAppend, ~OpenFresh, ~OpenAdopt, ~OpenMatching, pending # <<>> \/ ~ReplayDone
    PROVE  SessionOver(h)'
<1>1. CASE ApplyPublish
  BY <1>1, OverPublish
<1>2. CASE (\E e \in Edits : ApplyBegin(e)) \/ ApplyHeader \/ ApplyHeaderFails \/ ApplyAppendFails
              \/ ApplyRollback \/ HeaderGone
  BY <1>2, OverApplies
<1>3. CASE SaveBegin \/ SaveAbort \/ SaveBarrier \/ SavePrepareHeader \/ SavePrepareFails
              \/ SaveFill \/ PreparedGone
  BY <1>3, OverSaves
<1>4. CASE SaveRename \/ (\E ok \in BOOLEAN : SaveDirSync(ok))
  BY <1>4, OverRename
<1>5. CASE SaveReopenBase
  BY <1>5, OverReopen
<1>6. CASE SaveRebindStep
  BY <1>6, OverRebind
<1>7. CASE SaveInstall
  BY <1>7, OverInstall
<1>8. CASE SaveFault
  BY <1>8, OverFault
<1>9. CASE SyncJournal \/ SaveRetryDirSync \/ (\E j \in JournalIds : ReleaseRetired(j))
  BY <1>9, OverBackground
<1>10. CASE CloseSession \/ ProcessExit \/ PowerLoss
  BY <1>10, OverDown DEF CloseSession, ProcessExit, PowerLoss, Forget
<1>11. CASE OpenBadHeader \/ OpenAmbiguous \/ GivesUp
  BY <1>11, GivesUpFacts, OverDown DEF OpenBadHeader, OpenAmbiguous, GiveUp
<1>12. CASE ReplayBatch
  BY <1>12, OverReplay
<1>13. CASE ReplayDone
  BY <1>13, OverDone
<1>14. CASE \E c \in Foreign : ExternalWrite(c)
  BY <1>14 DEF ExternalWrite
<1>15. CASE UNCHANGED vars
  BY <1>15, OverFrame DEF vars
<1>. QED  BY <1>1, <1>2, <1>3, <1>4, <1>5, <1>6, <1>7, <1>8, <1>9, <1>10, <1>11, <1>12, <1>13,
             <1>14, <1>15
          DEF Next, HeaderGone, PreparedGone, GivesUp
-----------------------------------------------------------------------------
\* Journals that can be replayed, step by step

LEMMA HistIsHistory == TypeOK => hist \in Histories
BY DEF TypeOK, Histories

\* Files keep their validity when they are created empty, kept, cut or removed.
LEMMA ValidKept ==
    ASSUME StructInv, ValidFiles, ~external,
           \A j \in Candidates' : journals'[j].fp # None =>
              \/ journals'[j].batches = <<>>
              \/ \E h \in Histories : Through(h, journals'[j].fp, journals'[j].batches)
              \/ /\ j \in Candidates /\ journals'[j].fp = journals[j].fp
                 /\ \/ journals'[j].batches = journals[j].batches
                    \/ \E n \in 0..Len(journals[j].batches) :
                          journals'[j].batches = SubSeq(journals[j].batches, 1, n)
    PROVE  ValidFiles'
<1>. SUFFICES ASSUME NEW j \in Candidates', journals'[j].fp # None
              PROVE  \E h \in Histories : Through(h, journals'[j].fp, journals'[j].batches)
  BY DEF ValidFiles, Candidates
<1>1. CASE journals'[j].batches = <<>>
  BY <1>1, ThroughEmpty, HistIsHistory DEF StructInv
<1>2. CASE \E h \in Histories : Through(h, journals'[j].fp, journals'[j].batches)
  BY <1>2
<1>3. CASE j \in Candidates /\ journals'[j].fp = journals[j].fp
           /\ journals'[j].batches = journals[j].batches
  BY <1>3 DEF ValidFiles
<1>4. ASSUME j \in Candidates, journals'[j].fp = journals[j].fp,
             NEW n \in 0..Len(journals[j].batches),
             journals'[j].batches = SubSeq(journals[j].batches, 1, n)
      PROVE  \E h \in Histories : Through(h, journals'[j].fp, journals'[j].batches)
  <2>1. PICK h \in Histories : Through(h, journals[j].fp, journals[j].batches)
    BY <1>4 DEF ValidFiles
  <2>2. journals[j].batches \in Seq(Batch) /\ Sound(journals[j].batches)
    BY <1>4, FileType, JournalFields DEF StructInv, FilesInv, File, Candidates
  <2>3. Through(h, journals[j].fp, SubSeq(journals[j].batches, 1, n))
    BY <1>4, <2>1, <2>2, ThroughPrefix
  <2>. QED  BY <1>4, <2>1, <2>3
<1>. QED  BY <1>1, <1>2, <1>3, <1>4

\* Files that other files' changes leave alone.
LEMMA ValidOthers ==
    ASSUME StructInv, ValidFiles, ~external, NEW j \in JournalIds,
           \A i \in JournalIds \ {j} : journals'[i] = journals[i],
           j \in Candidates' /\ journals'[j].fp # None =>
              \/ journals'[j].batches = <<>>
              \/ \E h \in Histories : Through(h, journals'[j].fp, journals'[j].batches)
              \/ /\ j \in Candidates /\ journals'[j].fp = journals[j].fp
                 /\ \/ journals'[j].batches = journals[j].batches
                    \/ \E n \in 0..Len(journals[j].batches) :
                          journals'[j].batches = SubSeq(journals[j].batches, 1, n)
    PROVE  ValidFiles'
<1>1. \A i \in Candidates' : i # j => i \in Candidates /\ journals'[i] = journals[i]
  BY DEF Candidates
<1>. QED  BY <1>1, ValidKept

LEMMA ValidSame == ValidFiles /\ ~external /\ UNCHANGED journals => ValidFiles'
BY SMTT(30) DEF ValidFiles, Candidates, Through

LEMMA ValidApplies ==
    ASSUME StructInv, ValidInv, ~external,
           (\E e \in Edits : ApplyBegin(e)) \/ ApplyHeader \/ ApplyAppend \/ ApplyRollback
              \/ HeaderGone
    PROVE  ValidFiles'
<1>1. ASSUME NEW e \in Edits, ApplyBegin(e) PROVE ValidFiles'
  <2>1. CASE jid # None
    BY <1>1, <2>1, ValidSame DEF ApplyBegin, ValidInv
  <2>2. CASE jid = None
    <3>1. PICK j \in JournalIds : Free(j) /\ journals' = [journals EXCEPT ![j] = NewJournal]
      BY <1>1, <2>2 DEF ApplyBegin
    <3>2. journals'[j] = NewJournal /\ \A i \in JournalIds \ {j} : journals'[i] = journals[i]
      BY <3>1, CreateFacts DEF StructInv
    <3>3. journals'[j].batches = <<>>
      BY <3>2 DEF NewJournal
    <3>. QED  BY <3>2, <3>3, ValidOthers DEF ValidInv
  <2>. QED  BY <2>1, <2>2
<1>2. CASE ApplyHeader
  BY <1>2, HeaderFacts, ValidOthers DEF ValidInv
<1>3. CASE ApplyAppend
  <2>1. PICK h \in Histories : SessionOver(h)
    BY DEF ValidInv, ValidSession
  <2>2. PICK g \in Histories : Through(g, fp, Append(pending, NewBatch(apply.edit)))
    BY <1>3, <2>1, OverAppend
  <2>3. /\ jid \in JournalIds /\ \A i \in JournalIds \ {jid} : journals'[i] = journals[i]
        /\ journals'[jid].fp = fp
        /\ journals'[jid].batches = Append(pending, NewBatch(apply.edit))
    BY <1>3, AppendedFacts
  <2>4. \E h1 \in Histories : Through(h1, journals'[jid].fp, journals'[jid].batches)
    BY <2>2, <2>3
  <2>. QED  BY <2>3, <2>4, ValidOthers DEF ValidInv
<1>4. CASE ApplyRollback
  <2>1. PICK h \in Histories : SessionOver(h)
    BY DEF ValidInv, ValidSession
  <2>2. /\ jid \in JournalIds /\ \A i \in JournalIds \ {jid} : journals'[i] = journals[i]
        /\ journals'[jid].fp = journals[jid].fp /\ journals'[jid].batches = pending
        /\ phase = "open" /\ jid # None
    BY <1>4, RollbackFacts
  <2>3. journals[jid].fp = fp /\ Through(h, fp, pending)
    BY <2>1, <2>2 DEF StructInv, OpenInv, SessionOver
  <2>4. \E h1 \in Histories : Through(h1, journals'[jid].fp, journals'[jid].batches)
    BY <2>2, <2>3
  <2>. QED  BY <2>2, <2>4, ValidOthers DEF ValidInv
<1>5. CASE HeaderGone
  <2>1. apply.file \in JournalIds /\ journals' = [journals EXCEPT ![apply.file] = NoFile]
    BY <1>5, GoneFacts
  <2>2. /\ \A i \in JournalIds \ {apply.file} : journals'[i] = journals[i]
        /\ apply.file \notin Candidates'
    BY <2>1, RemoveFacts, ZenonT(40) DEF StructInv
  <2>. QED  BY <2>1, <2>2, ValidOthers DEF ValidInv
<1>. QED  BY <1>1, <1>2, <1>3, <1>4, <1>5

LEMMA ValidSaves ==
    ASSUME StructInv, ValidInv, ~external,
           SyncJournal \/ SaveBarrier \/ SavePrepareHeader \/ SaveFill \/ PreparedGone
             \/ (\E j \in JournalIds : ReleaseRetired(j))
    PROVE  ValidFiles'
<1>1. CASE SyncJournal
  <2>1. /\ jid \in JournalIds /\ \A i \in JournalIds \ {jid} : journals'[i] = journals[i]
        /\ File(jid) /\ journals'[jid].fp = journals[jid].fp
        /\ journals'[jid].entry = journals[jid].entry
        /\ journals'[jid].batches = journals[jid].batches
    BY <1>1, SyncFacts
  <2>2. jid \in Candidates' => jid \in Candidates
    BY <2>1 DEF Candidates, File
  <2>. QED  BY <2>1, <2>2, ValidOthers DEF ValidInv
<1>2. CASE SaveBarrier
  <2>1. PICK j \in JournalIds : Free(j) /\ journals' = [journals EXCEPT ![j] = NewJournal]
    BY <1>2 DEF SaveBarrier
  <2>2. journals'[j] = NewJournal /\ \A i \in JournalIds \ {j} : journals'[i] = journals[i]
    BY <2>1, CreateFacts DEF StructInv
  <2>3. journals'[j].batches = <<>>
    BY <2>2 DEF NewJournal
  <2>. QED  BY <2>2, <2>3, ValidOthers DEF ValidInv
<1>3. CASE SavePrepareHeader
  BY <1>3, PrepareFacts, ValidOthers DEF ValidInv
<1>4. CASE SaveFill
  <2>1. PICK h \in Histories : SessionOver(h)
    BY DEF ValidInv, ValidSession
  <2>2. /\ save.pc = "fill" /\ save.prep \in JournalIds /\ journals'[save.prep].fp = save.text
        /\ journals'[save.prep].batches = Newer(save.target) /\ Candidates' = Candidates
        /\ \A i \in JournalIds \ {save.prep} :
              /\ journals'[i] = NoFile <=> journals[i] = NoFile
              /\ File(i) => /\ journals'[i].fp = journals[i].fp
                            /\ journals'[i].batches = journals[i].batches
    BY <1>4, FillFacts
  <2>3. Through(h, h[save.target], Newer(save.target)) /\ save.text = h[save.target]
    <3>1. phase = "open"
      BY <2>2, TargetFacts
    <3>. QED  BY <2>1, <2>2, <3>1, SavesThrough DEF SessionOver
  <2>4. \E h1 \in Histories : Through(h1, journals'[save.prep].fp, journals'[save.prep].batches)
    BY <2>2, <2>3
  <2>5. \A j \in Candidates' : j # save.prep =>
           /\ j \in Candidates /\ journals'[j].fp = journals[j].fp
           /\ journals'[j].batches = journals[j].batches
    BY <2>2 DEF Candidates, File
  <2>. QED  BY <2>4, <2>5, ValidKept DEF ValidInv
<1>5. CASE PreparedGone
  <2>1. save.prep \in JournalIds /\ journals' = [journals EXCEPT ![save.prep] = NoFile]
    BY <1>5, PreparedFacts DEF StructInv, SaveInv
  <2>2. /\ \A i \in JournalIds \ {save.prep} : journals'[i] = journals[i]
        /\ save.prep \notin Candidates'
    BY <2>1, RemoveFacts, ZenonT(40) DEF StructInv
  <2>. QED  BY <2>1, <2>2, ValidOthers DEF ValidInv
<1>6. ASSUME NEW j \in JournalIds, ReleaseRetired(j) PROVE ValidFiles'
  <2>1. j \notin Candidates' /\ \A i \in JournalIds \ {j} : journals'[i] = journals[i]
    BY <1>6, ReleaseFacts
  <2>. QED  BY <2>1, ValidOthers DEF ValidInv
<1>. QED  BY <1>1, <1>2, <1>3, <1>4, <1>5, <1>6

LEMMA ValidEnds ==
    ASSUME StructInv, ValidInv, ~external, CloseSession \/ ProcessExit \/ PowerLoss
    PROVE  ValidFiles'
<1>1. CASE CloseSession
  <2>1. CASE jid = None
    BY <1>1, <2>1, CloseFacts, ValidSame DEF ValidInv
  <2>2. CASE jid # None
    <3>1. /\ jid \in JournalIds /\ \A i \in JournalIds \ {jid} : journals'[i] = journals[i]
          /\ File(jid)
          /\ journals'[jid] # NoFile => /\ journals'[jid].batches = journals[jid].batches
                                        /\ journals'[jid].fp = journals[jid].fp
                                        /\ journals'[jid].entry = journals[jid].entry
      BY <1>1, <2>2, CloseFacts
    <3>2. jid \in Candidates' => jid \in Candidates /\ journals'[jid] # NoFile
      BY <3>1 DEF Candidates, File
    <3>. QED  BY <3>1, <3>2, ValidOthers DEF ValidInv
  <2>. QED  BY <2>1, <2>2
<1>2. CASE ProcessExit
  <2>1. /\ Candidates' = Candidates
        /\ \A j \in JournalIds : File(j) => /\ journals'[j].fp = journals[j].fp
                                            /\ journals'[j].batches = journals[j].batches
    BY <1>2, ExitFacts
  <2>2. \A j \in Candidates' : /\ j \in Candidates /\ journals'[j].fp = journals[j].fp
                               /\ journals'[j].batches = journals[j].batches
    BY <2>1 DEF Candidates, File
  <2>. QED  BY <2>2, ValidKept DEF ValidInv
<1>3. CASE PowerLoss
  <2>1. \A j \in JournalIds : journals'[j] # NoFile =>
                 /\ j \in Candidates /\ journals'[j].fp = journals[j].fp
                 /\ \E n \in 0..Len(journals[j].batches) :
                       journals'[j].batches = SubSeq(journals[j].batches, 1, n)
    BY <1>3, LossFacts
  <2>2. \A j \in Candidates' : j \in JournalIds /\ journals'[j] # NoFile
    BY DEF Candidates
  <2>. QED  BY <2>1, <2>2, ValidKept DEF ValidInv
<1>. QED  BY <1>1, <1>2, <1>3

LEMMA ValidOpens ==
    ASSUME StructInv, ValidInv, ~external,
           OpenBadHeader \/ OpenAmbiguous \/ GivesUp \/ OpenMatching \/ OpenAdopt \/ ReplayDone
    PROVE  ValidFiles'
<1>1. CASE ReplayDone
  <2>1. /\ jid \in JournalIds /\ \A i \in JournalIds \ {jid} : journals'[i] = journals[i]
        /\ journals'[jid].fp = journals[jid].fp
        /\ journals'[jid].batches = journals[jid].batches /\ Candidates' = Candidates
    BY <1>1, DoneFacts
  <2>. QED  BY <2>1, ValidOthers DEF ValidInv
<1>2. CASE OpenBadHeader \/ OpenAmbiguous \/ GivesUp \/ OpenMatching
  <2>1. \E S : Quarantine(S)
    BY <1>2, GivesUpFacts DEF OpenBadHeader, OpenAmbiguous, GiveUp, OpenMatching
  <2>2. PICK S : Quarantine(S)
    BY <2>1
  <2>3. /\ Candidates' = Candidates \ S
        /\ \A j \in JournalIds : journals'[j] = IF j \in S THEN NoFile ELSE journals[j]
    BY <2>2, QuarantineFacts
  <2>4. \A j \in Candidates' : j \in Candidates /\ journals'[j] = journals[j]
    BY <2>3 DEF Candidates
  <2>. QED  BY <2>4, ValidKept DEF ValidInv
<1>3. CASE OpenAdopt
  <2>1. PICK j \in JournalIds : Candidates' = {j} /\ journals'[j].batches = <<>>
    BY <1>3, AdoptFacts
  <2>. QED  BY <2>1, ValidKept DEF ValidInv
<1>. QED  BY <1>1, <1>2, <1>3
-----------------------------------------------------------------------------
\* Validity: the theorem

LEMMA ValidInit == Init => ValidInv
<1>. SUFFICES ASSUME Init PROVE ValidInv
  OBVIOUS
<1>1. Candidates = {}
  BY DEF Init, Candidates
<1>2. hist \in Histories
  BY StructInit, HistIsHistory DEF StructInv
<1>3. PICK h \in Histories : h = hist
  BY <1>2
<1>4. SessionOver(h)
  BY DEF Init, SessionOver
<1>. QED  BY <1>1, <1>3, <1>4 DEF ValidInv, ValidFiles, ValidSession

LEMMA ValidStep == StructInv /\ ValidInv /\ [Next]_vars => ValidInv'
<1>. SUFFICES ASSUME StructInv, ValidInv, [Next]_vars, ~external' PROVE ValidInv'
  BY DEF ValidInv, ValidFiles, ValidSession
<1>1. hist \in Histories /\ base \in Contents
  BY HistIsHistory DEF StructInv, TypeOK
<1>2. ASSUME NEW h \in Histories
      PROVE  [h EXCEPT ![0] = base] \in Histories /\ [h EXCEPT ![0] = base][0] = base
  BY <1>1, IdleTypes DEF Histories
<1>3. CASE external
  <2>1. OpenFresh \/ GivesUp
    BY <1>3 DEF Next, vars, GivesUp, ApplyBegin, ApplyHeader, ApplyHeaderFails,
           ApplyHeaderUnsynced, ApplyHeaderRemoved, SavePrepareUnsynced, OpenAdopt, ApplyAppend,
           ApplyAppendFails, ApplyPublish, ApplyRollback, SyncJournal, SaveBegin, SaveAbort,
           SaveBarrier, SavePrepareHeader, SavePrepareFails, SaveFill, SaveDiscard, SaveRename,
           SaveDirSync, SaveReopenBase, SaveRebindStep, SaveInstall, SaveFault, SaveRetryDirSync,
           ReleaseRetired, CloseSession, ProcessExit, PowerLoss, ExternalWrite, OpenBadHeader,
           OpenAmbiguous, OpenMatching, ReplayBatch, ReplayDone
  <2>2. Candidates' = {}
    <3>1. CASE OpenFresh
      BY <3>1 DEF OpenFresh, Candidates
    <3>2. CASE GivesUp
      BY <3>2, GivesUpFacts, QuarantineFacts DEF GiveUp
    <3>. QED  BY <2>1, <3>1, <3>2
  <2>3. ValidFiles'
    BY <2>2 DEF ValidFiles
  <2>4. PICK g \in Histories : g[0] = base
    BY <1>1, <1>2
  <2>5. SessionOver(g)'
    BY <2>1, <2>4, OverFresh, OverDown, GivesUpFacts DEF GiveUp
  <2>. QED  BY <2>3, <2>4, <2>5, SMTT(40) DEF ValidInv, ValidSession
<1>4. CASE ~external
  <2>1. PICK h \in Histories : SessionOver(h)
    BY <1>4 DEF ValidInv, ValidSession
  <2>2. \E g \in Histories : SessionOver(g)'
    <3>1. CASE ApplyAppend
      BY <2>1, <3>1, OverAppend
    <3>2. CASE OpenFresh \/ OpenAdopt
      BY <1>2, <2>1, <3>2, OverFresh
    <3>3. CASE OpenMatching
      <4>1. PICK j \in JournalIds : jid' = j /\ j \in Candidates /\ journals[j].fp = base
                                    /\ base \in Contents
        BY <3>3, MatchFacts
      <4>2. \E g \in Histories : Through(g, base, journals[jid'].batches)
        BY <1>4, <4>1, EffectAssumption DEF ValidInv, ValidFiles
      <4>. QED  BY <3>3, <4>2, OverMatch
    <3>4. CASE ReplayDone /\ pending = <<>>
      BY <1>2, <2>1, <3>4, OverDone
    <3>. QED  BY <2>1, <3>1, <3>2, <3>3, <3>4, OverStep
  <2>3. ValidFiles'
    <3>1. CASE UNCHANGED journals
      BY <1>4, <3>1, ValidSame DEF ValidInv
    <3>2. CASE (\E e \in Edits : ApplyBegin(e)) \/ ApplyHeader \/ ApplyAppend \/ ApplyRollback
               \/ HeaderGone
      BY <1>4, <3>2, ValidApplies
    <3>3. CASE SyncJournal \/ SaveBarrier \/ SavePrepareHeader \/ SaveFill \/ PreparedGone
               \/ (\E j \in JournalIds : ReleaseRetired(j))
      BY <1>4, <3>3, ValidSaves
    <3>4. CASE CloseSession \/ ProcessExit \/ PowerLoss
      BY <1>4, <3>4, ValidEnds
    <3>5. CASE OpenBadHeader \/ OpenAmbiguous \/ GivesUp \/ OpenMatching \/ OpenAdopt
               \/ ReplayDone
      BY <1>4, <3>5, ValidOpens
    <3>. QED  BY <3>1, <3>2, <3>3, <3>4, <3>5
              DEF Next, vars, HeaderGone, PreparedGone, GivesUp, ApplyHeaderFails, ApplyAppendFails, ApplyPublish, SaveBegin,
                  SaveAbort, SavePrepareFails, SaveRename, SaveDirSync, SaveReopenBase,
                  SaveRebindStep, SaveInstall, SaveFault, SaveRetryDirSync, ExternalWrite,
                  OpenFresh, ReplayBatch
  <2>. QED  BY <2>2, <2>3 DEF ValidInv, ValidSession
<1>. QED  BY <1>3, <1>4

LEMMA ValidInvariance == Spec => [](StructInv /\ ValidInv)
<1>1. Init => StructInv /\ ValidInv
  BY StructInit, ValidInit
<1>2. (StructInv /\ ValidInv) /\ [Next]_vars => (StructInv /\ ValidInv)'
  BY StructStep, ValidStep
<1>. QED  BY <1>1, <1>2, PTL DEF Spec

\* A journal this program wrote is replayed to its end by every later Open,
\* also when a content came back or part of the journal was lost: the loop of
\* replay meets no gap in the revisions and no operation that does not apply.
THEOREM ReplayIsTotal == Spec => []ReplayNeverRejects
<1>1. StructInv /\ ValidInv => ReplayNeverRejects
  <2>. SUFFICES ASSUME StructInv, ValidInv, phase = "replay", ~external,
                       Len(pending) < Len(journals[jid].batches)
                PROVE  NextBatch.first = rev + 1 /\ doc \in DOMAIN Effect[NextBatch.edit]
    BY DEF ReplayNeverRejects
  <2>. DEFINE b == journals[jid].batches
              i == Len(pending) + 1
  <2>1. /\ b \in Seq(Batch) /\ Sound(b) /\ pending \in Seq(Batch) /\ rev = EndsAt(pending, committed)
        /\ \A k \in 1..Len(pending) : pending[k] = b[k]
        /\ committed = IF b = <<>> THEN 0 ELSE b[1].first - 1
    BY FileType, JournalFields DEF StructInv, ReplayInv, FilesInv, TypeOK
  <2>2. i \in 1..Len(b) /\ b # <<>> /\ NextBatch = b[i] /\ Len(pending) \in Nat
    BY <2>1 DEF NextBatch
  <2>3. PICK h \in Histories : SessionOver(h)
    BY DEF ValidInv, ValidSession
  <2>4. Through(h, fp, b) /\ doc = h[rev]
    BY <2>2, <2>3 DEF SessionOver
  <2>. HIDE DEF b
  <2>5. b[i].first - 1 = rev
    <3>1. CASE pending = <<>>
      <4>1. i = 1
        BY <3>1
      <4>2. EndsAt(pending, committed) = committed
        BY <3>1 DEF EndsAt
      <4>. QED  BY <2>1, <2>2, <4>1, <4>2
    <3>2. CASE pending # <<>>
      <4>1. i > 1 /\ i - 1 = Len(pending) /\ Len(pending) \in 1..Len(pending)
        BY <2>1, <2>2, <3>2
      <4>2. b[i].first - 1 = LastRevision(b[i - 1])
        BY <2>1, <2>2, <2>4, <4>1, ThroughAt
      <4>3. rev = LastRevision(b[Len(pending)])
        BY <2>1, <3>2, <4>1 DEF EndsAt
      <4>. QED  BY <4>1, <4>2, <4>3
    <3>. QED  BY <3>1, <3>2
  <2>6. b[i].first \in Nat /\ rev \in Nat
    BY <2>1, <2>2, Touches, BoundsAssumption DEF StructInv, TypeOK, Revisions
  <2>7. h[b[i].first - 1] \in DOMAIN Effect[b[i].edit]
    BY <2>1, <2>2, <2>4, ThroughAt
  <2>. QED  BY <2>2, <2>4, <2>5, <2>6, <2>7
<1>. QED  BY <1>1, ValidInvariance, PTL
-----------------------------------------------------------------------------
\* A journal and the content it belongs to

LEMMA LargerFacts ==
    ASSUME NEW r \in Nat, NEW s \in Nat
    PROVE  /\ Larger(r, s) \in Nat /\ Larger(r, s) >= r /\ Larger(r, s) >= s
           /\ Larger(r, s) \in {r, s} /\ (s <= r => Larger(r, s) = r) /\ (r <= s => Larger(r, s) = s)
BY DEF Larger

\* Syncing more of a journal, or its directory, loses nothing.
LEMMA SurvivesMore ==
    ASSUME NEW f, NEW g, NEW h, NEW c, NEW r, Survives(f, h, c, r), g.batches = f.batches,
           f.batches \in Seq(Batch), f.synced \in Nat, g.synced \in Nat, g.synced >= f.synced,
           g.entry = "new" => f.entry = "new"
    PROVE  Survives(g, h, c, r)
<1>1. g.synced = 0 => f.synced = 0
  OBVIOUS
<1>2. \A n \in 1..Len(g.batches) : n >= g.synced => n >= f.synced
  OBVIOUS
<1>. QED  BY <1>1, <1>2 DEF Survives

LEMMA CarriesMore ==
    ASSUME NEW f, NEW g, NEW h, NEW c, NEW r, NEW a, NEW d, NEW v, NEW w,
           Carries(f, h, c, r, a, d, v), g.fp = f.fp, g.batches = f.batches, ~w => ~v,
           f.batches \in Seq(Batch), f.synced \in Nat, g.synced \in Nat, g.synced >= f.synced,
           g.entry = "new" => f.entry = "new"
    PROVE  Carries(g, h, c, r, a, d, w)
<1>1. Survives(g, h, c, Larger(d, r))
  BY SurvivesMore DEF Carries
<1>2. Keeps(g, h, c, a) /\ r = StartsAt(g, a)
  BY DEF Carries, Keeps, StartsAt
<1>. QED  BY <1>1, <1>2 DEF Carries

\* A journal that is wholly on disk survives with all it keeps.
LEMMA HardSurvives ==
    ASSUME NEW f, NEW h, NEW c, NEW a \in Nat, NEW r \in Nat, r <= a, Hard(f),
           f.batches \in Seq(Batch), Sound(f.batches), Keeps(f, h, c, a), f.batches = <<>> => r = a
    PROVE  Survives(f, h, c, r)
<1>1. Len(f.batches) \in Nat /\ (Len(f.batches) = 0 => f.batches = <<>>)
  OBVIOUS
<1>2. f.synced = 0 \/ f.entry = "new" => c = h[r]
  BY <1>1 DEF Hard, Keeps
<1>3. ASSUME NEW n \in 1..Len(f.batches), n >= f.synced PROVE LastRevision(f.batches[n]) >= r
  <2>1. n = Len(f.batches) /\ f.batches # <<>>
    BY <1>1, <1>3 DEF Hard
  <2>2. LastRevision(f.batches[n]) >= a /\ LastRevision(f.batches[n]) \in Nat
    BY <2>1, Touches DEF Keeps, EndsAt
  <2>. QED  BY <2>2
<1>. QED  BY <1>2, <1>3 DEF Survives

LEMMA HardCarries ==
    ASSUME NEW f, NEW h, NEW c, NEW r \in Nat, NEW a \in Nat, NEW d \in Nat, NEW v,
           Hard(f), f.batches \in Seq(Batch), Sound(f.batches), f.fp = c, Keeps(f, h, c, a),
           d <= a, r <= a, r = StartsAt(f, a), ~v => r <= d
    PROVE  Carries(f, h, c, r, a, d, v)
<1>1. /\ Larger(d, r) \in Nat /\ Larger(d, r) <= a /\ (r = a => Larger(d, r) = a)
  BY DEF Larger
<1>2. f.batches = <<>> => r = a
  BY DEF StartsAt
<1>3. Survives(f, h, c, Larger(d, r))
  BY <1>1, <1>2, HardSurvives
<1>. QED  BY <1>3 DEF Carries

\* What a power loss leaves of a journal carries the durable revision.
LEMMA LossCarries ==
    ASSUME NEW f, NEW g, NEW h, NEW c, NEW r \in Revisions, NEW a \in Nat, NEW d \in Revisions,
           NEW v, ~v, Carries(f, h, c, r, a, d, v), f.batches \in Seq(Batch), Sound(f.batches),
           f.synced \in Nat, NEW n \in 0..Len(f.batches), n >= f.synced, g.fp = f.fp,
           g.synced = n, g.entry = "synced", g.batches = SubSeq(f.batches, 1, n)
    PROVE  \E s \in Revisions : Carries(g, h, c, s, d, d, v)
<1>. DEFINE b == f.batches
<1>1. /\ SubSeq(b, 1, n) \in Seq(Batch) /\ Len(SubSeq(b, 1, n)) = n
      /\ \A i \in 1..n : SubSeq(b, 1, n)[i] = b[i]
  BY SoundPrefix
<1>2. /\ r <= d /\ r \in Nat /\ d \in Nat /\ Larger(d, r) = d /\ Larger(d, d) = d
      /\ Survives(f, h, c, d) /\ Keeps(f, h, c, a) /\ f.fp = c
  BY LargerFacts, BoundsAssumption DEF Carries, Revisions
<1>3. CASE n = 0
  <2>1. g.batches = <<>> /\ f.synced = 0
    BY <1>1, <1>3
  <2>2. c = h[d]
    BY <1>2, <2>1 DEF Survives
  <2>3. Keeps(g, h, c, d) /\ Survives(g, h, c, d) /\ StartsAt(g, d) = d
    BY <2>1, <2>2 DEF Keeps, Survives, StartsAt
  <2>4. Carries(g, h, c, d, d, d, v)
    BY <1>2, <2>3 DEF Carries
  <2>. QED  BY <2>4
<1>4. CASE n > 0
  <2>1. b # <<>> /\ n \in 1..Len(b) /\ n \in 1..n /\ 1 \in 1..n
    BY <1>4
  <2>2. g.batches # <<>> /\ g.batches[1] = b[1] /\ g.batches[n] = b[n] /\ Len(g.batches) = n
    BY <1>1, <2>1
  <2>3. LastRevision(b[n]) >= d
    BY <1>2, <2>1 DEF Survives
  <2>4. EndsAt(g.batches, d) >= d
    BY <2>2, <2>3 DEF EndsAt
  <2>5. Through(h, c, g.batches)
    <3>1. Through(h, c, b)
      BY <1>2, <2>1 DEF Keeps
    <3>. QED  BY <3>1, ThroughPrefix
  <2>6. Keeps(g, h, c, d)
    BY <2>2, <2>4, <2>5 DEF Keeps
  <2>7. Survives(g, h, c, d)
    <3>1. ASSUME NEW m \in 1..Len(g.batches), m >= g.synced
          PROVE  LastRevision(g.batches[m]) >= d
      <4>1. m = n
        BY <2>2, <3>1
      <4>. QED  BY <2>2, <2>3, <4>1
    <3>. QED  BY <1>4, <3>1 DEF Survives
  <2>8. r = StartsAt(g, d)
    BY <2>1, <2>2 DEF StartsAt, Carries
  <2>9. Carries(g, h, c, r, d, d, v)
    BY <1>2, <2>6, <2>7, <2>8 DEF Carries
  <2>. QED  BY <2>9
<1>. QED  BY <1>3, <1>4

LEMMA FoundFacts ==
    /\ Matching = Found(journals, base)
    /\ \A c : Found(journals, c) = {j \in Candidates : journals[j].fp = c}
    /\ \A c : Found(journals, c)' = {j \in Candidates' : journals'[j].fp = c}
BY DEF Matching, Candidates, Found
-----------------------------------------------------------------------------
\* What the Session itself keeps of its history

\* The types of the numbers and files the proofs below compare.
LEMMA TrustTypes ==
    ASSUME StructInv
    PROVE  /\ rev \in Nat /\ committed \in Nat /\ acked \in Nat /\ durable \in Nat
           /\ rev \in Revisions /\ committed \in Revisions /\ acked \in Revisions
           /\ durable \in Revisions /\ base \in Contents /\ base # None /\ hist \in Histories
           /\ volatile \in BOOLEAN /\ stray \in BOOLEAN
           /\ \A j \in JournalIds : File(j) =>
                 /\ journals[j].batches \in Seq(Batch) /\ Sound(journals[j].batches)
                 /\ journals[j].synced \in Nat /\ journals[j].synced <= Len(journals[j].batches)
                 /\ journals[j].entry \in {"new", "synced", "removed"}
           /\ \A j \in Candidates : j \in JournalIds /\ File(j) /\ journals[j].entry # "removed"
<1>1. TypeOK /\ FilesInv
  BY DEF StructInv
<1>2. \A j \in JournalIds : File(j) => journals[j] \in Journal
  BY <1>1, FileType
<1>3. \A j \in JournalIds : File(j) =>
         /\ journals[j].batches \in Seq(Batch) /\ Sound(journals[j].batches)
         /\ journals[j].synced \in Nat /\ journals[j].synced <= Len(journals[j].batches)
         /\ journals[j].entry \in {"new", "synced", "removed"}
  BY <1>1, <1>2, JournalFields DEF FilesInv
<1>4. \A j \in Candidates : j \in JournalIds /\ File(j) /\ journals[j].entry # "removed"
  BY DEF Candidates, File
<1>. QED  BY <1>1, <1>3, <1>4, HistIsHistory, EffectAssumption, BoundsAssumption DEF TypeOK, Revisions

LEMMA CurrentKeeps ==
    ASSUME StructInv, SessionOver(hist), phase = "open", ~fault
    PROVE  /\ fp = hist[committed]
           /\ jid # None =>
                /\ jid \in JournalIds /\ File(jid) /\ journals[jid].fp = fp
                /\ Keeps(journals[jid], hist, fp, acked) /\ committed = StartsAt(journals[jid], acked)
<1>1. /\ Through(hist, fp, pending) /\ (pending = <<>> => fp = hist[rev])
      /\ rev = EndsAt(pending, committed) /\ acked = rev /\ Sound(pending)
      /\ pending # <<>> => pending[1].first = committed + 1
      /\ pending \in Seq(Batch) /\ committed \in Nat /\ rev \in Nat
  BY TrustTypes DEF SessionOver, StructInv, OpenInv, TypeOK
<1>2. pending = <<>> => rev = committed
  BY <1>1 DEF EndsAt
<1>3. pending # <<>> => pending[1].first - 1 = committed
  BY <1>1
<1>4. fp = hist[committed]
  BY <1>1, <1>2, <1>3 DEF Through
<1>. SUFFICES ASSUME jid # None
              PROVE  /\ jid \in JournalIds /\ File(jid) /\ journals[jid].fp = fp
                     /\ Keeps(journals[jid], hist, fp, acked)
                     /\ committed = StartsAt(journals[jid], acked)
  BY <1>4
<1>5. /\ jid \in JournalIds /\ File(jid) /\ journals[jid].fp = fp
      /\ journals[jid].batches =
            IF apply.pc = "publish" THEN Append(pending, NewBatch(apply.edit)) ELSE pending
  BY DEF StructInv, OpenInv, TypeOK
<1>6. CASE apply.pc # "publish"
  <2>1. journals[jid].batches = pending
    BY <1>5, <1>6
  <2>2. EndsAt(pending, acked) = rev
    BY <1>1 DEF EndsAt
  <2>3. Keeps(journals[jid], hist, fp, acked)
    BY <1>1, <2>1, <2>2 DEF Keeps
  <2>4. committed = StartsAt(journals[jid], acked)
    BY <1>1, <1>2, <1>3, <2>1 DEF StartsAt
  <2>. QED  BY <1>5, <2>3, <2>4
<1>7. CASE apply.pc = "publish"
  <2>. DEFINE n == NewBatch(apply.edit)
              b == Append(pending, n)
  <2>1. journals[jid].batches = b
    BY <1>5, <1>7
  <2>2. n \in Batch /\ n.first = rev + 1 /\ LastRevision(n) = rev + Width[apply.edit]
        /\ rev + Width[apply.edit] > rev /\ rev + Width[apply.edit] \in Revisions
    BY <1>7, NewBatchFacts DEF StructInv
  <2>3. Through(hist, fp, b)
    BY <1>7, PublishThrough
  <2>4. Len(b) = Len(pending) + 1 /\ b[Len(pending) + 1] = n /\ b # <<>> /\ Len(pending) \in Nat
        /\ \A i \in 1..Len(pending) : b[i] = pending[i]
    BY <1>1, <2>2, AppendFacts
  <2>. HIDE DEF n, b
  <2>5. EndsAt(b, acked) = rev + Width[apply.edit]
    BY <2>2, <2>4 DEF EndsAt
  <2>6. Keeps(journals[jid], hist, fp, acked)
    BY <1>1, <2>1, <2>2, <2>3, <2>4, <2>5, BoundsAssumption DEF Keeps, Revisions
  <2>7. b[1].first - 1 = committed
    <3>1. CASE pending = <<>>
      <4>1. b[1] = n
        BY <2>4, <3>1
      <4>. QED  BY <1>1, <1>2, <2>2, <3>1, <4>1
    <3>2. CASE pending # <<>>
      <4>1. b[1] = pending[1]
        BY <1>1, <2>4, <3>2
      <4>. QED  BY <1>3, <3>2, <4>1
    <3>. QED  BY <3>1, <3>2
  <2>8. committed = StartsAt(journals[jid], acked)
    BY <2>1, <2>4, <2>7 DEF StartsAt
  <2>. QED  BY <1>5, <2>6, <2>8
<1>. QED  BY <1>6, <1>7

LEMMA PreparedKeeps ==
    ASSUME StructInv, SessionOver(hist), save.pc \in {"barrier", "renamed", "replaced", "rebind"}
    PROVE  /\ save.prep \in Candidates \ (retired \cup {jid}) /\ save.prep \in JournalIds
           /\ File(save.prep) /\ Hard(journals[save.prep]) /\ journals[save.prep].fp = save.text
           /\ Keeps(journals[save.prep], hist, save.text, acked) /\ save.text = hist[save.target]
           /\ save.target = StartsAt(journals[save.prep], acked) /\ save.target <= acked
           /\ save.target \in Nat /\ phase = "open" /\ ~fault /\ jid # None
           /\ save.target \in Revisions
<1>1. /\ phase = "open" /\ ~fault /\ jid # None /\ save.target \in Nat /\ rev \in Nat
      /\ save.target <= rev /\ pending \in Seq(Batch) /\ Sound(pending)
      /\ rev = EndsAt(pending, committed) /\ acked = rev /\ save.target \in Revisions
  BY TargetFacts DEF StructInv, OpenInv, TypeOK, SaveInv
<1>2. /\ save.prep \in JournalIds \ (retired \cup {jid}) /\ File(save.prep)
      /\ journals[save.prep].fp = save.text /\ journals[save.prep].batches = Newer(save.target)
      /\ journals[save.prep].entry = "synced" /\ Hard(journals[save.prep])
  BY DEF StructInv, SaveInv, Hard
<1>3. save.prep \in Candidates
  BY <1>2 DEF Candidates, File
<1>4. save.text = hist[save.target]
  BY <1>1 DEF SessionOver
<1>5. PICK k \in 1..Len(pending) : Splits(k, save.target)
  BY DEF StructInv, SaveInv
<1>6. /\ EndsAt(Newer(save.target), save.target) = rev
      /\ Newer(save.target) # <<>> => Newer(save.target)[1].first = save.target + 1
  BY <1>1, <1>5, NewerFacts
<1>7. Through(hist, save.text, Newer(save.target))
  BY <1>4, SavesThrough
<1>8. Newer(save.target) = <<>> => save.target = acked
  BY <1>1, <1>6 DEF EndsAt
<1>9. EndsAt(Newer(save.target), acked) = acked
  BY <1>1, <1>6 DEF EndsAt
<1>10. Keeps(journals[save.prep], hist, save.text, acked)
  BY <1>1, <1>2, <1>4, <1>7, <1>8, <1>9 DEF Keeps
<1>11. save.target = StartsAt(journals[save.prep], acked)
  BY <1>1, <1>2, <1>6, <1>8 DEF StartsAt
<1>. QED  BY <1>1, <1>2, <1>3, <1>4, <1>10, <1>11
-----------------------------------------------------------------------------
\* The journal of the base

LEMMA OnlyOne ==
    ASSUME DistinctInv, Trusted, NEW p \in Candidates, NEW c, journals[p].fp = c, c # None
    PROVE  Found(journals, c) = {p}
BY FoundFacts DEF DistinctInv

\* While a Session is open, exactly one journal belongs to the base, or none
\* was needed yet: the current one, the one a save has prepared, or the one a
\* failed save left.
LEMMA OpenPair ==
    ASSUME StructInv, TrustInv, Trusted, phase = "open"
    PROVE  \/ /\ jid = None /\ Matching = {} /\ base = hist[acked] /\ durable = acked
              /\ Candidates \subseteq BadHeaders
           \/ \E p \in Candidates \ retired :
                 /\ Matching = {p}
                 /\ \E r \in Revisions : Carries(journals[p], hist, base, r, acked, durable,
                                                 volatile \/ save.pc = "renamed")
<1>. DEFINE v == volatile \/ save.pc = "renamed"
<1>1. /\ committed \in Nat /\ acked \in Nat /\ durable \in Nat /\ committed \in Revisions
      /\ base \in Contents /\ base # None /\ durable <= acked /\ committed <= acked
      /\ SessionOver(hist) /\ DistinctInv
  BY TrustTypes DEF TrustInv, HistoryInv, StructInv, OpenInv
<1>2. ASSUME NEW p \in Candidates \ retired, journals[p].fp = base, NEW r \in Revisions,
             Carries(journals[p], hist, base, r, acked, durable, v)
      PROVE  \E q \in Candidates \ retired :
                 /\ Matching = {q}
                 /\ \E s \in Revisions : Carries(journals[q], hist, base, s, acked, durable, v)
  <2>1. Matching = {p}
    BY <1>1, <1>2, OnlyOne, FoundFacts
  <2>. QED  BY <1>2, <2>1
<1>3. CASE jid = None
  <2>1. /\ save.pc = "idle" /\ fault = FALSE /\ pending = <<>> /\ rev = 0 /\ acked = rev
        /\ Candidates \subseteq BadHeaders
    BY <1>3 DEF StructInv, OpenInv, SaveInv
  <2>2. base = fp /\ fp = hist[rev]
    BY <1>1, <2>1 DEF SessionOver, Before
  <2>3. Matching = {}
    BY <1>1, <2>1 DEF Matching, BadHeaders
  <2>. QED  BY <1>1, <1>3, <2>1, <2>2, <2>3
<1>4. CASE fault
  <2>1. PICK p \in Candidates \ (retired \cup {jid}) :
           Carries(journals[p], hist, base, committed, acked, durable, volatile)
    BY <1>4 DEF TrustInv, OpenTrust
  <2>2. save.pc = "idle"
    BY <1>4 DEF StructInv, SaveInv
  <2>3. journals[p].fp = base
    BY <2>1 DEF Carries
  <2>4. Carries(journals[p], hist, base, committed, acked, durable, v)
    BY <2>1, <2>2 DEF Carries
  <2>5. p \in Candidates \ retired
    OBVIOUS
  <2>. HIDE DEF v
  <2>6. \E q \in Candidates \ retired :
           /\ Matching = {q}
           /\ \E s \in Revisions : Carries(journals[q], hist, base, s, acked, durable, v)
    BY <1>1, <1>2, <2>3, <2>4, <2>5
  <2>. QED  BY <2>6 DEF v
<1>5. CASE jid # None /\ ~fault /\ save.pc \in Before
  <2>1. base = fp
    BY <1>1, <1>5 DEF SessionOver
  <2>2. /\ jid \in Candidates \ retired
        /\ Survives(journals[jid], hist, fp, Larger(durable, committed))
        /\ ~volatile => committed <= durable
    BY <1>5 DEF TrustInv, OpenTrust
  <2>3. /\ journals[jid].fp = fp /\ Keeps(journals[jid], hist, fp, acked)
        /\ committed = StartsAt(journals[jid], acked)
    BY <1>1, <1>5, CurrentKeeps
  <2>4. Carries(journals[jid], hist, base, committed, acked, durable, v)
    BY <2>1, <2>2, <2>3 DEF Carries
  <2>. HIDE DEF v
  <2>5. \E q \in Candidates \ retired :
           /\ Matching = {q}
           /\ \E s \in Revisions : Carries(journals[q], hist, base, s, acked, durable, v)
    BY <1>1, <1>2, <2>1, <2>2, <2>3, <2>4
  <2>. QED  BY <2>5 DEF v
<1>6. CASE save.pc \in After
  <2>1. /\ save.prep \in Candidates \ (retired \cup {jid}) /\ save.prep \in JournalIds
        /\ File(save.prep) /\ Hard(journals[save.prep]) /\ journals[save.prep].fp = save.text
        /\ Keeps(journals[save.prep], hist, save.text, acked)
        /\ save.target = StartsAt(journals[save.prep], acked) /\ save.target <= acked
        /\ save.target \in Nat /\ save.target \in Revisions
    BY <1>1, <1>6, PreparedKeeps DEF After
  <2>2. base = save.text
    BY <1>1, <1>6 DEF SessionOver
  <2>3. ~v => save.target <= durable
    BY <1>6 DEF TrustInv, OpenTrust, After
  <2>4. journals[save.prep].batches \in Seq(Batch) /\ Sound(journals[save.prep].batches)
    BY <2>1, TrustTypes
  <2>. HIDE DEF v
  <2>5. Carries(journals[save.prep], hist, base, save.target, acked, durable, v)
    BY <1>1, <2>1, <2>2, <2>3, <2>4, HardCarries
  <2>6. \E q \in Candidates \ retired :
           /\ Matching = {q}
           /\ \E s \in Revisions : Carries(journals[q], hist, base, s, acked, durable, v)
    BY <1>2, <2>1, <2>2, <2>5
  <2>. QED  BY <2>6 DEF v
<1>7. save.pc \in Before \/ save.pc \in After
  BY DEF StructInv, TypeOK, SavePhases, Before, After
<1>. QED  BY <1>3, <1>4, <1>5, <1>6, <1>7 DEF StructInv, SaveInv

\* What an Open would find now, whatever the Session is doing.
LEMMA BasePair ==
    ASSUME StructInv, TrustInv, Trusted
    PROVE  Pair(journals, hist, base, acked, durable, volatile \/ save.pc = "renamed")
<1>. DEFINE v == volatile \/ save.pc = "renamed"
<1>1. CASE phase # "open"
  <2>1. save.pc # "renamed"
    BY <1>1, Quiet DEF NoSave
  <2>2. Pair(journals, hist, base, acked, durable, volatile)
    BY <1>1 DEF TrustInv, DownTrust
  <2>3. \A j, r : Carries(journals[j], hist, base, r, acked, durable, volatile)
                    => Carries(journals[j], hist, base, r, acked, durable, v)
    BY <2>1 DEF Carries
  <2>. QED  BY <2>1, <2>2, <2>3 DEF Pair
<1>2. CASE phase = "open" /\ Matching = {} /\ base = hist[acked] /\ durable = acked
  BY <1>2, FoundFacts DEF Pair
<1>3. CASE \E p \in Candidates \ retired :
              /\ Matching = {p}
              /\ \E r \in Revisions : Carries(journals[p], hist, base, r, acked, durable, v)
  <2>. HIDE DEF v
  <2>1. Pair(journals, hist, base, acked, durable, v)
    BY <1>3, FoundFacts DEF Pair
  <2>. QED  BY <2>1 DEF v
<1>. QED  BY <1>1, <1>2, <1>3, OpenPair
-----------------------------------------------------------------------------
\* One content, one journal

LEMMA TrustBegins ==
    ASSUME [Next]_vars, Trusted', ~Trusted PROVE OpenFresh \/ GivesUp
<1>. SUFFICES ASSUME ~OpenFresh, ~GivesUp PROVE FALSE
  BY SMTT(40)
<1>1. ASSUME external PROVE external'
  BY <1>1, ZenonT(40) DEF Next, vars, ApplyBegin, ApplyHeader, ApplyHeaderFails, ApplyAppend,
         ApplyAppendFails, ApplyPublish, ApplyRollback, SyncJournal, SaveBegin, SaveAbort,
         SaveBarrier, SavePrepareHeader, SavePrepareFails, SaveFill, SaveDiscard, SaveRename,
         SaveDirSync, SaveReopenBase, SaveRebindStep, SaveInstall, SaveFault, SaveRetryDirSync,
         ReleaseRetired, CloseSession, ProcessExit, PowerLoss, ExternalWrite, OpenBadHeader,
         OpenAmbiguous, OpenMatching, ReplayBatch, ReplayDone, ApplyHeaderUnsynced,
         ApplyHeaderRemoved, SavePrepareUnsynced, OpenAdopt, GivesUp
<1>2. ASSUME aba PROVE aba'
  BY <1>2 DEF Next, vars, ApplyBegin, ApplyHeader, ApplyHeaderFails, ApplyAppend,
         ApplyAppendFails, ApplyPublish, ApplyRollback, SyncJournal, SaveBegin, SaveAbort,
         SaveBarrier, SavePrepareHeader, SavePrepareFails, SaveFill, SaveDiscard, SaveRename,
         SaveDirSync, SaveReopenBase, SaveRebindStep, SaveInstall, SaveFault, SaveRetryDirSync,
         ReleaseRetired, CloseSession, ProcessExit, PowerLoss, ExternalWrite, OpenBadHeader,
         OpenAmbiguous, OpenMatching, ReplayBatch, ReplayDone, ApplyHeaderUnsynced,
         ApplyHeaderRemoved, SavePrepareUnsynced, OpenAdopt, GivesUp
<1>. QED  BY <1>1, <1>2 DEF Trusted

\* An Open that starts a lineage leaves no journal.
LEMMA FreshFiles ==
    ASSUME StructInv, OpenFresh \/ GivesUp
    PROVE  /\ Candidates' = {} /\ hist'[0] = base /\ base' = base /\ acked' = 0 /\ durable' = 0
           /\ stray' = FALSE /\ (OpenFresh => phase' = "open") /\ (GivesUp => phase' = "down")
<1>1. CASE OpenFresh
  <2>1. ~GivesUp
    BY <1>1 DEF OpenFresh, GivesUp, OpenMismatch, OpenFails, GiveUp, session
  <2>2. Candidates = {} /\ StartLineage /\ UNCHANGED <<base, journals>> /\ stray' = FALSE
        /\ phase' = "open"
    BY <1>1 DEF OpenFresh, disk
  <2>. QED  BY <2>1, <2>2, LineageTypes DEF Candidates, StartLineage
<1>2. CASE GivesUp
  <2>1. /\ phase = "down" /\ Quarantine(Candidates) /\ StartLineage /\ stray' = FALSE
        /\ phase' = "down" /\ base' = base
    BY <1>2, GivesUpFacts DEF GiveUp, session
  <2>2. Candidates' = Candidates \ Candidates
    BY <2>1, QuarantineFacts
  <2>. QED  BY <2>1, <2>2, LineageTypes DEF OpenFresh, StartLineage
<1>. QED  BY <1>1, <1>2

LEMMA DistinctKept ==
    ASSUME DistinctInv, Trusted,
           \A j \in Candidates' : journals'[j].fp # None =>
              j \in Candidates /\ journals'[j].fp = journals[j].fp
    PROVE  DistinctInv'
BY DEF DistinctInv

LEMMA DistinctOthers ==
    ASSUME DistinctInv, Trusted, NEW p \in JournalIds,
           \A i \in JournalIds \ {p} : journals'[i] = journals[i],
           p \in Candidates' /\ journals'[p].fp # None =>
              p \in Candidates /\ journals'[p].fp = journals[p].fp
    PROVE  DistinctInv'
<1>1. \A j \in Candidates' : j # p => j \in Candidates /\ journals'[j].fp = journals[j].fp
  BY DEF Candidates
<1>. QED  BY <1>1, DistinctKept

LEMMA DistinctSame == DistinctInv /\ Trusted /\ UNCHANGED journals => DistinctInv'
BY DEF DistinctInv, Candidates

LEMMA DistinctApplies ==
    ASSUME StructInv, DistinctInv, Trusted,
           (\E e \in Edits : ApplyBegin(e)) \/ ApplyHeader \/ ApplyAppend \/ ApplyRollback
             \/ HeaderGone
    PROVE  DistinctInv'
<1>1. ASSUME NEW e \in Edits, ApplyBegin(e) PROVE DistinctInv'
  <2>1. CASE jid # None
    BY <1>1, <2>1, DistinctSame DEF ApplyBegin
  <2>2. CASE jid = None
    <3>1. PICK j \in JournalIds : Free(j) /\ journals' = [journals EXCEPT ![j] = NewJournal]
      BY <1>1, <2>2 DEF ApplyBegin
    <3>2. journals'[j] = NewJournal /\ \A i \in JournalIds \ {j} : journals'[i] = journals[i]
      BY <3>1, CreateFacts DEF StructInv
    <3>3. journals'[j].fp = None
      BY <3>2 DEF NewJournal
    <3>. QED  BY <3>2, <3>3, DistinctOthers
  <2>. QED  BY <2>1, <2>2
<1>2. CASE ApplyHeader
  <2>1. /\ \A i \in JournalIds \ {apply.file} : journals'[i] = journals[i]
        /\ Candidates' = Candidates /\ Candidates \subseteq BadHeaders
    BY <1>2, HeaderFacts
  <2>2. \A i \in Candidates' : i # apply.file => journals'[i].fp = None
    BY <2>1 DEF BadHeaders, Candidates
  <2>. QED  BY <2>2 DEF DistinctInv
<1>3. CASE ApplyAppend
  <2>1. /\ jid \in JournalIds /\ \A i \in JournalIds \ {jid} : journals'[i] = journals[i]
        /\ journals'[jid].fp = journals[jid].fp /\ Candidates' = Candidates
    BY <1>3, AppendedFacts
  <2>. QED  BY <2>1, DistinctOthers
<1>4. CASE ApplyRollback
  <2>1. /\ jid \in JournalIds /\ \A i \in JournalIds \ {jid} : journals'[i] = journals[i]
        /\ journals'[jid].fp = journals[jid].fp /\ journals'[jid].entry = journals[jid].entry
        /\ File(jid)
    BY <1>4, RollbackFacts
  <2>2. jid \in Candidates' => jid \in Candidates
    BY <2>1 DEF Candidates, File
  <2>. QED  BY <2>1, <2>2, DistinctOthers
<1>5. CASE HeaderGone
  <2>1. apply.file \in JournalIds /\ journals' = [journals EXCEPT ![apply.file] = NoFile]
    BY <1>5, GoneFacts
  <2>2. /\ \A i \in JournalIds \ {apply.file} : journals'[i] = journals[i]
        /\ apply.file \notin Candidates'
    BY <2>1, RemoveFacts, ZenonT(40) DEF StructInv
  <2>. QED  BY <2>1, <2>2, DistinctOthers
<1>. QED  BY <1>1, <1>2, <1>3, <1>4, <1>5

LEMMA DistinctSaves ==
    ASSUME StructInv, DistinctInv, Trusted, Trusted',
           SyncJournal \/ SaveBarrier \/ SavePrepareHeader \/ SaveFill \/ PreparedGone
             \/ (\E j \in JournalIds : ReleaseRetired(j))
    PROVE  DistinctInv'
<1>1. CASE SyncJournal
  <2>1. /\ jid \in JournalIds /\ \A i \in JournalIds \ {jid} : journals'[i] = journals[i]
        /\ journals'[jid].fp = journals[jid].fp /\ Candidates' = Candidates
    BY <1>1, SyncFacts
  <2>. QED  BY <2>1, DistinctOthers
<1>2. CASE SaveBarrier
  <2>1. PICK j \in JournalIds : Free(j) /\ journals' = [journals EXCEPT ![j] = NewJournal]
    BY <1>2 DEF SaveBarrier
  <2>2. journals'[j] = NewJournal /\ \A i \in JournalIds \ {j} : journals'[i] = journals[i]
    BY <2>1, CreateFacts DEF StructInv
  <2>3. journals'[j].fp = None
    BY <2>2 DEF NewJournal
  <2>. QED  BY <2>2, <2>3, DistinctOthers
<1>3. CASE SavePrepareHeader
  <2>1. \A j \in Candidates : journals[j].fp # save.text
    BY <1>3 DEF SavePrepareHeader, Trusted
  <2>2. /\ save.prep \in JournalIds /\ journals'[save.prep].fp = save.text
        /\ \A i \in JournalIds \ {save.prep} : journals'[i] = journals[i]
        /\ Candidates' = Candidates
    BY <1>3, PrepareFacts
  <2>3. \A j \in Candidates' : j # save.prep => /\ j \in Candidates /\ journals'[j] = journals[j]
                                                /\ journals'[j].fp # save.text
    BY <2>1, <2>2 DEF Candidates
  <2>. QED  BY <2>2, <2>3 DEF DistinctInv
<1>4. CASE SaveFill
  <2>1. /\ save.prep \in JournalIds /\ Candidates' = Candidates
        /\ journals'[save.prep].fp = save.text
        /\ \A i \in JournalIds \ {save.prep} : File(i) => journals'[i].fp = journals[i].fp
        /\ save.pc = "fill"
    BY <1>4, FillFacts
  <2>2. journals[save.prep].fp = save.text
    BY <2>1 DEF StructInv, SaveInv, NewJournal
  <2>3. \A j \in Candidates' : j \in Candidates /\ journals'[j].fp = journals[j].fp
    BY <2>1, <2>2 DEF Candidates, File
  <2>. QED  BY <2>3, DistinctKept
<1>5. CASE PreparedGone
  <2>1. save.prep \in JournalIds /\ journals' = [journals EXCEPT ![save.prep] = NoFile]
    BY <1>5, PreparedFacts DEF StructInv, SaveInv
  <2>2. /\ \A i \in JournalIds \ {save.prep} : journals'[i] = journals[i]
        /\ save.prep \notin Candidates'
    BY <2>1, RemoveFacts, ZenonT(40) DEF StructInv
  <2>. QED  BY <2>1, <2>2, DistinctOthers
<1>6. ASSUME NEW j \in JournalIds, ReleaseRetired(j) PROVE DistinctInv'
  <2>1. j \notin Candidates' /\ \A i \in JournalIds \ {j} : journals'[i] = journals[i]
    BY <1>6, ReleaseFacts
  <2>. QED  BY <2>1, DistinctOthers
<1>. QED  BY <1>1, <1>2, <1>3, <1>4, <1>5, <1>6

LEMMA DistinctEnds ==
    ASSUME StructInv, DistinctInv, Trusted, CloseSession \/ ProcessExit \/ PowerLoss
    PROVE  DistinctInv'
<1>1. CASE CloseSession
  <2>1. CASE jid = None
    BY <1>1, <2>1, CloseFacts, DistinctSame
  <2>2. CASE jid # None
    <3>1. /\ jid \in JournalIds /\ \A i \in JournalIds \ {jid} : journals'[i] = journals[i]
          /\ File(jid)
          /\ journals'[jid] # NoFile => /\ journals'[jid].fp = journals[jid].fp
                                        /\ journals'[jid].entry = journals[jid].entry
      BY <1>1, <2>2, CloseFacts
    <3>2. jid \in Candidates' => jid \in Candidates /\ journals'[jid] # NoFile
      BY <3>1 DEF Candidates, File
    <3>. QED  BY <3>1, <3>2, DistinctOthers
  <2>. QED  BY <2>1, <2>2
<1>2. CASE ProcessExit
  <2>1. /\ Candidates' = Candidates
        /\ \A j \in JournalIds : File(j) => journals'[j].fp = journals[j].fp
    BY <1>2, ExitFacts
  <2>2. \A j \in Candidates' : j \in Candidates /\ journals'[j].fp = journals[j].fp
    BY <2>1 DEF Candidates, File
  <2>. QED  BY <2>2, DistinctKept
<1>3. CASE PowerLoss
  <2>1. \A j \in JournalIds : journals'[j] # NoFile =>
                 j \in Candidates /\ journals'[j].fp = journals[j].fp
    BY <1>3, LossFacts
  <2>2. \A j \in Candidates' : j \in JournalIds /\ journals'[j] # NoFile
    BY DEF Candidates
  <2>. QED  BY <2>1, <2>2, DistinctKept
<1>. QED  BY <1>1, <1>2, <1>3

LEMMA DistinctOpens ==
    ASSUME StructInv, DistinctInv, Trusted,
           OpenBadHeader \/ OpenAmbiguous \/ GivesUp \/ OpenMatching \/ OpenAdopt \/ ReplayDone
    PROVE  DistinctInv'
<1>1. CASE ReplayDone
  <2>1. /\ jid \in JournalIds /\ \A i \in JournalIds \ {jid} : journals'[i] = journals[i]
        /\ journals'[jid].fp = journals[jid].fp /\ Candidates' = Candidates
    BY <1>1, DoneFacts
  <2>. QED  BY <2>1, DistinctOthers
<1>2. CASE OpenBadHeader \/ OpenAmbiguous \/ GivesUp \/ OpenMatching
  <2>1. \E S : Quarantine(S)
    BY <1>2, GivesUpFacts DEF OpenBadHeader, OpenAmbiguous, GiveUp, OpenMatching
  <2>2. PICK S : Quarantine(S)
    BY <2>1
  <2>3. /\ Candidates' = Candidates \ S
        /\ \A j \in JournalIds : journals'[j] = IF j \in S THEN NoFile ELSE journals[j]
    BY <2>2, QuarantineFacts
  <2>4. \A j \in Candidates' : j \in Candidates /\ journals'[j] = journals[j]
    BY <2>3 DEF Candidates
  <2>. QED  BY <2>4, DistinctKept
<1>3. CASE OpenAdopt
  <2>1. PICK j \in JournalIds : Candidates' = {j}
    BY <1>3, AdoptFacts
  <2>. QED  BY <2>1 DEF DistinctInv
<1>. QED  BY <1>1, <1>2, <1>3

LEMMA DistinctStep == StructInv /\ DistinctInv /\ [Next]_vars => DistinctInv'
<1>. SUFFICES ASSUME StructInv, DistinctInv, [Next]_vars, Trusted' PROVE DistinctInv'
  BY DEF DistinctInv
<1>1. CASE ~Trusted
  <2>1. Candidates' = {}
    BY <1>1, TrustBegins, FreshFiles
  <2>. QED  BY <2>1 DEF DistinctInv
<1>2. CASE Trusted
  <2>1. CASE UNCHANGED journals
    BY <1>2, <2>1, DistinctSame
  <2>2. CASE (\E e \in Edits : ApplyBegin(e)) \/ ApplyHeader \/ ApplyAppend \/ ApplyRollback
             \/ HeaderGone
    BY <1>2, <2>2, DistinctApplies
  <2>3. CASE SyncJournal \/ SaveBarrier \/ SavePrepareHeader \/ SaveFill \/ PreparedGone
             \/ (\E j \in JournalIds : ReleaseRetired(j))
    BY <1>2, <2>3, DistinctSaves
  <2>4. CASE CloseSession \/ ProcessExit \/ PowerLoss
    BY <1>2, <2>4, DistinctEnds
  <2>5. CASE OpenBadHeader \/ OpenAmbiguous \/ GivesUp \/ OpenMatching \/ OpenAdopt \/ ReplayDone
    BY <1>2, <2>5, DistinctOpens
  <2>. QED  BY <2>1, <2>2, <2>3, <2>4, <2>5
            DEF Next, vars, ApplyHeaderFails, ApplyAppendFails, ApplyPublish, SaveBegin,
                SaveAbort, SavePrepareFails, SaveRename, SaveDirSync, SaveReopenBase,
                SaveRebindStep, SaveInstall, SaveFault, SaveRetryDirSync, ExternalWrite,
                OpenFresh, ReplayBatch, HeaderGone, PreparedGone, GivesUp
<1>. QED  BY <1>1, <1>2
-----------------------------------------------------------------------------
\* The history is that of the Session

\* A history that stays where the Session is over it.
LEMMA OverHist ==
    ASSUME NEW h, SessionOver(h)', hist' = h PROVE SessionOver(hist)'
BY DEF SessionOver, RebindRevision

\* A matching journal leads from the base through the history.
LEMMA MatchThrough ==
    ASSUME StructInv, TrustInv, Trusted, phase # "open", NEW j \in Matching
    PROVE  \E r \in Revisions :
              /\ Carries(journals[j], hist, base, r, acked, durable, volatile)
              /\ Through(hist, base, journals[j].batches)
<1>1. PICK r \in Revisions : Carries(journals[j], hist, base, r, acked, durable, volatile)
  BY FoundFacts DEF TrustInv, DownTrust, Pair
<1>2. Through(hist, base, journals[j].batches)
  BY <1>1, ThroughEmpty DEF Carries, Keeps
<1>. QED  BY <1>1, <1>2

LEMMA OverHistory ==
    ASSUME StructInv, TrustInv, [Next]_vars, Trusted'
    PROVE  SessionOver(hist)'
<1>1. CASE ~Trusted
  <2>1. OpenFresh \/ GivesUp
    BY <1>1, TrustBegins
  <2>2. PICK g : g = hist'
    OBVIOUS
  <2>3. SessionOver(g)'
    BY <2>1, <2>2, FreshFiles, OverFresh, OverDown
  <2>. QED  BY <2>2, <2>3, OverHist
<1>2. CASE Trusted
  <2>1. hist \in Histories /\ SessionOver(hist)
    BY <1>2, TrustTypes DEF TrustInv, HistoryInv
  <2>2. PICK h \in Histories : h = hist
    BY <2>1
  <2>3. SessionOver(h)
    BY <2>1, <2>2
  <2>4. CASE ApplyAppend
    <3>1. PICK g \in Histories :
             /\ g = [h EXCEPT ![rev + Width[apply.edit]] = Effect[apply.edit][doc]]
             /\ SessionOver(g)'
      BY <2>3, <2>4, OverAppend
    <3>2. hist' = g
      BY <2>2, <2>4, <3>1 DEF ApplyAppend
    <3>. QED  BY <3>1, <3>2, OverHist
  <2>5. CASE OpenFresh \/ OpenAdopt \/ GivesUp \/ OpenAmbiguous
    <3>1. PICK g : g = hist'
      OBVIOUS
    <3>2. SessionOver(g)'
      <4>1. CASE OpenFresh
        BY <3>1, <4>1, FreshFiles, OverFresh
      <4>2. CASE GivesUp \/ OpenAmbiguous
        <5>1. phase' = "down"
          BY <4>2, GivesUpFacts DEF GiveUp, OpenAmbiguous, session
        <5>. QED  BY <5>1, OverDown
      <4>3. CASE OpenAdopt
        <5>1. hist'[0] = base
          BY <4>3, AdoptFacts, LineageTypes
        <5>. QED  BY <3>1, <4>3, <5>1, OverFresh
      <4>. QED  BY <2>5, <4>1, <4>2, <4>3
    <3>. QED  BY <3>1, <3>2, OverHist
  <2>6. CASE OpenMatching
    <3>1. PICK j \in JournalIds : Matching = {j} /\ jid' = j /\ phase = "down"
      BY <2>6, MatchFacts
    <3>2. Through(hist, base, journals[j].batches)
      BY <1>2, <3>1, MatchThrough
    <3>3. SessionOver(h)'
      BY <2>2, <2>6, <3>1, <3>2, OverMatch
    <3>4. hist' = h
      BY <2>2, <2>6 DEF OpenMatching
    <3>. QED  BY <3>3, <3>4, OverHist
  <2>7. CASE ReplayDone /\ pending = <<>>
    <3>1. PICK g : g = hist'
      OBVIOUS
    <3>2. g[0] = base
      BY <2>7, <3>1, LineageTypes DEF ReplayDone
    <3>3. SessionOver(g)'
      BY <2>3, <2>7, <3>2, OverDone
    <3>. QED  BY <3>1, <3>3, OverHist
  <2>8. CASE ReplayDone /\ pending # <<>>
    <3>1. PICK g : g = hist'
      OBVIOUS
    <3>2. \A r \in Revisions : r <= rev => g[r] = h[r]
      <4>1. g = TillNow(h) /\ rev \in Nat
        BY <2>2, <2>8, <3>1, DoneFacts, TrustTypes
      <4>. QED  BY <4>1, BoundsAssumption DEF TillNow, Revisions
    <3>3. SessionOver(g)'
      BY <2>3, <2>8, <3>2, OverDone
    <3>. QED  BY <3>1, <3>3, OverHist
  <2>9. CASE ApplyRollback
    <3>1. PICK g : g = hist'
      OBVIOUS
    <3>2. \A r \in Revisions : r <= rev => g[r] = h[r]
      <4>1. /\ g = [h EXCEPT ![rev + Width[apply.edit]] = None] /\ rev \in Nat
            /\ rev + Width[apply.edit] > rev /\ rev + Width[apply.edit] \in Revisions
        BY <2>2, <2>9, <3>1, RollbackFacts, NewBatchFacts, TrustTypes DEF StructInv
      <4>. QED  BY <4>1, BoundsAssumption DEF Histories, Revisions
    <3>3. SessionOver(g)'
      BY <2>3, <2>9, <3>2, OverRollback
    <3>. QED  BY <3>1, <3>3, OverHist
  <2>10. CASE ~ApplyAppend /\ ~OpenFresh /\ ~OpenAdopt /\ ~OpenMatching /\ ~GivesUp
              /\ ~OpenAmbiguous /\ ~ReplayDone /\ ~ApplyRollback
    <3>1. SessionOver(h)'
      BY <2>3, <2>10, OverStep, SMTT(40) DEF Trusted
    <3>2. hist' = hist
      BY <2>10, ZenonT(40)
         DEF Next, vars, ApplyBegin, ApplyHeader, ApplyHeaderFails, ApplyAppendFails, ApplyPublish,
             SyncJournal, SaveBegin, SaveAbort, SaveBarrier, SavePrepareHeader,
             SavePrepareFails, SaveFill, SaveDiscard, SaveRename, SaveDirSync, SaveReopenBase,
             SaveRebindStep, SaveInstall, SaveFault, SaveRetryDirSync, ReleaseRetired,
             CloseSession, ProcessExit, PowerLoss, ExternalWrite, OpenBadHeader, ReplayBatch,
             ApplyHeaderUnsynced, ApplyHeaderRemoved, SavePrepareUnsynced, GivesUp
    <3>. QED  BY <2>2, <3>1, <3>2, OverHist
  <2>. QED  BY <2>4, <2>5, <2>6, <2>7, <2>8, <2>9, <2>10
<1>. QED  BY <1>1, <1>2

\* What replay reached is no older than what was answered.
LEMMA ReplayReaches ==
    ASSUME StructInv, TrustInv, Trusted, ReplayDone, pending # <<>>
    PROVE  /\ rev >= acked /\ doc = hist[rev] /\ base = fp
           /\ \E r \in Revisions :
                 /\ Carries(journals[jid], hist, base, r, acked, durable, volatile)
                 /\ r = committed
<1>1. /\ phase = "replay" /\ jid \in Matching /\ pending = journals[jid].batches
      /\ rev = EndsAt(pending, committed) /\ committed = pending[1].first - 1
  BY DoneFacts DEF TrustInv, DownTrust
<1>2. PICK r \in Revisions : Carries(journals[jid], hist, base, r, acked, durable, volatile)
  BY <1>1, MatchThrough
<1>3. rev >= acked /\ r = committed
  BY <1>1, <1>2 DEF Carries, Keeps, StartsAt, EndsAt
<1>4. doc = hist[rev] /\ base = fp
  BY <1>1 DEF TrustInv, HistoryInv, SessionOver
<1>. QED  BY <1>2, <1>3, <1>4

LEMMA DurableBound ==
    ASSUME StructInv, TrustInv, [Next]_vars, Trusted'
    PROVE  durable' <= acked'
<1>1. CASE OpenFresh \/ OpenAdopt \/ GivesUp \/ OpenAmbiguous \/ (ReplayDone /\ pending = <<>>)
  <2>1. StartLineage
    BY <1>1, GivesUpFacts DEF OpenFresh, OpenAdopt, GiveUp, OpenAmbiguous, ReplayDone
  <2>. QED  BY <2>1 DEF StartLineage
<1>. SUFFICES ASSUME ~OpenFresh, ~OpenAdopt, ~GivesUp, ~OpenAmbiguous,
                     ~(ReplayDone /\ pending = <<>>)
              PROVE  durable' <= acked'
  BY <1>1
<1>2. Trusted
  BY TrustBegins
<1>3. /\ durable <= acked /\ durable \in Nat /\ acked \in Nat /\ rev \in Nat /\ committed \in Nat
      /\ phase = "open" => acked = rev /\ committed <= rev
  BY <1>2, TrustTypes DEF TrustInv, HistoryInv, StructInv, OpenInv
<1>4. CASE ApplyPublish
  <2>1. phase = "open" /\ rev + Width[apply.edit] > rev /\ rev + Width[apply.edit] \in Nat
    BY <1>4, NewBatchFacts, BoundsAssumption DEF ApplyPublish, StructInv, Revisions
  <2>. QED  BY <1>3, <1>4, <2>1 DEF ApplyPublish
<1>5. CASE ReplayDone
  <2>1. acked' = rev /\ durable' = durable /\ rev >= acked
    BY <1>2, <1>5, DoneFacts, ReplayReaches
  <2>. QED  BY <1>3, <2>1
<1>6. CASE PowerLoss
  BY <1>3, <1>6, LossFacts
<1>7. CASE SaveRetryDirSync
  BY <1>3, <1>7 DEF SaveRetryDirSync, Mutable
<1>8. CASE SyncJournal \/ CloseSession \/ (\E ok \in BOOLEAN : SaveDirSync(ok))
  <2>1. acked' = acked /\ durable' \in {acked, durable}
    <3>1. CASE SyncJournal
      BY <3>1 DEF SyncJournal
    <3>2. CASE CloseSession
      BY <3>2 DEF CloseSession
    <3>3. ASSUME NEW ok \in BOOLEAN, SaveDirSync(ok)
          PROVE  acked' = acked /\ durable' \in {acked, durable}
      BY <3>3 DEF SaveDirSync
    <3>. QED  BY <1>8, <3>1, <3>2, <3>3
  <2>. QED  BY <1>3, <2>1
<1>9. CASE UNCHANGED <<acked, durable>>
  BY <1>3, <1>9
<1>. QED
  BY <1>4, <1>5, <1>6, <1>7, <1>8, <1>9
     DEF Next, vars, ApplyBegin, ApplyHeader, ApplyHeaderFails, ApplyAppend, ApplyAppendFails,
         ApplyRollback, SaveBegin, SaveAbort, SaveBarrier, SavePrepareHeader, SavePrepareFails,
         SaveFill, SaveDiscard, SaveRename, SaveReopenBase, SaveRebindStep, SaveInstall, SaveFault,
         ReleaseRetired, ProcessExit, ExternalWrite, OpenBadHeader, OpenMatching, ReplayBatch,
         ApplyHeaderUnsynced, ApplyHeaderRemoved, SavePrepareUnsynced, GivesUp

LEMMA HistoryStep == StructInv /\ TrustInv /\ [Next]_vars => HistoryInv'
BY OverHistory, DurableBound DEF HistoryInv
-----------------------------------------------------------------------------
\* An open Session keeps its pair

LEMMA OpenKept ==
    ASSUME StructInv, TrustInv, Trusted, phase = "open",
           UNCHANGED <<phase, jid, fp, committed, fault, durable, volatile, stray, hist>>,
           jid # None =>
              /\ jid \in Candidates' \ retired'
              /\ journals'[jid].batches = journals[jid].batches
              /\ journals'[jid].synced = journals[jid].synced
              /\ journals'[jid].entry = "new" => journals[jid].entry = "new",
           fault => /\ UNCHANGED <<base, acked>>
                    /\ \A p \in Candidates \ (retired \cup {jid}) :
                          p \in Candidates' \ retired' /\ journals'[p] = journals[p],
           save'.pc \in Before \cup {"renamed"} => save.pc \in Before \cup {"renamed"},
           save'.pc \in {"replaced", "rebind"} =>
              save.pc \in {"replaced", "rebind"} /\ save'.target = save.target
    PROVE  OpenTrust' /\ DownTrust'
<1>1. /\ stray = FALSE
      /\ jid # None /\ ~fault /\ save.pc \in Before \cup {"renamed"} =>
            /\ Survives(journals[jid], hist, fp, Larger(durable, committed))
            /\ ~volatile => committed <= durable
      /\ save.pc \in {"replaced", "rebind"} /\ ~volatile => save.target <= durable
      /\ fault => /\ base = hist[committed]
                  /\ \E p \in Candidates \ (retired \cup {jid}) :
                        /\ Carries(journals[p], hist, base, committed, acked, durable, volatile)
                        /\ Hard(journals[p])
  BY DEF TrustInv, OpenTrust
<1>2. jid # None => /\ journals[jid].batches \in Seq(Batch) /\ journals[jid].synced \in Nat
  BY TrustTypes DEF StructInv, OpenInv, TypeOK
<1>3. ASSUME jid' # None, ~fault', save'.pc \in Before \cup {"renamed"}
      PROVE  /\ Survives(journals'[jid'], hist', fp', Larger(durable', committed'))
             /\ ~volatile' => committed' <= durable'
  <2>1. Survives(journals[jid], hist, fp, Larger(durable, committed))
    BY <1>1, <1>3
  <2>2. Survives(journals'[jid], hist, fp, Larger(durable, committed))
    BY <1>2, <1>3, <2>1, SurvivesMore
  <2>. QED  BY <1>1, <1>3, <2>2
<1>4. ASSUME fault'
      PROVE  /\ base' = hist'[committed']
             /\ \E p \in Candidates' \ (retired' \cup {jid'}) :
                  /\ Carries(journals'[p], hist', base', committed', acked', durable', volatile')
                  /\ Hard(journals'[p])
  <2>1. PICK p \in Candidates \ (retired \cup {jid}) :
           /\ Carries(journals[p], hist, base, committed, acked, durable, volatile)
           /\ Hard(journals[p])
    BY <1>1, <1>4
  <2>2. p \in Candidates' \ (retired' \cup {jid'}) /\ journals'[p] = journals[p]
    BY <1>4, <2>1
  <2>3. Carries(journals'[p], hist', base', committed', acked', durable', volatile')
    BY <1>4, <2>1, <2>2
  <2>. QED  BY <1>1, <1>4, <2>1, <2>2, <2>3
<1>5. phase' = "open"
  OBVIOUS
<1>6. save'.pc \in {"replaced", "rebind"} /\ ~volatile' => save'.target <= durable'
  BY <1>1
<1>7. OpenTrust'
  BY <1>1, <1>3, <1>4, <1>6 DEF OpenTrust
<1>. QED  BY <1>5, <1>7 DEF DownTrust

LEMMA TrustApplies ==
    ASSUME StructInv, TrustInv, Trusted,
           (\E e \in Edits : ApplyBegin(e)) \/ ApplyHeaderFails \/ ApplyAppendFails \/ ApplyPublish
             \/ HeaderGone
    PROVE  OpenTrust' /\ DownTrust'
<1>1. /\ phase = "open" /\ ~fault /\ save.pc \in {"idle", "stream"}
      /\ UNCHANGED <<phase, jid, fp, committed, fault, durable, volatile, stray, hist, save, retired>>
  <2>1. ASSUME NEW e \in Edits, ApplyBegin(e)
        PROVE  /\ phase = "open" /\ ~fault /\ save.pc \in {"idle", "stream"}
               /\ UNCHANGED <<phase, jid, fp, committed, fault, durable, volatile, stray, hist, save,
                              retired>>
    BY <2>1 DEF ApplyBegin, Mutable, MuFree
  <2>2. CASE ApplyHeaderFails \/ ApplyAppendFails \/ ApplyPublish
    BY <2>2 DEF ApplyHeaderFails, ApplyAppendFails, ApplyPublish, StructInv, ApplyInv
  <2>3. CASE HeaderGone
    BY <2>3, GoneFacts DEF StructInv, ApplyInv, NoSave
  <2>. QED  BY <2>1, <2>2, <2>3
<1>2. jid # None => /\ jid \in Candidates \ retired /\ jid \in JournalIds
  BY <1>1 DEF TrustInv, OpenTrust, Candidates
<1>3. jid # None => /\ jid \in Candidates' \ retired' /\ journals'[jid] = journals[jid]
  <2>1. CASE UNCHANGED journals
    BY <1>1, <1>2, <2>1 DEF Candidates
  <2>2. ASSUME NEW e \in Edits, ApplyBegin(e), jid # None PROVE UNCHANGED journals
    BY <2>2 DEF ApplyBegin
  <2>3. HeaderGone => jid = None
    BY GoneFacts
  <2>. QED  BY <2>1, <2>2, <2>3 DEF ApplyHeaderFails, ApplyAppendFails, ApplyPublish
<1>. QED  BY <1>1, <1>3, OpenKept

LEMMA TrustHeader ==
    ASSUME StructInv, TrustInv, Trusted, ApplyHeader PROVE OpenTrust' /\ DownTrust'
<1>. DEFINE j == apply.file
<1>1. /\ jid = None /\ phase = "open" /\ ~fault /\ jid' = j /\ j \in JournalIds /\ j \notin retired
      /\ UNCHANGED <<base, left, phase, doc, rev, committed, pending, fp, fault, save, retired, ghost, env>>
      /\ journals'[j].fp = fp /\ journals'[j].batches = <<>> /\ journals'[j].synced = 0
      /\ Candidates' = Candidates /\ j \in Candidates /\ save.pc = "idle"
  BY HeaderFacts
<1>. HIDE DEF j
<1>2. pending = <<>> /\ rev = 0 /\ committed = 0 /\ acked = rev
  BY <1>1 DEF StructInv, OpenInv
<1>3. durable = 0
  BY <1>2, TrustTypes DEF TrustInv, HistoryInv
<1>4. fp = hist[0] /\ stray = FALSE
  BY <1>1, <1>2 DEF TrustInv, HistoryInv, SessionOver, OpenTrust
<1>5. Larger(durable, committed) = 0
  BY <1>2, <1>3 DEF Larger
<1>6. Survives(journals'[j], hist, fp, 0)
  BY <1>1, <1>4 DEF Survives
<1>7. Survives(journals'[jid'], hist', fp', Larger(durable', committed'))
  <2>1. hist' = hist /\ fp' = fp /\ durable' = durable /\ committed' = committed /\ jid' = j
    BY <1>1
  <2>. QED  BY <1>5, <1>6, <2>1
<1>8. OpenTrust'
  BY <1>1, <1>2, <1>3, <1>4, <1>7 DEF OpenTrust
<1>. QED  BY <1>1, <1>8 DEF DownTrust

LEMMA TrustAppend ==
    ASSUME StructInv, TrustInv, Trusted, ApplyAppend PROVE OpenTrust' /\ DownTrust'
<1>. DEFINE n == NewBatch(apply.edit)
            x == rev + Width[apply.edit]
            q == Larger(durable, committed)
<1>1. /\ jid \in JournalIds /\ jid # None /\ phase = "open" /\ Candidates' = Candidates
      /\ hist' = [hist EXCEPT ![x] = Effect[apply.edit][doc]]
      /\ UNCHANGED <<base, left, session, save, retired, acked, durable, external, aba, stray, env>>
      /\ pending \in Seq(Batch) /\ journals[jid].batches = pending
      /\ journals[jid].synced \in Nat /\ journals[jid].synced <= Len(pending)
      /\ journals'[jid].batches = Append(pending, n)
      /\ journals'[jid].synced = journals[jid].synced /\ journals'[jid].entry = journals[jid].entry
  BY AppendedFacts, JournalFields
<1>2. /\ n \in Batch /\ LastRevision(n) = x /\ x > rev /\ x \in Revisions /\ x \in Nat
  BY NewBatchFacts, BoundsAssumption DEF ApplyAppend, StructInv, Revisions
<1>3. ~fault /\ save.pc \in {"idle", "stream"} /\ acked = rev /\ committed <= rev
  BY <1>1 DEF ApplyAppend, StructInv, ApplyInv, OpenInv
<1>4. /\ durable <= acked /\ durable \in Nat /\ committed \in Nat /\ rev \in Nat
      /\ hist \in Histories
  BY TrustTypes DEF TrustInv, HistoryInv
<1>5. q \in Nat /\ q < x /\ q \in Revisions
  BY <1>2, <1>3, <1>4, BoundsAssumption DEF Larger, Revisions
<1>6. /\ stray = FALSE /\ jid \in Candidates \ retired
      /\ Survives(journals[jid], hist, fp, q) /\ (~volatile => committed <= durable)
  BY <1>1, <1>3 DEF TrustInv, OpenTrust, Before
<1>7. hist'[q] = hist[q]
  BY <1>1, <1>4, <1>5 DEF Histories
<1>8. /\ Len(Append(pending, n)) = Len(pending) + 1 /\ Len(pending) \in Nat
      /\ \A i \in 1..Len(pending) : Append(pending, n)[i] = pending[i]
      /\ Append(pending, n)[Len(pending) + 1] = n
  BY <1>1, <1>2, AppendFacts
<1>. HIDE DEF n, x, q
<1>9. ASSUME NEW i \in 1..(Len(pending) + 1), i >= journals[jid].synced
      PROVE  LastRevision(Append(pending, n)[i]) >= q
  <2>1. CASE i \in 1..Len(pending)
    BY <1>1, <1>6, <1>8, <1>9, <2>1 DEF Survives
  <2>2. CASE i = Len(pending) + 1
    BY <1>2, <1>5, <1>8, <2>2
  <2>. QED  BY <1>8, <2>1, <2>2
<1>10. Survives(journals'[jid], hist', fp, q)
  <2>1. journals'[jid].synced = 0 \/ journals'[jid].entry = "new" => fp = hist'[q]
    BY <1>1, <1>6, <1>7 DEF Survives
  <2>. QED  BY <1>1, <1>8, <1>9, <2>1 DEF Survives
<1>11. Survives(journals'[jid'], hist', fp', Larger(durable', committed'))
  <2>1. jid' = jid /\ fp' = fp /\ durable' = durable /\ committed' = committed
    BY <1>1
  <2>. QED  BY <1>10, <2>1 DEF q
<1>12. OpenTrust'
  BY <1>1, <1>3, <1>6, <1>11 DEF OpenTrust
<1>. QED  BY <1>1, <1>12 DEF DownTrust

LEMMA TrustRollback ==
    ASSUME StructInv, TrustInv, Trusted, ApplyRollback PROVE OpenTrust' /\ DownTrust'
<1>. DEFINE q == Larger(durable, committed)
            f == journals'[jid]
<1>1. /\ jid \in JournalIds /\ jid # None /\ phase = "open" /\ File(jid)
      /\ \A i \in JournalIds \ {jid} : journals'[i] = journals[i]
      /\ f # NoFile /\ f.entry = journals[jid].entry /\ f.batches = pending
      /\ f.synced = IF journals[jid].synced < Len(pending) THEN journals[jid].synced ELSE Len(pending)
      /\ apply.pc = "publish" /\ hist' = [hist EXCEPT ![rev + Width[apply.edit]] = None]
      /\ UNCHANGED <<base, left, session, save, retired, acked, durable, external, aba, stray, env>>
  BY RollbackFacts
<1>2. /\ ~fault /\ save.pc \in {"idle", "stream"} /\ acked = rev /\ committed <= rev
      /\ rev = EndsAt(pending, committed) /\ pending \in Seq(Batch) /\ Len(pending) \in Nat
      /\ journals[jid].batches = Append(pending, NewBatch(apply.edit))
  BY <1>1 DEF StructInv, ApplyInv, OpenInv, TypeOK
<1>3. /\ durable <= acked /\ durable \in Nat /\ committed \in Nat /\ rev \in Nat
      /\ journals[jid].synced \in Nat
  BY <1>1, TrustTypes DEF TrustInv, HistoryInv
<1>4. /\ stray = FALSE /\ jid \in Candidates \ retired
      /\ Survives(journals[jid], hist, fp, q) /\ (~volatile => committed <= durable)
  BY <1>1, <1>2 DEF TrustInv, OpenTrust, Before
<1>5. q \in Nat /\ q <= rev /\ (committed = rev => q = rev)
  BY <1>2, <1>3 DEF Larger
<1>6. jid \in Candidates'
  BY <1>1, <1>4 DEF Candidates
<1>7. NewBatch(apply.edit) \in Batch
  BY <1>1, NewBatchFacts DEF StructInv
<1>8. /\ Len(journals[jid].batches) = Len(pending) + 1
      /\ \A i \in 1..Len(pending) : journals[jid].batches[i] = pending[i]
  BY <1>2, <1>7, AppendFacts
<1>. HIDE DEF q
<1>9. f.synced = 0 \/ f.entry = "new" => fp = hist[q]
  <2>1. CASE pending = <<>>
    <3>1. rev = committed
      BY <1>2, <2>1 DEF EndsAt
    <3>2. fp = hist[rev]
      BY <1>1, <2>1 DEF TrustInv, HistoryInv, SessionOver
    <3>. QED  BY <1>5, <3>1, <3>2
  <2>2. CASE pending # <<>>
    <3>1. Len(pending) > 0
      BY <1>2, <2>2
    <3>2. f.synced = 0 => journals[jid].synced = 0
      BY <1>1, <1>3, <3>1
    <3>. QED  BY <1>1, <1>4, <3>2 DEF Survives
  <2>. QED  BY <2>1, <2>2
<1>10. ASSUME NEW i \in 1..Len(pending), i >= f.synced PROVE LastRevision(pending[i]) >= q
  <2>1. CASE i = Len(pending)
    <3>1. pending # <<>>
      BY <1>2, <1>10
    <3>2. LastRevision(pending[i]) = rev
      BY <1>2, <2>1, <3>1 DEF EndsAt
    <3>. QED  BY <1>3, <1>5, <3>2
  <2>2. CASE i < Len(pending)
    <3>1. i >= journals[jid].synced /\ i \in 1..Len(journals[jid].batches)
      BY <1>1, <1>2, <1>3, <1>8, <1>10, <2>2
    <3>2. LastRevision(journals[jid].batches[i]) >= q
      BY <1>4, <3>1 DEF Survives
    <3>. QED  BY <1>8, <3>2
  <2>. QED  BY <1>2, <2>1, <2>2
<1>11. Survives(f, hist, fp, q)
  BY <1>1, <1>9, <1>10 DEF Survives
<1>. HIDE DEF f
<1>12. Survives(journals'[jid'], hist', fp', Larger(durable', committed'))
  <2>1. jid' = jid /\ fp' = fp /\ durable' = durable /\ committed' = committed
    BY <1>1
  <2>2. hist'[q] = hist[q]
    <3>1. /\ rev + Width[apply.edit] > rev /\ rev + Width[apply.edit] \in Nat
          /\ rev + Width[apply.edit] \in Revisions /\ hist \in Histories
      BY <1>1, NewBatchFacts, TrustTypes, BoundsAssumption DEF StructInv, Revisions
    <3>2. q # rev + Width[apply.edit]
      BY <1>3, <1>5, <3>1
    <3>. QED  BY <1>1, <3>1, <3>2 DEF Histories
  <2>3. Survives(f, hist', fp, q)
    BY <1>11, <2>2 DEF Survives
  <2>. QED  BY <2>1, <2>3 DEF q, f
<1>13. OpenTrust'
  BY <1>1, <1>2, <1>4, <1>6, <1>12 DEF OpenTrust
<1>. QED  BY <1>1, <1>13 DEF DownTrust
-----------------------------------------------------------------------------
\* A save keeps its pair

LEMMA TrustSaves ==
    ASSUME StructInv, TrustInv, Trusted,
           SaveBegin \/ SaveAbort \/ SaveBarrier \/ SavePrepareHeader \/ SavePrepareFails
             \/ SaveFill \/ PreparedGone \/ SaveRename \/ SaveReopenBase \/ SaveRebindStep
    PROVE  OpenTrust' /\ DownTrust'
<1>1. /\ phase = "open" /\ ~fault /\ save \in Saves
      /\ UNCHANGED <<phase, jid, fp, committed, fault, durable, volatile, stray, hist, retired>>
  <2>1. CASE SaveBegin
    BY <2>1 DEF SaveBegin, Mutable, StructInv, TypeOK, Saves
  <2>2. CASE save.pc # "idle"
    BY <2>2, PreparedFacts
       DEF SaveBegin, SaveAbort, SaveBarrier, SavePrepareHeader, SavePrepareFails, SaveFill,
           SaveRename, SaveReopenBase, SaveRebindStep, StructInv, SaveInv, TypeOK, Saves
  <2>. QED  BY <2>1, <2>2, PreparedFacts
            DEF SaveAbort, SaveBarrier, SavePrepareHeader, SavePrepareFails, SaveFill,
                SaveRename, SaveReopenBase, SaveRebindStep
<1>2. /\ save'.pc \in Before \cup {"renamed"} => save.pc \in Before \cup {"renamed"}
      /\ save'.pc \in {"replaced", "rebind"} =>
           save.pc \in {"replaced", "rebind"} /\ save'.target = save.target
  <2>1. CASE SaveBegin
    BY <1>1, <2>1 DEF SaveBegin, NoSave, Saves, Before
  <2>2. CASE SaveAbort \/ SavePrepareFails \/ PreparedGone
    BY <1>1, <2>2, PreparedFacts DEF SaveAbort, SavePrepareFails, NoSave, Before
  <2>3. CASE SaveBarrier
    BY <1>1, <2>3 DEF SaveBarrier, Saves, Before
  <2>4. CASE SavePrepareHeader \/ SaveFill \/ SaveRename
    BY <1>1, <2>4 DEF SavePrepareHeader, SaveFill, SaveRename, Saves, Before
  <2>5. CASE SaveReopenBase
    BY <1>1, <2>5, SMTT(40) DEF SaveReopenBase, Saves, Before
  <2>6. CASE SaveRebindStep
    BY <1>1, <2>6 DEF SaveRebindStep, Saves, Before
  <2>. QED  BY <2>1, <2>2, <2>3, <2>4, <2>5, <2>6
<1>3. jid # None => /\ jid \in Candidates \ retired /\ jid \in JournalIds /\ File(jid)
  BY <1>1 DEF TrustInv, OpenTrust, Candidates, File
<1>4. ASSUME jid # None
      PROVE  /\ jid \in Candidates' \ retired'
             /\ journals'[jid].batches = journals[jid].batches
             /\ journals'[jid].synced = journals[jid].synced
             /\ journals'[jid].entry = "new" => journals[jid].entry = "new"
  <2>1. CASE UNCHANGED journals
    BY <1>1, <1>3, <1>4, <2>1 DEF Candidates
  <2>2. CASE SaveBarrier
    <3>1. PICK j \in JournalIds : Free(j) /\ journals' = [journals EXCEPT ![j] = NewJournal]
      BY <2>2 DEF SaveBarrier
    <3>2. /\ \A i \in JournalIds \ {j} : journals'[i] = journals[i]
          /\ Candidates' = Candidates \cup {j} /\ journals[j] = NoFile
      BY <3>1, CreateFacts DEF StructInv
    <3>. QED  BY <1>1, <1>3, <1>4, <3>2 DEF File
  <2>3. CASE SavePrepareHeader
    <3>1. /\ save.prep # jid /\ \A i \in JournalIds \ {save.prep} : journals'[i] = journals[i]
          /\ Candidates' = Candidates
      BY <2>3, PrepareFacts
    <3>. QED  BY <1>1, <1>3, <1>4, <3>1
  <2>4. CASE SaveFill
    <3>1. /\ save.prep # jid /\ Candidates' = Candidates
          /\ \A i \in JournalIds \ {save.prep} : File(i) =>
                /\ journals'[i].batches = journals[i].batches
                /\ journals'[i].synced = journals[i].synced
                /\ journals'[i].entry = IF journals[i].entry = "new" THEN "synced"
                                        ELSE journals[i].entry
      BY <2>4, FillFacts
    <3>. QED  BY <1>1, <1>3, <1>4, <3>1
  <2>5. CASE PreparedGone
    <3>1. /\ save.prep \in JournalIds /\ save.prep # jid
          /\ journals' = [journals EXCEPT ![save.prep] = NoFile]
      BY <2>5, PreparedFacts DEF StructInv, SaveInv
    <3>2. /\ \A i \in JournalIds \ {save.prep} : journals'[i] = journals[i]
          /\ Candidates' = Candidates \ {save.prep}
      BY <3>1, RemoveFacts DEF StructInv
    <3>. QED  BY <1>1, <1>3, <1>4, <3>1, <3>2
  <2>. QED  BY <2>1, <2>2, <2>3, <2>4, <2>5
            DEF SaveBegin, SaveAbort, SavePrepareFails, SaveRename, SaveReopenBase, SaveRebindStep
<1>. QED  BY <1>1, <1>2, <1>4, OpenKept, SMTT(40)

\* A retired journal is neither the current one nor one that belongs to the
\* base.
LEMMA TrustRelease ==
    ASSUME StructInv, TrustInv, Trusted, NEW j \in JournalIds, ReleaseRetired(j)
    PROVE  OpenTrust' /\ DownTrust'
<1>1. /\ j \in retired /\ retired' = retired \ {j}
      /\ \A i \in JournalIds \ {j} : journals'[i] = journals[i]
      /\ Candidates' = Candidates \ {j} /\ BadHeaders' = BadHeaders \ {j}
      /\ UNCHANGED <<base, left, session, apply, save, ghost, env>>
  BY ReleaseFacts
<1>2. CASE phase = "open"
  <2>1. jid # None => /\ jid \in Candidates \ retired /\ jid \in JournalIds /\ jid # j
    BY <1>1, <1>2 DEF TrustInv, OpenTrust, Candidates
  <2>2. jid # None => jid \in Candidates' \ retired' /\ journals'[jid] = journals[jid]
    BY <1>1, <2>1
  <2>3. \A p \in Candidates \ (retired \cup {jid}) :
           p \in Candidates' \ retired' /\ journals'[p] = journals[p]
    BY <1>1 DEF Candidates
  <2>. QED  BY <1>1, <1>2, <2>2, <2>3, OpenKept
<1>3. CASE phase # "open"
  <2>1. /\ Matching \cap retired = {}
        /\ Pair(journals, hist, base, acked, durable, volatile)
        /\ ~stray => Candidates \subseteq BadHeaders \/ Matching # {}
        /\ phase = "replay" => jid \in Matching
    BY <1>3 DEF TrustInv, DownTrust
  <2>2. Matching' = Matching
    BY <1>1, <2>1 DEF Matching, Candidates
  <2>3. \A i \in Matching : journals'[i] = journals[i]
    BY <1>1, <2>1 DEF Matching, Candidates
  <2>4. Found(journals', base') = Found(journals, base) /\ Found(journals, base) = Matching
    BY <2>2, FoundFacts DEF Found, Matching, Candidates
  <2>5. Pair(journals', hist', base', acked', durable', volatile')
    BY <1>1, <2>1, <2>3, <2>4 DEF Pair
  <2>6. DownTrust'
    BY <1>1, <2>1, <2>2, <2>5 DEF DownTrust
  <2>. QED  BY <1>1, <1>3, <2>6 DEF OpenTrust
<1>. QED  BY <1>2, <1>3

LEMMA TrustSync ==
    ASSUME StructInv, TrustInv, Trusted, SyncJournal PROVE OpenTrust' /\ DownTrust'
<1>. DEFINE f == journals'[jid]
<1>1. /\ jid \in JournalIds /\ jid # None /\ phase = "open" /\ File(jid)
      /\ \A i \in JournalIds \ {jid} : journals'[i] = journals[i]
      /\ f.fp = journals[jid].fp /\ f.entry = journals[jid].entry
      /\ f.batches = journals[jid].batches /\ f.synced = Len(journals[jid].batches)
      /\ Candidates' = Candidates
      /\ UNCHANGED <<base, left, session, apply, save, retired, hist, acked, external, aba, stray, env>>
  BY SyncFacts
<1>2. durable' = IF journals[jid].entry = "synced" THEN acked ELSE durable
  BY DEF SyncJournal
<1>3. /\ durable <= acked /\ durable \in Nat /\ committed \in Nat /\ rev \in Nat /\ acked \in Nat
      /\ SessionOver(hist) /\ acked = rev /\ committed <= rev /\ durable' \in Nat
      /\ durable <= durable' /\ durable' <= acked
  <2>1. /\ durable <= acked /\ durable \in Nat /\ committed \in Nat /\ rev \in Nat /\ acked \in Nat
        /\ SessionOver(hist) /\ acked = rev /\ committed <= rev
    BY <1>1, TrustTypes DEF TrustInv, HistoryInv, StructInv, OpenInv
  <2>. QED  BY <1>2, <2>1
<1>4. /\ journals[jid].batches \in Seq(Batch) /\ Sound(journals[jid].batches)
      /\ journals[jid].synced \in Nat /\ journals[jid].synced <= Len(journals[jid].batches)
  BY <1>1, TrustTypes
<1>5. /\ stray = FALSE /\ jid \in Candidates \ retired
      /\ ~fault /\ save.pc \in Before \cup {"renamed"} =>
            /\ Survives(journals[jid], hist, fp, Larger(durable, committed))
            /\ ~volatile => committed <= durable
      /\ save.pc \in {"replaced", "rebind"} /\ ~volatile => save.target <= durable
      /\ fault => /\ base = hist[committed]
                  /\ \E p \in Candidates \ (retired \cup {jid}) :
                        /\ Carries(journals[p], hist, base, committed, acked, durable, volatile)
                        /\ Hard(journals[p])
  BY <1>1 DEF TrustInv, OpenTrust
<1>. HIDE DEF f
<1>6. ASSUME ~fault, save.pc \in Before \cup {"renamed"}
      PROVE  Survives(f, hist, fp, Larger(durable', committed))
  <2>1. CASE journals[jid].entry = "synced"
    <3>1. Hard(f)
      BY <1>1, <2>1 DEF Hard
    <3>2. Keeps(journals[jid], hist, fp, acked) /\ committed = StartsAt(journals[jid], acked)
      BY <1>1, <1>3, <1>6, CurrentKeeps
    <3>3. Keeps(f, hist, fp, acked) /\ committed = StartsAt(f, acked)
      BY <1>1, <3>2 DEF Keeps, StartsAt
    <3>4. Larger(durable', committed) = acked
      BY <1>2, <1>3, <2>1 DEF Larger
    <3>5. Survives(f, hist, fp, acked)
      BY <1>1, <1>3, <1>4, <3>1, <3>3, HardSurvives
    <3>. QED  BY <3>4, <3>5
  <2>2. CASE journals[jid].entry # "synced"
    <3>1. durable' = durable /\ f.synced \in Nat
      BY <1>1, <1>2, <1>4, <2>2
    <3>2. Survives(f, hist, fp, Larger(durable, committed))
      BY <1>1, <1>4, <1>5, <1>6, <3>1, SurvivesMore
    <3>. QED  BY <3>1, <3>2
  <2>. QED  BY <2>1, <2>2
<1>7. ASSUME fault
      PROVE  \E p \in Candidates' \ (retired' \cup {jid'}) :
                  /\ Carries(journals'[p], hist', base', committed', acked', durable', volatile')
                  /\ Hard(journals'[p])
  <2>1. PICK p \in Candidates \ (retired \cup {jid}) :
           /\ Carries(journals[p], hist, base, committed, acked, durable, volatile)
           /\ Hard(journals[p])
    BY <1>5, <1>7
  <2>2. p \in JournalIds /\ journals'[p] = journals[p] /\ p \in Candidates' \ (retired' \cup {jid'})
    BY <1>1 DEF Candidates
  <2>3. journals[p].batches \in Seq(Batch) /\ Sound(journals[p].batches)
    BY TrustTypes
  <2>4. /\ journals[p].fp = base /\ Keeps(journals[p], hist, base, acked)
        /\ committed = StartsAt(journals[p], acked) /\ (~volatile => committed <= durable')
    BY <1>3, <2>1 DEF Carries
  <2>5. Carries(journals[p], hist, base, committed, acked, durable', volatile)
    BY <1>3, <2>1, <2>3, <2>4, HardCarries
  <2>6. Carries(journals'[p], hist', base', committed', acked', durable', volatile')
    <3>1. /\ hist' = hist /\ base' = base /\ committed' = committed /\ acked' = acked
          /\ volatile' = volatile
      BY <1>1
    <3>. QED  BY <2>2, <2>5, <3>1
  <2>. QED  BY <2>1, <2>2, <2>6
<1>8. save'.pc \in {"replaced", "rebind"} /\ ~volatile' => save'.target <= durable'
  <2>1. save.pc # "idle" => save.target \in Nat
    BY TargetFacts
  <2>. QED  BY <1>1, <1>3, <1>5, <2>1
<1>9. ASSUME ~fault, save.pc \in Before \cup {"renamed"}
      PROVE  /\ Survives(journals'[jid'], hist', fp', Larger(durable', committed'))
             /\ ~volatile' => committed' <= durable'
  <2>1. jid' = jid /\ hist' = hist /\ fp' = fp /\ committed' = committed /\ volatile' = volatile
    BY <1>1
  <2>2. Survives(journals'[jid'], hist', fp', Larger(durable', committed'))
    BY <1>6, <1>9, <2>1 DEF f
  <2>3. ~volatile => committed <= durable'
    BY <1>3, <1>5, <1>9
  <2>. QED  BY <2>1, <2>2, <2>3
<1>10. OpenTrust'
  BY <1>1, <1>5, <1>7, <1>8, <1>9 DEF OpenTrust
<1>. QED  BY <1>1, <1>10 DEF DownTrust
-----------------------------------------------------------------------------
\* The end of a save keeps its pair

LEMMA TrustDirSync ==
    ASSUME StructInv, TrustInv, Trusted, NEW ok \in BOOLEAN, SaveDirSync(ok)
    PROVE  OpenTrust' /\ DownTrust'
<1>1. /\ save.pc = "renamed" /\ save' = [save EXCEPT !.pc = "replaced", !.uncertain = ~ok]
      /\ durable' = (IF ok THEN acked ELSE durable) /\ volatile' = ~ok
      /\ UNCHANGED <<disk, session, apply, retired, hist, acked, stray>> /\ save \in Saves
  BY DEF SaveDirSync, StructInv, TypeOK, Saves
<1>2. save'.pc = "replaced" /\ save'.target = save.target
  BY <1>1 DEF Saves
<1>3. /\ phase = "open" /\ ~fault /\ jid # None /\ save.target <= rev /\ acked = rev
  BY <1>1, TargetFacts DEF StructInv, OpenInv
<1>4. jid \in Candidates \ retired /\ stray = FALSE
  BY <1>3 DEF TrustInv, OpenTrust
<1>5. ~volatile' => save'.target <= durable'
  <2>1. CASE ok
    BY <1>1, <1>2, <1>3, <2>1
  <2>2. CASE ~ok
    BY <1>1, <2>2
  <2>. QED  BY <2>1, <2>2
<1>6. Candidates' = Candidates
  BY <1>1 DEF Candidates
<1>7. OpenTrust'
  BY <1>1, <1>2, <1>3, <1>4, <1>5, <1>6 DEF OpenTrust, Before
<1>. QED  BY <1>1, <1>3, <1>7 DEF DownTrust

LEMMA TrustInstall ==
    ASSUME StructInv, TrustInv, Trusted, SaveInstall PROVE OpenTrust' /\ DownTrust'
<1>1. /\ save.pc = "rebind" /\ committed' = save.target /\ jid' = save.prep /\ fp' = save.text
      /\ retired' = retired \cup {jid} /\ save' = NoSave
      /\ UNCHANGED <<disk, phase, rev, fault, apply, ghost, env>>
  BY InstallFacts
<1>2. SessionOver(hist) /\ durable <= acked /\ durable \in Nat /\ acked \in Nat
  BY TrustTypes DEF TrustInv, HistoryInv
<1>3. /\ save.prep \in Candidates \ (retired \cup {jid}) /\ save.prep \in JournalIds
      /\ File(save.prep) /\ Hard(journals[save.prep])
      /\ Keeps(journals[save.prep], hist, save.text, acked)
      /\ save.target = StartsAt(journals[save.prep], acked) /\ save.target <= acked
      /\ save.target \in Nat /\ phase = "open" /\ ~fault
  BY <1>1, <1>2, PreparedKeeps
<1>4. stray = FALSE /\ (~volatile => save.target <= durable)
  BY <1>1, <1>3 DEF TrustInv, OpenTrust
<1>5. journals[save.prep].batches \in Seq(Batch) /\ Sound(journals[save.prep].batches)
  BY <1>3, TrustTypes
<1>6. Carries(journals[save.prep], hist, journals[save.prep].fp, save.target, acked, durable, volatile)
      /\ journals[save.prep].fp = save.text
  BY <1>1, <1>2, <1>3, <1>4, <1>5, HardCarries, PreparedKeeps
<1>7. Survives(journals[save.prep], hist, save.text, Larger(durable, save.target))
  BY <1>6 DEF Carries
<1>8. Survives(journals'[jid'], hist', fp', Larger(durable', committed'))
  <2>1. journals' = journals /\ hist' = hist /\ durable' = durable
    BY <1>1
  <2>. QED  BY <1>1, <1>7, <2>1
<1>9. Candidates' = Candidates /\ save'.pc = "idle"
  BY <1>1 DEF Candidates, NoSave
<1>10. OpenTrust'
  BY <1>1, <1>3, <1>4, <1>8, <1>9 DEF OpenTrust
<1>. QED  BY <1>1, <1>3, <1>10 DEF DownTrust

LEMMA TrustFault ==
    ASSUME StructInv, TrustInv, Trusted, SaveFault PROVE OpenTrust' /\ DownTrust'
<1>1. /\ save.pc \in {"replaced", "rebind"} /\ committed' = save.target /\ fault' = TRUE
      /\ save' = NoSave
      /\ UNCHANGED <<disk, phase, doc, rev, pending, jid, fp, apply, retired, ghost, env>>
  BY DEF SaveFault
<1>2. SessionOver(hist) /\ durable <= acked /\ durable \in Nat /\ acked \in Nat
  BY TrustTypes DEF TrustInv, HistoryInv
<1>3. /\ save.prep \in Candidates \ (retired \cup {jid}) /\ save.prep \in JournalIds
      /\ File(save.prep) /\ Hard(journals[save.prep]) /\ journals[save.prep].fp = save.text
      /\ Keeps(journals[save.prep], hist, save.text, acked) /\ save.text = hist[save.target]
      /\ save.target = StartsAt(journals[save.prep], acked) /\ save.target <= acked
      /\ save.target \in Nat /\ phase = "open" /\ jid # None
  BY <1>1, <1>2, PreparedKeeps
<1>4. /\ stray = FALSE /\ (~volatile => save.target <= durable) /\ jid \in Candidates \ retired
  BY <1>1, <1>3 DEF TrustInv, OpenTrust
<1>5. base = save.text
  BY <1>1, <1>2, <1>3 DEF SessionOver, After
<1>6. journals[save.prep].batches \in Seq(Batch) /\ Sound(journals[save.prep].batches)
  BY <1>3, TrustTypes
<1>7. Carries(journals[save.prep], hist, base, save.target, acked, durable, volatile)
  BY <1>2, <1>3, <1>4, <1>5, <1>6, HardCarries
<1>8. PICK p : p = save.prep
  OBVIOUS
<1>9. /\ p \in Candidates' \ (retired' \cup {jid'}) /\ Hard(journals'[p])
      /\ Carries(journals'[p], hist', base', committed', acked', durable', volatile')
  <2>1. /\ journals' = journals /\ hist' = hist /\ base' = base /\ acked' = acked
        /\ durable' = durable /\ volatile' = volatile /\ jid' = jid /\ retired' = retired
    BY <1>1
  <2>. QED  BY <1>1, <1>3, <1>7, <1>8, <2>1 DEF Candidates
<1>10. Candidates' = Candidates /\ save'.pc = "idle"
  BY <1>1 DEF Candidates, NoSave
<1>11. base' = hist'[committed']
  BY <1>1, <1>3, <1>5
<1>12. OpenTrust'
  BY <1>1, <1>3, <1>4, <1>9, <1>10, <1>11 DEF OpenTrust
<1>. QED  BY <1>1, <1>3, <1>12 DEF DownTrust

LEMMA TrustRetry ==
    ASSUME StructInv, TrustInv, Trusted, SaveRetryDirSync PROVE OpenTrust' /\ DownTrust'
<1>1. /\ phase = "open" /\ ~fault /\ save.pc = "idle" /\ volatile' = FALSE
      /\ durable' = IF durable < committed THEN committed ELSE durable
      /\ UNCHANGED <<disk, phase, doc, rev, committed, pending, jid, fp, fault, apply, save,
                     retired, hist, acked, stray>>
  BY DEF SaveRetryDirSync, Mutable
<1>2. durable \in Nat /\ committed \in Nat
  BY TrustTypes
<1>3. Larger(durable', committed) = Larger(durable, committed) /\ committed <= durable'
  BY <1>1, <1>2 DEF Larger
<1>4. /\ stray = FALSE /\ (jid # None => jid \in Candidates \ retired)
      /\ jid # None => Survives(journals[jid], hist, fp, Larger(durable, committed))
  BY <1>1 DEF TrustInv, OpenTrust, Before
<1>5. ASSUME jid # None PROVE Survives(journals'[jid'], hist', fp', Larger(durable', committed'))
  <2>1. /\ journals' = journals /\ jid' = jid /\ hist' = hist /\ fp' = fp
        /\ committed' = committed
    BY <1>1
  <2>. QED  BY <1>3, <1>4, <1>5, <2>1
<1>6. Candidates' = Candidates
  BY <1>1 DEF Candidates
<1>7. OpenTrust'
  BY <1>1, <1>3, <1>4, <1>5, <1>6 DEF OpenTrust
<1>. QED  BY <1>1, <1>7 DEF DownTrust
-----------------------------------------------------------------------------
\* The end of a Session keeps its pair

LEMMA DownOne ==
    ASSUME DistinctInv', Trusted', base' # None, phase' = "down", NEW p \in Candidates',
           p \notin retired', NEW r \in Revisions,
           Carries(journals'[p], hist', base', r, acked', durable', volatile')
    PROVE  OpenTrust' /\ DownTrust'
<1>1. journals'[p].fp = base'
  BY DEF Carries
<1>2. \A i \in Candidates' : journals'[i].fp = base' => i = p
  BY <1>1 DEF DistinctInv
<1>3. Matching' = {p}
  BY <1>1, <1>2 DEF Matching
<1>4. Found(journals', base') = {p}
  BY <1>3 DEF Found, Matching, Candidates
<1>5. Pair(journals', hist', base', acked', durable', volatile')
  BY <1>4 DEF Pair
<1>. QED  BY <1>3, <1>5 DEF OpenTrust, DownTrust

LEMMA DownNone ==
    ASSUME phase' = "down", Matching' = {}, base' = hist'[acked'],
           ~volatile' => base' = hist'[durable'], stray' \/ Candidates' \subseteq BadHeaders'
    PROVE  OpenTrust' /\ DownTrust'
<1>1. Found(journals', base') = {}
  BY DEF Found, Matching, Candidates
<1>2. Pair(journals', hist', base', acked', durable', volatile')
  BY <1>1 DEF Pair
<1>. QED  BY <1>2 DEF OpenTrust, DownTrust

LEMMA TrustExit ==
    ASSUME StructInv, TrustInv, Trusted, DistinctInv', ProcessExit PROVE OpenTrust' /\ DownTrust'
<1>1. /\ phase # "down" /\ retired' = {} /\ phase' = "down"
      /\ volatile' = (volatile \/ save.pc = "renamed") /\ UNCHANGED <<base, ghost>>
      /\ \A j \in JournalIds :
            File(j) => /\ journals'[j].fp = journals[j].fp
                       /\ journals'[j].batches = journals[j].batches
                       /\ journals'[j].synced = journals[j].synced
                       /\ journals'[j].entry = journals[j].entry
      /\ Candidates' = Candidates /\ BadHeaders' = BadHeaders
  BY ExitFacts DEF Forget
<1>2. base \in Contents /\ base # None /\ Trusted'
  BY <1>1, TrustTypes DEF Trusted
<1>3. ASSUME NEW p \in Candidates, NEW r \in Revisions, NEW v, v = (volatile \/ save.pc = "renamed"),
             Carries(journals[p], hist, base, r, acked, durable, v)
      PROVE  OpenTrust' /\ DownTrust'
  <2>1. /\ p \in JournalIds /\ File(p) /\ journals[p].batches \in Seq(Batch)
        /\ journals[p].synced \in Nat
    BY TrustTypes
  <2>2. Carries(journals'[p], hist, base, r, acked, durable, v)
    BY <1>1, <1>3, <2>1, CarriesMore
  <2>3. Carries(journals'[p], hist', base', r, acked', durable', volatile')
    <3>1. /\ hist' = hist /\ base' = base /\ acked' = acked /\ durable' = durable /\ volatile' = v
      BY <1>1, <1>3
    <3>. QED  BY <2>2, <3>1
  <2>. QED  BY <1>1, <1>2, <2>3, DownOne
<1>4. CASE phase = "open" /\ \E p \in Candidates \ retired : \E r \in Revisions :
              Carries(journals[p], hist, base, r, acked, durable, volatile \/ save.pc = "renamed")
  BY <1>3, <1>4
<1>5. CASE phase = "open" /\ Matching = {} /\ base = hist[acked] /\ durable = acked
           /\ Candidates \subseteq BadHeaders
  <2>1. Matching' = {}
    BY <1>1, <1>2, <1>5 DEF BadHeaders, Matching
  <2>. QED  BY <1>1, <1>5, <2>1, DownNone
<1>6. CASE phase = "replay"
  <2>1. jid \in Matching /\ jid \in Candidates
    BY <1>6 DEF TrustInv, DownTrust, Matching
  <2>2. PICK r \in Revisions : Carries(journals[jid], hist, base, r, acked, durable, volatile)
    BY <1>6, <2>1, MatchThrough
  <2>3. PICK v : v = (volatile \/ save.pc = "renamed")
    OBVIOUS
  <2>4. Carries(journals[jid], hist, base, r, acked, durable, v)
    BY <2>2, <2>3 DEF Carries
  <2>. QED  BY <1>3, <2>1, <2>3, <2>4
<1>7. phase \in {"open", "replay"}
  BY <1>1 DEF StructInv, TypeOK
<1>. QED  BY <1>4, <1>5, <1>6, <1>7, OpenPair

LEMMA TrustClose ==
    ASSUME StructInv, TrustInv, Trusted, DistinctInv', CloseSession PROVE OpenTrust' /\ DownTrust'
<1>1. /\ phase = "open" /\ save.pc = "idle" /\ apply.pc = "idle" /\ phase' = "down"
      /\ UNCHANGED <<base, left, retired, hist, acked, external, aba, env>> /\ stray' = (retired # {})
      /\ jid = None => journals' = journals /\ durable' = durable
      /\ jid # None =>
           /\ jid \in JournalIds /\ File(jid)
           /\ \A i \in JournalIds \ {jid} : journals'[i] = journals[i]
           /\ durable' = IF journals[jid].entry = "synced" THEN acked ELSE durable
           /\ ~Dirty => journals'[jid] = NoFile
           /\ Dirty => /\ journals'[jid] # NoFile
                       /\ journals'[jid].batches = journals[jid].batches
                       /\ journals'[jid].fp = journals[jid].fp
                       /\ journals'[jid].entry = journals[jid].entry
                       /\ journals'[jid].synced = Len(journals[jid].batches)
  BY CloseFacts DEF Forget
<1>2. /\ base \in Contents /\ base # None /\ Trusted' /\ durable \in Nat /\ acked \in Nat
      /\ committed \in Nat /\ rev \in Nat /\ committed \in Revisions /\ durable <= acked
      /\ SessionOver(hist) /\ DistinctInv /\ acked = rev /\ committed <= rev
  BY <1>1, TrustTypes DEF Trusted, TrustInv, HistoryInv, StructInv, OpenInv
<1>3. jid # None => /\ durable' \in Nat /\ durable <= durable' /\ durable' <= acked
  BY <1>1, <1>2
<1>4. CASE jid = None
  <2>1. Matching = {} /\ base = hist[acked] /\ durable = acked /\ Candidates \subseteq BadHeaders
    <3>1. Candidates \subseteq BadHeaders
      BY <1>1, <1>4 DEF StructInv, OpenInv
    <3>2. ~ \E p \in Candidates \ retired : Matching = {p}
      BY <1>2, <3>1 DEF Matching, BadHeaders
    <3>. QED  BY <1>1, <3>1, <3>2, OpenPair
  <2>2. Matching' = {} /\ Candidates' \subseteq BadHeaders'
    BY <1>1, <1>4, <2>1 DEF Matching, Candidates, BadHeaders
  <2>3. base' = hist'[acked'] /\ base' = hist'[durable']
    BY <1>1, <1>4, <2>1
  <2>. QED  BY <1>1, <2>2, <2>3, DownNone
<1>5. CASE jid # None /\ fault
  <2>1. PICK p \in Candidates \ (retired \cup {jid}) :
           /\ Carries(journals[p], hist, base, committed, acked, durable, volatile)
           /\ Hard(journals[p])
    BY <1>1, <1>5 DEF TrustInv, OpenTrust
  <2>2. /\ p \in JournalIds /\ journals'[p] = journals[p]
        /\ journals[p].batches \in Seq(Batch) /\ Sound(journals[p].batches)
    BY <1>1, <1>5, TrustTypes
  <2>3. p \in Candidates'
    BY <2>2 DEF Candidates
  <2>4. /\ journals[p].fp = base /\ Keeps(journals[p], hist, base, acked)
        /\ committed = StartsAt(journals[p], acked) /\ (~volatile => committed <= durable')
    BY <1>2, <1>3, <1>5, <2>1 DEF Carries
  <2>5. Carries(journals[p], hist, base, committed, acked, durable', volatile)
    BY <1>2, <1>3, <1>5, <2>1, <2>2, <2>4, HardCarries
  <2>6. Carries(journals'[p], hist', base', committed, acked', durable', volatile')
    BY <1>1, <2>2, <2>5
  <2>7. base' # None /\ p \notin retired'
    BY <1>1, <1>2
  <2>. QED  BY <1>1, <1>2, <2>3, <2>6, <2>7, DownOne
<1>6. CASE jid # None /\ ~fault
  <2>1. /\ jid \in Candidates \ retired
        /\ Survives(journals[jid], hist, fp, Larger(durable, committed))
        /\ ~volatile => committed <= durable
    BY <1>1, <1>6 DEF TrustInv, OpenTrust, Before
  <2>2. base = fp /\ (pending = <<>> => fp = hist[rev])
    BY <1>1, <1>2, <1>6 DEF SessionOver, Before
  <2>3. /\ journals[jid].fp = fp /\ Keeps(journals[jid], hist, fp, acked)
        /\ committed = StartsAt(journals[jid], acked)
    BY <1>1, <1>2, <1>6, CurrentKeeps
  <2>4. /\ journals[jid].batches \in Seq(Batch) /\ Sound(journals[jid].batches)
        /\ journals[jid].synced \in Nat /\ journals[jid].synced <= Len(journals[jid].batches)
        /\ journals[jid].entry \in {"new", "synced"} /\ Len(journals[jid].batches) \in Nat
    BY <2>1, TrustTypes
  <2>5. CASE Dirty
    <3>. DEFINE f == journals'[jid]
    <3>1. jid \in Candidates'
      BY <1>1, <1>6, <2>1, <2>5 DEF Candidates
    <3>2. Carries(f, hist, base, committed, acked, durable', volatile)
      <4>1. CASE journals[jid].entry = "synced"
        <5>1. Hard(f) /\ f.batches = journals[jid].batches /\ f.fp = journals[jid].fp
          BY <1>1, <1>6, <2>5, <4>1 DEF Hard
        <5>2. durable' = acked
          BY <1>1, <1>6, <4>1
        <5>3. Keeps(f, hist, base, acked) /\ committed = StartsAt(f, acked)
          BY <2>2, <2>3, <5>1 DEF Keeps, StartsAt
        <5>. HIDE DEF f
        <5>. QED  BY <1>2, <2>2, <2>3, <2>4, <5>1, <5>2, <5>3, HardCarries
      <4>2. CASE journals[jid].entry = "new"
        <5>1. durable' = durable
          BY <1>1, <1>6, <4>2
        <5>2. Carries(journals[jid], hist, base, committed, acked, durable, volatile)
          BY <2>1, <2>2, <2>3 DEF Carries
        <5>3. /\ f.fp = journals[jid].fp /\ f.batches = journals[jid].batches
              /\ f.synced \in Nat /\ f.synced >= journals[jid].synced
          BY <1>1, <1>6, <2>4, <2>5
        <5>. HIDE DEF f
        <5>. QED  BY <2>4, <4>2, <5>1, <5>2, <5>3, CarriesMore
      <4>. QED  BY <2>4, <4>1, <4>2
    <3>3. Carries(journals'[jid], hist', base', committed, acked', durable', volatile')
      BY <1>1, <3>2
    <3>4. base' # None /\ jid \notin retired'
      BY <1>1, <1>2, <2>1
    <3>5. PICK p \in Candidates' : p = jid
      BY <3>1
    <3>. QED  BY <1>1, <1>2, <3>3, <3>4, <3>5, DownOne
  <2>6. CASE ~Dirty
    <3>1. rev = committed
      BY <1>2, <2>6 DEF Dirty
    <3>2. journals[jid].batches = <<>>
      <4>. SUFFICES ASSUME journals[jid].batches # <<>> PROVE FALSE
        OBVIOUS
      <4>1. 1 \in 1..Len(journals[jid].batches)
        BY <2>4
      <4>2. /\ LastRevision(journals[jid].batches[1]) <= EndsAt(journals[jid].batches, committed)
            /\ journals[jid].batches[1].first - 1 < LastRevision(journals[jid].batches[1])
            /\ journals[jid].batches[1].first - 1 \in Nat
            /\ LastRevision(journals[jid].batches[1]) \in Nat
        BY <2>4, <4>1, SoundLast, Touches
      <4>3. EndsAt(journals[jid].batches, committed) = rev
        BY <1>1, <1>6 DEF StructInv, OpenInv
      <4>4. journals[jid].batches[1].first - 1 = committed
        BY <2>3 DEF StartsAt
      <4>. QED  BY <1>2, <3>1, <4>2, <4>3, <4>4
    <3>3. base = hist[acked]
      BY <2>2, <2>3, <3>2 DEF Keeps
    <3>4. Candidates' = Candidates \ {jid} /\ \A i \in Candidates' : journals'[i] = journals[i]
      BY <1>1, <1>6, <2>6 DEF Candidates
    <3>5. Matching' = {}
      <4>1. Found(journals, base) = {jid}
        BY <1>2, <2>1, <2>2, <2>3, OnlyOne
      <4>. QED  BY <1>1, <3>4, <4>1, FoundFacts DEF Matching
    <3>6. ~volatile' => base' = hist'[durable']
      <4>. SUFFICES ASSUME ~volatile PROVE base = hist[durable']
        BY <1>1
      <4>1. CASE journals[jid].entry = "synced"
        BY <1>1, <1>6, <3>3, <4>1
      <4>2. CASE journals[jid].entry = "new"
        <5>1. durable' = durable
          BY <1>1, <1>6, <4>2
        <5>2. Larger(durable, committed) = durable
          BY <1>2, <2>1, LargerFacts
        <5>. QED  BY <2>1, <2>2, <4>2, <5>1, <5>2 DEF Survives
      <4>. QED  BY <2>4, <4>1, <4>2
    <3>7. stray' \/ Candidates' \subseteq BadHeaders'
      <4>. SUFFICES ASSUME retired = {} PROVE Candidates' \subseteq BadHeaders'
        BY <1>1
      <4>1. Candidates \ BadHeaders \subseteq {jid, save.prep} \cup retired /\ save.prep = None
        BY <1>1, <1>6 DEF StructInv, OpenInv, SaveInv, NoSave
      <4>2. Candidates \ BadHeaders \subseteq {jid}
        BY <4>1, EffectAssumption DEF Candidates
      <4>. QED  BY <3>4, <4>2 DEF BadHeaders
    <3>8. base' = hist'[acked']
      BY <1>1, <3>3
    <3>. QED  BY <1>1, <3>5, <3>6, <3>7, <3>8, DownNone
  <2>. QED  BY <2>5, <2>6
<1>. QED  BY <1>4, <1>5, <1>6
-----------------------------------------------------------------------------
\* A power loss keeps the durable pair

LEMMA LossPair ==
    ASSUME StructInv, PowerLoss, NEW c, NEW a \in Nat, NEW d \in Revisions,
           Pair(journals, hist, c, a, d, FALSE)
    PROVE  Pair(journals', hist', c, d, d, FALSE)
<1>1. /\ hist' = hist
      /\ \A j \in JournalIds : journals'[j] # NoFile =>
            /\ j \in Candidates /\ j \in Candidates'
            /\ journals'[j].fp = journals[j].fp /\ journals'[j].entry = "synced"
            /\ \E n \in 0..Len(journals[j].batches) :
                  /\ n >= journals[j].synced /\ journals'[j].synced = n
                  /\ journals'[j].batches = SubSeq(journals[j].batches, 1, n)
      /\ \A j \in Candidates : journals'[j] = NoFile => journals[j].entry = "new"
  BY LossFacts
<1>2. ASSUME NEW j \in Found(journals', c)
      PROVE  \E r \in Revisions : Carries(journals'[j], hist', c, r, d, d, FALSE)
  <2>1. j \in JournalIds /\ journals'[j] # NoFile /\ journals'[j].fp = c
    BY DEF Found
  <2>2. j \in Candidates /\ journals[j].fp = c
    BY <1>1, <2>1
  <2>3. PICK r \in Revisions : Carries(journals[j], hist, c, r, a, d, FALSE)
    BY <2>2, FoundFacts DEF Pair
  <2>4. /\ journals[j].batches \in Seq(Batch) /\ Sound(journals[j].batches)
        /\ journals[j].synced \in Nat
    BY <2>2, TrustTypes
  <2>5. PICK n \in 0..Len(journals[j].batches) :
           /\ n >= journals[j].synced /\ journals'[j].synced = n
           /\ journals'[j].batches = SubSeq(journals[j].batches, 1, n)
    BY <1>1, <2>1
  <2>6. journals'[j].fp = journals[j].fp /\ journals'[j].entry = "synced"
    BY <1>1, <2>1
  <2>7. \E s \in Revisions : Carries(journals'[j], hist, c, s, d, d, FALSE)
    BY <2>3, <2>4, <2>5, <2>6, LossCarries
  <2>. QED  BY <1>1, <2>7
<1>3. ASSUME Found(journals', c) = {} PROVE c = hist'[d]
  <2>1. CASE Found(journals, c) = {}
    BY <1>1, <2>1 DEF Pair
  <2>2. CASE Found(journals, c) # {}
    <3>1. PICK j \in Candidates : journals[j].fp = c
      BY <2>2, FoundFacts
    <3>2. j \in JournalIds
      BY DEF Candidates
    <3>3. journals'[j] = NoFile
      <4>. SUFFICES ASSUME journals'[j] # NoFile PROVE FALSE
        OBVIOUS
      <4>1. journals'[j].fp = c /\ journals'[j].entry = "synced"
        BY <1>1, <3>1, <3>2
      <4>2. j \in Found(journals', c)
        BY <3>2, <4>1 DEF Found
      <4>. QED  BY <1>3, <4>2
    <3>4. PICK r \in Revisions : Carries(journals[j], hist, c, r, a, d, FALSE)
      BY <3>1, FoundFacts DEF Pair
    <3>5. Larger(d, r) = d
      BY <3>4, LargerFacts, BoundsAssumption DEF Carries, Revisions
    <3>. QED  BY <1>1, <3>3, <3>4, <3>5 DEF Carries, Survives
  <2>. QED  BY <2>1, <2>2
<1>. QED  BY <1>2, <1>3 DEF Pair

LEMMA TrustLoss ==
    ASSUME StructInv, TrustInv, Trusted, PowerLoss PROVE OpenTrust' /\ DownTrust'
<1>1. /\ ~volatile /\ phase' = "down" /\ retired' = {}
      /\ UNCHANGED <<hist, external, aba, volatile>> /\ base' \in Contents
      /\ base' = base \/ (save.pc = "renamed" /\ base' = fp)
      /\ acked' = IF save.pc = "renamed" /\ base' = save.text THEN acked ELSE durable
      /\ durable' = acked' /\ (stray => stray')
      /\ \A j \in JournalIds : journals'[j] # NoFile =>
            /\ j \in Candidates /\ j \in Candidates' /\ journals'[j].fp = journals[j].fp
      /\ \A j \in Candidates : journals'[j] = NoFile => stray'
  BY LossFacts DEF Forget
<1>2. /\ durable \in Nat /\ durable \in Revisions /\ acked \in Nat /\ acked \in Revisions
      /\ base \in Contents /\ base # None /\ durable <= acked /\ SessionOver(hist) /\ DistinctInv
      /\ committed \in Revisions
  BY TrustTypes DEF TrustInv, HistoryInv
<1>3. ASSUME ~stray' PROVE \A j \in Candidates : j \in Candidates' /\ journals'[j].fp = journals[j].fp
  BY <1>1, <1>3 DEF Candidates
<1>4. ASSUME NEW a \in Nat, NEW d \in Revisions, Pair(journals, hist, base', a, d, FALSE),
             acked' = d, durable' = d,
             ~stray' => \/ Candidates \subseteq BadHeaders
                        \/ \E j \in Candidates : journals[j].fp = base'
      PROVE  OpenTrust' /\ DownTrust'
  <2>1. PICK c : c = base'
    OBVIOUS
  <2>2. Pair(journals', hist', c, d, d, FALSE)
    BY <1>4, <2>1, LossPair
  <2>3. Pair(journals', hist', base', acked', durable', volatile')
    BY <1>1, <1>4, <2>1, <2>2 DEF Pair, Carries
  <2>4. ~stray' => Candidates' \subseteq BadHeaders' \/ Matching' # {}
    <3>. SUFFICES ASSUME ~stray' PROVE Candidates' \subseteq BadHeaders' \/ Matching' # {}
      OBVIOUS
    <3>1. CASE Candidates \subseteq BadHeaders
      <4>1. \A j \in Candidates' : j \in Candidates /\ journals'[j].fp = journals[j].fp
        BY <1>1 DEF Candidates
      <4>. QED  BY <3>1, <4>1 DEF BadHeaders
    <3>2. CASE \E j \in Candidates : journals[j].fp = base'
      BY <1>3, <3>2 DEF Matching
    <3>. QED  BY <1>4, <3>1, <3>2
  <2>5. DownTrust'
    BY <1>1, <2>3, <2>4 DEF DownTrust
  <2>. QED  BY <1>1, <2>5 DEF OpenTrust
<1>5. CASE save.pc # "renamed"
  <2>1. base' = base /\ acked' = durable /\ durable' = durable
    BY <1>1, <1>5
  <2>2. Pair(journals, hist, base, acked, durable, FALSE)
    <3>1. PICK v : v = (volatile \/ save.pc = "renamed")
      OBVIOUS
    <3>2. Pair(journals, hist, base, acked, durable, v) /\ ~v
      BY <1>1, <1>5, <3>1, BasePair
    <3>. QED  BY <3>2 DEF Pair, Carries
  <2>3. ~stray => \/ Candidates \subseteq BadHeaders
                  \/ \E j \in Candidates : journals[j].fp = base
    <3>1. CASE phase = "open"
      <4>1. Candidates \subseteq BadHeaders \/ \E p \in Candidates : Matching = {p}
        BY <3>1, OpenPair
      <4>. QED  BY <4>1 DEF Matching
    <3>2. CASE phase # "open"
      BY <3>2 DEF TrustInv, DownTrust, Matching
    <3>. QED  BY <3>1, <3>2
  <2>. QED  BY <1>1, <1>2, <1>4, <2>1, <2>2, <2>3
<1>6. CASE save.pc = "renamed"
  <2>1. /\ save.prep \in Candidates \ (retired \cup {jid}) /\ save.prep \in JournalIds
        /\ File(save.prep) /\ Hard(journals[save.prep]) /\ journals[save.prep].fp = save.text
        /\ Keeps(journals[save.prep], hist, save.text, acked)
        /\ save.target = StartsAt(journals[save.prep], acked) /\ save.target <= acked
        /\ save.target \in Nat /\ save.target \in Revisions
        /\ phase = "open" /\ ~fault /\ jid # None
    BY <1>2, <1>6, PreparedKeeps
  <2>2. base = save.text
    BY <1>2, <1>6, <2>1 DEF SessionOver, After
  <2>3. /\ jid \in Candidates \ retired
        /\ Survives(journals[jid], hist, fp, Larger(durable, committed)) /\ committed <= durable
    BY <1>1, <1>6, <2>1 DEF TrustInv, OpenTrust
  <2>4. /\ journals[jid].fp = fp /\ Keeps(journals[jid], hist, fp, acked)
        /\ committed = StartsAt(journals[jid], acked) /\ fp # None
    BY <1>2, <2>1, CurrentKeeps, EffectAssumption DEF StructInv, OpenInv
  <2>5. fp # save.text
    BY <1>2, <2>1, <2>3, <2>4 DEF DistinctInv
  <2>6. CASE base' = save.text
    <3>1. acked' = acked /\ durable' = acked
      BY <1>1, <1>6, <2>6
    <3>2. journals[save.prep].batches \in Seq(Batch) /\ Sound(journals[save.prep].batches)
      BY <2>1, TrustTypes
    <3>3. Carries(journals[save.prep], hist, save.text, save.target, acked, acked, FALSE)
      <4>1. acked <= acked /\ (~FALSE => save.target <= acked)
        BY <1>2, <2>1
      <4>. QED  BY <1>2, <2>1, <3>2, <4>1, HardCarries
    <3>4. Found(journals, save.text) = {save.prep}
      BY <1>2, <2>1, <2>2, OnlyOne
    <3>5. Pair(journals, hist, base', acked, acked, FALSE)
      BY <2>1, <2>6, <3>3, <3>4 DEF Pair
    <3>. QED  BY <1>2, <1>4, <2>1, <2>6, <3>1, <3>5
  <2>7. CASE base' = fp
    <3>1. acked' = durable /\ durable' = durable
      BY <1>1, <2>5, <2>7
    <3>2. Carries(journals[jid], hist, fp, committed, acked, durable, FALSE)
      BY <2>3, <2>4 DEF Carries
    <3>3. Found(journals, fp) = {jid}
      BY <1>2, <2>3, <2>4, OnlyOne
    <3>4. Pair(journals, hist, base', acked, durable, FALSE)
      BY <1>2, <2>7, <3>2, <3>3 DEF Pair
    <3>. QED  BY <1>2, <1>4, <2>3, <2>4, <2>7, <3>1, <3>4
  <2>. QED  BY <1>1, <2>2, <2>6, <2>7
<1>. QED  BY <1>5, <1>6
-----------------------------------------------------------------------------
\* An Open keeps its pair

LEMMA NeverAmbiguous ==
    ASSUME StructInv, TrustInv, Trusted PROVE Matching = {} \/ \E p \in Candidates : Matching = {p}
<1>1. ASSUME NEW p \in Matching PROVE p \in Candidates /\ Matching = {p}
  <2>1. p \in Candidates /\ journals[p].fp = base /\ base # None
    BY TrustTypes DEF Matching
  <2>. QED  BY <2>1, OnlyOne, FoundFacts DEF TrustInv
<1>. QED  BY <1>1

LEMMA OneOrNone ==
    /\ Cardinality({}) = 0
    /\ \A p : Cardinality({p}) = 1
BY FS_EmptySet, FS_Singleton

LEMMA TrustRefuses ==
    ASSUME StructInv, TrustInv, OpenFresh \/ GivesUp PROVE OpenTrust' /\ DownTrust'
<1>1. /\ Candidates' = {} /\ hist'[0] = base /\ base' = base /\ acked' = 0 /\ durable' = 0
      /\ stray' = FALSE /\ (OpenFresh => phase' = "open") /\ (GivesUp => phase' = "down")
  BY FreshFiles
<1>2. CASE GivesUp
  <2>1. Matching' = {} /\ Candidates' \subseteq BadHeaders'
    BY <1>1 DEF Matching
  <2>2. base' = hist'[acked'] /\ base' = hist'[durable']
    BY <1>1
  <2>. QED  BY <1>1, <1>2, <2>1, <2>2, DownNone
<1>3. CASE OpenFresh
  <2>1. phase = "down" /\ phase' = "open" /\ UNCHANGED <<jid, fault, save>>
    BY <1>3 DEF OpenFresh
  <2>2. jid = None /\ fault = FALSE /\ save = NoSave
    BY <2>1, Quiet DEF StructInv, DownInv
  <2>3. jid' = None /\ fault' = FALSE /\ save'.pc = "idle"
    BY <2>1, <2>2 DEF NoSave
  <2>. QED  BY <1>1, <2>1, <2>3 DEF OpenTrust, DownTrust
<1>. QED  BY <1>2, <1>3

\* An Open that gives up several matching journals leaves others behind.
LEMMA TrustAmbiguous ==
    ASSUME StructInv, TrustInv, Trusted, OpenAmbiguous PROVE OpenTrust' /\ DownTrust'
<1>1. /\ phase' = "down" /\ Quarantine(Matching) /\ StartLineage /\ stray' = TRUE /\ base' = base
  BY DEF OpenAmbiguous, session
<1>2. /\ \A j \in JournalIds : journals'[j] = IF j \in Matching THEN NoFile ELSE journals[j]
      /\ Candidates' = Candidates \ Matching
  BY <1>1, QuarantineFacts
<1>3. Matching' = {} /\ Found(journals', base') = {}
  BY <1>1, <1>2 DEF Matching, Candidates, Found
<1>4. base' = hist'[acked'] /\ base' = hist'[durable']
  BY <1>1, LineageTypes DEF StartLineage
<1>5. Pair(journals', hist', base', acked', durable', volatile')
  BY <1>3, <1>4 DEF Pair
<1>6. DownTrust'
  BY <1>1, <1>3, <1>5 DEF DownTrust
<1>. QED  BY <1>1, <1>6 DEF OpenTrust

\* An Open that goes on with a header starts where the file is.
LEMMA TrustAdopt ==
    ASSUME StructInv, TrustInv, Trusted, OpenAdopt PROVE OpenTrust' /\ DownTrust'
<1>1. PICK j \in JournalIds :
         /\ jid' = j /\ Free(j) /\ phase' = "open" /\ fp' = base /\ Candidates' = {j}
         /\ journals'[j].batches = <<>> /\ StartLineage /\ stray' = FALSE
         /\ committed' = 0 /\ fault' = FALSE /\ save' = NoSave /\ retired' = retired
  BY AdoptFacts
<1>2. hist'[0] = base /\ durable' = 0 /\ save'.pc = "idle" /\ j \notin retired'
  BY <1>1, LineageTypes DEF StartLineage, Free, NoSave
<1>3. Larger(durable', committed') = 0
  BY <1>1, <1>2 DEF Larger
<1>4. Survives(journals'[j], hist', fp', 0)
  BY <1>1, <1>2 DEF Survives
<1>5. Survives(journals'[jid'], hist', fp', Larger(durable', committed'))
  BY <1>1, <1>3, <1>4
<1>6. OpenTrust'
  BY <1>1, <1>2, <1>5 DEF OpenTrust
<1>. QED  BY <1>1, <1>6 DEF DownTrust

LEMMA TrustBadHeader ==
    ASSUME StructInv, TrustInv, Trusted, OpenBadHeader PROVE OpenTrust' /\ DownTrust'
<1>1. /\ phase = "down" /\ UNCHANGED <<base, left, session, apply, save, retired, ghost, env>>
      /\ \A j \in JournalIds : journals'[j] = IF j \in BadHeaders THEN NoFile ELSE journals[j]
      /\ Candidates' = Candidates \ BadHeaders /\ BadHeaders' = {}
  BY QuarantineFacts DEF OpenBadHeader
<1>2. base # None
  BY TrustTypes
<1>3. /\ Matching \cap retired = {} /\ Pair(journals, hist, base, acked, durable, volatile)
      /\ ~stray => Candidates \subseteq BadHeaders \/ Matching # {}
  BY <1>1 DEF TrustInv, DownTrust
<1>4. Matching' = Matching /\ \A j \in Matching : journals'[j] = journals[j]
  BY <1>1, <1>2 DEF Matching, BadHeaders, Candidates
<1>5. Found(journals', base') = Found(journals, base) /\ Found(journals, base) = Matching
  BY <1>4, FoundFacts DEF Found, Matching, Candidates
<1>6. Pair(journals', hist', base', acked', durable', volatile')
  BY <1>1, <1>3, <1>4, <1>5 DEF Pair
<1>7. DownTrust'
  BY <1>1, <1>3, <1>4, <1>6 DEF DownTrust
<1>. QED  BY <1>1, <1>7 DEF OpenTrust

LEMMA TrustMatches ==
    ASSUME StructInv, TrustInv, Trusted, OpenMatching PROVE OpenTrust' /\ DownTrust'
<1>1. PICK j \in JournalIds :
         /\ phase = "down" /\ Matching = {j} /\ jid' = j /\ Candidates' = {j} /\ journals[j].fp = base
         /\ \A i \in JournalIds : journals'[i] = IF i \in Candidates \ {j} THEN NoFile ELSE journals[i]
         /\ phase' = "replay" /\ UNCHANGED <<base, retired, ghost, env>>
  BY MatchFacts
<1>2. Matching \cap retired = {} /\ Pair(journals, hist, base, acked, durable, volatile)
  BY <1>1 DEF TrustInv, DownTrust
<1>3. journals'[j] = journals[j] /\ Matching' = {j}
  BY <1>1 DEF Matching
<1>4. Found(journals', base') = {j} /\ Found(journals, base) = {j}
  BY <1>1, <1>3, FoundFacts DEF Found, Matching, Candidates
<1>5. Pair(journals', hist', base', acked', durable', volatile')
  BY <1>1, <1>2, <1>3, <1>4 DEF Pair
<1>6. DownTrust'
  BY <1>1, <1>2, <1>3, <1>5 DEF DownTrust
<1>. QED  BY <1>1, <1>6 DEF OpenTrust

LEMMA TrustReplays ==
    ASSUME StructInv, TrustInv, Trusted, ReplayBatch PROVE OpenTrust' /\ DownTrust'
<1>1. phase = "replay" /\ UNCHANGED <<disk, phase, jid, retired, ghost, env>>
  BY DEF ReplayBatch
<1>2. Matching' = Matching /\ Candidates' = Candidates /\ BadHeaders' = BadHeaders
  BY <1>1 DEF Matching, Candidates, BadHeaders
<1>3. DownTrust'
  BY <1>1, <1>2 DEF TrustInv, DownTrust
<1>. QED  BY <1>1, <1>3 DEF OpenTrust

LEMMA TrustDone ==
    ASSUME StructInv, TrustInv, Trusted, ReplayDone PROVE OpenTrust' /\ DownTrust'
<1>1. /\ phase = "replay" /\ phase' = "open" /\ jid \in JournalIds /\ jid # None
      /\ pending = journals[jid].batches /\ Candidates' = Candidates
      /\ journals'[jid].entry = journals[jid].entry
      /\ journals'[jid].batches = journals[jid].batches
      /\ journals'[jid].synced = journals[jid].synced
      /\ stray' = FALSE /\ fault = FALSE /\ save = NoSave
      /\ IF pending = <<>> THEN StartLineage ELSE hist' = TillNow(hist) /\ acked' = rev /\ UNCHANGED durable
      /\ committed = IF pending = <<>> THEN 0 ELSE pending[1].first - 1
      /\ UNCHANGED <<base, committed, jid, fp, fault, save, retired, env>>
  BY DoneFacts
<1>2. jid \in Candidates' \ retired' /\ save'.pc = "idle" /\ base = fp /\ File(jid)
      /\ jid \in Matching
  BY <1>1 DEF TrustInv, DownTrust, HistoryInv, SessionOver, Matching, NoSave, Candidates, File
<1>3. journals[jid].batches \in Seq(Batch) /\ journals[jid].synced \in Nat
      /\ durable \in Nat /\ committed \in Nat
  BY <1>1, <1>2, TrustTypes
<1>4. /\ Survives(journals'[jid'], hist', fp', Larger(durable', committed'))
      /\ ~volatile' => committed' <= durable'
  <2>1. CASE pending = <<>>
    <3>1. hist'[0] = base /\ durable' = 0 /\ committed' = 0 /\ jid' = jid /\ fp' = base
      BY <1>1, <1>2, <2>1, LineageTypes DEF StartLineage
    <3>2. Larger(durable', committed') = 0
      BY <3>1 DEF Larger
    <3>3. journals'[jid].batches = <<>>
      BY <1>1, <2>1
    <3>4. Survives(journals'[jid'], hist', fp', 0)
      BY <3>1, <3>3 DEF Survives
    <3>. QED  BY <3>1, <3>2, <3>4
  <2>2. CASE pending # <<>>
    <3>1. Carries(journals[jid], hist, base, committed, acked, durable, volatile)
      BY <2>2, ReplayReaches
    <3>2. Survives(journals[jid], hist, base, Larger(durable, committed))
      BY <3>1 DEF Carries
    <3>3. Survives(journals'[jid], hist', base, Larger(durable, committed))
      <4>1. Larger(durable, committed) \in Nat /\ Larger(durable, committed) <= rev
        <5>1. rev >= acked /\ durable <= acked /\ acked \in Nat /\ rev \in Nat
          BY <2>2, ReplayReaches, TrustTypes DEF TrustInv, HistoryInv
        <5>2. phase' = "open" /\ committed' = committed /\ rev' = rev
          BY DoneFacts
        <5>3. committed <= rev
          BY <5>2, ReplayEnds DEF StructInv, OpenInv
        <5>. QED  BY <1>3, <5>1, <5>3 DEF Larger
      <4>2. Larger(durable, committed) \in Revisions /\ rev \in Revisions
        BY <4>1, TrustTypes, BoundsAssumption DEF Revisions
      <4>3. hist'[Larger(durable, committed)] = hist[Larger(durable, committed)]
        BY <1>1, <2>2, <4>1, <4>2, BoundsAssumption DEF TillNow, Revisions
      <4>4. Survives(journals'[jid], hist, base, Larger(durable, committed))
        BY <1>1, <1>3, <3>2, SurvivesMore
      <4>. QED  BY <4>3, <4>4 DEF Survives
    <3>4. durable' = durable /\ jid' = jid /\ fp' = base /\ committed' = committed
          /\ volatile' = volatile
      BY <1>1, <1>2, <2>2
    <3>5. ~volatile => committed <= durable
      BY <3>1 DEF Carries
    <3>. QED  BY <3>3, <3>4, <3>5
  <2>. QED  BY <2>1, <2>2
<1>5. OpenTrust'
  BY <1>1, <1>2, <1>4 DEF OpenTrust
<1>. QED  BY <1>1, <1>5 DEF DownTrust
-----------------------------------------------------------------------------
\* The pair of base and journal: the theorems

LEMMA TrustInit == Init => TrustInv
<1>. SUFFICES ASSUME Init PROVE TrustInv
  OBVIOUS
<1>1. Candidates = {} /\ Matching = {} /\ BadHeaders = {}
  BY DEF Init, Candidates, Matching, BadHeaders
<1>2. phase = "down" /\ acked = 0 /\ durable = 0 /\ base = hist[0]
  BY IdleTypes DEF Init
<1>3. DistinctInv /\ OpenTrust
  BY <1>1, <1>2 DEF DistinctInv, OpenTrust
<1>4. HistoryInv
  BY <1>2 DEF HistoryInv, SessionOver
<1>5. Pair(journals, hist, base, acked, durable, volatile)
  BY <1>1, <1>2, FoundFacts DEF Pair
<1>6. DownTrust
  BY <1>1, <1>2, <1>5 DEF DownTrust
<1>. QED  BY <1>3, <1>4, <1>6 DEF TrustInv

LEMMA PairStep ==
    ASSUME StructInv, TrustInv, [Next]_vars, DistinctInv', Trusted'
    PROVE  OpenTrust' /\ DownTrust'
<1>1. CASE OpenFresh \/ GivesUp
  BY <1>1, TrustRefuses
<1>2. CASE ~(OpenFresh \/ GivesUp)
  <2>1. Trusted
    BY <1>2, TrustBegins
  <2>2. CASE (\E e \in Edits : ApplyBegin(e)) \/ ApplyHeaderFails \/ ApplyAppendFails \/ ApplyPublish
             \/ HeaderGone
    BY <2>1, <2>2, TrustApplies
  <2>3. CASE ApplyHeader \/ ApplyAppend \/ ApplyRollback \/ SyncJournal
    BY <2>1, <2>3, TrustHeader, TrustAppend, TrustRollback, TrustSync
  <2>4. CASE SaveBegin \/ SaveAbort \/ SaveBarrier \/ SavePrepareHeader \/ SavePrepareFails
             \/ SaveFill \/ PreparedGone \/ SaveRename \/ SaveReopenBase \/ SaveRebindStep
    BY <2>1, <2>4, TrustSaves
  <2>5. CASE (\E ok \in BOOLEAN : SaveDirSync(ok)) \/ SaveInstall \/ SaveFault \/ SaveRetryDirSync
             \/ (\E j \in JournalIds : ReleaseRetired(j))
    BY <2>1, <2>5, TrustDirSync, TrustInstall, TrustFault, TrustRetry, TrustRelease
  <2>6. CASE CloseSession \/ ProcessExit \/ PowerLoss
    BY <2>1, <2>6, TrustClose, TrustExit, TrustLoss
  <2>7. CASE \E c \in Foreign : ExternalWrite(c)
    BY <2>7 DEF ExternalWrite, Trusted
  <2>8. CASE OpenAmbiguous \/ OpenAdopt
    BY <2>1, <2>8, TrustAmbiguous, TrustAdopt
  <2>9. CASE OpenBadHeader \/ OpenMatching \/ ReplayBatch \/ ReplayDone
    BY <2>1, <2>9, TrustBadHeader, TrustMatches, TrustReplays, TrustDone
  <2>10. CASE UNCHANGED vars
    <3>1. UNCHANGED <<disk, session, apply, save, retired, ghost, env>>
      BY <2>10 DEF vars
    <3>2. Candidates' = Candidates /\ BadHeaders' = BadHeaders /\ Matching' = Matching
      BY <3>1 DEF Candidates, BadHeaders, Matching
    <3>3. /\ base' = base /\ journals' = journals /\ phase' = phase /\ jid' = jid /\ fp' = fp
          /\ committed' = committed /\ fault' = fault /\ save' = save /\ retired' = retired
          /\ hist' = hist /\ acked' = acked /\ durable' = durable /\ stray' = stray
          /\ volatile' = volatile
      BY <3>1
    <3>4. OpenTrust'
      BY <2>1, <3>2, <3>3 DEF TrustInv, OpenTrust
    <3>5. DownTrust'
      BY <2>1, <3>2, <3>3 DEF TrustInv, DownTrust
    <3>. QED  BY <3>4, <3>5
  <2>. QED  BY <1>2, <2>2, <2>3, <2>4, <2>5, <2>6, <2>7, <2>8, <2>9, <2>10
            DEF Next, HeaderGone, PreparedGone, GivesUp
<1>. QED  BY <1>1, <1>2

LEMMA TrustStep == StructInv /\ TrustInv /\ [Next]_vars => TrustInv'
<1>. SUFFICES ASSUME StructInv, TrustInv, [Next]_vars PROVE TrustInv'
  OBVIOUS
<1>1. DistinctInv' /\ HistoryInv'
  BY DistinctStep, HistoryStep DEF TrustInv
<1>2. OpenTrust' /\ DownTrust'
  <2>1. CASE Trusted'
    BY <1>1, <2>1, PairStep
  <2>2. CASE ~Trusted'
    BY <2>2 DEF OpenTrust, DownTrust
  <2>. QED  BY <2>1, <2>2
<1>. QED  BY <1>1, <1>2 DEF TrustInv

LEMMA TrustInvariance == Spec => [](StructInv /\ TrustInv)
<1>1. Init => StructInv /\ TrustInv
  BY StructInit, TrustInit
<1>2. (StructInv /\ TrustInv) /\ [Next]_vars => (StructInv /\ TrustInv)'
  BY StructStep, TrustStep
<1>. QED  BY <1>1, <1>2, PTL DEF Spec

\* What applyOperationsLocked has answered is in the files at every moment: in
\* the base, or in a journal that matches it, for any number of Sessions,
\* saves, crashes and power losses, as long as no other program writes the
\* base and no content comes back.
THEOREM AnsweredIsKept == Spec => []NothingLost
<1>1. StructInv /\ TrustInv => NothingLost
  <2>. SUFFICES ASSUME StructInv, TrustInv, Trusted
                PROVE  \/ base = hist[acked] /\ \A j \in Matching : journals[j].batches = <<>>
                       \/ \E j \in Matching :
                            /\ journals[j].batches # <<>> /\ Chain(j)
                            /\ LastRevision(journals[j].batches[Len(journals[j].batches)]) >= acked
    BY DEF NothingLost, Trusted
  <2>1. PICK v : v = (volatile \/ save.pc = "renamed")
    OBVIOUS
  <2>2. Pair(journals, hist, base, acked, durable, v) /\ Found(journals, base) = Matching
    BY <2>1, BasePair, FoundFacts
  <2>3. CASE Matching = {}
    BY <2>2, <2>3 DEF Pair
  <2>4. CASE Matching # {}
    <3>1. PICK j \in Candidates : Matching = {j}
      BY <2>4, NeverAmbiguous
    <3>2. PICK r \in Revisions : Carries(journals[j], hist, base, r, acked, durable, v)
      BY <2>2, <3>1 DEF Pair
    <3>. DEFINE b == journals[j].batches
    <3>3. b \in Seq(Batch) /\ Sound(b) /\ journals[j].fp = base
      BY <3>1, <3>2, TrustTypes DEF Carries
    <3>4. CASE b = <<>>
      BY <3>1, <3>2, <3>4 DEF Carries, Keeps
    <3>5. CASE b # <<>>
      <4>1. Through(hist, base, b) /\ LastRevision(b[Len(b)]) >= acked
        BY <3>2, <3>5 DEF Carries, Keeps, EndsAt
      <4>2. base = hist[b[1].first - 1]
        BY <3>5, <4>1 DEF Through
      <4>3. ASSUME NEW i \in 1..Len(b)
            PROVE  /\ b[i].first > 0 /\ (i > 1 => b[i].first = LastRevision(b[i - 1]) + 1)
                   /\ LastRevision(b[i]) <= MaxRevision
                   /\ hist[b[i].first - 1] \in DOMAIN Effect[b[i].edit]
                   /\ hist[LastRevision(b[i])] = Effect[b[i].edit][hist[b[i].first - 1]]
        <5>. HIDE DEF b
        <5>1. /\ b[i].first > 0 /\ (i > 1 => b[i].first = LastRevision(b[i - 1]) + 1)
              /\ LastRevision(b[i]) <= MaxRevision
          BY <3>3 DEF Sound
        <5>2. /\ hist[b[i].first - 1] \in DOMAIN Effect[b[i].edit]
              /\ hist[LastRevision(b[i])] = Effect[b[i].edit][hist[b[i].first - 1]]
          BY <4>1 DEF Through
        <5>. QED  BY <5>1, <5>2
      <4>. HIDE DEF b
      <4>4. Chain(j)
        BY <3>3, <4>2, <4>3 DEF b, Chain
      <4>. QED  BY <3>1, <3>5, <4>1, <4>4 DEF b
    <3>. QED  BY <3>4, <3>5
  <2>. QED  BY <2>3, <2>4
<1>. QED  BY <1>1, TrustInvariance, PTL

\* Metadata.CommittedRevision names the content of the file whenever no save
\* is past its streaming, in a faulted Session as well.
THEOREM CommittedIsOnDisk == Spec => []BaseIsCommitted
<1>1. StructInv /\ TrustInv => BaseIsCommitted
  <2>. SUFFICES ASSUME StructInv, TrustInv, Trusted, phase = "open", save.pc \in {"idle", "stream"}
                PROVE  base = hist[committed]
    BY DEF BaseIsCommitted, Trusted
  <2>1. CASE fault
    BY <2>1 DEF TrustInv, OpenTrust
  <2>2. CASE ~fault
    <3>1. SessionOver(hist)
      BY DEF TrustInv, HistoryInv
    <3>2. base = fp
      BY <2>2, <3>1 DEF SessionOver, Before
    <3>. QED  BY <2>2, <3>1, <3>2, CurrentKeeps
  <2>. QED  BY <2>1, <2>2
<1>. QED  BY <1>1, TrustInvariance, PTL

\* openMatchingJournalWithQuarantine finds no journal or exactly one that
\* matches, so that it never has to guess between two, unless there is one of
\* the causes ReopenFindsOnePair names: a header left by a failed Sync, say.
THEOREM OpenFindsThePair == Spec => []ReopenFindsOnePair
<1>1. StructInv /\ TrustInv => ReopenFindsOnePair
  <2>. SUFFICES ASSUME StructInv, TrustInv, Trusted, ~stray, BadHeaders = {}, left = NoHeaders
                PROVE  Candidates = {} \/ Matches = 1
    BY DEF ReopenFindsOnePair, Trusted
  <2>1. Candidates \subseteq BadHeaders \/ Matching # {}
    <3>1. CASE phase = "open"
      BY <3>1, OpenPair
    <3>2. CASE phase # "open"
      BY <3>2 DEF TrustInv, DownTrust
    <3>. QED  BY <3>1, <3>2
  <2>2. left[base] = 0
    BY TrustTypes, NoHeadersType
  <2>3. Candidates = {} \/ Cardinality(Matching) = 1
    BY <2>1, NeverAmbiguous, OneOrNone
  <2>. QED  BY <2>2, <2>3 DEF Matches
<1>. QED  BY <1>1, TrustInvariance, PTL
-----------------------------------------------------------------------------
\* Refinement: the Session implements DurableDocument

\* What DurableDocument sees of the Session.
Status == IF phase = "open" THEN "open" ELSE "closed"
Shown == IF phase = "open" THEN doc ELSE None

LEMMA MapsStutter ==
    ASSUME Trusted, Trusted', UNCHANGED <<Status, Shown, hist, acked, durable>>
    PROVE  UNCHANGED Document!docVars
<1>1. (~external /\ ~aba)' = (~external /\ ~aba)
  BY DEF Trusted
<1>2. /\ (IF phase = "open" THEN "open" ELSE "closed")' = (IF phase = "open" THEN "open" ELSE "closed")
      /\ (IF phase = "open" THEN doc ELSE None)' = (IF phase = "open" THEN doc ELSE None)
  BY DEF Status, Shown
<1>. QED  BY <1>1, <1>2 DEF Document!docVars

LEMMA MapsInit == Init => Document!Init
<1>. SUFFICES ASSUME Init PROVE Document!Init
  OBVIOUS
<1>1. phase = "down" /\ base \in Contents /\ hist = [r \in Revisions |-> IF r = 0 THEN base ELSE None]
      /\ acked = 0 /\ durable = 0 /\ (~external /\ ~aba) = TRUE
  BY DEF Init
<1>. QED  BY <1>1 DEF Document!Init

LEMMA MapsUntrusted ==
    ASSUME StructInv, [Next]_vars, ~Trusted PROVE Document!Untrusted
<1>1. ASSUME Trusted', phase' = "open" PROVE doc' = hist'[acked']
  <2>1. OpenFresh
    BY <1>1, TrustBegins, FreshFiles
  <2>. QED  BY <2>1, FreshFiles DEF OpenFresh
<1>. QED  BY <1>1 DEF Document!Untrusted, Trusted

LEMMA MapsDistrust ==
    ASSUME [Next]_vars, Trusted, ~Trusted' PROVE Document!Distrust
<1>1. SavePrepareHeader \/ \E c \in Foreign : ExternalWrite(c)
  <2>. SUFFICES ASSUME ~SavePrepareHeader, ~ \E c \in Foreign : ExternalWrite(c) PROVE FALSE
    BY SMTT(40)
  <2>1. ASSUME ~external PROVE ~external'
    BY <2>1, ZenonT(40) DEF Next, vars, ApplyBegin, ApplyHeader, ApplyHeaderFails, ApplyAppend,
         ApplyAppendFails, ApplyPublish, ApplyRollback, SyncJournal, SaveBegin, SaveAbort,
         SaveBarrier, SavePrepareFails, SaveFill, SaveDiscard, SaveRename,
         SaveDirSync, SaveReopenBase, SaveRebindStep, SaveInstall, SaveFault, SaveRetryDirSync,
         ReleaseRetired, CloseSession, ProcessExit, PowerLoss, OpenFresh, OpenBadHeader,
         OpenAmbiguous, OpenMismatch, OpenFails, GiveUp, OpenMatching, OpenAdopt, ReplayBatch,
         ReplayDone, ApplyHeaderUnsynced, ApplyHeaderRemoved, SavePrepareUnsynced
  <2>2. ASSUME ~aba PROVE ~aba'
    BY <2>2 DEF Next, vars, ApplyBegin, ApplyHeader, ApplyHeaderFails, ApplyAppend,
         ApplyAppendFails, ApplyPublish, ApplyRollback, SyncJournal, SaveBegin, SaveAbort,
         SaveBarrier, SavePrepareFails, SaveFill, SaveDiscard, SaveRename,
         SaveDirSync, SaveReopenBase, SaveRebindStep, SaveInstall, SaveFault, SaveRetryDirSync,
         ReleaseRetired, CloseSession, ProcessExit, PowerLoss, OpenFresh, OpenBadHeader,
         OpenAmbiguous, OpenMismatch, OpenFails, GiveUp, OpenMatching, OpenAdopt, ReplayBatch,
         ReplayDone, ApplyHeaderUnsynced, ApplyHeaderRemoved, SavePrepareUnsynced
  <2>. QED  BY <2>1, <2>2 DEF Trusted
<1>2. UNCHANGED <<phase, doc, hist, acked, durable>>
  BY <1>1 DEF SavePrepareHeader, ExternalWrite
<1>3. (~external /\ ~aba)' = FALSE
  BY DEF Trusted
<1>. QED  BY <1>2, <1>3 DEF Document!Distrust

LEMMA MapsApplies ==
    ASSUME StructInv, TrustInv, Trusted, Trusted', ApplyAppend \/ ApplyPublish \/ ApplyRollback
    PROVE  Document!Next
<1>. DEFINE x == rev + Width[apply.edit]
<1>1. /\ phase = "open" /\ x \in Revisions /\ x > rev /\ acked = rev
      /\ Effect[apply.edit][doc] \in Contents /\ Effect[apply.edit][doc] # None
  BY NewBatchFacts, EffectAssumption
     DEF ApplyAppend, ApplyPublish, ApplyRollback, StructInv, OpenInv
<1>2. (~external /\ ~aba)' = (~external /\ ~aba)
  BY DEF Trusted
<1>3. CASE ApplyAppend
  <2>1. hist' = [hist EXCEPT ![x] = Effect[apply.edit][doc]]
        /\ UNCHANGED <<phase, doc, acked, durable>>
    BY <1>3 DEF ApplyAppend
  <2>. HIDE DEF x
  <2>2. Document!Attempt
    BY <1>1, <1>2, <2>1 DEF Document!Attempt
  <2>. QED  BY <2>2 DEF Document!Next
<1>4. CASE ApplyPublish
  <2>1. acked' = x /\ doc' = Effect[apply.edit][doc] /\ UNCHANGED <<phase, hist, durable>>
    BY <1>4 DEF ApplyPublish
  <2>2. hist[x] = Effect[apply.edit][doc]
    BY <1>1, <1>4 DEF ApplyPublish, TrustInv, HistoryInv, SessionOver
  <2>. HIDE DEF x
  <2>3. Document!Answer
    BY <1>1, <1>2, <2>1, <2>2 DEF Document!Answer
  <2>. QED  BY <2>3 DEF Document!Next
<1>5. CASE ApplyRollback
  <2>1. hist' = [hist EXCEPT ![x] = None] /\ UNCHANGED <<phase, doc, acked, durable>>
    BY <1>5 DEF ApplyRollback, session
  <2>. HIDE DEF x
  <2>2. Document!Withdraw
    BY <1>1, <1>2, <2>1 DEF Document!Withdraw
  <2>. QED  BY <2>2 DEF Document!Next
<1>. QED  BY <1>3, <1>4, <1>5

LEMMA MapsHarden ==
    ASSUME StructInv, TrustInv, Trusted, Trusted',
           SyncJournal \/ (\E ok \in BOOLEAN : SaveDirSync(ok)) \/ SaveRetryDirSync
    PROVE  Document!Next
<1>1. durable \in Nat /\ acked \in Nat /\ durable <= acked /\ committed \in Nat
      /\ (phase = "open" => committed <= acked)
  BY TrustTypes DEF TrustInv, HistoryInv, StructInv, OpenInv
<1>2. UNCHANGED <<phase, doc, hist, acked>> /\ durable' \in durable..acked
  <2>1. CASE SyncJournal
    BY <1>1, <2>1 DEF SyncJournal
  <2>2. ASSUME NEW ok \in BOOLEAN, SaveDirSync(ok)
        PROVE  UNCHANGED <<phase, doc, hist, acked>> /\ durable' \in durable..acked
    <3>1. UNCHANGED <<phase, doc, hist, acked>> /\ durable' = IF ok THEN acked ELSE durable
      BY <2>2 DEF SaveDirSync, session
    <3>2. durable' \in {durable, acked}
      <4>1. CASE ok  BY <3>1, <4>1
      <4>2. CASE ~ok  BY <3>1, <4>2
      <4>. QED  BY <4>1, <4>2
    <3>. QED  BY <1>1, <3>1, <3>2
  <2>3. CASE SaveRetryDirSync
    BY <1>1, <2>3 DEF SaveRetryDirSync, Mutable
  <2>. QED  BY <2>1, <2>2, <2>3
<1>3. (~external /\ ~aba)' = (~external /\ ~aba)
  BY DEF Trusted
<1>4. Document!Harden
  BY <1>2, <1>3 DEF Document!Harden
<1>. QED  BY <1>4 DEF Document!Next

LEMMA MapsEnds ==
    ASSUME StructInv, TrustInv, Trusted, Trusted', CloseSession \/ ProcessExit \/ PowerLoss
    PROVE  Document!Next
<1>1. durable \in Nat /\ acked \in Nat /\ durable <= acked
  BY TrustTypes DEF TrustInv, HistoryInv
<1>2. (~external /\ ~aba)' = (~external /\ ~aba)
  BY DEF Trusted
<1>3. CASE CloseSession \/ ProcessExit
  <2>1. phase' = "down" /\ hist' = hist /\ acked' = acked /\ durable' \in {durable, acked}
    <3>1. CASE CloseSession
      BY <3>1, CloseFacts DEF Forget
    <3>2. CASE ProcessExit
      BY <3>2, ExitFacts DEF Forget
    <3>. QED  BY <1>3, <3>1, <3>2
  <2>2. durable' \in durable..acked
    BY <1>1, <2>1
  <2>3. Document!Leave
    BY <1>2, <2>1, <2>2 DEF Document!Leave
  <2>. QED  BY <2>3 DEF Document!Next
<1>4. CASE PowerLoss
  <2>1. phase' = "down" /\ hist' = hist /\ durable' = acked' /\ acked' \in {durable, acked}
    BY <1>4, LossFacts DEF Forget
  <2>2. acked' \in durable..acked
    BY <1>1, <2>1
  <2>3. Document!LosePower
    BY <1>2, <2>1, <2>2 DEF Document!LosePower
  <2>. QED  BY <2>3 DEF Document!Next
<1>. QED  BY <1>3, <1>4

\* The file has the content of some revision.
LEMMA BaseIsSome ==
    ASSUME StructInv, TrustInv, Trusted, phase = "down"
    PROVE  /\ \E v \in Revisions : hist[v] = base
           /\ Matching = {} => hist[acked] = base
<1>1. Pair(journals, hist, base, acked, durable, volatile) /\ Found(journals, base) = Matching
      /\ acked \in Revisions
  BY TrustTypes, FoundFacts DEF TrustInv, DownTrust
<1>2. CASE Matching = {}
  BY <1>1, <1>2 DEF Pair
<1>3. CASE Matching # {}
  <2>1. PICK j \in Matching : TRUE
    BY <1>3
  <2>2. PICK r \in Revisions : Carries(journals[j], hist, base, r, acked, durable, volatile)
    BY <1>1, <2>1 DEF Pair
  <2>3. CASE journals[j].batches = <<>>
    BY <1>1, <2>2, <2>3 DEF Carries, Keeps
  <2>4. CASE journals[j].batches # <<>>
    <3>1. r = journals[j].batches[1].first - 1 /\ Through(hist, base, journals[j].batches)
      BY <2>2, <2>4 DEF Carries, Keeps, StartsAt
    <3>2. hist[r] = base
      BY <2>4, <3>1 DEF Through
    <3>. QED  BY <1>3, <3>2
  <2>. QED  BY <1>3, <2>3, <2>4
<1>. QED  BY <1>2, <1>3

\* An Open that reports no error shows what was answered, or a later attempt.
LEMMA ShowsAnswered ==
    ASSUME StructInv, TrustInv, Trusted,
           OpenFresh \/ OpenAdopt \/ (ReplayDone /\ pending = <<>>)
    PROVE  /\ phase # "open" /\ phase' = "open" /\ base = hist[acked] /\ doc' = base
           /\ StartLineage
<1>1. CASE OpenFresh
  <2>1. phase = "down" /\ phase' = "open" /\ Matching = {} /\ doc' = base /\ StartLineage
    BY <1>1 DEF OpenFresh, Matching
  <2>. QED  BY <2>1, BaseIsSome
<1>2. CASE OpenAdopt
  <2>1. phase = "down" /\ phase' = "open" /\ Matching = {} /\ doc' = base /\ StartLineage
    BY <1>2, AdoptFacts
  <2>. QED  BY <2>1, BaseIsSome
<1>3. CASE ReplayDone /\ pending = <<>>
  <2>1. /\ phase = "replay" /\ phase' = "open" /\ pending = journals[jid].batches /\ doc' = doc
        /\ StartLineage
    BY <1>3, DoneFacts
  <2>2. jid \in Matching
    BY <2>1 DEF TrustInv, DownTrust
  <2>3. PICK r \in Revisions : Carries(journals[jid], hist, base, r, acked, durable, volatile)
    BY <2>1, <2>2, MatchThrough
  <2>4. base = hist[acked]
    BY <1>3, <2>1, <2>3 DEF Carries, Keeps
  <2>5. doc = fp /\ base = fp
    BY <1>3, <2>1 DEF TrustInv, HistoryInv, SessionOver
  <2>. QED  BY <2>1, <2>4, <2>5
<1>. QED  BY <1>1, <1>2, <1>3

\* Numbering that starts again from a revision with the content of the base.
LEMMA MapsRestart ==
    ASSUME StartLineage, NEW v, hist[v] = base PROVE Document!Restart(hist[v])
BY DEF StartLineage, Document!Restart

LEMMA MapsOpens ==
    ASSUME StructInv, TrustInv, Trusted, Trusted',
           OpenFresh \/ OpenAdopt \/ OpenAmbiguous \/ GivesUp \/ ReplayDone
    PROVE  Document!Next
<1>1. /\ acked \in Nat /\ acked \in Revisions /\ rev \in Revisions /\ rev \in Nat
      /\ base \in Contents /\ base # None
  BY TrustTypes
<1>2. (~external /\ ~aba)' = (~external /\ ~aba)
  BY DEF Trusted
<1>3. CASE OpenAmbiguous \/ GivesUp
  <2>1. phase = "down" /\ UNCHANGED <<phase, doc>> /\ StartLineage
    BY <1>3, GivesUpFacts DEF OpenAmbiguous, GiveUp, session
  <2>2. PICK v \in Revisions : hist[v] = base
    BY <2>1, BaseIsSome
  <2>3. Document!Restart(hist[v]) /\ hist[v] # None
    BY <1>1, <2>1, <2>2, MapsRestart
  <2>4. Document!Refuse
    BY <1>2, <2>1, <2>3 DEF Document!Refuse
  <2>. QED  BY <2>4 DEF Document!Next
<1>4. CASE OpenFresh \/ OpenAdopt \/ (ReplayDone /\ pending = <<>>)
  <2>1. phase # "open" /\ phase' = "open" /\ hist[acked] = base /\ doc' = base /\ StartLineage
    BY <1>4, ShowsAnswered
  <2>2. Document!Restart(hist[acked]) /\ hist[acked] # None /\ acked >= acked
    BY <1>1, <2>1, MapsRestart
  <2>3. /\ (IF phase = "open" THEN "open" ELSE "closed") = "closed"
        /\ (IF phase = "open" THEN "open" ELSE "closed")' = "open"
        /\ (IF phase = "open" THEN doc ELSE None)' = hist[acked]
    BY <2>1
  <2>4. Document!Reopen
    BY <1>1, <1>2, <2>2, <2>3 DEF Document!Reopen
  <2>. QED  BY <2>4 DEF Document!Next
<1>5. CASE ReplayDone /\ pending # <<>>
  <2>1. /\ phase # "open" /\ phase' = "open" /\ UNCHANGED <<doc, durable>> /\ acked' = rev
        /\ hist' = [w \in Revisions |-> IF w > rev THEN None ELSE hist[w]]
    BY <1>5 DEF ReplayDone
  <2>2. rev >= acked /\ doc = hist[rev]
    BY <1>5, ReplayReaches
  <2>3. doc # None
    BY <1>5, DoneFacts, EffectAssumption DEF StructInv, ReplayInv
  <2>4. Document!Reopen
    BY <1>1, <1>2, <2>1, <2>2, <2>3 DEF Document!Reopen
  <2>. QED  BY <2>4 DEF Document!Next
<1>. QED  BY <1>3, <1>4, <1>5

\* Everything else is invisible: journals that cannot be created, appends that
\* fail, and a whole save with its rebase.
LEMMA MapsHidden ==
    ASSUME StructInv, TrustInv, TrustInv', [Next]_vars, Trusted, Trusted',
           ~(ApplyAppend \/ ApplyPublish \/ ApplyRollback), ~SyncJournal, ~(\E ok \in BOOLEAN : SaveDirSync(ok)),
           ~SaveRetryDirSync, ~(CloseSession \/ ProcessExit \/ PowerLoss),
           ~(OpenFresh \/ OpenAdopt \/ OpenAmbiguous \/ GivesUp \/ ReplayDone)
    PROVE  UNCHANGED Document!docVars
<1>1. CASE SaveInstall
  <2>1. /\ phase = "open" /\ phase' = "open" /\ rev' = rev /\ UNCHANGED <<hist, acked, durable>>
    BY <1>1, InstallFacts, TargetFacts
  <2>2. doc = hist[rev] /\ doc' = hist'[rev']
    BY <2>1 DEF TrustInv, HistoryInv, SessionOver
  <2>3. doc' = doc
    BY <2>1, <2>2
  <2>. QED  BY <2>1, <2>3, MapsStutter DEF Status, Shown
<1>2. CASE OpenMatching
  <2>1. phase # "open" /\ phase' # "open" /\ UNCHANGED <<hist, acked, durable>>
    BY <1>2 DEF OpenMatching
  <2>. QED  BY <2>1, MapsStutter DEF Status, Shown
<1>3. CASE ReplayBatch
  <2>1. phase # "open" /\ phase' # "open" /\ UNCHANGED <<hist, acked, durable>>
    BY <1>3 DEF ReplayBatch
  <2>. QED  BY <2>1, MapsStutter DEF Status, Shown
<1>4. CASE ~SaveInstall /\ ~OpenMatching /\ ~ReplayBatch
  <2>1. UNCHANGED <<phase, doc, hist, acked, durable>>
    <3>1. CASE \E c \in Foreign : ExternalWrite(c)
      BY <3>1 DEF ExternalWrite
    <3>. QED
      BY <1>4, <3>1
         DEF Next, vars, ApplyBegin, ApplyHeader, ApplyHeaderFails, ApplyAppendFails, ApplyHeaderUnsynced,
             ApplyHeaderRemoved, SavePrepareUnsynced, GivesUp, SaveBegin, SaveAbort, SaveBarrier,
             SavePrepareHeader, SavePrepareFails, SaveFill, SaveDiscard, SaveRename,
             SaveReopenBase, SaveRebindStep, SaveFault, ReleaseRetired, OpenBadHeader
  <2>. QED  BY <2>1, MapsStutter, SMTT(40) DEF Status, Shown
<1>. QED  BY <1>1, <1>2, <1>3, <1>4

\* The Session implements the document it promises, for every content,
\* transaction and bound: each step of a transaction, save, crash or Open is a
\* step of DurableDocument or invisible to it.  In particular an Open without
\* an error never shows a version older than the last answered one, nor one
\* that ApplyRollback has taken back.
THEOREM SessionImplementsDocument == Spec => ImplementsDurableDocument
<1>1. ASSUME StructInv, TrustInv, StructInv', TrustInv', [Next]_vars
      PROVE  [Document!Next]_(Document!docVars)
  <2>1. CASE ~Trusted
    BY <1>1, <2>1, MapsUntrusted DEF Document!Next
  <2>2. CASE Trusted /\ ~Trusted'
    BY <1>1, <2>2, MapsDistrust DEF Document!Next
  <2>3. CASE Trusted /\ Trusted'
    BY <1>1, <2>3, MapsApplies, MapsHarden, MapsEnds, MapsOpens, MapsHidden
  <2>. QED  BY <2>1, <2>2, <2>3
<1>2. Spec => [](StructInv /\ TrustInv) /\ [][Next]_vars /\ Init
  BY TrustInvariance, PTL DEF Spec
<1>. QED  BY <1>1, <1>2, MapsInit, PTL DEF ImplementsDurableDocument, Document!Spec
=============================================================================
