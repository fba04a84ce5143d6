------------------------- MODULE UndoHistoryProofs --------------------------
(***************************************************************************)
(* Proofs about UndoHistory, for any characters, files, transactions and   *)
(* limits: the undo store stays within UndoBytes, and undo and redo return *)
(* through exactly the documents that were left.                           *)
(*                                                                         *)
(* UndoRedoRestore is not inductive.  Undo needs that the entry it moves   *)
(* to the redo stack also leads forward, Compact that no two references    *)
(* overlap, the end of a transaction that the entry built so far already   *)
(* leads back from the staged tree, and a replay that the transactions of  *)
(* the journal fit the documents they meet.  UndoInv adds these.           *)
(***************************************************************************)
EXTENDS UndoHistory, DataInduction, SequenceTheorems

-----------------------------------------------------------------------------
\* The invariant

Docs == {d \in Seq(Chars) : Len(d) <= MaxLength}

\* An operation whose text was read from the store.
AnyOp == [start : Nat, del : Nat, ins : Seq(Chars)]

\* Readable, Text and Materialize on any file.
ReadableIn(f, ref) == ref.offset + ref.length <= Len(f)
TextIn(f, ref) == SubSeq(f, ref.offset + 1, ref.offset + ref.length)
Mat(f, hops) ==
    [i \in 1..Len(hops) |-> [start |-> hops[i].start, del |-> hops[i].del,
                             ins |-> TextIn(f, hops[i].ref)]]

\* The operations fit the document d and take it to e.
Leads(ops, d, e) == InRange(ops, d) /\ RunOps(ops, d) = e

AllReadable(f, hops) == \A k \in 1..Len(hops) : ReadableIn(f, hops[k].ref)

\* With the texts in f the entry leads from before to after and back.
EntryOK(f, e, before, after) ==
    /\ AllReadable(f, e.forward) /\ AllReadable(f, e.inverse)
    /\ Leads(Mat(f, e.forward), before, after)
    /\ Leads(Mat(f, e.inverse), after, before)

\* The document on the other side of entry i of a stack over document d.
NextDoc(docs, i, d) == IF i = Len(docs) THEN d ELSE docs[i + 1]

UndosOK(f, entries, docs, d) ==
    \A i \in 1..Len(entries) : EntryOK(f, entries[i], docs[i], NextDoc(docs, i, d))

RedosOK(f, entries, docs, d) ==
    \A i \in 1..Len(entries) : EntryOK(f, entries[i], NextDoc(docs, i, d), docs[i])

StackInv ==
    /\ Len(past) = Len(undo) /\ Len(future) = Len(redo)
    /\ ~tainted => UndosOK(store, undo, past, doc) /\ RedosOK(store, redo, future, doc)

\* The references of an operation list, of an entry, of a stack.
OpRefs(hops) == {hops[k].ref : k \in 1..Len(hops)}
RefsOf(e) == OpRefs(e.forward) \cup OpRefs(e.inverse)
StackRefs(entries) == UNION {RefsOf(entries[i]) : i \in 1..Len(entries)}

\* The references that are kept, those of the entry being built included.
Used(u, r, j) ==
    (StackRefs(u) \cup StackRefs(r)) \cup (IF j.reset THEN {} ELSE RefsOf(j.entry))

\* Two references share no byte, or are the same.
Apart(r, s) ==
    \/ r = s \/ r.length = 0 \/ s.length = 0
    \/ r.offset + r.length <= s.offset
    \/ s.offset + s.length <= r.offset

Placed(f, refs) ==
    /\ \A r \in refs : ReadableIn(f, r)
    /\ \A r, s \in refs : Apart(r, s)

RefInv == ~tainted => Placed(store, Used(undo, redo, job))

\* The transaction or replay under way: its operations fit, the staged tree
\* is what the recorded ones make of the document, and the entry built so far
\* leads there and back.  After a reset an apply has empty stacks under it,
\* and a replay has nothing to redo.
JobOK(j, d, f) ==
    /\ j.kind = "idle" => j = Idle
    /\ j.kind # "idle" =>
          /\ j.at <= Len(j.batch) /\ InRange(j.batch, d)
          /\ j.tree = Runs(j.batch, d)[j.at]
          /\ ~j.reset => EntryOK(f, j.entry, d, j.tree)

JobInv ==
    /\ JobOK(job, doc, store)
    /\ job.kind = "replay" /\ job.reset => tainted
    /\ job.kind = "apply" /\ job.reset => undo = <<>> /\ redo = <<>>
    /\ job.kind = "replay" => redo = <<>>

\* How many transactions of the journal s.tree holds.
Place(j, n) == IF j.kind = "idle" THEN n
               ELSE IF j.kind = "apply" THEN n - 1
               ELSE j.next - 2

\* h is the document after each transaction of the journal.
Replays(h, first, jn) ==
    h[0] = first /\ \A i \in 1..Len(jn) : Leads(jn[i], h[i - 1], h[i])

\* The document is one of them, and the job works on the next transaction.
Stands(h, jn, d, j) ==
    /\ Place(j, Len(jn)) \in 0..Len(jn) /\ h[Place(j, Len(jn))] = d
    /\ j.kind # "idle" => /\ Place(j, Len(jn)) < Len(jn)
                          /\ j.batch = jn[Place(j, Len(jn)) + 1]

JournalInv ==
    \E h \in [0..Len(journal) -> Docs] :
        Replays(h, base, journal) /\ Stands(h, journal, doc, job)

UndoInv ==
    /\ TypeOK /\ base \in Docs /\ doc \in Docs
    /\ StackInv /\ RefInv /\ JobInv /\ JournalInv

-----------------------------------------------------------------------------
\* Runs of operations

\* The operations of a run, one after the other.
LEMMA RunsUnfold ==
    ASSUME NEW S, NEW ops \in Seq(S), NEW d
    PROVE  /\ Runs(ops, d)[0] = d
           /\ \A i \in 1..Len(ops) : Runs(ops, d)[i] = Replace(Runs(ops, d)[i - 1], ops[i])
<1>. DEFINE n == Len(ops)
            Right(g, m) == /\ g = [i \in 0..n |-> g[i]] /\ g[0] = d
                           /\ \A i \in 1..m : g[i] = Replace(g[i - 1], ops[i])
            Done == {m \in Nat : m <= n => \E g : Right(g, m)}
            Body(g) == [i \in 0..n |-> IF i = 0 THEN d ELSE Replace(g[i - 1], ops[i])]
            run == CHOOSE g : g = Body(g)
<1>1. n \in Nat
  BY LenProperties
<1>. HIDE DEF n
<1>2. 0 \in Done
  <2>. DEFINE g == [i \in 0..n |-> d]
  <2>1. Right(g, 0)
    BY <1>1
  <2>. HIDE DEF g, Right
  <2>. QED  BY <2>1
<1>3. ASSUME NEW m \in Nat, m \in Done PROVE m + 1 \in Done
  <2>. SUFFICES ASSUME m + 1 <= n PROVE \E g : Right(g, m + 1)
    OBVIOUS
  <2>1. PICK g : Right(g, m)
    BY <1>1, <1>3
  <2>. DEFINE x == Replace(g[m], ops[m + 1])
              f == [i \in 0..n |-> IF i = m + 1 THEN x ELSE g[i]]
  <2>2. m \in 0..n /\ m + 1 \in 0..n /\ 0 \in 0..n /\ m + 1 # 0
    BY <1>1
  <2>. HIDE DEF x
  <2>3. f[m + 1] = x /\ \A i \in 0..n : i # m + 1 => f[i] = g[i]
    BY <2>2
  <2>4. f = [i \in 0..n |-> f[i]]
    OBVIOUS
  <2>. HIDE DEF f
  <2>5. ASSUME NEW i \in 1..(m + 1) PROVE f[i] = Replace(f[i - 1], ops[i])
    <3>1. i - 1 \in 0..n /\ i \in 0..n /\ i - 1 # m + 1
      BY <1>1
    <3>2. f[i - 1] = g[i - 1]
      BY <2>3, <3>1
    <3>3. CASE i = m + 1
      <4>1. i - 1 = m
        BY <3>3
      <4>. QED  BY <2>3, <3>2, <3>3, <4>1 DEF x
    <3>4. CASE i # m + 1
      <4>1. i \in 1..m
        BY <3>4
      <4>2. g[i] = Replace(g[i - 1], ops[i]) /\ f[i] = g[i]
        BY <2>1, <2>3, <3>1, <3>4, <4>1
      <4>. QED  BY <3>2, <4>2
    <3>. QED  BY <3>3, <3>4
  <2>6. f[0] = d
    BY <2>1, <2>2, <2>3
  <2>7. Right(f, m + 1)
    BY <2>4, <2>5, <2>6
  <2>. QED  BY <2>7
<1>4. \A m \in Nat : m \in Done
  <2>. HIDE DEF Done
  <2>. QED  BY <1>2, <1>3, SetInduction
<1>5. PICK g : Right(g, n)
  BY <1>1, <1>4
<1>6. g = Body(g)
  <2>1. ASSUME NEW i \in 0..n PROVE g[i] = Body(g)[i]
    <3>1. CASE i = 0
      BY <1>5, <3>1
    <3>2. CASE i # 0
      <4>1. i \in 1..n
        BY <3>2
      <4>. QED  BY <1>5, <3>2, <4>1
    <3>. QED  BY <3>1, <3>2
  <2>. QED  BY <1>5, <2>1
<1>7. run = Body(run)
  BY <1>6
<1>8. Runs(ops, d) = run
  BY DEF Runs, n
<1>. HIDE DEF run
<1>9. run[0] = d
  BY <1>1, <1>7
<1>10. ASSUME NEW i \in 1..n PROVE run[i] = Replace(run[i - 1], ops[i])
  <2>1. i \in 0..n /\ i # 0
    BY <1>1
  <2>. QED  BY <1>7, <2>1
<1>. QED  BY <1>8, <1>9, <1>10 DEF n

\* The operation fits the document.
Fits(op, d) ==
    /\ op.start + op.del <= Len(d)
    /\ Len(d) - op.del + Len(op.ins) <= MaxLength

\* Where the characters of a replaced document come from.
LEMMA ReplaceShape ==
    ASSUME NEW d \in Seq(Chars), NEW op \in AnyOp, op.start + op.del <= Len(d)
    PROVE  /\ Replace(d, op) \in Seq(Chars)
           /\ Len(Replace(d, op)) = Len(d) - op.del + Len(op.ins)
           /\ \A i \in 1..op.start : Replace(d, op)[i] = d[i]
           /\ \A i \in 1..Len(op.ins) : Replace(d, op)[op.start + i] = op.ins[i]
           /\ \A i \in 1..(Len(d) - (op.start + op.del)) :
                 Replace(d, op)[op.start + Len(op.ins) + i] = d[op.start + op.del + i]
<1>. DEFINE n == Len(d)
            s == op.start
            e == op.start + op.del
            m == Len(op.ins)
            head == SubSeq(d, 1, s)
            tail == SubSeq(d, e + 1, n)
<1>1. /\ n \in Nat /\ s \in Nat /\ e \in Nat /\ m \in Nat /\ s <= e /\ e <= n
      /\ op.del = e - s /\ op.ins \in Seq(Chars) /\ d \in [1..n -> Chars]
  BY LenProperties DEF AnyOp
<1>2. Replace(d, op) = (head \o op.ins) \o tail
  BY DEF Replace
<1>. HIDE DEF n, s, e, m
<1>3. head \in Seq(Chars) /\ Len(head) = s /\ \A i \in 1..s : head[i] = d[i]
  <2>1. \A i \in 1..s : d[i] \in Chars
    BY <1>1
  <2>2. /\ head \in Seq(Chars) /\ Len(head) = IF 1 <= s THEN s - 1 + 1 ELSE 0
        /\ \A i \in 1..(s - 1 + 1) : head[i] = d[1 + i - 1]
    BY <1>1, <2>1, SubSeqProperties
  <2>. HIDE DEF head
  <2>. QED  BY <1>1, <2>2
<1>4. tail \in Seq(Chars) /\ Len(tail) = n - e /\ \A i \in 1..(n - e) : tail[i] = d[e + i]
  <2>1. \A i \in (e + 1)..n : d[i] \in Chars
    BY <1>1
  <2>2. /\ tail \in Seq(Chars) /\ Len(tail) = IF e + 1 <= n THEN n - (e + 1) + 1 ELSE 0
        /\ \A i \in 1..(n - (e + 1) + 1) : tail[i] = d[(e + 1) + i - 1]
    BY <1>1, <2>1, SubSeqProperties
  <2>. HIDE DEF tail
  <2>3. ASSUME NEW i \in 1..(n - e) PROVE tail[i] = d[e + i]
    <3>1. i \in 1..(n - (e + 1) + 1) /\ (e + 1) + i - 1 = e + i
      BY <1>1
    <3>. QED  BY <2>2, <3>1
  <2>. QED  BY <1>1, <2>2, <2>3
<1>. HIDE DEF head, tail
<1>. DEFINE left == head \o op.ins
<1>5. /\ left \in Seq(Chars) /\ Len(left) = s + m
      /\ \A i \in 1..(s + m) : left[i] = IF i <= s THEN head[i] ELSE op.ins[i - s]
  <2>1. /\ left \in Seq(Chars) /\ Len(left) = Len(head) + Len(op.ins)
        /\ \A i \in 1..(Len(head) + Len(op.ins)) :
              left[i] = IF i <= Len(head) THEN head[i] ELSE op.ins[i - Len(head)]
    BY <1>1, <1>3, ConcatProperties
  <2>2. Len(head) = s /\ Len(op.ins) = m
    BY <1>3 DEF m
  <2>. HIDE DEF left
  <2>. QED  BY <2>1, <2>2, Zenon
<1>. HIDE DEF left
<1>6. /\ left \o tail \in Seq(Chars) /\ Len(left \o tail) = (s + m) + (n - e)
      /\ \A i \in 1..((s + m) + (n - e)) :
            (left \o tail)[i] = IF i <= s + m THEN left[i] ELSE tail[i - (s + m)]
  <2>1. /\ left \o tail \in Seq(Chars) /\ Len(left \o tail) = Len(left) + Len(tail)
        /\ \A i \in 1..(Len(left) + Len(tail)) :
              (left \o tail)[i] = IF i <= Len(left) THEN left[i] ELSE tail[i - Len(left)]
    BY <1>4, <1>5, ConcatProperties
  <2>. QED  BY <1>4, <1>5, <2>1
<1>7. Replace(d, op) = left \o tail
  BY <1>2 DEF left
<1>8. Len(left \o tail) = n - op.del + m
  BY <1>1, <1>6
<1>9. ASSUME NEW i \in 1..s PROVE (left \o tail)[i] = d[i]
  <2>1. i \in 1..((s + m) + (n - e)) /\ i <= s + m /\ i \in 1..(s + m) /\ i <= s
    BY <1>1
  <2>. QED  BY <1>3, <1>5, <1>6, <2>1
<1>10. ASSUME NEW i \in 1..m PROVE (left \o tail)[s + i] = op.ins[i]
  <2>1. s + i \in 1..((s + m) + (n - e)) /\ s + i <= s + m /\ s + i \in 1..(s + m) /\ ~(s + i <= s) /\ (s + i) - s = i
    BY <1>1
  <2>. QED  BY <1>5, <1>6, <2>1
<1>11. ASSUME NEW i \in 1..(n - e) PROVE (left \o tail)[s + m + i] = d[e + i]
  <2>1. (s + m) + i \in 1..((s + m) + (n - e)) /\ ~((s + m) + i <= s + m) /\ ((s + m) + i) - (s + m) = i
    BY <1>1
  <2>. QED  BY <1>4, <1>6, <2>1
<1>. QED  BY <1>6, <1>7, <1>8, <1>9, <1>10, <1>11 DEF n, s, e, m

\* What an operation deleted, put back in the place of what it inserted.
InverseOp(d, op) == [start |-> op.start, del |-> Len(op.ins), ins |-> Deleted(d, op)]

LEMMA DeletedText ==
    ASSUME NEW d \in Seq(Chars), NEW op \in AnyOp, op.start + op.del <= Len(d)
    PROVE  /\ Deleted(d, op) \in Seq(Chars) /\ Len(Deleted(d, op)) = op.del
           /\ \A i \in 1..op.del : Deleted(d, op)[i] = d[op.start + i]
<1>. DEFINE s == op.start
            k == op.del
            t == SubSeq(d, s + 1, s + k)
<1>1. s \in Nat /\ k \in Nat /\ s + k <= Len(d) /\ Len(d) \in Nat /\ d \in [1..Len(d) -> Chars]
  BY LenProperties DEF AnyOp
<1>2. Deleted(d, op) = t
  BY DEF Deleted
<1>. HIDE DEF s, k
<1>3. \A i \in (s + 1)..(s + k) : d[i] \in Chars
  BY <1>1
<1>4. /\ t \in Seq(Chars) /\ Len(t) = IF s + 1 <= s + k THEN (s + k) - (s + 1) + 1 ELSE 0
      /\ \A i \in 1..((s + k) - (s + 1) + 1) : t[i] = d[(s + 1) + i - 1]
  BY <1>1, <1>3, SubSeqProperties, SMTT(30)
<1>. HIDE DEF t
<1>5. Len(t) = k
  BY <1>1, <1>4
<1>6. ASSUME NEW i \in 1..k PROVE t[i] = d[s + i]
  <2>1. i \in 1..((s + k) - (s + 1) + 1) /\ (s + 1) + i - 1 = s + i
    BY <1>1
  <2>. QED  BY <1>4, <2>1
<1>. QED  BY <1>2, <1>4, <1>5, <1>6 DEF s, k

LEMMA InverseUndoes ==
    ASSUME NEW d \in Docs, NEW op \in AnyOp, Fits(op, d)
    PROVE  /\ Replace(d, op) \in Docs
           /\ InverseOp(d, op) \in AnyOp /\ Fits(InverseOp(d, op), Replace(d, op))
           /\ Replace(Replace(d, op), InverseOp(d, op)) = d
<1>. DEFINE r == Replace(d, op)
            v == InverseOp(d, op)
            q == Replace(r, v)
            n == Len(d)
            s == op.start
            k == op.del
            m == Len(op.ins)
<1>1. /\ d \in Seq(Chars) /\ n \in Nat /\ n <= MaxLength /\ s \in Nat /\ k \in Nat /\ m \in Nat
      /\ op.ins \in Seq(Chars) /\ s + k <= n /\ n - k + m <= MaxLength /\ MaxLength \in Nat
  BY LenProperties, UndoAssumption DEF AnyOp, Docs, Fits
<1>2. /\ r \in Seq(Chars) /\ Len(r) = n - k + m
      /\ \A i \in 1..s : r[i] = d[i]
      /\ \A i \in 1..(n - (s + k)) : r[s + m + i] = d[s + k + i]
  BY <1>1, ReplaceShape
<1>3. Deleted(d, op) \in Seq(Chars) /\ Len(Deleted(d, op)) = k /\ \A i \in 1..k : Deleted(d, op)[i] = d[s + i]
  BY <1>1, DeletedText
<1>4. v \in AnyOp /\ v.start = s /\ v.del = m /\ v.ins = Deleted(d, op)
  BY <1>1, <1>3 DEF InverseOp, AnyOp
<1>. HIDE DEF n, s, k, m, r, v
<1>5. s + m <= Len(r) /\ Len(r) - m + k = n /\ Len(r) <= MaxLength /\ Len(r) \in Nat /\ Len(r) - (s + m) = n - (s + k)
  BY <1>1, <1>2
<1>6. Fits(v, r)
  BY <1>1, <1>3, <1>4, <1>5 DEF Fits
<1>7. /\ q \in Seq(Chars) /\ Len(q) = Len(r) - m + k
      /\ \A i \in 1..s : q[i] = r[i]
      /\ \A i \in 1..k : q[s + i] = v.ins[i]
      /\ \A i \in 1..(Len(r) - (s + m)) : q[s + k + i] = r[s + m + i]
  <2>1. v.start + v.del <= Len(r) /\ Len(v.ins) = k
    BY <1>3, <1>4, <1>5
  <2>2. /\ q \in Seq(Chars) /\ Len(q) = Len(r) - v.del + Len(v.ins)
        /\ \A i \in 1..v.start : q[i] = r[i]
        /\ \A i \in 1..Len(v.ins) : q[v.start + i] = v.ins[i]
        /\ \A i \in 1..(Len(r) - (v.start + v.del)) : q[v.start + Len(v.ins) + i] = r[v.start + v.del + i]
    BY <1>2, <1>4, <2>1, ReplaceShape
  <2>. HIDE DEF q
  <2>3. v.start = s /\ v.del = m
    BY <1>4
  <2>. QED  BY <2>1, <2>2, <2>3, Zenon
<1>. HIDE DEF q
<1>8. ASSUME NEW i \in 1..n PROVE q[i] = d[i]
  <2>1. CASE i <= s
    BY <1>1, <1>2, <1>7, <2>1
  <2>2. CASE s < i /\ i <= s + k
    <3>1. i - s \in 1..k /\ s + (i - s) = i
      BY <1>1, <2>2
    <3>2. q[s + (i - s)] = v.ins[i - s] /\ Deleted(d, op)[i - s] = d[s + (i - s)]
      BY <1>3, <1>7, <3>1
    <3>. QED  BY <1>4, <3>1, <3>2
  <2>3. CASE s + k < i
    <3>1. i - (s + k) \in 1..(n - (s + k)) /\ (s + k) + (i - (s + k)) = i
      BY <1>1, <2>3
    <3>2. PICK j \in 1..(n - (s + k)) : (s + k) + j = i
      BY <3>1
    <3>3. q[s + k + j] = r[s + m + j] /\ r[s + m + j] = d[s + k + j]
      BY <1>2, <1>5, <1>7, <3>2
    <3>. QED  BY <3>2, <3>3
  <2>. QED  BY <1>1, <2>1, <2>2, <2>3
<1>9. q = d
  <2>1. Len(q) = n
    BY <1>5, <1>7
  <2>. QED  BY <1>1, <1>7, <1>8, <2>1, SeqEqual DEF n
<1>10. r \in Docs
  BY <1>2, <1>5 DEF Docs
<1>. QED  BY <1>4, <1>6, <1>9, <1>10 DEF q, r, v

\* Operations that fit keep the document a document.
LEMMA RunsTyped ==
    ASSUME NEW ops \in Seq(AnyOp), NEW d \in Docs, InRange(ops, d)
    PROVE  \A i \in 0..Len(ops) : Runs(ops, d)[i] \in Docs
<1>. DEFINE n == Len(ops)
            Done == {m \in Nat : m <= n => Runs(ops, d)[m] \in Docs}
<1>1. n \in Nat /\ \A i \in 1..n : ops[i] \in AnyOp
  BY LenProperties
<1>2. /\ Runs(ops, d)[0] = d
      /\ \A i \in 1..n : Runs(ops, d)[i] = Replace(Runs(ops, d)[i - 1], ops[i])
  BY RunsUnfold
<1>3. \A i \in 1..n : Fits(ops[i], Runs(ops, d)[i - 1])
  BY DEF InRange, Fits
<1>. HIDE DEF n
<1>4. 0 \in Done
  BY <1>2
<1>5. ASSUME NEW m \in Nat, m \in Done PROVE m + 1 \in Done
  <2>. SUFFICES ASSUME m + 1 <= n PROVE Runs(ops, d)[m + 1] \in Docs
    OBVIOUS
  <2>1. m + 1 \in 1..n /\ (m + 1) - 1 = m /\ Runs(ops, d)[m] \in Docs
    BY <1>1, <1>5
  <2>2. Runs(ops, d)[m + 1] = Replace(Runs(ops, d)[m], ops[m + 1]) /\ Fits(ops[m + 1], Runs(ops, d)[m])
    BY <1>2, <1>3, <2>1
  <2>. QED  BY <1>1, <2>1, <2>2, InverseUndoes
<1>6. \A m \in Nat : m \in Done
  <2>. HIDE DEF Done
  <2>. QED  BY <1>4, <1>5, SetInduction
<1>. QED  BY <1>1, <1>6 DEF n

LEMMA LeadsTyped ==
    ASSUME NEW ops \in Seq(AnyOp), NEW d \in Docs, NEW e, Leads(ops, d, e)
    PROVE  e \in Docs
<1>1. Len(ops) \in Nat
  BY LenProperties
<1>2. Len(ops) \in 0..Len(ops)
  BY <1>1
<1>. QED  BY <1>2, RunsTyped DEF Leads, RunOps

LEMMA EmptyRun ==
    ASSUME NEW d
    PROVE  Leads(<<>>, d, d)
<1>1. <<>> \in Seq({}) /\ Len(<<>>) = 0
  BY EmptySeq
<1>2. Runs(<<>>, d)[0] = d
  BY <1>1, RunsUnfold
<1>. QED  BY <1>1, <1>2 DEF Leads, InRange, RunOps

\* One more operation at the end of a run.
LEMMA RunAppend ==
    ASSUME NEW ops \in Seq(AnyOp), NEW op \in AnyOp, NEW d, NEW e, Leads(ops, d, e), Fits(op, e)
    PROVE  Leads(Append(ops, op), d, Replace(e, op))
<1>. DEFINE n == Len(ops)
            more == Append(ops, op)
            R(i) == Runs(ops, d)[i]
            Q(i) == Runs(more, d)[i]
            Done == {m \in Nat : m <= n => Q(m) = R(m)}
<1>1. /\ n \in Nat /\ more \in Seq(AnyOp) /\ Len(more) = n + 1 /\ more[n + 1] = op
      /\ \A i \in 1..n : more[i] = ops[i]
  BY LenProperties, AppendProperties
<1>2. R(0) = d /\ \A i \in 1..n : R(i) = Replace(R(i - 1), ops[i]) /\ Fits(ops[i], R(i - 1))
  BY RunsUnfold DEF InRange, Fits, Leads
<1>3. Q(0) = d /\ \A i \in 1..(n + 1) : Q(i) = Replace(Q(i - 1), more[i])
  <2>. HIDE DEF more, n
  <2>. QED  BY <1>1, RunsUnfold
<1>4. R(n) = e
  BY DEF Leads, RunOps
<1>. HIDE DEF n, more, R, Q
<1>5. 0 \in Done
  BY <1>2, <1>3
<1>6. ASSUME NEW m \in Nat, m \in Done PROVE m + 1 \in Done
  <2>. SUFFICES ASSUME m + 1 <= n PROVE Q(m + 1) = R(m + 1)
    OBVIOUS
  <2>1. m + 1 \in 1..n /\ m + 1 \in 1..(n + 1) /\ (m + 1) - 1 = m /\ Q(m) = R(m)
    BY <1>1, <1>6
  <2>2. Q(m + 1) = Replace(Q(m), more[m + 1]) /\ R(m + 1) = Replace(R(m), ops[m + 1])
    BY <1>2, <1>3, <2>1
  <2>3. more[m + 1] = ops[m + 1]
    BY <1>1, <2>1
  <2>. QED  BY <2>1, <2>2, <2>3
<1>7. \A m \in Nat : m \in Done
  <2>. HIDE DEF Done
  <2>. QED  BY <1>5, <1>6, SetInduction
<1>8. Q(n) = e /\ Q(n + 1) = Replace(e, op)
  <2>1. Q(n) = R(n) /\ n + 1 \in 1..(n + 1) /\ (n + 1) - 1 = n
    BY <1>1, <1>7
  <2>2. Q(n + 1) = Replace(Q(n), more[n + 1])
    BY <1>3, <2>1
  <2>. QED  BY <1>1, <1>4, <2>1, <2>2
<1>9. ASSUME NEW i \in 1..(n + 1) PROVE Fits(more[i], Q(i - 1))
  <2>1. CASE i = n + 1
    <3>1. i - 1 = n
      BY <1>1, <2>1
    <3>. QED  BY <1>1, <1>8, <2>1, <3>1
  <2>2. CASE i # n + 1
    <3>1. i \in 1..n /\ i - 1 \in Nat /\ i - 1 <= n
      BY <1>1, <2>2
    <3>2. Q(i - 1) = R(i - 1)
      BY <1>7, <3>1
    <3>3. more[i] = ops[i] /\ Fits(ops[i], R(i - 1))
      BY <1>1, <1>2, <3>1
    <3>. QED  BY <3>2, <3>3
  <2>. QED  BY <2>1, <2>2
<1>10. InRange(more, d)
  BY <1>1, <1>9 DEF InRange, Fits, Q
<1>11. RunOps(more, d) = Replace(e, op)
  BY <1>1, <1>8 DEF RunOps, Q
<1>. QED  BY <1>10, <1>11 DEF Leads, more

\* One more operation before a run.
LEMMA RunCons ==
    ASSUME NEW ops \in Seq(AnyOp), NEW op \in AnyOp, NEW d, NEW e,
           Fits(op, d), Leads(ops, Replace(d, op), e)
    PROVE  Leads(<<op>> \o ops, d, e)
<1>. DEFINE n == Len(ops)
            more == <<op>> \o ops
            R(i) == Runs(ops, Replace(d, op))[i]
            Q(i) == Runs(more, d)[i]
            Done == {m \in Nat : m <= n => Q(m + 1) = R(m)}
<1>1. /\ n \in Nat /\ more \in Seq(AnyOp) /\ Len(more) = n + 1 /\ more[1] = op
      /\ \A i \in 1..n : more[i + 1] = ops[i]
  <2>1. <<op>> \in Seq(AnyOp) /\ Len(<<op>>) = 1 /\ <<op>>[1] = op /\ n \in Nat
    BY LenProperties
  <2>2. /\ more \in Seq(AnyOp) /\ Len(more) = 1 + n
        /\ \A i \in 1..(1 + n) : more[i] = IF i <= 1 THEN <<op>>[i] ELSE ops[i - 1]
    BY <2>1, ConcatProperties
  <2>. HIDE DEF more, n
  <2>3. ASSUME NEW i \in 1..n PROVE more[i + 1] = ops[i]
    <3>1. i + 1 \in 1..(1 + n) /\ ~(i + 1 <= 1) /\ (i + 1) - 1 = i
      BY <2>1
    <3>. QED  BY <2>2, <3>1
  <2>4. more[1] = op
    BY <2>1, <2>2
  <2>. QED  BY <2>1, <2>2, <2>3, <2>4
<1>2. R(0) = Replace(d, op) /\ \A i \in 1..n : R(i) = Replace(R(i - 1), ops[i]) /\ Fits(ops[i], R(i - 1))
  BY RunsUnfold DEF InRange, Fits, Leads
<1>3. Q(0) = d /\ \A i \in 1..(n + 1) : Q(i) = Replace(Q(i - 1), more[i])
  <2>. HIDE DEF more, n
  <2>. QED  BY <1>1, RunsUnfold
<1>4. R(n) = e
  BY DEF Leads, RunOps
<1>. HIDE DEF n, more, R, Q
<1>5. 0 \in Done
  <2>1. 1 \in 1..(n + 1) /\ 1 - 1 = 0
    BY <1>1
  <2>2. Q(1) = Replace(Q(0), more[1])
    BY <1>3, <2>1
  <2>. QED  BY <1>1, <1>2, <1>3, <2>2
<1>6. ASSUME NEW m \in Nat, m \in Done PROVE m + 1 \in Done
  <2>. SUFFICES ASSUME m + 1 <= n PROVE Q((m + 1) + 1) = R(m + 1)
    OBVIOUS
  <2>1. /\ m + 1 \in 1..n /\ (m + 1) + 1 \in 1..(n + 1) /\ (m + 1) - 1 = m
        /\ ((m + 1) + 1) - 1 = m + 1 /\ Q(m + 1) = R(m)
    BY <1>1, <1>6
  <2>2. Q((m + 1) + 1) = Replace(Q(m + 1), more[(m + 1) + 1]) /\ R(m + 1) = Replace(R(m), ops[m + 1])
    BY <1>2, <1>3, <2>1
  <2>3. more[(m + 1) + 1] = ops[m + 1]
    BY <1>1, <2>1
  <2>. QED  BY <2>1, <2>2, <2>3
<1>7. \A m \in Nat : m \in Done
  <2>. HIDE DEF Done
  <2>. QED  BY <1>5, <1>6, SetInduction
<1>8. Q(n + 1) = e
  BY <1>1, <1>4, <1>7
<1>9. ASSUME NEW i \in 1..(n + 1) PROVE Fits(more[i], Q(i - 1))
  <2>1. CASE i = 1
    BY <1>1, <1>3, <2>1
  <2>2. CASE i # 1
    <3>1. PICK j \in 1..n : i = j + 1
      <4>1. i - 1 \in 1..n /\ i = (i - 1) + 1
        BY <1>1, <2>2
      <4>. QED  BY <4>1
    <3>2. j - 1 \in Nat /\ j - 1 <= n /\ (j - 1) + 1 = i - 1
      BY <1>1, <3>1
    <3>3. Q((j - 1) + 1) = R(j - 1)
      BY <1>7, <3>2
    <3>4. more[j + 1] = ops[j] /\ Fits(ops[j], R(j - 1))
      BY <1>1, <1>2, <3>1
    <3>. QED  BY <3>1, <3>2, <3>3, <3>4
  <2>. QED  BY <2>1, <2>2
<1>10. InRange(more, d)
  BY <1>1, <1>9 DEF InRange, Fits, Q
<1>11. RunOps(more, d) = e
  BY <1>1, <1>8 DEF RunOps, Q
<1>. QED  BY <1>10, <1>11 DEF Leads, more

-----------------------------------------------------------------------------
\* Texts in the store

\* A reference that can be read finds its text.
LEMMA TextTyped ==
    ASSUME NEW f \in Seq(Chars), NEW ref \in Ref, ReadableIn(f, ref)
    PROVE  /\ TextIn(f, ref) \in Seq(Chars) /\ Len(TextIn(f, ref)) = ref.length
           /\ \A i \in 1..ref.length : TextIn(f, ref)[i] = f[ref.offset + i]
<1>. DEFINE s == ref.offset
            k == ref.length
            t == SubSeq(f, s + 1, s + k)
<1>1. s \in Nat /\ k \in Nat /\ s + k <= Len(f) /\ Len(f) \in Nat /\ f \in [1..Len(f) -> Chars]
  BY LenProperties DEF Ref, ReadableIn
<1>2. TextIn(f, ref) = t
  BY DEF TextIn
<1>. HIDE DEF s, k
<1>3. \A i \in (s + 1)..(s + k) : f[i] \in Chars
  BY <1>1
<1>4. /\ t \in Seq(Chars) /\ Len(t) = IF s + 1 <= s + k THEN (s + k) - (s + 1) + 1 ELSE 0
      /\ \A i \in 1..((s + k) - (s + 1) + 1) : t[i] = f[(s + 1) + i - 1]
  BY <1>1, <1>3, SubSeqProperties, SMTT(30)
<1>. HIDE DEF t
<1>5. Len(t) = k
  BY <1>1, <1>4
<1>6. ASSUME NEW i \in 1..k PROVE t[i] = f[s + i]
  <2>1. i \in 1..((s + k) - (s + 1) + 1) /\ (s + 1) + i - 1 = s + i
    BY <1>1
  <2>. QED  BY <1>4, <2>1
<1>. QED  BY <1>2, <1>4, <1>5, <1>6 DEF s, k

\* A file that has the text at the reference.
LEMMA TextEqual ==
    ASSUME NEW f \in Seq(Chars), NEW ref \in Ref, ReadableIn(f, ref), NEW t \in Seq(Chars),
           Len(t) = ref.length, \A i \in 1..ref.length : f[ref.offset + i] = t[i]
    PROVE  TextIn(f, ref) = t
<1>1. /\ TextIn(f, ref) \in Seq(Chars) /\ Len(TextIn(f, ref)) = Len(t)
      /\ \A i \in 1..Len(TextIn(f, ref)) : TextIn(f, ref)[i] = t[i]
  BY TextTyped
<1>. QED  BY <1>1, SeqEqual

\* An append changes no text that was there.
LEMMA TextGrows ==
    ASSUME NEW f \in Seq(Chars), NEW g \in Seq(Chars), NEW ref \in Ref, ReadableIn(f, ref)
    PROVE  ReadableIn(f \o g, ref) /\ TextIn(f \o g, ref) = TextIn(f, ref)
<1>1. /\ f \o g \in Seq(Chars) /\ Len(f \o g) = Len(f) + Len(g)
      /\ \A i \in 1..(Len(f) + Len(g)) : (f \o g)[i] = IF i <= Len(f) THEN f[i] ELSE g[i - Len(f)]
  BY ConcatProperties
<1>2. Len(f) \in Nat /\ Len(g) \in Nat /\ ref.offset \in Nat /\ ref.length \in Nat /\ ref.offset + ref.length <= Len(f)
  BY LenProperties DEF Ref, ReadableIn
<1>3. ReadableIn(f \o g, ref)
  BY <1>1, <1>2 DEF ReadableIn
<1>4. ASSUME NEW i \in 1..ref.length PROVE (f \o g)[ref.offset + i] = TextIn(f, ref)[i]
  <2>1. ref.offset + i \in 1..(Len(f) + Len(g)) /\ ref.offset + i <= Len(f)
    BY <1>2
  <2>. QED  BY <1>1, <2>1, TextTyped
<1>. QED  BY <1>1, <1>3, <1>4, TextTyped, TextEqual

LEMMA MatTyped ==
    ASSUME NEW f \in Seq(Chars), NEW hops \in Seq(HistoryOperation), AllReadable(f, hops)
    PROVE  /\ Mat(f, hops) \in Seq(AnyOp) /\ Len(Mat(f, hops)) = Len(hops)
           /\ \A i \in 1..Len(hops) :
                 Mat(f, hops)[i] = [start |-> hops[i].start, del |-> hops[i].del, ins |-> TextIn(f, hops[i].ref)]
<1>1. Len(hops) \in Nat /\ \A i \in 1..Len(hops) : hops[i] \in HistoryOperation
  BY LenProperties
<1>2. ASSUME NEW i \in 1..Len(hops)
      PROVE  [start |-> hops[i].start, del |-> hops[i].del, ins |-> TextIn(f, hops[i].ref)] \in AnyOp
  <2>1. hops[i].start \in Nat /\ hops[i].del \in Nat /\ hops[i].ref \in Ref /\ ReadableIn(f, hops[i].ref)
    BY <1>1 DEF HistoryOperation, AllReadable
  <2>2. TextIn(f, hops[i].ref) \in Seq(Chars)
    BY <2>1, TextTyped
  <2>. QED  BY <2>1, <2>2 DEF AnyOp
<1>3. Mat(f, hops) \in [1..Len(hops) -> AnyOp]
  BY <1>2 DEF Mat
<1>4. Mat(f, hops) \in Seq(AnyOp)
  BY <1>1, <1>3, SeqDef
<1>5. Len(Mat(f, hops)) = Len(hops)
  <2>1. DOMAIN Mat(f, hops) = 1..Len(hops)
    BY <1>3
  <2>. QED  BY <1>1, <1>4, <2>1, LenProperties
<1>. QED  BY <1>4, <1>5 DEF Mat

LEMMA MatGrows ==
    ASSUME NEW f \in Seq(Chars), NEW g \in Seq(Chars), NEW hops \in Seq(HistoryOperation), AllReadable(f, hops)
    PROVE  AllReadable(f \o g, hops) /\ Mat(f \o g, hops) = Mat(f, hops)
<1>1. ASSUME NEW i \in 1..Len(hops)
      PROVE  ReadableIn(f \o g, hops[i].ref) /\ TextIn(f \o g, hops[i].ref) = TextIn(f, hops[i].ref)
  <2>1. hops[i] \in HistoryOperation
    BY ElementOfSeq
  <2>2. hops[i].ref \in Ref
    BY <2>1 DEF HistoryOperation
  <2>. QED  BY <2>2, TextGrows DEF AllReadable
<1>. QED  BY <1>1 DEF AllReadable, Mat

LEMMA EntryGrows ==
    ASSUME NEW f \in Seq(Chars), NEW g \in Seq(Chars), NEW e \in HistoryEntry, NEW before, NEW after,
           EntryOK(f, e, before, after)
    PROVE  EntryOK(f \o g, e, before, after)
<1>1. e.forward \in Seq(HistoryOperation) /\ e.inverse \in Seq(HistoryOperation)
  BY DEF HistoryEntry
<1>. QED  BY <1>1, MatGrows DEF EntryOK

\* historyText without a reset appends, and the text is found at its
\* reference; with one, what is left fits the quota.
LEMMA HistoryTextShape ==
    ASSUME NEW file \in Seq(Chars), NEW text \in Seq(Chars)
    PROVE  LET r == HistoryText(file, text)
           IN  /\ r.file \in Seq(Chars) /\ r.ref \in Ref /\ r.reset \in BOOLEAN
               /\ r.reset => Len(r.file) <= Quota
               /\ Len(file) <= Quota => Len(r.file) <= Quota
               /\ ~r.reset => /\ \E g \in Seq(Chars) : r.file = file \o g
                              /\ ReadableIn(r.file, r.ref) /\ TextIn(r.file, r.ref) = text
                              /\ r.ref.length = 0 \/ r.ref.offset = Len(file)
<1>. DEFINE r == HistoryText(file, text)
            n == Len(file)
            m == Len(text)
<1>1. n \in Nat /\ m \in Nat /\ Quota \in Nat /\ <<>> \in Seq(Chars) /\ Len(<<>>) = 0
  BY LenProperties, EmptySeq, UndoAssumption
<1>2. NoText \in Ref /\ NoText.length = 0 /\ NoText.offset = 0
  BY DEF NoText, Ref
<1>3. CASE text = <<>>
  <2>1. r = [file |-> file, ref |-> NoText, reset |-> FALSE]
    BY <1>3 DEF HistoryText
  <2>2. file = file \o <<>>
    BY ConcatEmptySeq
  <2>3. ReadableIn(file, NoText)
    BY <1>1, <1>2 DEF ReadableIn
  <2>4. TextIn(file, NoText) = <<>>
    <3>1. Len(<<>>) = NoText.length /\ \A i \in 1..NoText.length : file[NoText.offset + i] = <<>>[i]
      BY <1>1, <1>2
    <3>. QED  BY <1>1, <1>2, <2>3, <3>1, TextEqual
  <2>5. \E g \in Seq(Chars) : file = file \o g
    BY <1>1, <2>2
  <2>6. r.file = file /\ r.ref = NoText /\ r.reset = FALSE
    BY <2>1
  <2>. HIDE DEF r
  <2>. QED  BY <1>2, <1>3, <2>3, <2>4, <2>5, <2>6 DEF r
<1>4. CASE text # <<>> /\ m + n <= Quota
  <2>. DEFINE ref == [offset |-> n, length |-> m]
              out == file \o text
  <2>1. r = [file |-> out, ref |-> ref, reset |-> FALSE]
    BY <1>1, <1>4 DEF HistoryText
  <2>2. r.file = out /\ r.ref = ref /\ r.reset = FALSE
    BY <2>1
  <2>3. ref \in Ref /\ ref.offset = n /\ ref.length = m
    BY <1>1 DEF Ref
  <2>4. /\ out \in Seq(Chars) /\ Len(out) = n + m
        /\ \A i \in 1..(n + m) : out[i] = IF i <= n THEN file[i] ELSE text[i - n]
    BY ConcatProperties
  <2>. HIDE DEF r, ref, out, n, m
  <2>5. ReadableIn(out, ref)
    BY <1>1, <2>3, <2>4 DEF ReadableIn
  <2>6. ASSUME NEW i \in 1..m PROVE out[n + i] = text[i]
    <3>1. n + i \in 1..(n + m) /\ ~(n + i <= n) /\ (n + i) - n = i
      BY <1>1
    <3>. QED  BY <2>4, <3>1
  <2>7. TextIn(out, ref) = text
    BY <2>3, <2>4, <2>5, <2>6, TextEqual DEF m
  <2>8. Len(out) <= Quota
    BY <1>1, <1>4, <2>4
  <2>9. \E g \in Seq(Chars) : out = file \o g
    BY DEF out
  <2>10. ref.length = 0 \/ ref.offset = Len(file)
    BY <2>3 DEF n
  <2>. QED  BY <2>2, <2>3, <2>4, <2>5, <2>7, <2>8, <2>9, <2>10 DEF r
<1>5. CASE text # <<>> /\ ~(m + n <= Quota) /\ m <= Quota
  <2>1. r.file = text /\ r.ref = [offset |-> 0, length |-> m] /\ r.reset = TRUE
    BY <1>1, <1>5 DEF HistoryText
  <2>2. [offset |-> 0, length |-> m] \in Ref
    BY <1>1 DEF Ref
  <2>. HIDE DEF r
  <2>. QED  BY <1>5, <2>1, <2>2 DEF r
<1>6. CASE text # <<>> /\ ~(m + n <= Quota) /\ ~(m <= Quota)
  <2>1. r.file = <<>> /\ r.ref = NoText /\ r.reset = TRUE
    BY <1>1, <1>6 DEF HistoryText
  <2>2. Len(r.file) <= Quota
    BY <1>1, <2>1
  <2>. HIDE DEF r
  <2>. QED  BY <1>1, <1>2, <2>1, <2>2 DEF r
<1>. QED  BY <1>3, <1>4, <1>5, <1>6

LEMMA MatAppend ==
    ASSUME NEW f \in Seq(Chars), NEW hops \in Seq(HistoryOperation), AllReadable(f, hops),
           NEW h \in HistoryOperation, ReadableIn(f, h.ref)
    PROVE  /\ AllReadable(f, Append(hops, h))
           /\ Mat(f, Append(hops, h)) = Append(Mat(f, hops), [start |-> h.start, del |-> h.del, ins |-> TextIn(f, h.ref)])
<1>. DEFINE n == Len(hops)
            more == Append(hops, h)
            op == [start |-> h.start, del |-> h.del, ins |-> TextIn(f, h.ref)]
            old == Mat(f, hops)
            new == Mat(f, more)
<1>1. /\ n \in Nat /\ more \in Seq(HistoryOperation) /\ Len(more) = n + 1 /\ more[n + 1] = h
      /\ \A i \in 1..n : more[i] = hops[i]
  BY LenProperties, AppendProperties
<1>2. op \in AnyOp
  <2>1. h.start \in Nat /\ h.del \in Nat /\ h.ref \in Ref
    BY DEF HistoryOperation
  <2>. QED  BY <2>1, TextTyped DEF AnyOp
<1>3. /\ old \in Seq(AnyOp) /\ Len(old) = n
      /\ \A i \in 1..n : old[i] = [start |-> hops[i].start, del |-> hops[i].del, ins |-> TextIn(f, hops[i].ref)]
  BY MatTyped
<1>. HIDE DEF n, more
<1>4. AllReadable(f, more)
  <2>1. ASSUME NEW i \in 1..(n + 1) PROVE ReadableIn(f, more[i].ref)
    <3>1. CASE i = n + 1
      BY <1>1, <3>1
    <3>2. CASE i # n + 1
      <4>1. i \in 1..n
        BY <1>1, <3>2
      <4>. QED  BY <1>1, <4>1 DEF AllReadable, n
    <3>. QED  BY <3>1, <3>2
  <2>. QED  BY <1>1, <2>1 DEF AllReadable
<1>5. /\ new \in Seq(AnyOp) /\ Len(new) = n + 1
      /\ \A i \in 1..(n + 1) : new[i] = [start |-> more[i].start, del |-> more[i].del, ins |-> TextIn(f, more[i].ref)]
  BY <1>1, <1>4, MatTyped
<1>. HIDE DEF old, new, op
<1>6. /\ Append(old, op) \in Seq(AnyOp) /\ Len(Append(old, op)) = n + 1 /\ Append(old, op)[n + 1] = op
      /\ \A i \in 1..n : Append(old, op)[i] = old[i]
  BY <1>2, <1>3, AppendProperties
<1>7. ASSUME NEW i \in 1..(n + 1) PROVE new[i] = Append(old, op)[i]
  <2>1. CASE i = n + 1
    <3>1. new[i] = op
      BY <1>1, <1>5, <2>1 DEF op
    <3>. QED  BY <1>6, <2>1, <3>1
  <2>2. CASE i # n + 1
    <3>1. i \in 1..n
      BY <1>1, <2>2
    <3>2. more[i] = hops[i] /\ Append(old, op)[i] = old[i]
      BY <1>1, <1>6, <3>1
    <3>3. new[i] = old[i]
      BY <1>3, <1>5, <3>1, <3>2
    <3>. QED  BY <3>2, <3>3
  <2>. QED  BY <2>1, <2>2
<1>8. new = Append(old, op)
  BY <1>5, <1>6, <1>7, SeqEqual
<1>. QED  BY <1>4, <1>8 DEF new, old, op, more

LEMMA MatCons ==
    ASSUME NEW f \in Seq(Chars), NEW hops \in Seq(HistoryOperation), AllReadable(f, hops),
           NEW h \in HistoryOperation, ReadableIn(f, h.ref)
    PROVE  /\ AllReadable(f, <<h>> \o hops)
           /\ Mat(f, <<h>> \o hops) = <<[start |-> h.start, del |-> h.del, ins |-> TextIn(f, h.ref)]>> \o Mat(f, hops)
<1>. DEFINE n == Len(hops)
            more == <<h>> \o hops
            op == [start |-> h.start, del |-> h.del, ins |-> TextIn(f, h.ref)]
            old == Mat(f, hops)
            new == Mat(f, more)
            cat == <<op>> \o old
<1>1. /\ n \in Nat /\ more \in Seq(HistoryOperation) /\ Len(more) = 1 + n
      /\ \A i \in 1..(1 + n) : more[i] = IF i <= 1 THEN h ELSE hops[i - 1]
  <2>1. <<h>> \in Seq(HistoryOperation) /\ Len(<<h>>) = 1 /\ <<h>>[1] = h /\ n \in Nat
    BY LenProperties
  <2>2. /\ more \in Seq(HistoryOperation) /\ Len(more) = 1 + n
        /\ \A i \in 1..(1 + n) : more[i] = IF i <= 1 THEN <<h>>[i] ELSE hops[i - 1]
    BY <2>1, ConcatProperties
  <2>. HIDE DEF more, n
  <2>. QED  BY <2>1, <2>2
<1>2. op \in AnyOp
  <2>1. h.start \in Nat /\ h.del \in Nat /\ h.ref \in Ref
    BY DEF HistoryOperation
  <2>. QED  BY <2>1, TextTyped DEF AnyOp
<1>3. /\ old \in Seq(AnyOp) /\ Len(old) = n
      /\ \A i \in 1..n : old[i] = [start |-> hops[i].start, del |-> hops[i].del, ins |-> TextIn(f, hops[i].ref)]
  BY MatTyped
<1>. HIDE DEF n, more
<1>4. AllReadable(f, more)
  <2>1. ASSUME NEW i \in 1..(1 + n) PROVE ReadableIn(f, more[i].ref)
    <3>1. CASE i <= 1
      BY <1>1, <3>1
    <3>2. CASE ~(i <= 1)
      <4>1. i - 1 \in 1..n
        BY <1>1, <3>2
      <4>. QED  BY <1>1, <3>2, <4>1 DEF AllReadable, n
    <3>. QED  BY <3>1, <3>2
  <2>. QED  BY <1>1, <2>1 DEF AllReadable
<1>5. /\ new \in Seq(AnyOp) /\ Len(new) = 1 + n
      /\ \A i \in 1..(1 + n) : new[i] = [start |-> more[i].start, del |-> more[i].del, ins |-> TextIn(f, more[i].ref)]
  BY <1>1, <1>4, MatTyped
<1>. HIDE DEF old, new, op
<1>6. /\ cat \in Seq(AnyOp) /\ Len(cat) = 1 + n
      /\ \A i \in 1..(1 + n) : cat[i] = IF i <= 1 THEN op ELSE old[i - 1]
  <2>1. <<op>> \in Seq(AnyOp) /\ Len(<<op>>) = 1 /\ <<op>>[1] = op
    BY <1>2
  <2>2. /\ cat \in Seq(AnyOp) /\ Len(cat) = 1 + n
        /\ \A i \in 1..(1 + n) : cat[i] = IF i <= 1 THEN <<op>>[i] ELSE old[i - 1]
    BY <1>3, <2>1, ConcatProperties
  <2>. HIDE DEF cat
  <2>. QED  BY <1>1, <2>1, <2>2
<1>. HIDE DEF cat
<1>7. ASSUME NEW i \in 1..(1 + n) PROVE new[i] = cat[i]
  <2>1. CASE i <= 1
    <3>1. more[i] = h /\ cat[i] = op
      BY <1>1, <1>6, <2>1
    <3>2. new[i] = [start |-> h.start, del |-> h.del, ins |-> TextIn(f, h.ref)]
      BY <1>5, <3>1
    <3>. QED  BY <3>1, <3>2 DEF op
  <2>2. CASE ~(i <= 1)
    <3>1. i - 1 \in 1..n
      BY <1>1, <2>2
    <3>2. more[i] = hops[i - 1] /\ cat[i] = old[i - 1]
      BY <1>1, <1>6, <2>2
    <3>3. new[i] = old[i - 1]
      BY <1>3, <1>5, <3>1, <3>2
    <3>. QED  BY <3>2, <3>3
  <2>. QED  BY <2>1, <2>2
<1>8. new = cat
  BY <1>5, <1>6, <1>7, SeqEqual
<1>. QED  BY <1>4, <1>8 DEF new, cat, old, op, more

\* The entry with one more operation recorded.
Recorded(e, op, fref, iref) ==
    [forward |-> Append(e.forward, [start |-> op.start, del |-> op.del, ref |-> fref]),
     inverse |-> <<[start |-> op.start, del |-> Len(op.ins), ref |-> iref]>> \o e.inverse]

\* An entry stays one that leads there and back when an operation that fits is
\* recorded.
LEMMA EntryRecorded ==
    ASSUME NEW f \in Seq(Chars), NEW e \in HistoryEntry, NEW d, NEW t \in Docs, EntryOK(f, e, d, t),
           NEW op \in AnyOp, Fits(op, t), NEW fref \in Ref, NEW iref \in Ref,
           ReadableIn(f, fref), TextIn(f, fref) = op.ins,
           ReadableIn(f, iref), TextIn(f, iref) = Deleted(t, op)
    PROVE  /\ Recorded(e, op, fref, iref) \in HistoryEntry
           /\ EntryOK(f, Recorded(e, op, fref, iref), d, Replace(t, op))
<1>. DEFINE hf == [start |-> op.start, del |-> op.del, ref |-> fref]
            hi == [start |-> op.start, del |-> Len(op.ins), ref |-> iref]
            x == Recorded(e, op, fref, iref)
<1>1. e.forward \in Seq(HistoryOperation) /\ e.inverse \in Seq(HistoryOperation)
  BY DEF HistoryEntry
<1>2. /\ op.start \in Nat /\ op.del \in Nat /\ op.ins \in Seq(Chars) /\ Len(op.ins) \in Nat
      /\ op = [start |-> op.start, del |-> op.del, ins |-> op.ins]
  BY LenProperties DEF AnyOp
<1>3. /\ hf \in HistoryOperation /\ hf.ref = fref /\ hf.start = op.start /\ hf.del = op.del
      /\ hi \in HistoryOperation /\ hi.ref = iref /\ hi.start = op.start /\ hi.del = Len(op.ins)
  BY <1>2 DEF HistoryOperation
<1>4. x.forward = Append(e.forward, hf) /\ x.inverse = <<hi>> \o e.inverse
  BY DEF Recorded
<1>5. x \in HistoryEntry
  <2>. HIDE DEF hf, hi
  <2>1. Append(e.forward, hf) \in Seq(HistoryOperation)
    BY <1>1, <1>3, AppendProperties
  <2>2. <<hi>> \in Seq(HistoryOperation)
    BY <1>3
  <2>3. <<hi>> \o e.inverse \in Seq(HistoryOperation)
    BY <1>1, <2>2, ConcatProperties
  <2>4. x = [forward |-> Append(e.forward, hf), inverse |-> <<hi>> \o e.inverse]
    BY DEF Recorded, hf, hi
  <2>. QED  BY <2>1, <2>3, <2>4 DEF HistoryEntry
<1>. HIDE DEF hf, hi, x
<1>6. /\ AllReadable(f, x.forward)
      /\ Mat(f, x.forward) = Append(Mat(f, e.forward), op)
  <2>1. AllReadable(f, e.forward) /\ ReadableIn(f, hf.ref)
    BY <1>3 DEF EntryOK
  <2>2. /\ AllReadable(f, Append(e.forward, hf))
        /\ Mat(f, Append(e.forward, hf))
              = Append(Mat(f, e.forward), [start |-> hf.start, del |-> hf.del, ins |-> TextIn(f, hf.ref)])
    BY <1>1, <1>3, <2>1, MatAppend
  <2>3. [start |-> hf.start, del |-> hf.del, ins |-> TextIn(f, hf.ref)] = op
    BY <1>2, <1>3
  <2>. QED  BY <1>4, <2>2, <2>3
<1>7. /\ AllReadable(f, x.inverse)
      /\ Mat(f, x.inverse) = <<InverseOp(t, op)>> \o Mat(f, e.inverse)
  <2>1. AllReadable(f, e.inverse) /\ ReadableIn(f, hi.ref)
    BY <1>3 DEF EntryOK
  <2>2. /\ AllReadable(f, <<hi>> \o e.inverse)
        /\ Mat(f, <<hi>> \o e.inverse)
              = <<[start |-> hi.start, del |-> hi.del, ins |-> TextIn(f, hi.ref)]>> \o Mat(f, e.inverse)
    BY <1>1, <1>3, <2>1, MatCons
  <2>3. [start |-> hi.start, del |-> hi.del, ins |-> TextIn(f, hi.ref)] = InverseOp(t, op)
    BY <1>3 DEF InverseOp
  <2>. QED  BY <1>4, <2>2, <2>3
<1>8. Mat(f, e.forward) \in Seq(AnyOp) /\ Mat(f, e.inverse) \in Seq(AnyOp)
  BY <1>1, MatTyped DEF EntryOK
<1>9. Leads(Mat(f, x.forward), d, Replace(t, op))
  BY <1>6, <1>8, RunAppend DEF EntryOK
<1>10. Leads(Mat(f, x.inverse), Replace(t, op), d)
  <2>1. /\ InverseOp(t, op) \in AnyOp /\ Fits(InverseOp(t, op), Replace(t, op))
        /\ Replace(Replace(t, op), InverseOp(t, op)) = t
    BY InverseUndoes
  <2>2. Leads(Mat(f, e.inverse), t, d)
    BY DEF EntryOK
  <2>. QED  BY <1>7, <1>8, <2>1, <2>2, RunCons
<1>. QED  BY <1>5, <1>6, <1>7, <1>9, <1>10 DEF EntryOK, x

-----------------------------------------------------------------------------
\* Compaction

\* A flattened sequence holds the parts one after the other.
LEMMA FlattenChain ==
    ASSUME NEW S, NEW seqs \in Seq(Seq(S))
    PROVE  \E F \in [0..Len(seqs) -> Seq(S)] :
              /\ F[0] = <<>> /\ \A i \in 1..Len(seqs) : F[i] = F[i - 1] \o seqs[i]
              /\ FlattenSeq(seqs) = F[Len(seqs)]
<1>. DEFINE n == Len(seqs)
            step == [p \in (1..n) \X Seq(S) |-> p[2] \o seqs[p[1]]]
<1>1. n \in Nat /\ \A i \in 1..n : seqs[i] \in Seq(S)
  BY LenProperties
<1>2. <<>> \in Seq(S)
  BY EmptySeq
<1>3. step \in [(1..n) \X Seq(S) -> Seq(S)] /\ \A i \in 1..n, x \in Seq(S) : step[<<i, x>>] = x \o seqs[i]
  <2>1. \A i \in 1..n, x \in Seq(S) : x \o seqs[i] \in Seq(S)
    BY <1>1, ConcatProperties
  <2>. HIDE DEF n
  <2>. QED  BY <2>1
<1>. HIDE DEF step
<1>4. PICK F \in [0..n -> Seq(S)] : IsChain(F, n, <<>>, step)
  <2>. HIDE DEF n
  <2>. QED  BY <1>1, <1>2, <1>3, ChainExists
<1>5. F[0] = <<>> /\ \A i \in 1..n : F[i] = F[i - 1] \o seqs[i]
  <2>1. ASSUME NEW i \in 1..n PROVE F[i] = F[i - 1] \o seqs[i]
    <3>1. i - 1 \in 0..n
      BY <1>1
    <3>2. F[i - 1] \in Seq(S)
      BY <1>4, <3>1
    <3>. QED  BY <1>3, <1>4, <3>2 DEF IsChain
  <2>. QED  BY <1>4, <2>1 DEF IsChain
<1>6. FlattenSeq(seqs) = F[n]
  <2>1. CASE n = 0
    <3>1. seqs = <<>>
      BY <2>1, EmptySeq
    <3>2. FlattenSeq(seqs) = seqs
      BY <2>1 DEF FlattenSeq
    <3>. QED  BY <1>5, <2>1, <3>1, <3>2
  <2>2. CASE n # 0
    <3>. DEFINE Body(g) == [i \in 1..n |-> IF i = 1 THEN seqs[i] ELSE g[i - 1] \o seqs[i]]
                u == [i \in 1..n |-> F[i]]
                flatten == CHOOSE g : g = Body(g)
                Done == {m \in Nat : m + 1 <= n => flatten[m + 1] = F[m + 1]}
    <3>1. ASSUME NEW i \in 1..n PROVE u[i] = Body(u)[i]
      <4>1. CASE i = 1
        <5>1. F[i] = F[i - 1] \o seqs[i]
          BY <1>5
        <5>2. <<>> \o seqs[i] = seqs[i]
          BY <1>1, ConcatEmptySeq
        <5>3. i - 1 = 0
          BY <4>1
        <5>. QED  BY <1>5, <4>1, <5>1, <5>2, <5>3
      <4>2. CASE i # 1
        <5>1. i - 1 \in 1..n
          BY <1>1, <4>2
        <5>. QED  BY <1>5, <4>2, <5>1
      <4>. QED  BY <4>1, <4>2
    <3>2. u = Body(u)
      BY <3>1
    <3>3. flatten = Body(flatten)
      <4>. HIDE DEF u
      <4>. QED  BY <3>2
    <3>4. FlattenSeq(seqs) = flatten[n]
      BY <2>2 DEF FlattenSeq
    <3>. HIDE DEF flatten, n
    <3>5. 0 \in Done
      <4>1. 1 \in 1..n
        BY <1>1, <2>2
      <4>2. flatten[1] = seqs[1]
        BY <3>3, <4>1
      <4>3. F[1] = seqs[1]
        <5>1. PICK k \in 1..n : k = 1 /\ k - 1 = 0
          BY <4>1
        <5>2. F[k] = F[k - 1] \o seqs[k]
          BY <1>5
        <5>3. <<>> \o seqs[k] = seqs[k]
          BY <1>1, ConcatEmptySeq
        <5>. QED  BY <1>5, <5>1, <5>2, <5>3
      <4>. QED  BY <4>2, <4>3
    <3>6. ASSUME NEW m \in Nat, m \in Done PROVE m + 1 \in Done
      <4>. SUFFICES ASSUME (m + 1) + 1 <= n PROVE flatten[(m + 1) + 1] = F[(m + 1) + 1]
        OBVIOUS
      <4>1. (m + 1) + 1 \in 1..n /\ (m + 1) + 1 # 1 /\ ((m + 1) + 1) - 1 = m + 1 /\ flatten[m + 1] = F[m + 1]
        BY <1>1, <3>6
      <4>2. PICK k \in 1..n : k = (m + 1) + 1 /\ k # 1 /\ k - 1 = m + 1
        BY <4>1
      <4>3. flatten[k] = flatten[k - 1] \o seqs[k]
        BY <3>3, <4>2
      <4>4. F[k] = F[k - 1] \o seqs[k]
        BY <1>5
      <4>. QED  BY <4>1, <4>2, <4>3, <4>4
    <3>7. \A m \in Nat : m \in Done
      <4>. HIDE DEF Done
      <4>. QED  BY <3>5, <3>6, SetInduction
    <3>8. n - 1 \in Nat /\ (n - 1) + 1 <= n /\ (n - 1) + 1 = n
      BY <1>1, <2>2
    <3>. QED  BY <3>4, <3>7, <3>8
  <2>. QED  BY <2>1, <2>2
<1>. QED  BY <1>4, <1>5, <1>6

\* Where each part of a flattened sequence ends.
IsOffsets(at, seqs) ==
    /\ at \in [0..Len(seqs) -> Nat] /\ at[0] = 0
    /\ \A i \in 1..Len(seqs) : at[i] = at[i - 1] + Len(seqs[i])

\* Every part is found behind the parts before it, and nothing else.
Flattened(w, seqs, at) ==
    /\ Len(w) = at[Len(seqs)]
    /\ \A i \in 1..Len(seqs) :
          /\ at[i] <= at[Len(seqs)]
          /\ \A k \in 1..Len(seqs[i]) : w[at[i - 1] + k] = seqs[i][k]
    /\ \A k \in 1..Len(w) : \E i \in 1..Len(seqs) : \E j \in 1..Len(seqs[i]) : w[k] = seqs[i][j]

LEMMA FlattenShape ==
    ASSUME NEW S, NEW seqs \in Seq(Seq(S)), NEW at, IsOffsets(at, seqs)
    PROVE  FlattenSeq(seqs) \in Seq(S) /\ Flattened(FlattenSeq(seqs), seqs, at)
<1>. USE DEF IsOffsets
<1>. DEFINE n == Len(seqs)
<1>1. n \in Nat /\ \A i \in 1..n : seqs[i] \in Seq(S) /\ Len(seqs[i]) \in Nat
  <2>1. \A i \in 1..n : seqs[i] \in Seq(S)
    BY LenProperties
  <2>. QED  BY <2>1, LenProperties
<1>2. PICK F \in [0..n -> Seq(S)] :
         /\ F[0] = <<>> /\ \A i \in 1..n : F[i] = F[i - 1] \o seqs[i]
         /\ FlattenSeq(seqs) = F[n]
  BY FlattenChain
<1>. DEFINE Good(m) ==
              /\ Len(F[m]) = at[m]
              /\ \A i \in 1..m :
                    /\ at[i] <= at[m]
                    /\ \A k \in 1..Len(seqs[i]) : F[m][at[i - 1] + k] = seqs[i][k]
              /\ \A k \in 1..at[m] : \E i \in 1..n : \E j \in 1..Len(seqs[i]) : F[m][k] = seqs[i][j]
            Done == {m \in Nat : m <= n => Good(m)}
<1>. HIDE DEF n
<1>3. 0 \in Done
  <2>1. Len(F[0]) = 0 /\ at[0] = 0
    BY <1>2, EmptySeq
  <2>. QED  BY <2>1
<1>4. ASSUME NEW m \in Nat, m \in Done PROVE m + 1 \in Done
  <2>. SUFFICES ASSUME m + 1 <= n PROVE Good(m + 1)
    OBVIOUS
  <2>1. m \in 0..n /\ m + 1 \in 1..n /\ m + 1 \in 0..n /\ (m + 1) - 1 = m /\ Good(m)
    <3>. HIDE DEF Good
    <3>. QED  BY <1>1, <1>4
  <2>. DEFINE f == F[m]
              g == F[m + 1]
              s == seqs[m + 1]
  <2>2. f \in Seq(S) /\ s \in Seq(S) /\ g = f \o s /\ at[m + 1] = at[m] + Len(s)
    BY <1>1, <1>2, <2>1 DEF n
  <2>3. at[m] \in Nat /\ Len(s) \in Nat /\ Len(f) = at[m] /\ at[m + 1] \in Nat
    BY <1>1, <2>1 DEF n
  <2>4. /\ Len(g) = at[m] + Len(s)
        /\ \A k \in 1..(at[m] + Len(s)) : g[k] = IF k <= at[m] THEN f[k] ELSE s[k - at[m]]
    <3>. HIDE DEF f, s, g
    <3>1. /\ Len(f \o s) = Len(f) + Len(s)
          /\ \A k \in 1..(Len(f) + Len(s)) : (f \o s)[k] = IF k <= Len(f) THEN f[k] ELSE s[k - Len(f)]
      BY <2>2, ConcatProperties
    <3>. QED  BY <2>2, <2>3, <3>1
  <2>5. ASSUME NEW i \in 1..(m + 1)
        PROVE  /\ at[i] <= at[m + 1]
               /\ \A k \in 1..Len(seqs[i]) : g[at[i - 1] + k] = seqs[i][k]
    <3>1. CASE i = m + 1
      <4>1. i - 1 = m /\ at[i] = at[m + 1] /\ seqs[i] = s
        BY <3>1
      <4>2. ASSUME NEW k \in 1..Len(s) PROVE g[at[m] + k] = s[k]
        <5>. HIDE DEF f, s, g
        <5>1. at[m] + k \in 1..(at[m] + Len(s)) /\ ~(at[m] + k <= at[m]) /\ (at[m] + k) - at[m] = k
          BY <2>3
        <5>. QED  BY <2>4, <5>1
      <4>. HIDE DEF s, g
      <4>3. \A k \in 1..Len(seqs[i]) : g[at[i - 1] + k] = seqs[i][k]
        BY <4>1, <4>2
      <4>4. at[i] <= at[m + 1]
        BY <2>3, <4>1
      <4>. QED  BY <4>3, <4>4
    <3>2. CASE i # m + 1
      <4>1. i \in 1..m /\ i \in 0..n /\ i \in 1..n /\ i - 1 \in 0..n
        BY <1>1, <2>1, <3>2
      <4>2. at[i] <= at[m] /\ \A k \in 1..Len(seqs[i]) : f[at[i - 1] + k] = seqs[i][k]
        BY <2>1, <4>1
      <4>3. at[i] \in Nat /\ at[i - 1] \in Nat /\ at[i] = at[i - 1] + Len(seqs[i]) /\ Len(seqs[i]) \in Nat
        BY <1>1, <4>1 DEF n
      <4>. HIDE DEF f, s, g
      <4>4. ASSUME NEW k \in 1..Len(seqs[i]) PROVE g[at[i - 1] + k] = seqs[i][k]
        <5>1. at[i] <= at[m] /\ f[at[i - 1] + k] = seqs[i][k]
          BY <4>2
        <5>2. PICK x \in Nat : x = at[i - 1]
          BY <4>3
        <5>3. PICK y \in Nat : y = at[m]
          BY <2>3
        <5>4. x + Len(seqs[i]) <= y
          BY <4>3, <5>1, <5>2, <5>3
        <5>5. x + k \in 1..(y + Len(s)) /\ x + k <= y
          BY <2>3, <4>3, <5>4
        <5>6. g[x + k] = f[x + k]
          BY <2>4, <5>3, <5>5
        <5>. QED  BY <5>1, <5>2, <5>6
      <4>5. at[i] <= at[m + 1]
        <5>1. PICK x \in Nat : x = at[i]
          BY <4>3
        <5>2. PICK y \in Nat : y = at[m]
          BY <2>3
        <5>3. x <= y /\ at[m + 1] = y + Len(s)
          BY <2>2, <4>2, <5>1, <5>2
        <5>. QED  BY <2>3, <5>1, <5>3
      <4>. QED  BY <4>4, <4>5
    <3>. QED  BY <3>1, <3>2
  <2>6. ASSUME NEW k \in 1..at[m + 1]
        PROVE  \E i \in 1..n : \E j \in 1..Len(seqs[i]) : g[k] = seqs[i][j]
    <3>. HIDE DEF f, g
    <3>1. k \in 1..(at[m] + Len(s))
      BY <2>2
    <3>2. CASE k <= at[m]
      <4>1. k \in 1..at[m] /\ g[k] = f[k]
        BY <2>3, <2>4, <3>1, <3>2
      <4>2. \E i \in 1..n : \E j \in 1..Len(seqs[i]) : f[k] = seqs[i][j]
        BY <2>1, <4>1 DEF f
      <4>. QED  BY <4>1, <4>2
    <3>3. CASE ~(k <= at[m])
      <4>1. k - at[m] \in 1..Len(s) /\ g[k] = s[k - at[m]]
        <5>1. g[k] = s[k - at[m]]
          BY <2>4, <3>1, <3>3
        <5>2. PICK x \in Nat, y \in Nat : x = at[m] /\ y = Len(s)
          BY <2>3
        <5>3. k \in 1..(x + y) /\ ~(k <= x)
          BY <3>1, <3>3, <5>2, Zenon
        <5>4. k - x \in 1..y
          BY <5>3
        <5>. QED  BY <5>1, <5>2, <5>4
      <4>2. m + 1 \in 1..n
        BY <2>1
      <4>. HIDE DEF n
      <4>3. \E j \in 1..Len(seqs[m + 1]) : g[k] = seqs[m + 1][j]
        BY <4>1
      <4>. QED  BY <4>2, <4>3
    <3>. QED  BY <3>2, <3>3
  <2>7. Len(F[m + 1]) = at[m + 1]
    BY <2>2, <2>4
  <2>. QED  BY <2>5, <2>6, <2>7
<1>5. \A m \in Nat : m \in Done
  <2>. HIDE DEF Done
  <2>. QED  BY <1>3, <1>4, SetInduction
<1>6. Good(n)
  <2>. HIDE DEF Good
  <2>. QED  BY <1>1, <1>5
<1>7. F[n] \in Seq(S)
  BY <1>1, <1>2
<1>8. Flattened(F[n], seqs, at)
  BY <1>6 DEF n, Flattened
<1>9. F[n] = FlattenSeq(seqs)
  BY <1>2 DEF n
<1>. HIDE DEF Good, Done
<1>. QED  BY <1>7, <1>8, <1>9

\* Offsets that add up lengths exist.
LEMMA OffsetsExist ==
    ASSUME NEW n \in Nat, NEW size \in [1..n -> Nat]
    PROVE  \E at \in [0..n -> Nat] : at[0] = 0 /\ \A i \in 1..n : at[i] = at[i - 1] + size[i]
<1>. DEFINE step == [p \in (1..n) \X Nat |-> p[2] + size[p[1]]]
<1>1. step \in [(1..n) \X Nat -> Nat] /\ \A i \in 1..n, x \in Nat : step[<<i, x>>] = x + size[i]
  <2>1. \A i \in 1..n, x \in Nat : x + size[i] \in Nat
    <3>. TAKE i \in 1..n, x \in Nat
    <3>1. size[i] \in Nat
      OBVIOUS
    <3>. QED  BY <3>1
  <2>. QED  BY <2>1
<1>. HIDE DEF step
<1>2. PICK at \in [0..n -> Nat] : IsChain(at, n, 0, step)
  <2>1. 0 \in Nat
    OBVIOUS
  <2>. QED  BY <1>1, <2>1, ChainExists
<1>3. ASSUME NEW i \in 1..n PROVE at[i] = at[i - 1] + size[i]
  <2>1. i - 1 \in 0..n
    OBVIOUS
  <2>2. at[i - 1] \in Nat
    BY <1>2, <2>1
  <2>. QED  BY <1>1, <1>2, <2>2 DEF IsChain
<1>. QED  BY <1>2, <1>3 DEF IsChain

\* The elements of a flattened sequence are those of its parts.
LEMMA FlattenElements ==
    ASSUME NEW S, NEW seqs \in Seq(Seq(S))
    PROVE  /\ FlattenSeq(seqs) \in Seq(S)
           /\ \A k \in 1..Len(FlattenSeq(seqs)) :
                 \E i \in 1..Len(seqs) : \E j \in 1..Len(seqs[i]) : FlattenSeq(seqs)[k] = seqs[i][j]
           /\ \A i \in 1..Len(seqs) : \A j \in 1..Len(seqs[i]) :
                 \E k \in 1..Len(FlattenSeq(seqs)) : FlattenSeq(seqs)[k] = seqs[i][j]
<1>. DEFINE n == Len(seqs)
            size == [i \in 1..n |-> Len(seqs[i])]
<1>1. n \in Nat /\ \A i \in 1..n : seqs[i] \in Seq(S)
  BY LenProperties
<1>2. \A i \in 1..n : Len(seqs[i]) \in Nat
  BY <1>1, LenProperties
<1>3. size \in [1..n -> Nat] /\ \A i \in 1..n : size[i] = Len(seqs[i])
  BY <1>2
<1>. HIDE DEF size
<1>4. PICK at \in [0..n -> Nat] : at[0] = 0 /\ \A i \in 1..n : at[i] = at[i - 1] + size[i]
  <2>. HIDE DEF n
  <2>. QED  BY <1>1, <1>3, OffsetsExist
<1>5. \A i \in 1..n : at[i] = at[i - 1] + Len(seqs[i])
  BY <1>3, <1>4
<1>6. /\ FlattenSeq(seqs) \in Seq(S) /\ Len(FlattenSeq(seqs)) = at[n]
      /\ \A i \in 1..n :
            /\ at[i] <= at[n]
            /\ \A k \in 1..Len(seqs[i]) : FlattenSeq(seqs)[at[i - 1] + k] = seqs[i][k]
      /\ \A k \in 1..Len(FlattenSeq(seqs)) :
            \E i \in 1..n : \E j \in 1..Len(seqs[i]) : FlattenSeq(seqs)[k] = seqs[i][j]
  <2>1. IsOffsets(at, seqs)
    BY <1>4, <1>5 DEF IsOffsets
  <2>2. FlattenSeq(seqs) \in Seq(S) /\ Flattened(FlattenSeq(seqs), seqs, at)
    BY <2>1, FlattenShape
  <2>. QED  BY <2>2, Zenon DEF Flattened
<1>7. ASSUME NEW i \in 1..n, NEW j \in 1..Len(seqs[i])
      PROVE  \E k \in 1..Len(FlattenSeq(seqs)) : FlattenSeq(seqs)[k] = seqs[i][j]
  <2>. HIDE DEF n
  <2>1. i \in 0..n /\ i - 1 \in 0..n /\ n \in 0..n
    BY <1>1
  <2>2. at[i] \in Nat /\ at[i - 1] \in Nat /\ at[n] \in Nat /\ Len(seqs[i]) \in Nat
    BY <1>2, <1>4, <2>1
  <2>3. PICK x \in Nat : x = at[i - 1]
    BY <2>2
  <2>4. x + Len(seqs[i]) <= at[n]
    <3>1. at[i] = x + Len(seqs[i]) /\ at[i] <= at[n]
      BY <1>5, <1>6, <2>3
    <3>. QED  BY <2>2, <3>1
  <2>5. x + j \in 1..at[n]
    BY <2>2, <2>4
  <2>6. FlattenSeq(seqs)[x + j] = seqs[i][j]
    BY <1>6, <2>3
  <2>. QED  BY <1>6, <2>5, <2>6
<1>. QED  BY <1>6, <1>7

LEMMA EntryRefsShape ==
    ASSUME NEW e \in HistoryEntry
    PROVE  /\ EntryRefs(e) \in Seq(Ref)
           /\ \A r : r \in RefsOf(e) <=> \E j \in 1..Len(EntryRefs(e)) : EntryRefs(e)[j] = r
<1>. DEFINE f == e.forward
            g == e.inverse
            n == Len(f)
            m == Len(g)
            c == f \o g
            q == EntryRefs(e)
<1>1. f \in Seq(HistoryOperation) /\ g \in Seq(HistoryOperation) /\ n \in Nat /\ m \in Nat
  BY LenProperties DEF HistoryEntry
<1>2. /\ c \in Seq(HistoryOperation) /\ Len(c) = n + m
      /\ \A i \in 1..(n + m) : c[i] = IF i <= n THEN f[i] ELSE g[i - n]
  <2>. HIDE DEF f, g
  <2>. QED  BY <1>1, ConcatProperties
<1>3. q = [i \in 1..(n + m) |-> c[i].ref]
  BY DEF EntryRefs
<1>. HIDE DEF c, q
<1>4. \A i \in 1..(n + m) : c[i].ref \in Ref
  <2>. TAKE i \in 1..(n + m)
  <2>1. c[i] \in HistoryOperation
    <3>. HIDE DEF n, m
    <3>1. i \in 1..Len(c)
      BY <1>2
    <3>. QED  BY <1>2, <3>1, ElementOfSeq
  <2>. QED  BY <2>1 DEF HistoryOperation
<1>5. q \in [1..(n + m) -> Ref] /\ n + m \in Nat
  <2>. HIDE DEF n, m
  <2>. QED  BY <1>1, <1>3, <1>4
<1>6. q \in Seq(Ref) /\ Len(q) = n + m
  <2>. HIDE DEF n, m
  <2>1. q \in Seq(Ref)
    BY <1>5, SeqDef
  <2>2. DOMAIN q = 1..(n + m)
    BY <1>5
  <2>. QED  BY <1>5, <2>1, <2>2, LenProperties
<1>7. RefsOf(e) = {f[k].ref : k \in 1..n} \cup {g[k].ref : k \in 1..m}
  BY DEF RefsOf, OpRefs
<1>. HIDE DEF n, m, f, g
<1>8. ASSUME NEW r, r \in RefsOf(e) PROVE \E j \in 1..(n + m) : q[j] = r
  <2>1. CASE \E k \in 1..n : r = f[k].ref
    <3>1. PICK k \in 1..n : r = f[k].ref
      BY <2>1
    <3>2. k \in 1..(n + m) /\ k <= n
      BY <1>1
    <3>3. q[k] = r
      BY <1>2, <1>3, <3>1, <3>2
    <3>. QED  BY <3>2, <3>3
  <2>2. CASE \E k \in 1..m : r = g[k].ref
    <3>1. PICK k \in 1..m : r = g[k].ref
      BY <2>2
    <3>2. n + k \in 1..(n + m) /\ ~(n + k <= n) /\ (n + k) - n = k
      BY <1>1
    <3>3. q[n + k] = r
      BY <1>2, <1>3, <3>1, <3>2
    <3>. QED  BY <3>2, <3>3
  <2>. QED  BY <1>7, <1>8, <2>1, <2>2
<1>9. ASSUME NEW j \in 1..(n + m) PROVE q[j] \in RefsOf(e)
  <2>1. CASE j <= n
    <3>1. j \in 1..n /\ q[j] = f[j].ref
      BY <1>1, <1>2, <1>3, <2>1
    <3>. QED  BY <1>7, <3>1
  <2>2. CASE ~(j <= n)
    <3>1. j - n \in 1..m /\ q[j] = g[j - n].ref
      BY <1>1, <1>2, <1>3, <2>2
    <3>. QED  BY <1>7, <3>1
  <2>. QED  BY <2>1, <2>2
<1>. QED  BY <1>6, <1>8, <1>9 DEF q

\* collectHistoryRefs finds the references of both stacks.
LEMMA LiveShape ==
    ASSUME undo \in Seq(HistoryEntry), redo \in Seq(HistoryEntry)
    PROVE  /\ LiveRefs \in Seq(Ref)
           /\ \A r : r \in StackRefs(undo) \cup StackRefs(redo)
                        <=> \E k \in 1..Len(LiveRefs) : LiveRefs[k] = r
<1>. DEFINE c == undo \o redo
            n == Len(undo)
            m == Len(redo)
            parts == [i \in 1..Len(c) |-> EntryRefs(c[i])]
<1>1. /\ c \in Seq(HistoryEntry) /\ Len(c) = n + m /\ n \in Nat /\ m \in Nat
      /\ \A i \in 1..(n + m) : c[i] = IF i <= n THEN undo[i] ELSE redo[i - n]
  BY ConcatProperties, LenProperties
<1>2. LiveRefs = FlattenSeq(parts)
  BY DEF LiveRefs
<1>. HIDE DEF c, n, m
<1>3. \A i \in 1..(n + m) : c[i] \in HistoryEntry
  BY <1>1, ElementOfSeq
<1>4. parts \in [1..(n + m) -> Seq(Ref)] /\ n + m \in Nat /\ \A i \in 1..(n + m) : parts[i] = EntryRefs(c[i])
  BY <1>1, <1>3, EntryRefsShape
<1>. HIDE DEF parts
<1>5. parts \in Seq(Seq(Ref)) /\ Len(parts) = n + m
  <2>1. parts \in Seq(Seq(Ref))
    BY <1>4, SeqDef
  <2>2. DOMAIN parts = 1..(n + m)
    BY <1>4
  <2>. QED  BY <1>4, <2>1, <2>2, LenProperties
<1>6. /\ LiveRefs \in Seq(Ref)
      /\ \A k \in 1..Len(LiveRefs) :
            \E i \in 1..Len(parts) : \E j \in 1..Len(parts[i]) : LiveRefs[k] = parts[i][j]
      /\ \A i \in 1..Len(parts) : \A j \in 1..Len(parts[i]) :
            \E k \in 1..Len(LiveRefs) : LiveRefs[k] = parts[i][j]
  <2>1. parts \in Seq(Seq(Ref))
    BY <1>5
  <2>2. /\ FlattenSeq(parts) \in Seq(Ref)
        /\ \A k \in 1..Len(FlattenSeq(parts)) :
              \E i \in 1..Len(parts) : \E j \in 1..Len(parts[i]) : FlattenSeq(parts)[k] = parts[i][j]
        /\ \A i \in 1..Len(parts) : \A j \in 1..Len(parts[i]) :
              \E k \in 1..Len(FlattenSeq(parts)) : FlattenSeq(parts)[k] = parts[i][j]
    BY <2>1, FlattenElements, Zenon
  <2>. QED  BY <1>2, <2>2
<1>7. ASSUME NEW r PROVE (\E i \in 1..(n + m) : r \in RefsOf(c[i])) <=> \E k \in 1..Len(LiveRefs) : LiveRefs[k] = r
  <2>1. ASSUME NEW i \in 1..(n + m), r \in RefsOf(c[i]) PROVE \E k \in 1..Len(LiveRefs) : LiveRefs[k] = r
    <3>1. PICK j \in 1..Len(EntryRefs(c[i])) : EntryRefs(c[i])[j] = r
      BY <1>3, <2>1, EntryRefsShape
    <3>2. parts[i] = EntryRefs(c[i]) /\ i \in 1..Len(parts)
      BY <1>4, <1>5
    <3>3. PICK k \in 1..Len(LiveRefs) : LiveRefs[k] = parts[i][j]
      BY <1>6, <3>1, <3>2
    <3>. QED  BY <3>1, <3>2, <3>3
  <2>2. ASSUME NEW k \in 1..Len(LiveRefs), LiveRefs[k] = r PROVE \E i \in 1..(n + m) : r \in RefsOf(c[i])
    <3>1. PICK i \in 1..(n + m) : \E j \in 1..Len(parts[i]) : LiveRefs[k] = parts[i][j]
      BY <1>5, <1>6
    <3>2. PICK j \in 1..Len(EntryRefs(c[i])) : EntryRefs(c[i])[j] = r
      BY <1>4, <2>2, <3>1
    <3>3. r \in RefsOf(c[i])
      BY <1>3, <3>2, EntryRefsShape
    <3>. QED  BY <3>3
  <2>. QED  BY <2>1, <2>2
<1>8. ASSUME NEW r PROVE r \in StackRefs(undo) \cup StackRefs(redo) <=> \E i \in 1..(n + m) : r \in RefsOf(c[i])
  <2>1. ASSUME r \in StackRefs(undo) PROVE \E i \in 1..(n + m) : r \in RefsOf(c[i])
    <3>1. PICK i \in 1..n : r \in RefsOf(undo[i])
      BY <2>1 DEF StackRefs, n
    <3>2. i \in 1..(n + m) /\ i <= n
      BY <1>1
    <3>. QED  BY <1>1, <3>1, <3>2
  <2>2. ASSUME r \in StackRefs(redo) PROVE \E i \in 1..(n + m) : r \in RefsOf(c[i])
    <3>1. PICK i \in 1..m : r \in RefsOf(redo[i])
      BY <2>2 DEF StackRefs, m
    <3>2. n + i \in 1..(n + m) /\ ~(n + i <= n) /\ (n + i) - n = i
      BY <1>1
    <3>3. c[n + i] = redo[i]
      BY <1>1, <3>2
    <3>. QED  BY <3>1, <3>2, <3>3
  <2>3. ASSUME NEW i \in 1..(n + m), r \in RefsOf(c[i]) PROVE r \in StackRefs(undo) \cup StackRefs(redo)
    <3>1. CASE i <= n
      <4>1. i \in 1..n /\ c[i] = undo[i]
        BY <1>1, <3>1
      <4>. QED  BY <2>3, <4>1 DEF StackRefs, n
    <3>2. CASE ~(i <= n)
      <4>1. i - n \in 1..m /\ c[i] = redo[i - n]
        BY <1>1, <3>2
      <4>. QED  BY <2>3, <4>1 DEF StackRefs, m
    <3>. QED  BY <3>1, <3>2
  <2>. QED  BY <2>1, <2>2, <2>3
<1>. QED  BY <1>6, <1>7, <1>8

\* rewriteContext keeps each reference that holds a text, once.
LEMMA UniqueShape ==
    ASSUME NEW refs \in Seq(Ref)
    PROVE  /\ UniqueRefs(refs) \in Seq(Ref)
           /\ \A i \in 1..Len(UniqueRefs(refs)) :
                 /\ UniqueRefs(refs)[i].length # 0
                 /\ \E k \in 1..Len(refs) : UniqueRefs(refs)[i] = refs[k]
           /\ \A i, j \in 1..Len(UniqueRefs(refs)) : i # j => UniqueRefs(refs)[i] # UniqueRefs(refs)[j]
           /\ \A k \in 1..Len(refs) : refs[k].length # 0 => Contains(UniqueRefs(refs), refs[k])
<1>. DEFINE n == Len(refs)
            Add(s, r) == IF r.length = 0 \/ Contains(s, r) THEN s ELSE Append(s, r)
            step == [p \in (1..n) \X Seq(Ref) |-> Add(p[2], refs[p[1]])]
            Body(g) == [i \in 0..n |-> IF i = 0 THEN <<>>
                                       ELSE IF refs[i].length = 0 \/ Contains(g[i - 1], refs[i]) THEN g[i - 1]
                                       ELSE Append(g[i - 1], refs[i])]
            seen == CHOOSE g : g = Body(g)
<1>1. n \in Nat /\ \A i \in 1..n : refs[i] \in Ref
  BY LenProperties
<1>2. step \in [(1..n) \X Seq(Ref) -> Seq(Ref)] /\ \A i \in 1..n, x \in Seq(Ref) : step[<<i, x>>] = Add(x, refs[i])
  <2>1. \A i \in 1..n, x \in Seq(Ref) : Add(x, refs[i]) \in Seq(Ref)
    BY <1>1, AppendProperties
  <2>. HIDE DEF n, Add
  <2>. QED  BY <2>1
<1>3. <<>> \in Seq(Ref) /\ Len(<<>>) = 0
  BY EmptySeq
<1>. HIDE DEF step
<1>4. PICK u \in [0..n -> Seq(Ref)] : IsChain(u, n, <<>>, step)
  <2>. HIDE DEF n, Add
  <2>. QED  BY <1>1, <1>2, <1>3, ChainExists
<1>5. ASSUME NEW i \in 1..n PROVE i - 1 \in 0..n /\ u[i - 1] \in Seq(Ref) /\ u[i] = Add(u[i - 1], refs[i])
  <2>. HIDE DEF n, Add
  <2>1. i - 1 \in 0..n
    BY <1>1
  <2>2. u[i - 1] \in Seq(Ref)
    BY <1>4, <2>1
  <2>. QED  BY <1>2, <1>4, <2>1, <2>2 DEF IsChain
<1>6. u = Body(u)
  <2>1. ASSUME NEW i \in 0..n PROVE u[i] = Body(u)[i]
    <3>1. CASE i = 0
      BY <1>4, <3>1 DEF IsChain
    <3>2. CASE i # 0
      <4>1. i \in 1..n
        BY <1>1, <3>2
      <4>. QED  BY <1>5, <3>2, <4>1
    <3>. QED  BY <3>1, <3>2
  <2>. QED  BY <1>4, <2>1
<1>7. seen = Body(seen)
  BY <1>6
<1>8. UniqueRefs(refs) = seen[n]
  BY DEF UniqueRefs
<1>. HIDE DEF seen, n
<1>. DEFINE Done == {m \in Nat : m <= n => seen[m] = u[m]}
<1>9. 0 \in Done
  <2>1. 0 \in 0..n
    BY <1>1
  <2>2. seen[0] = <<>>
    BY <1>7, <2>1
  <2>. QED  BY <1>4, <2>2 DEF IsChain
<1>10. ASSUME NEW m \in Nat, m \in Done PROVE m + 1 \in Done
  <2>. SUFFICES ASSUME m + 1 <= n PROVE seen[m + 1] = u[m + 1]
    OBVIOUS
  <2>1. PICK k \in 1..n : k = m + 1 /\ k - 1 = m /\ k \in 0..n /\ k # 0
    <3>1. m + 1 \in 1..n /\ (m + 1) - 1 = m /\ m + 1 \in 0..n /\ m + 1 # 0
      BY <1>1
    <3>. QED  BY <3>1
  <2>2. seen[m] = u[m]
    BY <1>1, <1>10
  <2>3. seen[k] = Add(seen[k - 1], refs[k])
    BY <1>7, <2>1
  <2>4. u[k] = Add(u[k - 1], refs[k])
    BY <1>5
  <2>. HIDE DEF Add
  <2>. QED  BY <2>1, <2>2, <2>3, <2>4
<1>11. \A m \in Nat : m \in Done
  <2>. HIDE DEF Done
  <2>. QED  BY <1>9, <1>10, SetInduction
<1>12. UniqueRefs(refs) = u[n]
  BY <1>1, <1>8, <1>11
<1>. DEFINE Fresh(s) == \A i, j \in 1..Len(s) : i # j => s[i] # s[j]
            From(s, m) == \A i \in 1..Len(s) : s[i].length # 0 /\ \E k \in 1..m : s[i] = refs[k]
            Full(s, m) == \A k \in 1..m : refs[k].length # 0 => Contains(s, refs[k])
            Good == {m \in Nat : m <= n => Fresh(u[m]) /\ From(u[m], m) /\ Full(u[m], m)}
<1>13. 0 \in Good
  <2>1. u[0] = <<>>
    BY <1>4 DEF IsChain
  <2>2. Fresh(<<>>) /\ From(<<>>, 0) /\ Full(<<>>, 0)
    BY <1>3
  <2>. HIDE DEF Fresh, From, Full
  <2>. QED  BY <2>1, <2>2
<1>14. ASSUME NEW m \in Nat, m \in Good PROVE m + 1 \in Good
  <2>. SUFFICES ASSUME m + 1 <= n
                PROVE  Fresh(u[m + 1]) /\ From(u[m + 1], m + 1) /\ Full(u[m + 1], m + 1)
    <3>. HIDE DEF Fresh, From, Full
    <3>. QED  OBVIOUS
  <2>. DEFINE s == u[m]
              r == refs[m + 1]
  <2>1. m + 1 \in 1..n /\ (m + 1) - 1 = m /\ m \in 0..n
    BY <1>1
  <2>2. s \in Seq(Ref) /\ u[m + 1] = Add(s, r)
    BY <1>5, <2>1
  <2>3. Fresh(s) /\ From(s, m) /\ Full(s, m)
    <3>. HIDE DEF Fresh, From, Full
    <3>. QED  BY <1>1, <1>14
  <2>. HIDE DEF s
  <2>4. CASE r.length = 0 \/ Contains(s, r)
    <3>1. u[m + 1] = s
      BY <2>2, <2>4
    <3>2. Full(s, m + 1)
      <4>. SUFFICES ASSUME NEW k \in 1..(m + 1), refs[k].length # 0 PROVE Contains(s, refs[k])
        OBVIOUS
      <4>1. CASE k = m + 1
        BY <2>4, <4>1
      <4>2. CASE k # m + 1
        <5>1. k \in 1..m
          BY <4>2
        <5>. QED  BY <2>3, <5>1
      <4>. QED  BY <4>1, <4>2
    <3>3. From(s, m + 1)
      <4>1. 1..m \subseteq 1..(m + 1)
        OBVIOUS
      <4>. QED  BY <2>3, <4>1
    <3>. HIDE DEF Fresh, From, Full
    <3>. QED  BY <2>3, <3>1, <3>2, <3>3
  <2>5. CASE ~(r.length = 0 \/ Contains(s, r))
    <3>. DEFINE t == Append(s, r)
                l == Len(s)
    <3>1. u[m + 1] = t
      BY <2>2, <2>5
    <3>2. /\ t \in Seq(Ref) /\ Len(t) = l + 1 /\ t[l + 1] = r /\ l \in Nat
          /\ \A i \in 1..l : t[i] = s[i]
      BY <1>1, <2>1, <2>2, AppendProperties, LenProperties
    <3>. HIDE DEF t
    <3>3. \A i \in 1..l : s[i] # r
      BY <2>5 DEF Contains
    <3>4. Fresh(t)
      <4>. SUFFICES ASSUME NEW i \in 1..(l + 1), NEW j \in 1..(l + 1), i # j PROVE t[i] # t[j]
        BY <3>2
      <4>1. CASE i = l + 1
        <5>1. j \in 1..l
          BY <3>2, <4>1
        <5>. QED  BY <3>2, <3>3, <4>1, <5>1
      <4>2. CASE j = l + 1
        <5>1. i \in 1..l
          BY <3>2, <4>2
        <5>. QED  BY <3>2, <3>3, <4>2, <5>1
      <4>3. CASE i # l + 1 /\ j # l + 1
        <5>1. i \in 1..l /\ j \in 1..l
          BY <3>2, <4>3
        <5>2. s[i] # s[j]
          BY <2>3, <5>1
        <5>. QED  BY <3>2, <5>1, <5>2
      <4>. QED  BY <4>1, <4>2, <4>3
    <3>5. From(t, m + 1)
      <4>. SUFFICES ASSUME NEW i \in 1..(l + 1)
                    PROVE  t[i].length # 0 /\ \E k \in 1..(m + 1) : t[i] = refs[k]
        BY <3>2
      <4>1. CASE i = l + 1
        <5>1. m + 1 \in 1..(m + 1)
          OBVIOUS
        <5>. QED  BY <2>5, <3>2, <4>1, <5>1
      <4>2. CASE i # l + 1
        <5>1. i \in 1..l
          BY <3>2, <4>2
        <5>2. s[i].length # 0 /\ \E k \in 1..m : s[i] = refs[k]
          BY <2>3, <5>1
        <5>3. 1..m \subseteq 1..(m + 1)
          OBVIOUS
        <5>. QED  BY <3>2, <5>1, <5>2, <5>3
      <4>. QED  BY <4>1, <4>2
    <3>6. Full(t, m + 1)
      <4>. SUFFICES ASSUME NEW k \in 1..(m + 1), refs[k].length # 0 PROVE Contains(t, refs[k])
        OBVIOUS
      <4>1. CASE k = m + 1
        <5>1. l + 1 \in 1..(l + 1)
          BY <3>2
        <5>. QED  BY <3>2, <4>1, <5>1 DEF Contains
      <4>2. CASE k # m + 1
        <5>1. k \in 1..m
          BY <4>2
        <5>2. PICK i \in 1..l : s[i] = refs[k]
          BY <2>3, <5>1 DEF Contains
        <5>3. i \in 1..(l + 1) /\ t[i] = refs[k]
          BY <3>2, <5>2
        <5>. QED  BY <3>2, <5>3 DEF Contains
      <4>. QED  BY <4>1, <4>2
    <3>. HIDE DEF Fresh, From, Full
    <3>. QED  BY <3>1, <3>4, <3>5, <3>6
  <2>. QED  BY <2>4, <2>5
<1>15. \A m \in Nat : m \in Good
  <2>. HIDE DEF Good
  <2>. QED  BY <1>13, <1>14, SetInduction
<1>16. Fresh(u[n]) /\ From(u[n], n) /\ Full(u[n], n)
  <2>. HIDE DEF Fresh, From, Full
  <2>. QED  BY <1>1, <1>15
<1>17. u[n] \in Seq(Ref)
  BY <1>1, <1>4
<1>. QED  BY <1>12, <1>16, <1>17 DEF n

\* The sizes of the rewritten store add up the lengths.
LEMMA SizesUnfold ==
    ASSUME NEW unique \in Seq(Ref)
    PROVE  /\ Sizes(unique) \in [0..Len(unique) -> Nat] /\ Sizes(unique)[0] = 0
           /\ \A i \in 1..Len(unique) : Sizes(unique)[i] = Sizes(unique)[i - 1] + unique[i].length
<1>. DEFINE n == Len(unique)
            len == [i \in 1..n |-> unique[i].length]
            Body(g) == [i \in 0..n |-> IF i = 0 THEN 0 ELSE g[i - 1] + unique[i].length]
            size == CHOOSE g : g = Body(g)
            Done == {m \in Nat : m <= n => size[m] \in Nat}
<1>1. n \in Nat /\ \A i \in 1..n : unique[i] \in Ref
  BY LenProperties
<1>2. \A i \in 1..n : unique[i].length \in Nat
  BY <1>1 DEF Ref
<1>3. len \in [1..n -> Nat] /\ \A i \in 1..n : len[i] = unique[i].length
  BY <1>2
<1>. HIDE DEF len
<1>4. PICK at \in [0..n -> Nat] : at[0] = 0 /\ \A i \in 1..n : at[i] = at[i - 1] + len[i]
  <2>. HIDE DEF n
  <2>. QED  BY <1>1, <1>3, OffsetsExist
<1>5. at = Body(at)
  <2>1. ASSUME NEW i \in 0..n PROVE at[i] = Body(at)[i]
    <3>1. CASE i = 0
      BY <1>4, <3>1
    <3>2. CASE i # 0
      <4>1. i \in 1..n
        BY <3>2
      <4>. QED  BY <1>3, <1>4, <3>2, <4>1
    <3>. QED  BY <3>1, <3>2
  <2>. QED  BY <1>4, <2>1
<1>6. size = Body(size)
  BY <1>5
<1>7. Sizes(unique) = size
  BY DEF Sizes
<1>. HIDE DEF size, n
<1>8. size[0] = 0
  BY <1>1, <1>6
<1>9. ASSUME NEW i \in 1..n PROVE size[i] = size[i - 1] + unique[i].length
  <2>1. i \in 0..n /\ i # 0
    BY <1>1
  <2>. QED  BY <1>6, <2>1
<1>10. 0 \in Done
  BY <1>8
<1>11. ASSUME NEW m \in Nat, m \in Done PROVE m + 1 \in Done
  <2>. SUFFICES ASSUME m + 1 <= n PROVE size[m + 1] \in Nat
    OBVIOUS
  <2>1. PICK k \in 1..n : k = m + 1 /\ k - 1 = m
    <3>1. m + 1 \in 1..n /\ (m + 1) - 1 = m
      BY <1>1
    <3>. QED  BY <3>1
  <2>2. size[m] \in Nat
    BY <1>1, <1>11
  <2>3. size[k] = size[k - 1] + unique[k].length /\ unique[k].length \in Nat
    BY <1>2, <1>9
  <2>. QED  BY <2>1, <2>2, <2>3
<1>12. \A m \in Nat : m \in Done
  <2>. HIDE DEF Done
  <2>. QED  BY <1>10, <1>11, SetInduction
<1>13. size = [i \in 0..n |-> size[i]] /\ \A i \in 0..n : size[i] \in Nat
  <2>1. \A i \in 0..n : size[i] \in Nat
    BY <1>1, <1>12
  <2>2. Body(size) = [i \in 0..n |-> Body(size)[i]]
    OBVIOUS
  <2>. HIDE DEF Body
  <2>. QED  BY <1>6, <2>1, <2>2
<1>14. size \in [0..n -> Nat]
  BY <1>13
<1>. QED  BY <1>7, <1>8, <1>9, <1>14 DEF n

\* References that share no byte take no more room than the store has.
LEMMA SizesFit ==
    ASSUME NEW f \in Seq(Chars), NEW unique \in Seq(Ref),
           \A i \in 1..Len(unique) : ReadableIn(f, unique[i]) /\ unique[i].length # 0,
           \A i, j \in 1..Len(unique) : i # j => unique[i] # unique[j] /\ Apart(unique[i], unique[j])
    PROVE  Sizes(unique)[Len(unique)] <= Len(f)
<1>. DEFINE n == Len(unique)
            z == Sizes(unique)
            Cells(i) == (unique[i].offset + 1)..(unique[i].offset + unique[i].length)
            U(m) == UNION {Cells(i) : i \in 1..m}
            Done == {m \in Nat : m <= n => IsFiniteSet(U(m)) /\ Cardinality(U(m)) = z[m]}
<1>1. n \in Nat /\ Len(f) \in Nat
  BY LenProperties
<1>2. ASSUME NEW i \in 1..n
      PROVE  /\ unique[i].offset \in Nat /\ unique[i].length \in Nat
             /\ unique[i].offset + unique[i].length <= Len(f)
  <2>1. unique[i] \in Ref
    BY ElementOfSeq
  <2>. QED  BY <2>1 DEF Ref, ReadableIn
<1>3. z \in [0..n -> Nat] /\ z[0] = 0 /\ \A i \in 1..n : z[i] = z[i - 1] + unique[i].length
  BY SizesUnfold
<1>4. ASSUME NEW i \in 1..n
      PROVE  /\ IsFiniteSet(Cells(i)) /\ Cardinality(Cells(i)) = unique[i].length
             /\ Cells(i) \subseteq 1..Len(f)
  <2>1. PICK x \in Nat : x = unique[i].offset
    BY <1>2
  <2>2. PICK y \in Nat : y = unique[i].length
    BY <1>2
  <2>3. x + y <= Len(f)
    BY <1>2, <2>1, <2>2
  <2>4. Cells(i) = (x + 1)..(x + y)
    BY <2>1, <2>2
  <2>5. IsFiniteSet((x + 1)..(x + y)) /\ Cardinality((x + 1)..(x + y)) = IF x + 1 > x + y THEN 0 ELSE (x + y) - (x + 1) + 1
    <3>1. x + 1 \in Int /\ x + y \in Int
      OBVIOUS
    <3>. QED  BY <3>1, FS_Interval
  <2>6. Cardinality((x + 1)..(x + y)) = y
    BY <2>5
  <2>7. (x + 1)..(x + y) \subseteq 1..Len(f)
    BY <1>1, <2>3
  <2>. HIDE DEF Cells
  <2>. QED  BY <2>2, <2>4, <2>5, <2>6, <2>7
<1>5. ASSUME NEW i \in 1..n, NEW j \in 1..n, i # j PROVE Cells(i) \cap Cells(j) = {}
  <2>1. PICK a \in Nat : a = unique[i].offset
    BY <1>2
  <2>2. PICK b \in Nat : b = unique[i].length
    BY <1>2
  <2>3. PICK c \in Nat : c = unique[j].offset
    BY <1>2
  <2>4. PICK e \in Nat : e = unique[j].length
    BY <1>2
  <2>5. unique[i] # unique[j] /\ Apart(unique[i], unique[j]) /\ unique[i].length # 0 /\ unique[j].length # 0
    BY <1>5
  <2>6. a + b <= c \/ c + e <= a
    BY <2>1, <2>2, <2>3, <2>4, <2>5 DEF Apart
  <2>7. Cells(i) = (a + 1)..(a + b) /\ Cells(j) = (c + 1)..(c + e)
    BY <2>1, <2>2, <2>3, <2>4
  <2>8. ((a + 1)..(a + b)) \cap ((c + 1)..(c + e)) = {}
    BY <2>6
  <2>. HIDE DEF Cells
  <2>. QED  BY <2>7, <2>8
<1>. HIDE DEF n, z, Cells
<1>6. 0 \in Done
  <2>1. U(0) = {}
    OBVIOUS
  <2>2. IsFiniteSet({}) /\ Cardinality({}) = 0
    BY FS_EmptySet
  <2>. HIDE DEF U
  <2>. QED  BY <1>3, <2>1, <2>2
<1>7. ASSUME NEW m \in Nat, m \in Done PROVE m + 1 \in Done
  <2>. SUFFICES ASSUME m + 1 <= n PROVE IsFiniteSet(U(m + 1)) /\ Cardinality(U(m + 1)) = z[m + 1]
    <3>. HIDE DEF U
    <3>. QED  OBVIOUS
  <2>1. IsFiniteSet(U(m)) /\ Cardinality(U(m)) = z[m]
    <3>. HIDE DEF U
    <3>. QED  BY <1>1, <1>7
  <2>2. m + 1 \in 1..n /\ m \in 0..n /\ (m + 1) - 1 = m /\ 1..(m + 1) = 1..m \cup {m + 1}
    BY <1>1
  <2>3. U(m + 1) = U(m) \cup Cells(m + 1)
    BY <2>2
  <2>4. U(m) \cap Cells(m + 1) = {}
    <3>1. ASSUME NEW i \in 1..m PROVE Cells(i) \cap Cells(m + 1) = {}
      <4>1. i \in 1..n /\ i # m + 1
        BY <1>1, <2>2
      <4>. QED  BY <1>5, <2>2, <4>1
    <3>. QED  BY <3>1
  <2>5. IsFiniteSet(Cells(m + 1)) /\ Cardinality(Cells(m + 1)) = unique[m + 1].length
    BY <1>4, <2>2
  <2>. HIDE DEF U
  <2>6. /\ IsFiniteSet(U(m) \cup Cells(m + 1))
        /\ Cardinality(U(m) \cup Cells(m + 1))
              = Cardinality(U(m)) + Cardinality(Cells(m + 1)) - Cardinality(U(m) \cap Cells(m + 1))
    BY <2>1, <2>5, FS_Union
  <2>7. Cardinality({}) = 0
    BY FS_EmptySet
  <2>8. PICK k \in 1..n : k = m + 1 /\ k - 1 = m
    BY <2>2
  <2>9. z[k] = z[k - 1] + unique[k].length /\ z[m] \in Nat /\ unique[k].length \in Nat
    BY <1>2, <1>3, <2>2 DEF n
  <2>10. Cardinality(U(m) \cup Cells(m + 1)) = z[m] + unique[m + 1].length
    <3>1. Cardinality(U(m) \cap Cells(m + 1)) = 0
      BY <2>4, <2>7
    <3>2. unique[m + 1].length \in Nat
      BY <2>8, <2>9
    <3>. QED  BY <2>1, <2>5, <2>6, <2>9, <3>1, <3>2
  <2>. QED  BY <2>3, <2>6, <2>8, <2>9, <2>10
<1>8. \A m \in Nat : m \in Done
  <2>. HIDE DEF Done
  <2>. QED  BY <1>6, <1>7, SetInduction
<1>9. IsFiniteSet(U(n)) /\ Cardinality(U(n)) = z[n]
  <2>. HIDE DEF U
  <2>. QED  BY <1>1, <1>8
<1>10. U(n) \subseteq 1..Len(f)
  BY <1>4
<1>11. IsFiniteSet(1..Len(f)) /\ Cardinality(1..Len(f)) = Len(f)
  <2>1. IsFiniteSet(1..Len(f)) /\ Cardinality(1..Len(f)) = IF 1 > Len(f) THEN 0 ELSE Len(f) - 1 + 1
    <3>1. 1 \in Int /\ Len(f) \in Int
      BY <1>1
    <3>. QED  BY <3>1, FS_Interval
  <2>. QED  BY <1>1, <2>1
<1>. HIDE DEF U
<1>12. Cardinality(U(n)) <= Cardinality(1..Len(f))
  BY <1>10, <1>11, FS_Subset
<1>. QED  BY <1>9, <1>11, <1>12 DEF n, z

\* The sizes grow.
LEMMA SizesGrow ==
    ASSUME NEW unique \in Seq(Ref), NEW i \in 0..Len(unique), NEW j \in 0..Len(unique), i <= j
    PROVE  Sizes(unique)[i] <= Sizes(unique)[j]
<1>. DEFINE n == Len(unique)
            z == Sizes(unique)
            Done == {m \in Nat : i + m <= n => z[i] <= z[i + m]}
<1>1. n \in Nat /\ i \in 0..n /\ j \in 0..n
  BY LenProperties
<1>2. z \in [0..n -> Nat] /\ \A k \in 1..n : z[k] = z[k - 1] + unique[k].length
  BY SizesUnfold
<1>3. \A k \in 1..n : unique[k].length \in Nat
  <2>. TAKE k \in 1..n
  <2>1. unique[k] \in Ref
    BY ElementOfSeq
  <2>. QED  BY <2>1 DEF Ref
<1>. HIDE DEF n, z
<1>4. 0 \in Done
  BY <1>1, <1>2
<1>5. ASSUME NEW m \in Nat, m \in Done PROVE m + 1 \in Done
  <2>. SUFFICES ASSUME i + (m + 1) <= n PROVE z[i] <= z[i + (m + 1)]
    OBVIOUS
  <2>1. PICK k \in 1..n : k = i + (m + 1) /\ k - 1 = i + m
    <3>1. i + (m + 1) \in 1..n /\ (i + (m + 1)) - 1 = i + m
      BY <1>1
    <3>. QED  BY <3>1
  <2>2. z[i] <= z[k - 1] /\ k - 1 \in 0..n
    BY <1>1, <1>5, <2>1
  <2>3. z[k] = z[k - 1] + unique[k].length /\ unique[k].length \in Nat
    BY <1>2, <1>3
  <2>4. z[i] \in Nat /\ z[k - 1] \in Nat
    BY <1>1, <1>2, <2>2
  <2>. QED  BY <2>1, <2>2, <2>3, <2>4
<1>6. \A m \in Nat : m \in Done
  <2>. HIDE DEF Done
  <2>. QED  BY <1>4, <1>5, SetInduction
<1>7. j - i \in Nat /\ i + (j - i) = j /\ i + (j - i) <= n
  BY <1>1
<1>. QED  BY <1>6, <1>7 DEF z

\* The rewritten store.
Rewritten(f, unique) == FlattenSeq([i \in 1..Len(unique) |-> TextIn(f, unique[i])])

LEMMA RewrittenShape ==
    ASSUME NEW f \in Seq(Chars), NEW unique \in Seq(Ref), \A i \in 1..Len(unique) : ReadableIn(f, unique[i])
    PROVE  /\ Rewritten(f, unique) \in Seq(Chars)
           /\ Len(Rewritten(f, unique)) = Sizes(unique)[Len(unique)]
           /\ \A i \in 1..Len(unique) : \A k \in 1..unique[i].length :
                 Rewritten(f, unique)[Sizes(unique)[i - 1] + k] = TextIn(f, unique[i])[k]
<1>. DEFINE n == Len(unique)
            z == Sizes(unique)
            parts == [i \in 1..n |-> TextIn(f, unique[i])]
            w == Rewritten(f, unique)
<1>1. n \in Nat /\ \A i \in 1..n : unique[i] \in Ref
  BY LenProperties
<1>2. \A i \in 1..n : TextIn(f, unique[i]) \in Seq(Chars) /\ Len(TextIn(f, unique[i])) = unique[i].length
  BY <1>1, TextTyped
<1>3. z \in [0..n -> Nat] /\ z[0] = 0 /\ \A i \in 1..n : z[i] = z[i - 1] + unique[i].length
  BY SizesUnfold
<1>4. w = FlattenSeq(parts)
  BY DEF Rewritten
<1>. HIDE DEF n, z, w
<1>5. /\ parts \in [1..n -> Seq(Chars)]
      /\ \A i \in 1..n : parts[i] = TextIn(f, unique[i]) /\ Len(parts[i]) = unique[i].length
  BY <1>2
<1>. HIDE DEF parts
<1>6. parts \in Seq(Seq(Chars)) /\ Len(parts) = n
  <2>1. parts \in Seq(Seq(Chars))
    BY <1>1, <1>5, SeqDef
  <2>2. DOMAIN parts = 1..n
    BY <1>5
  <2>. QED  BY <1>1, <2>1, <2>2, LenProperties
<1>7. IsOffsets(z, parts)
  BY <1>3, <1>5, <1>6 DEF IsOffsets
<1>8. /\ FlattenSeq(parts) \in Seq(Chars) /\ Len(FlattenSeq(parts)) = z[Len(parts)]
      /\ \A i \in 1..Len(parts) : \A k \in 1..Len(parts[i]) : FlattenSeq(parts)[z[i - 1] + k] = parts[i][k]
  <2>1. FlattenSeq(parts) \in Seq(Chars) /\ Flattened(FlattenSeq(parts), parts, z)
    BY <1>6, <1>7, FlattenShape
  <2>. QED  BY <2>1 DEF Flattened
<1>9. ASSUME NEW i \in 1..n, NEW k \in 1..unique[i].length PROVE w[z[i - 1] + k] = TextIn(f, unique[i])[k]
  <2>1. parts[i] = TextIn(f, unique[i]) /\ k \in 1..Len(parts[i]) /\ i \in 1..Len(parts)
    BY <1>5, <1>6
  <2>. QED  BY <1>4, <1>8, <2>1
<1>. QED  BY <1>4, <1>6, <1>8, <1>9 DEF n, z, w

\* The references rewriteContext finds a place for.
Kept(f, unique, refs) ==
    \A r \in refs : r \in Ref /\ ReadableIn(f, r) /\ (r.length # 0 => Contains(unique, r))

\* Place i of the rewritten store.
PlaceOf(unique, i) == [offset |-> Sizes(unique)[i - 1], length |-> unique[i].length]

\* A kept reference is moved to the place of its text.
LEMMA RemapShape ==
    ASSUME NEW f \in Seq(Chars), NEW unique \in Seq(Ref), \A i \in 1..Len(unique) : ReadableIn(f, unique[i]),
           NEW ref, Kept(f, unique, {ref})
    PROVE  LET new == RemapRef(unique, ref)
           IN  /\ new \in Ref /\ ReadableIn(Rewritten(f, unique), new)
               /\ TextIn(Rewritten(f, unique), new) = TextIn(f, ref)
               /\ new.length = 0 \/ \E i \in 1..Len(unique) : new = PlaceOf(unique, i)
<1>. DEFINE n == Len(unique)
            z == Sizes(unique)
            w == Rewritten(f, unique)
            new == RemapRef(unique, ref)
<1>1. ref \in Ref /\ ReadableIn(f, ref) /\ (ref.length # 0 => Contains(unique, ref)) /\ ref.length \in Nat
  BY DEF Kept, Ref
<1>2. /\ w \in Seq(Chars) /\ Len(w) = z[n]
      /\ \A i \in 1..n : \A k \in 1..unique[i].length : w[z[i - 1] + k] = TextIn(f, unique[i])[k]
  BY RewrittenShape
<1>3. z \in [0..n -> Nat] /\ \A i \in 1..n : z[i] = z[i - 1] + unique[i].length
  BY SizesUnfold
<1>4. n \in Nat
  BY LenProperties
<1>5. TextIn(f, ref) \in Seq(Chars) /\ Len(TextIn(f, ref)) = ref.length
  BY <1>1, TextTyped
<1>6. CASE ref.length = 0
  <2>1. new = NoText
    BY <1>6 DEF RemapRef
  <2>2. NoText \in Ref /\ NoText.length = 0 /\ NoText.offset = 0
    BY DEF NoText, Ref
  <2>3. ReadableIn(w, NoText)
    <3>1. Len(w) \in Nat
      BY <1>2, LenProperties
    <3>. QED  BY <2>2, <3>1 DEF ReadableIn
  <2>4. TextIn(w, NoText) = TextIn(f, ref)
    <3>. HIDE DEF w
    <3>1. Len(TextIn(f, ref)) = NoText.length /\ \A i \in 1..NoText.length : w[NoText.offset + i] = TextIn(f, ref)[i]
      BY <1>5, <1>6, <2>2
    <3>. QED  BY <1>2, <1>5, <2>2, <2>3, <3>1, TextEqual
  <2>. HIDE DEF w, new
  <2>. QED  BY <2>1, <2>2, <2>3, <2>4 DEF w, new
<1>7. CASE ref.length # 0
  <2>. DEFINE i == CHOOSE j \in 1..n : unique[j] = ref
  <2>1. i \in 1..n /\ unique[i] = ref
    BY <1>1, <1>7 DEF Contains
  <2>2. new = [offset |-> z[i - 1], length |-> ref.length]
    BY <1>1, <1>7 DEF RemapRef, NewOffset
  <2>. HIDE DEF i, n, w, z, new
  <2>3. i - 1 \in 0..n /\ i \in 0..n /\ n \in 0..n /\ i <= n
    BY <1>4, <2>1
  <2>4. z[i - 1] \in Nat /\ z[i] \in Nat /\ z[n] \in Nat /\ z[i] = z[i - 1] + ref.length
    BY <1>3, <2>1, <2>3
  <2>5. new \in Ref /\ new.offset = z[i - 1] /\ new.length = ref.length
    BY <1>1, <2>2, <2>4 DEF Ref
  <2>6. z[i] <= z[n]
    BY <2>3, SizesGrow DEF n, z
  <2>7. ReadableIn(w, new)
    BY <1>2, <2>4, <2>5, <2>6 DEF ReadableIn
  <2>8. \A k \in 1..new.length : w[new.offset + k] = TextIn(f, ref)[k]
    BY <1>2, <2>1, <2>5
  <2>9. TextIn(w, new) = TextIn(f, ref)
    BY <1>2, <1>5, <2>5, <2>7, <2>8, TextEqual
  <2>10. new = PlaceOf(unique, i)
    BY <2>1, <2>2 DEF PlaceOf, z
  <2>. QED  BY <2>1, <2>5, <2>7, <2>9, <2>10 DEF n, w, new
<1>. QED  BY <1>6, <1>7

\* Two moved references share no byte, or are the same.
LEMMA RemapApart ==
    ASSUME NEW unique \in Seq(Ref), NEW i \in 1..Len(unique), NEW j \in 1..Len(unique)
    PROVE  Apart(PlaceOf(unique, i), PlaceOf(unique, j))
<1>. DEFINE n == Len(unique)
            z == Sizes(unique)
<1>1. n \in Nat
  BY LenProperties
<1>2. z \in [0..n -> Nat] /\ \A k \in 1..n : z[k] = z[k - 1] + unique[k].length
  BY SizesUnfold
<1>3. ASSUME NEW k \in 1..n, NEW l \in 1..n, k < l
      PROVE  PlaceOf(unique, k).offset + PlaceOf(unique, k).length <= PlaceOf(unique, l).offset
  <2>1. k \in 0..n /\ l - 1 \in 0..n /\ k <= l - 1
    BY <1>1, <1>3
  <2>2. z[k] <= z[l - 1]
    BY <2>1, SizesGrow
  <2>. QED  BY <1>2, <2>2 DEF PlaceOf
<1>4. CASE i = j
  BY <1>4 DEF Apart
<1>5. CASE i < j
  BY <1>3, <1>5 DEF Apart
<1>6. CASE j < i
  BY <1>3, <1>6 DEF Apart
<1>. QED  BY <1>1, <1>4, <1>5, <1>6

RemapOps(hops, unique) ==
    [i \in 1..Len(hops) |-> [hops[i] EXCEPT !.ref = RemapRef(unique, @)]]

RemapEntry(e, unique) ==
    [forward |-> RemapOps(e.forward, unique), inverse |-> RemapOps(e.inverse, unique)]

\* The operations keep their texts.
LEMMA RemapMat ==
    ASSUME NEW f \in Seq(Chars), NEW unique \in Seq(Ref), \A i \in 1..Len(unique) : ReadableIn(f, unique[i]),
           NEW hops \in Seq(HistoryOperation), Kept(f, unique, OpRefs(hops))
    PROVE  LET new == RemapOps(hops, unique)
               w == Rewritten(f, unique)
           IN  /\ new \in Seq(HistoryOperation) /\ AllReadable(w, new) /\ Mat(w, new) = Mat(f, hops)
               /\ \A r \in OpRefs(new) : \E s \in OpRefs(hops) : r = RemapRef(unique, s)
<1>. DEFINE new == RemapOps(hops, unique)
            w == Rewritten(f, unique)
            n == Len(hops)
<1>1. n \in Nat /\ \A i \in 1..n : hops[i] \in HistoryOperation
  BY LenProperties
<1>2. ASSUME NEW i \in 1..n
      PROVE  /\ new[i] = [start |-> hops[i].start, del |-> hops[i].del, ref |-> RemapRef(unique, hops[i].ref)]
             /\ hops[i].ref \in OpRefs(hops)
             /\ RemapRef(unique, hops[i].ref) \in Ref /\ ReadableIn(w, RemapRef(unique, hops[i].ref))
             /\ TextIn(w, RemapRef(unique, hops[i].ref)) = TextIn(f, hops[i].ref)
  <2>1. new[i] = [hops[i] EXCEPT !.ref = RemapRef(unique, @)]
    BY DEF RemapOps
  <2>2. hops[i] \in HistoryOperation
    BY <1>1
  <2>3. new[i] = [start |-> hops[i].start, del |-> hops[i].del, ref |-> RemapRef(unique, hops[i].ref)]
    BY <2>1, <2>2 DEF HistoryOperation
  <2>4. hops[i].ref \in OpRefs(hops)
    BY DEF OpRefs
  <2>5. Kept(f, unique, {hops[i].ref})
    BY <2>4 DEF Kept
  <2>. QED  BY <2>3, <2>4, <2>5, RemapShape
<1>3. /\ new = [i \in 1..n |-> new[i]]
      /\ \A i \in 1..n : new[i] \in HistoryOperation /\ new[i].start = hops[i].start
                         /\ new[i].del = hops[i].del /\ new[i].ref = RemapRef(unique, hops[i].ref)
  <2>1. new = [i \in 1..n |-> new[i]]
    BY DEF RemapOps
  <2>2. ASSUME NEW i \in 1..n PROVE new[i] \in HistoryOperation /\ new[i].start = hops[i].start
                         /\ new[i].del = hops[i].del /\ new[i].ref = RemapRef(unique, hops[i].ref)
    <3>1. hops[i].start \in Nat /\ hops[i].del \in Nat
      BY <1>1 DEF HistoryOperation
    <3>. DEFINE x == RemapRef(unique, hops[i].ref)
    <3>2. new[i] = [start |-> hops[i].start, del |-> hops[i].del, ref |-> x] /\ x \in Ref
      BY <1>2
    <3>. HIDE DEF new, x
    <3>3. new[i].start = hops[i].start /\ new[i].del = hops[i].del /\ new[i].ref = x
      BY <3>2
    <3>4. new[i] \in HistoryOperation
      BY <3>1, <3>2 DEF HistoryOperation
    <3>. QED  BY <3>3, <3>4 DEF x
  <2>. HIDE DEF new
  <2>. QED  BY <2>1, <2>2
<1>. HIDE DEF new, n, w
<1>4. new \in Seq(HistoryOperation) /\ Len(new) = n
  <2>1. new \in [1..n -> HistoryOperation]
    BY <1>3
  <2>2. new \in Seq(HistoryOperation)
    BY <1>1, <2>1, SeqDef
  <2>3. DOMAIN new = 1..n
    BY <2>1
  <2>. QED  BY <1>1, <2>2, <2>3, LenProperties
<1>5. AllReadable(w, new)
  BY <1>2, <1>3, <1>4 DEF AllReadable
<1>6. Mat(w, new) = Mat(f, hops)
  <2>1. ASSUME NEW i \in 1..n
        PROVE  [start |-> new[i].start, del |-> new[i].del, ins |-> TextIn(w, new[i].ref)]
                  = [start |-> hops[i].start, del |-> hops[i].del, ins |-> TextIn(f, hops[i].ref)]
    BY <1>2, <1>3
  <2>2. Mat(w, new) = [i \in 1..n |-> [start |-> new[i].start, del |-> new[i].del, ins |-> TextIn(w, new[i].ref)]]
    BY <1>4 DEF Mat
  <2>3. Mat(f, hops) = [i \in 1..n |-> [start |-> hops[i].start, del |-> hops[i].del, ins |-> TextIn(f, hops[i].ref)]]
    BY DEF Mat, n
  <2>. QED  BY <2>1, <2>2, <2>3
<1>7. ASSUME NEW r \in OpRefs(new) PROVE \E s \in OpRefs(hops) : r = RemapRef(unique, s)
  <2>1. PICK i \in 1..n : r = new[i].ref
    BY <1>4 DEF OpRefs
  <2>2. r = RemapRef(unique, hops[i].ref) /\ hops[i].ref \in OpRefs(hops)
    BY <1>2, <1>3, <2>1
  <2>. QED  BY <2>2
<1>. QED  BY <1>4, <1>5, <1>6, <1>7 DEF new, w

LEMMA RemapEntryOK ==
    ASSUME NEW f \in Seq(Chars), NEW unique \in Seq(Ref), \A i \in 1..Len(unique) : ReadableIn(f, unique[i]),
           NEW e \in HistoryEntry, Kept(f, unique, RefsOf(e))
    PROVE  LET new == RemapEntry(e, unique)
               w == Rewritten(f, unique)
           IN  /\ new \in HistoryEntry
               /\ \A r \in RefsOf(new) : \E s \in RefsOf(e) : r = RemapRef(unique, s)
               /\ \A b, a : EntryOK(f, e, b, a) => EntryOK(w, new, b, a)
<1>. DEFINE new == RemapEntry(e, unique)
            w == Rewritten(f, unique)
<1>1. e.forward \in Seq(HistoryOperation) /\ e.inverse \in Seq(HistoryOperation)
  BY DEF HistoryEntry
<1>2. Kept(f, unique, OpRefs(e.forward)) /\ Kept(f, unique, OpRefs(e.inverse))
  BY DEF Kept, RefsOf
<1>3. /\ new.forward = RemapOps(e.forward, unique) /\ new.inverse = RemapOps(e.inverse, unique)
      /\ new = [forward |-> new.forward, inverse |-> new.inverse]
  BY DEF RemapEntry
<1>. HIDE DEF new
<1>4. /\ new.forward \in Seq(HistoryOperation) /\ AllReadable(w, new.forward) /\ Mat(w, new.forward) = Mat(f, e.forward)
      /\ \A r \in OpRefs(new.forward) : \E s \in OpRefs(e.forward) : r = RemapRef(unique, s)
  BY <1>1, <1>2, <1>3, RemapMat
<1>5. /\ new.inverse \in Seq(HistoryOperation) /\ AllReadable(w, new.inverse) /\ Mat(w, new.inverse) = Mat(f, e.inverse)
      /\ \A r \in OpRefs(new.inverse) : \E s \in OpRefs(e.inverse) : r = RemapRef(unique, s)
  BY <1>1, <1>2, <1>3, RemapMat
<1>6. new \in HistoryEntry
  BY <1>3, <1>4, <1>5 DEF HistoryEntry
<1>7. ASSUME NEW r \in RefsOf(new) PROVE \E s \in RefsOf(e) : r = RemapRef(unique, s)
  <2>1. CASE r \in OpRefs(new.forward)
    BY <1>4, <2>1 DEF RefsOf
  <2>2. CASE r \in OpRefs(new.inverse)
    BY <1>5, <2>2 DEF RefsOf
  <2>. QED  BY <2>1, <2>2 DEF RefsOf
<1>8. ASSUME NEW b, NEW a, EntryOK(f, e, b, a) PROVE EntryOK(w, new, b, a)
  <2>. HIDE DEF w
  <2>. QED  BY <1>4, <1>5, <1>8 DEF EntryOK
<1>. QED  BY <1>6, <1>7, <1>8 DEF new

LEMMA RemapStack ==
    ASSUME NEW f \in Seq(Chars), NEW unique \in Seq(Ref), \A i \in 1..Len(unique) : ReadableIn(f, unique[i]),
           NEW entries \in Seq(HistoryEntry), Kept(f, unique, StackRefs(entries))
    PROVE  LET new == RemapEntries(entries, unique)
           IN  /\ new \in Seq(HistoryEntry) /\ Len(new) = Len(entries)
               /\ \A i \in 1..Len(entries) : \A b, a :
                     EntryOK(f, entries[i], b, a) => EntryOK(Rewritten(f, unique), new[i], b, a)
               /\ \A r \in StackRefs(new) : \E s \in StackRefs(entries) : r = RemapRef(unique, s)
<1>. DEFINE new == RemapEntries(entries, unique)
            n == Len(entries)
            w == Rewritten(f, unique)
<1>1. n \in Nat /\ \A i \in 1..n : entries[i] \in HistoryEntry
  BY LenProperties
<1>2. new = [i \in 1..n |-> RemapEntry(entries[i], unique)]
  BY DEF RemapEntries, RemapEntry, RemapOps
<1>. HIDE DEF new, n, w
<1>3. \A i \in 1..n : new[i] = RemapEntry(entries[i], unique)
  BY <1>2
<1>4. ASSUME NEW i \in 1..n
      PROVE  /\ new[i] \in HistoryEntry
             /\ \A r \in RefsOf(new[i]) : \E s \in RefsOf(entries[i]) : r = RemapRef(unique, s)
             /\ \A b, a : EntryOK(f, entries[i], b, a) => EntryOK(w, new[i], b, a)
  <2>1. Kept(f, unique, RefsOf(entries[i]))
    BY DEF Kept, StackRefs, n
  <2>. QED  BY <1>1, <1>3, <2>1, RemapEntryOK DEF w
<1>5. new \in Seq(HistoryEntry) /\ Len(new) = n
  <2>1. new \in [1..n -> HistoryEntry]
    BY <1>2, <1>4
  <2>2. new \in Seq(HistoryEntry)
    BY <1>1, <2>1, SeqDef
  <2>3. DOMAIN new = 1..n
    BY <2>1
  <2>. QED  BY <1>1, <2>2, <2>3, LenProperties
<1>6. ASSUME NEW r \in StackRefs(new) PROVE \E s \in StackRefs(entries) : r = RemapRef(unique, s)
  <2>1. PICK i \in 1..n : r \in RefsOf(new[i])
    BY <1>5 DEF StackRefs
  <2>2. PICK s \in RefsOf(entries[i]) : r = RemapRef(unique, s)
    BY <1>4, <2>1
  <2>3. s \in StackRefs(entries)
    BY <2>2 DEF StackRefs, n
  <2>. QED  BY <2>2, <2>3
<1>. QED  BY <1>4, <1>5, <1>6 DEF new, n, w

-----------------------------------------------------------------------------
\* Steps

Jobs == [kind : {"idle", "apply", "replay"}, batch : Seq(Operation), at : Nat,
         tree : Seq(Chars), entry : HistoryEntry, reset : BOOLEAN, next : Nat]

NoEntry == [forward |-> <<>>, inverse |-> <<>>]

\* The entry of a job that has recorded nothing.
LEMMA EmptyEntry ==
    /\ NoEntry \in HistoryEntry /\ RefsOf(NoEntry) = {}
    /\ \A f, d : EntryOK(f, NoEntry, d, d)
<1>1. <<>> \in Seq(HistoryOperation) /\ Len(<<>>) = 0
  BY EmptySeq
<1>2. NoEntry.forward = <<>> /\ NoEntry.inverse = <<>>
  BY DEF NoEntry
<1>3. NoEntry \in HistoryEntry
  BY <1>1 DEF NoEntry, HistoryEntry
<1>4. RefsOf(NoEntry) = {}
  BY <1>1, <1>2 DEF RefsOf, OpRefs
<1>5. ASSUME NEW f, NEW d PROVE EntryOK(f, NoEntry, d, d)
  <2>1. AllReadable(f, <<>>)
    BY <1>1 DEF AllReadable
  <2>2. Mat(f, <<>>) = <<>>
    <3>1. Mat(f, <<>>) \in Seq({}) /\ Len(Mat(f, <<>>)) = 0
      <4>1. Mat(f, <<>>) \in [1..0 -> {}]
        BY <1>1 DEF Mat
      <4>2. Mat(f, <<>>) \in Seq({})
        BY <4>1, SeqDef
      <4>3. DOMAIN Mat(f, <<>>) = 1..0
        BY <4>1
      <4>4. Len(Mat(f, <<>>)) \in Nat /\ 1..Len(Mat(f, <<>>)) = 1..0
        BY <4>2, <4>3, LenProperties
      <4>. QED  BY <4>2, <4>4
    <3>. QED  BY <3>1, EmptySeq
  <2>. QED  BY <1>2, <2>1, <2>2, EmptyRun DEF EntryOK
<1>. QED  BY <1>3, <1>4, <1>5

LEMMA OperationsAreOps ==
    ASSUME NEW ops \in Seq(Operation)
    PROVE  ops \in Seq(AnyOp)
<1>1. Operation \subseteq AnyOp
  <2>1. 0..MaxLength \subseteq Nat
    BY UndoAssumption
  <2>. QED  BY <2>1 DEF Operation, AnyOp
<1>. QED  BY <1>1, SeqMonotonic

\* Operations that fit a document may be asked for.
LEMMA RangedOps ==
    ASSUME NEW ops \in Seq(AnyOp), NEW d \in Docs, InRange(ops, d)
    PROVE  ops \in Seq(Operation)
<1>1. Len(ops) \in Nat /\ \A i \in 1..Len(ops) : ops[i] \in AnyOp
  BY LenProperties
<1>2. ASSUME NEW i \in 1..Len(ops) PROVE ops[i] \in Operation
  <2>1. i - 1 \in 0..Len(ops)
    BY <1>1
  <2>2. Runs(ops, d)[i - 1] \in Docs
    BY <2>1, RunsTyped
  <2>3. Len(Runs(ops, d)[i - 1]) \in Nat /\ Len(Runs(ops, d)[i - 1]) <= MaxLength /\ MaxLength \in Nat
    BY <2>2, LenProperties, UndoAssumption DEF Docs
  <2>4. ops[i].start + ops[i].del <= Len(Runs(ops, d)[i - 1])
    BY DEF InRange
  <2>5. ops[i] \in AnyOp /\ ops[i].start \in Nat /\ ops[i].del \in Nat
    BY <1>1 DEF AnyOp
  <2>6. ops[i].start \in 0..MaxLength /\ ops[i].del \in 0..MaxLength
    <3>1. PICK x \in Nat, y \in Nat, z \in Nat :
             x = ops[i].start /\ y = ops[i].del /\ z = Len(Runs(ops, d)[i - 1])
      BY <2>3, <2>5
    <3>2. x + y <= z /\ z <= MaxLength
      BY <2>3, <2>4, <3>1, Zenon
    <3>3. x \in 0..MaxLength /\ y \in 0..MaxLength
      BY <2>3, <3>2
    <3>. QED  BY <3>1, <3>3
  <2>. QED  BY <2>5, <2>6 DEF AnyOp, Operation
<1>3. ops \in [1..Len(ops) -> Operation]
  <2>1. ops \in [1..Len(ops) -> AnyOp]
    BY LenProperties
  <2>. QED  BY <1>2, <2>1
<1>. QED  BY <1>1, <1>3, SeqDef

SameUpTo(g, h, n) == \A i \in 0..n : g[i] = h[i]
EndsIn(g, n, d) == g[n] = d

\* One more transaction in the journal.
LEMMA ReplaysAppend ==
    ASSUME NEW jn \in Seq(Seq(Operation)), NEW h \in [0..Len(jn) -> Docs], NEW b, Replays(h, b, jn),
           NEW batch \in Seq(Operation), NEW e, Leads(batch, h[Len(jn)], e)
    PROVE  \E g \in [0..Len(Append(jn, batch)) -> Docs] :
              /\ Replays(g, b, Append(jn, batch)) /\ EndsIn(g, Len(Append(jn, batch)), e)
              /\ SameUpTo(g, h, Len(jn))
<1>. DEFINE n == Len(jn)
            more == Append(jn, batch)
            g == [i \in 0..(n + 1) |-> IF i = n + 1 THEN e ELSE h[i]]
<1>1. /\ n \in Nat /\ more \in Seq(Seq(Operation)) /\ Len(more) = n + 1 /\ more[n + 1] = batch
      /\ \A i \in 1..n : more[i] = jn[i]
  BY LenProperties, AppendProperties
<1>. HIDE DEF n, more
<1>2. g[n + 1] = e /\ \A i \in 0..n : g[i] = h[i]
  BY <1>1
<1>3. e \in Docs
  <2>1. h[n] \in Docs
    <3>1. n \in 0..n
      BY <1>1
    <3>2. h \in [0..n -> Docs]
      BY DEF n
    <3>. QED  BY <3>1, <3>2
  <2>2. batch \in Seq(AnyOp)
    BY OperationsAreOps
  <2>3. Leads(batch, h[n], e)
    BY DEF n
  <2>. QED  BY <2>1, <2>2, <2>3, LeadsTyped
<1>4. g \in [0..(n + 1) -> Docs]
  <2>1. ASSUME NEW i \in 0..(n + 1) PROVE (IF i = n + 1 THEN e ELSE h[i]) \in Docs
    <3>1. CASE i = n + 1
      BY <1>3, <3>1
    <3>2. CASE i # n + 1
      <4>1. i \in 0..n
        BY <1>1, <3>2
      <4>. QED  BY <3>2, <4>1 DEF n
    <3>. QED  BY <3>1, <3>2
  <2>. QED  BY <2>1
<1>. HIDE DEF g
<1>5. ASSUME NEW i \in 1..(n + 1) PROVE Leads(more[i], g[i - 1], g[i])
  <2>1. CASE i = n + 1
    <3>1. i - 1 = n /\ n \in 0..n
      BY <1>1, <2>1
    <3>2. g[i - 1] = h[n] /\ g[i] = e /\ more[i] = batch
      BY <1>1, <1>2, <2>1, <3>1
    <3>. QED  BY <3>2 DEF n
  <2>2. CASE i # n + 1
    <3>1. i \in 1..n /\ i \in 0..n /\ i - 1 \in 0..n
      BY <1>1, <2>2
    <3>2. g[i - 1] = h[i - 1] /\ g[i] = h[i] /\ more[i] = jn[i]
      BY <1>1, <1>2, <3>1
    <3>. QED  BY <3>1, <3>2 DEF Replays, n
  <2>. QED  BY <2>1, <2>2
<1>6. g[0] = b
  <2>1. 0 \in 0..n
    BY <1>1
  <2>. QED  BY <1>2, <2>1 DEF Replays
<1>7. Replays(g, b, more)
  BY <1>1, <1>5, <1>6 DEF Replays
<1>. QED  BY <1>1, <1>2, <1>4, <1>7 DEF n, more, SameUpTo, EndsIn

\* The last transaction taken back.
LEMMA ReplaysFront ==
    ASSUME NEW jn \in Seq(Seq(Operation)), jn # <<>>, NEW h \in [0..Len(jn) -> Docs], NEW b, Replays(h, b, jn)
    PROVE  /\ Front(jn) \in Seq(Seq(Operation)) /\ Len(Front(jn)) = Len(jn) - 1 /\ Len(jn) - 1 \in Nat
           /\ \E g \in [0..Len(Front(jn)) -> Docs] :
                 Replays(g, b, Front(jn)) /\ SameUpTo(g, h, Len(Front(jn)))
<1>. DEFINE n == Len(jn) - 1
            less == Front(jn)
            g == [i \in 0..n |-> h[i]]
<1>1. Len(jn) \in Nat \ {0}
  BY EmptySeq
<1>2. n \in Nat /\ Len(jn) = n + 1
  BY <1>1
<1>3. less \in Seq(Seq(Operation)) /\ Len(less) = n /\ \A i \in 1..n : less[i] = jn[i]
  <2>1. less = SubSeq(jn, 1, n)
    BY DEF Front
  <2>. HIDE DEF n, less
  <2>2. \A i \in 1..n : jn[i] \in Seq(Operation)
    <3>. TAKE i \in 1..n
    <3>1. i \in 1..Len(jn)
      BY <1>2
    <3>. QED  BY <3>1, ElementOfSeq
  <2>3. /\ SubSeq(jn, 1, n) \in Seq(Seq(Operation))
        /\ Len(SubSeq(jn, 1, n)) = IF 1 <= n THEN n - 1 + 1 ELSE 0
        /\ \A i \in 1..(n - 1 + 1) : SubSeq(jn, 1, n)[i] = jn[1 + i - 1]
    BY <1>2, <2>2, SubSeqProperties
  <2>. QED  BY <1>2, <2>1, <2>3
<1>. HIDE DEF n, less
<1>4. g \in [0..n -> Docs] /\ \A i \in 0..n : g[i] = h[i]
  BY <1>2
<1>. HIDE DEF g
<1>5. ASSUME NEW i \in 1..n PROVE Leads(less[i], g[i - 1], g[i])
  <2>1. i \in 1..Len(jn) /\ i \in 0..n /\ i - 1 \in 0..n
    BY <1>2
  <2>2. g[i - 1] = h[i - 1] /\ g[i] = h[i] /\ less[i] = jn[i]
    BY <1>3, <1>4, <2>1
  <2>. QED  BY <2>1, <2>2 DEF Replays
<1>6. g[0] = b
  <2>1. 0 \in 0..n
    BY <1>2
  <2>. QED  BY <1>4, <2>1 DEF Replays
<1>7. Replays(g, b, less)
  BY <1>3, <1>5, <1>6 DEF Replays
<1>8. Len(jn) - 1 \in Nat /\ Len(less) = Len(jn) - 1
  BY <1>2, <1>3
<1>9. \E q \in [0..Len(less) -> Docs] : Replays(q, b, less) /\ SameUpTo(q, h, Len(less))
  BY <1>3, <1>4, <1>7 DEF SameUpTo
<1>. QED  BY <1>3, <1>8, <1>9 DEF less

\* An entry pushed on a stack.
LEMMA UndosPush ==
    ASSUME NEW f, NEW entries \in Seq(HistoryEntry), NEW docs \in Seq(Seq(Chars)), Len(docs) = Len(entries),
           NEW d \in Seq(Chars), UndosOK(f, entries, docs, d),
           NEW e \in HistoryEntry, NEW after, EntryOK(f, e, d, after)
    PROVE  UndosOK(f, Append(entries, e), Append(docs, d), after)
<1>. DEFINE n == Len(entries)
            x == Append(entries, e)
            y == Append(docs, d)
<1>1. n \in Nat /\ Len(x) = n + 1 /\ x[n + 1] = e /\ \A i \in 1..n : x[i] = entries[i]
  BY LenProperties, AppendProperties
<1>2. Len(y) = n + 1 /\ y[n + 1] = d /\ \A i \in 1..n : y[i] = docs[i]
  BY LenProperties, AppendProperties
<1>. HIDE DEF x, y, n
<1>3. ASSUME NEW i \in 1..(n + 1) PROVE EntryOK(f, x[i], y[i], NextDoc(y, i, after))
  <2>1. CASE i = n + 1
    <3>1. NextDoc(y, i, after) = after
      BY <1>2, <2>1 DEF NextDoc
    <3>. QED  BY <1>1, <1>2, <2>1, <3>1
  <2>2. CASE i # n + 1
    <3>1. i \in 1..n /\ i + 1 \in 1..(n + 1)
      BY <1>1, <2>2
    <3>2. NextDoc(y, i, after) = y[i + 1]
      BY <1>2, <2>2 DEF NextDoc
    <3>3. y[i + 1] = NextDoc(docs, i, d)
      <4>1. CASE i = n
        BY <1>2, <4>1 DEF NextDoc, n
      <4>2. CASE i # n
        <5>1. i + 1 \in 1..n
          BY <1>1, <3>1, <4>2
        <5>. QED  BY <1>2, <4>2, <5>1 DEF NextDoc, n
      <4>. QED  BY <4>1, <4>2
    <3>4. EntryOK(f, entries[i], docs[i], NextDoc(docs, i, d))
      BY <3>1 DEF UndosOK, n
    <3>5. x[i] = entries[i] /\ y[i] = docs[i]
      BY <1>1, <1>2, <3>1
    <3>. QED  BY <3>2, <3>3, <3>4, <3>5
  <2>. QED  BY <2>1, <2>2
<1>. QED  BY <1>1, <1>3 DEF UndosOK, x, y

LEMMA RedosPush ==
    ASSUME NEW f, NEW entries \in Seq(HistoryEntry), NEW docs \in Seq(Seq(Chars)), Len(docs) = Len(entries),
           NEW d \in Seq(Chars), RedosOK(f, entries, docs, d),
           NEW e \in HistoryEntry, NEW before, EntryOK(f, e, before, d)
    PROVE  RedosOK(f, Append(entries, e), Append(docs, d), before)
<1>. DEFINE n == Len(entries)
            x == Append(entries, e)
            y == Append(docs, d)
<1>1. n \in Nat /\ Len(x) = n + 1 /\ x[n + 1] = e /\ \A i \in 1..n : x[i] = entries[i]
  BY LenProperties, AppendProperties
<1>2. Len(y) = n + 1 /\ y[n + 1] = d /\ \A i \in 1..n : y[i] = docs[i]
  BY LenProperties, AppendProperties
<1>. HIDE DEF x, y, n
<1>3. ASSUME NEW i \in 1..(n + 1) PROVE EntryOK(f, x[i], NextDoc(y, i, before), y[i])
  <2>1. CASE i = n + 1
    <3>1. NextDoc(y, i, before) = before
      BY <1>2, <2>1 DEF NextDoc
    <3>. QED  BY <1>1, <1>2, <2>1, <3>1
  <2>2. CASE i # n + 1
    <3>1. i \in 1..n /\ i + 1 \in 1..(n + 1)
      BY <1>1, <2>2
    <3>2. NextDoc(y, i, before) = y[i + 1]
      BY <1>2, <2>2 DEF NextDoc
    <3>3. y[i + 1] = NextDoc(docs, i, d)
      <4>1. CASE i = n
        BY <1>2, <4>1 DEF NextDoc, n
      <4>2. CASE i # n
        <5>1. i + 1 \in 1..n
          BY <1>1, <3>1, <4>2
        <5>. QED  BY <1>2, <4>2, <5>1 DEF NextDoc, n
      <4>. QED  BY <4>1, <4>2
    <3>4. EntryOK(f, entries[i], NextDoc(docs, i, d), docs[i])
      BY <3>1 DEF RedosOK, n
    <3>5. x[i] = entries[i] /\ y[i] = docs[i]
      BY <1>1, <1>2, <3>1
    <3>. QED  BY <3>2, <3>3, <3>4, <3>5
  <2>. QED  BY <2>1, <2>2
<1>. QED  BY <1>1, <1>3 DEF RedosOK, x, y

\* The top of a stack and what is left without it.
LEMMA FrontLast ==
    ASSUME NEW S, NEW s \in Seq(S), s # <<>>
    PROVE  /\ Last(s) \in S /\ Last(s) = s[Len(s)] /\ Len(s) \in 1..Len(s)
           /\ Front(s) \in Seq(S) /\ Len(Front(s)) = Len(s) - 1 /\ Len(s) - 1 \in Nat
           /\ \A i \in 1..(Len(s) - 1) : i \in 1..Len(s) /\ Front(s)[i] = s[i]
<1>. DEFINE n == Len(s) - 1
<1>1. Len(s) \in Nat \ {0}
  BY EmptySeq
<1>2. n \in Nat /\ Len(s) = n + 1 /\ Len(s) \in 1..Len(s)
  BY <1>1
<1>3. Last(s) = s[Len(s)] /\ Last(s) \in S
  BY <1>2, ElementOfSeq DEF Last
<1>4. Front(s) = SubSeq(s, 1, n)
  BY DEF Front
<1>. HIDE DEF n
<1>5. \A i \in 1..n : i \in 1..Len(s) /\ s[i] \in S
  <2>. TAKE i \in 1..n
  <2>1. i \in 1..Len(s)
    BY <1>2
  <2>. QED  BY <2>1, ElementOfSeq
<1>6. /\ SubSeq(s, 1, n) \in Seq(S)
      /\ Len(SubSeq(s, 1, n)) = IF 1 <= n THEN n - 1 + 1 ELSE 0
      /\ \A i \in 1..(n - 1 + 1) : SubSeq(s, 1, n)[i] = s[1 + i - 1]
  BY <1>2, <1>5, SubSeqProperties
<1>7. Front(s) \in Seq(S) /\ Len(Front(s)) = n /\ \A i \in 1..n : Front(s)[i] = s[i]
  BY <1>2, <1>4, <1>6
<1>. QED  BY <1>2, <1>3, <1>5, <1>7 DEF n

\* An entry taken from a stack.
LEMMA UndosPop ==
    ASSUME NEW f, NEW entries \in Seq(HistoryEntry), entries # <<>>, NEW docs \in Seq(Seq(Chars)),
           Len(docs) = Len(entries), NEW d, UndosOK(f, entries, docs, d)
    PROVE  /\ EntryOK(f, Last(entries), Last(docs), d)
           /\ UndosOK(f, Front(entries), Front(docs), Last(docs))
<1>. DEFINE n == Len(entries) - 1
<1>0. docs # <<>>
  BY EmptySeq
<1>1. /\ Last(entries) = entries[Len(entries)] /\ Len(entries) \in 1..Len(entries)
      /\ Len(Front(entries)) = n /\ n \in Nat
      /\ \A i \in 1..n : i \in 1..Len(entries) /\ Front(entries)[i] = entries[i]
  BY FrontLast
<1>2. /\ Last(docs) = docs[Len(entries)] /\ Len(Front(docs)) = n
      /\ \A i \in 1..n : Front(docs)[i] = docs[i]
  BY <1>0, FrontLast
<1>3. Len(entries) = n + 1
  BY <1>1
<1>4. EntryOK(f, Last(entries), Last(docs), d)
  <2>1. NextDoc(docs, Len(entries), d) = d
    BY DEF NextDoc
  <2>. QED  BY <1>1, <1>2, <2>1 DEF UndosOK
<1>. HIDE DEF n
<1>5. ASSUME NEW i \in 1..n PROVE EntryOK(f, Front(entries)[i], Front(docs)[i], NextDoc(Front(docs), i, Last(docs)))
  <2>1. NextDoc(Front(docs), i, Last(docs)) = NextDoc(docs, i, d)
    <3>1. i # Len(docs)
      BY <1>1, <1>3
    <3>2. NextDoc(docs, i, d) = docs[i + 1]
      BY <3>1 DEF NextDoc
    <3>3. CASE i = n
      BY <1>2, <1>3, <3>2, <3>3 DEF NextDoc
    <3>4. CASE i # n
      <4>1. i + 1 \in 1..n
        BY <1>1, <3>4
      <4>. QED  BY <1>2, <3>2, <3>4, <4>1 DEF NextDoc
    <3>. QED  BY <3>3, <3>4
  <2>2. EntryOK(f, entries[i], docs[i], NextDoc(docs, i, d))
    BY <1>1 DEF UndosOK
  <2>3. Front(entries)[i] = entries[i] /\ Front(docs)[i] = docs[i]
    BY <1>1, <1>2
  <2>. QED  BY <2>1, <2>2, <2>3
<1>6. UndosOK(f, Front(entries), Front(docs), Last(docs))
  BY <1>1, <1>5 DEF UndosOK
<1>. QED  BY <1>4, <1>6

LEMMA RedosPop ==
    ASSUME NEW f, NEW entries \in Seq(HistoryEntry), entries # <<>>, NEW docs \in Seq(Seq(Chars)),
           Len(docs) = Len(entries), NEW d, RedosOK(f, entries, docs, d)
    PROVE  /\ EntryOK(f, Last(entries), d, Last(docs))
           /\ RedosOK(f, Front(entries), Front(docs), Last(docs))
<1>. DEFINE n == Len(entries) - 1
<1>0. docs # <<>>
  BY EmptySeq
<1>1. /\ Last(entries) = entries[Len(entries)] /\ Len(entries) \in 1..Len(entries)
      /\ Len(Front(entries)) = n /\ n \in Nat
      /\ \A i \in 1..n : i \in 1..Len(entries) /\ Front(entries)[i] = entries[i]
  BY FrontLast
<1>2. /\ Last(docs) = docs[Len(entries)] /\ Len(Front(docs)) = n
      /\ \A i \in 1..n : Front(docs)[i] = docs[i]
  BY <1>0, FrontLast
<1>3. Len(entries) = n + 1
  BY <1>1
<1>4. EntryOK(f, Last(entries), d, Last(docs))
  <2>1. NextDoc(docs, Len(entries), d) = d
    BY DEF NextDoc
  <2>. QED  BY <1>1, <1>2, <2>1 DEF RedosOK
<1>. HIDE DEF n
<1>5. ASSUME NEW i \in 1..n PROVE EntryOK(f, Front(entries)[i], NextDoc(Front(docs), i, Last(docs)), Front(docs)[i])
  <2>1. NextDoc(Front(docs), i, Last(docs)) = NextDoc(docs, i, d)
    <3>1. i # Len(docs)
      BY <1>1, <1>3
    <3>2. NextDoc(docs, i, d) = docs[i + 1]
      BY <3>1 DEF NextDoc
    <3>3. CASE i = n
      BY <1>2, <1>3, <3>2, <3>3 DEF NextDoc
    <3>4. CASE i # n
      <4>1. i + 1 \in 1..n
        BY <1>1, <3>4
      <4>. QED  BY <1>2, <3>2, <3>4, <4>1 DEF NextDoc
    <3>. QED  BY <3>3, <3>4
  <2>2. EntryOK(f, entries[i], NextDoc(docs, i, d), docs[i])
    BY <1>1 DEF RedosOK
  <2>3. Front(entries)[i] = entries[i] /\ Front(docs)[i] = docs[i]
    BY <1>1, <1>2
  <2>. QED  BY <2>1, <2>2, <2>3
<1>6. RedosOK(f, Front(entries), Front(docs), Last(docs))
  BY <1>1, <1>5 DEF RedosOK
<1>. QED  BY <1>4, <1>6

\* The references of changed stacks.
LEMMA StackRefsEmpty == StackRefs(<<>>) = {}
<1>1. Len(<<>>) = 0
  OBVIOUS
<1>. QED  BY <1>1 DEF StackRefs

LEMMA StackRefsPush ==
    ASSUME NEW entries \in Seq(HistoryEntry), NEW e \in HistoryEntry
    PROVE  StackRefs(Append(entries, e)) \subseteq StackRefs(entries) \cup RefsOf(e)
<1>. DEFINE n == Len(entries)
            x == Append(entries, e)
<1>1. n \in Nat /\ Len(x) = n + 1 /\ x[n + 1] = e /\ \A i \in 1..n : x[i] = entries[i]
  BY LenProperties, AppendProperties
<1>. SUFFICES ASSUME NEW r \in StackRefs(x) PROVE r \in StackRefs(entries) \cup RefsOf(e)
  OBVIOUS
<1>. HIDE DEF x, n
<1>2. PICK i \in 1..(n + 1) : r \in RefsOf(x[i])
  BY <1>1 DEF StackRefs
<1>3. CASE i = n + 1
  BY <1>1, <1>2, <1>3
<1>4. CASE i # n + 1
  <2>1. i \in 1..n
    BY <1>1, <1>4
  <2>2. r \in RefsOf(entries[i])
    BY <1>1, <1>2, <2>1
  <2>. QED  BY <2>1, <2>2 DEF StackRefs, n
<1>. QED  BY <1>3, <1>4

LEMMA StackRefsPop ==
    ASSUME NEW entries \in Seq(HistoryEntry), entries # <<>>
    PROVE  StackRefs(Front(entries)) \subseteq StackRefs(entries) /\ RefsOf(Last(entries)) \subseteq StackRefs(entries)
<1>. DEFINE n == Len(entries) - 1
<1>1. /\ Last(entries) = entries[Len(entries)] /\ Len(entries) \in 1..Len(entries)
      /\ Len(Front(entries)) = n
      /\ \A i \in 1..n : i \in 1..Len(entries) /\ Front(entries)[i] = entries[i]
  BY FrontLast
<1>. HIDE DEF n
<1>2. ASSUME NEW r \in StackRefs(Front(entries)) PROVE r \in StackRefs(entries)
  <2>1. PICK i \in 1..n : r \in RefsOf(Front(entries)[i])
    BY <1>1 DEF StackRefs
  <2>2. i \in 1..Len(entries) /\ r \in RefsOf(entries[i])
    BY <1>1, <2>1
  <2>. QED  BY <2>2 DEF StackRefs
<1>3. ASSUME NEW r \in RefsOf(Last(entries)) PROVE r \in StackRefs(entries)
  BY <1>1, <1>3 DEF StackRefs
<1>. QED  BY <1>2, <1>3

LEMMA RecordedShape ==
    ASSUME NEW e \in HistoryEntry, NEW op \in AnyOp, NEW fref \in Ref, NEW iref \in Ref
    PROVE  /\ Recorded(e, op, fref, iref) \in HistoryEntry
           /\ RefsOf(Recorded(e, op, fref, iref)) \subseteq RefsOf(e) \cup {fref, iref}
<1>. DEFINE hf == [start |-> op.start, del |-> op.del, ref |-> fref]
            hi == [start |-> op.start, del |-> Len(op.ins), ref |-> iref]
            x == Recorded(e, op, fref, iref)
            a == e.forward
            b == e.inverse
<1>1. a \in Seq(HistoryOperation) /\ b \in Seq(HistoryOperation) /\ Len(a) \in Nat /\ Len(b) \in Nat
  BY LenProperties DEF HistoryEntry
<1>2. op.start \in Nat /\ op.del \in Nat /\ Len(op.ins) \in Nat
  BY LenProperties DEF AnyOp
<1>3. hf \in HistoryOperation /\ hf.ref = fref /\ hi \in HistoryOperation /\ hi.ref = iref
  BY <1>2 DEF HistoryOperation
<1>4. x = [forward |-> Append(a, hf), inverse |-> <<hi>> \o b]
  BY DEF Recorded
<1>. HIDE DEF hf, hi, x, a, b
<1>5. /\ Append(a, hf) \in Seq(HistoryOperation) /\ Len(Append(a, hf)) = Len(a) + 1
      /\ Append(a, hf)[Len(a) + 1] = hf /\ \A i \in 1..Len(a) : Append(a, hf)[i] = a[i]
  BY <1>1, <1>3, AppendProperties
<1>6. /\ <<hi>> \o b \in Seq(HistoryOperation) /\ Len(<<hi>> \o b) = 1 + Len(b)
      /\ \A i \in 1..(1 + Len(b)) : (<<hi>> \o b)[i] = IF i <= 1 THEN hi ELSE b[i - 1]
  <2>1. <<hi>> \in Seq(HistoryOperation) /\ Len(<<hi>>) = 1 /\ <<hi>>[1] = hi
    BY <1>3
  <2>2. /\ <<hi>> \o b \in Seq(HistoryOperation) /\ Len(<<hi>> \o b) = 1 + Len(b)
        /\ \A i \in 1..(1 + Len(b)) : (<<hi>> \o b)[i] = IF i <= 1 THEN <<hi>>[i] ELSE b[i - 1]
    BY <1>1, <2>1, ConcatProperties
  <2>. QED  BY <1>1, <2>1, <2>2
<1>7. x \in HistoryEntry /\ x.forward = Append(a, hf) /\ x.inverse = <<hi>> \o b
  BY <1>4, <1>5, <1>6 DEF HistoryEntry
<1>8. ASSUME NEW r \in OpRefs(Append(a, hf)) PROVE r \in OpRefs(a) \cup {fref}
  <2>1. PICK i \in 1..(Len(a) + 1) : r = Append(a, hf)[i].ref
    BY <1>5 DEF OpRefs
  <2>2. CASE i = Len(a) + 1
    BY <1>3, <1>5, <2>1, <2>2
  <2>3. CASE i # Len(a) + 1
    <3>1. i \in 1..Len(a)
      BY <1>1, <2>3
    <3>. QED  BY <1>5, <2>1, <3>1 DEF OpRefs
  <2>. QED  BY <2>2, <2>3
<1>9. ASSUME NEW r \in OpRefs(<<hi>> \o b) PROVE r \in OpRefs(b) \cup {iref}
  <2>1. PICK i \in 1..(1 + Len(b)) : r = (<<hi>> \o b)[i].ref
    BY <1>6 DEF OpRefs
  <2>2. CASE i <= 1
    BY <1>3, <1>6, <2>1, <2>2
  <2>3. CASE ~(i <= 1)
    <3>1. i - 1 \in 1..Len(b)
      BY <1>1, <2>3
    <3>. QED  BY <1>6, <2>1, <2>3, <3>1 DEF OpRefs
  <2>. QED  BY <2>2, <2>3
<1>. QED  BY <1>7, <1>8, <1>9 DEF RefsOf, x, a, b

\* Fewer references are placed as well as more.
LEMMA PlacedLess ==
    ASSUME NEW f, NEW refs, Placed(f, refs), NEW less, less \subseteq refs
    PROVE  Placed(f, less)
BY DEF Placed

\* A text appended is placed apart from those that are there.
LEMMA PlacedMore ==
    ASSUME NEW f \in Seq(Chars), NEW refs \in SUBSET Ref, Placed(f, refs), NEW g \in Seq(Chars),
           NEW ref \in Ref, ReadableIn(f \o g, ref), ref.length = 0 \/ ref.offset = Len(f)
    PROVE  Placed(f \o g, refs \cup {ref})
<1>1. ASSUME NEW r \in refs PROVE ReadableIn(f \o g, r) /\ Apart(r, ref) /\ Apart(ref, r)
  <2>1. r \in Ref /\ ReadableIn(f, r)
    BY DEF Placed
  <2>2. ReadableIn(f \o g, r)
    BY <2>1, TextGrows
  <2>3. r.offset + r.length <= Len(f)
    BY <2>1 DEF ReadableIn
  <2>. QED  BY <2>2, <2>3 DEF Apart
<1>2. Apart(ref, ref)
  BY DEF Apart
<1>3. \A r, s \in refs : Apart(r, s)
  BY DEF Placed
<1>. QED  BY <1>1, <1>2, <1>3 DEF Placed

LEMMA RefsTyped ==
    /\ \A e \in HistoryEntry : RefsOf(e) \subseteq Ref
    /\ \A entries \in Seq(HistoryEntry) : StackRefs(entries) \subseteq Ref
<1>1. ASSUME NEW hops \in Seq(HistoryOperation), NEW r \in OpRefs(hops) PROVE r \in Ref
  <2>1. PICK k \in 1..Len(hops) : r = hops[k].ref
    BY DEF OpRefs
  <2>2. hops[k] \in HistoryOperation
    BY <2>1, ElementOfSeq
  <2>. QED  BY <2>1, <2>2 DEF HistoryOperation
<1>2. ASSUME NEW e \in HistoryEntry PROVE RefsOf(e) \subseteq Ref
  <2>1. e.forward \in Seq(HistoryOperation) /\ e.inverse \in Seq(HistoryOperation)
    BY DEF HistoryEntry
  <2>. QED  BY <1>1, <2>1 DEF RefsOf
<1>3. ASSUME NEW entries \in Seq(HistoryEntry), NEW r \in StackRefs(entries) PROVE r \in Ref
  <2>1. PICK i \in 1..Len(entries) : r \in RefsOf(entries[i])
    BY DEF StackRefs
  <2>2. entries[i] \in HistoryEntry
    BY <2>1, ElementOfSeq
  <2>. QED  BY <1>2, <2>1, <2>2
<1>. QED  BY <1>2, <1>3

-----------------------------------------------------------------------------
\* Initial states and the steps that leave the store alone

LEMMA IdleShape ==
    /\ Idle \in Jobs /\ Idle.kind = "idle" /\ Idle.reset = FALSE /\ Idle.entry = NoEntry
    /\ \A d, f : JobOK(Idle, d, f)
<1>1. /\ Idle.kind = "idle" /\ Idle.reset = FALSE /\ Idle.entry = NoEntry
      /\ Idle.batch = <<>> /\ Idle.at = 0 /\ Idle.tree = <<>> /\ Idle.next = 0
  BY DEF Idle, NoEntry
<1>2. Idle \in Jobs
  <2>1. <<>> \in Seq(Operation) /\ <<>> \in Seq(Chars)
    BY EmptySeq
  <2>2. Idle = [kind |-> "idle", batch |-> <<>>, at |-> 0, tree |-> <<>>, entry |-> NoEntry,
                reset |-> FALSE, next |-> 0]
    BY DEF Idle, NoEntry
  <2>. QED  BY <2>1, <2>2, EmptyEntry DEF Jobs
<1>. QED  BY <1>1, <1>2 DEF JobOK

\* With empty stacks there is nothing to restore.
LEMMA EmptyStacks ==
    /\ \A f, d : UndosOK(f, <<>>, <<>>, d) /\ RedosOK(f, <<>>, <<>>, d)
    /\ \A f : Placed(f, {})
    /\ \A j : j.reset \/ j.entry = NoEntry => Used(<<>>, <<>>, j) = {}
<1>1. Len(<<>>) = 0
  OBVIOUS
<1>2. \A f, d : UndosOK(f, <<>>, <<>>, d) /\ RedosOK(f, <<>>, <<>>, d)
  BY <1>1 DEF UndosOK, RedosOK
<1>3. \A f : Placed(f, {})
  BY DEF Placed
<1>4. ASSUME NEW j, j.reset \/ j.entry = NoEntry PROVE Used(<<>>, <<>>, j) = {}
  BY <1>4, StackRefsEmpty, EmptyEntry DEF Used
<1>. QED  BY <1>2, <1>3, <1>4

\* A journal without transactions.
LEMMA EmptyJournal ==
    ASSUME NEW d \in Docs
    PROVE  \E h \in [0..Len(<<>>) -> Docs] : Replays(h, d, <<>>) /\ Stands(h, <<>>, d, Idle)
<1>. DEFINE h == [i \in 0..0 |-> d]
<1>1. Len(<<>>) = 0
  OBVIOUS
<1>2. h \in [0..Len(<<>>) -> Docs] /\ h[0] = d
  BY <1>1
<1>. HIDE DEF h
<1>3. Replays(h, d, <<>>)
  BY <1>1, <1>2 DEF Replays
<1>4. Stands(h, <<>>, d, Idle)
  BY <1>1, <1>2, IdleShape DEF Stands, Place
<1>. QED  BY <1>2, <1>3, <1>4

LEMMA InitInv == Init => UndoInv
<1>. SUFFICES ASSUME Init PROVE UndoInv
  OBVIOUS
<1>1. base \in Docs /\ doc \in Docs
  BY UndoAssumption DEF Init, Docs
<1>2. <<>> \in Seq(Seq(Operation)) /\ <<>> \in Seq(HistoryEntry) /\ <<>> \in Seq(Chars) /\ <<>> \in Seq(Seq(Chars)) /\ Len(<<>>) = 0
  BY EmptySeq
<1>3. TypeOK
  <2>1. job \in Jobs
    BY IdleShape DEF Init
  <2>2. Len(store) <= Quota
    BY <1>2, UndoAssumption DEF Init
  <2>3. base \in Seq(Chars) /\ doc \in Seq(Chars)
    BY <1>1 DEF Docs
  <2>4. count \in 0..MaxRevision
    BY UndoAssumption DEF Init
  <2>5. /\ journal \in Seq(Seq(Operation)) /\ undo \in Seq(HistoryEntry) /\ redo \in Seq(HistoryEntry)
        /\ store \in Seq(Chars) /\ past \in Seq(Seq(Chars)) /\ future \in Seq(Seq(Chars))
        /\ tainted \in BOOLEAN
    BY <1>2 DEF Init
  <2>. QED  BY <2>1, <2>2, <2>3, <2>4, <2>5 DEF TypeOK, Jobs
<1>4. StackInv
  BY <1>2, EmptyStacks DEF StackInv, Init
<1>5. RefInv
  <2>1. Used(undo, redo, job) = {}
    BY EmptyStacks, IdleShape DEF Init
  <2>. QED  BY <2>1, EmptyStacks DEF RefInv
<1>6. JobInv
  BY IdleShape DEF JobInv, Init
<1>7. JournalInv
  BY <1>1, EmptyJournal DEF JournalInv, Init
<1>. QED  BY <1>1, <1>3, <1>4, <1>5, <1>6, <1>7 DEF UndoInv

LEMMA ApplyBeginInv ==
    ASSUME UndoInv, NEW batch \in Batches, ApplyBegin(batch)
    PROVE  UndoInv'
<1>. DEFINE n == Len(journal)
<1>1. /\ job = Idle /\ count < MaxRevision /\ InRange(batch, doc)
      /\ journal' = Append(journal, batch) /\ count' = count + 1
      /\ base' = base /\ doc' = doc /\ undo' = undo /\ redo' = redo /\ store' = store
      /\ past' = past /\ future' = future /\ tainted' = tainted
  BY DEF ApplyBegin
<1>2. /\ job'.kind = "apply" /\ job'.batch = batch /\ job'.tree = doc /\ job'.at = 0 /\ job'.next = 0
      /\ job'.entry = NoEntry /\ job'.reset = FALSE
      /\ job' = [kind |-> "apply", batch |-> batch, at |-> 0, tree |-> doc, entry |-> NoEntry,
                 reset |-> FALSE, next |-> 0]
  BY DEF ApplyBegin, Idle, NoEntry
<1>3. batch \in Seq(Operation) /\ batch \in Seq(AnyOp) /\ Len(batch) \in Nat
  BY UndoAssumption, OperationsAreOps, LenProperties
<1>4. TypeOK /\ base \in Docs /\ doc \in Docs /\ journal \in Seq(Seq(Operation))
  BY DEF UndoInv, TypeOK
<1>5. TypeOK'
  <2>1. job' \in Jobs
    BY <1>2, <1>3, <1>4, EmptyEntry DEF Jobs, TypeOK
  <2>2. journal' \in Seq(Seq(Operation))
    BY <1>1, <1>3, <1>4, AppendProperties
  <2>3. count' \in 0..MaxRevision
    BY <1>1, <1>4, UndoAssumption DEF TypeOK
  <2>. QED  BY <1>1, <1>4, <2>1, <2>2, <2>3 DEF TypeOK, Jobs
<1>6. StackInv'
  BY <1>1 DEF UndoInv, StackInv
<1>7. RefInv'
  <2>1. Used(undo, redo, job') = Used(undo, redo, job)
    BY <1>1, <1>2, IdleShape DEF Used
  <2>. QED  BY <1>1, <2>1 DEF UndoInv, RefInv
<1>8. JobInv'
  <2>1. doc = Runs(batch, doc)[0]
    BY <1>3, RunsUnfold
  <2>2. JobOK(job', doc, store)
    BY <1>1, <1>2, <1>3, <2>1, EmptyEntry DEF JobOK
  <2>. QED  BY <1>1, <1>2, <2>2 DEF JobInv
<1>9. JournalInv'
  <2>1. PICK h \in [0..n -> Docs] : Replays(h, base, journal) /\ Stands(h, journal, doc, job)
    BY DEF UndoInv, JournalInv
  <2>2. h[n] = doc
    BY <1>1, <2>1, IdleShape DEF Stands, Place
  <2>3. Leads(batch, h[n], RunOps(batch, doc))
    BY <1>1, <2>2 DEF Leads
  <2>4. PICK g \in [0..Len(Append(journal, batch)) -> Docs] :
           Replays(g, base, Append(journal, batch)) /\ SameUpTo(g, h, n)
    BY <1>3, <1>4, <2>1, <2>3, ReplaysAppend
  <2>5. n \in Nat /\ Len(Append(journal, batch)) = n + 1 /\ Append(journal, batch)[n + 1] = batch
    BY <1>3, <1>4, AppendProperties, LenProperties
  <2>. HIDE DEF n
  <2>6. Place(job', n + 1) = n
    BY <1>2, <2>5 DEF Place
  <2>7. g[n] = doc /\ n \in 0..(n + 1) /\ n < n + 1
    BY <2>2, <2>4, <2>5 DEF SameUpTo
  <2>8. Stands(g, Append(journal, batch), doc, job')
    BY <1>2, <2>5, <2>6, <2>7 DEF Stands
  <2>. QED  BY <1>1, <2>4, <2>8 DEF JournalInv
<1>. QED  BY <1>1, <1>4, <1>5, <1>6, <1>7, <1>8, <1>9 DEF UndoInv


\* The job has made the last transaction's document of the one before.
LEMMA JobEnd ==
    ASSUME JobInv, TypeOK, doc \in Docs, job.kind # "idle", job.at = Len(job.batch)
    PROVE  /\ Leads(job.batch, doc, job.tree) /\ job.tree \in Docs
           /\ ~job.reset => EntryOK(store, job.entry, doc, job.tree)
<1>1. job.batch \in Seq(Operation) /\ job.entry \in HistoryEntry
  BY DEF TypeOK
<1>2. job.batch \in Seq(AnyOp)
  BY <1>1, OperationsAreOps
<1>3. Leads(job.batch, doc, job.tree) /\ (~job.reset => EntryOK(store, job.entry, doc, job.tree))
  BY DEF JobInv, JobOK, Leads, RunOps
<1>. QED  BY <1>2, <1>3, LeadsTyped

LEMMA ApplyPublishInv ==
    ASSUME UndoInv, ApplyPublish
    PROVE  UndoInv'
<1>. DEFINE n == Len(journal)
<1>1. /\ job.kind = "apply" /\ job.at = Len(job.batch) /\ doc' = job.tree /\ job' = Idle
      /\ base' = base /\ journal' = journal /\ store' = store /\ tainted' = tainted /\ count' = count
  BY DEF ApplyPublish
<1>2. /\ TypeOK /\ base \in Docs /\ doc \in Docs /\ JobInv /\ StackInv /\ RefInv
      /\ undo \in Seq(HistoryEntry) /\ redo \in Seq(HistoryEntry) /\ past \in Seq(Seq(Chars))
      /\ job.entry \in HistoryEntry /\ doc \in Seq(Chars) /\ job.tree \in Seq(Chars)
      /\ job.reset \in BOOLEAN
  BY DEF UndoInv, TypeOK
<1>3. /\ Leads(job.batch, doc, job.tree) /\ job.tree \in Docs
      /\ ~job.reset => EntryOK(store, job.entry, doc, job.tree)
  BY <1>1, <1>2, JobEnd
<1>4. JournalInv'
  <2>1. PICK h \in [0..n -> Docs] : Replays(h, base, journal) /\ Stands(h, journal, doc, job)
    BY DEF UndoInv, JournalInv
  <2>2. n \in Nat
    BY <1>2, LenProperties DEF TypeOK
  <2>. HIDE DEF n
  <2>3. Place(job, n) = n - 1 /\ Place(Idle, n) = n
    BY <1>1, IdleShape DEF Place
  <2>4. h[n - 1] = doc /\ n - 1 \in 0..n /\ job.batch = journal[(n - 1) + 1]
    BY <1>1, <2>1, <2>3 DEF Stands, n
  <2>5. n \in 1..n /\ (n - 1) + 1 = n /\ n \in 0..n
    BY <2>2, <2>4
  <2>6. Leads(journal[n], h[n - 1], h[n])
    BY <2>1, <2>5 DEF Replays, n
  <2>7. h[n] = job.tree
    BY <1>3, <2>4, <2>5, <2>6 DEF Leads
  <2>8. Stands(h, journal, job.tree, Idle)
    BY <2>3, <2>5, <2>7, IdleShape DEF Stands, n
  <2>. QED  BY <1>1, <2>1, <2>8 DEF JournalInv, n
<1>5. JobInv'
  BY <1>1, IdleShape DEF JobInv
<1>6. CASE job.reset
  <2>1. undo' = undo /\ redo' = redo /\ past' = past /\ future' = future
    BY <1>6 DEF ApplyPublish
  <2>2. undo = <<>> /\ redo = <<>>
    BY <1>1, <1>2, <1>6 DEF JobInv
  <2>3. past = <<>> /\ future = <<>>
    <3>1. Len(past) = 0 /\ Len(future) = 0 /\ past \in Seq(Seq(Chars)) /\ future \in Seq(Seq(Chars))
      BY <1>2, <2>2 DEF StackInv, TypeOK
    <3>. QED  BY <3>1, EmptySeq
  <2>4. TypeOK'
    BY <1>1, <1>2, <2>1, IdleShape DEF TypeOK, Jobs
  <2>5. StackInv'
    BY <2>1, <2>2, <2>3, EmptyStacks DEF StackInv
  <2>6. RefInv'
    BY <1>1, <2>1, <2>2, EmptyStacks, IdleShape DEF RefInv
  <2>. QED  BY <1>1, <1>2, <1>3, <1>4, <1>5, <2>4, <2>5, <2>6 DEF UndoInv
<1>7. CASE ~job.reset
  <2>1. undo' = Append(undo, job.entry) /\ past' = Append(past, doc) /\ redo' = <<>> /\ future' = <<>>
    BY <1>7 DEF ApplyPublish
  <2>2. /\ undo' \in Seq(HistoryEntry) /\ Len(undo') = Len(undo) + 1
        /\ past' \in Seq(Seq(Chars)) /\ Len(past') = Len(past) + 1
        /\ redo' \in Seq(HistoryEntry) /\ future' \in Seq(Seq(Chars))
    BY <1>2, <2>1, AppendProperties, EmptySeq
  <2>3. TypeOK'
    BY <1>1, <1>2, <2>2, IdleShape DEF TypeOK, Jobs
  <2>4. StackInv'
    <3>1. Len(past') = Len(undo') /\ Len(future') = Len(redo')
      BY <1>2, <2>1, <2>2 DEF StackInv
    <3>2. ASSUME ~tainted PROVE UndosOK(store, undo', past', job.tree)
      <4>1. UndosOK(store, undo, past, doc) /\ Len(past) = Len(undo)
        BY <1>2, <3>2 DEF StackInv
      <4>. QED  BY <1>2, <1>3, <1>7, <2>1, <4>1, UndosPush
    <3>3. RedosOK(store, redo', future', job.tree)
      BY <2>1, EmptyStacks
    <3>. QED  BY <1>1, <3>1, <3>2, <3>3 DEF StackInv
  <2>5. RefInv'
    <3>. SUFFICES ASSUME ~tainted PROVE Placed(store, Used(undo', redo', Idle))
      BY <1>1 DEF RefInv
    <3>1. Used(undo', redo', Idle) \subseteq Used(undo, redo, job)
      BY <1>2, <1>7, <2>1, StackRefsPush, StackRefsEmpty, EmptyEntry, IdleShape DEF Used
    <3>2. Placed(store, Used(undo, redo, job))
      BY <1>2 DEF RefInv
    <3>. QED  BY <3>1, <3>2, PlacedLess
  <2>. QED  BY <1>1, <1>2, <1>3, <1>4, <1>5, <2>3, <2>4, <2>5 DEF UndoInv
<1>. QED  BY <1>6, <1>7

LEMMA ApplyCancelInv ==
    ASSUME UndoInv, ApplyCancel
    PROVE  UndoInv'
<1>. DEFINE n == Len(journal)
<1>1. /\ job.kind = "apply" /\ journal' = Front(journal) /\ job' = Idle
      /\ base' = base /\ doc' = doc /\ undo' = undo /\ redo' = redo /\ store' = store
      /\ past' = past /\ future' = future /\ tainted' = tainted /\ count' = count
  BY DEF ApplyCancel
<1>2. TypeOK /\ base \in Docs /\ doc \in Docs /\ JobInv /\ StackInv /\ RefInv /\ journal \in Seq(Seq(Operation))
  BY DEF UndoInv, TypeOK
<1>3. PICK h \in [0..n -> Docs] : Replays(h, base, journal) /\ Stands(h, journal, doc, job)
  BY DEF UndoInv, JournalInv
<1>4. n \in Nat /\ Place(job, n) = n - 1 /\ n - 1 \in 0..n /\ h[n - 1] = doc
  BY <1>1, <1>2, <1>3, LenProperties DEF Stands, Place
<1>5. journal # <<>>
  <2>1. n # 0
    <3>. HIDE DEF n
    <3>. QED  BY <1>4
  <2>. QED  BY <2>1
<1>6. /\ Front(journal) \in Seq(Seq(Operation)) /\ Len(Front(journal)) = n - 1 /\ n - 1 \in Nat
      /\ \E g \in [0..Len(Front(journal)) -> Docs] :
            Replays(g, base, Front(journal)) /\ SameUpTo(g, h, Len(Front(journal)))
  <2>1. h \in [0..Len(journal) -> Docs] /\ Replays(h, base, journal)
    BY <1>3
  <2>2. Front(journal) \in Seq(Seq(Operation)) /\ Len(Front(journal)) = Len(journal) - 1 /\ Len(journal) - 1 \in Nat
    BY <1>2, <1>5, <2>1, ReplaysFront
  <2>3. \E g \in [0..Len(Front(journal)) -> Docs] :
            Replays(g, base, Front(journal)) /\ SameUpTo(g, h, Len(Front(journal)))
    BY <1>2, <1>5, <2>1, ReplaysFront
  <2>. QED  BY <2>2, <2>3
<1>7. JournalInv'
  <2>1. PICK g \in [0..Len(Front(journal)) -> Docs] :
            Replays(g, base, Front(journal)) /\ SameUpTo(g, h, Len(Front(journal)))
    BY <1>6
  <2>2. Place(Idle, Len(Front(journal))) = Len(Front(journal))
    BY IdleShape DEF Place
  <2>. HIDE DEF n
  <2>3. n - 1 \in 0..(n - 1)
    BY <1>6
  <2>4. g[n - 1] = doc
    BY <1>4, <1>6, <2>1, <2>3 DEF SameUpTo
  <2>5. Stands(g, Front(journal), doc, Idle)
    BY <1>6, <2>2, <2>3, <2>4, IdleShape DEF Stands
  <2>. QED  BY <1>1, <2>1, <2>5 DEF JournalInv
<1>8. TypeOK'
  BY <1>1, <1>2, <1>6, IdleShape DEF TypeOK, Jobs
<1>9. StackInv'
  BY <1>1, <1>2 DEF StackInv
<1>10. RefInv'
  <2>. SUFFICES ASSUME ~tainted PROVE Placed(store, Used(undo, redo, Idle))
    BY <1>1 DEF RefInv
  <2>1. Used(undo, redo, Idle) \subseteq Used(undo, redo, job)
    BY EmptyEntry, IdleShape DEF Used
  <2>2. Placed(store, Used(undo, redo, job))
    BY <1>2 DEF RefInv
  <2>. QED  BY <2>1, <2>2, PlacedLess
<1>11. JobInv'
  BY <1>1, IdleShape DEF JobInv
<1>. QED  BY <1>1, <1>2, <1>7, <1>8, <1>9, <1>10, <1>11 DEF UndoInv

LEMMA SaveInv ==
    ASSUME UndoInv, Save
    PROVE  UndoInv'
<1>1. /\ job = Idle /\ base' = doc /\ journal' = <<>> /\ doc' = doc /\ undo' = undo /\ redo' = redo
      /\ store' = store /\ job' = job /\ past' = past /\ future' = future /\ tainted' = tainted /\ count' = count
  BY DEF Save
<1>2. TypeOK /\ doc \in Docs /\ StackInv /\ RefInv /\ JobInv
  BY DEF UndoInv
<1>3. TypeOK'
  <2>1. <<>> \in Seq(Seq(Operation))
    BY EmptySeq
  <2>. QED  BY <1>1, <1>2, <2>1 DEF TypeOK
<1>4. JournalInv'
  BY <1>1, <1>2, EmptyJournal DEF JournalInv
<1>5. StackInv' /\ RefInv' /\ JobInv'
  BY <1>1, <1>2 DEF StackInv, RefInv, JobInv
<1>. QED  BY <1>1, <1>2, <1>3, <1>4, <1>5 DEF UndoInv

\* The next transaction of a replay.
LEMMA ReplayJobShape ==
    ASSUME journal \in Seq(Seq(Operation)), NEW k \in 1..(Len(journal) + 1), NEW d \in Docs,
           NEW h \in [0..Len(journal) -> Docs], Replays(h, base, journal), h[k - 1] = d
    PROVE  LET j == ReplayJob(k, d)
           IN  /\ j \in Jobs /\ j.reset = FALSE /\ j.entry = NoEntry /\ j.kind # "apply"
               /\ \A f : JobOK(j, d, f)
               /\ Stands(h, journal, d, j)
<1>. DEFINE n == Len(journal)
            j == ReplayJob(k, d)
<1>1. n \in Nat
  BY LenProperties
<1>2. CASE k > n
  <2>1. j = Idle
    BY <1>2 DEF ReplayJob
  <2>. HIDE DEF n, j
  <2>2. k - 1 = n /\ n \in 0..n
    BY <1>1, <1>2 DEF n
  <2>3. Stands(h, journal, d, Idle)
    BY <2>2, IdleShape DEF Stands, Place, n
  <2>. QED  BY <2>1, <2>3, IdleShape DEF j
<1>3. CASE ~(k > n)
  <2>1. k \in 1..n /\ k - 1 \in 0..n /\ k - 1 < n /\ (k - 1) + 1 = k /\ k \in Nat /\ (k + 1) - 2 = k - 1 /\ k + 1 \in Nat
    BY <1>1, <1>3
  <2>2. /\ j.kind = "replay" /\ j.batch = journal[k] /\ j.tree = d /\ j.next = k + 1 /\ j.at = 0
        /\ j.entry = NoEntry /\ j.reset = FALSE
        /\ j = [kind |-> "replay", batch |-> journal[k], at |-> 0, tree |-> d, entry |-> NoEntry,
                reset |-> FALSE, next |-> k + 1]
    BY <1>3 DEF ReplayJob, Idle, NoEntry
  <2>3. journal[k] \in Seq(Operation) /\ d \in Seq(Chars) /\ Len(journal[k]) \in Nat
    <3>1. journal[k] \in Seq(Operation)
      BY <2>1, ElementOfSeq
    <3>. QED  BY <3>1, LenProperties DEF Docs
  <2>4. j \in Jobs
    BY <2>1, <2>2, <2>3, EmptyEntry DEF Jobs
  <2>. HIDE DEF j
  <2>5. InRange(journal[k], d)
    BY <2>1 DEF Replays, Leads
  <2>6. d = Runs(journal[k], d)[0]
    BY <2>3, RunsUnfold
  <2>7. ASSUME NEW f PROVE JobOK(j, d, f)
    BY <2>2, <2>3, <2>5, <2>6, EmptyEntry DEF JobOK
  <2>8. Place(j, n) = k - 1
    BY <2>1, <2>2 DEF Place
  <2>9. Stands(h, journal, d, j)
    BY <2>1, <2>2, <2>8 DEF Stands
  <2>. QED  BY <2>2, <2>4, <2>7, <2>9 DEF j
<1>. QED  BY <1>2, <1>3

LEMMA ReopenInv ==
    ASSUME UndoInv, Reopen
    PROVE  UndoInv'
<1>1. /\ doc' = base /\ undo' = <<>> /\ redo' = <<>> /\ store' = <<>> /\ past' = <<>> /\ future' = <<>>
      /\ tainted' = FALSE /\ job' = ReplayJob(1, base) /\ base' = base /\ journal' = journal /\ count' = count
  BY DEF Reopen, disk
<1>2. TypeOK /\ base \in Docs /\ journal \in Seq(Seq(Operation)) /\ Len(journal) \in Nat
  BY LenProperties DEF UndoInv, TypeOK
<1>3. PICK h \in [0..Len(journal) -> Docs] : Replays(h, base, journal)
  BY DEF UndoInv, JournalInv
<1>4. 1 \in 1..(Len(journal) + 1) /\ h[1 - 1] = base
  <2>1. h[0] = base
    BY <1>3 DEF Replays
  <2>. QED  BY <1>2, <2>1
<1>5. /\ job' \in Jobs /\ job'.reset = FALSE /\ job'.entry = NoEntry /\ job'.kind # "apply"
      /\ \A f : JobOK(job', base, f)
      /\ Stands(h, journal, base, job')
  BY <1>1, <1>2, <1>3, <1>4, ReplayJobShape
<1>6. /\ <<>> \in Seq(HistoryEntry) /\ <<>> \in Seq(Chars) /\ <<>> \in Seq(Seq(Chars)) /\ Len(<<>>) = 0
  BY EmptySeq
<1>7. TypeOK'
  <2>1. Len(<<>>) <= Quota
    BY <1>6, UndoAssumption
  <2>. QED  BY <1>1, <1>2, <1>5, <1>6, <2>1 DEF TypeOK, Jobs, Docs
<1>8. StackInv'
  BY <1>1, <1>6, EmptyStacks DEF StackInv
<1>9. RefInv'
  <2>1. Used(<<>>, <<>>, job') = {}
    BY <1>5, EmptyStacks
  <2>. QED  BY <1>1, <2>1, EmptyStacks DEF RefInv
<1>10. JobInv'
  BY <1>1, <1>5 DEF JobInv
<1>11. JournalInv'
  BY <1>1, <1>3, <1>5 DEF JournalInv
<1>. QED  BY <1>1, <1>2, <1>7, <1>8, <1>9, <1>10, <1>11 DEF UndoInv

LEMMA ReplayPublishInv ==
    ASSUME UndoInv, ReplayPublish
    PROVE  UndoInv'
<1>. DEFINE n == Len(journal)
            k == job.next
<1>1. /\ job.kind = "replay" /\ job.at = Len(job.batch) /\ doc' = job.tree
      /\ undo' = Append(undo, job.entry) /\ past' = Append(past, doc)
      /\ job' = ReplayJob(job.next, job.tree) /\ base' = base /\ journal' = journal /\ redo' = redo
      /\ store' = store /\ future' = future /\ tainted' = tainted /\ count' = count
  BY DEF ReplayPublish, disk
<1>2. /\ TypeOK /\ base \in Docs /\ doc \in Docs /\ JobInv /\ StackInv /\ RefInv
      /\ undo \in Seq(HistoryEntry) /\ redo \in Seq(HistoryEntry) /\ past \in Seq(Seq(Chars))
      /\ job.entry \in HistoryEntry /\ doc \in Seq(Chars) /\ job.next \in Nat
      /\ job.reset \in BOOLEAN /\ journal \in Seq(Seq(Operation)) /\ n \in Nat
  BY LenProperties DEF UndoInv, TypeOK
<1>3. /\ Leads(job.batch, doc, job.tree) /\ job.tree \in Docs
      /\ ~job.reset => EntryOK(store, job.entry, doc, job.tree)
  BY <1>1, <1>2, JobEnd
<1>4. PICK h \in [0..n -> Docs] : Replays(h, base, journal) /\ Stands(h, journal, doc, job)
  BY DEF UndoInv, JournalInv
<1>5. k \in 1..(n + 1) /\ h[k - 1] = job.tree
  <2>1. Place(job, n) = k - 2
    BY <1>1 DEF Place
  <2>0. n \in Nat /\ k \in Nat
    BY <1>2
  <2>. HIDE DEF n, k
  <2>2. k - 2 \in 0..n /\ h[k - 2] = doc /\ k - 2 < n /\ job.batch = journal[(k - 2) + 1]
    BY <1>1, <1>4, <2>1 DEF Stands, n
  <2>3. PICK m \in 1..n : m = k - 1 /\ m - 1 = k - 2 /\ m = (k - 2) + 1
    <3>1. k - 1 \in 1..n /\ (k - 1) - 1 = k - 2 /\ k - 1 = (k - 2) + 1
      BY <2>0, <2>2
    <3>. QED  BY <3>1
  <2>4. Leads(journal[m], h[m - 1], h[m])
    BY <1>4 DEF Replays, n
  <2>5. h[m] = job.tree
    BY <1>3, <2>2, <2>3, <2>4 DEF Leads
  <2>6. k \in 1..(n + 1)
    BY <2>0, <2>2
  <2>. QED  BY <2>3, <2>5, <2>6
<1>6. /\ job' \in Jobs /\ job'.reset = FALSE /\ job'.entry = NoEntry /\ job'.kind # "apply"
      /\ \A f : JobOK(job', job.tree, f)
      /\ Stands(h, journal, job.tree, job')
  BY <1>1, <1>2, <1>3, <1>4, <1>5, ReplayJobShape
<1>7. redo = <<>> /\ future = <<>>
  <2>1. redo = <<>>
    BY <1>1, <1>2 DEF JobInv
  <2>2. Len(future) = 0 /\ future \in Seq(Seq(Chars))
    BY <1>2, <2>1 DEF StackInv, TypeOK
  <2>. QED  BY <2>1, <2>2, EmptySeq
<1>8. ~tainted => ~job.reset
  BY <1>1, <1>2 DEF JobInv
<1>9. /\ undo' \in Seq(HistoryEntry) /\ Len(undo') = Len(undo) + 1
      /\ past' \in Seq(Seq(Chars)) /\ Len(past') = Len(past) + 1
  BY <1>1, <1>2, AppendProperties
<1>10. TypeOK'
  BY <1>1, <1>2, <1>3, <1>6, <1>9 DEF TypeOK, Jobs, Docs
<1>11. StackInv'
  <2>1. Len(past') = Len(undo') /\ Len(future') = Len(redo')
    BY <1>1, <1>2, <1>9 DEF StackInv
  <2>2. ASSUME ~tainted PROVE UndosOK(store, undo', past', job.tree)
    <3>1. UndosOK(store, undo, past, doc) /\ Len(past) = Len(undo)
      BY <1>2, <2>2 DEF StackInv
    <3>. QED  BY <1>1, <1>2, <1>3, <1>8, <2>2, <3>1, UndosPush
  <2>3. RedosOK(store, redo', future', job.tree)
    BY <1>1, <1>7, EmptyStacks
  <2>. QED  BY <1>1, <2>1, <2>2, <2>3 DEF StackInv
<1>12. RefInv'
  <2>. SUFFICES ASSUME ~tainted PROVE Placed(store, Used(undo', redo', job'))
    BY <1>1 DEF RefInv
  <2>1. Used(undo', redo', job') \subseteq Used(undo, redo, job)
    BY <1>1, <1>2, <1>6, <1>8, StackRefsPush, EmptyEntry DEF Used
  <2>2. Placed(store, Used(undo, redo, job))
    BY <1>2 DEF RefInv
  <2>. QED  BY <2>1, <2>2, PlacedLess
<1>13. JobInv'
  BY <1>1, <1>6, <1>7 DEF JobInv
<1>14. JournalInv'
  BY <1>1, <1>4, <1>6 DEF JournalInv
<1>. QED  BY <1>1, <1>2, <1>3, <1>10, <1>11, <1>12, <1>13, <1>14 DEF UndoInv

\* The operation that is recorded next.
LEMMA NextOperation ==
    ASSUME JobInv, TypeOK, doc \in Docs, job.kind # "idle", job.at < Len(job.batch)
    PROVE  LET op == job.batch[job.at + 1]
           IN  /\ op \in AnyOp /\ job.tree \in Docs /\ Fits(op, job.tree)
               /\ job.at + 1 \in Nat /\ job.at + 1 <= Len(job.batch)
               /\ Replace(job.tree, op) = Runs(job.batch, doc)[job.at + 1]
               /\ op.ins \in Seq(Chars) /\ Deleted(job.tree, op) \in Seq(Chars)
<1>. DEFINE ops == job.batch
            m == job.at
            op == ops[m + 1]
<1>1. ops \in Seq(Operation) /\ m \in Nat
  BY DEF TypeOK
<1>2. ops \in Seq(AnyOp) /\ Len(ops) \in Nat
  BY <1>1, OperationsAreOps, LenProperties
<1>3. m < Len(ops) /\ InRange(ops, doc) /\ job.tree = Runs(ops, doc)[m]
  BY DEF JobInv, JobOK
<1>. HIDE DEF ops, m
<1>4. PICK k \in 1..Len(ops) : k = m + 1 /\ k - 1 = m
  <2>1. m + 1 \in 1..Len(ops) /\ (m + 1) - 1 = m
    BY <1>1, <1>2, <1>3
  <2>. QED  BY <2>1
<1>5. op \in AnyOp
  BY <1>2, <1>4, ElementOfSeq
<1>6. job.tree \in Docs
  <2>1. m \in 0..Len(ops)
    BY <1>1, <1>2, <1>3
  <2>. QED  BY <1>2, <1>3, <2>1, RunsTyped
<1>7. Fits(op, job.tree)
  <2>1. Fits(ops[k], Runs(ops, doc)[k - 1])
    BY <1>3 DEF InRange, Fits
  <2>. QED  BY <1>3, <1>4, <2>1
<1>8. Replace(job.tree, op) = Runs(ops, doc)[m + 1]
  <2>1. Runs(ops, doc)[k] = Replace(Runs(ops, doc)[k - 1], ops[k])
    BY <1>2, RunsUnfold
  <2>. QED  BY <1>3, <1>4, <2>1
<1>9. op.ins \in Seq(Chars) /\ Deleted(job.tree, op) \in Seq(Chars)
  <2>1. job.tree \in Seq(Chars) /\ op.start + op.del <= Len(job.tree)
    BY <1>6, <1>7 DEF Docs, Fits
  <2>. QED  BY <1>5, <2>1, DeletedText DEF AnyOp
<1>10. m + 1 \in Nat /\ m + 1 <= Len(ops)
  BY <1>1, <1>2, <1>3
<1>. QED  BY <1>5, <1>6, <1>7, <1>8, <1>9, <1>10 DEF ops, m

LEMMA StacksGrow ==
    ASSUME NEW f \in Seq(Chars), NEW g \in Seq(Chars), NEW entries \in Seq(HistoryEntry), NEW docs, NEW d
    PROVE  /\ UndosOK(f, entries, docs, d) => UndosOK(f \o g, entries, docs, d)
           /\ RedosOK(f, entries, docs, d) => RedosOK(f \o g, entries, docs, d)
<1>1. \A i \in 1..Len(entries) : entries[i] \in HistoryEntry
  BY ElementOfSeq
<1>2. ASSUME UndosOK(f, entries, docs, d) PROVE UndosOK(f \o g, entries, docs, d)
  BY <1>1, <1>2, EntryGrows DEF UndosOK
<1>3. ASSUME RedosOK(f, entries, docs, d) PROVE RedosOK(f \o g, entries, docs, d)
  BY <1>1, <1>3, EntryGrows DEF RedosOK
<1>. QED  BY <1>2, <1>3

\* Both texts of an operation, recorded without a reset.
LEMMA TwoTexts ==
    ASSUME NEW f \in Seq(Chars), NEW t1 \in Seq(Chars), NEW t2 \in Seq(Chars),
           ~HistoryText(f, t1).reset, ~HistoryText(HistoryText(f, t1).file, t2).reset
    PROVE  LET a == HistoryText(f, t1)
               b == HistoryText(a.file, t2)
           IN  /\ \E g \in Seq(Chars) : b.file = f \o g
               /\ ReadableIn(b.file, a.ref) /\ TextIn(b.file, a.ref) = t1
               /\ ReadableIn(b.file, b.ref) /\ TextIn(b.file, b.ref) = t2
               /\ \A refs \in SUBSET Ref : Placed(f, refs) => Placed(b.file, refs \cup {a.ref, b.ref})
<1>. DEFINE a == HistoryText(f, t1)
            b == HistoryText(a.file, t2)
<1>1. /\ a.file \in Seq(Chars) /\ a.ref \in Ref /\ \E g \in Seq(Chars) : a.file = f \o g
      /\ ReadableIn(a.file, a.ref) /\ TextIn(a.file, a.ref) = t1 /\ (a.ref.length = 0 \/ a.ref.offset = Len(f))
  BY HistoryTextShape
<1>. HIDE DEF a
<1>2. /\ b.file \in Seq(Chars) /\ b.ref \in Ref /\ \E g \in Seq(Chars) : b.file = a.file \o g
      /\ ReadableIn(b.file, b.ref) /\ TextIn(b.file, b.ref) = t2 /\ (b.ref.length = 0 \/ b.ref.offset = Len(a.file))
  <2>1. ~b.reset
    BY DEF a
  <2>. QED  BY <1>1, <2>1, HistoryTextShape
<1>. HIDE DEF b
<1>3. PICK g1 \in Seq(Chars) : a.file = f \o g1
  BY <1>1
<1>4. PICK g2 \in Seq(Chars) : b.file = a.file \o g2
  BY <1>2
<1>5. b.file = f \o (g1 \o g2) /\ g1 \o g2 \in Seq(Chars)
  <2>1. (f \o g1) \o g2 = f \o (g1 \o g2)
    BY SMTT(30)
  <2>2. g1 \o g2 \in Seq(Chars)
    BY ConcatProperties
  <2>3. b.file = (f \o g1) \o g2
    BY <1>3, <1>4, Zenon
  <2>. QED  BY <2>1, <2>2, <2>3, Zenon
<1>6. ReadableIn(b.file, a.ref) /\ TextIn(b.file, a.ref) = t1
  <2>1. ReadableIn(a.file \o g2, a.ref) /\ TextIn(a.file \o g2, a.ref) = TextIn(a.file, a.ref)
    BY <1>1, TextGrows
  <2>. QED  BY <1>1, <1>4, <2>1, Zenon
<1>7. ASSUME NEW refs \in SUBSET Ref, Placed(f, refs) PROVE Placed(b.file, refs \cup {a.ref, b.ref})
  <2>1. Placed(a.file, refs \cup {a.ref})
    <3>1. ReadableIn(f \o g1, a.ref)
      BY <1>1, <1>3, Zenon
    <3>2. Placed(f \o g1, refs \cup {a.ref})
      BY <1>1, <1>7, <3>1, PlacedMore
    <3>. QED  BY <1>3, <3>2, Zenon
  <2>2. refs \cup {a.ref} \in SUBSET Ref
    BY <1>1
  <2>3. Placed(b.file, (refs \cup {a.ref}) \cup {b.ref})
    <3>1. ReadableIn(a.file \o g2, b.ref)
      BY <1>2, <1>4, Zenon
    <3>2. Placed(a.file \o g2, (refs \cup {a.ref}) \cup {b.ref})
      BY <1>1, <1>2, <2>1, <2>2, <3>1, PlacedMore
    <3>. QED  BY <1>4, <3>2, Zenon
  <2>4. (refs \cup {a.ref}) \cup {b.ref} = refs \cup {a.ref, b.ref}
    OBVIOUS
  <2>. QED  BY <2>3, <2>4
<1>8. \E g \in Seq(Chars) : b.file = f \o g
  BY <1>5
<1>. QED  BY <1>2, <1>6, <1>7, <1>8 DEF a, b

-----------------------------------------------------------------------------
\* The steps that write the store, and undo and redo

LEMMA RecordOperationInv ==
    ASSUME UndoInv, RecordOperation
    PROVE  UndoInv'
<1>. DEFINE op == job.batch[job.at + 1]
            del == Deleted(job.tree, op)
            a == HistoryText(store, op.ins)
            b == HistoryText(a.file, del)
            reset == a.reset \/ b.reset
            entry == Recorded(job.entry, op, a.ref, b.ref)
<1>1. /\ job.kind # "idle" /\ job.at < Len(job.batch)
      /\ base' = base /\ journal' = journal /\ doc' = doc /\ count' = count
  BY DEF RecordOperation
<1>2. /\ store' = b.file
      /\ undo' = IF reset THEN <<>> ELSE undo
      /\ redo' = IF reset THEN <<>> ELSE redo
      /\ past' = IF reset THEN <<>> ELSE past
      /\ future' = IF reset THEN <<>> ELSE future
      /\ tainted' = IF ~reset THEN tainted ELSE job.kind = "replay"
  BY DEF RecordOperation
<1>3. /\ TypeOK /\ base \in Docs /\ doc \in Docs /\ JobInv /\ StackInv /\ RefInv /\ JournalInv
      /\ undo \in Seq(HistoryEntry) /\ redo \in Seq(HistoryEntry) /\ job.entry \in HistoryEntry
      /\ job \in Jobs /\ store \in Seq(Chars) /\ tainted \in BOOLEAN /\ job.reset \in BOOLEAN
  BY DEF UndoInv, TypeOK, Jobs
<1>4. /\ op \in AnyOp /\ job.tree \in Docs /\ Fits(op, job.tree)
      /\ job.at + 1 \in Nat /\ job.at + 1 <= Len(job.batch)
      /\ Replace(job.tree, op) = Runs(job.batch, doc)[job.at + 1]
      /\ op.ins \in Seq(Chars) /\ del \in Seq(Chars)
  BY <1>1, <1>3, NextOperation
<1>5. /\ job'.kind = job.kind /\ job'.batch = job.batch /\ job'.at = job.at + 1
      /\ job'.tree = Replace(job.tree, op) /\ job'.next = job.next
      /\ job'.reset = (job.reset \/ reset)
      /\ job'.entry = entry
      /\ job' = [kind |-> job.kind, batch |-> job.batch, at |-> job.at + 1, tree |-> Replace(job.tree, op),
                 entry |-> entry, reset |-> (job.reset \/ reset), next |-> job.next]
  <2>1. job' = [job EXCEPT
                 !.at = @ + 1,
                 !.tree = Replace(@, op),
                 !.reset = @ \/ reset,
                 !.entry.forward = Append(@, [start |-> op.start, del |-> op.del, ref |-> a.ref]),
                 !.entry.inverse = <<[start |-> op.start, del |-> Len(op.ins), ref |-> b.ref]>> \o @]
    BY DEF RecordOperation
  <2>. HIDE DEF op, a, b, reset
  <2>2. job = [kind |-> job.kind, batch |-> job.batch, at |-> job.at, tree |-> job.tree, entry |-> job.entry,
               reset |-> job.reset, next |-> job.next]
    BY <1>3 DEF Jobs
  <2>3. job.entry = [forward |-> job.entry.forward, inverse |-> job.entry.inverse]
    BY <1>3 DEF HistoryEntry
  <2>. QED  BY <2>1, <2>2, <2>3 DEF Recorded
<1>. HIDE DEF op, del
<1>6. /\ a.file \in Seq(Chars) /\ a.ref \in Ref /\ a.reset \in BOOLEAN
      /\ a.reset => Len(a.file) <= Quota
      /\ Len(store) <= Quota => Len(a.file) <= Quota
  BY <1>3, <1>4, HistoryTextShape
<1>7. /\ b.file \in Seq(Chars) /\ b.ref \in Ref /\ b.reset \in BOOLEAN
      /\ b.reset => Len(b.file) <= Quota
      /\ Len(a.file) <= Quota => Len(b.file) <= Quota
  <2>. HIDE DEF a
  <2>. QED  BY <1>4, <1>6, HistoryTextShape
<1>8. entry \in HistoryEntry /\ RefsOf(entry) \subseteq RefsOf(job.entry) \cup {a.ref, b.ref}
  <2>. HIDE DEF a, b
  <2>. QED  BY <1>3, <1>4, <1>6, <1>7, RecordedShape
<1>9. Replace(job.tree, op) \in Docs
  BY <1>4, InverseUndoes
<1>10. ASSUME ~reset
       PROVE  /\ \E g \in Seq(Chars) : b.file = store \o g
              /\ ReadableIn(b.file, a.ref) /\ TextIn(b.file, a.ref) = op.ins
              /\ ReadableIn(b.file, b.ref) /\ TextIn(b.file, b.ref) = del
              /\ \A refs \in SUBSET Ref : Placed(store, refs) => Placed(b.file, refs \cup {a.ref, b.ref})
  BY <1>3, <1>4, <1>10, TwoTexts
<1>. HIDE DEF a, b
<1>11. TypeOK'
  <2>1. job' \in Jobs
    BY <1>3, <1>4, <1>5, <1>8, <1>9 DEF Jobs, Docs
  <2>2. ASSUME ~tainted' PROVE Len(b.file) <= Quota
    <3>1. CASE reset
      BY <1>6, <1>7, <3>1
    <3>2. CASE ~reset
      <4>1. Len(store) <= Quota
        BY <1>2, <1>3, <2>2, <3>2 DEF TypeOK
      <4>. QED  BY <1>6, <1>7, <4>1
    <3>. QED  BY <3>1, <3>2
  <2>3. <<>> \in Seq(HistoryEntry) /\ <<>> \in Seq(Seq(Chars))
    BY EmptySeq
  <2>4. undo' \in Seq(HistoryEntry) /\ redo' \in Seq(HistoryEntry) /\ past' \in Seq(Seq(Chars)) /\ future' \in Seq(Seq(Chars))
    <3>1. CASE reset
      BY <1>2, <2>3, <3>1
    <3>2. CASE ~reset
      BY <1>2, <1>3, <3>2 DEF TypeOK
    <3>. QED  BY <3>1, <3>2
  <2>5. tainted' \in BOOLEAN
    BY <1>2, <1>3
  <2>6. /\ base' \in Seq(Chars) /\ doc' \in Seq(Chars) /\ journal' \in Seq(Seq(Operation)) /\ count' \in 0..MaxRevision
        /\ store' \in Seq(Chars)
    BY <1>1, <1>2, <1>3, <1>7 DEF TypeOK
  <2>7. ~tainted' => Len(store') <= Quota
    BY <1>2, <2>2
  <2>. QED  BY <2>1, <2>4, <2>5, <2>6, <2>7 DEF TypeOK, Jobs
<1>12. StackInv'
  <2>1. CASE reset
    <3>1. undo' = <<>> /\ redo' = <<>> /\ past' = <<>> /\ future' = <<>>
      BY <1>2, <2>1
    <3>. QED  BY <3>1, EmptyStacks DEF StackInv
  <2>2. CASE ~reset
    <3>1. undo' = undo /\ redo' = redo /\ past' = past /\ future' = future /\ tainted' = tainted
      BY <1>2, <2>2
    <3>2. PICK g \in Seq(Chars) : b.file = store \o g
      BY <1>10, <2>2
    <3>3. ASSUME ~tainted PROVE UndosOK(b.file, undo, past, doc) /\ RedosOK(b.file, redo, future, doc)
      <4>1. UndosOK(store, undo, past, doc) /\ RedosOK(store, redo, future, doc)
        BY <1>3, <3>3 DEF StackInv
      <4>2. UndosOK(store \o g, undo, past, doc) /\ RedosOK(store \o g, redo, future, doc)
        BY <1>3, <4>1, StacksGrow
      <4>. QED  BY <3>2, <4>2
    <3>. QED  BY <1>1, <1>2, <1>3, <3>1, <3>3 DEF StackInv
  <2>. QED  BY <2>1, <2>2
<1>13. RefInv'
  <2>. SUFFICES ASSUME ~tainted' PROVE Placed(b.file, Used(undo', redo', job'))
    BY <1>2 DEF RefInv
  <2>1. CASE reset
    <3>1. undo' = <<>> /\ redo' = <<>> /\ job'.reset
      BY <1>2, <1>5, <2>1
    <3>. QED  BY <3>1, EmptyStacks
  <2>2. CASE ~reset
    <3>1. undo' = undo /\ redo' = redo /\ tainted' = tainted /\ job'.reset = job.reset
      BY <1>2, <1>3, <1>5, <2>2
    <3>2. Placed(store, Used(undo, redo, job))
      BY <1>3, <3>1 DEF RefInv
    <3>3. Used(undo, redo, job) \in SUBSET Ref
      BY <1>3, RefsTyped DEF Used
    <3>4. Placed(b.file, Used(undo, redo, job) \cup {a.ref, b.ref})
      BY <1>10, <2>2, <3>2, <3>3
    <3>5. Used(undo', redo', job') \subseteq Used(undo, redo, job) \cup {a.ref, b.ref}
      BY <1>5, <1>8, <3>1 DEF Used
    <3>. QED  BY <3>4, <3>5, PlacedLess
  <2>. QED  BY <2>1, <2>2
<1>14. JobInv'
  <2>1. ASSUME ~job'.reset PROVE EntryOK(b.file, entry, doc, Replace(job.tree, op))
    <3>1. ~job.reset /\ ~reset
      BY <1>5, <2>1
    <3>2. EntryOK(store, job.entry, doc, job.tree)
      BY <1>1, <1>3, <3>1 DEF JobInv, JobOK
    <3>3. PICK g \in Seq(Chars) : b.file = store \o g
      BY <1>10, <3>1
    <3>4. EntryOK(b.file, job.entry, doc, job.tree)
      BY <1>3, <3>2, <3>3, EntryGrows
    <3>5. /\ ReadableIn(b.file, a.ref) /\ TextIn(b.file, a.ref) = op.ins
          /\ ReadableIn(b.file, b.ref) /\ TextIn(b.file, b.ref) = Deleted(job.tree, op)
      BY <1>10, <3>1 DEF del
    <3>. QED  BY <1>3, <1>4, <1>6, <1>7, <3>4, <3>5, EntryRecorded
  <2>2. InRange(job.batch, doc)
    BY <1>1, <1>3 DEF JobInv, JobOK
  <2>3. JobOK(job', doc, b.file)
    BY <1>1, <1>4, <1>5, <2>1, <2>2 DEF JobOK
  <2>4. ASSUME job.kind = "replay", job'.reset PROVE tainted'
    <3>1. CASE reset
      BY <1>2, <2>4, <3>1
    <3>2. CASE ~reset
      BY <1>2, <1>3, <1>5, <2>4, <3>2 DEF JobInv
    <3>. QED  BY <3>1, <3>2
  <2>5. ASSUME job.kind = "apply", job'.reset PROVE undo' = <<>> /\ redo' = <<>>
    <3>1. CASE reset
      BY <1>2, <3>1
    <3>2. CASE ~reset
      BY <1>2, <1>3, <1>5, <2>5, <3>2 DEF JobInv
    <3>. QED  BY <3>1, <3>2
  <2>6. ASSUME job.kind = "replay" PROVE redo' = <<>>
    BY <1>2, <1>3, <2>6 DEF JobInv
  <2>. QED  BY <1>1, <1>2, <1>5, <2>3, <2>4, <2>5, <2>6 DEF JobInv
<1>15. JournalInv'
  <2>1. PICK h \in [0..Len(journal) -> Docs] : Replays(h, base, journal) /\ Stands(h, journal, doc, job)
    BY <1>3 DEF JournalInv
  <2>2. Stands(h, journal, doc, job')
    BY <1>5, <2>1 DEF Stands, Place
  <2>. QED  BY <1>1, <2>1, <2>2 DEF JournalInv
<1>. QED  BY <1>1, <1>3, <1>11, <1>12, <1>13, <1>14, <1>15 DEF UndoInv

\* A transaction that runs at once, as undo and redo do.
LEMMA RunNow ==
    ASSUME UndoInv, job = Idle, NEW hops \in Seq(HistoryOperation), CanRun(hops)
    PROVE  LET ops == Materialize(hops)
           IN  /\ ops = Mat(store, hops) /\ ops \in Seq(Operation)
               /\ RunOps(ops, doc) \in Docs
               /\ Append(journal, ops) \in Seq(Seq(Operation))
               /\ \E h \in [0..Len(Append(journal, ops)) -> Docs] :
                     /\ Replays(h, base, Append(journal, ops))
                     /\ Stands(h, Append(journal, ops), RunOps(ops, doc), Idle)
<1>. DEFINE ops == Materialize(hops)
            n == Len(journal)
            more == Append(journal, ops)
            e == RunOps(ops, doc)
<1>1. ops = Mat(store, hops)
  BY DEF Materialize, Mat, Text, TextIn
<1>2. AllReadable(store, hops) /\ InRange(ops, doc)
  BY DEF CanRun, AllReadable, Readable, ReadableIn
<1>3. store \in Seq(Chars) /\ doc \in Docs /\ journal \in Seq(Seq(Operation)) /\ n \in Nat
  BY LenProperties DEF UndoInv, TypeOK
<1>4. ops \in Seq(AnyOp)
  BY <1>1, <1>2, <1>3, MatTyped
<1>. HIDE DEF ops
<1>5. ops \in Seq(Operation)
  BY <1>2, <1>3, <1>4, RangedOps
<1>6. Leads(ops, doc, e)
  BY <1>2 DEF Leads
<1>7. e \in Docs
  BY <1>3, <1>4, <1>6, LeadsTyped
<1>8. more \in Seq(Seq(Operation)) /\ Len(more) = n + 1
  BY <1>3, <1>5, AppendProperties
<1>9. PICK h \in [0..n -> Docs] : Replays(h, base, journal) /\ Stands(h, journal, doc, job)
  BY DEF UndoInv, JournalInv
<1>10. h[n] = doc
  BY <1>9, IdleShape DEF Stands, Place
<1>11. Leads(ops, h[n], e)
  BY <1>6, <1>10
<1>. HIDE DEF e
<1>12. PICK g \in [0..Len(more) -> Docs] :
          Replays(g, base, more) /\ EndsIn(g, Len(more), e)
  <2>1. h \in [0..Len(journal) -> Docs] /\ Replays(h, base, journal) /\ Leads(ops, h[Len(journal)], e)
    BY <1>9, <1>11
  <2>2. journal \in Seq(Seq(Operation))
    BY <1>3
  <2>. QED  BY <1>5, <2>1, <2>2, ReplaysAppend
<1>13. Stands(g, more, e, Idle)
  <2>. HIDE DEF n, more
  <2>1. Place(Idle, Len(more)) = n + 1 /\ n + 1 \in 0..(n + 1)
    BY <1>3, <1>8, IdleShape DEF Place
  <2>. QED  BY <1>8, <1>12, <2>1, IdleShape DEF Stands, EndsIn
<1>. QED  BY <1>1, <1>5, <1>7, <1>8, <1>12, <1>13 DEF ops, e

LEMMA UndoStepInv ==
    ASSUME UndoInv, Undo
    PROVE  UndoInv'
<1>. DEFINE e == Last(undo)
            ops == Materialize(e.inverse)
<1>1. /\ job = Idle /\ undo # <<>> /\ count < MaxRevision /\ CanRun(e.inverse)
      /\ doc' = RunOps(ops, doc) /\ journal' = Append(journal, ops)
      /\ undo' = Front(undo) /\ past' = Front(past)
      /\ redo' = Append(redo, e) /\ future' = Append(future, doc)
      /\ count' = count + 1 /\ base' = base /\ store' = store /\ job' = job /\ tainted' = tainted
  BY DEF Undo
<1>2. /\ TypeOK /\ base \in Docs /\ doc \in Docs /\ JobInv /\ StackInv /\ RefInv
      /\ undo \in Seq(HistoryEntry) /\ redo \in Seq(HistoryEntry)
      /\ past \in Seq(Seq(Chars)) /\ future \in Seq(Seq(Chars)) /\ doc \in Seq(Chars)
      /\ Len(past) = Len(undo) /\ Len(future) = Len(redo)
  BY DEF UndoInv, TypeOK, StackInv
<1>3. past # <<>>
  <2>1. Len(undo) # 0
    BY <1>1, <1>2, EmptySeq
  <2>. QED  BY <1>2, <2>1
<1>4. e \in HistoryEntry /\ e.inverse \in Seq(HistoryOperation) /\ e.forward \in Seq(HistoryOperation)
  <2>1. e \in HistoryEntry
    BY <1>1, <1>2, FrontLast
  <2>. QED  BY <2>1 DEF HistoryEntry
<1>5. /\ undo' \in Seq(HistoryEntry) /\ Len(undo') = Len(undo) - 1
      /\ past' \in Seq(Seq(Chars)) /\ Len(past') = Len(past) - 1
  BY <1>1, <1>2, <1>3, FrontLast
<1>6. /\ redo' \in Seq(HistoryEntry) /\ Len(redo') = Len(redo) + 1
      /\ future' \in Seq(Seq(Chars)) /\ Len(future') = Len(future) + 1
  BY <1>1, <1>2, <1>4, AppendProperties
<1>7. /\ ops = Mat(store, e.inverse) /\ doc' \in Docs /\ journal' \in Seq(Seq(Operation))
      /\ JournalInv'
  BY <1>1, <1>4, RunNow DEF JournalInv
<1>8. TypeOK'
  <2>1. count' \in 0..MaxRevision
    BY <1>1, <1>2, UndoAssumption DEF TypeOK
  <2>. QED  BY <1>1, <1>2, <1>5, <1>6, <1>7, <2>1 DEF TypeOK, Docs
<1>9. StackInv'
  <2>1. Len(past') = Len(undo') /\ Len(future') = Len(redo')
    BY <1>2, <1>5, <1>6
  <2>2. ASSUME ~tainted PROVE UndosOK(store, undo', past', doc') /\ RedosOK(store, redo', future', doc')
    <3>1. UndosOK(store, undo, past, doc) /\ RedosOK(store, redo, future, doc)
      BY <1>2, <2>2 DEF StackInv
    <3>2. EntryOK(store, e, Last(past), doc) /\ UndosOK(store, Front(undo), Front(past), Last(past))
      BY <1>1, <1>2, <3>1, UndosPop
    <3>3. doc' = Last(past)
      BY <1>1, <1>7, <3>2 DEF EntryOK, Leads
    <3>4. RedosOK(store, Append(redo, e), Append(future, doc), Last(past))
      BY <1>2, <1>4, <3>1, <3>2, RedosPush
    <3>. QED  BY <1>1, <3>2, <3>3, <3>4
  <2>. QED  BY <1>1, <2>1, <2>2 DEF StackInv
<1>10. RefInv'
  <2>. SUFFICES ASSUME ~tainted PROVE Placed(store, Used(undo', redo', job))
    BY <1>1 DEF RefInv
  <2>1. Used(undo', redo', job) \subseteq Used(undo, redo, job)
    BY <1>1, <1>2, <1>4, StackRefsPop, StackRefsPush DEF Used
  <2>2. Placed(store, Used(undo, redo, job))
    BY <1>2 DEF RefInv
  <2>. QED  BY <2>1, <2>2, PlacedLess
<1>11. JobInv'
  BY <1>1, IdleShape DEF JobInv
<1>. QED  BY <1>1, <1>2, <1>7, <1>8, <1>9, <1>10, <1>11 DEF UndoInv

LEMMA RedoStepInv ==
    ASSUME UndoInv, Redo
    PROVE  UndoInv'
<1>. DEFINE e == Last(redo)
            ops == Materialize(e.forward)
<1>1. /\ job = Idle /\ redo # <<>> /\ count < MaxRevision /\ CanRun(e.forward)
      /\ doc' = RunOps(ops, doc) /\ journal' = Append(journal, ops)
      /\ redo' = Front(redo) /\ future' = Front(future)
      /\ undo' = Append(undo, e) /\ past' = Append(past, doc)
      /\ count' = count + 1 /\ base' = base /\ store' = store /\ job' = job /\ tainted' = tainted
  BY DEF Redo
<1>2. /\ TypeOK /\ base \in Docs /\ doc \in Docs /\ JobInv /\ StackInv /\ RefInv
      /\ undo \in Seq(HistoryEntry) /\ redo \in Seq(HistoryEntry)
      /\ past \in Seq(Seq(Chars)) /\ future \in Seq(Seq(Chars)) /\ doc \in Seq(Chars)
      /\ Len(past) = Len(undo) /\ Len(future) = Len(redo)
  BY DEF UndoInv, TypeOK, StackInv
<1>3. future # <<>>
  <2>1. Len(redo) # 0
    BY <1>1, <1>2, EmptySeq
  <2>. QED  BY <1>2, <2>1
<1>4. e \in HistoryEntry /\ e.inverse \in Seq(HistoryOperation) /\ e.forward \in Seq(HistoryOperation)
  <2>1. e \in HistoryEntry
    BY <1>1, <1>2, FrontLast
  <2>. QED  BY <2>1 DEF HistoryEntry
<1>5. /\ redo' \in Seq(HistoryEntry) /\ Len(redo') = Len(redo) - 1
      /\ future' \in Seq(Seq(Chars)) /\ Len(future') = Len(future) - 1
  BY <1>1, <1>2, <1>3, FrontLast
<1>6. /\ undo' \in Seq(HistoryEntry) /\ Len(undo') = Len(undo) + 1
      /\ past' \in Seq(Seq(Chars)) /\ Len(past') = Len(past) + 1
  BY <1>1, <1>2, <1>4, AppendProperties
<1>7. /\ ops = Mat(store, e.forward) /\ doc' \in Docs /\ journal' \in Seq(Seq(Operation))
      /\ JournalInv'
  BY <1>1, <1>4, RunNow DEF JournalInv
<1>8. TypeOK'
  <2>1. count' \in 0..MaxRevision
    BY <1>1, <1>2, UndoAssumption DEF TypeOK
  <2>. QED  BY <1>1, <1>2, <1>5, <1>6, <1>7, <2>1 DEF TypeOK, Docs
<1>9. StackInv'
  <2>1. Len(past') = Len(undo') /\ Len(future') = Len(redo')
    BY <1>2, <1>5, <1>6
  <2>2. ASSUME ~tainted PROVE UndosOK(store, undo', past', doc') /\ RedosOK(store, redo', future', doc')
    <3>1. UndosOK(store, undo, past, doc) /\ RedosOK(store, redo, future, doc)
      BY <1>2, <2>2 DEF StackInv
    <3>2. EntryOK(store, e, doc, Last(future)) /\ RedosOK(store, Front(redo), Front(future), Last(future))
      BY <1>1, <1>2, <3>1, RedosPop
    <3>3. doc' = Last(future)
      BY <1>1, <1>7, <3>2 DEF EntryOK, Leads
    <3>4. UndosOK(store, Append(undo, e), Append(past, doc), Last(future))
      BY <1>2, <1>4, <3>1, <3>2, UndosPush
    <3>. QED  BY <1>1, <3>2, <3>3, <3>4
  <2>. QED  BY <1>1, <2>1, <2>2 DEF StackInv
<1>10. RefInv'
  <2>. SUFFICES ASSUME ~tainted PROVE Placed(store, Used(undo', redo', job))
    BY <1>1 DEF RefInv
  <2>1. Used(undo', redo', job) \subseteq Used(undo, redo, job)
    BY <1>1, <1>2, <1>4, StackRefsPop, StackRefsPush DEF Used
  <2>2. Placed(store, Used(undo, redo, job))
    BY <1>2 DEF RefInv
  <2>. QED  BY <2>1, <2>2, PlacedLess
<1>11. JobInv'
  BY <1>1, IdleShape DEF JobInv
<1>. QED  BY <1>1, <1>2, <1>7, <1>8, <1>9, <1>10, <1>11 DEF UndoInv

-----------------------------------------------------------------------------
\* Compaction

\* What rewriteContext is given: every live reference can be read and has a
\* place, each place is one of them, and no two places are the same.
LEMMA CompactRefs ==
    ASSUME undo \in Seq(HistoryEntry), redo \in Seq(HistoryEntry),
           \A i \in 1..Len(LiveRefs) : Readable(LiveRefs[i])
    PROVE  LET unique == UniqueRefs(LiveRefs)
               live == StackRefs(undo) \cup StackRefs(redo)
           IN  /\ unique \in Seq(Ref)
               /\ \A i \in 1..Len(unique) : /\ ReadableIn(store, unique[i]) /\ unique[i].length # 0
                                            /\ unique[i] \in live
               /\ \A i, j \in 1..Len(unique) : i # j => unique[i] # unique[j]
               /\ Kept(store, unique, live)
<1>. DEFINE refs == LiveRefs
            unique == UniqueRefs(refs)
            live == StackRefs(undo) \cup StackRefs(redo)
<1>1. refs \in Seq(Ref) /\ \A r : r \in live <=> \E k \in 1..Len(refs) : refs[k] = r
  BY LiveShape
<1>2. \A k \in 1..Len(refs) : ReadableIn(store, refs[k])
  BY DEF Readable, ReadableIn
<1>. HIDE DEF refs, live
<1>3. /\ unique \in Seq(Ref)
      /\ \A i \in 1..Len(unique) : unique[i].length # 0 /\ \E k \in 1..Len(refs) : unique[i] = refs[k]
      /\ \A i, j \in 1..Len(unique) : i # j => unique[i] # unique[j]
      /\ \A k \in 1..Len(refs) : refs[k].length # 0 => Contains(unique, refs[k])
  BY <1>1, UniqueShape
<1>. HIDE DEF unique
<1>4. ASSUME NEW i \in 1..Len(unique) PROVE ReadableIn(store, unique[i]) /\ unique[i] \in live
  <2>1. PICK k \in 1..Len(refs) : unique[i] = refs[k]
    BY <1>3
  <2>. QED  BY <1>1, <1>2, <2>1
<1>5. ASSUME NEW r \in live PROVE r \in Ref /\ ReadableIn(store, r) /\ (r.length # 0 => Contains(unique, r))
  <2>1. PICK k \in 1..Len(refs) : refs[k] = r
    BY <1>1
  <2>2. r \in Ref
    BY <1>1, <2>1, ElementOfSeq
  <2>. QED  BY <1>2, <1>3, <2>1, <2>2
<1>6. Kept(store, unique, live)
  BY <1>5 DEF Kept
<1>. QED  BY <1>3, <1>4, <1>6 DEF unique, refs, live

LEMMA CompactInv ==
    ASSUME UndoInv, Compact
    PROVE  UndoInv'
<1>. DEFINE unique == UniqueRefs(LiveRefs)
            w == Rewritten(store, unique)
            live == StackRefs(undo) \cup StackRefs(redo)
<1>1. /\ job = Idle /\ \A i \in 1..Len(LiveRefs) : Readable(LiveRefs[i])
      /\ store' = w /\ undo' = RemapEntries(undo, unique) /\ redo' = RemapEntries(redo, unique)
      /\ base' = base /\ journal' = journal /\ doc' = doc /\ job' = job /\ past' = past
      /\ future' = future /\ tainted' = tainted /\ count' = count
  BY DEF Compact, Rewritten, Text, TextIn, disk
<1>2. /\ TypeOK /\ base \in Docs /\ doc \in Docs /\ StackInv /\ RefInv /\ JobInv /\ JournalInv
      /\ undo \in Seq(HistoryEntry) /\ redo \in Seq(HistoryEntry) /\ store \in Seq(Chars)
      /\ Len(past) = Len(undo) /\ Len(future) = Len(redo)
  BY DEF UndoInv, TypeOK, StackInv
<1>3. /\ unique \in Seq(Ref)
      /\ \A i \in 1..Len(unique) : /\ ReadableIn(store, unique[i]) /\ unique[i].length # 0
                                   /\ unique[i] \in live
      /\ \A i, j \in 1..Len(unique) : i # j => unique[i] # unique[j]
      /\ Kept(store, unique, live)
  BY <1>1, <1>2, CompactRefs
<1>. HIDE DEF unique
<1>4. Kept(store, unique, StackRefs(undo)) /\ Kept(store, unique, StackRefs(redo))
  BY <1>3 DEF Kept
<1>5. \A i \in 1..Len(unique) : ReadableIn(store, unique[i])
  BY <1>3
<1>6. w \in Seq(Chars) /\ Len(w) = Sizes(unique)[Len(unique)]
  BY <1>2, <1>3, <1>5, RewrittenShape
<1>7. /\ undo' \in Seq(HistoryEntry) /\ Len(undo') = Len(undo)
      /\ \A i \in 1..Len(undo) : \A b, a : EntryOK(store, undo[i], b, a) => EntryOK(w, undo'[i], b, a)
      /\ \A r \in StackRefs(undo') : \E s \in StackRefs(undo) : r = RemapRef(unique, s)
  BY <1>1, <1>2, <1>3, <1>4, <1>5, RemapStack
<1>8. /\ redo' \in Seq(HistoryEntry) /\ Len(redo') = Len(redo)
      /\ \A i \in 1..Len(redo) : \A b, a : EntryOK(store, redo[i], b, a) => EntryOK(w, redo'[i], b, a)
      /\ \A r \in StackRefs(redo') : \E s \in StackRefs(redo) : r = RemapRef(unique, s)
  BY <1>1, <1>2, <1>3, <1>4, <1>5, RemapStack
<1>. HIDE DEF w
<1>9. ASSUME ~tainted PROVE Len(w) <= Quota
  <2>1. Placed(store, Used(undo, redo, job))
    BY <1>2, <1>9 DEF RefInv
  <2>2. \A r, s \in live : Apart(r, s)
    BY <2>1 DEF Placed, Used
  <2>3. \A i \in 1..Len(unique) : ReadableIn(store, unique[i]) /\ unique[i].length # 0
    BY <1>3
  <2>4. \A i, j \in 1..Len(unique) : i # j => unique[i] # unique[j] /\ Apart(unique[i], unique[j])
    BY <1>3, <2>2
  <2>5. Sizes(unique)[Len(unique)] <= Len(store)
    BY <1>2, <1>3, <2>3, <2>4, SizesFit
  <2>6. Len(w) <= Len(store) /\ Len(w) \in Nat /\ Len(store) \in Nat
    BY <1>2, <1>6, <2>5, LenProperties
  <2>7. Len(store) <= Quota /\ Quota \in Nat
    BY <1>2, <1>9, UndoAssumption DEF TypeOK
  <2>. QED  BY <2>6, <2>7
<1>10. TypeOK'
  BY <1>1, <1>2, <1>6, <1>7, <1>8, <1>9 DEF TypeOK
<1>11. StackInv'
  <2>1. ASSUME ~tainted PROVE UndosOK(w, undo', past, doc)
    <3>1. UndosOK(store, undo, past, doc)
      BY <1>2, <2>1 DEF StackInv
    <3>2. ASSUME NEW i \in 1..Len(undo') PROVE EntryOK(w, undo'[i], past[i], NextDoc(past, i, doc))
      <4>1. i \in 1..Len(undo)
        BY <1>7
      <4>2. EntryOK(store, undo[i], past[i], NextDoc(past, i, doc))
        BY <3>1, <4>1 DEF UndosOK
      <4>. QED  BY <1>7, <4>1, <4>2
    <3>. QED  BY <3>2 DEF UndosOK
  <2>2. ASSUME ~tainted PROVE RedosOK(w, redo', future, doc)
    <3>1. RedosOK(store, redo, future, doc)
      BY <1>2, <2>2 DEF StackInv
    <3>2. ASSUME NEW i \in 1..Len(redo') PROVE EntryOK(w, redo'[i], NextDoc(future, i, doc), future[i])
      <4>1. i \in 1..Len(redo)
        BY <1>8
      <4>2. EntryOK(store, redo[i], NextDoc(future, i, doc), future[i])
        BY <3>1, <4>1 DEF RedosOK
      <4>. QED  BY <1>8, <4>1, <4>2
    <3>. QED  BY <3>2 DEF RedosOK
  <2>. QED  BY <1>1, <1>2, <1>7, <1>8, <2>1, <2>2 DEF StackInv
<1>12. RefInv'
  <2>1. RefsOf(NoEntry) = {}
    BY EmptyEntry
  <2>2. Used(undo', redo', job) = StackRefs(undo') \cup StackRefs(redo')
    BY <1>1, <2>1, IdleShape DEF Used
  <2>3. ASSUME NEW r \in StackRefs(undo') \cup StackRefs(redo')
        PROVE  /\ ReadableIn(w, r)
               /\ r.length = 0 \/ \E i \in 1..Len(unique) : r = PlaceOf(unique, i)
    <3>1. PICK s \in live : r = RemapRef(unique, s)
      BY <1>7, <1>8
    <3>2. Kept(store, unique, {s})
      BY <1>3, <3>1 DEF Kept
    <3>. QED  BY <1>2, <1>3, <1>5, <3>1, <3>2, RemapShape DEF w
  <2>4. ASSUME NEW r \in StackRefs(undo') \cup StackRefs(redo'), NEW s \in StackRefs(undo') \cup StackRefs(redo')
        PROVE  Apart(r, s)
    <3>1. CASE r.length = 0 \/ s.length = 0
      BY <3>1 DEF Apart
    <3>2. CASE r.length # 0 /\ s.length # 0
      <4>1. PICK i \in 1..Len(unique) : r = PlaceOf(unique, i)
        BY <2>3, <3>2
      <4>2. PICK j \in 1..Len(unique) : s = PlaceOf(unique, j)
        BY <2>3, <3>2
      <4>. QED  BY <1>3, <4>1, <4>2, RemapApart
    <3>. QED  BY <3>1, <3>2
  <2>. QED  BY <1>1, <2>2, <2>3, <2>4 DEF RefInv, Placed
<1>13. JobInv'
  BY <1>1, IdleShape DEF JobInv
<1>14. JournalInv'
  BY <1>1, <1>2 DEF JournalInv
<1>. QED  BY <1>1, <1>2, <1>10, <1>11, <1>12, <1>13, <1>14 DEF UndoInv

-----------------------------------------------------------------------------
\* The theorems

LEMMA NextInv ==
    ASSUME UndoInv, [Next]_vars
    PROVE  UndoInv'
<1>1. CASE UNCHANGED vars
  BY <1>1 DEF vars, UndoInv, TypeOK, StackInv, RefInv, JobInv, JournalInv
<1>2. ASSUME NEW batch \in Batches, ApplyBegin(batch) PROVE UndoInv'
  BY <1>2, ApplyBeginInv
<1>3. CASE RecordOperation
  BY <1>3, RecordOperationInv
<1>4. CASE ApplyPublish
  BY <1>4, ApplyPublishInv
<1>5. CASE ApplyCancel
  BY <1>5, ApplyCancelInv
<1>6. CASE Undo
  BY <1>6, UndoStepInv
<1>7. CASE Redo
  BY <1>7, RedoStepInv
<1>8. CASE Compact
  BY <1>8, CompactInv
<1>9. CASE Save
  BY <1>9, SaveInv
<1>10. CASE Reopen
  BY <1>10, ReopenInv
<1>11. CASE ReplayPublish
  BY <1>11, ReplayPublishInv
<1>. QED  BY <1>1, <1>2, <1>3, <1>4, <1>5, <1>6, <1>7, <1>8, <1>9, <1>10, <1>11 DEF Next

\* With the texts in the store every undo entry leads back to the document it
\* was made on and every redo entry forward to the one it was undone from, no
\* two references share a byte, the entry of the transaction under way leads
\* back from the staged tree, and the journal's transactions can be replayed.
THEOREM UndoInvariance == Spec => []UndoInv
<1>1. Init => UndoInv
  BY InitInv
<1>2. UndoInv /\ [Next]_vars => UndoInv'
  BY NextInv
<1>. QED  BY <1>1, <1>2, PTL DEF Spec

\* The documents, the stacks, the references and the job keep their types, and
\* the undo store never holds more than UndoBytes: neither historyText's
\* appends and resets nor rewriteContext can take it over the quota.
THEOREM UndoTypeCorrect == Spec => []TypeOK
<1>1. UndoInv => TypeOK
  BY DEF UndoInv
<1>. QED  BY <1>1, UndoInvariance, PTL

LEMMA StacksRestore ==
    ASSUME UndoInv, ~tainted
    PROVE  AllUndoRestores /\ AllRedoRestores
<1>1. /\ StackInv /\ UndosOK(store, undo, past, doc) /\ RedosOK(store, redo, future, doc)
      /\ Len(past) = Len(undo) /\ Len(future) = Len(redo)
  BY DEF UndoInv, StackInv
<1>2. \A hops : Materialize(hops) = Mat(store, hops)
  BY DEF Materialize, Mat, Text, TextIn
<1>3. \A hops : Len(Materialize(hops)) = Len(hops) \/ hops \notin Seq(HistoryOperation)
  <2>1. ASSUME NEW hops \in Seq(HistoryOperation) PROVE Len(Materialize(hops)) = Len(hops)
    <3>1. Len(hops) \in Nat
      BY LenProperties
    <3>. QED  BY <3>1 DEF Materialize
  <2>. QED  BY <2>1
<1>4. ASSUME NEW i \in 1..Len(undo) PROVE Inverts(i, IF i = Len(undo) THEN doc ELSE past[i + 1])
  <2>1. EntryOK(store, undo[i], past[i], NextDoc(past, i, doc))
    BY <1>1 DEF UndosOK
  <2>2. NextDoc(past, i, doc) = IF i = Len(undo) THEN doc ELSE past[i + 1]
    BY <1>1 DEF NextDoc
  <2>. QED  BY <1>2, <2>1, <2>2 DEF EntryOK, Leads, AllReadable, ReadableIn, Readable, Inverts
<1>5. ASSUME NEW i \in 1..Len(redo)
      PROVE  LET ops == Materialize(redo[i].forward)
                 d == IF i = Len(redo) THEN doc ELSE future[i + 1]
             IN  /\ \A k \in 1..Len(ops) : Readable(redo[i].forward[k].ref)
                 /\ InRange(ops, d) /\ RunOps(ops, d) = future[i]
  <2>1. EntryOK(store, redo[i], NextDoc(future, i, doc), future[i])
    BY <1>1 DEF RedosOK
  <2>2. NextDoc(future, i, doc) = IF i = Len(redo) THEN doc ELSE future[i + 1]
    BY <1>1 DEF NextDoc
  <2>3. redo[i].forward \in Seq(HistoryOperation)
    <3>1. redo[i] \in HistoryEntry
      BY ElementOfSeq DEF UndoInv, TypeOK
    <3>. QED  BY <3>1 DEF HistoryEntry
  <2>4. Len(Materialize(redo[i].forward)) = Len(redo[i].forward)
    BY <1>3, <2>3
  <2>. QED  BY <1>2, <2>1, <2>2, <2>4 DEF EntryOK, Leads, AllReadable, ReadableIn, Readable
<1>. QED  BY <1>1, <1>4, <1>5 DEF AllUndoRestores, AllRedoRestores

LEMMA CompactNeverRefused ==
    ASSUME UndoInv, ~tainted
    PROVE  \A i \in 1..Len(LiveRefs) : Readable(LiveRefs[i])
<1>1. undo \in Seq(HistoryEntry) /\ redo \in Seq(HistoryEntry) /\ Placed(store, Used(undo, redo, job))
  BY DEF UndoInv, TypeOK, RefInv
<1>. SUFFICES ASSUME NEW i \in 1..Len(LiveRefs) PROVE Readable(LiveRefs[i])
  OBVIOUS
<1>2. LiveRefs[i] \in StackRefs(undo) \cup StackRefs(redo)
  BY <1>1, LiveShape
<1>3. LiveRefs[i] \in Used(undo, redo, job)
  BY <1>2 DEF Used
<1>. QED  BY <1>1, <1>3 DEF Placed, ReadableIn, Readable

\* Undo, called again and again, restores exactly the earlier documents and
\* Redo returns through the ones that were left, across quota resets,
\* compactions, failed transactions, saves and exits, and Compact is never
\* refused for a reference outside the store: for any characters, transactions
\* and limits, unless a replay ran into the quota.
THEOREM UndoRedoIsExact == Spec => []UndoRedoRestore
<1>1. UndoInv => UndoRedoRestore
  BY StacksRestore, CompactNeverRefused DEF UndoRedoRestore
<1>. QED  BY <1>1, UndoInvariance, PTL
=============================================================================
