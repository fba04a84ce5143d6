------------------------ MODULE ChangeHistoryProofs ------------------------
(***************************************************************************)
(* The proofs about the retained changes.  The argument names what the     *)
(* state does not hold: one document and one edit for every revision, the  *)
(* inner revisions of a batch included.  Each edit cuts one run of runes   *)
(* out of the document before it and puts new ones in their place; a rune, *)
(* once gone, never comes back.  The maps of the ring are slices of that   *)
(* timeline, so that composing them is joining slices, and carrying an     *)
(* anchor through a slice is following one rune from document to document. *)
(***************************************************************************)
EXTENDS ChangeHistory, DataInduction, SequenceTheorems, TLAPS

Runes == [kind : DOMAIN Width, id : Nat \X Nat]
Docs == Seq(Runes)

\* No rune is there twice; none is younger than revision r.
Distinct(d) == \A i, j \in 1..Len(d) : d[i] = d[j] => i = j
Born(d, r) == \A i \in 1..Len(d) : d[i].id[1] <= r
RuneSet(d) == {d[i] : i \in 1..Len(d)}

-----------------------------------------------------------------------------
\* Recursive functions

GoAlike(f, g, n) ==
    f[0] = g[0] /\ \A i \in 1..n : f[i - 1] = g[i - 1] => f[i] = g[i]

\* Two functions that start alike and go on alike are alike.
LEMMA Alike ==
    ASSUME NEW n \in Nat, NEW f, NEW g, GoAlike(f, g, n)
    PROVE  \A i \in 0..n : f[i] = g[i]
<1>. DEFINE Done == {m \in Nat : m <= n => f[m] = g[m]}
<1>1. 0 \in Done
  BY DEF GoAlike
<1>2. ASSUME NEW m \in Nat, m \in Done PROVE m + 1 \in Done
  <2>. SUFFICES ASSUME m + 1 <= n PROVE f[m + 1] = g[m + 1]
    OBVIOUS
  <2>1. PICK k \in 1..n : k = m + 1 /\ k - 1 = m
    <3>1. m + 1 \in 1..n /\ (m + 1) - 1 = m
      OBVIOUS
    <3>. QED  BY <3>1
  <2>2. f[m] = g[m]
    BY <1>2
  <2>3. f[k] = g[k]
    BY <2>1, <2>2 DEF GoAlike
  <2>. QED  BY <2>1, <2>3
<1>3. \A m \in Nat : m \in Done
  <2>. HIDE DEF Done
  <2>. QED  BY <1>1, <1>2, SetInduction
<1>. QED  BY <1>3

LEMMA RuneWidths ==
    ASSUME NEW d \in Docs
    PROVE  /\ Len(d) \in Nat
           /\ \A k \in 1..Len(d) : d[k] \in Runes /\ Width[d[k].kind] \in 1..UTFMax
<1>1. Len(d) \in Nat /\ \A k \in 1..Len(d) : d[k] \in Runes
  BY LenProperties DEF Docs
<1>2. \A k \in 1..Len(d) : d[k].kind \in DOMAIN Width
  BY <1>1 DEF Runes
<1>. QED  BY <1>1, <1>2, IndexAssumption

\* The offsets of the runes of a document.
LEMMA StartsUnfold ==
    ASSUME NEW d \in Docs
    PROVE  /\ Starts(d) \in [0..Len(d) -> Nat] /\ Starts(d)[0] = 0
           /\ \A k \in 1..Len(d) : Starts(d)[k] = Starts(d)[k - 1] + Width[d[k].kind]
<1>. DEFINE n == Len(d)
            step == [p \in (1..n) \X Nat |-> p[2] + Width[d[p[1]].kind]]
            Body(g) == [k \in 0..n |-> IF k = 0 THEN 0 ELSE g[k - 1] + Width[d[k].kind]]
            s == CHOOSE g : g = Body(g)
<1>1. n \in Nat /\ \A k \in 1..n : Width[d[k].kind] \in Nat
  <2>1. UTFMax \in Nat
    BY IndexAssumption
  <2>. QED  BY <2>1, RuneWidths
<1>2. /\ step \in [(1..n) \X Nat -> Nat]
      /\ \A i \in 1..n, v \in Nat : step[<<i, v>>] = v + Width[d[i].kind]
  BY <1>1
<1>. HIDE DEF step, n
<1>3. PICK at \in [0..n -> Nat] : IsChain(at, n, 0, step)
  BY <1>1, <1>2, ChainExists
<1>4. at[0] = 0 /\ \A i \in 1..n : at[i] = at[i - 1] + Width[d[i].kind]
  <2>1. \A i \in 1..n : i - 1 \in 0..n
    BY <1>1
  <2>. QED  BY <1>2, <1>3, <2>1 DEF IsChain
<1>5. at = Body(at)
  <2>1. ASSUME NEW i \in 0..n PROVE at[i] = Body(at)[i]
    <3>1. CASE i = 0
      BY <1>4, <3>1
    <3>2. CASE i # 0
      <4>1. i \in 1..n
        BY <1>1, <3>2
      <4>. QED  BY <1>4, <3>2, <4>1
    <3>. QED  BY <3>1, <3>2
  <2>. QED  BY <1>3, <2>1
<1>6. s = Body(s)
  BY <1>5
<1>7. Starts(d) = s
  BY DEF Starts, n
<1>. HIDE DEF s
<1>8. \A i \in 0..n : s[i] = at[i]
  <2>1. s[0] = at[0]
    BY <1>1, <1>4, <1>6
  <2>2. ASSUME NEW i \in 1..n, s[i - 1] = at[i - 1] PROVE s[i] = at[i]
    <3>1. i \in 0..n /\ i # 0
      BY <1>1
    <3>2. s[i] = s[i - 1] + Width[d[i].kind]
      BY <1>6, <3>1
    <3>. QED  BY <1>4, <2>2, <3>2
  <2>3. GoAlike(s, at, n)
    BY <2>1, <2>2 DEF GoAlike
  <2>. QED  BY <1>1, <2>1, <2>3, Alike
<1>9. s = at
  <2>1. s = [i \in 0..n |-> s[i]]
    BY <1>6
  <2>. QED  BY <1>3, <1>8, <2>1
<1>. QED  BY <1>3, <1>4, <1>7, <1>9 DEF n

\* Every rune takes room.
LEMMA StartsGrow ==
    ASSUME NEW d \in Docs, NEW i \in 0..Len(d), NEW j \in 0..Len(d)
    PROVE  /\ Starts(d)[i] \in Nat /\ Starts(d)[j] \in Nat
           /\ i < j => Starts(d)[i] < Starts(d)[j]
           /\ Starts(d)[i] = Starts(d)[j] => i = j
           /\ i <= j <=> Starts(d)[i] <= Starts(d)[j]
<1>. DEFINE n == Len(d)
            s == Starts(d)
            Done == {m \in Nat : m <= n => \A k \in 0..n : k < m => s[k] < s[m]}
<1>1. /\ n \in Nat /\ s \in [0..n -> Nat]
      /\ \A k \in 1..n : s[k - 1] < s[k]
  <2>1. \A k \in 1..n : k - 1 \in 0..n /\ k \in 0..n
    BY RuneWidths
  <2>2. UTFMax \in Nat
    BY IndexAssumption
  <2>3. ASSUME NEW k \in 1..n PROVE s[k - 1] < s[k]
    <3>1. s[k] = s[k - 1] + Width[d[k].kind] /\ Width[d[k].kind] \in 1..UTFMax /\ s[k - 1] \in Nat
      BY <2>1, RuneWidths, StartsUnfold
    <3>. QED  BY <2>2, <3>1
  <2>. QED  BY <2>3, RuneWidths, StartsUnfold
<1>. HIDE DEF s, n
<1>2. 0 \in Done
  BY <1>1
<1>3. ASSUME NEW m \in Nat, m \in Done PROVE m + 1 \in Done
  <2>. SUFFICES ASSUME m + 1 <= n, NEW k \in 0..n, k < m + 1 PROVE s[k] < s[m + 1]
    OBVIOUS
  <2>1. PICK l \in 1..n : l = m + 1 /\ l - 1 = m
    <3>1. m + 1 \in 1..n /\ (m + 1) - 1 = m
      BY <1>1
    <3>. QED  BY <3>1
  <2>2. s[m] < s[l] /\ s[m] \in Nat /\ s[l] \in Nat /\ s[k] \in Nat
    <3>1. m \in 0..n /\ l \in 0..n
      BY <1>1, <2>1
    <3>. QED  BY <1>1, <2>1, <3>1
  <2>3. k = m \/ s[k] < s[m]
    BY <1>1, <1>3
  <2>. QED  BY <2>1, <2>2, <2>3
<1>4. \A m \in Nat : m \in Done
  <2>. HIDE DEF Done
  <2>. QED  BY <1>2, <1>3, SetInduction
<1>5. \A k, m \in 0..n : k < m => s[k] < s[m]
  BY <1>1, <1>4
<1>. HIDE DEF Done
<1>6. i \in 0..n /\ j \in 0..n
  BY DEF n
<1>7. /\ s[i] \in Nat /\ s[j] \in Nat
      /\ i < j => s[i] < s[j]
      /\ j < i => s[j] < s[i]
  BY <1>1, <1>5, <1>6
<1>8. i \in Int /\ j \in Int
  BY <1>1, <1>6
<1>. QED  BY <1>7, <1>8 DEF s

\* Runs of runes of the same kinds take the same room.
SameKinds(d, a, e, b, n) == \A i \in 1..n : d[a + i].kind = e[b + i].kind

LEMMA StartsShift ==
    ASSUME NEW d \in Docs, NEW e \in Docs, NEW a \in Nat, NEW b \in Nat, NEW n \in Nat,
           a + n <= Len(d), b + n <= Len(e), SameKinds(d, a, e, b, n)
    PROVE  Starts(d)[a + n] + Starts(e)[b] = Starts(e)[b + n] + Starts(d)[a]
<1>. DEFINE s == Starts(d)
            t == Starts(e)
            Done == {m \in Nat : m <= n => s[a + m] + t[b] = t[b + m] + s[a]}
<1>1. Len(d) \in Nat /\ Len(e) \in Nat /\ s \in [0..Len(d) -> Nat] /\ t \in [0..Len(e) -> Nat]
  BY RuneWidths, StartsUnfold
<1>2. 0 \in Done
  <2>1. a \in 0..Len(d) /\ b \in 0..Len(e) /\ a + 0 = a /\ b + 0 = b
    BY <1>1
  <2>2. s[a] \in Nat /\ t[b] \in Nat
    BY <1>1, <2>1
  <2>. HIDE DEF s, t
  <2>. QED  BY <2>1, <2>2
<1>3. ASSUME NEW m \in Nat, m \in Done PROVE m + 1 \in Done
  <2>. SUFFICES ASSUME m + 1 <= n PROVE s[a + (m + 1)] + t[b] = t[b + (m + 1)] + s[a]
    OBVIOUS
  <2>1. PICK k \in 1..n : k = m + 1
    OBVIOUS
  <2>2. PICK p \in 1..Len(d), q \in 1..Len(e) :
           p = a + k /\ q = b + k /\ p - 1 = a + m /\ q - 1 = b + m
    <3>1. a + k \in 1..Len(d) /\ b + k \in 1..Len(e) /\ (a + k) - 1 = a + m /\ (b + k) - 1 = b + m
      BY <1>1, <2>1
    <3>. QED  BY <3>1
  <2>3. d[p].kind = e[q].kind
    BY <2>2 DEF SameKinds
  <2>4. s[p] = s[p - 1] + Width[d[p].kind] /\ t[q] = t[q - 1] + Width[e[q].kind]
    BY StartsUnfold
  <2>5. Width[d[p].kind] \in Nat
    <3>1. Width[d[p].kind] \in 1..UTFMax /\ UTFMax \in Nat
      BY RuneWidths, IndexAssumption
    <3>. QED  BY <3>1
  <2>6. s[p - 1] \in Nat /\ t[q - 1] \in Nat /\ s[a] \in Nat /\ t[b] \in Nat
    <3>1. p - 1 \in 0..Len(d) /\ q - 1 \in 0..Len(e) /\ a \in 0..Len(d) /\ b \in 0..Len(e)
      BY <1>1
    <3>. QED  BY <1>1, <3>1
  <2>7. s[p - 1] + t[b] = t[q - 1] + s[a]
    BY <1>3, <2>2
  <2>8. s[a + (m + 1)] = s[p] /\ t[b + (m + 1)] = t[q]
    BY <2>1, <2>2
  <2>. HIDE DEF s, t
  <2>9. PICK w \in Nat : s[p] = s[p - 1] + w /\ t[q] = t[q - 1] + w
    BY <2>3, <2>4, <2>5
  <2>10. s[p] + t[b] = t[q] + s[a]
    <3>1. PICK x, y, u, v \in Nat : x = s[p - 1] /\ y = t[q - 1] /\ u = s[a] /\ v = t[b]
      BY <2>6
    <3>2. x + v = y + u
      BY <2>7, <3>1
    <3>3. s[p] = x + w /\ t[q] = y + w
      BY <2>9, <3>1
    <3>4. (x + w) + v = (y + w) + u
      BY <3>2
    <3>. QED  BY <3>1, <3>3, <3>4
  <2>. QED  BY <2>8, <2>10
<1>4. \A m \in Nat : m \in Done
  <2>. HIDE DEF Done
  <2>. QED  BY <1>2, <1>3, SetInduction
<1>. QED  BY <1>4

\* The lengths of the successive documents.
LEMMA LengthsUnfold ==
    ASSUME NEW length \in Int, NEW edits \in Seq(Edit)
    PROVE  /\ Lengths(length, edits) \in [0..Len(edits) -> Int] /\ Lengths(length, edits)[0] = length
           /\ \A i \in 1..Len(edits) :
                Lengths(length, edits)[i] = Lengths(length, edits)[i - 1] - edits[i].old + edits[i].new
<1>. DEFINE n == Len(edits)
            step == [p \in (1..n) \X Int |-> p[2] - edits[p[1]].old + edits[p[1]].new]
            Body(g) == [i \in 0..n |-> IF i = 0 THEN length
                                       ELSE g[i - 1] - edits[i].old + edits[i].new]
            l == CHOOSE g : g = Body(g)
<1>1. n \in Nat /\ \A i \in 1..n : edits[i].old \in Nat /\ edits[i].new \in Nat
  <2>1. n \in Nat /\ \A i \in 1..n : edits[i] \in Edit
    BY LenProperties
  <2>. QED  BY <2>1 DEF Edit
<1>2. /\ step \in [(1..n) \X Int -> Int]
      /\ \A i \in 1..n, v \in Int : step[<<i, v>>] = v - edits[i].old + edits[i].new
  BY <1>1
<1>. HIDE DEF step, n
<1>3. PICK at \in [0..n -> Int] : IsChain(at, n, length, step)
  BY <1>1, <1>2, ChainExists
<1>4. at[0] = length /\ \A i \in 1..n : at[i] = at[i - 1] - edits[i].old + edits[i].new
  <2>1. \A i \in 1..n : i - 1 \in 0..n
    BY <1>1
  <2>. QED  BY <1>2, <1>3, <2>1 DEF IsChain
<1>5. at = Body(at)
  <2>1. ASSUME NEW i \in 0..n PROVE at[i] = Body(at)[i]
    <3>1. CASE i = 0
      BY <1>4, <3>1
    <3>2. CASE i # 0
      <4>1. i \in 1..n
        BY <1>1, <3>2
      <4>. QED  BY <1>4, <3>2, <4>1
    <3>. QED  BY <3>1, <3>2
  <2>. QED  BY <1>3, <2>1
<1>6. l = Body(l)
  BY <1>5
<1>7. Lengths(length, edits) = l
  BY DEF Lengths, n
<1>. HIDE DEF l
<1>8. \A i \in 0..n : l[i] = at[i]
  <2>1. l[0] = at[0]
    BY <1>1, <1>4, <1>6
  <2>2. ASSUME NEW i \in 1..n, l[i - 1] = at[i - 1] PROVE l[i] = at[i]
    <3>1. i \in 0..n /\ i # 0
      BY <1>1
    <3>2. l[i] = l[i - 1] - edits[i].old + edits[i].new
      BY <1>6, <3>1
    <3>. QED  BY <1>4, <2>2, <3>2
  <2>3. GoAlike(l, at, n)
    BY <2>1, <2>2 DEF GoAlike
  <2>. QED  BY <1>1, <2>3, Alike
<1>9. l = at
  <2>1. l = [i \in 0..n |-> l[i]]
    BY <1>6
  <2>. QED  BY <1>3, <1>8, <2>1
<1>. QED  BY <1>3, <1>4, <1>7, <1>9 DEF n

\* The places an anchor passes through.
Carried(at, edits, offset, affinity) ==
    /\ at[0] = offset
    /\ \A i \in 1..Len(edits) : at[i] = transformOffset(at[i - 1], affinity, edits[i])

LEMMA TransformOffsetType ==
    ASSUME NEW offset \in Int, NEW affinity, NEW e \in Edit
    PROVE  transformOffset(offset, affinity, e) \in Int
<1>1. e.start \in Nat /\ e.old \in Nat /\ e.new \in Nat
  BY DEF Edit
<1>. QED  BY <1>1 DEF transformOffset

LEMMA TransformUnfold ==
    ASSUME NEW m, m.edits \in Seq(Edit), NEW offset \in Int, NEW affinity
    PROVE  \E at \in [0..Len(m.edits) -> Int] :
              Carried(at, m.edits, offset, affinity) /\ Transform(m, offset, affinity) = at[Len(m.edits)]
<1>. DEFINE n == Len(m.edits)
            step == [p \in (1..n) \X Int |-> transformOffset(p[2], affinity, m.edits[p[1]])]
            Body(g) == [i \in 0..n |-> IF i = 0 THEN offset
                                       ELSE transformOffset(g[i - 1], affinity, m.edits[i])]
            l == CHOOSE g : g = Body(g)
<1>1. n \in Nat /\ \A i \in 1..n : m.edits[i] \in Edit
  BY LenProperties
<1>2. /\ step \in [(1..n) \X Int -> Int]
      /\ \A i \in 1..n, v \in Int : step[<<i, v>>] = transformOffset(v, affinity, m.edits[i])
  BY <1>1, TransformOffsetType
<1>. HIDE DEF step, n
<1>3. PICK at \in [0..n -> Int] : IsChain(at, n, offset, step)
  BY <1>1, <1>2, ChainExists
<1>4. at[0] = offset /\ \A i \in 1..n : at[i] = transformOffset(at[i - 1], affinity, m.edits[i])
  <2>1. \A i \in 1..n : i - 1 \in 0..n
    BY <1>1
  <2>. QED  BY <1>2, <1>3, <2>1 DEF IsChain
<1>5. at = Body(at)
  <2>1. ASSUME NEW i \in 0..n PROVE at[i] = Body(at)[i]
    <3>1. CASE i = 0
      BY <1>4, <3>1
    <3>2. CASE i # 0
      <4>1. i \in 1..n
        BY <1>1, <3>2
      <4>. QED  BY <1>4, <3>2, <4>1
    <3>. QED  BY <3>1, <3>2
  <2>. QED  BY <1>3, <2>1
<1>6. l = Body(l)
  BY <1>5
<1>7. Transform(m, offset, affinity) = l[n]
  BY DEF Transform, n
<1>. HIDE DEF l
<1>8. \A i \in 0..n : l[i] = at[i]
  <2>1. l[0] = at[0]
    BY <1>1, <1>4, <1>6
  <2>2. ASSUME NEW i \in 1..n, l[i - 1] = at[i - 1] PROVE l[i] = at[i]
    <3>1. i \in 0..n /\ i # 0
      BY <1>1
    <3>2. l[i] = transformOffset(l[i - 1], affinity, m.edits[i])
      BY <1>6, <3>1
    <3>. QED  BY <1>4, <2>2, <3>2
  <2>3. GoAlike(l, at, n)
    BY <2>1, <2>2 DEF GoAlike
  <2>. QED  BY <1>1, <2>3, Alike
<1>9. l[n] = at[n] /\ Carried(at, m.edits, offset, affinity)
  BY <1>1, <1>4, <1>8 DEF Carried, n
<1>. QED  BY <1>3, <1>7, <1>9 DEF n

-----------------------------------------------------------------------------
\* One edit

\* Edit e turns x into y: behind the first s runes it takes k out and puts m in.
SameRunes(x, a, y, b, n) == \A i \in 1..n : x[a + i] = y[b + i]
Gone(x, s, k, y) == \A i \in (s + 1)..(s + k), j \in 1..Len(y) : x[i] # y[j]

Splice(e, x, y, s, k, m) ==
    /\ s + k <= Len(x) /\ s + m <= Len(y) /\ Len(x) + m = Len(y) + k
    /\ SameRunes(x, 0, y, 0, s)
    /\ SameRunes(x, s + k, y, s + m, Len(x) - (s + k))
    /\ Gone(x, s, k, y) /\ Gone(y, s, m, x)
    /\ Starts(x)[s] = e.start /\ Starts(x)[s + k] = e.start + e.old
    /\ Starts(y)[s] = e.start /\ Starts(y)[s + m] = e.start + e.new

EditStep(e, x, y) == \E s, k, m \in Nat : Splice(e, x, y, s, k, m)

Turned(e) == [start |-> e.start, old |-> e.new, new |-> e.old]

LEMMA TurnedType ==
    ASSUME NEW e \in Edit PROVE Turned(e) \in Edit
BY DEF Turned, Edit

\* The edit turned round undoes it.
LEMMA SpliceBack ==
    ASSUME NEW e \in Edit, NEW x \in Docs, NEW y \in Docs, EditStep(e, x, y)
    PROVE  EditStep(Turned(e), y, x)
<1>1. PICK s, k, m \in Nat : Splice(e, x, y, s, k, m)
  BY DEF EditStep
<1>2. Len(x) \in Nat /\ Len(y) \in Nat
  BY RuneWidths
<1>3. Len(y) - (s + m) = Len(x) - (s + k) /\ Len(y) + k = Len(x) + m
  BY <1>1, <1>2 DEF Splice
<1>4. SameRunes(y, 0, x, 0, s) /\ SameRunes(y, s + m, x, s + k, Len(y) - (s + m))
  BY <1>1, <1>3 DEF Splice, SameRunes
<1>5. Turned(e).start = e.start /\ Turned(e).old = e.new /\ Turned(e).new = e.old
  BY DEF Turned
<1>6. Splice(Turned(e), y, x, s, m, k)
  BY <1>1, <1>3, <1>4, <1>5 DEF Splice
<1>. QED  BY <1>6 DEF EditStep

\* The runes in front of an edit stay where they are and those behind it move
\* on with it.
LEMMA SpliceRunes ==
    ASSUME NEW e \in Edit, NEW x \in Docs, NEW y \in Docs, Distinct(y),
           NEW s \in Nat, NEW k \in Nat, NEW m \in Nat, Splice(e, x, y, s, k, m),
           NEW i \in 1..Len(x), NEW j \in 1..Len(y), x[i] = y[j]
    PROVE  \/ i <= s /\ j = i
           \/ i > s + k /\ j > s + m /\ i - (s + k) = j - (s + m)
<1>1. Len(x) \in Nat /\ Len(y) \in Nat /\ i \in Nat /\ j \in Nat
  BY RuneWidths
<1>2. s + k <= Len(x) /\ s + m <= Len(y) /\ Len(x) + m = Len(y) + k
  BY DEF Splice
<1>3. CASE i <= s
  <2>1. i \in 1..s /\ i \in 1..Len(y)
    BY <1>1, <1>2, <1>3
  <2>2. x[i] = y[i]
    <3>1. x[0 + i] = y[0 + i] /\ 0 + i = i
      BY <1>1, <2>1 DEF Splice, SameRunes
    <3>. QED  BY <3>1
  <2>3. j = i
    BY <2>1, <2>2 DEF Distinct
  <2>. QED  BY <1>3, <2>3
<1>4. CASE i > s /\ i <= s + k
  <2>1. i \in (s + 1)..(s + k)
    BY <1>1, <1>4
  <2>. QED  BY <2>1 DEF Splice, Gone
<1>5. CASE i > s + k
  <2>1. PICK n \in 1..(Len(x) - (s + k)) : i = (s + k) + n
    <3>1. i - (s + k) \in 1..(Len(x) - (s + k)) /\ i = (s + k) + (i - (s + k))
      BY <1>1, <1>2, <1>5
    <3>. QED  BY <3>1
  <2>2. x[(s + k) + n] = y[(s + m) + n]
    BY <2>1 DEF Splice, SameRunes
  <2>3. (s + m) + n \in 1..Len(y)
    BY <1>1, <1>2, <2>1
  <2>4. j = (s + m) + n
    BY <2>1, <2>2, <2>3 DEF Distinct
  <2>. QED  BY <1>1, <1>2, <1>5, <2>1, <2>4
<1>. QED  BY <1>1, <1>3, <1>4, <1>5

FrontStays(x, y, s) ==
    \A i \in 0..s : Starts(y)[i] = Starts(x)[i] /\ Starts(x)[i] \in Nat
BackMoves(e, x, a, y, b) ==
    \A n \in 0..(Len(x) - a) :
        /\ Starts(x)[a + n] \in Nat /\ Starts(y)[b + n] \in Nat
        /\ Starts(y)[b + n] = Starts(x)[a + n] - e.old + e.new

\* Where the two documents agree their offsets do.
LEMMA SpliceStarts ==
    ASSUME NEW e \in Edit, NEW x \in Docs, NEW y \in Docs,
           NEW s \in Nat, NEW k \in Nat, NEW m \in Nat, Splice(e, x, y, s, k, m)
    PROVE  FrontStays(x, y, s) /\ BackMoves(e, x, s + k, y, s + m)
<1>1. /\ Len(x) \in Nat /\ Len(y) \in Nat
      /\ Starts(x) \in [0..Len(x) -> Nat] /\ Starts(y) \in [0..Len(y) -> Nat]
      /\ Starts(x)[0] = 0 /\ Starts(y)[0] = 0
  BY RuneWidths, StartsUnfold
<1>2. s + k <= Len(x) /\ s + m <= Len(y) /\ Len(x) + m = Len(y) + k
  BY DEF Splice
<1>3. e.start \in Nat /\ e.old \in Nat /\ e.new \in Nat
  BY DEF Edit
<1>4. ASSUME NEW i \in 0..s PROVE Starts(y)[i] = Starts(x)[i] /\ Starts(x)[i] \in Nat
  <2>1. i \in Nat /\ i <= s /\ 0 + i <= Len(x) /\ 0 + i <= Len(y) /\ 0 + i = i
    BY <1>1, <1>2
  <2>2. SameKinds(x, 0, y, 0, i)
    <3>1. SameRunes(x, 0, y, 0, s) /\ \A l \in 1..i : l \in 1..s
      BY <2>1 DEF Splice
    <3>. QED  BY <3>1 DEF SameRunes, SameKinds
  <2>3. Starts(x)[0 + i] + Starts(y)[0] = Starts(y)[0 + i] + Starts(x)[0]
    BY <2>1, <2>2, StartsShift
  <2>4. i \in 0..Len(x) /\ i \in 0..Len(y)
    BY <1>1, <2>1
  <2>5. Starts(x)[i] \in Nat /\ Starts(y)[i] \in Nat
    BY <1>1, <2>4
  <2>6. Starts(x)[i] + 0 = Starts(y)[i] + 0
    BY <1>1, <2>1, <2>3
  <2>. QED  BY <2>5, <2>6
<1>5. ASSUME NEW n \in 0..(Len(x) - (s + k))
      PROVE  /\ Starts(x)[(s + k) + n] \in Nat /\ Starts(y)[(s + m) + n] \in Nat
             /\ Starts(y)[(s + m) + n] = Starts(x)[(s + k) + n] - e.old + e.new
  <2>1. n \in Nat /\ s + k \in Nat /\ s + m \in Nat /\ (s + k) + n <= Len(x) /\ (s + m) + n <= Len(y)
    BY <1>1, <1>2
  <2>2. SameKinds(x, s + k, y, s + m, n)
    <3>1. SameRunes(x, s + k, y, s + m, Len(x) - (s + k)) /\ \A l \in 1..n : l \in 1..(Len(x) - (s + k))
      BY <1>1, <2>1 DEF Splice
    <3>. QED  BY <3>1 DEF SameRunes, SameKinds
  <2>3. Starts(x)[(s + k) + n] + Starts(y)[s + m] = Starts(y)[(s + m) + n] + Starts(x)[s + k]
    BY <2>1, <2>2, StartsShift
  <2>4. (s + k) + n \in 0..Len(x) /\ (s + m) + n \in 0..Len(y)
    BY <1>1, <2>1
  <2>5. PICK p, q \in Nat : p = Starts(x)[(s + k) + n] /\ q = Starts(y)[(s + m) + n]
    BY <1>1, <2>4
  <2>6. p + (e.start + e.new) = q + (e.start + e.old)
    BY <2>3, <2>5 DEF Splice
  <2>7. q = p - e.old + e.new
    <3>1. PICK a, b, c \in Nat : a = e.start /\ b = e.old /\ c = e.new
      BY <1>3
    <3>2. p + (a + c) = q + (a + b)
      BY <2>6, <3>1
    <3>3. q = p - b + c
      BY <3>2
    <3>. QED  BY <3>1, <3>3
  <2>. QED  BY <2>5, <2>7
<1>. QED  BY <1>4, <1>5 DEF FrontStays, BackMoves

LEMMA StepLength ==
    ASSUME NEW e \in Edit, NEW x \in Docs, NEW y \in Docs, EditStep(e, x, y)
    PROVE  /\ ByteLength(y) = ByteLength(x) - e.old + e.new
           /\ ByteLength(x) \in Nat /\ ByteLength(y) \in Nat
<1>1. PICK s, k, m \in Nat : Splice(e, x, y, s, k, m)
  BY DEF EditStep
<1>2. Len(x) \in Nat /\ Len(y) \in Nat
  BY RuneWidths
<1>3. PICK n \in 0..(Len(x) - (s + k)) : n = Len(x) - (s + k)
  <2>1. s + k <= Len(x)
    BY <1>1 DEF Splice
  <2>2. Len(x) - (s + k) \in 0..(Len(x) - (s + k))
    BY <1>2, <2>1
  <2>. QED  BY <2>2
<1>4. (s + k) + n = Len(x) /\ (s + m) + n = Len(y)
  <2>1. Len(x) + m = Len(y) + k
    BY <1>1 DEF Splice
  <2>. QED  BY <1>2, <1>3, <2>1
<1>5. /\ Starts(x)[(s + k) + n] \in Nat /\ Starts(y)[(s + m) + n] \in Nat
      /\ Starts(y)[(s + m) + n] = Starts(x)[(s + k) + n] - e.old + e.new
  <2>1. BackMoves(e, x, s + k, y, s + m)
    BY <1>1, SpliceStarts
  <2>. QED  BY <2>1 DEF BackMoves
<1>. QED  BY <1>4, <1>5 DEF ByteLength

\* An anchor that holds on to a rune that stays follows it through one edit.
Anchors(x, y, i, j, e) ==
    /\ transformOffset(Starts(x)[i - 1], "after", e) = Starts(y)[j - 1]
    /\ transformOffset(Starts(x)[i], "before", e) = Starts(y)[j]

LEMMA OneStep ==
    ASSUME NEW e \in Edit, NEW x \in Docs, NEW y \in Docs, Distinct(y), EditStep(e, x, y),
           NEW i \in 1..Len(x), NEW j \in 1..Len(y), x[i] = y[j]
    PROVE  Anchors(x, y, i, j, e)
<1>1. PICK s, k, m \in Nat : Splice(e, x, y, s, k, m)
  BY DEF EditStep
<1>2. Len(x) \in Nat /\ Len(y) \in Nat /\ i - 1 \in 0..Len(x) /\ i \in 0..Len(x) /\ i \in Nat /\ j \in Nat
  BY RuneWidths
<1>3. s + k <= Len(x) /\ s \in 0..Len(x) /\ s + k \in 0..Len(x) /\ Starts(x)[s] = e.start
      /\ Starts(x)[s + k] = e.start + e.old
  <2>1. s + k <= Len(x) /\ Starts(x)[s] = e.start /\ Starts(x)[s + k] = e.start + e.old
    BY <1>1 DEF Splice
  <2>. QED  BY <1>2, <2>1
<1>4. FrontStays(x, y, s) /\ BackMoves(e, x, s + k, y, s + m)
  BY <1>1, SpliceStarts
<1>5. PICK a, b, c \in Nat : a = e.start /\ b = e.old /\ c = e.new
  BY DEF Edit
<1>6. PICK u, v \in Nat : u = Starts(x)[i - 1] /\ v = Starts(x)[i] /\ u < v
  <2>1. Starts(x)[i - 1] \in Nat /\ Starts(x)[i] \in Nat /\ (i - 1 < i => Starts(x)[i - 1] < Starts(x)[i])
    BY <1>2, StartsGrow
  <2>. QED  BY <1>2, <2>1
<1>7. \/ i <= s /\ j = i
      \/ i > s + k /\ j > s + m /\ i - (s + k) = j - (s + m)
  BY <1>1, SpliceRunes
<1>8. CASE i <= s /\ j = i
  <2>1. Starts(y)[i] = v /\ Starts(y)[i - 1] = u
    <3>1. i \in 0..s /\ i - 1 \in 0..s
      BY <1>2, <1>8
    <3>. QED  BY <1>4, <1>6, <3>1 DEF FrontStays
  <2>2. v <= a
    <3>1. i <= s <=> Starts(x)[i] <= Starts(x)[s]
      BY <1>2, <1>3, StartsGrow
    <3>. QED  BY <1>3, <1>5, <1>6, <1>8, <3>1
  <2>3. transformOffset(u, "after", e) = u
    BY <1>5, <1>6, <2>2 DEF transformOffset
  <2>4. transformOffset(v, "before", e) = v
    BY <1>5, <1>6, <2>2 DEF transformOffset
  <2>. QED  BY <1>6, <1>8, <2>1, <2>3, <2>4 DEF Anchors
<1>9. CASE i > s + k /\ j > s + m /\ i - (s + k) = j - (s + m)
  <2>1. PICK n \in 1..(Len(x) - (s + k)) : i = (s + k) + n /\ j = (s + m) + n
                 /\ i - 1 = (s + k) + (n - 1) /\ j - 1 = (s + m) + (n - 1)
    <3>. DEFINE n == i - (s + k)
    <3>1. n \in 1..(Len(x) - (s + k)) /\ i = (s + k) + n /\ j = (s + m) + n
          /\ i - 1 = (s + k) + (n - 1) /\ j - 1 = (s + m) + (n - 1)
      BY <1>2, <1>3, <1>9
    <3>. HIDE DEF n
    <3>. QED  BY <3>1
  <2>2. Starts(y)[j] = v - b + c /\ Starts(y)[j - 1] = u - b + c
    <3>1. n \in 0..(Len(x) - (s + k)) /\ n - 1 \in 0..(Len(x) - (s + k))
      BY <1>2, <1>3, <2>1
    <3>. QED  BY <1>4, <1>5, <1>6, <2>1, <3>1 DEF BackMoves
  <2>3. a + b <= u
    <3>1. s + k <= i - 1 <=> Starts(x)[s + k] <= Starts(x)[i - 1]
      BY <1>2, <1>3, StartsGrow
    <3>2. s + k <= i - 1
      BY <1>2, <1>9
    <3>. QED  BY <1>3, <1>5, <1>6, <3>1, <3>2
  <2>4. transformOffset(u, "after", e) = u - b + c
    <3>1. transformOffset(u, "after", e) =
            IF u < a THEN u ELSE IF u = a \/ u < a + b THEN a + c ELSE u - b + c
      BY <1>5 DEF transformOffset
    <3>. QED  BY <2>3, <3>1
  <2>5. transformOffset(v, "before", e) = v - b + c
    <3>1. transformOffset(v, "before", e) =
            IF v < a THEN v ELSE IF v = a \/ v < a + b THEN a + 0 ELSE v - b + c
      BY <1>5 DEF transformOffset
    <3>2. ~(v < a) /\ v # a /\ ~(v < a + b)
      BY <1>6, <2>3
    <3>. QED  BY <3>1, <3>2
  <2>. QED  BY <1>6, <2>2, <2>4, <2>5 DEF Anchors
<1>. QED  BY <1>7, <1>8, <1>9

\* Anchors never overtake one another.
LEMMA StepMonotone ==
    ASSUME NEW e \in Edit, NEW p \in Int, NEW q \in Int, p <= q
    PROVE  /\ transformOffset(p, "before", e) <= transformOffset(q, "before", e)
           /\ transformOffset(p, "after", e) <= transformOffset(q, "after", e)
           /\ transformOffset(p, "before", e) <= transformOffset(q, "after", e)
<1>1. PICK a, b, c \in Nat : a = e.start /\ b = e.old /\ c = e.new
  BY DEF Edit
<1>2. ASSUME NEW o \in Int
      PROVE  /\ transformOffset(o, "before", e) =
                  IF o < a THEN o ELSE IF o = a \/ o < a + b THEN a + 0 ELSE o - b + c
             /\ transformOffset(o, "after", e) =
                  IF o < a THEN o ELSE IF o = a \/ o < a + b THEN a + c ELSE o - b + c
  BY <1>1 DEF transformOffset
<1>3. transformOffset(p, "before", e) <= transformOffset(q, "before", e)
  BY <1>2
<1>4. transformOffset(p, "after", e) <= transformOffset(q, "after", e)
  BY <1>2
<1>5. transformOffset(p, "before", e) <= transformOffset(q, "after", e)
  BY <1>2
<1>. QED  BY <1>3, <1>4, <1>5

AffinitiesInOrder == {<<"before", "before">>, <<"after", "after">>, <<"before", "after">>}

LEMMA TransformMonotone ==
    ASSUME NEW m, m.edits \in Seq(Edit), NEW p \in Int, NEW q \in Int, p <= q,
           NEW f, NEW g, <<f, g>> \in AffinitiesInOrder
    PROVE  /\ Transform(m, p, f) \in Int /\ Transform(m, q, g) \in Int
           /\ Transform(m, p, f) <= Transform(m, q, g)
<1>. DEFINE n == Len(m.edits)
<1>1. n \in Nat /\ \A i \in 1..n : m.edits[i] \in Edit
  BY LenProperties
<1>2. PICK at \in [0..n -> Int] : Carried(at, m.edits, p, f) /\ Transform(m, p, f) = at[n]
  BY TransformUnfold
<1>3. PICK to \in [0..n -> Int] : Carried(to, m.edits, q, g) /\ Transform(m, q, g) = to[n]
  BY TransformUnfold
<1>4. \/ f = "before" /\ g = "before"
      \/ f = "after" /\ g = "after"
      \/ f = "before" /\ g = "after"
  BY DEF AffinitiesInOrder
<1>. DEFINE Done == {k \in Nat : k <= n => at[k] <= to[k]}
<1>5. 0 \in Done
  BY <1>2, <1>3 DEF Carried
<1>6. ASSUME NEW k \in Nat, k \in Done PROVE k + 1 \in Done
  <2>. SUFFICES ASSUME k + 1 <= n PROVE at[k + 1] <= to[k + 1]
    OBVIOUS
  <2>1. PICK l \in 1..n : l = k + 1 /\ l - 1 = k
    <3>1. k + 1 \in 1..n /\ (k + 1) - 1 = k
      BY <1>1
    <3>. QED  BY <3>1
  <2>2. at[k] \in Int /\ to[k] \in Int /\ at[k] <= to[k]
    <3>1. k \in 0..n /\ k <= n
      BY <1>1
    <3>2. at[k] \in Int /\ to[k] \in Int
      BY <1>2, <1>3, <3>1
    <3>3. at[k] <= to[k]
      BY <1>6, <3>1
    <3>. QED  BY <3>2, <3>3
  <2>3. at[l] = transformOffset(at[k], f, m.edits[l]) /\ to[l] = transformOffset(to[k], g, m.edits[l])
    BY <1>2, <1>3, <2>1 DEF Carried
  <2>4. m.edits[l] \in Edit
    BY <1>1
  <2>5. transformOffset(at[k], f, m.edits[l]) <= transformOffset(to[k], g, m.edits[l])
    BY <1>4, <2>2, <2>4, StepMonotone
  <2>. QED  BY <2>1, <2>3, <2>5
<1>7. \A k \in Nat : k \in Done
  <2>. HIDE DEF Done
  <2>. QED  BY <1>5, <1>6, SetInduction
<1>8. at[n] <= to[n] /\ at[n] \in Int /\ to[n] \in Int
  <2>1. n \in 0..n
    BY <1>1
  <2>. QED  BY <1>1, <1>2, <1>3, <1>7, <2>1
<1>. QED  BY <1>2, <1>3, <1>8

-----------------------------------------------------------------------------
\* A run of edits

\* The edits lead from c[0] over c[1], c[2], ... to the last document; a rune of
\* the first that is in the last was there all the time.
Track(c, edits) ==
    /\ edits \in Seq(Edit) /\ c \in [0..Len(edits) -> Docs]
    /\ \A i \in 1..Len(edits) : EditStep(edits[i], c[i - 1], c[i])
    /\ \A i \in 0..Len(edits) :
          /\ Distinct(c[i])
          /\ RuneSet(c[0]) \cap RuneSet(c[Len(edits)]) \subseteq RuneSet(c[i])

LEMMA TrackTypes ==
    ASSUME NEW c, NEW edits, Track(c, edits)
    PROVE  /\ Len(edits) \in Nat /\ \A i \in 1..Len(edits) : edits[i] \in Edit
           /\ \A i \in 0..Len(edits) : c[i] \in Docs
           /\ c[0] \in Docs /\ c[Len(edits)] \in Docs
<1>1. Len(edits) \in Nat /\ \A i \in 1..Len(edits) : edits[i] \in Edit
  BY LenProperties DEF Track
<1>2. \A i \in 0..Len(edits) : c[i] \in Docs
  BY DEF Track
<1>3. 0 \in 0..Len(edits) /\ Len(edits) \in 0..Len(edits)
  BY <1>1
<1>. QED  BY <1>1, <1>2, <1>3

\* The lengths of a map are those of its documents.
LEMMA TrackLengths ==
    ASSUME NEW c, NEW edits, Track(c, edits)
    PROVE  Lengths(ByteLength(c[0]), edits)[Len(edits)] = ByteLength(c[Len(edits)])
<1>. DEFINE n == Len(edits)
            l == Lengths(ByteLength(c[0]), edits)
            Done == {k \in Nat : k <= n => l[k] = ByteLength(c[k])}
<1>1. n \in Nat /\ (\A i \in 1..n : edits[i] \in Edit) /\ (\A i \in 0..n : c[i] \in Docs)
  BY TrackTypes
<1>2. /\ l[0] = ByteLength(c[0])
      /\ \A i \in 1..n : l[i] = l[i - 1] - edits[i].old + edits[i].new
  <2>1. ByteLength(c[0]) \in Int
    <3>1. c[0] \in Docs
      BY TrackTypes
    <3>2. Starts(c[0]) \in [0..Len(c[0]) -> Nat] /\ Len(c[0]) \in 0..Len(c[0])
      BY <3>1, StartsUnfold, RuneWidths
    <3>. QED  BY <3>2 DEF ByteLength
  <2>2. edits \in Seq(Edit)
    BY DEF Track
  <2>. QED  BY <2>1, <2>2, LengthsUnfold
<1>. HIDE DEF l
<1>3. 0 \in Done
  BY <1>2
<1>4. ASSUME NEW k \in Nat, k \in Done PROVE k + 1 \in Done
  <2>. SUFFICES ASSUME k + 1 <= n PROVE l[k + 1] = ByteLength(c[k + 1])
    OBVIOUS
  <2>1. PICK i \in 1..n : i = k + 1 /\ i - 1 = k
    <3>1. k + 1 \in 1..n /\ (k + 1) - 1 = k
      BY <1>1
    <3>. QED  BY <3>1
  <2>2. i \in 0..n /\ k \in 0..n
    BY <1>1, <2>1
  <2>3. EditStep(edits[i], c[k], c[i])
    BY <2>1 DEF Track
  <2>4. ByteLength(c[i]) = ByteLength(c[k]) - edits[i].old + edits[i].new
    BY <1>1, <2>2, <2>3, StepLength
  <2>5. l[i] = l[k] - edits[i].old + edits[i].new /\ l[k] = ByteLength(c[k])
    BY <1>1, <1>2, <1>4, <2>1
  <2>. QED  BY <2>1, <2>4, <2>5
<1>5. \A k \in Nat : k \in Done
  <2>. HIDE DEF Done
  <2>. QED  BY <1>3, <1>4, SetInduction
<1>. QED  BY <1>1, <1>5 DEF l

\* Both kinds of anchors follow a rune through all the edits.
Follows(m, x, y, i, j) ==
    /\ Transform(m, Starts(x)[i - 1], "after") = Starts(y)[j - 1]
    /\ Transform(m, Starts(x)[i], "before") = Starts(y)[j]

LEMMA TrackFollows ==
    ASSUME NEW c, NEW m, Track(c, m.edits),
           NEW i \in 1..Len(c[0]), NEW j \in 1..Len(c[Len(m.edits)]), c[0][i] = c[Len(m.edits)][j]
    PROVE  Follows(m, c[0], c[Len(m.edits)], i, j)
<1>. DEFINE n == Len(m.edits)
            z == c[0][i]
            Where(k, p, q) == \A l \in 1..Len(c[k]) : c[k][l] = z => p = Starts(c[k])[l - 1] /\ q = Starts(c[k])[l]
<1>1. n \in Nat /\ (\A k \in 1..n : m.edits[k] \in Edit) /\ (\A k \in 0..n : c[k] \in Docs)
  BY TrackTypes
<1>2. Len(c[0]) \in Nat /\ Starts(c[0]) \in [0..Len(c[0]) -> Nat] /\ i - 1 \in 0..Len(c[0]) /\ i \in 0..Len(c[0])
  <2>1. c[0] \in Docs
    BY TrackTypes
  <2>2. Len(c[0]) \in Nat
    BY <2>1, RuneWidths
  <2>. QED  BY <2>1, <2>2, StartsUnfold
<1>3. Starts(c[0])[i - 1] \in Int /\ Starts(c[0])[i] \in Int
  <2>1. Starts(c[0])[i - 1] \in Nat /\ Starts(c[0])[i] \in Nat
    BY <1>2, Zenon
  <2>. QED  BY <2>1
<1>4. m.edits \in Seq(Edit)
  BY DEF Track
<1>5. PICK at \in [0..n -> Int] : /\ Carried(at, m.edits, Starts(c[0])[i - 1], "after")
                                  /\ Transform(m, Starts(c[0])[i - 1], "after") = at[n]
  BY <1>3, <1>4, TransformUnfold
<1>6. PICK to \in [0..n -> Int] : /\ Carried(to, m.edits, Starts(c[0])[i], "before")
                                  /\ Transform(m, Starts(c[0])[i], "before") = to[n]
  BY <1>3, <1>4, TransformUnfold
<1>7. \A k \in 0..n : \E l \in 1..Len(c[k]) : c[k][l] = z
  <2>1. z \in RuneSet(c[0]) \cap RuneSet(c[n])
    BY DEF RuneSet
  <2>2. \A k \in 0..n : z \in RuneSet(c[k])
    <3>1. \A k \in 0..n : RuneSet(c[0]) \cap RuneSet(c[n]) \subseteq RuneSet(c[k])
      BY DEF Track
    <3>. HIDE DEF z, n
    <3>. QED  BY <2>1, <3>1
  <2>3. ASSUME NEW k \in 0..n PROVE \E l \in 1..Len(c[k]) : c[k][l] = z
    <3>1. z \in {c[k][l] : l \in 1..Len(c[k])}
      BY <2>2 DEF RuneSet
    <3>. HIDE DEF z
    <3>. QED  BY <3>1
  <2>. QED  BY <2>3
<1>. DEFINE Done == {k \in Nat : k <= n => Where(k, at[k], to[k])}
<1>8. 0 \in Done
  <2>. SUFFICES ASSUME NEW l \in 1..Len(c[0]), c[0][l] = z
                PROVE  at[0] = Starts(c[0])[l - 1] /\ to[0] = Starts(c[0])[l]
    OBVIOUS
  <2>1. l = i
    <3>1. Distinct(c[0])
      <4>1. 0 \in 0..n
        BY <1>1
      <4>. QED  BY <4>1 DEF Track
    <3>. QED  BY <3>1 DEF Distinct
  <2>. QED  BY <1>5, <1>6, <2>1 DEF Carried
<1>9. ASSUME NEW k \in Nat, k \in Done PROVE k + 1 \in Done
  <2>. SUFFICES ASSUME k + 1 <= n PROVE Where(k + 1, at[k + 1], to[k + 1])
    <3>. HIDE DEF Where
    <3>. QED  OBVIOUS
  <2>1. PICK r \in 1..n : r = k + 1 /\ r - 1 = k
    <3>1. k + 1 \in 1..n /\ (k + 1) - 1 = k
      BY <1>1
    <3>. QED  BY <3>1
  <2>2. r \in 0..n /\ k \in 0..n
    BY <1>1, <2>1
  <2>. SUFFICES ASSUME NEW l \in 1..Len(c[r]), c[r][l] = z
                PROVE  at[r] = Starts(c[r])[l - 1] /\ to[r] = Starts(c[r])[l]
    BY <2>1
  <2>3. PICK h \in 1..Len(c[k]) : c[k][h] = z
    BY <1>7, <2>2
  <2>4. at[k] = Starts(c[k])[h - 1] /\ to[k] = Starts(c[k])[h]
    <3>1. Where(k, at[k], to[k])
      <4>. HIDE DEF Where
      <4>. QED  BY <1>1, <1>9, <2>2
    <3>. QED  BY <2>3, <3>1
  <2>5. at[r] = transformOffset(at[k], "after", m.edits[r]) /\ to[r] = transformOffset(to[k], "before", m.edits[r])
    BY <1>5, <1>6, <2>1 DEF Carried
  <2>6. EditStep(m.edits[r], c[k], c[r]) /\ Distinct(c[r])
    BY <2>1, <2>2 DEF Track
  <2>7. m.edits[r] \in Edit /\ c[k] \in Docs /\ c[r] \in Docs /\ c[k][h] = c[r][l]
    BY <1>1, <2>2, <2>3
  <2>. HIDE DEF z, Where, Done
  <2>8. Anchors(c[k], c[r], h, l, m.edits[r])
    BY <2>6, <2>7, OneStep
  <2>. QED  BY <2>4, <2>5, <2>8 DEF Anchors
<1>10. \A k \in Nat : k \in Done
  <2>. HIDE DEF Done
  <2>. QED  BY <1>8, <1>9, SetInduction
<1>11. Where(n, at[n], to[n])
  <2>1. n \in Done /\ n <= n
    <3>. HIDE DEF Done
    <3>. QED  BY <1>1, <1>10
  <2>. HIDE DEF Where
  <2>. QED  BY <2>1
<1>. QED  BY <1>5, <1>6, <1>11 DEF Follows

\* A range keeps the runes of it that stay.
LEMMA TrackRanges ==
    ASSUME NEW c, NEW m, Track(c, m.edits), NEW d, NEW e, d = c[0], e = c[Len(m.edits)],
           NEW a \in 0..Len(d), NEW b \in a..Len(d)
    PROVE  RangeFollows(m, d, e, Starts(d), Starts(e), a, b)
<1>. DEFINE from == Starts(d)
            to == Starts(e)
            kept == {j \in 1..Len(e) : \E i \in (a + 1)..b : d[i] = e[j]}
<1>1. d \in Docs /\ e \in Docs /\ m.edits \in Seq(Edit)
  BY TrackTypes DEF Track
<1>2. /\ Len(d) \in Nat /\ from \in [0..Len(d) -> Nat]
      /\ Len(e) \in Nat /\ to \in [0..Len(e) -> Nat]
  BY <1>1, RuneWidths, StartsUnfold
<1>3. a \in 0..Len(d) /\ b \in 0..Len(d) /\ a <= b /\ a \in Nat /\ b \in Nat
  BY <1>2
<1>4. from[a] <= from[b] /\ from[a] \in Nat /\ from[b] \in Nat
  BY <1>1, <1>3, StartsGrow
<1>6. ASSUME NEW f, NEW g, Transform(m, from[a], f) <= Transform(m, from[b], g),
             Transform(m, from[a], f) \in Int, Transform(m, from[b], g) \in Int
      PROVE  /\ "error" \notin DOMAIN TransformRange(m, from[a], f, from[b], g)
             /\ TransformRange(m, from[a], f, from[b], g).start = Transform(m, from[a], f)
             /\ TransformRange(m, from[a], f, from[b], g).end = Transform(m, from[b], g)
  <2>1. ~(Transform(m, from[a], f) > Transform(m, from[b], g))
    BY <1>6
  <2>2. TransformRange(m, from[a], f, from[b], g) =
          [start |-> Transform(m, from[a], f), end |-> Transform(m, from[b], g)]
    BY <2>1 DEF TransformRange
  <2>. QED  BY <2>2
<1>7. "error" \notin DOMAIN TransformRange(m, from[a], "before", from[b], "after")
  <2>1. <<"before", "after">> \in AffinitiesInOrder
    BY DEF AffinitiesInOrder
  <2>2. /\ Transform(m, from[a], "before") <= Transform(m, from[b], "after")
        /\ Transform(m, from[a], "before") \in Int /\ Transform(m, from[b], "after") \in Int
    <3>1. PICK p, q \in Int : p = from[a] /\ q = from[b] /\ p <= q
      BY <1>4
    <3>2. /\ Transform(m, p, "before") \in Int /\ Transform(m, q, "after") \in Int
          /\ Transform(m, p, "before") <= Transform(m, q, "after")
      BY <1>1, <2>1, <3>1, TransformMonotone
    <3>. HIDE DEF from
    <3>. QED  BY <3>1, <3>2
  <2>. HIDE DEF from
  <2>. QED  BY <1>6, <2>2
<1>8. ASSUME kept # {}
      PROVE  LET tight == TransformRange(m, from[a], "after", from[b], "before")
             IN  /\ "error" \notin DOMAIN tight
                 /\ tight.start <= to[Min(kept) - 1]
                 /\ tight.end >= to[Max(kept)]
  <2>1. kept \in SUBSET Nat /\ kept \in SUBSET Int /\ IsFiniteSet(kept)
    <3>1. kept \subseteq 1..Len(e)
      OBVIOUS
    <3>2. IsFiniteSet(1..Len(e))
      BY <1>2, FS_Interval
    <3>. HIDE DEF kept
    <3>3. IsFiniteSet(kept)
      BY <3>1, <3>2, FS_Subset
    <3>. QED  BY <1>2, <3>1, <3>3
  <2>2. PICK low \in kept : low = Min(kept) /\ \A x \in kept : low <= x
    <3>. HIDE DEF kept
    <3>1. \E x \in kept : \A y \in kept : x <= y
      BY <1>8, <2>1, LeastOf
    <3>. QED  BY <3>1 DEF Min
  <2>3. PICK high \in kept : high = Max(kept)
    <3>. HIDE DEF kept
    <3>1. \E x \in kept : \A y \in kept : x >= y
      BY <1>8, <2>1, GreatestOf
    <3>. QED  BY <3>1 DEF Max
  <2>4. PICK i \in (a + 1)..b : d[i] = e[low]
    BY <2>2
  <2>5. PICK j \in (a + 1)..b : d[j] = e[high]
    BY <2>3
  <2>6. /\ i \in 1..Len(d) /\ j \in 1..Len(d) /\ low \in 1..Len(e) /\ high \in 1..Len(e)
        /\ i - 1 \in 0..Len(d) /\ a <= i - 1 /\ j \in 0..Len(d) /\ j <= b
        /\ low - 1 \in 0..Len(e) /\ high \in 0..Len(e) /\ low <= high
    <3>1. low \in 1..Len(e) /\ high \in 1..Len(e) /\ low <= high
      BY <2>2, <2>3
    <3>. HIDE DEF kept
    <3>. QED  BY <1>2, <1>3, <3>1
  <2>7. Follows(m, d, e, i, low) /\ Follows(m, d, e, j, high)
    BY <2>4, <2>5, <2>6, TrackFollows
  <2>. HIDE DEF kept
  <2>8. /\ Transform(m, from[i - 1], "after") = to[low - 1]
        /\ Transform(m, from[j], "before") = to[high]
    BY <2>7 DEF Follows
  <2>9. from[a] <= from[i - 1] /\ from[j] <= from[b] /\ from[i - 1] \in Nat /\ from[j] \in Nat
    <3>1. from[a] <= from[i - 1] /\ from[i - 1] \in Nat
      BY <1>1, <1>3, <2>6, StartsGrow
    <3>2. from[j] <= from[b] /\ from[j] \in Nat
      BY <1>1, <1>3, <2>6, StartsGrow
    <3>. QED  BY <3>1, <3>2
  <2>10. to[low - 1] <= to[high] /\ to[low - 1] \in Nat /\ to[high] \in Nat
    <3>1. low - 1 <= high
      BY <1>2, <2>6
    <3>. QED  BY <1>1, <2>6, <3>1, StartsGrow
  <2>11. <<"before", "before">> \in AffinitiesInOrder /\ <<"after", "after">> \in AffinitiesInOrder
    BY DEF AffinitiesInOrder
  <2>. HIDE DEF from, to
  <2>12. Transform(m, from[a], "after") <= to[low - 1] /\ Transform(m, from[a], "after") \in Int
    <3>1. /\ Transform(m, from[a], "after") \in Int
          /\ Transform(m, from[a], "after") <= Transform(m, from[i - 1], "after")
      <4>1. PICK p, q \in Int : p = from[a] /\ q = from[i - 1] /\ p <= q
        BY <1>4, <2>9
      <4>2. Transform(m, p, "after") \in Int /\ Transform(m, p, "after") <= Transform(m, q, "after")
        BY <1>1, <2>11, <4>1, TransformMonotone
      <4>. QED  BY <4>1, <4>2
    <3>. QED  BY <2>8, <3>1
  <2>13. Transform(m, from[b], "before") >= to[high] /\ Transform(m, from[b], "before") \in Int
    <3>1. /\ Transform(m, from[b], "before") \in Int
          /\ Transform(m, from[j], "before") <= Transform(m, from[b], "before")
      <4>1. PICK p, q \in Int : p = from[j] /\ q = from[b] /\ p <= q
        BY <1>4, <2>9
      <4>2. Transform(m, q, "before") \in Int /\ Transform(m, p, "before") <= Transform(m, q, "before")
        BY <1>1, <2>11, <4>1, TransformMonotone
      <4>. QED  BY <4>1, <4>2
    <3>. QED  BY <2>8, <2>10, <3>1
  <2>14. Transform(m, from[a], "after") <= Transform(m, from[b], "before")
    <3>1. PICK p, q, u, v \in Int : /\ p = Transform(m, from[a], "after") /\ q = to[low - 1]
                                    /\ u = to[high] /\ v = Transform(m, from[b], "before")
      BY <2>10, <2>12, <2>13
    <3>2. p <= q /\ q <= u /\ u <= v
      BY <2>10, <2>12, <2>13, <3>1
    <3>3. p <= v
      BY <3>2
    <3>. QED  BY <3>1, <3>3
  <2>15. /\ "error" \notin DOMAIN TransformRange(m, from[a], "after", from[b], "before")
         /\ TransformRange(m, from[a], "after", from[b], "before").start = Transform(m, from[a], "after")
         /\ TransformRange(m, from[a], "after", from[b], "before").end = Transform(m, from[b], "before")
    BY <1>6, <2>12, <2>13, <2>14
  <2>. QED  BY <2>2, <2>3, <2>12, <2>13, <2>15
<1>. QED  BY <1>7, <1>8 DEF RangeFollows

-----------------------------------------------------------------------------
\* The timeline

\* T[r] is the document and E[r] the edit of revision r, the inner revisions of
\* a batch included.
Timeline(T, E, hi) ==
    /\ T \in [StartRevision..hi -> Docs] /\ E \in [(StartRevision + 1)..hi -> Edit]
    /\ \A r \in (StartRevision + 1)..hi : EditStep(E[r], T[r - 1], T[r])
    /\ \A r \in StartRevision..hi : Distinct(T[r]) /\ Born(T[r], r)
    /\ \A a, b, c \in StartRevision..hi :
          a <= c /\ c <= b => RuneSet(T[a]) \cap RuneSet(T[b]) \subseteq RuneSet(T[c])

EditsOf(E, a, b) == [j \in 1..(b - a) |-> E[a + j]]

\* The change map between two revisions.
Slice(T, E, a, b) ==
    [beforeRevision |-> a, afterRevision |-> b,
     beforeLength |-> ByteLength(T[a]), afterLength |-> ByteLength(T[b]),
     edits |-> EditsOf(E, a, b)]

EditsAre(s, E, a, b) ==
    s \in Seq(Edit) /\ Len(s) = b - a /\ \A j \in 1..(b - a) : s[j] = E[a + j]

LEMMA EditsOfType ==
    ASSUME NEW T, NEW E, NEW hi \in Nat, Timeline(T, E, hi),
           NEW a \in StartRevision..hi, NEW b \in StartRevision..hi, a <= b
    PROVE  /\ EditsOf(E, a, b) \in Seq(Edit) /\ Len(EditsOf(E, a, b)) = b - a /\ b - a \in Nat
           /\ EditsAre(EditsOf(E, a, b), E, a, b)
<1>. DEFINE n == b - a
            s == EditsOf(E, a, b)
<1>1. StartRevision \in Nat
  BY HistoryAssumption
<1>2. n \in Nat
  BY <1>1
<1>3. ASSUME NEW j \in 1..n PROVE E[a + j] \in Edit
  <2>1. a + j \in (StartRevision + 1)..hi
    BY <1>1
  <2>. QED  BY <2>1 DEF Timeline
<1>4. s = [j \in 1..n |-> E[a + j]]
  BY DEF EditsOf
<1>. HIDE DEF s, n
<1>5. s \in [1..n -> Edit] /\ \A j \in 1..n : s[j] = E[a + j]
  BY <1>3, <1>4
<1>6. s \in Seq(Edit) /\ Len(s) = n
  BY <1>2, <1>5, SeqDef
<1>7. EditsAre(s, E, a, b)
  BY <1>5, <1>6 DEF EditsAre, n
<1>. QED  BY <1>2, <1>6, <1>7 DEF s, n

LEMMA TrackForward ==
    ASSUME NEW T, NEW E, NEW hi \in Nat, Timeline(T, E, hi),
           NEW a \in StartRevision..hi, NEW b \in StartRevision..hi, a <= b
    PROVE  Track([k \in 0..(b - a) |-> T[a + k]], EditsOf(E, a, b))
<1>. DEFINE n == b - a
            c == [k \in 0..n |-> T[a + k]]
            s == EditsOf(E, a, b)
<1>1. /\ s \in Seq(Edit) /\ Len(s) = n /\ n \in Nat
      /\ \A j \in 1..n : s[j] = E[a + j]
  <2>1. s \in Seq(Edit) /\ Len(s) = n /\ n \in Nat /\ EditsAre(s, E, a, b)
    BY EditsOfType
  <2>. HIDE DEF s
  <2>. QED  BY <2>1 DEF EditsAre
<1>2. StartRevision \in Nat /\ a \in Nat /\ b = a + n
  BY HistoryAssumption
<1>3. \A k \in 0..n : a + k \in StartRevision..hi /\ a <= a + k /\ a + k <= b
  BY <1>1, <1>2
<1>. HIDE DEF n, s
<1>4. c \in [0..n -> Docs] /\ \A k \in 0..n : c[k] = T[a + k]
  BY <1>3 DEF Timeline
<1>5. c[0] = T[a] /\ c[n] = T[b]
  <2>1. 0 \in 0..n /\ n \in 0..n /\ a + 0 = a
    BY <1>1, <1>2
  <2>. HIDE DEF c
  <2>. QED  BY <1>2, <1>4, <2>1
<1>. HIDE DEF c
<1>6. ASSUME NEW i \in 1..n PROVE EditStep(s[i], c[i - 1], c[i])
  <2>1. i \in 0..n /\ i - 1 \in 0..n
    BY <1>1
  <2>2. a + i \in (StartRevision + 1)..hi /\ a + (i - 1) = (a + i) - 1
    BY <1>1, <1>2, <1>3, <2>1
  <2>3. c[i] = T[a + i] /\ c[i - 1] = T[(a + i) - 1] /\ s[i] = E[a + i]
    BY <1>1, <1>4, <2>1, <2>2
  <2>4. EditStep(E[a + i], T[(a + i) - 1], T[a + i])
    BY <2>2 DEF Timeline
  <2>. QED  BY <2>3, <2>4
<1>7. ASSUME NEW i \in 0..n
      PROVE  Distinct(c[i]) /\ RuneSet(c[0]) \cap RuneSet(c[n]) \subseteq RuneSet(c[i])
  <2>1. PICK r \in StartRevision..hi : r = a + i /\ a <= r /\ r <= b
    BY <1>3
  <2>2. Distinct(T[r]) /\ RuneSet(T[a]) \cap RuneSet(T[b]) \subseteq RuneSet(T[r])
    BY <2>1 DEF Timeline
  <2>. QED  BY <1>4, <1>5, <2>1, <2>2
<1>8. Track(c, s)
  BY <1>1, <1>4, <1>6, <1>7 DEF Track
<1>. QED  BY <1>8 DEF c, s, n

LEMMA TrackBack ==
    ASSUME NEW T, NEW E, NEW hi \in Nat, Timeline(T, E, hi),
           NEW a \in StartRevision..hi, NEW b \in StartRevision..hi, a <= b
    PROVE  Track([k \in 0..(b - a) |-> T[b - k]], Invert(Slice(T, E, a, b)).edits)
<1>. DEFINE n == b - a
            c == [k \in 0..n |-> T[b - k]]
            u == EditsOf(E, a, b)
            s == Invert(Slice(T, E, a, b)).edits
<1>1. /\ u \in Seq(Edit) /\ Len(u) = n /\ n \in Nat
      /\ \A j \in 1..n : u[j] = E[a + j] /\ E[a + j] \in Edit
  <2>1. u \in Seq(Edit) /\ Len(u) = n /\ n \in Nat /\ EditsAre(u, E, a, b)
    BY EditsOfType
  <2>. HIDE DEF u
  <2>2. \A j \in 1..n : u[j] = E[a + j]
    BY <2>1 DEF EditsAre
  <2>3. \A j \in 1..n : u[j] \in Edit
    <3>. HIDE DEF n
    <3>. QED  BY <2>1, LenProperties
  <2>. QED  BY <2>1, <2>2, <2>3
<1>2. StartRevision \in Nat /\ a \in Nat /\ b = a + n /\ b \in Nat
  BY HistoryAssumption
<1>3. \A k \in 0..n : b - k \in StartRevision..hi /\ a <= b - k /\ b - k <= b
  BY <1>1, <1>2
<1>4. s = [i \in 1..n |-> Turned(u[(n + 1) - i])]
  <2>1. Slice(T, E, a, b).edits = u
    BY DEF Slice
  <2>2. s = [i \in 1..Len(u) |-> [start |-> u[Len(u) + 1 - i].start, old |-> u[Len(u) + 1 - i].new,
                                   new |-> u[Len(u) + 1 - i].old]]
    <3>. HIDE DEF u
    <3>. QED  BY <2>1 DEF Invert
  <2>3. s = [i \in 1..n |-> [start |-> u[(n + 1) - i].start, old |-> u[(n + 1) - i].new,
                                   new |-> u[(n + 1) - i].old]]
    <3>. HIDE DEF u, s, n
    <3>. QED  BY <1>1, <2>2
  <2>. HIDE DEF u, s, n
  <2>. QED  BY <2>3 DEF Turned
<1>5. ASSUME NEW i \in 1..n PROVE s[i] = Turned(E[(b + 1) - i]) /\ E[(b + 1) - i] \in Edit
  <2>1. PICK j \in 1..n : j = (n + 1) - i /\ a + j = (b + 1) - i
    <3>1. (n + 1) - i \in 1..n /\ a + ((n + 1) - i) = (b + 1) - i
      BY <1>1, <1>2
    <3>. QED  BY <3>1
  <2>2. s[i] = Turned(u[j])
    <3>. HIDE DEF u, s, n
    <3>. QED  BY <1>4, <2>1
  <2>3. u[j] = E[a + j] /\ E[a + j] \in Edit
    BY <1>1
  <2>. HIDE DEF u, s, n
  <2>. QED  BY <2>1, <2>2, <2>3
<1>. HIDE DEF n, s, u
<1>6. s \in Seq(Edit) /\ Len(s) = n
  <2>1. s \in [1..n -> Edit]
    <3>1. \A i \in 1..n : s[i] \in Edit
      BY <1>5, TurnedType
    <3>. QED  BY <1>4, <3>1
  <2>. QED  BY <1>1, <2>1, SeqDef
<1>7. c \in [0..n -> Docs] /\ \A k \in 0..n : c[k] = T[b - k]
  BY <1>3 DEF Timeline
<1>8. c[0] = T[b] /\ c[n] = T[a]
  <2>1. 0 \in 0..n /\ n \in 0..n /\ b - 0 = b /\ b - n = a
    BY <1>1, <1>2
  <2>. HIDE DEF c
  <2>. QED  BY <1>7, <2>1
<1>. HIDE DEF c
<1>9. ASSUME NEW i \in 1..n PROVE EditStep(s[i], c[i - 1], c[i])
  <2>1. i \in 0..n /\ i - 1 \in 0..n
    BY <1>1
  <2>2. PICK r \in (StartRevision + 1)..hi : r = (b + 1) - i /\ b - (i - 1) = r /\ b - i = r - 1
    <3>1. (b + 1) - i \in (StartRevision + 1)..hi /\ b - (i - 1) = (b + 1) - i /\ b - i = ((b + 1) - i) - 1
      BY <1>1, <1>2
    <3>. QED  BY <3>1
  <2>3. c[i] = T[r - 1] /\ c[i - 1] = T[r]
    BY <1>7, <2>1, <2>2
  <2>4. s[i] = Turned(E[r]) /\ E[r] \in Edit
    BY <1>5, <2>2
  <2>5. r - 1 \in StartRevision..hi /\ r \in StartRevision..hi
    BY <1>2
  <2>6. EditStep(E[r], T[r - 1], T[r]) /\ T[r - 1] \in Docs /\ T[r] \in Docs
    BY <2>5 DEF Timeline
  <2>7. EditStep(Turned(E[r]), T[r], T[r - 1])
    BY <2>4, <2>6, SpliceBack
  <2>. QED  BY <2>3, <2>4, <2>7
<1>10. ASSUME NEW i \in 0..n
      PROVE  Distinct(c[i]) /\ RuneSet(c[0]) \cap RuneSet(c[n]) \subseteq RuneSet(c[i])
  <2>1. PICK r \in StartRevision..hi : r = b - i /\ a <= r /\ r <= b
    BY <1>3
  <2>2. Distinct(T[r]) /\ RuneSet(T[a]) \cap RuneSet(T[b]) \subseteq RuneSet(T[r])
    BY <2>1 DEF Timeline
  <2>. QED  BY <1>7, <1>8, <2>1, <2>2
<1>11. Track(c, s)
  BY <1>6, <1>7, <1>9, <1>10 DEF Track
<1>. QED  BY <1>11 DEF c, s, n

\* m is a map from the document of revision r to that of revision q.
Leads(m, T, r, q) ==
    /\ m \in Map
    /\ m.beforeRevision = r /\ m.afterRevision = q
    /\ m.beforeLength = ByteLength(T[r]) /\ m.afterLength = ByteLength(T[q])
    /\ \E c : Track(c, m.edits) /\ c[0] = T[r] /\ c[Len(m.edits)] = T[q]

LEMMA ByteLengthType ==
    ASSUME NEW d \in Docs PROVE ByteLength(d) \in Nat
<1>1. Starts(d) \in [0..Len(d) -> Nat] /\ Len(d) \in 0..Len(d)
  BY StartsUnfold, RuneWidths
<1>. QED  BY <1>1 DEF ByteLength

LEMMA SliceLeads ==
    ASSUME NEW T, NEW E, NEW hi \in Nat, Timeline(T, E, hi),
           NEW a \in StartRevision..hi, NEW b \in StartRevision..hi, a <= b
    PROVE  Leads(Slice(T, E, a, b), T, a, b) /\ Leads(Invert(Slice(T, E, a, b)), T, b, a)
<1>. DEFINE m == Slice(T, E, a, b)
            w == Invert(m)
            n == b - a
            c == [k \in 0..n |-> T[a + k]]
            d == [k \in 0..n |-> T[b - k]]
<1>1. a \in Nat /\ b \in Nat /\ n \in Nat /\ a + n = b /\ b - n = a /\ a + 0 = a /\ b - 0 = b
  BY HistoryAssumption
<1>2. ByteLength(T[a]) \in Nat /\ ByteLength(T[b]) \in Nat
  BY ByteLengthType DEF Timeline
<1>3. m.edits = EditsOf(E, a, b) /\ m.beforeRevision = a /\ m.afterRevision = b
      /\ m.beforeLength = ByteLength(T[a]) /\ m.afterLength = ByteLength(T[b])
  BY DEF Slice
<1>4. EditsOf(E, a, b) \in Seq(Edit) /\ Len(EditsOf(E, a, b)) = n
  BY EditsOfType
<1>5. m \in Map
  <2>. HIDE DEF n
  <2>. QED  BY <1>1, <1>2, <1>4 DEF Slice, Map
<1>6. Track(c, m.edits) /\ Track(d, w.edits)
  BY <1>3, TrackForward, TrackBack
<1>7. c[0] = T[a] /\ c[n] = T[b] /\ d[0] = T[b] /\ d[n] = T[a]
  <2>1. 0 \in 0..n /\ n \in 0..n
    BY <1>1
  <2>2. c[0] = T[a + 0] /\ c[n] = T[a + n] /\ d[0] = T[b - 0] /\ d[n] = T[b - n]
    <3>. HIDE DEF n
    <3>. QED  BY <2>1
  <2>. HIDE DEF c, d
  <2>. QED  BY <1>1, <2>2
<1>. HIDE DEF m, c, d, n
<1>8. w.beforeRevision = b /\ w.afterRevision = a
      /\ w.beforeLength = ByteLength(T[b]) /\ w.afterLength = ByteLength(T[a])
  BY <1>3 DEF Invert
<1>9. w.edits \in Seq(Edit) /\ Len(w.edits) = n
  <2>1. w.edits \in Seq(Edit)
    BY <1>6 DEF Track
  <2>2. w.edits = [i \in 1..Len(m.edits) |->
                     LET e == m.edits[Len(m.edits) + 1 - i]
                     IN  [start |-> e.start, old |-> e.new, new |-> e.old]]
    BY DEF Invert
  <2>3. Len(m.edits) = n
    BY <1>3, <1>4
  <2>4. DOMAIN w.edits = 1..n
    BY <2>2, <2>3
  <2>. HIDE DEF w
  <2>5. DOMAIN w.edits = 1..Len(w.edits) /\ Len(w.edits) \in Nat
    BY <2>1, LenProperties
  <2>. QED  BY <1>1, <2>1, <2>4, <2>5
<1>10. w \in Map
  <2>1. w = [beforeRevision |-> w.beforeRevision, afterRevision |-> w.afterRevision,
             beforeLength |-> w.beforeLength, afterLength |-> w.afterLength, edits |-> w.edits]
    BY DEF Invert
  <2>. HIDE DEF w
  <2>. QED  BY <1>1, <1>2, <1>8, <1>9, <2>1 DEF Map
<1>. HIDE DEF w
<1>11. Leads(m, T, a, b)
  <2>1. Len(m.edits) = n
    BY <1>3, <1>4
  <2>. QED  BY <1>3, <1>5, <1>6, <1>7, <2>1 DEF Leads
<1>12. Leads(w, T, b, a)
  BY <1>6, <1>7, <1>8, <1>9, <1>10 DEF Leads
<1>. QED  BY <1>11, <1>12 DEF m, w

\* What a map that leads from one document to another is good for.
LEMMA LeadsExact ==
    ASSUME NEW m, NEW T, NEW r, NEW q, Leads(m, T, r, q)
    PROVE  /\ "error" \notin DOMAIN m
           /\ Lengths(m.beforeLength, m.edits)[Len(m.edits)] = m.afterLength
           /\ \A i \in 1..Len(T[r]), j \in 1..Len(T[q]) :
                 T[r][i] = T[q][j] => Follows(m, T[r], T[q], i, j)
           /\ \A a \in 0..Len(T[r]) : \A b \in a..Len(T[r]) :
                 RangeFollows(m, T[r], T[q], Starts(T[r]), Starts(T[q]), a, b)
<1>1. PICK c : Track(c, m.edits) /\ c[0] = T[r] /\ c[Len(m.edits)] = T[q]
  BY DEF Leads
<1>2. "error" \notin DOMAIN m
  BY DEF Leads, Map
<1>3. Lengths(m.beforeLength, m.edits)[Len(m.edits)] = m.afterLength
  BY <1>1, TrackLengths DEF Leads
<1>4. ASSUME NEW i \in 1..Len(T[r]), NEW j \in 1..Len(T[q]), T[r][i] = T[q][j]
      PROVE  Follows(m, T[r], T[q], i, j)
  BY <1>1, <1>4, TrackFollows
<1>5. ASSUME NEW a \in 0..Len(T[r]), NEW b \in a..Len(T[r])
      PROVE  RangeFollows(m, T[r], T[q], Starts(T[r]), Starts(T[q]), a, b)
  BY <1>1, TrackRanges
<1>. QED  BY <1>2, <1>3, <1>4, <1>5

-----------------------------------------------------------------------------
\* The ring

Rings == [entries : [0..(Limit - 1) -> Map \cup {None}], start : 0..(Limit - 1), count : 0..Limit,
          baseRevision : Nat, baseLength : Nat, currentRevision : Nat, currentLength : Nat]

\* The retained boundaries, the oldest first.
Mark(h, i) == IF i = 0 THEN h.baseRevision ELSE entry(h, i - 1).afterRevision

\* The maps of the ring are the slices between its boundaries.
Ring(h, T, E) ==
    /\ h \in Rings
    /\ \A i \in 0..h.count : Mark(h, i) \in StartRevision..h.currentRevision
    /\ \A i \in 0..(h.count - 1) :
          /\ Mark(h, i) < Mark(h, i + 1) /\ Mark(h, i + 1) <= Mark(h, i) + MaxBatchOperations
          /\ entry(h, i) = Slice(T, E, Mark(h, i), Mark(h, i + 1))
    /\ Mark(h, h.count) = h.currentRevision
    /\ h.baseLength = ByteLength(T[h.baseRevision])
    /\ h.currentLength = ByteLength(T[h.currentRevision])

\* A position of the ring wraps at most once.
LEMMA WrapOnce ==
    ASSUME NEW n \in Nat \ {0}, NEW a \in 0..(n - 1), NEW b \in 0..n
    PROVE  (a + b) % n = IF a + b < n THEN a + b ELSE (a + b) - n
<1>1. CASE a + b < n
  BY <1>1, SMTT(30)
<1>2. CASE ~(a + b < n)
  <2>1. (a + b) - n \in 0..(n - 1)
    BY <1>2
  <2>2. a + b = n * 1 + ((a + b) - n)
    BY SMT
  <2>. QED  BY <1>2, <2>1, <2>2, SMTT(30)
<1>. QED  BY <1>1, <1>2

LEMMA RingTypes ==
    ASSUME NEW h \in Rings
    PROVE  /\ Limit \in Nat \ {0} /\ h.start \in 0..(Limit - 1) /\ h.count \in 0..Limit /\ h.count \in Nat
           /\ h.start \in Nat /\ h.baseRevision \in Nat /\ h.baseLength \in Nat
           /\ h.currentRevision \in Nat /\ h.currentLength \in Nat
           /\ h.entries \in [0..(Limit - 1) -> Map \cup {None}]
           /\ h = [entries |-> h.entries, start |-> h.start, count |-> h.count,
                   baseRevision |-> h.baseRevision, baseLength |-> h.baseLength,
                   currentRevision |-> h.currentRevision, currentLength |-> h.currentLength]
<1>1. Limit \in Nat \ {0}
  BY HistoryAssumption
<1>2. h.start \in 0..(Limit - 1) /\ h.count \in 0..Limit
  BY DEF Rings
<1>3. h.start \in Nat /\ h.count \in Nat
  BY <1>1, <1>2
<1>. QED  BY <1>1, <1>2, <1>3 DEF Rings

\* A boundary is named by its map; the oldest map goes with the oldest boundary.
Appended(h, change) ==
    [entries |-> [h.entries EXCEPT ![(h.start + h.count) % Limit] = change],
     start |-> IF h.count = Limit THEN (h.start + 1) % Limit ELSE h.start,
     count |-> IF h.count = Limit THEN Limit ELSE h.count + 1,
     baseRevision |-> IF h.count = Limit THEN entry(h, 0).afterRevision ELSE h.baseRevision,
     baseLength |-> IF h.count = Limit THEN entry(h, 0).afterLength ELSE h.baseLength,
     currentRevision |-> change.afterRevision, currentLength |-> change.afterLength]

LEMMA AppendIs ==
    ASSUME NEW h \in Rings, NEW change, ~Breaks(h, change)
    PROVE  append(h, change) = Appended(h, change)
<1>0. h = [entries |-> h.entries, start |-> h.start, count |-> h.count,
           baseRevision |-> h.baseRevision, baseLength |-> h.baseLength,
           currentRevision |-> h.currentRevision, currentLength |-> h.currentLength]
  BY RingTypes
<1>1. CASE h.count = Limit
  <2>1. (h.start + h.count) % Limit = h.start
    <3>1. (h.start + h.count) % Limit =
             IF h.start + h.count < Limit THEN h.start + h.count ELSE (h.start + h.count) - Limit
      BY RingTypes, WrapOnce
    <3>2. Limit \in Nat /\ h.start \in Nat /\ h.start < Limit
      BY RingTypes
    <3>. QED  BY <1>1, <3>1, <3>2
  <2>. DEFINE now == [h EXCEPT !.currentRevision = change.afterRevision,
                               !.currentLength = change.afterLength]
              old == entry(h, 0)
  <2>2. append(h, change) = [now EXCEPT !.baseRevision = old.afterRevision,
                                        !.baseLength = old.afterLength,
                                        !.entries[h.start] = change,
                                        !.start = (@ + 1) % Limit]
    BY <1>1 DEF append
  <2>3. now = [entries |-> h.entries, start |-> h.start, count |-> h.count,
               baseRevision |-> h.baseRevision, baseLength |-> h.baseLength,
               currentRevision |-> change.afterRevision, currentLength |-> change.afterLength]
    <3>1. now = [[h EXCEPT !.currentRevision = change.afterRevision]
                    EXCEPT !.currentLength = change.afterLength]
      OBVIOUS
    <3>2. [h EXCEPT !.currentRevision = change.afterRevision] =
              [entries |-> h.entries, start |-> h.start, count |-> h.count,
               baseRevision |-> h.baseRevision, baseLength |-> h.baseLength,
               currentRevision |-> change.afterRevision, currentLength |-> h.currentLength]
      BY <1>0
    <3>. HIDE DEF now
    <3>. QED  BY <3>1, <3>2
  <2>. HIDE DEF old, now
  <2>4. append(h, change) = [entries |-> [h.entries EXCEPT ![h.start] = change],
                             start |-> (h.start + 1) % Limit, count |-> h.count,
               baseRevision |-> old.afterRevision, baseLength |-> old.afterLength,
               currentRevision |-> change.afterRevision, currentLength |-> change.afterLength]
    BY <2>2, <2>3
  <2>. QED  BY <1>1, <2>1, <2>4 DEF Appended, old
<1>2. CASE h.count # Limit
  <2>. DEFINE now == [h EXCEPT !.currentRevision = change.afterRevision,
                               !.currentLength = change.afterLength]
  <2>2. append(h, change) = [now EXCEPT !.entries[(h.start + h.count) % Limit] = change,
                                        !.count = @ + 1]
    BY <1>2 DEF append
  <2>3. now = [entries |-> h.entries, start |-> h.start, count |-> h.count,
               baseRevision |-> h.baseRevision, baseLength |-> h.baseLength,
               currentRevision |-> change.afterRevision, currentLength |-> change.afterLength]
    <3>1. now = [[h EXCEPT !.currentRevision = change.afterRevision]
                    EXCEPT !.currentLength = change.afterLength]
      OBVIOUS
    <3>2. [h EXCEPT !.currentRevision = change.afterRevision] =
              [entries |-> h.entries, start |-> h.start, count |-> h.count,
               baseRevision |-> h.baseRevision, baseLength |-> h.baseLength,
               currentRevision |-> change.afterRevision, currentLength |-> h.currentLength]
      BY <1>0
    <3>. HIDE DEF now
    <3>. QED  BY <3>1, <3>2
  <2>. HIDE DEF now
  <2>4. append(h, change) = [entries |-> [h.entries EXCEPT ![(h.start + h.count) % Limit] = change],
                             start |-> h.start, count |-> h.count + 1,
               baseRevision |-> h.baseRevision, baseLength |-> h.baseLength,
               currentRevision |-> change.afterRevision, currentLength |-> change.afterLength]
    BY <2>2, <2>3
  <2>. QED  BY <1>2, <2>4 DEF Appended
<1>. QED  BY <1>1, <1>2

\* The maps of the extended ring: the old ones that are left, and the new one.
LEMMA AppendedEntries ==
    ASSUME NEW h \in Rings, NEW change
    PROVE  LET k == IF h.count = Limit THEN 1 ELSE 0
               n == Appended(h, change)
           IN  /\ \A i \in 0..(n.count - 2) : entry(n, i) = entry(h, i + k)
               /\ entry(n, n.count - 1) = change
               /\ n.count \in 1..Limit
<1>. DEFINE n == Appended(h, change)
<1>1. n.entries = [h.entries EXCEPT ![(h.start + h.count) % Limit] = change]
  BY DEF Appended
<1>2. DOMAIN h.entries = 0..(Limit - 1)
  BY RingTypes
<1>3. n.start = (IF h.count = Limit THEN (h.start + 1) % Limit ELSE h.start)
      /\ n.count = (IF h.count = Limit THEN Limit ELSE h.count + 1)
  BY DEF Appended
<1>. HIDE DEF n
<1>4. PICK s \in Nat, c \in Nat, l \in Nat \ {0} : s = h.start /\ c = h.count /\ l = Limit /\ s < l /\ c <= l
  BY RingTypes
<1>5. \A a \in 0..(l - 1), b \in 0..l : (a + b) % l = IF a + b < l THEN a + b ELSE (a + b) - l
  BY WrapOnce
<1>6. PICK w \in 0..(l - 1) : w = (h.start + h.count) % Limit /\ w = IF s + c < l THEN s + c ELSE (s + c) - l
  <2>1. (s + c) % l = IF s + c < l THEN s + c ELSE (s + c) - l
    <3>1. s \in 0..(l - 1) /\ c \in 0..l
      BY <1>4
    <3>. QED  BY <1>5, <3>1
  <2>2. (IF s + c < l THEN s + c ELSE (s + c) - l) \in 0..(l - 1)
    BY <1>4
  <2>. QED  BY <1>4, <2>1, <2>2
<1>7. n.entries[w] = change /\ \A x \in 0..(l - 1) : x # w => n.entries[x] = h.entries[x]
  <2>1. DOMAIN h.entries = 0..(l - 1) /\ n.entries = [h.entries EXCEPT ![w] = change]
    BY <1>1, <1>2, <1>4, <1>6
  <2>. QED  BY <2>1
<1>8. CASE h.count = Limit
  <2>1. c = l /\ w = s /\ n.count = l /\ n.start = (s + 1) % l
    BY <1>3, <1>4, <1>6, <1>8
  <2>2. PICK t \in 0..(l - 1) : t = n.start /\ t = IF s + 1 < l THEN s + 1 ELSE 0
    <3>0. s \in 0..(l - 1) /\ 1 \in 0..l
      BY <1>4
    <3>1. (s + 1) % l = IF s + 1 < l THEN s + 1 ELSE (s + 1) - l
      BY <1>5, <3>0
    <3>2. (s + 1) % l = IF s + 1 < l THEN s + 1 ELSE 0
      BY <1>4, <3>1
    <3>. QED  BY <2>1, <3>2, <1>4
  <2>3. ASSUME NEW i \in 0..(l - 1)
        PROVE  entry(n, i) = n.entries[IF t + i < l THEN t + i ELSE (t + i) - l]
    <3>1. i \in 0..l
      OBVIOUS
    <3>2. (t + i) % l = IF t + i < l THEN t + i ELSE (t + i) - l
      BY <1>5, <3>1
    <3>. QED  BY <1>4, <2>2, <3>2 DEF entry
  <2>4. ASSUME NEW i \in 0..(l - 2) PROVE entry(n, i) = entry(h, i + 1)
    <3>1. PICK x \in 0..(l - 1) : x = IF t + i < l THEN t + i ELSE (t + i) - l
      <4>1. (IF t + i < l THEN t + i ELSE (t + i) - l) \in 0..(l - 1)
        OBVIOUS
      <4>. QED  BY <4>1
    <3>2. x # s /\ x = IF s + (i + 1) < l THEN s + (i + 1) ELSE (s + (i + 1)) - l
      BY <1>4, <2>2, <3>1
    <3>3. (s + (i + 1)) % l = IF s + (i + 1) < l THEN s + (i + 1) ELSE (s + (i + 1)) - l
      <4>1. i + 1 \in 0..l /\ s \in 0..(l - 1)
        BY <1>4
      <4>. QED  BY <1>5, <4>1
    <3>4. entry(h, i + 1) = h.entries[x]
      BY <1>4, <3>2, <3>3 DEF entry
    <3>5. entry(n, i) = n.entries[x]
      <4>1. i \in 0..(l - 1)
        OBVIOUS
      <4>. QED  BY <2>3, <3>1, <4>1
    <3>. QED  BY <1>7, <2>1, <3>2, <3>4, <3>5
  <2>5. entry(n, l - 1) = change
    <3>1. l - 1 \in 0..(l - 1)
      OBVIOUS
    <3>2. (IF t + (l - 1) < l THEN t + (l - 1) ELSE (t + (l - 1)) - l) = s
      BY <1>4, <2>2
    <3>. QED  BY <1>7, <2>1, <2>3, <3>1, <3>2
  <2>. QED  BY <1>4, <1>8, <2>1, <2>4, <2>5 DEF n
<1>9. CASE h.count # Limit
  <2>1. c < l /\ n.count = c + 1 /\ n.start = s
    BY <1>3, <1>4, <1>9
  <2>2. ASSUME NEW i \in 0..c, NEW g, g.start = s
        PROVE  entry(g, i) = g.entries[IF s + i < l THEN s + i ELSE (s + i) - l]
    <3>1. (s + i) % l = IF s + i < l THEN s + i ELSE (s + i) - l
      <4>1. i \in 0..l /\ s \in 0..(l - 1)
        BY <1>4, <2>1
      <4>. QED  BY <1>5, <4>1
    <3>. QED  BY <1>4, <2>2, <3>1 DEF entry
  <2>3. ASSUME NEW i \in 0..(c - 1) PROVE entry(n, i) = entry(h, i)
    <3>1. PICK x \in 0..(l - 1) : x = IF s + i < l THEN s + i ELSE (s + i) - l
      BY <1>4, <2>1
    <3>2. x # w
      BY <1>4, <1>6, <2>1, <3>1
    <3>3. i \in 0..c
      OBVIOUS
    <3>. QED  BY <1>4, <1>7, <2>1, <2>2, <3>1, <3>2, <3>3
  <2>4. entry(n, c) = change
    BY <1>6, <1>7, <2>1, <2>2
  <2>5. (c + 1) - 2 = c - 1 /\ (c + 1) - 1 = c /\ \A i \in 0..(c - 1) : i + 0 = i
    OBVIOUS
  <2>. QED  BY <1>4, <1>9, <2>1, <2>3, <2>4, <2>5 DEF n
<1>. QED  BY <1>8, <1>9

LEMMA MarkTypes ==
    ASSUME NEW h, NEW T, NEW E, Ring(h, T, E)
    PROVE  /\ h \in Rings /\ h.count \in Nat /\ h.count <= Limit /\ Limit \in Nat
           /\ StartRevision \in Nat /\ h.currentRevision \in Nat
           /\ \A i \in 0..h.count : /\ Mark(h, i) \in Nat /\ Mark(h, i) \in StartRevision..h.currentRevision
           /\ h.baseRevision = Mark(h, 0) /\ h.currentRevision = Mark(h, h.count)
           /\ h.baseRevision \in StartRevision..h.currentRevision
<1>1. h \in Rings /\ StartRevision \in Nat
  BY HistoryAssumption DEF Ring
<1>2. h.count \in Nat /\ h.count <= Limit /\ Limit \in Nat /\ h.currentRevision \in Nat
  BY <1>1, RingTypes
<1>3. \A i \in 0..h.count : Mark(h, i) \in StartRevision..h.currentRevision
  BY DEF Ring
<1>4. \A i \in 0..h.count : Mark(h, i) \in Nat
  BY <1>1, <1>2, <1>3
<1>5. h.baseRevision = Mark(h, 0) /\ 0 \in 0..h.count
  BY <1>2 DEF Mark
<1>. QED  BY <1>1, <1>2, <1>3, <1>4, <1>5 DEF Ring

\* Boundaries rise, by no more than a batch at a time.
LEMMA MarksGrow ==
    ASSUME NEW h, NEW T, NEW E, Ring(h, T, E), NEW i \in 0..h.count, NEW j \in 0..h.count
    PROVE  /\ i < j => Mark(h, i) < Mark(h, j)
           /\ i <= j <=> Mark(h, i) <= Mark(h, j)
           /\ Mark(h, i) = Mark(h, j) => i = j
<1>. DEFINE n == h.count
            m == [k \in 0..n |-> Mark(h, k)]
            Done == {k \in Nat : k <= n => \A l \in 0..n : l < k => m[l] < m[k]}
<1>1. n \in Nat /\ \A k \in 0..n : Mark(h, k) \in Nat
  BY MarkTypes
<1>2. ASSUME NEW k \in 0..(n - 1) PROVE m[k] < m[k + 1]
  <2>1. k \in 0..n /\ k + 1 \in 0..n
    BY <1>1
  <2>2. Mark(h, k) < Mark(h, k + 1)
    BY DEF Ring
  <2>. QED  BY <2>1, <2>2
<1>3. \A k \in 0..n : m[k] \in Nat
  BY <1>1
<1>. HIDE DEF m
<1>4. 0 \in Done
  BY <1>1
<1>5. ASSUME NEW k \in Nat, k \in Done PROVE k + 1 \in Done
  <2>. SUFFICES ASSUME k + 1 <= n, NEW l \in 0..n, l < k + 1 PROVE m[l] < m[k + 1]
    OBVIOUS
  <2>1. k \in 0..(n - 1) /\ k \in 0..n /\ k + 1 \in 0..n
    BY <1>1
  <2>2. m[k] < m[k + 1] /\ m[k] \in Nat /\ m[k + 1] \in Nat /\ m[l] \in Nat
    BY <1>2, <1>3, <2>1
  <2>3. l = k \/ m[l] < m[k]
    BY <1>1, <1>5
  <2>. QED  BY <2>2, <2>3
<1>6. \A k \in Nat : k \in Done
  <2>. HIDE DEF Done
  <2>. QED  BY <1>4, <1>5, SetInduction
<1>7. m[i] \in Nat /\ m[j] \in Nat /\ (i < j => m[i] < m[j]) /\ (j < i => m[j] < m[i])
  BY <1>1, <1>3, <1>6
<1>8. m[i] = Mark(h, i) /\ m[j] = Mark(h, j) /\ i \in Int /\ j \in Int
  BY <1>1 DEF m
<1>. HIDE DEF Done
<1>. QED  BY <1>7, <1>8

LEMMA MarksBound ==
    ASSUME NEW h, NEW T, NEW E, Ring(h, T, E), NEW i \in 0..h.count, NEW j \in 0..h.count, i <= j
    PROVE  Mark(h, j) - Mark(h, i) <= MaximumEdits
<1>. DEFINE n == h.count
            B == MaxBatchOperations
            Done == {k \in Nat : k <= n => Mark(h, k) <= Mark(h, 0) + k * B}
<1>1. n \in Nat /\ n <= Limit /\ Limit \in Nat /\ B \in Nat /\ (\A k \in 0..n : Mark(h, k) \in Nat)
      /\ Limit * B <= MaximumEdits /\ MaximumEdits \in Nat
  BY MarkTypes, HistoryAssumption, MaximumEditsAssumption
<1>. HIDE DEF n, B
<1>2. 0 \in Done
  <2>1. 0 \in 0..n /\ 0 * B = 0
    BY <1>1
  <2>. QED  BY <1>1, <2>1
<1>3. ASSUME NEW k \in Nat, k \in Done PROVE k + 1 \in Done
  <2>. SUFFICES ASSUME k + 1 <= n PROVE Mark(h, k + 1) <= Mark(h, 0) + (k + 1) * B
    OBVIOUS
  <2>1. k \in 0..(n - 1) /\ k \in 0..n /\ k + 1 \in 0..n /\ 0 \in 0..n
    BY <1>1
  <2>2. PICK x, y, z \in Nat : x = Mark(h, k) /\ y = Mark(h, k + 1) /\ z = Mark(h, 0)
    BY <1>1, <2>1
  <2>3. y <= x + B
    BY <2>1, <2>2 DEF Ring, n, B
  <2>4. x <= z + k * B
    BY <1>1, <1>3, <2>2
  <2>5. PICK p \in Nat : p = k * B /\ (k + 1) * B = p + B
    <3>1. k * B \in Nat /\ (k + 1) * B = k * B + B
      BY <1>1
    <3>. QED  BY <3>1
  <2>6. x <= z + p
    BY <2>4, <2>5
  <2>7. y <= z + (p + B)
    BY <1>1, <2>3, <2>6
  <2>. QED  BY <2>2, <2>5, <2>7
<1>4. \A k \in Nat : k \in Done
  <2>. HIDE DEF Done
  <2>. QED  BY <1>2, <1>3, SetInduction
<1>5. PICK x, y, z \in Nat : x = Mark(h, i) /\ y = Mark(h, j) /\ z = Mark(h, 0) /\ z <= x
  <2>1. 0 \in 0..h.count /\ 0 <= i /\ h.count \in Nat
    BY <1>1 DEF n
  <2>2. 0 <= i <=> Mark(h, 0) <= Mark(h, i)
    BY <2>1, MarksGrow
  <2>. QED  BY <1>1, <2>1, <2>2 DEF n
<1>6. y <= z + j * B /\ j \in Nat /\ j <= Limit
  BY <1>1, <1>4, <1>5 DEF n
<1>7. j * B <= Limit * B /\ j * B \in Nat /\ Limit * B \in Nat
  <2>1. PICK g \in Nat : Limit = j + g
    <3>1. Limit - j \in Nat /\ Limit = j + (Limit - j)
      BY <1>1, <1>6
    <3>. QED  BY <3>1
  <2>2. (j + g) * B = j * B + g * B /\ g * B \in Nat /\ j * B \in Nat
    BY <1>1, <1>6
  <2>. QED  BY <2>1, <2>2
<1>8. PICK p, q \in Nat : p = j * B /\ q = Limit * B
  BY <1>7
<1>9. y - x <= MaximumEdits
  BY <1>1, <1>5, <1>6, <1>7, <1>8
<1>. QED  BY <1>5, <1>9

\* A committed batch extends the ring by its slice.
LEMMA AppendRing ==
    ASSUME NEW T, NEW E, NEW hi \in Nat, Timeline(T, E, hi), NEW h, Ring(h, T, E),
           NEW after \in StartRevision..hi, h.currentRevision < after,
           after <= h.currentRevision + MaxBatchOperations
    PROVE  LET n == append(h, Slice(T, E, h.currentRevision, after))
               k == IF h.count = Limit THEN 1 ELSE 0
           IN  /\ Ring(n, T, E) /\ n.currentRevision = after
               /\ n.count = (h.count + 1) - k
               /\ \A i \in 0..(n.count - 1) : Mark(n, i) = Mark(h, i + k)
<1>. DEFINE now == h.currentRevision
            change == Slice(T, E, now, after)
            n == append(h, change)
            k == IF h.count = Limit THEN 1 ELSE 0
            c == h.count
            l == n.count
<1>1. /\ h \in Rings /\ c \in Nat /\ c <= Limit /\ Limit \in Nat \ {0} /\ StartRevision \in Nat
      /\ now \in Nat /\ after \in Nat /\ now \in StartRevision..hi /\ now <= after
  <2>1. h \in Rings /\ c \in Nat /\ c <= Limit /\ StartRevision \in Nat /\ now \in Nat
        /\ StartRevision <= h.baseRevision /\ h.baseRevision <= now /\ h.baseRevision \in Nat
    BY MarkTypes, RingTypes
  <2>2. Limit \in Nat \ {0}
    BY HistoryAssumption
  <2>. QED  BY <2>1, <2>2
<1>2. /\ change \in Map /\ change.beforeRevision = now /\ change.afterRevision = after
      /\ change.beforeLength = ByteLength(T[now]) /\ change.afterLength = ByteLength(T[after])
  BY <1>1, SliceLeads DEF Leads
<1>3. n = Appended(h, change)
  <2>1. h.currentLength = ByteLength(T[now])
    BY DEF Ring
  <2>. HIDE DEF change
  <2>2. ~Breaks(h, change)
    BY <1>1, <1>2, <2>1 DEF Breaks
  <2>. QED  BY <1>1, <2>2, AppendIs
<1>. HIDE DEF n
<1>4. /\ \A i \in 0..(l - 2) : entry(n, i) = entry(h, i + k)
      /\ entry(n, l - 1) = change
      /\ l \in 1..Limit
  BY <1>1, <1>3, AppendedEntries
<1>5. /\ l = (c + 1) - k /\ n.currentRevision = after /\ n.currentLength = ByteLength(T[after])
      /\ n.start = (IF h.count = Limit THEN (h.start + 1) % Limit ELSE h.start)
      /\ n.baseRevision = (IF h.count = Limit THEN entry(h, 0).afterRevision ELSE h.baseRevision)
      /\ n.baseLength = (IF h.count = Limit THEN entry(h, 0).afterLength ELSE h.baseLength)
      /\ n.entries = [h.entries EXCEPT ![(h.start + h.count) % Limit] = change]
      /\ DOMAIN n = {"entries", "start", "count", "baseRevision", "baseLength", "currentRevision", "currentLength"}
  <2>. HIDE DEF change
  <2>1. l = (IF h.count = Limit THEN Limit ELSE h.count + 1)
    BY <1>3 DEF Appended
  <2>2. l = (c + 1) - k
    BY <1>1, <2>1
  <2>. QED  BY <1>2, <1>3, <2>2 DEF Appended
<1>6. k \in {0, 1} /\ l \in Nat /\ l # 0 /\ (l - 1) + k = c /\ l <= Limit
  BY <1>1, <1>4, <1>5
<1>7. Mark(n, 0) = Mark(h, 0 + k) /\ n.baseLength = ByteLength(T[Mark(n, 0)]) /\ n.baseLength \in Nat
  <2>1. CASE h.count = Limit
    <3>1. 0 \in 0..(h.count - 1) /\ 0 \in 0..h.count /\ 0 + 1 \in 0..h.count
      BY <1>1, <2>1
    <3>2. entry(h, 0) = Slice(T, E, Mark(h, 0), Mark(h, 0 + 1))
      BY <3>1 DEF Ring
    <3>3. entry(h, 0).afterLength = ByteLength(T[Mark(h, 0 + 1)]) /\ entry(h, 0).afterRevision = Mark(h, 0 + 1)
      BY <3>2 DEF Slice
    <3>4. Mark(n, 0) = n.baseRevision
      BY DEF Mark
    <3>5. Mark(h, 0 + 1) \in StartRevision..hi
      <4>1. Mark(h, 0 + 1) \in StartRevision..now
        BY <3>1, MarkTypes
      <4>. QED  BY <1>1, <4>1
    <3>6. ByteLength(T[Mark(h, 0 + 1)]) \in Nat
      BY <3>5, ByteLengthType DEF Timeline
    <3>. QED  BY <1>5, <2>1, <3>3, <3>4, <3>6
  <2>2. CASE h.count # Limit
    <3>1. Mark(n, 0) = n.baseRevision /\ Mark(h, 0) = h.baseRevision /\ 0 + k = 0
      BY <2>2 DEF Mark
    <3>2. h.baseLength = ByteLength(T[h.baseRevision]) /\ h.baseLength \in Nat
      BY <1>1, RingTypes DEF Ring
    <3>. QED  BY <1>5, <2>2, <3>1, <3>2
  <2>. QED  BY <2>1, <2>2
<1>8. ASSUME NEW i \in 0..(l - 1) PROVE Mark(n, i) = Mark(h, i + k) /\ i + k \in 0..c
  <2>0. i + k \in 0..c /\ i \in Nat
    BY <1>1, <1>6
  <2>1. CASE i = 0
    BY <1>7, <2>0, <2>1
  <2>2. CASE i # 0
    <3>1. i - 1 \in 0..(l - 2) /\ (i - 1) + k = (i + k) - 1 /\ i + k # 0
      BY <1>6, <2>0, <2>2
    <3>2. entry(n, i - 1) = entry(h, (i + k) - 1)
      BY <1>4, <3>1
    <3>. HIDE DEF k
    <3>. QED  BY <2>0, <2>2, <3>1, <3>2 DEF Mark
  <2>. QED  BY <2>1, <2>2
<1>9. Mark(n, l) = after
  <2>1. Mark(n, l) = entry(n, l - 1).afterRevision
    BY <1>6 DEF Mark
  <2>. HIDE DEF change
  <2>. QED  BY <1>2, <1>4, <2>1
<1>10. n \in Rings
  <2>1. n.start \in 0..(Limit - 1)
    <3>1. CASE h.count = Limit
      <4>1. (h.start + 1) % Limit = IF h.start + 1 < Limit THEN h.start + 1 ELSE (h.start + 1) - Limit
        <5>1. h.start \in 0..(Limit - 1) /\ 1 \in 0..Limit
          BY <1>1, RingTypes
        <5>. QED  BY <1>1, <5>1, WrapOnce
      <4>2. h.start \in Nat /\ h.start < Limit
        BY <1>1, RingTypes
      <4>. QED  BY <1>1, <1>5, <3>1, <4>1, <4>2
    <3>2. CASE h.count # Limit
      BY <1>1, <1>5, <3>2, RingTypes
    <3>. QED  BY <3>1, <3>2
  <2>2. n.entries \in [0..(Limit - 1) -> Map \cup {None}]
    <3>1. h.entries \in [0..(Limit - 1) -> Map \cup {None}]
      BY <1>1, RingTypes
    <3>. HIDE DEF change
    <3>. QED  BY <1>2, <1>5, <3>1
  <2>3. n.count \in 0..Limit /\ n.baseLength \in Nat /\ n.currentRevision \in Nat
    BY <1>1, <1>5, <1>6, <1>7
  <2>4. n.currentLength \in Nat
    <3>1. ByteLength(T[after]) \in Nat
      BY ByteLengthType DEF Timeline
    <3>. QED  BY <1>5, <3>1
  <2>5. n.baseRevision \in Nat
    <3>1. Mark(n, 0) = n.baseRevision /\ 0 + k \in 0..c
      BY <1>6, <1>1 DEF Mark
    <3>2. Mark(h, 0 + k) \in Nat
      BY <3>1, MarkTypes
    <3>. QED  BY <1>7, <3>1, <3>2
  <2>6. n = [entries |-> n.entries, start |-> n.start, count |-> n.count,
             baseRevision |-> n.baseRevision, baseLength |-> n.baseLength,
             currentRevision |-> n.currentRevision, currentLength |-> n.currentLength]
    BY <1>3 DEF Appended
  <2>. QED  BY <2>1, <2>2, <2>3, <2>4, <2>5, <2>6 DEF Rings
<1>. HIDE DEF k, l, c
<1>11. ASSUME NEW i \in 0..l PROVE Mark(n, i) \in StartRevision..after
  <2>1. CASE i = l
    BY <1>1, <1>9, <2>1
  <2>2. CASE i # l
    <3>1. i \in 0..(l - 1)
      BY <1>6, <2>2
    <3>2. Mark(n, i) = Mark(h, i + k) /\ i + k \in 0..c
      BY <1>8, <3>1
    <3>3. Mark(h, i + k) \in StartRevision..now
      BY <3>2, MarkTypes DEF c
    <3>. QED  BY <1>1, <3>2, <3>3
  <2>. QED  BY <2>1, <2>2
<1>12. ASSUME NEW i \in 0..(l - 1)
       PROVE  /\ Mark(n, i) < Mark(n, i + 1) /\ Mark(n, i + 1) <= Mark(n, i) + MaxBatchOperations
              /\ entry(n, i) = Slice(T, E, Mark(n, i), Mark(n, i + 1))
  <2>1. CASE i = l - 1
    <3>1. Mark(n, i) = now /\ i + 1 = l
      <4>1. Mark(h, c) = now
        BY DEF Ring, c
      <4>. QED  BY <1>6, <1>8, <2>1, <4>1
    <3>. QED  BY <1>1, <1>4, <1>9, <2>1, <3>1
  <2>2. CASE i # l - 1
    <3>1. i + 1 \in 0..(l - 1) /\ i \in 0..(l - 2) /\ i + k \in 0..(c - 1) /\ (i + 1) + k = (i + k) + 1
      BY <1>1, <1>6, <2>2
    <3>2. Mark(n, i) = Mark(h, i + k) /\ Mark(n, i + 1) = Mark(h, (i + k) + 1)
      BY <1>8, <3>1
    <3>3. entry(n, i) = entry(h, i + k)
      BY <1>4, <3>1
    <3>4. /\ Mark(h, i + k) < Mark(h, (i + k) + 1)
          /\ Mark(h, (i + k) + 1) <= Mark(h, i + k) + MaxBatchOperations
          /\ entry(h, i + k) = Slice(T, E, Mark(h, i + k), Mark(h, (i + k) + 1))
      BY <3>1 DEF Ring, c
    <3>. QED  BY <3>2, <3>3, <3>4
  <2>. QED  BY <2>1, <2>2
<1>13. n.baseLength = ByteLength(T[n.baseRevision])
  <2>1. Mark(n, 0) = n.baseRevision
    BY DEF Mark
  <2>. QED  BY <1>7, <2>1
<1>14. Ring(n, T, E)
  <2>. HIDE DEF change, now
  <2>. QED  BY <1>5, <1>9, <1>10, <1>11, <1>12, <1>13 DEF Ring, l
<1>. QED  BY <1>5, <1>8, <1>14 DEF n, l, c, k

\* The ring does not change its meaning when the timeline goes on.
Extends(T, E, S, F, hi) ==
    /\ \A r \in StartRevision..hi : S[r] = T[r]
    /\ \A r \in (StartRevision + 1)..hi : F[r] = E[r]

LEMMA SliceExtends ==
    ASSUME NEW T, NEW E, NEW S, NEW F, NEW hi \in Nat, Extends(T, E, S, F, hi),
           NEW a \in StartRevision..hi, NEW b \in StartRevision..hi
    PROVE  Slice(S, F, a, b) = Slice(T, E, a, b)
<1>1. StartRevision \in Nat
  BY HistoryAssumption
<1>2. ASSUME NEW j \in 1..(b - a) PROVE F[a + j] = E[a + j]
  <2>1. a + j \in (StartRevision + 1)..hi
    BY <1>1
  <2>. QED  BY <2>1 DEF Extends
<1>3. EditsOf(F, a, b) = EditsOf(E, a, b)
  BY <1>2 DEF EditsOf
<1>4. S[a] = T[a] /\ S[b] = T[b]
  BY DEF Extends
<1>. QED  BY <1>3, <1>4 DEF Slice

LEMMA RingExtends ==
    ASSUME NEW T, NEW E, NEW S, NEW F, NEW hi \in Nat, Extends(T, E, S, F, hi),
           NEW h, Ring(h, T, E), h.currentRevision <= hi
    PROVE  Ring(h, S, F)
<1>1. /\ h.count \in Nat /\ StartRevision \in Nat /\ h.currentRevision \in Nat
      /\ \A i \in 0..h.count : Mark(h, i) \in StartRevision..h.currentRevision
      /\ h.baseRevision \in StartRevision..h.currentRevision
      /\ h.currentRevision \in StartRevision..h.currentRevision
  <2>1. h.count \in 0..h.count
    BY MarkTypes
  <2>. QED  BY <2>1, MarkTypes
<1>2. \A i \in 0..h.count : Mark(h, i) \in StartRevision..hi
  BY <1>1
<1>3. h.baseRevision \in StartRevision..hi /\ h.currentRevision \in StartRevision..hi
  BY <1>1
<1>4. ASSUME NEW i \in 0..(h.count - 1)
      PROVE  Slice(S, F, Mark(h, i), Mark(h, i + 1)) = Slice(T, E, Mark(h, i), Mark(h, i + 1))
  <2>1. i \in 0..h.count /\ i + 1 \in 0..h.count
    BY <1>1
  <2>2. Mark(h, i) \in StartRevision..hi /\ Mark(h, i + 1) \in StartRevision..hi
    BY <1>2, <2>1
  <2>. QED  BY <2>2, SliceExtends
<1>5. S[h.baseRevision] = T[h.baseRevision] /\ S[h.currentRevision] = T[h.currentRevision]
  BY <1>3 DEF Extends
<1>. QED  BY <1>4, <1>5 DEF Ring

LEMMA EditsOfAre ==
    ASSUME NEW T, NEW E, NEW hi \in Nat, Timeline(T, E, hi),
           NEW a \in StartRevision..hi, NEW b \in StartRevision..hi, a <= b
    PROVE  EditsAre(EditsOf(E, a, b), E, a, b)
BY EditsOfType

EditsMeet(E, a, b, c) == EditsOf(E, a, b) \o EditsOf(E, b, c) = EditsOf(E, a, c)

\* Slices that follow on one another join.
LEMMA EditsJoin ==
    ASSUME NEW T, NEW E, NEW hi \in Nat, Timeline(T, E, hi), NEW a \in StartRevision..hi,
           NEW b \in StartRevision..hi, NEW c \in StartRevision..hi, a <= b, b <= c
    PROVE  EditsMeet(E, a, b, c)
<1>. DEFINE s == EditsOf(E, a, b)
            t == EditsOf(E, b, c)
            u == EditsOf(E, a, c)
<1>1. StartRevision \in Nat /\ a \in Nat /\ b \in Nat /\ c \in Nat /\ a <= c
  BY HistoryAssumption
<1>2. EditsAre(s, E, a, b) /\ EditsAre(t, E, b, c) /\ EditsAre(u, E, a, c)
  BY <1>1, EditsOfAre
<1>. HIDE DEF s, t, u
<1>3. /\ s \in Seq(Edit) /\ Len(s) = b - a /\ \A j \in 1..(b - a) : s[j] = E[a + j]
      /\ t \in Seq(Edit) /\ Len(t) = c - b /\ \A j \in 1..(c - b) : t[j] = E[b + j]
  BY <1>2 DEF EditsAre
<1>4. u \in Seq(Edit) /\ Len(u) = c - a /\ \A j \in 1..(c - a) : u[j] = E[a + j]
  BY <1>2 DEF EditsAre
<1>5. /\ s \o t \in Seq(Edit) /\ Len(s \o t) = Len(s) + Len(t)
      /\ \A i \in 1..(Len(s) + Len(t)) : (s \o t)[i] = IF i <= Len(s) THEN s[i] ELSE t[i - Len(s)]
  BY <1>3, <1>3, ConcatProperties
<1>6. Len(s) + Len(t) = c - a
  BY <1>1, <1>3, <1>3
<1>7. ASSUME NEW i \in 1..(c - a) PROVE (s \o t)[i] = u[i]
  <2>1. CASE i <= b - a
    <3>1. i \in 1..(b - a)
      BY <1>1, <2>1
    <3>. QED  BY <1>3, <1>4, <1>5, <1>6, <2>1, <3>1
  <2>2. CASE ~(i <= b - a)
    <3>1. i - (b - a) \in 1..(c - b) /\ b + (i - (b - a)) = a + i
      BY <1>1, <2>2
    <3>2. (s \o t)[i] = t[i - (b - a)]
      BY <1>3, <1>5, <1>6, <2>2
    <3>. QED  BY <1>3, <1>4, <3>1, <3>2
  <2>. QED  BY <2>1, <2>2
<1>8. s \o t = u
  BY <1>4, <1>5, <1>6, <1>7, SeqEqual
<1>. QED  BY <1>8 DEF EditsMeet, s, t, u

\* ComposeAll joins the edits of a chain whose maps fit.
Joins(w, all) ==
    /\ w \in [0..Len(all) -> Seq(Edit)] /\ w[0] = <<>>
    /\ \A i \in 1..Len(all) : w[i] = w[i - 1] \o all[i].edits

LEMMA ComposeUnfold ==
    ASSUME NEW m \in Map, NEW chain \in Seq(Map), NEW w, Joins(w, <<m>> \o chain),
           \A i \in 1..Len(chain) : Adjacent((<<m>> \o chain)[i], (<<m>> \o chain)[i + 1]),
           Len(w[Len(<<m>> \o chain)]) <= MaximumEdits
    PROVE  LET all == <<m>> \o chain
           IN  ComposeAll(m, chain) =
                 [beforeRevision |-> m.beforeRevision, afterRevision |-> all[Len(all)].afterRevision,
                  beforeLength |-> m.beforeLength, afterLength |-> all[Len(all)].afterLength,
                  edits |-> w[Len(all)]]
<1>. DEFINE all == <<m>> \o chain
            n == Len(all)
            Body(g) == [i \in 0..n |-> IF i = 0 THEN <<>> ELSE g[i - 1] \o all[i].edits]
            l == CHOOSE g : g = Body(g)
<1>1. n \in Nat
  <2>1. <<m>> \in Seq(Map)
    OBVIOUS
  <2>2. all \in Seq(Map)
    BY <2>1, ConcatProperties
  <2>. HIDE DEF all
  <2>. QED  BY <2>2, LenProperties
<1>2. /\ w \in [0..n -> Seq(Edit)] /\ w[0] = <<>>
      /\ \A i \in 1..n : w[i] = w[i - 1] \o all[i].edits
  BY DEF Joins
<1>4. ComposeAll(m, chain) =
        IF \E i \in 1..Len(chain) : ~Adjacent(all[i], all[i + 1])
        THEN Error("ErrRevisionMismatch")
        ELSE IF Len(l[n]) > MaximumEdits THEN Error("ErrTooComplex")
        ELSE [m EXCEPT !.afterRevision = all[n].afterRevision,
                       !.afterLength = all[n].afterLength,
                       !.edits = l[n]]
  BY DEF ComposeAll
<1>. HIDE DEF n
<1>5. w = Body(w)
  <2>. HIDE DEF all
  <2>1. ASSUME NEW i \in 0..n PROVE w[i] = Body(w)[i]
    <3>1. CASE i = 0
      BY <1>2, <3>1
    <3>2. CASE i # 0
      <4>1. i \in 1..n
        BY <1>1, <3>2
      <4>. QED  BY <1>2, <3>2, <4>1
    <3>. QED  BY <3>1, <3>2
  <2>. QED  BY <1>2, <2>1
<1>6. l = Body(l)
  <2>. HIDE DEF all
  <2>. QED  BY <1>5
<1>. HIDE DEF l
<1>7. \A i \in 0..n : l[i] = w[i]
  <2>. HIDE DEF all
  <2>1. l[0] = w[0]
    BY <1>1, <1>2, <1>6
  <2>2. ASSUME NEW i \in 1..n, l[i - 1] = w[i - 1] PROVE l[i] = w[i]
    <3>1. i \in 0..n /\ i # 0
      BY <1>1
    <3>2. l[i] = l[i - 1] \o all[i].edits
      BY <1>6, <3>1
    <3>. QED  BY <1>2, <2>2, <3>2
  <2>3. GoAlike(l, w, n)
    BY <2>1, <2>2 DEF GoAlike
  <2>. QED  BY <1>1, <2>3, Alike
<1>8. l[n] = w[n]
  BY <1>1, <1>7
<1>9. ~(Len(w[n]) > MaximumEdits)
  <2>1. Len(w[n]) \in Nat /\ MaximumEdits \in Nat
    <3>1. n \in 0..n
      BY <1>1
    <3>2. w[n] \in Seq(Edit)
      BY <1>2, <3>1
    <3>. QED  BY <3>2, LenProperties, MaximumEditsAssumption
  <2>2. Len(w[n]) <= MaximumEdits
    BY DEF n
  <2>. QED  BY <2>1, <2>2
<1>10. ComposeAll(m, chain) = [m EXCEPT !.afterRevision = all[n].afterRevision,
                                       !.afterLength = all[n].afterLength, !.edits = w[n]]
  BY <1>4, <1>8, <1>9
<1>. HIDE DEF all
<1>11. ASSUME NEW x, NEW y, NEW z
       PROVE  [m EXCEPT !.afterRevision = x, !.afterLength = y, !.edits = z] =
                [beforeRevision |-> m.beforeRevision, afterRevision |-> x,
                 beforeLength |-> m.beforeLength, afterLength |-> y, edits |-> z]
  <2>1. PICK a, b, c, d, e : m = [beforeRevision |-> a, afterRevision |-> b, beforeLength |-> c,
                                  afterLength |-> d, edits |-> e]
    BY DEF Map
  <2>2. m.beforeRevision = a /\ m.beforeLength = c
    BY <2>1
  <2>3. PICK u : u = [m EXCEPT !.afterRevision = x]
    OBVIOUS
  <2>4. u = [beforeRevision |-> a, afterRevision |-> x, beforeLength |-> c, afterLength |-> d, edits |-> e]
    BY <2>1, <2>3
  <2>5. PICK v : v = [u EXCEPT !.afterLength = y]
    OBVIOUS
  <2>6. v = [beforeRevision |-> a, afterRevision |-> x, beforeLength |-> c, afterLength |-> y, edits |-> e]
    BY <2>4, <2>5
  <2>7. [v EXCEPT !.edits = z] =
           [beforeRevision |-> a, afterRevision |-> x, beforeLength |-> c, afterLength |-> y, edits |-> z]
    BY <2>6
  <2>8. [m EXCEPT !.afterRevision = x, !.afterLength = y, !.edits = z] =
        [[[m EXCEPT !.afterRevision = x] EXCEPT !.afterLength = y] EXCEPT !.edits = z]
    OBVIOUS
  <2>9. [m EXCEPT !.afterRevision = x, !.afterLength = y, !.edits = z] = [v EXCEPT !.edits = z]
    BY <2>3, <2>5, <2>8, Zenon
  <2>. QED  BY <2>2, <2>7, <2>9
<1>. QED  BY <1>10, <1>11 DEF all, n

-----------------------------------------------------------------------------
\* Queries

LEMMA MarkOfEntry ==
    ASSUME NEW h, NEW i \in Nat PROVE entry(h, i).afterRevision = Mark(h, i + 1)
<1>1. i + 1 # 0 /\ (i + 1) - 1 = i
  OBVIOUS
<1>. QED  BY <1>1 DEF Mark

LEMMA BoundariesAre ==
    ASSUME NEW h, NEW T, NEW E, Ring(h, T, E)
    PROVE  Boundaries(h) = {Mark(h, i) : i \in 0..h.count}
<1>. DEFINE n == h.count
<1>1. n \in Nat
  BY MarkTypes
<1>2. h.baseRevision = Mark(h, 0)
  BY DEF Mark
<1>3. \A i \in 0..(n - 1) : entry(h, i).afterRevision = Mark(h, i + 1)
  BY MarkOfEntry
<1>. HIDE DEF n
<1>4. ASSUME NEW x \in Boundaries(h) PROVE x \in {Mark(h, i) : i \in 0..n}
  <2>1. CASE x = h.baseRevision
    <3>1. 0 \in 0..n
      BY <1>1
    <3>. QED  BY <1>2, <2>1, <3>1
  <2>2. CASE x # h.baseRevision
    <3>1. PICK i \in 0..(n - 1) : x = entry(h, i).afterRevision
      BY <2>2 DEF Boundaries, n
    <3>2. i + 1 \in 0..n /\ x = Mark(h, i + 1)
      BY <1>1, <1>3, <3>1
    <3>. QED  BY <3>2
  <2>. QED  BY <2>1, <2>2
<1>5. ASSUME NEW i \in 0..n PROVE Mark(h, i) \in Boundaries(h)
  <2>1. CASE i = 0
    BY <1>2, <2>1 DEF Boundaries
  <2>2. CASE i # 0
    <3>1. i - 1 \in 0..(n - 1) /\ (i - 1) + 1 = i
      BY <1>1, <2>2
    <3>2. Mark(h, i) = entry(h, i - 1).afterRevision
      BY <1>3, <3>1
    <3>. QED  BY <3>1, <3>2 DEF Boundaries, n
  <2>. QED  BY <2>1, <2>2
<1>. QED  BY <1>4, <1>5 DEF n

LEMMA BoundaryLengthIs ==
    ASSUME NEW h, NEW T, NEW E, Ring(h, T, E), NEW p \in 0..h.count
    PROVE  boundaryLength(h, Mark(h, p)) = ByteLength(T[Mark(h, p)])
<1>. DEFINE r == Mark(h, p)
<1>1. h.count \in Nat
  BY MarkTypes
<1>2. CASE r = h.baseRevision
  BY <1>2 DEF boundaryLength, Ring
<1>3. CASE r # h.baseRevision
  <2>1. p # 0
    BY <1>3 DEF Mark
  <2>2. p - 1 \in 0..(h.count - 1) /\ (p - 1) + 1 = p
    BY <1>1, <2>1
  <2>3. entry(h, p - 1).afterRevision = r
    BY <2>2, MarkOfEntry
  <2>. DEFINE i == CHOOSE n \in 0..(h.count - 1) : entry(h, n).afterRevision = r
  <2>. HIDE DEF r
  <2>4. i \in 0..(h.count - 1) /\ entry(h, i).afterRevision = r
    BY <2>2, <2>3
  <2>5. boundaryLength(h, r) = entry(h, i).afterLength
    BY <1>3 DEF boundaryLength
  <2>. HIDE DEF i
  <2>6. entry(h, i) = Slice(T, E, Mark(h, i), Mark(h, i + 1))
    BY <2>4 DEF Ring
  <2>7. entry(h, i).afterRevision = Mark(h, i + 1) /\ entry(h, i).afterLength = ByteLength(T[Mark(h, i + 1)])
    BY <2>6 DEF Slice
  <2>8. boundaryLength(h, r) = ByteLength(T[r])
    BY <2>4, <2>5, <2>7
  <2>. QED  BY <2>8 DEF r
<1>. QED  BY <1>2, <1>3

\* The maps between two boundaries.
ChainIs(s, h, T, E, p, q) ==
    /\ s \in Seq(Map) /\ Len(s) = q - p
    /\ \A k \in 1..(q - p) : s[k] = Slice(T, E, Mark(h, p + (k - 1)), Mark(h, p + k))

LEMMA ChainBetween ==
    ASSUME NEW T, NEW E, NEW hi \in Nat, Timeline(T, E, hi), NEW h, Ring(h, T, E),
           h.currentRevision <= hi, NEW p \in 0..h.count, NEW q \in 0..h.count, p <= q
    PROVE  ChainIs(Chain(h, Mark(h, p), Mark(h, q)), h, T, E, p, q)
<1>. DEFINE c == h.count
            low == Mark(h, p)
            high == Mark(h, q)
            inside == {i \in 0..(c - 1) : /\ entry(h, i).afterRevision > low
                                          /\ entry(h, i).afterRevision <= high}
            s == Chain(h, low, high)
<1>1. c \in Nat /\ p \in Nat /\ q \in Nat /\ \A i \in 0..c : Mark(h, i) \in Nat /\ Mark(h, i) \in StartRevision..hi
  <2>1. c \in Nat /\ StartRevision \in Nat /\ h.currentRevision \in Nat
        /\ \A i \in 0..c : Mark(h, i) \in Nat /\ Mark(h, i) \in StartRevision..h.currentRevision
    BY MarkTypes
  <2>. QED  BY <2>1
<1>2. inside = p..(q - 1)
  <2>1. ASSUME NEW i \in 0..(c - 1)
        PROVE  (entry(h, i).afterRevision > low /\ entry(h, i).afterRevision <= high) <=> i \in p..(q - 1)
    <3>1. i + 1 \in 0..c /\ i \in Nat
      BY <1>1
    <3>2. entry(h, i).afterRevision = Mark(h, i + 1)
      BY <3>1, MarkOfEntry
    <3>3. i + 1 <= q <=> Mark(h, i + 1) <= high
      BY <3>1, MarksGrow
    <3>4. i + 1 <= p <=> Mark(h, i + 1) <= low
      BY <3>1, MarksGrow
    <3>5. PICK x, y, z \in Nat : x = Mark(h, i + 1) /\ y = low /\ z = high
      BY <1>1, <3>1
    <3>6. (i + 1 <= q <=> x <= z) /\ (i + 1 <= p <=> x <= y)
      BY <3>3, <3>4, <3>5
    <3>7. (x > y /\ x <= z) <=> i \in p..(q - 1)
      BY <1>1, <3>1, <3>6
    <3>. QED  BY <3>2, <3>5, <3>7
  <2>2. \A i \in p..(q - 1) : i \in 0..(c - 1)
    BY <1>1
  <2>. HIDE DEF c, low, high
  <2>. QED  BY <2>1, <2>2
<1>3. s = IF inside = {} THEN <<>>
          ELSE [k \in 1..Cardinality(inside) |-> entry(h, Min(inside) + k - 1)]
  BY DEF Chain
<1>. HIDE DEF inside, s, low, high
<1>4. CASE p = q
  <2>1. inside = {}
    BY <1>1, <1>2, <1>4
  <2>2. s = <<>> /\ q - p = 0
    BY <1>1, <1>3, <1>4, <2>1
  <2>3. s \in Seq(Map) /\ Len(s) = 0
    BY <2>2
  <2>4. ChainIs(s, h, T, E, p, q)
    BY <2>2, <2>3 DEF ChainIs
  <2>. QED  BY <2>4 DEF s, low, high
<1>5. CASE p # q
  <2>1. p < q /\ p \in p..(q - 1)
    BY <1>1, <1>5
  <2>2. inside # {} /\ Min(inside) = p /\ Cardinality(inside) = q - p
    <3>1. p \in inside /\ \A y \in inside : p <= y /\ y \in Int
      BY <1>1, <1>2, <2>1
    <3>2. ASSUME NEW x \in inside, \A y \in inside : x <= y PROVE x = p
      BY <1>1, <3>1, <3>2
    <3>3. Min(inside) = p
      BY <3>1, <3>2 DEF Min
    <3>4. Cardinality(p..(q - 1)) = q - p
      <4>1. Cardinality(p..(q - 1)) = IF p > q - 1 THEN 0 ELSE (q - 1) - p + 1
        BY <1>1, FS_Interval
      <4>. QED  BY <1>1, <2>1, <4>1
    <3>. QED  BY <1>2, <3>1, <3>3, <3>4
  <2>3. s = [k \in 1..(q - p) |-> entry(h, p + k - 1)]
    BY <1>3, <2>2
  <2>4. ASSUME NEW k \in 1..(q - p)
        PROVE  /\ s[k] = Slice(T, E, Mark(h, p + (k - 1)), Mark(h, p + k))
               /\ s[k] \in Map
    <3>1. PICK i \in 0..(c - 1) : i = p + (k - 1) /\ i = p + k - 1 /\ i + 1 = p + k
      <4>1. p + (k - 1) \in 0..(c - 1) /\ p + (k - 1) = p + k - 1 /\ (p + (k - 1)) + 1 = p + k
        BY <1>1, <2>1
      <4>. QED  BY <4>1
    <3>2. s[k] = entry(h, i)
      BY <2>3, <3>1
    <3>3. entry(h, i) = Slice(T, E, Mark(h, i), Mark(h, i + 1)) /\ Mark(h, i) < Mark(h, i + 1)
      BY DEF Ring, c
    <3>4. i \in 0..c /\ i + 1 \in 0..c
      BY <1>1, <3>1
    <3>5. Mark(h, i) \in StartRevision..hi /\ Mark(h, i + 1) \in StartRevision..hi /\ Mark(h, i) <= Mark(h, i + 1)
      BY <1>1, <3>3, <3>4
    <3>6. Slice(T, E, Mark(h, i), Mark(h, i + 1)) \in Map
      BY <3>5, SliceLeads DEF Leads
    <3>. QED  BY <3>1, <3>2, <3>3, <3>6
  <2>5. s \in [1..(q - p) -> Map] /\ q - p \in Nat
    <3>1. q - p \in Nat
      BY <1>1, <2>1
    <3>2. s = [k \in 1..(q - p) |-> s[k]]
      BY <2>3
    <3>. QED  BY <2>4, <3>1, <3>2
  <2>6. s \in Seq(Map) /\ Len(s) = q - p
    BY <2>5, SeqDef
  <2>7. ChainIs(s, h, T, E, p, q)
    BY <2>4, <2>6 DEF ChainIs
  <2>. QED  BY <2>7 DEF s, low, high
<1>. QED  BY <1>4, <1>5

\* The retained maps between two boundaries compose to their slice, which never
\* exceeds the bound on edits.
LEMMA ComposeChain ==
    ASSUME NEW T, NEW E, NEW hi \in Nat, Timeline(T, E, hi), NEW h, Ring(h, T, E),
           h.currentRevision <= hi, NEW p \in 0..h.count, NEW q \in 0..h.count, p <= q
    PROVE  ComposeAll(Identity(Mark(h, p), boundaryLength(h, Mark(h, p))),
                      Chain(h, Mark(h, p), Mark(h, q))) = Slice(T, E, Mark(h, p), Mark(h, q))
<1>. DEFINE c == h.count
            low == Mark(h, p)
            high == Mark(h, q)
            m == Identity(low, boundaryLength(h, low))
            s == Chain(h, low, high)
            all == <<m>> \o s
            n == q - p
            To(i) == Mark(h, p + (i - 1))
            w == [i \in 0..(n + 1) |-> IF i = 0 THEN <<>> ELSE EditsOf(E, low, To(i))]
<1>1. c \in Nat /\ p \in Nat /\ q \in Nat /\ n \in Nat /\ p + n = q
      /\ \A i \in 0..c : Mark(h, i) \in Nat /\ Mark(h, i) \in StartRevision..hi
  <2>1. c \in Nat /\ StartRevision \in Nat /\ h.currentRevision \in Nat
        /\ \A i \in 0..c : Mark(h, i) \in Nat /\ Mark(h, i) \in StartRevision..h.currentRevision
    BY MarkTypes
  <2>. QED  BY <2>1
<1>2. ChainIs(s, h, T, E, p, q)
  BY ChainBetween
<1>3. low \in StartRevision..hi /\ high \in StartRevision..hi /\ low \in Nat /\ high \in Nat
  BY <1>1
<1>4. ByteLength(T[low]) \in Nat
  BY <1>3, ByteLengthType DEF Timeline
<1>5. m = [beforeRevision |-> low, afterRevision |-> low, beforeLength |-> ByteLength(T[low]),
           afterLength |-> ByteLength(T[low]), edits |-> <<>>]
  <2>1. boundaryLength(h, low) = ByteLength(T[low])
    BY BoundaryLengthIs
  <2>2. <<>> \in Seq(Edit) /\ Len(<<>>) = 0
    OBVIOUS
  <2>3. Lengths(ByteLength(T[low]), <<>>)[0] = ByteLength(T[low])
    <3>1. PICK l \in Int : l = ByteLength(T[low])
      BY <1>4
    <3>2. PICK e \in Seq(Edit) : e = <<>>
      BY <2>2
    <3>3. Lengths(l, e)[0] = l
      BY LengthsUnfold
    <3>. QED  BY <3>1, <3>2, <3>3
  <2>. QED  BY <2>1, <2>2, <2>3 DEF Identity, NewChangeMap
<1>. HIDE DEF m, s, low, high, n, c
<1>6. m \in Map
  BY <1>3, <1>4, <1>5 DEF Map
<1>7. s \in Seq(Map) /\ Len(s) = n /\ \A k \in 1..n : s[k] = Slice(T, E, Mark(h, p + (k - 1)), Mark(h, p + k))
  BY <1>2 DEF ChainIs, n
<1>8. /\ all \in Seq(Map) /\ Len(all) = n + 1 /\ all[1] = m
      /\ \A i \in 1..n : all[i + 1] = s[i]
  <2>1. <<m>> \in Seq(Map) /\ Len(<<m>>) = 1 /\ <<m>>[1] = m
    BY <1>6
  <2>2. /\ all \in Seq(Map) /\ Len(all) = Len(<<m>>) + Len(s)
        /\ \A i \in 1..(Len(<<m>>) + Len(s)) : all[i] = IF i <= Len(<<m>>) THEN <<m>>[i] ELSE s[i - Len(<<m>>)]
    BY <1>7, <2>1, ConcatProperties
  <2>. HIDE DEF all
  <2>3. Len(all) = n + 1 /\ \A i \in 1..(n + 1) : all[i] = IF i <= 1 THEN <<m>>[i] ELSE s[i - 1]
    BY <1>1, <1>7, <2>1, <2>2
  <2>4. all[1] = m
    BY <1>1, <2>1, <2>3
  <2>5. ASSUME NEW i \in 1..n PROVE all[i + 1] = s[i]
    <3>1. i + 1 \in 1..(n + 1) /\ ~(i + 1 <= 1) /\ (i + 1) - 1 = i
      BY <1>1
    <3>. QED  BY <2>3, <3>1
  <2>. QED  BY <2>2, <2>3, <2>4, <2>5
<1>. HIDE DEF all
<1>9. ASSUME NEW i \in 1..(n + 1)
      PROVE  /\ To(i) \in StartRevision..hi /\ To(i) \in Nat /\ low <= To(i) /\ p + (i - 1) \in 0..c
             /\ all[i].afterRevision = To(i) /\ all[i].afterLength = ByteLength(T[To(i)])
  <2>1. p + (i - 1) \in 0..c /\ p <= p + (i - 1) /\ p \in 0..c
    <3>1. q <= c
      BY <1>1 DEF c
    <3>. QED  BY <1>1, <3>1
  <2>2. To(i) \in StartRevision..hi /\ To(i) \in Nat
    BY <1>1, <2>1
  <2>3. low <= To(i)
    <3>1. p <= p + (i - 1) <=> Mark(h, p) <= Mark(h, p + (i - 1))
      BY <2>1, MarksGrow DEF c
    <3>. QED  BY <2>1, <3>1 DEF low
  <2>4. all[i].afterRevision = To(i) /\ all[i].afterLength = ByteLength(T[To(i)])
    <3>1. CASE i = 1
      <4>1. p + (i - 1) = p
        BY <1>1, <3>1
      <4>2. To(i) = low
        BY <4>1 DEF low
      <4>. HIDE DEF To
      <4>. QED  BY <1>5, <1>8, <3>1, <4>2
    <3>2. CASE i # 1
      <4>1. PICK j \in 1..n : j = i - 1 /\ j + 1 = i
        <5>1. i - 1 \in 1..n /\ (i - 1) + 1 = i
          BY <1>1, <3>2
        <5>. QED  BY <5>1
      <4>2. all[i] = Slice(T, E, Mark(h, p + (j - 1)), Mark(h, p + j)) /\ To(i) = Mark(h, p + j)
        BY <1>7, <1>8, <4>1
      <4>. HIDE DEF To
      <4>. QED  BY <4>2 DEF Slice
    <3>. QED  BY <3>1, <3>2
  <2>. QED  BY <2>1, <2>2, <2>3, <2>4
<1>10. ASSUME NEW i \in 1..Len(s) PROVE Adjacent(all[i], all[i + 1])
  <2>1. i \in 1..n /\ i \in 1..(n + 1)
    BY <1>1, <1>7
  <2>2. all[i].afterRevision = To(i) /\ all[i].afterLength = ByteLength(T[To(i)])
    BY <1>9, <2>1
  <2>3. all[i + 1] = Slice(T, E, To(i), Mark(h, p + i))
    BY <1>7, <1>8, <2>1
  <2>. HIDE DEF To
  <2>4. all[i + 1].beforeRevision = To(i) /\ all[i + 1].beforeLength = ByteLength(T[To(i)])
    BY <2>3 DEF Slice
  <2>. QED  BY <2>2, <2>4 DEF Adjacent
<1>11. ASSUME NEW i \in 1..(n + 1)
       PROVE  /\ w[i] = EditsOf(E, low, To(i)) /\ w[i] \in Seq(Edit) /\ w[i - 1] \in Seq(Edit)
              /\ w[i] = w[i - 1] \o all[i].edits
  <2>1. w[i] = EditsOf(E, low, To(i))
    BY <1>1
  <2>2. EditsOf(E, low, To(i)) \in Seq(Edit)
    <3>1. To(i) \in StartRevision..hi /\ low <= To(i)
      BY <1>9
    <3>. HIDE DEF To
    <3>2. EditsAre(EditsOf(E, low, To(i)), E, low, To(i))
      BY <1>3, <3>1, EditsOfAre
    <3>. QED  BY <3>2 DEF EditsAre
  <2>3. CASE i = 1
    <3>1. p + (i - 1) = p
      BY <1>1, <2>3
    <3>2. To(i) = low
      BY <3>1 DEF low
    <3>3. w[i - 1] = <<>>
      BY <1>1, <2>3
    <3>. HIDE DEF w, To
    <3>4. EditsOf(E, low, low) = <<>>
      <4>1. EditsAre(EditsOf(E, low, low), E, low, low)
        BY <1>3, EditsOfAre
      <4>2. EditsOf(E, low, low) \in Seq(Edit) /\ Len(EditsOf(E, low, low)) = 0
        BY <1>3, <4>1 DEF EditsAre
      <4>. QED  BY <4>2, EmptySeq
    <3>5. all[i].edits = <<>>
      BY <1>5, <1>8, <2>3
    <3>6. <<>> \in Seq(Edit) /\ <<>> \o <<>> = <<>>
      OBVIOUS
    <3>. QED  BY <2>1, <3>2, <3>3, <3>4, <3>5, <3>6
  <2>4. CASE i # 1
    <3>1. PICK j \in 1..n : j = i - 1 /\ j + 1 = i
      <4>1. i - 1 \in 1..n /\ (i - 1) + 1 = i
        BY <1>1, <2>4
      <4>. QED  BY <4>1
    <3>2. j \in 1..(n + 1) /\ j # 0 /\ j \in 0..(n + 1)
      BY <1>1
    <3>3. w[j] = EditsOf(E, low, To(j))
      BY <3>2
    <3>4. all[i] = Slice(T, E, To(j), To(i))
      BY <1>7, <1>8, <3>1
    <3>5. To(j) \in StartRevision..hi /\ To(i) \in StartRevision..hi /\ low <= To(j) /\ To(j) <= To(i)
      <4>1. To(j) \in StartRevision..hi /\ To(i) \in StartRevision..hi /\ low <= To(j)
            /\ p + (j - 1) \in 0..c /\ p + (i - 1) \in 0..c
        BY <1>9, <3>2
      <4>2. p + (j - 1) <= p + (i - 1)
        BY <1>1, <3>1
      <4>3. p + (j - 1) <= p + (i - 1) <=> Mark(h, p + (j - 1)) <= Mark(h, p + (i - 1))
        BY <4>1, MarksGrow DEF c
      <4>. QED  BY <4>1, <4>2, <4>3
    <3>. HIDE DEF w, To
    <3>6. all[i].edits = EditsOf(E, To(j), To(i))
      BY <3>4 DEF Slice
    <3>7. EditsOf(E, low, To(j)) \o EditsOf(E, To(j), To(i)) = EditsOf(E, low, To(i))
      <4>1. PICK x, y \in StartRevision..hi : x = To(j) /\ y = To(i) /\ low <= x /\ x <= y
        BY <3>5
      <4>2. EditsOf(E, low, x) \o EditsOf(E, x, y) = EditsOf(E, low, y)
        <5>1. EditsMeet(E, low, x, y)
          BY <1>3, <4>1, EditsJoin
        <5>. QED  BY <5>1 DEF EditsMeet
      <4>. QED  BY <4>1, <4>2
    <3>8. EditsOf(E, low, To(j)) \in Seq(Edit)
      <4>1. EditsAre(EditsOf(E, low, To(j)), E, low, To(j))
        BY <1>3, <3>5, EditsOfAre
      <4>. QED  BY <4>1 DEF EditsAre
    <3>. QED  BY <2>1, <2>2, <3>1, <3>3, <3>6, <3>7, <3>8
  <2>. QED  BY <2>1, <2>2, <2>3, <2>4
<1>12. Joins(w, all)
  <2>1. w[0] = <<>> /\ w = [i \in 0..(n + 1) |-> w[i]]
    BY <1>1
  <2>. HIDE DEF w
  <2>2. ASSUME NEW i \in 0..(n + 1) PROVE w[i] \in Seq(Edit)
    <3>1. CASE i = 0
      <4>1. <<>> \in Seq(Edit)
        OBVIOUS
      <4>. QED  BY <2>1, <3>1, <4>1
    <3>2. CASE i # 0
      <4>1. i \in 1..(n + 1)
        BY <1>1, <3>2
      <4>. QED  BY <1>11, <4>1
    <3>. QED  BY <3>1, <3>2
  <2>3. w \in [0..(n + 1) -> Seq(Edit)]
    BY <2>1, <2>2
  <2>. QED  BY <1>8, <1>11, <2>1, <2>3 DEF Joins
<1>13. To(n + 1) = high /\ n + 1 \in 1..(n + 1)
  <2>1. p + ((n + 1) - 1) = q /\ n + 1 \in 1..(n + 1)
    BY <1>1
  <2>. QED  BY <2>1 DEF high
<1>14. w[n + 1] = EditsOf(E, low, high) /\ low <= high
  <2>. HIDE DEF w, To
  <2>. QED  BY <1>9, <1>11, <1>13
<1>15. Len(w[n + 1]) <= MaximumEdits
  <2>1. EditsAre(EditsOf(E, low, high), E, low, high)
    BY <1>3, <1>14, EditsOfAre
  <2>2. high - low <= MaximumEdits
    BY MarksBound DEF low, high
  <2>. HIDE DEF w
  <2>. QED  BY <1>14, <2>1, <2>2 DEF EditsAre
<1>16. all[n + 1].afterRevision = high /\ all[n + 1].afterLength = ByteLength(T[high])
  <2>. HIDE DEF To
  <2>. QED  BY <1>9, <1>13
<1>17. m.beforeRevision = low /\ m.beforeLength = ByteLength(T[low])
  BY <1>5
<1>. HIDE DEF w, To
<1>18. ComposeAll(m, s) =
         [beforeRevision |-> m.beforeRevision, afterRevision |-> all[Len(all)].afterRevision,
          beforeLength |-> m.beforeLength, afterLength |-> all[Len(all)].afterLength,
          edits |-> w[Len(all)]]
  <2>1. Len(w[Len(all)]) <= MaximumEdits
    BY <1>8, <1>15
  <2>2. \A i \in 1..Len(s) : Adjacent(all[i], all[i + 1])
    BY <1>10
  <2>. QED  BY <1>6, <1>7, <1>12, <2>1, <2>2, ComposeUnfold DEF all
<1>19. ComposeAll(m, s) = Slice(T, E, low, high)
  BY <1>8, <1>14, <1>16, <1>17, <1>18 DEF Slice
<1>. QED  BY <1>19 DEF m, s, low, high

\* between answers for two boundaries with the map from one to the other, and
\* says why for any other pair.
LEMMA BetweenExact ==
    ASSUME NEW T, NEW E, NEW hi \in Nat, Timeline(T, E, hi), NEW h, Ring(h, T, E),
           h.currentRevision <= hi, NEW from \in Int, NEW to \in Int
    PROVE  /\ {from, to} \subseteq Boundaries(h) => Leads(between(h, from, to), T, from, to)
           /\ ~({from, to} \subseteq Boundaries(h)) =>
                between(h, from, to) = Error(IF from < h.baseRevision \/ to < h.baseRevision
                                             THEN "ErrChangeHistoryExpired" ELSE "ErrRevisionUnavailable")
<1>. DEFINE c == h.count
<1>1. /\ c \in Nat /\ h.currentRevision \in Nat /\ StartRevision \in Nat /\ h.baseRevision = Mark(h, 0)
      /\ \A i \in 0..c : Mark(h, i) \in Nat /\ Mark(h, i) \in StartRevision..h.currentRevision
  BY MarkTypes
<1>2. Boundaries(h) = {Mark(h, i) : i \in 0..c}
  BY BoundariesAre
<1>3. ASSUME NEW r \in Boundaries(h)
      PROVE  r \in Nat /\ ~(r < h.baseRevision) /\ r \in StartRevision..hi /\ \E i \in 0..c : r = Mark(h, i)
  <2>1. PICK i \in 0..c : r = Mark(h, i)
    BY <1>2
  <2>2. 0 \in 0..c /\ 0 <= i
    BY <1>1
  <2>3. 0 <= i <=> Mark(h, 0) <= Mark(h, i)
    BY <2>2, MarksGrow
  <2>. QED  BY <1>1, <2>1, <2>2, <2>3
<1>. DEFINE low == Min({from, to})
            high == Max({from, to})
            whole == ComposeAll(Identity(low, boundaryLength(h, low)), Chain(h, low, high))
<1>4. between(h, from, to) =
        IF from < h.baseRevision \/ to < h.baseRevision
        THEN Error("ErrChangeHistoryExpired")
        ELSE IF ~{from, to} \subseteq Boundaries(h)
        THEN Error("ErrRevisionUnavailable")
        ELSE IF "error" \in DOMAIN whole THEN Error("ErrRevisionUnavailable")
             ELSE IF from > to THEN Invert(whole) ELSE whole
  BY DEF between
<1>5. ASSUME NEW a \in Int, NEW b \in Int, a <= b PROVE Min({a, b}) = a /\ Max({a, b}) = b
  <2>1. a \in {a, b} /\ b \in {a, b} /\ \A y \in {a, b} : a <= y /\ b >= y
    BY <1>5
  <2>2. \A x \in {a, b} : (\A y \in {a, b} : x <= y) => x = a
    BY <1>5
  <2>3. \A x \in {a, b} : (\A y \in {a, b} : x >= y) => x = b
    BY <1>5
  <2>4. Min({a, b}) = a
    BY <2>1, <2>2 DEF Min
  <2>5. Max({a, b}) = b
    BY <2>1, <2>3 DEF Max
  <2>. QED  BY <2>4, <2>5
<1>6. ASSUME {from, to} \subseteq Boundaries(h)
      PROVE  Leads(between(h, from, to), T, from, to)
  <2>1. from \in Boundaries(h) /\ to \in Boundaries(h)
    BY <1>6
  <2>2. PICK i \in 0..c : from = Mark(h, i)
    BY <1>3, <2>1
  <2>3. PICK j \in 0..c : to = Mark(h, j)
    BY <1>3, <2>1
  <2>4. ~(from < h.baseRevision) /\ ~(to < h.baseRevision) /\ from \in StartRevision..hi /\ to \in StartRevision..hi
    BY <1>3, <2>1
  <2>5. CASE from <= to
    <3>1. low = from /\ high = to
      BY <1>5, <2>5
    <3>2. i <= j
      BY <2>2, <2>3, <2>5, MarksGrow
    <3>3. whole = Slice(T, E, from, to)
      BY <2>2, <2>3, <3>1, <3>2, ComposeChain
    <3>4. Leads(Slice(T, E, from, to), T, from, to)
      BY <2>4, <2>5, SliceLeads
    <3>. HIDE DEF whole
    <3>5. "error" \notin DOMAIN whole
      BY <3>3, <3>4, LeadsExact
    <3>6. between(h, from, to) = whole
      BY <1>4, <1>6, <2>4, <2>5, <3>5
    <3>. QED  BY <3>3, <3>4, <3>6
  <2>6. CASE ~(from <= to)
    <3>0. to <= from /\ {from, to} = {to, from}
      BY <2>6
    <3>1. low = to /\ high = from
      <4>1. Min({to, from}) = to /\ Max({to, from}) = from
        BY <1>5, <3>0
      <4>. QED  BY <3>0, <4>1
    <3>2. j <= i
      BY <2>2, <2>3, <3>0, MarksGrow
    <3>3. whole = Slice(T, E, to, from)
      BY <2>2, <2>3, <3>1, <3>2, ComposeChain
    <3>4. Leads(Slice(T, E, to, from), T, to, from) /\ Leads(Invert(Slice(T, E, to, from)), T, from, to)
      BY <2>4, <3>0, SliceLeads
    <3>. HIDE DEF whole
    <3>5. "error" \notin DOMAIN whole
      BY <3>3, <3>4, LeadsExact
    <3>6. between(h, from, to) = Invert(whole)
      BY <1>4, <1>6, <2>4, <2>6, <3>5
    <3>. QED  BY <3>3, <3>4, <3>6
  <2>. QED  BY <2>5, <2>6
<1>. HIDE DEF whole
<1>7. ASSUME ~({from, to} \subseteq Boundaries(h))
      PROVE  between(h, from, to) = Error(IF from < h.baseRevision \/ to < h.baseRevision
                                          THEN "ErrChangeHistoryExpired" ELSE "ErrRevisionUnavailable")
  <2>1. CASE from < h.baseRevision \/ to < h.baseRevision
    BY <1>4, <2>1
  <2>2. CASE ~(from < h.baseRevision \/ to < h.baseRevision)
    BY <1>4, <1>7, <2>2
  <2>. QED  BY <2>1, <2>2
<1>. QED  BY <1>6, <1>7

-----------------------------------------------------------------------------
\* A commit

LEMMA TextIs ==
    ASSUME NEW kinds \in Seq(DOMAIN Width), NEW r \in Nat
    PROVE  /\ Text(kinds, r) \in Docs /\ Len(Text(kinds, r)) = Len(kinds) /\ Len(kinds) \in Nat
           /\ \A i \in 1..Len(kinds) : /\ Text(kinds, r)[i].kind = kinds[i]
                                       /\ Text(kinds, r)[i].id = <<r, i>>
<1>. DEFINE n == Len(kinds)
            t == Text(kinds, r)
<1>1. n \in Nat /\ \A i \in 1..n : kinds[i] \in DOMAIN Width
  BY LenProperties
<1>2. t = [i \in 1..n |-> [kind |-> kinds[i], id |-> <<r, i>>]]
  BY DEF Text
<1>3. \A i \in 1..n : [kind |-> kinds[i], id |-> <<r, i>>] \in Runes
  <2>1. \A i \in 1..n : <<r, i>> \in Nat \X Nat
    BY <1>1
  <2>. QED  BY <1>1, <2>1 DEF Runes
<1>. HIDE DEF t, n
<1>4. t \in [1..n -> Runes]
  BY <1>2, <1>3
<1>5. t \in Docs /\ Len(t) = n
  BY <1>1, <1>4, SeqDef DEF Docs
<1>6. \A i \in 1..n : t[i].kind = kinds[i] /\ t[i].id = <<r, i>>
  BY <1>2
<1>. QED  BY <1>1, <1>5, <1>6 DEF t, n

LEMMA EditOfType ==
    ASSUME NEW op \in Operations
    PROVE  /\ EditOf(op) \in Edit /\ op.start \in Nat /\ op.delete \in Nat /\ op.insert \in Seq(DOMAIN Width)
           /\ EditOf(op).start = op.start /\ EditOf(op).old = op.delete
           /\ EditOf(op).new = ByteLength(Text(op.insert, 0))
<1>1. op.start \in Nat /\ op.delete \in Nat /\ op.insert \in Seq(DOMAIN Width)
  BY HistoryAssumption
<1>2. ByteLength(Text(op.insert, 0)) \in Nat
  BY <1>1, TextIs, ByteLengthType
<1>. QED  BY <1>1, <1>2 DEF EditOf, Edit

\* The runes of the document after an operation.
Pasted(d, a, x, b, y) ==
    /\ Len(y) = (a + Len(x)) + (Len(d) - b)
    /\ \A i \in 1..a : y[i] = d[i]
    /\ \A i \in 1..Len(x) : y[a + i] = x[i]
    /\ \A i \in 1..(Len(d) - b) : y[(a + Len(x)) + i] = d[b + i]

LEMMA PasteIs ==
    ASSUME NEW d \in Docs, NEW x \in Docs, NEW a \in 0..Len(d), NEW b \in 0..Len(d)
    PROVE  LET y == SubSeq(d, 1, a) \o x \o SubSeq(d, b + 1, Len(d))
           IN  y \in Docs /\ Pasted(d, a, x, b, y)
<1>. DEFINE n == Len(d)
            u == SubSeq(d, 1, a)
            v == SubSeq(d, b + 1, n)
            p == u \o x
            y == p \o v
<1>1. n \in Nat /\ a \in Nat /\ b \in Nat /\ a <= n /\ b <= n /\ \A i \in 1..n : d[i] \in Runes
  BY RuneWidths
<1>2. u \in Docs /\ Len(u) = a /\ \A i \in 1..a : u[i] = d[i]
  <2>1. \A i \in 1..a : d[i] \in Runes
    BY <1>1
  <2>2. /\ u \in Seq(Runes) /\ Len(u) = IF 1 <= a THEN a - 1 + 1 ELSE 0
        /\ \A i \in 1..(a - 1 + 1) : u[i] = d[1 + i - 1]
    BY <1>1, <2>1, SubSeqProperties
  <2>3. a - 1 + 1 = a /\ \A i \in 1..a : 1 + i - 1 = i
    BY <1>1
  <2>. HIDE DEF u
  <2>. QED  BY <1>1, <2>2, <2>3 DEF Docs
<1>3. v \in Docs /\ Len(v) = n - b /\ \A i \in 1..(n - b) : v[i] = d[b + i]
  <2>1. \A i \in (b + 1)..n : d[i] \in Runes
    BY <1>1
  <2>2. /\ v \in Seq(Runes) /\ Len(v) = IF b + 1 <= n THEN n - (b + 1) + 1 ELSE 0
        /\ \A i \in 1..(n - (b + 1) + 1) : v[i] = d[(b + 1) + i - 1]
    <3>1. b + 1 \in Int /\ n \in Int
      BY <1>1
    <3>. QED  BY <2>1, <3>1, SubSeqProperties
  <2>3. n - (b + 1) + 1 = n - b /\ \A i \in 1..(n - b) : (b + 1) + i - 1 = b + i
    BY <1>1
  <2>. HIDE DEF v
  <2>4. v \in Docs
    BY <2>2 DEF Docs
  <2>5. Len(v) = n - b
    BY <1>1, <2>2
  <2>6. \A i \in 1..(n - b) : v[i] = d[(b + 1) + i - 1]
    BY <2>2, <2>3
  <2>. HIDE DEF n
  <2>. QED  BY <2>3, <2>4, <2>5, <2>6
<1>. HIDE DEF u, v
<1>4. Len(x) \in Nat
  BY RuneWidths
<1>5. p \in Docs /\ Len(p) = a + Len(x)
      /\ \A i \in 1..(a + Len(x)) : p[i] = IF i <= a THEN u[i] ELSE x[i - a]
  BY <1>2, ConcatProperties DEF Docs
<1>. HIDE DEF p
<1>6. y \in Docs /\ Len(y) = (a + Len(x)) + (n - b)
      /\ \A i \in 1..((a + Len(x)) + (n - b)) :
            y[i] = IF i <= a + Len(x) THEN p[i] ELSE v[i - (a + Len(x))]
  <2>1. /\ y \in Seq(Runes) /\ Len(y) = Len(p) + Len(v)
        /\ \A i \in 1..(Len(p) + Len(v)) : y[i] = IF i <= Len(p) THEN p[i] ELSE v[i - Len(p)]
    <3>1. p \in Seq(Runes) /\ v \in Seq(Runes)
      BY <1>3, <1>5 DEF Docs
    <3>. QED  BY <3>1, ConcatProperties
  <2>. HIDE DEF y, n
  <2>. QED  BY <1>3, <1>5, <2>1 DEF Docs
<1>. HIDE DEF y
<1>7. ASSUME NEW i \in 1..a PROVE y[i] = d[i]
  <2>1. i \in 1..(a + Len(x)) /\ i \in 1..((a + Len(x)) + (n - b)) /\ i <= a + Len(x) /\ i <= a
    BY <1>1, <1>4
  <2>. QED  BY <1>2, <1>5, <1>6, <2>1
<1>8. ASSUME NEW i \in 1..Len(x) PROVE y[a + i] = x[i]
  <2>1. /\ a + i \in 1..(a + Len(x)) /\ a + i \in 1..((a + Len(x)) + (n - b))
        /\ a + i <= a + Len(x) /\ ~(a + i <= a) /\ (a + i) - a = i
    BY <1>1, <1>4
  <2>. QED  BY <1>5, <1>6, <2>1
<1>9. ASSUME NEW i \in 1..(n - b) PROVE y[(a + Len(x)) + i] = d[b + i]
  <2>1. /\ (a + Len(x)) + i \in 1..((a + Len(x)) + (n - b))
        /\ ~((a + Len(x)) + i <= a + Len(x)) /\ ((a + Len(x)) + i) - (a + Len(x)) = i
    BY <1>1, <1>4
  <2>. QED  BY <1>3, <1>6, <2>1
<1>10. y \in Docs /\ Pasted(d, a, x, b, y)
  BY <1>6, <1>7, <1>8, <1>9 DEF Pasted
<1>. QED  BY <1>10 DEF y, p, u, v

\* Every rune of the new document is one of the three.
FromOne(d, a, x, b, y, j) ==
    \/ j \in 1..a /\ y[j] = d[j]
    \/ \E i \in 1..Len(x) : j = a + i /\ y[j] = x[i]
    \/ \E i \in 1..(Len(d) - b) : j = (a + Len(x)) + i /\ y[j] = d[b + i]

LEMMA PastedFrom ==
    ASSUME NEW d \in Docs, NEW x \in Docs, NEW y \in Docs, NEW a \in Nat, NEW b \in 0..Len(d),
           Pasted(d, a, x, b, y), NEW j \in 1..Len(y)
    PROVE  FromOne(d, a, x, b, y, j)
<1>1. Len(d) \in Nat /\ Len(x) \in Nat /\ Len(y) = (a + Len(x)) + (Len(d) - b) /\ b \in Nat /\ b <= Len(d)
  BY RuneWidths DEF Pasted
<1>2. CASE j <= a
  <2>1. j \in 1..a
    BY <1>1, <1>2
  <2>. QED  BY <2>1 DEF Pasted, FromOne
<1>3. CASE j > a /\ j <= a + Len(x)
  <2>1. j - a \in 1..Len(x) /\ j = a + (j - a)
    BY <1>1, <1>3
  <2>2. y[a + (j - a)] = x[j - a]
    BY <2>1 DEF Pasted
  <2>. QED  BY <2>1, <2>2 DEF FromOne
<1>4. CASE j > a + Len(x)
  <2>1. j - (a + Len(x)) \in 1..(Len(d) - b) /\ j = (a + Len(x)) + (j - (a + Len(x)))
    BY <1>1, <1>4
  <2>2. y[(a + Len(x)) + (j - (a + Len(x)))] = d[b + (j - (a + Len(x)))]
    BY <2>1 DEF Pasted
  <2>. QED  BY <2>1, <2>2 DEF FromOne
<1>5. j \in Nat
  BY <1>1
<1>. QED  BY <1>1, <1>2, <1>3, <1>4, <1>5

\* An operation is one edit of the document, and what it inserts is new.
Fresh(d, y, r) == \A j \in 1..Len(y) : y[j] \in RuneSet(d) \/ y[j].id[1] = r

LEMMA ReplaceStep ==
    ASSUME NEW d \in Docs, Distinct(d), NEW r \in Nat, r # 0, Born(d, r - 1),
           NEW op \in Operations, Allowed(d, op)
    PROVE  LET y == Replace(d, op, r)
           IN  /\ y \in Docs /\ EditStep(EditOf(op), d, y)
               /\ Distinct(y) /\ Born(y, r) /\ Fresh(d, y, r)
<1>. DEFINE y == Replace(d, op, r)
            x == Text(op.insert, r)
            z == Text(op.insert, 0)
            n == Len(d)
            a == RunesBefore(d, op.start)
            b == RunesBefore(d, op.start + op.delete)
            e == EditOf(op)
<1>1. /\ e \in Edit /\ op.start \in Nat /\ op.delete \in Nat /\ op.insert \in Seq(DOMAIN Width)
      /\ e.start = op.start /\ e.old = op.delete /\ e.new = ByteLength(z)
  BY EditOfType
<1>2. x \in Docs /\ z \in Docs /\ Len(x) \in Nat /\ Len(z) = Len(x)
      /\ \A i \in 1..Len(x) : x[i].kind = z[i].kind /\ x[i].id = <<r, i>>
  <2>1. x \in Docs /\ Len(x) = Len(op.insert) /\ Len(op.insert) \in Nat
        /\ \A i \in 1..Len(op.insert) : x[i].kind = op.insert[i] /\ x[i].id = <<r, i>>
    BY <1>1, TextIs
  <2>2. z \in Docs /\ Len(z) = Len(op.insert)
        /\ \A i \in 1..Len(op.insert) : z[i].kind = op.insert[i]
    BY <1>1, TextIs
  <2>. HIDE DEF x, z
  <2>. QED  BY <2>1, <2>2
<1>3. a \in 0..n /\ Starts(d)[a] = op.start /\ b \in 0..n /\ Starts(d)[b] = op.start + op.delete
  <2>1. (\E k \in 0..n : Starts(d)[k] = op.start) /\ (\E k \in 0..n : Starts(d)[k] = op.start + op.delete)
    BY DEF Allowed, IsBoundary
  <2>. QED  BY <2>1 DEF RunesBefore
<1>. HIDE DEF a, b
<1>4. n \in Nat /\ a \in Nat /\ b \in Nat /\ a <= n /\ b <= n
  BY <1>3, RuneWidths
<1>5. a <= b
  <2>1. a <= b <=> Starts(d)[a] <= Starts(d)[b]
    BY <1>3, StartsGrow
  <2>. QED  BY <1>1, <1>3, <2>1
<1>6. y \in Docs /\ Pasted(d, a, x, b, y)
  <2>. HIDE DEF x
  <2>1. LET v == SubSeq(d, 1, a) \o x \o SubSeq(d, b + 1, Len(d)) IN v \in Docs /\ Pasted(d, a, x, b, v)
    BY <1>2, <1>3, PasteIs
  <2>. QED  BY <2>1 DEF Replace, x, a, b
<1>. HIDE DEF x, y, z, e
<1>7. Len(y) = (a + Len(x)) + (n - b) /\ Len(y) \in Nat
  BY <1>2, <1>4, <1>6 DEF Pasted
<1>8. PICK k, m \in Nat : k = b - a /\ a + k = b /\ m = Len(x)
  <2>1. b - a \in Nat /\ a + (b - a) = b
    BY <1>4, <1>5
  <2>. QED  BY <1>2, <2>1
<1>9. ASSUME NEW i \in 1..Len(x), NEW l \in 1..n PROVE x[i] # d[l] /\ x[i].id[1] = r
  <2>1. x[i].id = <<r, i>>
    BY <1>2
  <2>2. d[l].id[1] <= r - 1 /\ d[l].id[1] \in Nat
    <3>1. d[l] \in Runes
      BY RuneWidths
    <3>. QED  BY <3>1 DEF Born, Runes
  <2>3. x[i].id[1] = r
    BY <2>1
  <2>. QED  BY <2>2, <2>3
<1>21. \A j \in 1..Len(y) : FromOne(d, a, x, b, y, j)
  BY <1>2, <1>3, <1>4, <1>6, PastedFrom
<1>10. ASSUME NEW i \in (a + 1)..(a + k), NEW j \in 1..Len(y) PROVE d[i] # y[j]
  <2>1. i \in 1..n /\ i \in Nat
    BY <1>4, <1>8
  <2>2. CASE j \in 1..a /\ y[j] = d[j]
    <3>1. j \in 1..n /\ i # j
      BY <1>4, <2>2
    <3>. QED  BY <2>1, <2>2, <3>1 DEF Distinct
  <2>3. CASE \E l \in 1..Len(x) : j = a + l /\ y[j] = x[l]
    BY <1>9, <2>1, <2>3
  <2>4. CASE \E l \in 1..(n - b) : j = (a + Len(x)) + l /\ y[j] = d[b + l]
    <3>1. PICK l \in 1..(n - b) : y[j] = d[b + l]
      BY <2>4
    <3>2. b + l \in 1..n /\ i # b + l
      BY <1>4, <1>8
    <3>. QED  BY <2>1, <3>1, <3>2 DEF Distinct
  <2>5. \/ j \in 1..a /\ y[j] = d[j]
        \/ \E l \in 1..Len(x) : j = a + l /\ y[j] = x[l]
        \/ \E l \in 1..(n - b) : j = (a + Len(x)) + l /\ y[j] = d[b + l]
    BY <1>21 DEF FromOne
  <2>. QED  BY <2>2, <2>3, <2>4, <2>5
<1>11. ASSUME NEW i \in (a + 1)..(a + m), NEW j \in 1..n PROVE y[i] # d[j]
  <2>1. PICK l \in 1..Len(x) : i = a + l
    <3>1. i - a \in 1..Len(x) /\ i = a + (i - a)
      BY <1>4, <1>8
    <3>. QED  BY <3>1
  <2>2. y[i] = x[l]
    BY <1>6, <2>1 DEF Pasted
  <2>. QED  BY <1>9, <2>2
<1>12. SameRunes(d, 0, y, 0, a) /\ SameRunes(d, a + k, y, a + m, n - (a + k))
  <2>1. \A i \in 1..a : 0 + i = i
    BY <1>4
  <2>2. SameRunes(d, 0, y, 0, a)
    BY <1>6, <2>1 DEF Pasted, SameRunes
  <2>3. SameRunes(d, b, y, a + Len(x), n - b)
    BY <1>6 DEF Pasted, SameRunes
  <2>. QED  BY <1>8, <2>2, <2>3
<1>13. Starts(y)[a] = op.start
  <2>1. SameKinds(d, 0, y, 0, a) /\ 0 + a = a
    BY <1>4, <1>12 DEF SameRunes, SameKinds
  <2>2. 0 + a <= Len(d) /\ 0 + a <= Len(y)
    BY <1>2, <1>4, <1>7
  <2>3. Starts(d)[0 + a] + Starts(y)[0] = Starts(y)[0 + a] + Starts(d)[0]
    BY <1>4, <1>6, <2>1, <2>2, StartsShift
  <2>4. Starts(d)[0] = 0 /\ Starts(y)[0] = 0 /\ Starts(y) \in [0..Len(y) -> Nat] /\ a \in 0..Len(y)
    <3>1. a \in 0..Len(y)
      BY <1>2, <1>4, <1>7
    <3>. QED  BY <1>6, <3>1, StartsUnfold
  <2>5. PICK u \in Nat : u = Starts(y)[a]
    BY <2>4
  <2>6. op.start + 0 = u + 0
    BY <1>3, <2>1, <2>3, <2>4, <2>5
  <2>. QED  BY <1>1, <2>5, <2>6
<1>14. Starts(y)[a + m] = op.start + ByteLength(z)
  <2>1. SameKinds(y, a, z, 0, m)
    <3>1. ASSUME NEW i \in 1..m PROVE y[a + i].kind = z[0 + i].kind
      <4>1. y[a + i] = x[i] /\ 0 + i = i
        BY <1>6, <1>8 DEF Pasted
      <4>. QED  BY <1>2, <1>8, <4>1
    <3>. QED  BY <3>1 DEF SameKinds
  <2>2. a + m <= Len(y) /\ 0 + m <= Len(z) /\ 0 + m = m /\ a + m \in 0..Len(y)
    BY <1>2, <1>4, <1>7, <1>8
  <2>3. Starts(y)[a + m] + Starts(z)[0] = Starts(z)[0 + m] + Starts(y)[a]
    BY <1>2, <1>4, <1>6, <2>1, <2>2, StartsShift
  <2>4. Starts(z)[0] = 0 /\ Starts(y) \in [0..Len(y) -> Nat] /\ ByteLength(z) \in Nat
    BY <1>2, <1>6, StartsUnfold, ByteLengthType
  <2>5. ByteLength(z) = Starts(z)[m]
    BY <1>2, <1>8 DEF ByteLength
  <2>6. PICK u, v \in Nat : u = Starts(y)[a + m] /\ v = ByteLength(z)
    BY <2>2, <2>4
  <2>7. u + 0 = v + op.start
    BY <1>13, <2>2, <2>3, <2>4, <2>5, <2>6
  <2>8. u = op.start + v
    BY <1>1, <2>7
  <2>. QED  BY <2>6, <2>8
<1>15. Splice(e, d, y, a, k, m)
  <2>1. a + k <= n /\ a + m <= Len(y) /\ n + m = Len(y) + k
    BY <1>4, <1>7, <1>8
  <2>2. Gone(d, a, k, y)
    BY <1>10 DEF Gone
  <2>3. Gone(y, a, m, d)
    BY <1>11 DEF Gone
  <2>. QED  BY <1>1, <1>3, <1>8, <1>12, <1>13, <1>14, <2>1, <2>2, <2>3 DEF Splice
<1>16. EditStep(e, d, y)
  BY <1>4, <1>8, <1>15 DEF EditStep
<1>17. ASSUME NEW j \in 1..Len(y)
       PROVE  (\E i \in 1..n : y[j] = d[i]) \/ y[j].id[1] = r
  <2>1. \/ j \in 1..a /\ y[j] = d[j]
        \/ \E l \in 1..Len(x) : j = a + l /\ y[j] = x[l]
        \/ \E l \in 1..(n - b) : j = (a + Len(x)) + l /\ y[j] = d[b + l]
    BY <1>21 DEF FromOne
  <2>2. CASE j \in 1..a /\ y[j] = d[j]
    <3>1. j \in 1..n
      BY <1>4, <2>2
    <3>. QED  BY <2>2, <3>1
  <2>3. CASE \E l \in 1..Len(x) : j = a + l /\ y[j] = x[l]
    <3>1. PICK l \in 1..Len(x) : y[j] = x[l]
      BY <2>3
    <3>2. x[l].id = <<r, l>>
      BY <1>2
    <3>. QED  BY <3>1, <3>2
  <2>4. CASE \E l \in 1..(n - b) : j = (a + Len(x)) + l /\ y[j] = d[b + l]
    <3>1. PICK l \in 1..(n - b) : y[j] = d[b + l]
      BY <2>4
    <3>2. b + l \in 1..n
      BY <1>4
    <3>. QED  BY <3>1, <3>2
  <2>. QED  BY <2>1, <2>2, <2>3, <2>4
<1>18. Born(y, r)
  <2>1. ASSUME NEW j \in 1..Len(y) PROVE y[j].id[1] <= r
    <3>1. CASE \E i \in 1..n : y[j] = d[i]
      <4>1. PICK i \in 1..n : y[j] = d[i]
        BY <3>1
      <4>2. d[i].id[1] <= r - 1 /\ d[i].id[1] \in Nat
        <5>1. d[i] \in Runes
          BY RuneWidths
        <5>. QED  BY <5>1 DEF Born, Runes
      <4>. QED  BY <4>1, <4>2
    <3>2. CASE y[j].id[1] = r
      BY <3>2
    <3>. QED  BY <1>17, <3>1, <3>2
  <2>. QED  BY <2>1 DEF Born
<1>19. Fresh(d, y, r)
  BY <1>17 DEF Fresh, RuneSet
<1>20. Distinct(y)
  <2>. SUFFICES ASSUME NEW i \in 1..Len(y), NEW j \in 1..Len(y), y[i] = y[j] PROVE i = j
    BY DEF Distinct
  <2>. DEFINE At(p, q) == \/ p \in 1..a /\ q = p
                          \/ \E l \in 1..(n - b) : p = (a + Len(x)) + l /\ q = b + l
  <2>1. ASSUME NEW p \in 1..Len(y)
        PROVE  \/ \E q \in 1..n : y[p] = d[q] /\ At(p, q)
               \/ \E l \in 1..Len(x) : p = a + l /\ y[p] = x[l]
    <3>1. \/ p \in 1..a /\ y[p] = d[p]
          \/ \E l \in 1..Len(x) : p = a + l /\ y[p] = x[l]
          \/ \E l \in 1..(n - b) : p = (a + Len(x)) + l /\ y[p] = d[b + l]
      BY <1>21 DEF FromOne
    <3>2. CASE p \in 1..a /\ y[p] = d[p]
      <4>1. p \in 1..n
        BY <1>4, <3>2
      <4>. QED  BY <3>2, <4>1
    <3>3. CASE \E l \in 1..(n - b) : p = (a + Len(x)) + l /\ y[p] = d[b + l]
      <4>1. PICK l \in 1..(n - b) : p = (a + Len(x)) + l /\ y[p] = d[b + l]
        BY <3>3
      <4>2. b + l \in 1..n /\ At(p, b + l)
        BY <1>4, <4>1
      <4>. HIDE DEF At
      <4>. QED  BY <4>1, <4>2
    <3>. HIDE DEF At
    <3>. QED  BY <3>1, <3>2, <3>3
  <2>2. CASE (\E q \in 1..n : y[i] = d[q] /\ At(i, q)) /\ (\E q \in 1..n : y[j] = d[q] /\ At(j, q))
    <3>1. PICK q \in 1..n : y[i] = d[q] /\ At(i, q)
      BY <2>2
    <3>2. PICK s \in 1..n : y[j] = d[s] /\ At(j, s)
      BY <2>2
    <3>3. q = s
      <4>. HIDE DEF At
      <4>. QED  BY <3>1, <3>2 DEF Distinct
    <3>4. PICK lx \in Nat : lx = Len(x)
      BY <1>2
    <3>5. \/ i \in 1..a /\ q = i
          \/ \E l \in 1..(n - b) : i = (a + lx) + l /\ q = b + l
      BY <3>1, <3>4
    <3>6. \/ j \in 1..a /\ q = j
          \/ \E l \in 1..(n - b) : j = (a + lx) + l /\ q = b + l
      BY <3>2, <3>3, <3>4
    <3>. QED  BY <1>4, <1>5, <3>4, <3>5, <3>6
  <2>3. CASE (\E l \in 1..Len(x) : i = a + l /\ y[i] = x[l]) /\ (\E l \in 1..Len(x) : j = a + l /\ y[j] = x[l])
    <3>1. PICK l \in 1..Len(x) : i = a + l /\ y[i] = x[l]
      BY <2>3
    <3>2. PICK s \in 1..Len(x) : j = a + s /\ y[j] = x[s]
      BY <2>3
    <3>3. <<r, l>> = <<r, s>>
      BY <1>2, <3>1, <3>2
    <3>. QED  BY <3>1, <3>2, <3>3
  <2>. HIDE DEF At
  <2>4. CASE (\E q \in 1..n : y[i] = d[q]) /\ (\E l \in 1..Len(x) : y[j] = x[l])
    BY <1>9, <2>4
  <2>5. CASE (\E q \in 1..n : y[j] = d[q]) /\ (\E l \in 1..Len(x) : y[i] = x[l])
    BY <1>9, <2>5
  <2>. QED  BY <2>1, <2>2, <2>3, <2>4, <2>5
<1>. QED  BY <1>6, <1>16, <1>18, <1>19, <1>20 DEF y, e

\* The timeline goes on by one operation.
LEMMA TimelineStep ==
    ASSUME NEW T, NEW E, NEW hi \in Nat, StartRevision <= hi, Timeline(T, E, hi),
           NEW op \in Operations, Allowed(T[hi], op)
    PROVE  \E S, F : /\ Timeline(S, F, hi + 1) /\ Extends(T, E, S, F, hi)
                     /\ S[hi + 1] = Replace(T[hi], op, hi + 1) /\ F[hi + 1] = EditOf(op)
<1>. DEFINE y == Replace(T[hi], op, hi + 1)
            e == EditOf(op)
            S == [r \in StartRevision..(hi + 1) |-> IF r = hi + 1 THEN y ELSE T[r]]
            F == [r \in (StartRevision + 1)..(hi + 1) |-> IF r = hi + 1 THEN e ELSE E[r]]
<1>1. StartRevision \in Nat /\ hi \in StartRevision..hi /\ hi + 1 # 0 /\ hi + 1 \in Nat /\ (hi + 1) - 1 = hi
  BY HistoryAssumption
<1>2. T[hi] \in Docs /\ Distinct(T[hi]) /\ Born(T[hi], (hi + 1) - 1)
  BY <1>1 DEF Timeline
<1>3. y \in Docs /\ EditStep(e, T[hi], y) /\ Distinct(y) /\ Born(y, hi + 1) /\ Fresh(T[hi], y, hi + 1)
  BY <1>1, <1>2, ReplaceStep
<1>4. e \in Edit
  BY EditOfType
<1>. HIDE DEF y, e
<1>5. \A r \in StartRevision..(hi + 1) : r = hi + 1 \/ (r \in StartRevision..hi /\ r # hi + 1)
  BY <1>1
<1>6. \A r \in (StartRevision + 1)..(hi + 1) : r = hi + 1 \/ (r \in (StartRevision + 1)..hi /\ r # hi + 1)
  BY <1>1
<1>7. S[hi + 1] = y /\ F[hi + 1] = e
  BY <1>1
<1>8. (\A r \in StartRevision..hi : S[r] = T[r]) /\ (\A r \in (StartRevision + 1)..hi : F[r] = E[r])
  BY <1>1
<1>9. S \in [StartRevision..(hi + 1) -> Docs] /\ F \in [(StartRevision + 1)..(hi + 1) -> Edit]
  BY <1>3, <1>4, <1>5, <1>6 DEF Timeline
<1>. HIDE DEF S, F
<1>10. ASSUME NEW r \in (StartRevision + 1)..(hi + 1) PROVE EditStep(F[r], S[r - 1], S[r])
  <2>1. CASE r = hi + 1
    BY <1>1, <1>3, <1>7, <1>8, <2>1
  <2>2. CASE r # hi + 1
    <3>1. r \in (StartRevision + 1)..hi /\ r \in StartRevision..hi /\ r - 1 \in StartRevision..hi
      BY <1>1, <2>2
    <3>. QED  BY <1>8, <3>1 DEF Timeline
  <2>. QED  BY <2>1, <2>2
<1>11. ASSUME NEW r \in StartRevision..(hi + 1) PROVE Distinct(S[r]) /\ Born(S[r], r)
  <2>1. CASE r = hi + 1
    BY <1>3, <1>7, <2>1
  <2>2. CASE r # hi + 1
    <3>1. r \in StartRevision..hi
      BY <1>1, <2>2
    <3>. QED  BY <1>8, <3>1 DEF Timeline
  <2>. QED  BY <2>1, <2>2
<1>12. ASSUME NEW a \in StartRevision..(hi + 1), NEW b \in StartRevision..(hi + 1),
              NEW c \in StartRevision..(hi + 1), a <= c, c <= b
       PROVE  RuneSet(S[a]) \cap RuneSet(S[b]) \subseteq RuneSet(S[c])
  <2>1. CASE b # hi + 1
    <3>1. a \in StartRevision..hi /\ b \in StartRevision..hi /\ c \in StartRevision..hi
      BY <1>1, <1>12, <2>1
    <3>2. RuneSet(T[a]) \cap RuneSet(T[b]) \subseteq RuneSet(T[c])
      BY <1>12, <3>1 DEF Timeline
    <3>. QED  BY <1>8, <3>1, <3>2
  <2>2. CASE b = hi + 1 /\ (c = b \/ a = c)
    BY <2>2
  <2>3. CASE b = hi + 1 /\ c # b /\ a # c
    <3>1. a \in StartRevision..hi /\ c \in StartRevision..hi /\ c <= hi /\ a \in Nat /\ a <= hi
      BY <1>1, <1>12, <2>3
    <3>2. RuneSet(T[a]) \cap RuneSet(T[hi]) \subseteq RuneSet(T[c])
      BY <1>1, <1>12, <3>1 DEF Timeline
    <3>3. ASSUME NEW z \in RuneSet(T[a]) \cap RuneSet(y) PROVE z \in RuneSet(T[c])
      <4>1. PICK i \in 1..Len(T[a]) : z = T[a][i]
        BY DEF RuneSet
      <4>2. PICK j \in 1..Len(y) : z = y[j]
        BY DEF RuneSet
      <4>3. z.id[1] <= a /\ z.id[1] \in Nat
        <5>1. Born(T[a], a) /\ T[a] \in Docs
          BY <3>1 DEF Timeline
        <5>2. T[a][i] \in Runes
          BY <5>1, RuneWidths
        <5>. QED  BY <4>1, <5>1, <5>2 DEF Born, Runes
      <4>4. z.id[1] # hi + 1
        BY <3>1, <4>3
      <4>5. z \in RuneSet(T[hi])
        BY <1>3, <4>2, <4>4 DEF Fresh
      <4>. QED  BY <3>2, <4>5
    <3>. QED  BY <1>7, <1>8, <2>3, <3>1, <3>3
  <2>. QED  BY <2>1, <2>2, <2>3
<1>13. Timeline(S, F, hi + 1)
  BY <1>9, <1>10, <1>11, <1>12 DEF Timeline
<1>14. Extends(T, E, S, F, hi)
  BY <1>8 DEF Extends
<1>. QED  BY <1>7, <1>13, <1>14 DEF y, e

\* The documents of a batch.
BatchBody(g, d, r, batch) ==
    [i \in 0..Len(batch) |-> IF i = 0 THEN d ELSE Replace(g[i - 1], batch[i], r + i)]
BatchDocs(d, r, batch) == CHOOSE g : g = BatchBody(g, d, r, batch)

LEMMA BatchDocsUnfold ==
    ASSUME NEW d, NEW r, NEW batch, Len(batch) \in Nat
    PROVE  /\ BatchDocs(d, r, batch)[0] = d
           /\ \A i \in 1..Len(batch) :
                BatchDocs(d, r, batch)[i] = Replace(BatchDocs(d, r, batch)[i - 1], batch[i], r + i)
<1>. DEFINE n == Len(batch)
            Val(g, i) == IF i = 0 THEN d ELSE Replace(g[i - 1], batch[i], r + i)
            Right(g, m) == \A i \in 0..n : i <= m => g[i] = Val(g, i)
            Done == {m \in Nat : \E g : Right(g, m)}
<1>1. 0 \in Done
  <2>. DEFINE g == [i \in 0..n |-> d]
  <2>1. Right(g, 0)
    OBVIOUS
  <2>. HIDE DEF g, Right
  <2>. QED  BY <2>1
<1>2. ASSUME NEW m \in Nat, m \in Done PROVE m + 1 \in Done
  <2>1. PICK g : Right(g, m)
    BY <1>2
  <2>. DEFINE f == [i \in 0..n |-> Val(g, i)]
  <2>2. ASSUME NEW i \in 0..n, i <= m + 1 PROVE f[i] = Val(f, i)
    <3>1. CASE i = 0
      BY <3>1
    <3>2. CASE i # 0
      <4>1. i - 1 \in 0..n /\ i - 1 <= m
        BY <2>2, <3>2
      <4>2. g[i - 1] = Val(g, i - 1)
        <5>. HIDE DEF Val
        <5>. QED  BY <2>1, <4>1
      <4>3. f[i - 1] = Val(g, i - 1) /\ f[i] = Val(g, i)
        <5>. HIDE DEF Val
        <5>. QED  BY <4>1
      <4>4. f[i - 1] = g[i - 1]
        <5>. HIDE DEF Val, f
        <5>. QED  BY <4>2, <4>3
      <4>. HIDE DEF f
      <4>. QED  BY <3>2, <4>3, <4>4
    <3>. QED  BY <3>1, <3>2
  <2>3. Right(f, m + 1)
    <3>. HIDE DEF Val, f
    <3>. QED  BY <2>2
  <2>. HIDE DEF f, Right
  <2>. QED  BY <2>3
<1>3. \A m \in Nat : m \in Done
  <2>. HIDE DEF Done
  <2>. QED  BY <1>1, <1>2, SetInduction
<1>4. PICK g : Right(g, n)
  <2>1. n \in Done
    BY <1>3
  <2>. HIDE DEF Right
  <2>. QED  BY <2>1
<1>. DEFINE f == [i \in 0..n |-> g[i]]
<1>5. f = BatchBody(f, d, r, batch)
  <2>1. ASSUME NEW i \in 0..n PROVE f[i] = (IF i = 0 THEN d ELSE Replace(f[i - 1], batch[i], r + i))
    <3>1. g[i] = Val(g, i) /\ f[i] = g[i]
      BY <1>4
    <3>2. CASE i = 0
      BY <3>1, <3>2
    <3>3. CASE i # 0
      <4>1. i - 1 \in 0..n
        BY <3>3
      <4>2. f[i - 1] = g[i - 1]
        BY <4>1
      <4>. HIDE DEF f
      <4>. QED  BY <3>1, <3>3, <4>2
    <3>. QED  BY <3>2, <3>3
  <2>2. f = [i \in 0..n |-> f[i]]
    OBVIOUS
  <2>. HIDE DEF f
  <2>. QED  BY <2>1, <2>2 DEF BatchBody
<1>6. BatchDocs(d, r, batch) = BatchBody(BatchDocs(d, r, batch), d, r, batch)
  <2>. HIDE DEF f
  <2>. QED  BY <1>5 DEF BatchDocs
<1>. DEFINE b == BatchDocs(d, r, batch)
<1>7. b = [i \in 0..n |-> IF i = 0 THEN d ELSE Replace(b[i - 1], batch[i], r + i)]
  BY <1>6 DEF BatchBody
<1>. HIDE DEF b
<1>8. b[0] = d
  <2>1. 0 \in 0..n
    OBVIOUS
  <2>. QED  BY <1>7, <2>1
<1>9. ASSUME NEW i \in 1..n PROVE b[i] = Replace(b[i - 1], batch[i], r + i)
  <2>1. i \in 0..n /\ i # 0
    OBVIOUS
  <2>. QED  BY <1>7, <2>1
<1>. QED  BY <1>8, <1>9 DEF b

LEMMA BatchTypes ==
    ASSUME NEW batch \in Batches
    PROVE  /\ Len(batch) \in 1..MaxBatchOperations /\ Len(batch) \in Nat
           /\ \A i \in 1..Len(batch) : batch[i] \in Operations
           /\ batch = [i \in 1..Len(batch) |-> batch[i]]
<1>1. PICK n \in 1..MaxBatchOperations : batch \in [1..n -> Operations]
  BY DEF Batches
<1>2. n \in Nat
  BY HistoryAssumption
<1>3. batch \in Seq(Operations) /\ Len(batch) = n
  BY <1>1, <1>2, SeqDef
<1>. QED  BY <1>1, <1>2, <1>3

\* docs are the documents of the batch from T[r] on, each operation allowed.
Staged(docs, d, r, batch) ==
    /\ docs[0] = d
    /\ \A i \in 1..Len(batch) : /\ docs[i] = Replace(docs[i - 1], batch[i], r + i)
                                /\ Allowed(docs[i - 1], batch[i])

\* S and F go on from the timeline T, E of revision r through the first n
\* operations of the batch.
GoesOn(T, E, S, F, r, docs, batch, n) ==
    /\ Timeline(S, F, r + n) /\ Extends(T, E, S, F, r) /\ S[r + n] = docs[n]
    /\ \A j \in 1..n : F[r + j] = EditOf(batch[j])

LEMMA CommitTimeline ==
    ASSUME NEW T, NEW E, NEW r \in Nat, StartRevision <= r, Timeline(T, E, r),
           NEW batch \in Batches, NEW docs, Staged(docs, T[r], r, batch)
    PROVE  \E S, F : GoesOn(T, E, S, F, r, docs, batch, Len(batch))
<1>. DEFINE n == Len(batch)
            Reaches(S, F, i) == GoesOn(T, E, S, F, r, docs, batch, i)
            Done == {i \in Nat : i <= n => \E S, F : Reaches(S, F, i)}
<1>1. n \in Nat /\ (\A i \in 1..n : batch[i] \in Operations) /\ StartRevision \in Nat
  BY BatchTypes, HistoryAssumption
<1>. HIDE DEF n
<1>2. 0 \in Done
  <2>1. r + 0 = r /\ Extends(T, E, T, E, r) /\ docs[0] = T[r]
    BY DEF Extends, Staged
  <2>2. Reaches(T, E, 0)
    BY <2>1 DEF GoesOn
  <2>. HIDE DEF Reaches
  <2>. QED  BY <2>2
<1>3. ASSUME NEW m \in Nat, m \in Done PROVE m + 1 \in Done
  <2>. SUFFICES ASSUME m + 1 <= n PROVE \E S, F : Reaches(S, F, m + 1)
    <3>. HIDE DEF Reaches
    <3>. QED  OBVIOUS
  <2>1. PICK S, F : Reaches(S, F, m)
    <3>1. m <= n
      BY <1>1
    <3>. HIDE DEF Reaches
    <3>. QED  BY <1>3, <3>1
  <2>2. Timeline(S, F, r + m) /\ Extends(T, E, S, F, r) /\ S[r + m] = docs[m]
        /\ \A j \in 1..m : F[r + j] = EditOf(batch[j])
    BY <2>1 DEF GoesOn
  <2>3. PICK k \in 1..n : k = m + 1 /\ k - 1 = m /\ r + k = (r + m) + 1
    <3>1. m + 1 \in 1..n /\ (m + 1) - 1 = m /\ r + (m + 1) = (r + m) + 1
      BY <1>1
    <3>. QED  BY <3>1
  <2>4. batch[k] \in Operations /\ Allowed(S[r + m], batch[k]) /\ docs[k] = Replace(S[r + m], batch[k], r + k)
    BY <1>1, <2>2, <2>3 DEF Staged, n
  <2>5. r + m \in Nat /\ StartRevision <= r + m
    BY <1>1
  <2>6. PICK U, G : /\ Timeline(U, G, (r + m) + 1) /\ Extends(S, F, U, G, r + m)
                    /\ U[(r + m) + 1] = Replace(S[r + m], batch[k], (r + m) + 1)
                    /\ G[(r + m) + 1] = EditOf(batch[k])
    BY <2>2, <2>4, <2>5, TimelineStep
  <2>7. Extends(T, E, U, G, r)
    <3>1. ASSUME NEW x \in StartRevision..r PROVE U[x] = T[x]
      <4>1. x \in StartRevision..(r + m)
        BY <1>1
      <4>. QED  BY <2>2, <2>6, <4>1 DEF Extends
    <3>2. ASSUME NEW x \in (StartRevision + 1)..r PROVE G[x] = E[x]
      <4>1. x \in (StartRevision + 1)..(r + m)
        BY <1>1
      <4>. QED  BY <2>2, <2>6, <4>1 DEF Extends
    <3>. QED  BY <3>1, <3>2 DEF Extends
  <2>8. ASSUME NEW j \in 1..k PROVE G[r + j] = EditOf(batch[j])
    <3>1. CASE j = k
      BY <2>3, <2>6, <3>1
    <3>2. CASE j # k
      <4>1. j \in 1..m /\ r + j \in (StartRevision + 1)..(r + m)
        BY <1>1, <2>3, <3>2
      <4>. QED  BY <2>2, <2>6, <4>1 DEF Extends
    <3>. QED  BY <3>1, <3>2
  <2>9. Reaches(U, G, k)
    BY <2>3, <2>4, <2>6, <2>7, <2>8 DEF GoesOn
  <2>. HIDE DEF Reaches
  <2>. QED  BY <2>3, <2>9
<1>4. \A m \in Nat : m \in Done
  <2>. HIDE DEF Done
  <2>. QED  BY <1>2, <1>3, SetInduction
<1>5. \E S, F : Reaches(S, F, n)
  <2>1. n \in Done /\ n <= n
    <3>. HIDE DEF Done
    <3>. QED  BY <1>1, <1>4
  <2>. HIDE DEF Reaches
  <2>. QED  BY <2>1
<1>. QED  BY <1>5 DEF n

\* The map a commit appends is the slice of the timeline.
LEMMA CommitSlice ==
    ASSUME NEW T, NEW E, NEW S, NEW F, NEW r \in Nat, StartRevision <= r, NEW batch \in Batches,
           NEW docs, GoesOn(T, E, S, F, r, docs, batch, Len(batch))
    PROVE  NewChangeMap(r, r + Len(batch), ByteLength(T[r]), [i \in 1..Len(batch) |-> EditOf(batch[i])])
             = Slice(S, F, r, r + Len(batch))
<1>. DEFINE n == Len(batch)
            after == r + n
            edits == [i \in 1..n |-> EditOf(batch[i])]
            m == Slice(S, F, r, after)
<1>1. n \in Nat /\ StartRevision \in Nat /\ after \in Nat /\ r \in StartRevision..after
      /\ after \in StartRevision..after /\ r <= after /\ after - r = n /\ r \in StartRevision..r
  BY BatchTypes, HistoryAssumption
<1>2. /\ Timeline(S, F, after) /\ Extends(T, E, S, F, r)
      /\ \A j \in 1..n : F[r + j] = EditOf(batch[j])
  BY DEF GoesOn
<1>3. edits = EditsOf(F, r, after)
  <2>1. EditsOf(F, r, after) = [j \in 1..n |-> F[r + j]]
    <3>. HIDE DEF n, after
    <3>. QED  BY <1>1 DEF EditsOf
  <2>. HIDE DEF n
  <2>. QED  BY <1>2, <2>1
<1>. HIDE DEF n, after
<1>4. Leads(m, S, r, after)
  BY <1>1, <1>2, SliceLeads
<1>5. /\ m.beforeLength = ByteLength(S[r]) /\ m.afterLength = ByteLength(S[after]) /\ m.edits = EditsOf(F, r, after)
  BY DEF Slice
<1>6. Lengths(m.beforeLength, m.edits)[Len(m.edits)] = m.afterLength
  BY <1>4, LeadsExact
<1>7. S[r] = T[r]
  BY <1>1, <1>2 DEF Extends
<1>. HIDE DEF m, edits
<1>8. Lengths(ByteLength(T[r]), edits)[Len(edits)] = ByteLength(S[after])
  BY <1>3, <1>5, <1>6, <1>7
<1>9. NewChangeMap(r, after, ByteLength(T[r]), edits) =
        [beforeRevision |-> r, afterRevision |-> after, beforeLength |-> ByteLength(S[r]),
         afterLength |-> ByteLength(S[after]), edits |-> EditsOf(F, r, after)]
  BY <1>3, <1>7, <1>8 DEF NewChangeMap
<1>. QED  BY <1>9 DEF Slice, edits, n, after

-----------------------------------------------------------------------------
\* The published revisions and the ring

\* Every published revision is on the timeline, and the boundaries of the ring
\* are the last of them.
Notes(p, h, T, hi) ==
    /\ p \in Seq([revision : Nat, doc : Docs]) /\ Len(p) # 0
    /\ \A k \in 1..Len(p) : p[k].revision \in StartRevision..hi /\ p[k].doc = T[p[k].revision]
    /\ h.count = IF Len(p) <= Limit THEN Len(p) - 1 ELSE Limit
    /\ \A i \in 0..h.count : Mark(h, i) = p[(Len(p) - h.count) + i].revision

LEMMA NotesTypes ==
    ASSUME NEW p, NEW h, NEW T, NEW hi \in Nat, Notes(p, h, T, hi)
    PROVE  /\ Len(p) \in Nat \ {0} /\ h.count \in Nat /\ h.count < Len(p) /\ h.count <= Limit
           /\ \A i \in 0..h.count : (Len(p) - h.count) + i \in 1..Len(p)
<1>1. Len(p) \in Nat \ {0}
  BY LenProperties DEF Notes
<1>2. Limit \in Nat \ {0}
  BY HistoryAssumption
<1>3. h.count = IF Len(p) <= Limit THEN Len(p) - 1 ELSE Limit
  BY DEF Notes
<1>4. h.count \in Nat /\ h.count < Len(p) /\ h.count <= Limit
  BY <1>1, <1>2, <1>3
<1>. QED  BY <1>1, <1>4

LEMMA NotesGrow ==
    ASSUME NEW T, NEW E, NEW S, NEW F, NEW hi \in Nat, NEW after \in Nat, hi <= after,
           Timeline(S, F, after), StartRevision <= after, Extends(T, E, S, F, hi),
           NEW p, NEW h, Notes(p, h, T, hi), NEW n, NEW k, k = (IF h.count = Limit THEN 1 ELSE 0),
           n.count = (h.count + 1) - k, Ring(n, S, F), n.currentRevision = after,
           \A i \in 0..(n.count - 1) : Mark(n, i) = Mark(h, i + k)
    PROVE  Notes(Append(p, [revision |-> after, doc |-> S[after]]), n, S, after)
<1>. DEFINE new == [revision |-> after, doc |-> S[after]]
            q == Append(p, new)
            Kept == [revision : Nat, doc : Docs]
<1>1. /\ Len(p) \in Nat \ {0} /\ h.count \in Nat /\ h.count < Len(p) /\ h.count <= Limit
      /\ \A i \in 0..h.count : (Len(p) - h.count) + i \in 1..Len(p)
  BY NotesTypes
<1>2. StartRevision \in Nat /\ Limit \in Nat \ {0}
  BY HistoryAssumption
<1>3. p \in Seq(Kept)
  BY DEF Notes
<1>4. new \in Kept /\ new.revision = after /\ new.doc = S[after]
  <2>1. S[after] \in Docs
    <3>1. after \in StartRevision..after
      BY <1>2
    <3>. QED  BY <3>1 DEF Timeline
  <2>. QED  BY <2>1
<1>. HIDE DEF new, Kept
<1>5. q \in Seq(Kept) /\ Len(q) = Len(p) + 1 /\ (\A i \in 1..Len(p) : q[i] = p[i]) /\ q[Len(p) + 1] = new
  BY <1>3, <1>4, AppendProperties
<1>. HIDE DEF q
<1>6. ASSUME NEW i \in 1..Len(q) PROVE q[i].revision \in StartRevision..after /\ q[i].doc = S[q[i].revision]
  <2>1. CASE i = Len(p) + 1
    BY <1>2, <1>4, <1>5, <2>1
  <2>2. CASE i # Len(p) + 1
    <3>1. i \in 1..Len(p)
      BY <1>1, <1>5, <2>2
    <3>2. p[i].revision \in StartRevision..hi /\ p[i].doc = T[p[i].revision] /\ q[i] = p[i]
      BY <1>5, <3>1 DEF Notes
    <3>3. S[p[i].revision] = T[p[i].revision]
      BY <3>2 DEF Extends
    <3>4. p[i].revision \in StartRevision..after
      BY <1>2, <3>2
    <3>. QED  BY <3>2, <3>3, <3>4
  <2>. QED  BY <2>1, <2>2
<1>7. h.count = IF Len(p) <= Limit THEN Len(p) - 1 ELSE Limit
  BY DEF Notes
<1>8. k \in {0, 1} /\ n.count \in Nat /\ (Len(q) - n.count) = (Len(p) - h.count) + k
  BY <1>1, <1>2, <1>5
<1>9. n.count = IF Len(q) <= Limit THEN Len(q) - 1 ELSE Limit
  <2>1. CASE Len(p) <= Limit
    <3>1. h.count = Len(p) - 1 /\ h.count # Limit
      BY <1>1, <1>2, <1>7, <2>1
    <3>2. k = 0
      BY <3>1
    <3>3. n.count = Len(p)
      BY <1>1, <3>1, <3>2
    <3>4. Len(q) <= Limit \/ (~(Len(q) <= Limit) /\ Len(p) = Limit)
      BY <1>1, <1>2, <1>5, <2>1
    <3>. QED  BY <1>1, <1>5, <3>3, <3>4
  <2>2. CASE ~(Len(p) <= Limit)
    BY <1>1, <1>2, <1>5, <1>7, <2>2
  <2>. QED  BY <2>1, <2>2
<1>10. ASSUME NEW i \in 0..n.count PROVE Mark(n, i) = q[(Len(q) - n.count) + i].revision
  <2>1. CASE i = n.count
    <3>1. (Len(q) - n.count) + i = Len(p) + 1
      BY <1>1, <1>5, <1>8, <2>1
    <3>2. Mark(n, n.count) = after
      BY DEF Ring
    <3>. QED  BY <1>4, <1>5, <2>1, <3>1, <3>2
  <2>2. CASE i # n.count
    <3>1. i \in 0..(n.count - 1) /\ i + k \in 0..h.count
      <4>1. PICK c, l, x \in Nat : c = h.count /\ l = n.count /\ x = k
        BY <1>1, <1>8
      <4>2. l = (c + 1) - x /\ x <= 1 /\ i \in 0..l /\ i # l
        BY <1>8, <2>2, <4>1
      <4>3. i \in 0..(l - 1) /\ i + x \in 0..c
        BY <4>2
      <4>. QED  BY <4>1, <4>3
    <3>2. (Len(q) - n.count) + i = (Len(p) - h.count) + (i + k)
      <4>1. PICK x, y \in Int : x = Len(p) - h.count /\ y = Len(q) - n.count
        BY <1>1, <1>5, <1>8
      <4>2. y = x + k /\ k \in Int
        BY <1>8, <4>1
      <4>. QED  BY <4>1, <4>2
    <3>3. (Len(p) - h.count) + (i + k) \in 1..Len(p)
      BY <1>1, <3>1
    <3>4. Mark(h, i + k) = p[(Len(p) - h.count) + (i + k)].revision
      BY <3>1 DEF Notes
    <3>5. Mark(n, i) = Mark(h, i + k)
      BY <3>1
    <3>6. q[(Len(p) - h.count) + (i + k)] = p[(Len(p) - h.count) + (i + k)]
      BY <1>5, <3>3
    <3>. QED  BY <3>2, <3>4, <3>5, <3>6
  <2>. QED  BY <2>1, <2>2
<1>11. Len(q) # 0
  BY <1>1, <1>5
<1>12. Notes(q, n, S, after)
  BY <1>5, <1>6, <1>9, <1>10, <1>11 DEF Notes, Kept
<1>. QED  BY <1>12 DEF q, new

-----------------------------------------------------------------------------
\* Positions

Positions == [byteOffset : Nat, runeOffset : Nat, line : Nat, column : Nat]

Feeds(d, k) == {i \in 1..k : d[i].kind = LineFeed}

LEMMA FeedsFinite ==
    ASSUME NEW d, NEW k \in Nat
    PROVE  IsFiniteSet(Feeds(d, k)) /\ Cardinality(Feeds(d, k)) \in Nat
<1>1. IsFiniteSet(1..k)
  BY FS_Interval
<1>2. Feeds(d, k) \in SUBSET (1..k)
  BY DEF Feeds
<1>3. IsFiniteSet(Feeds(d, k))
  BY <1>1, <1>2, FS_Subset
<1>. QED  BY <1>3, FS_CardinalityType

\* The start of the line that rune k is on.
LEMMA LastFeed ==
    ASSUME NEW d, NEW k \in Nat
    PROVE  LET z == Max(Feeds(d, k) \cup {0})
           IN  z \in 0..k /\ z \in Feeds(d, k) \cup {0} /\ \A y \in Feeds(d, k) \cup {0} : z >= y
<1>. DEFINE S == Feeds(d, k) \cup {0}
            z == Max(S)
<1>1. S \in SUBSET (0..k)
  BY DEF Feeds
<1>2. S \in SUBSET Int /\ S # {}
  BY <1>1
<1>3. IsFiniteSet(S)
  BY FeedsFinite, FS_AddElement
<1>. HIDE DEF S
<1>4. \E x \in S : \A y \in S : x >= y
  BY <1>2, <1>3, GreatestOf
<1>5. z \in S /\ \A y \in S : z >= y
  BY <1>4 DEF Max
<1>. QED  BY <1>1, <1>5 DEF S

LEMMA MaxIs ==
    ASSUME NEW S \in SUBSET Int, NEW x \in S, \A y \in S : x >= y
    PROVE  Max(S) = x
<1>1. ASSUME NEW z \in S, \A y \in S : z >= y PROVE z = x
  <2>1. z >= x /\ x >= z /\ z \in Int /\ x \in Int
    BY <1>1
  <2>. QED  BY <2>1
<1>. QED  BY <1>1 DEF Max

LEMMA PositionIs ==
    ASSUME NEW d \in Docs, NEW k \in 0..Len(d)
    PROVE  LET p == PositionOf(d, k)
           IN  /\ p \in Positions /\ k \in Nat
               /\ p = [byteOffset |-> p.byteOffset, runeOffset |-> p.runeOffset, line |-> p.line, column |-> p.column]
               /\ p.byteOffset = Starts(d)[k] /\ p.runeOffset = k
               /\ p.line = Cardinality(Feeds(d, k)) /\ p.column = k - Max(Feeds(d, k) \cup {0})
<1>. DEFINE p == PositionOf(d, k)
<1>1. p = [byteOffset |-> Starts(d)[k], runeOffset |-> k,
           line |-> Cardinality(Feeds(d, k)), column |-> k - Max(Feeds(d, k) \cup {0})]
  BY DEF PositionOf, Feeds
<1>2. Starts(d)[k] \in Nat /\ k \in Nat
  BY StartsGrow, RuneWidths
<1>3. Cardinality(Feeds(d, k)) \in Nat
  BY <1>2, FeedsFinite
<1>4. k - Max(Feeds(d, k) \cup {0}) \in Nat
  <2>1. Max(Feeds(d, k) \cup {0}) \in 0..k
    BY <1>2, LastFeed
  <2>. QED  BY <1>2, <2>1
<1>. HIDE DEF p
<1>5. p \in Positions
  BY <1>1, <1>2, <1>3, <1>4 DEF Positions
<1>. QED  BY <1>1, <1>2, <1>5 DEF p

LEMMA PositionOrigin ==
    ASSUME NEW d \in Docs PROVE PositionOf(d, 0) = Origin
<1>1. 0 \in 0..Len(d) /\ Starts(d)[0] = 0
  BY RuneWidths, StartsUnfold
<1>2. Feeds(d, 0) = {}
  BY DEF Feeds
<1>3. Cardinality(Feeds(d, 0)) = 0
  BY <1>2, FS_EmptySet
<1>4. Max({} \cup {0}) = 0
  BY MaxIs
<1>5. PositionOf(d, 0) = [byteOffset |-> Starts(d)[0], runeOffset |-> 0, line |-> Cardinality(Feeds(d, 0)),
                          column |-> 0 - Max(Feeds(d, 0) \cup {0})]
  BY DEF PositionOf, Feeds
<1>6. 0 - Max(Feeds(d, 0) \cup {0}) = 0
  BY <1>2, <1>4
<1>. QED  BY <1>1, <1>3, <1>5, <1>6 DEF Origin

\* Decoding a rune leads from one position to the next.
LEMMA PositionStep ==
    ASSUME NEW d \in Docs, NEW k \in 1..Len(d)
    PROVE  PositionOf(d, k) = advance(PositionOf(d, k - 1), d[k])
<1>. DEFINE j == k - 1
            p == PositionOf(d, j)
            q == PositionOf(d, k)
            A == Feeds(d, j)
            B == Feeds(d, k)
            feed == d[k].kind = LineFeed
<1>1. Len(d) \in Nat /\ k \in Nat /\ j \in Nat /\ k \in 0..Len(d) /\ j \in 0..Len(d) /\ k = j + 1
  BY RuneWidths
<1>. HIDE DEF j
<1>2. /\ p.byteOffset = Starts(d)[j] /\ p.runeOffset = j /\ p.line = Cardinality(A) /\ p.column = j - Max(A \cup {0})
      /\ q.byteOffset = Starts(d)[k] /\ q.runeOffset = k /\ q.line = Cardinality(B) /\ q.column = k - Max(B \cup {0})
      /\ q = [byteOffset |-> q.byteOffset, runeOffset |-> q.runeOffset, line |-> q.line, column |-> q.column]
  BY <1>1, PositionIs
<1>. HIDE DEF p, q
<1>3. Starts(d)[k] = Starts(d)[j] + Width[d[k].kind]
  BY StartsUnfold DEF j
<1>4. B = IF feed THEN A \cup {k} ELSE A
  <2>1. 1..k = 1..j \cup {k}
    BY <1>1
  <2>. QED  BY <2>1 DEF Feeds
<1>5. IsFiniteSet(A) /\ k \notin A
  <2>1. k \notin 1..j
    BY <1>1
  <2>. QED  BY <1>1, <2>1, FeedsFinite DEF Feeds
<1>6. Max(A \cup {0}) \in 0..j /\ A \subseteq 1..j
  BY <1>1, LastFeed DEF Feeds
<1>. HIDE DEF A, B
<1>7. CASE feed
  <2>1. B = A \cup {k}
    BY <1>4, <1>7
  <2>2. Cardinality(B) = Cardinality(A) + 1
    BY <1>5, <2>1, FS_AddElement
  <2>3. Max(B \cup {0}) = k
    <3>1. B \cup {0} \in SUBSET Int /\ k \in B \cup {0} /\ \A y \in B \cup {0} : k >= y
      BY <1>1, <1>6, <2>1
    <3>. QED  BY <3>1, MaxIs
  <2>4. q.column = 0
    BY <1>1, <1>2, <2>3
  <2>. QED  BY <1>1, <1>2, <1>3, <1>7, <2>2, <2>4 DEF advance, p, q, j
<1>8. CASE ~feed
  <2>1. B = A
    BY <1>4, <1>8
  <2>2. q.column = p.column + 1
    BY <1>1, <1>2, <1>6, <2>1
  <2>. QED  BY <1>1, <1>2, <1>3, <1>8, <2>1, <2>2 DEF advance, p, q, j
<1>. QED  BY <1>7, <1>8

\* Documents that agree on their first runes agree on the positions there.
LEMMA PositionSame ==
    ASSUME NEW d \in Docs, NEW e \in Docs, NEW k \in 0..Len(d), k <= Len(e), SameRunes(d, 0, e, 0, k)
    PROVE  PositionOf(e, k) = PositionOf(d, k)
<1>1. k \in Nat /\ Len(d) \in Nat /\ Len(e) \in Nat /\ 0 + k = k
  BY RuneWidths
<1>2. ASSUME NEW i \in 1..k PROVE d[i] = e[i]
  <2>1. d[0 + i] = e[0 + i] /\ 0 + i = i
    BY <1>1 DEF SameRunes
  <2>. QED  BY <2>1
<1>3. SameKinds(d, 0, e, 0, k)
  BY DEF SameRunes, SameKinds
<1>4. Starts(d)[k] = Starts(e)[k]
  <2>1. Starts(d)[0] = 0 /\ Starts(e)[0] = 0 /\ Starts(d)[k] \in Nat /\ Starts(e)[k] \in Nat
    <3>1. k \in 0..Len(e)
      BY <1>1
    <3>. QED  BY <3>1, StartsUnfold
  <2>2. 0 + k <= Len(d) /\ 0 + k <= Len(e) /\ 0 \in Nat
    BY <1>1
  <2>3. Starts(d)[0 + k] + Starts(e)[0] = Starts(e)[0 + k] + Starts(d)[0]
    BY <1>1, <1>3, <2>2, StartsShift
  <2>4. PICK x, y \in Nat : x = Starts(d)[k] /\ y = Starts(e)[k]
    BY <2>1
  <2>5. x + 0 = y + 0
    BY <1>1, <2>1, <2>3, <2>4
  <2>. QED  BY <2>4, <2>5
<1>5. {i \in 1..k : d[i].kind = LineFeed} = {i \in 1..k : e[i].kind = LineFeed}
  BY <1>2
<1>. QED  BY <1>4, <1>5 DEF PositionOf

LEMMA PositionParts ==
    ASSUME NEW d \in Docs, NEW k \in 0..Len(d)
    PROVE  /\ PositionOf(d, k).byteOffset = Starts(d)[k] /\ PositionOf(d, k).runeOffset = k
           /\ PositionOf(d, k).line \in Nat /\ PositionOf(d, k).column \in Nat
           /\ PositionOf(d, k) \in Positions /\ Starts(d)[k] \in Nat
<1>1. PositionOf(d, k).byteOffset = Starts(d)[k] /\ PositionOf(d, k).runeOffset = k /\ PositionOf(d, k) \in Positions
  BY PositionIs
<1>. QED  BY <1>1 DEF Positions

\* Lines and columns of later positions.
Beyond(p, q, n) == p.line <= q.line /\ (p.line = q.line => q.column = p.column + n)

LEMMA AdvanceParts ==
    ASSUME NEW p, NEW rune
    PROVE  /\ advance(p, rune).line = (IF rune.kind = LineFeed THEN p.line + 1 ELSE p.line)
           /\ advance(p, rune).column = (IF rune.kind = LineFeed THEN 0 ELSE p.column + 1)
           /\ advance(p, rune).byteOffset = p.byteOffset + Width[rune.kind]
           /\ advance(p, rune).runeOffset = p.runeOffset + 1
           /\ advance(p, rune) = [byteOffset |-> advance(p, rune).byteOffset, runeOffset |-> advance(p, rune).runeOffset,
                                  line |-> advance(p, rune).line, column |-> advance(p, rune).column]
BY DEF advance

LEMMA PositionLater ==
    ASSUME NEW d \in Docs, NEW j \in Nat, NEW n \in Nat, j + n <= Len(d)
    PROVE  Beyond(PositionOf(d, j), PositionOf(d, j + n), n)
<1>. DEFINE p == PositionOf(d, j)
            Done == {m \in Nat : m <= n => Beyond(p, PositionOf(d, j + m), m)}
<1>1. Len(d) \in Nat
  BY RuneWidths
<1>2. 0 \in Done
  <2>1. j + 0 = j /\ j \in 0..Len(d)
    BY <1>1
  <2>2. p.line \in Nat /\ p.column \in Nat
    BY <2>1, PositionParts
  <2>3. Beyond(p, p, 0)
    BY <2>2 DEF Beyond
  <2>. QED  BY <2>1, <2>3
<1>3. ASSUME NEW m \in Nat, m \in Done PROVE m + 1 \in Done
  <2>. SUFFICES ASSUME m + 1 <= n PROVE Beyond(p, PositionOf(d, j + (m + 1)), m + 1)
    OBVIOUS
  <2>. DEFINE k == j + (m + 1)
              q == PositionOf(d, k - 1)
              z == PositionOf(d, k)
  <2>1. k \in 1..Len(d) /\ k - 1 = j + m /\ k - 1 \in 0..Len(d) /\ j \in 0..Len(d) /\ k \in 0..Len(d)
    BY <1>1
  <2>2. Beyond(p, q, m)
    <3>1. m <= n
      OBVIOUS
    <3>. QED  BY <1>3, <2>1, <3>1
  <2>3. p.line \in Nat /\ p.column \in Nat /\ q.line \in Nat /\ q.column \in Nat
    BY <2>1, PositionParts
  <2>4. z = advance(q, d[k])
    BY <2>1, PositionStep
  <2>. HIDE DEF k, p, q, z
  <2>5. z.line = (IF d[k].kind = LineFeed THEN q.line + 1 ELSE q.line)
        /\ z.column = (IF d[k].kind = LineFeed THEN 0 ELSE q.column + 1)
    BY <2>4, AdvanceParts
  <2>6. Beyond(p, z, m + 1)
    <3>1. CASE d[k].kind = LineFeed
      BY <2>2, <2>3, <2>5, <3>1 DEF Beyond
    <3>2. CASE d[k].kind # LineFeed
      BY <2>2, <2>3, <2>5, <3>2 DEF Beyond
    <3>. QED  BY <3>1, <3>2
  <2>. QED  BY <2>6 DEF z, k
<1>4. \A m \in Nat : m \in Done
  <2>. HIDE DEF Done
  <2>. QED  BY <1>2, <1>3, SetInduction
<1>5. n \in Done /\ n <= n
  <2>. HIDE DEF Done
  <2>. QED  BY <1>4
<1>. QED  BY <1>5

Shifted(t, q, s, w) == t + (q + w) - s = (t + q - s) + w

LEMMA SumShift ==
    ASSUME NEW t \in Nat, NEW q \in Nat, NEW s \in Nat, NEW w \in Nat
    PROVE  Shifted(t, q, s, w)
BY DEF Shifted

\* A position behind the seam, carried to the document that goes on alike.
LEMMA PositionTranslated ==
    ASSUME NEW d \in Docs, NEW e \in Docs, NEW a \in Nat, NEW b \in Nat, NEW n \in Nat,
           a + n <= Len(d), b + n <= Len(e), SameRunes(d, a, e, b, n)
    PROVE  translated(PositionOf(d, a + n), PositionOf(d, a), PositionOf(e, b)) = PositionOf(e, b + n)
<1>. DEFINE s == PositionOf(d, a)
            t == PositionOf(e, b)
            Done == {m \in Nat : m <= n => translated(PositionOf(d, a + m), s, t) = PositionOf(e, b + m)}
<1>1. Len(d) \in Nat /\ Len(e) \in Nat /\ a \in 0..Len(d) /\ b \in 0..Len(e)
  BY RuneWidths
<1>2. s \in Positions /\ t \in Positions
  BY <1>1, PositionParts
<1>3. 0 \in Done
  <2>1. a + 0 = a /\ b + 0 = b
    OBVIOUS
  <2>2. translated(s, s, t) = t
    <3>. HIDE DEF s, t
    <3>1. t = [byteOffset |-> t.byteOffset, runeOffset |-> t.runeOffset, line |-> t.line, column |-> t.column]
      BY <1>2 DEF Positions
    <3>2. /\ s.byteOffset \in Nat /\ s.runeOffset \in Nat /\ s.line \in Nat /\ s.column \in Nat
          /\ t.byteOffset \in Nat /\ t.runeOffset \in Nat /\ t.line \in Nat /\ t.column \in Nat
      BY <1>2 DEF Positions
    <3>3. /\ t.byteOffset + s.byteOffset - s.byteOffset = t.byteOffset
          /\ t.runeOffset + s.runeOffset - s.runeOffset = t.runeOffset
          /\ t.line + s.line - s.line = t.line /\ t.column + s.column - s.column = t.column
      <4>1. \A x, y \in Nat : x + y - y = x
        OBVIOUS
      <4>. QED  BY <3>2, <4>1, Zenon
    <3>. QED  BY <3>1, <3>3 DEF translated
  <2>. QED  BY <2>1, <2>2
<1>4. ASSUME NEW m \in Nat, m \in Done PROVE m + 1 \in Done
  <2>. SUFFICES ASSUME m + 1 <= n PROVE translated(PositionOf(d, a + (m + 1)), s, t) = PositionOf(e, b + (m + 1))
    OBVIOUS
  <2>. DEFINE k == a + (m + 1)
              l == b + (m + 1)
              q == PositionOf(d, k - 1)
              r == PositionOf(e, l - 1)
  <2>1. /\ k \in 1..Len(d) /\ k - 1 = a + m /\ k - 1 \in 0..Len(d)
        /\ l \in 1..Len(e) /\ l - 1 = b + m /\ l - 1 \in 0..Len(e)
    BY <1>1
  <2>2. translated(q, s, t) = r
    <3>1. m <= n
      OBVIOUS
    <3>. QED  BY <1>4, <2>1, <3>1
  <2>3. Beyond(s, q, m)
    <3>1. a + m <= Len(d)
      BY <1>1
    <3>. QED  BY <2>1, <3>1, PositionLater
  <2>4. d[k] = e[l]
    <3>1. m + 1 \in 1..n
      OBVIOUS
    <3>. QED  BY <3>1 DEF SameRunes
  <2>5. q \in Positions /\ r \in Positions
    BY <2>1, PositionParts
  <2>6. PositionOf(d, k) = advance(q, d[k]) /\ PositionOf(e, l) = advance(r, d[k])
    BY <2>1, <2>4, PositionStep
  <2>7. Width[d[k].kind] \in Nat
    <3>1. Width[d[k].kind] \in 1..UTFMax /\ UTFMax \in Nat
      BY <2>1, RuneWidths, IndexAssumption
    <3>. QED  BY <3>1
  <2>. DEFINE feed == d[k].kind = LineFeed
              w == Width[d[k].kind]
  <2>. HIDE DEF s, t, q, r, k, l, w
  <2>8. translated(advance(q, d[k]), s, t) = advance(r, d[k])
    <3>0. 1 \in Nat
      OBVIOUS
    <3>1. /\ s.byteOffset \in Nat /\ s.runeOffset \in Nat /\ s.line \in Nat /\ s.column \in Nat
          /\ t.byteOffset \in Nat /\ t.runeOffset \in Nat /\ t.line \in Nat /\ t.column \in Nat
          /\ q.byteOffset \in Nat /\ q.runeOffset \in Nat /\ q.line \in Nat /\ q.column \in Nat
      BY <1>2, <2>5 DEF Positions
    <3>2. /\ r.byteOffset = t.byteOffset + q.byteOffset - s.byteOffset
          /\ r.runeOffset = t.runeOffset + q.runeOffset - s.runeOffset
          /\ r.line = t.line + q.line - s.line
          /\ r.column = IF q.line = s.line THEN t.column + q.column - s.column ELSE q.column
      BY <2>2 DEF translated
    <3>. DEFINE x == advance(q, d[k])
                y == translated(x, s, t)
                z == advance(r, d[k])
    <3>3. /\ x.byteOffset = q.byteOffset + w /\ x.runeOffset = q.runeOffset + 1
          /\ x.line = (IF feed THEN q.line + 1 ELSE q.line) /\ x.column = (IF feed THEN 0 ELSE q.column + 1)
          /\ z.byteOffset = r.byteOffset + w /\ z.runeOffset = r.runeOffset + 1
          /\ z.line = (IF feed THEN r.line + 1 ELSE r.line) /\ z.column = (IF feed THEN 0 ELSE r.column + 1)
          /\ z = [byteOffset |-> z.byteOffset, runeOffset |-> z.runeOffset, line |-> z.line, column |-> z.column]
      BY AdvanceParts DEF w
    <3>4. y = [byteOffset |-> t.byteOffset + x.byteOffset - s.byteOffset,
               runeOffset |-> t.runeOffset + x.runeOffset - s.runeOffset,
               line |-> t.line + x.line - s.line,
               column |-> IF x.line = s.line THEN t.column + x.column - s.column ELSE x.column]
      BY DEF translated
    <3>. HIDE DEF x, y, z, feed
    <3>5. w \in Nat
      BY <2>7 DEF w
    <3>6. t.byteOffset + x.byteOffset - s.byteOffset = z.byteOffset
          /\ t.runeOffset + x.runeOffset - s.runeOffset = z.runeOffset
      <4>1. t.byteOffset + (q.byteOffset + w) - s.byteOffset = (t.byteOffset + q.byteOffset - s.byteOffset) + w
            /\ t.runeOffset + (q.runeOffset + 1) - s.runeOffset = (t.runeOffset + q.runeOffset - s.runeOffset) + 1
        <5>1. Shifted(t.byteOffset, q.byteOffset, s.byteOffset, w)
          BY <3>1, <3>5, SumShift
        <5>2. Shifted(t.runeOffset, q.runeOffset, s.runeOffset, 1)
          BY <3>0, <3>1, SumShift
        <5>. QED  BY <5>1, <5>2 DEF Shifted
      <4>. QED  BY <3>2, <3>3, <4>1
    <3>7. t.line + x.line - s.line = z.line
      <4>1. t.line + (q.line + 1) - s.line = (t.line + q.line - s.line) + 1
        <5>1. Shifted(t.line, q.line, s.line, 1)
          BY <3>0, <3>1, SumShift
        <5>. QED  BY <5>1 DEF Shifted
      <4>2. CASE feed
        BY <3>2, <3>3, <4>1, <4>2
      <4>3. CASE ~feed
        BY <3>2, <3>3, <4>3
      <4>. QED  BY <4>2, <4>3
    <3>8. (IF x.line = s.line THEN t.column + x.column - s.column ELSE x.column) = z.column
      <4>1. s.line <= q.line
        BY <2>3 DEF Beyond
      <4>2. CASE feed
        <5>1. x.line # s.line
          BY <3>1, <3>3, <4>1, <4>2
        <5>. QED  BY <3>3, <4>2, <5>1
      <4>3. CASE ~feed
        <5>1. x.line = q.line /\ x.column = q.column + 1 /\ z.column = r.column + 1
          BY <3>3, <4>3
        <5>2. t.column + (q.column + 1) - s.column = (t.column + q.column - s.column) + 1
          <6>1. Shifted(t.column, q.column, s.column, 1)
            BY <3>0, <3>1, SumShift
          <6>. QED  BY <6>1 DEF Shifted
        <5>3. CASE q.line = s.line
          BY <3>2, <5>1, <5>2, <5>3
        <5>4. CASE q.line # s.line
          BY <3>2, <5>1, <5>4
        <5>. QED  BY <5>3, <5>4
      <4>. QED  BY <4>2, <4>3
    <3>9. y = z
      BY <3>3, <3>4, <3>6, <3>7, <3>8
    <3>. QED  BY <3>9 DEF y, x, z
  <2>9. translated(PositionOf(d, k), s, t) = PositionOf(e, l)
    BY <2>6, <2>8
  <2>. QED  BY <2>9 DEF k, l
<1>5. \A m \in Nat : m \in Done
  <2>. HIDE DEF Done
  <2>. QED  BY <1>3, <1>4, SetInduction
<1>6. n \in Done /\ n <= n
  <2>. HIDE DEF Done
  <2>. QED  BY <1>5
<1>. QED  BY <1>6

-----------------------------------------------------------------------------
\* Checkpoints

LEMMA NextIs ==
    ASSUME NEW offset \in Nat
    PROVE  LET next == nextCheckpointAfter(offset)
           IN  next \in Nat /\ offset < next /\ next <= offset + CheckpointBytes
<1>. DEFINE c == CheckpointBytes
            q == offset \div c
<1>1. c \in Nat \ {0}
  BY IndexAssumption
<1>. HIDE DEF c
<1>2. q \in Nat /\ c * q <= offset /\ offset < c * q + c
  BY <1>1, SMTT(30)
<1>. HIDE DEF q
<1>3. (q + 1) * c = c * q + c /\ c * q \in Nat
  BY <1>1, <1>2, SMTT(30)
<1>4. nextCheckpointAfter(offset) = (q + 1) * c
  BY DEF nextCheckpointAfter, q, c
<1>5. PICK x \in Nat : x = c * q
  BY <1>3
<1>6. x + c \in Nat /\ offset < x + c /\ x + c <= offset + c
  BY <1>1, <1>2, <1>5
<1>. QED  BY <1>3, <1>4, <1>5, <1>6 DEF c

Window == CheckpointBytes + UTFMax

LEMMA WindowIs == Window \in Nat /\ CheckpointBytes \in Nat /\ UTFMax \in Nat
BY IndexAssumption DEF Window

\* The checkpoints are positions of d, from its start up to k, each within one
\* window of the next.
Covers(cps, d, k) ==
    /\ cps \in Seq(Positions) /\ Len(cps) # 0
    /\ \A i \in 1..Len(cps) : /\ cps[i].runeOffset \in 0..k
                              /\ cps[i] = PositionOf(d, cps[i].runeOffset)
    /\ \A i, j \in 1..Len(cps) : i < j => cps[i].runeOffset < cps[j].runeOffset
    /\ \A i \in 1..(Len(cps) - 1) : cps[i + 1].byteOffset <= cps[i].byteOffset + Window
    /\ cps[1].runeOffset = 0
    /\ Starts(d)[k] <= cps[Len(cps)].byteOffset + Window

Newest(cps) == cps[Len(cps)]

LEMMA CoversTypes ==
    ASSUME NEW d \in Docs, NEW k \in 0..Len(d), NEW cps, Covers(cps, d, k)
    PROVE  /\ Len(cps) \in Nat \ {0} /\ Len(cps) \in 1..Len(cps) /\ k \in Nat /\ Len(d) \in Nat
           /\ \A i \in 1..Len(cps) : /\ cps[i].runeOffset \in 0..Len(d) /\ cps[i].runeOffset \in 0..k
                                     /\ cps[i].byteOffset = Starts(d)[cps[i].runeOffset]
                                     /\ cps[i].byteOffset \in Nat
           /\ Newest(cps) = PositionOf(d, Newest(cps).runeOffset) /\ Newest(cps).runeOffset \in 0..k
           /\ Newest(cps).byteOffset = Starts(d)[Newest(cps).runeOffset] /\ Newest(cps).byteOffset \in Nat
<1>1. Len(d) \in Nat /\ k \in Nat
  BY RuneWidths
<1>2. Len(cps) \in Nat \ {0}
  BY LenProperties DEF Covers
<1>3. Len(cps) \in 1..Len(cps)
  BY <1>2
<1>4. ASSUME NEW i \in 1..Len(cps)
      PROVE  /\ cps[i].runeOffset \in 0..Len(d) /\ cps[i].runeOffset \in 0..k
             /\ cps[i].byteOffset = Starts(d)[cps[i].runeOffset] /\ cps[i].byteOffset \in Nat
             /\ cps[i] = PositionOf(d, cps[i].runeOffset)
  <2>1. cps[i].runeOffset \in 0..k /\ cps[i] = PositionOf(d, cps[i].runeOffset)
    BY DEF Covers
  <2>2. PICK n \in 0..Len(d) : n = cps[i].runeOffset
    BY <1>1, <2>1
  <2>3. PositionOf(d, n).byteOffset = Starts(d)[n] /\ Starts(d)[n] \in Nat
    BY PositionParts
  <2>. QED  BY <2>1, <2>2, <2>3
<1>. QED  BY <1>1, <1>2, <1>3, <1>4 DEF Newest

LEMMA CoversOn ==
    ASSUME NEW d \in Docs, NEW k \in 0..Len(d), NEW l \in 0..Len(d), k <= l, NEW cps, Covers(cps, d, k),
           Starts(d)[l] <= Newest(cps).byteOffset + Window
    PROVE  Covers(cps, d, l)
<1>1. \A i \in 1..Len(cps) : cps[i].runeOffset \in 0..l
  <2>1. k \in Nat /\ l \in Nat /\ \A i \in 1..Len(cps) : cps[i].runeOffset \in 0..k
    BY RuneWidths DEF Covers
  <2>. QED  BY <2>1
<1>. QED  BY <1>1 DEF Covers, Newest

\* One more checkpoint.
LEMMA CoversMore ==
    ASSUME NEW d \in Docs, NEW k \in 0..Len(d), NEW cps, Covers(cps, d, k), Newest(cps).runeOffset < k
    PROVE  LET q == Append(cps, PositionOf(d, k))
           IN  Covers(q, d, k) /\ Newest(q) = PositionOf(d, k)
<1>. DEFINE p == PositionOf(d, k)
            q == Append(cps, p)
            n == Len(cps)
<1>1. /\ n \in Nat \ {0} /\ n \in 1..n /\ k \in Nat /\ Len(d) \in Nat
      /\ \A i \in 1..n : cps[i].runeOffset \in 0..k /\ cps[i].byteOffset \in Nat
  BY CoversTypes
<1>2. p \in Positions /\ p.runeOffset = k /\ p.byteOffset = Starts(d)[k] /\ Starts(d)[k] \in Nat
  BY PositionParts
<1>. HIDE DEF p
<1>3. /\ q \in Seq(Positions) /\ Len(q) = n + 1 /\ q[n + 1] = p /\ \A i \in 1..n : q[i] = cps[i]
  BY <1>2, AppendProperties DEF Covers
<1>. HIDE DEF q, n
<1>4. \A i \in 1..Len(q) : i = n + 1 \/ i \in 1..n
  BY <1>1, <1>3
<1>5. ASSUME NEW i \in 1..Len(q) PROVE q[i].runeOffset \in 0..k /\ q[i] = PositionOf(d, q[i].runeOffset)
  <2>1. CASE i = n + 1
    BY <1>1, <1>2, <1>3, <2>1 DEF p
  <2>2. CASE i \in 1..n
    BY <1>3, <2>2 DEF Covers, n
  <2>. QED  BY <1>4, <2>1, <2>2
<1>6. \A i \in 1..n : cps[i].runeOffset < k
  <2>1. ASSUME NEW i \in 1..n PROVE cps[i].runeOffset <= cps[n].runeOffset
    <3>1. i = n \/ i < n
      BY <1>1
    <3>2. i < n => cps[i].runeOffset < cps[n].runeOffset
      BY <1>1 DEF Covers, n
    <3>. QED  BY <1>1, <3>1, <3>2
  <2>2. cps[n].runeOffset < k
    BY DEF Newest, n
  <2>. QED  BY <1>1, <2>1, <2>2
<1>7. ASSUME NEW i \in 1..Len(q), NEW j \in 1..Len(q), i < j PROVE q[i].runeOffset < q[j].runeOffset
  <2>1. i \in 1..n
    BY <1>1, <1>3, <1>7
  <2>2. CASE j = n + 1
    BY <1>2, <1>3, <1>6, <2>1, <2>2
  <2>3. CASE j \in 1..n
    <3>1. cps[i].runeOffset < cps[j].runeOffset
      BY <1>7, <2>1, <2>3 DEF Covers, n
    <3>. QED  BY <1>3, <2>1, <2>3, <3>1
  <2>. QED  BY <1>4, <2>2, <2>3
<1>8. ASSUME NEW i \in 1..(Len(q) - 1) PROVE q[i + 1].byteOffset <= q[i].byteOffset + Window
  <2>1. i \in 1..n
    BY <1>1, <1>3
  <2>2. CASE i = n
    <3>1. Starts(d)[k] <= cps[n].byteOffset + Window
      BY DEF Covers, n
    <3>. QED  BY <1>2, <1>3, <2>1, <2>2, <3>1
  <2>3. CASE i # n
    <3>1. i \in 1..(n - 1) /\ i + 1 \in 1..n
      BY <1>1, <2>1, <2>3
    <3>2. cps[i + 1].byteOffset <= cps[i].byteOffset + Window
      BY <3>1 DEF Covers, n
    <3>. QED  BY <1>3, <2>1, <3>1, <3>2
  <2>. QED  BY <2>2, <2>3
<1>9. q[1].runeOffset = 0
  <2>1. 1 \in 1..n
    BY <1>1
  <2>. QED  BY <1>3, <2>1 DEF Covers
<1>10. Newest(q) = p /\ Len(q) # 0
  BY <1>1, <1>3 DEF Newest
<1>11. Starts(d)[k] <= q[Len(q)].byteOffset + Window
  BY <1>2, <1>10, WindowIs DEF Newest
<1>12. Covers(q, d, k)
  BY <1>3, <1>5, <1>7, <1>8, <1>9, <1>10, <1>11 DEF Covers
<1>. QED  BY <1>10, <1>12 DEF q, p

\* The state at the end is the last checkpoint, be it there already or not.
LEMMA CoversLast ==
    ASSUME NEW d \in Docs, NEW k \in 0..Len(d), NEW cps, Covers(cps, d, k)
    PROVE  LET q == AppendCheckpoint(cps, PositionOf(d, k))
           IN  Covers(q, d, k) /\ Newest(q) = PositionOf(d, k)
<1>. DEFINE p == PositionOf(d, k)
            n == Len(cps)
<1>1. /\ n \in 1..n /\ n \in Nat \ {0} /\ k \in Nat
      /\ Newest(cps) = PositionOf(d, Newest(cps).runeOffset) /\ Newest(cps).runeOffset \in 0..k
      /\ Newest(cps).byteOffset = Starts(d)[Newest(cps).runeOffset] /\ Newest(cps).runeOffset \in 0..Len(d)
  BY CoversTypes DEF Newest
<1>2. p.byteOffset = Starts(d)[k]
  BY PositionParts
<1>3. CASE Newest(cps).byteOffset = p.byteOffset
  <2>1. Newest(cps).runeOffset = k
    BY <1>1, <1>2, <1>3, StartsGrow
  <2>2. cps[n] = p
    BY <1>1, <2>1 DEF Newest
  <2>3. AppendCheckpoint(cps, p) = [cps EXCEPT ![n] = p]
    BY <1>3 DEF AppendCheckpoint, Newest
  <2>4. cps = [i \in 1..n |-> cps[i]]
    <3>1. cps \in Seq(Positions)
      BY DEF Covers
    <3>. QED  BY <3>1
  <2>5. [cps EXCEPT ![n] = p] = cps
    <3>. HIDE DEF p, n
    <3>. QED  BY <2>2, <2>4
  <2>. QED  BY <2>2, <2>3, <2>5 DEF Newest
<1>4. CASE Newest(cps).byteOffset # p.byteOffset
  <2>1. Newest(cps).runeOffset # k
    BY <1>1, <1>2, <1>4
  <2>2. Newest(cps).runeOffset < k
    BY <1>1, <2>1
  <2>3. AppendCheckpoint(cps, p) = Append(cps, p)
    BY <1>4 DEF AppendCheckpoint, Newest
  <2>. QED  BY <2>2, <2>3, CoversMore
<1>. QED  BY <1>3, <1>4

LEMMA RunesBeforeIs ==
    ASSUME NEW d \in Docs, NEW k \in 0..Len(d)
    PROVE  RunesBefore(d, Starts(d)[k]) = k
<1>1. \A i \in 0..Len(d) : Starts(d)[i] = Starts(d)[k] => i = k
  BY StartsGrow
<1>. QED  BY <1>1 DEF RunesBefore

-----------------------------------------------------------------------------
\* The scan

ScanStep(v, rune) ==
    [state |-> advance(v.state, rune),
     next |-> IF v.state.byteOffset >= v.next THEN nextCheckpointAfter(v.state.byteOffset) ELSE v.next,
     checkpoints |-> IF v.state.byteOffset >= v.next THEN Append(v.checkpoints, v.state) ELSE v.checkpoints]
ScanBody(g, d, v, a, b) == [k \in a..b |-> IF k = a THEN v ELSE ScanStep(g[k - 1], d[k])]
Scan(d, v, a, b) == CHOOSE g : g = ScanBody(g, d, v, a, b)

LEMMA ScanUnfold ==
    ASSUME NEW d, NEW v, NEW a \in Nat, NEW b \in Nat, a <= b
    PROVE  /\ Scan(d, v, a, b)[a] = v
           /\ \A k \in (a + 1)..b : Scan(d, v, a, b)[k] = ScanStep(Scan(d, v, a, b)[k - 1], d[k])
<1>. DEFINE Val(g, i) == IF i = a THEN v ELSE ScanStep(g[i - 1], d[i])
            Right(g, m) == \A i \in a..b : i <= m => g[i] = Val(g, i)
            Done == {m \in Nat : \E g : Right(g, a + m)}
<1>1. 0 \in Done
  <2>. DEFINE g == [i \in a..b |-> v]
  <2>1. Right(g, a + 0)
    OBVIOUS
  <2>. HIDE DEF g, Right
  <2>. QED  BY <2>1
<1>2. ASSUME NEW m \in Nat, m \in Done PROVE m + 1 \in Done
  <2>1. PICK g : Right(g, a + m)
    BY <1>2
  <2>. DEFINE f == [i \in a..b |-> Val(g, i)]
  <2>2. ASSUME NEW i \in a..b, i <= a + (m + 1) PROVE f[i] = Val(f, i)
    <3>1. CASE i = a
      BY <3>1
    <3>2. CASE i # a
      <4>1. i - 1 \in a..b /\ i - 1 <= a + m
        BY <2>2, <3>2
      <4>2. g[i - 1] = Val(g, i - 1)
        <5>. HIDE DEF Val
        <5>. QED  BY <2>1, <4>1
      <4>3. f[i - 1] = Val(g, i - 1) /\ f[i] = Val(g, i)
        <5>. HIDE DEF Val
        <5>. QED  BY <4>1
      <4>4. f[i - 1] = g[i - 1]
        <5>. HIDE DEF Val, f
        <5>. QED  BY <4>2, <4>3
      <4>. HIDE DEF f
      <4>. QED  BY <3>2, <4>3, <4>4
    <3>. QED  BY <3>1, <3>2
  <2>3. Right(f, a + (m + 1))
    <3>. HIDE DEF Val, f
    <3>. QED  BY <2>2
  <2>. HIDE DEF f, Right
  <2>. QED  BY <2>3
<1>3. \A m \in Nat : m \in Done
  <2>. HIDE DEF Done
  <2>. QED  BY <1>1, <1>2, SetInduction
<1>4. PICK g : Right(g, b)
  <2>1. PICK m \in Nat : a + m = b
    <3>1. b - a \in Nat /\ a + (b - a) = b
      OBVIOUS
    <3>. QED  BY <3>1
  <2>2. m \in Done
    BY <1>3
  <2>. HIDE DEF Right
  <2>. QED  BY <2>1, <2>2
<1>. DEFINE f == [i \in a..b |-> g[i]]
<1>5. f = ScanBody(f, d, v, a, b)
  <2>1. ASSUME NEW i \in a..b PROVE f[i] = (IF i = a THEN v ELSE ScanStep(f[i - 1], d[i]))
    <3>1. g[i] = Val(g, i) /\ f[i] = g[i]
      BY <1>4
    <3>2. CASE i = a
      BY <3>1, <3>2
    <3>3. CASE i # a
      <4>1. i - 1 \in a..b
        BY <3>3
      <4>2. f[i - 1] = g[i - 1]
        BY <4>1
      <4>. HIDE DEF f
      <4>. QED  BY <3>1, <3>3, <4>2
    <3>. QED  BY <3>2, <3>3
  <2>2. f = [i \in a..b |-> f[i]]
    OBVIOUS
  <2>. HIDE DEF f
  <2>. QED  BY <2>1, <2>2 DEF ScanBody
<1>6. Scan(d, v, a, b) = ScanBody(Scan(d, v, a, b), d, v, a, b)
  <2>. HIDE DEF f
  <2>. QED  BY <1>5 DEF Scan
<1>. DEFINE s == Scan(d, v, a, b)
<1>7. s = [k \in a..b |-> IF k = a THEN v ELSE ScanStep(s[k - 1], d[k])]
  BY <1>6 DEF ScanBody
<1>. HIDE DEF s
<1>8. s[a] = v
  <2>1. a \in a..b
    OBVIOUS
  <2>. QED  BY <1>7, <2>1
<1>9. ASSUME NEW k \in (a + 1)..b PROVE s[k] = ScanStep(s[k - 1], d[k])
  <2>1. k \in a..b /\ k # a
    OBVIOUS
  <2>. QED  BY <1>7, <2>1
<1>. QED  BY <1>8, <1>9 DEF s

LEMMA SegmentIs ==
    ASSUME NEW d \in Docs, NEW state, NEW cps, NEW a \in 0..Len(d), NEW b \in 0..Len(d)
    PROVE  scanSegment(d, state, cps, Starts(d)[a], Starts(d)[b])
             = Scan(d, [state |-> state, next |-> nextCheckpointAfter(Starts(d)[a]), checkpoints |-> cps], a, b)[b]
<1>. DEFINE from == Starts(d)[a]
            to == Starts(d)[b]
<1>1. RunesBefore(d, from) = a /\ RunesBefore(d, to) = b
  BY RunesBeforeIs
<1>. HIDE DEF from, to
<1>2. scanSegment(d, state, cps, from, to)
        = Scan(d, [state |-> state, next |-> nextCheckpointAfter(from), checkpoints |-> cps],
               RunesBefore(d, from), RunesBefore(d, to))[RunesBefore(d, to)]
  BY DEF scanSegment, Scan, ScanBody, ScanStep
<1>. QED  BY <1>1, <1>2 DEF from, to

\* What holds when the scan has decoded k runes.
Scanned(v, d, k) ==
    /\ v.state = PositionOf(d, k) /\ Covers(v.checkpoints, d, k)
    /\ v.next \in Nat /\ Newest(v.checkpoints).byteOffset < v.next
    /\ v.next <= Newest(v.checkpoints).byteOffset + CheckpointBytes
    /\ Starts(d)[k] < v.next + UTFMax

LEMMA ScanOne ==
    ASSUME NEW d \in Docs, NEW k \in 1..Len(d), NEW v, Scanned(v, d, k - 1)
    PROVE  Scanned(ScanStep(v, d[k]), d, k)
<1>. DEFINE j == k - 1
            w == ScanStep(v, d[k])
            p == PositionOf(d, j)
            off == Starts(d)[j]
            cps == v.checkpoints
            end == Starts(d)[k]
            width == Width[d[k].kind]
<1>1. Len(d) \in Nat /\ k \in 0..Len(d) /\ j \in 0..Len(d) /\ j <= k /\ k \in Nat /\ j \in Nat
  BY RuneWidths
<1>2. CheckpointBytes \in Nat /\ UTFMax \in Nat /\ Window = CheckpointBytes + UTFMax
  BY WindowIs DEF Window
<1>3. off \in Nat /\ end \in Nat /\ end = off + width /\ width \in 1..UTFMax
  <2>1. off \in Nat /\ end \in Nat
    BY <1>1, StartsGrow
  <2>2. end = off + width
    BY StartsUnfold
  <2>3. width \in 1..UTFMax
    BY RuneWidths
  <2>. QED  BY <2>1, <2>2, <2>3
<1>4. PositionOf(d, k) = advance(p, d[k])
  BY PositionStep
<1>5. p.byteOffset = off /\ v.state = p /\ Covers(cps, d, j) /\ v.next \in Nat /\ Newest(cps).byteOffset < v.next
      /\ v.next <= Newest(cps).byteOffset + CheckpointBytes /\ off < v.next + UTFMax
  BY <1>1, PositionParts DEF Scanned
<1>6. w.state = PositionOf(d, k)
  BY <1>4, <1>5 DEF ScanStep
<1>7. Newest(cps).byteOffset \in Nat /\ Newest(cps).byteOffset = Starts(d)[Newest(cps).runeOffset]
      /\ Newest(cps).runeOffset \in 0..j
  BY <1>1, <1>5, CoversTypes
<1>. HIDE DEF p, off, end, width, j
<1>8. CASE off >= v.next
  <2>. DEFINE q == Append(cps, p)
              next == nextCheckpointAfter(off)
  <2>1. w.next = next /\ w.checkpoints = q
    BY <1>5, <1>8 DEF ScanStep
  <2>2. Newest(cps).runeOffset < j
    <3>1. Newest(cps).byteOffset < off
      BY <1>3, <1>5, <1>7, <1>8
    <3>2. Newest(cps).runeOffset # j
      BY <1>7, <3>1 DEF off
    <3>. QED  BY <1>1, <1>7, <3>2
  <2>3. Covers(q, d, j) /\ Newest(q) = p
    BY <1>1, <1>5, <2>2, CoversMore DEF p
  <2>4. next \in Nat /\ off < next /\ next <= off + CheckpointBytes
    BY <1>3, NextIs
  <2>. HIDE DEF q, next
  <2>5. end <= off + Window /\ end < next + UTFMax
    BY <1>2, <1>3, <2>4
  <2>6. Covers(q, d, k)
    <3>1. end <= Newest(q).byteOffset + Window
      BY <1>5, <2>3, <2>5
    <3>. QED  BY <1>1, <2>3, <3>1, CoversOn DEF end
  <2>7. Newest(q).byteOffset = off
    BY <1>5, <2>3
  <2>. HIDE DEF w, cps
  <2>8. Scanned(w, d, k)
    BY <1>6, <2>1, <2>4, <2>5, <2>6, <2>7 DEF Scanned, end
  <2>. QED  BY <2>8 DEF w
<1>9. CASE ~(off >= v.next)
  <2>1. w.next = v.next /\ w.checkpoints = cps
    BY <1>5, <1>9 DEF ScanStep
  <2>. DEFINE last == Newest(cps).byteOffset
  <2>2. end < v.next + UTFMax /\ end <= last + Window
    <3>. HIDE DEF last
    <3>1. off < v.next
      BY <1>3, <1>5, <1>9
    <3>2. end < v.next + UTFMax
      BY <1>2, <1>3, <1>5, <3>1
    <3>3. v.next <= last + CheckpointBytes /\ last \in Nat
      BY <1>5, <1>7 DEF last
    <3>4. PICK x, y, t, c, u \in Nat : x = end /\ y = last /\ t = v.next /\ c = CheckpointBytes /\ u = UTFMax
      BY <1>2, <1>3, <1>5, <3>3
    <3>5. x < t + u /\ t <= y + c
      BY <3>2, <3>3, <3>4
    <3>6. x <= y + (c + u)
      BY <3>5
    <3>7. end <= last + Window
      BY <1>2, <3>4, <3>6
    <3>. QED  BY <3>2, <3>7
  <2>3. Covers(cps, d, k)
    BY <1>1, <1>5, <2>2, CoversOn DEF end
  <2>. HIDE DEF w, cps, last
  <2>4. Scanned(w, d, k)
    BY <1>5, <1>6, <2>1, <2>2, <2>3 DEF Scanned, end
  <2>. QED  BY <2>4 DEF w
<1>. QED  BY <1>8, <1>9

LEMMA ScanCovers ==
    ASSUME NEW d \in Docs, NEW a \in 0..Len(d), NEW b \in 0..Len(d), a <= b,
           NEW cps, Covers(cps, d, a), Newest(cps) = PositionOf(d, a)
    PROVE  LET r == scanSegment(d, PositionOf(d, a), cps, Starts(d)[a], Starts(d)[b])
           IN  r.state = PositionOf(d, b) /\ Covers(r.checkpoints, d, b)
<1>. DEFINE next == nextCheckpointAfter(Starts(d)[a])
            v == [state |-> PositionOf(d, a), next |-> next, checkpoints |-> cps]
            s == Scan(d, v, a, b)
            Done == {m \in Nat : a + m <= b => Scanned(s[a + m], d, a + m)}
<1>1. Len(d) \in Nat /\ a \in Nat /\ b \in Nat /\ UTFMax \in Nat
  BY RuneWidths, IndexAssumption
<1>2. Scanned(v, d, a)
  <2>1. Starts(d)[a] \in Nat /\ Newest(cps).byteOffset = Starts(d)[a]
    BY PositionParts
  <2>2. next \in Nat /\ Starts(d)[a] < next /\ next <= Starts(d)[a] + CheckpointBytes
    BY <2>1, NextIs
  <2>. HIDE DEF next
  <2>3. Starts(d)[a] < next + UTFMax
    BY <1>1, <2>1, <2>2
  <2>. QED  BY <2>1, <2>2, <2>3 DEF Scanned
<1>3. s[a] = v /\ \A k \in (a + 1)..b : s[k] = ScanStep(s[k - 1], d[k])
  BY <1>1, ScanUnfold
<1>. HIDE DEF s, v
<1>4. 0 \in Done
  <2>1. a + 0 = a
    BY <1>1
  <2>. QED  BY <1>2, <1>3, <2>1
<1>5. ASSUME NEW m \in Nat, m \in Done PROVE m + 1 \in Done
  <2>. SUFFICES ASSUME a + (m + 1) <= b PROVE Scanned(s[a + (m + 1)], d, a + (m + 1))
    OBVIOUS
  <2>1. PICK k \in 1..Len(d) : k = a + (m + 1) /\ k - 1 = a + m /\ k \in (a + 1)..b
    <3>1. a + (m + 1) \in 1..Len(d) /\ (a + (m + 1)) - 1 = a + m /\ a + (m + 1) \in (a + 1)..b
      BY <1>1
    <3>. QED  BY <3>1
  <2>2. a + m <= b
    BY <1>1
  <2>3. Scanned(s[k - 1], d, k - 1)
    BY <1>5, <2>1, <2>2
  <2>4. Scanned(s[k], d, k)
    BY <1>3, <2>1, <2>3, ScanOne
  <2>. QED  BY <2>1, <2>4
<1>6. \A m \in Nat : m \in Done
  <2>. HIDE DEF Done
  <2>. QED  BY <1>4, <1>5, SetInduction
<1>7. Scanned(s[b], d, b)
  <2>1. PICK m \in Nat : a + m = b
    <3>1. b - a \in Nat /\ a + (b - a) = b
      BY <1>1
    <3>. QED  BY <3>1
  <2>2. m \in Done /\ a + m <= b
    BY <1>1, <1>6, <2>1
  <2>. QED  BY <2>1, <2>2
<1>8. scanSegment(d, PositionOf(d, a), cps, Starts(d)[a], Starts(d)[b]) = s[b]
  BY SegmentIs DEF s, v
<1>. QED  BY <1>7, <1>8 DEF Scanned

-----------------------------------------------------------------------------
\* What a map leaves alone

LEMMA MinIs ==
    ASSUME NEW S \in SUBSET Nat, S # {}
    PROVE  Min(S) \in S /\ \A y \in S : Min(S) <= y
<1>1. \E x \in S : \A y \in S : x =< y
  BY LeastOf
<1>. QED  BY <1>1 DEF Min

LEMMA StartsSame ==
    ASSUME NEW d \in Docs, NEW e \in Docs, NEW k \in 0..Len(d), k <= Len(e), SameRunes(d, 0, e, 0, k)
    PROVE  Starts(e)[k] = Starts(d)[k] /\ k \in 0..Len(e)
<1>1. k \in 0..Len(e)
  BY RuneWidths
<1>2. PositionOf(e, k).byteOffset = PositionOf(d, k).byteOffset
  BY PositionSame
<1>. QED  BY <1>1, <1>2, PositionParts

\* The runes in front of every edit are the first ones of every document.
LEMMA PrefixStays ==
    ASSUME NEW c, NEW edits, Track(c, edits), NEW k \in 0..Len(c[0]),
           \A i \in 1..Len(edits) : Starts(c[0])[k] <= edits[i].start
    PROVE  \A i \in 0..Len(edits) : k <= Len(c[i]) /\ SameRunes(c[0], 0, c[i], 0, k)
<1>. DEFINE n == Len(edits)
            d == c[0]
            Done == {m \in Nat : m <= n => k <= Len(c[m]) /\ SameRunes(d, 0, c[m], 0, k)}
<1>1. n \in Nat /\ (\A i \in 1..n : edits[i] \in Edit) /\ (\A i \in 0..n : c[i] \in Docs) /\ d \in Docs
  BY TrackTypes
<1>2. Len(d) \in Nat /\ k \in Nat /\ Starts(d)[k] \in Nat /\ k \in 0..Len(d)
  BY <1>1, RuneWidths, StartsGrow
<1>. HIDE DEF d
<1>3. 0 \in Done
  BY <1>2 DEF SameRunes, d
<1>4. ASSUME NEW m \in Nat, m \in Done PROVE m + 1 \in Done
  <2>. SUFFICES ASSUME m + 1 <= n PROVE k <= Len(c[m + 1]) /\ SameRunes(d, 0, c[m + 1], 0, k)
    OBVIOUS
  <2>1. PICK l \in 1..n : l = m + 1 /\ l - 1 = m /\ l \in 0..n /\ m \in 0..n /\ m <= n
    <3>1. m + 1 \in 1..n /\ (m + 1) - 1 = m /\ m + 1 \in 0..n /\ m \in 0..n /\ m <= n
      BY <1>1
    <3>. QED  BY <3>1
  <2>. DEFINE x == c[m]
              y == c[l]
              e == edits[l]
  <2>2. x \in Docs /\ y \in Docs /\ e \in Edit /\ k <= Len(x) /\ SameRunes(d, 0, x, 0, k)
    BY <1>1, <1>4, <2>1
  <2>3. EditStep(e, x, y)
    BY <2>1 DEF Track
  <2>4. Starts(d)[k] <= e.start
    BY DEF d
  <2>. HIDE DEF x, y, e
  <2>5. PICK s, g, h \in Nat : Splice(e, x, y, s, g, h)
    BY <2>3 DEF EditStep
  <2>6. s + g <= Len(x) /\ s + h <= Len(y) /\ SameRunes(x, 0, y, 0, s) /\ Starts(x)[s] = e.start
    BY <2>5 DEF Splice
  <2>7. Starts(x)[k] = Starts(d)[k] /\ k \in 0..Len(x)
    BY <1>1, <1>2, <2>2, StartsSame
  <2>8. Len(x) \in Nat /\ Len(y) \in Nat /\ s \in 0..Len(x)
    BY <2>2, <2>6, RuneWidths
  <2>9. k <= s
    <3>1. Starts(x)[k] <= Starts(x)[s]
      BY <2>4, <2>6, <2>7
    <3>. QED  BY <2>2, <2>7, <2>8, <3>1, StartsGrow
  <2>10. k <= Len(y)
    BY <1>2, <2>6, <2>8, <2>9
  <2>11. SameRunes(d, 0, y, 0, k)
    <3>1. ASSUME NEW i \in 1..k PROVE d[0 + i] = y[0 + i]
      <4>1. i \in 1..s
        BY <1>2, <2>9
      <4>. QED  BY <2>2, <2>6, <4>1 DEF SameRunes
    <3>. QED  BY <3>1 DEF SameRunes
  <2>. QED  BY <2>1, <2>10, <2>11 DEF y
<1>5. \A m \in Nat : m \in Done
  <2>. HIDE DEF Done
  <2>. QED  BY <1>3, <1>4, SetInduction
<1>6. ASSUME NEW i \in 0..n PROVE k <= Len(c[i]) /\ SameRunes(d, 0, c[i], 0, k)
  <2>1. i \in Nat /\ i <= n
    BY <1>1
  <2>2. i \in Done
    BY <1>5, <2>1
  <2>. QED  BY <2>1, <2>2
<1>. QED  BY <1>6 DEF d

\* From rune a on d reads as y does from rune b on.
Ends(v, d, y, a, b) ==
    /\ v \in [old : Nat, new : Nat] /\ a \in 0..Len(d) /\ b \in 0..Len(y)
    /\ v.old = Starts(d)[a] /\ v.new = Starts(y)[b]
    /\ Len(d) + b = Len(y) + a
    /\ SameRunes(d, a, y, b, Len(d) - a)

SuffixStep(s, e) ==
    IF e.start + e.old <= s.new THEN [s EXCEPT !.new = @ + e.new - e.old]
    ELSE [old |-> s.old + (e.start + e.old) - s.new, new |-> e.start + e.new]

LEMMA SuffixOne ==
    ASSUME NEW d \in Docs, NEW x \in Docs, NEW y \in Docs, NEW e \in Edit,
           NEW s \in Nat, NEW k \in Nat, NEW m \in Nat, Splice(e, x, y, s, k, m),
           NEW v, NEW a \in Nat, NEW b \in Nat, Ends(v, d, x, a, b)
    PROVE  \E p, q \in Nat : Ends(SuffixStep(v, e), d, y, p, q) /\ s <= q
<1>. DEFINE w == SuffixStep(v, e)
            end == e.start + e.old
<1>1. Len(d) \in Nat /\ Len(x) \in Nat /\ Len(y) \in Nat /\ e.start \in Nat /\ e.old \in Nat /\ e.new \in Nat
  BY RuneWidths DEF Edit
<1>2. s + k <= Len(x) /\ s + m <= Len(y) /\ Len(x) + m = Len(y) + k
      /\ Starts(x)[s + k] = end /\ Starts(y)[s + m] = e.start + e.new
      /\ SameRunes(x, s + k, y, s + m, Len(x) - (s + k))
  BY DEF Splice
<1>3. /\ v \in [old : Nat, new : Nat] /\ a \in 0..Len(d) /\ b \in 0..Len(x) /\ v.old = Starts(d)[a]
      /\ v.new = Starts(x)[b] /\ Len(d) + b = Len(x) + a /\ SameRunes(d, a, x, b, Len(d) - a)
  BY DEF Ends
<1>4. v = [old |-> v.old, new |-> v.new]
  BY <1>3
<1>5. v.old \in Nat /\ v.new \in Nat /\ end \in Nat /\ s + k \in 0..Len(x)
  <2>1. v.old \in Nat /\ v.new \in Nat
    BY <1>3
  <2>2. end \in Nat
    BY <1>1
  <2>3. s + k <= Len(x)
    BY <1>2, Zenon
  <2>4. s + k \in 0..Len(x)
    BY <1>1, <2>3
  <2>. QED  BY <2>1, <2>2, <2>4
<1>6. PICK D, X, Y \in Nat : D = Len(d) /\ X = Len(x) /\ Y = Len(y)
  BY <1>1
<1>7. s + k <= X /\ s + m <= Y /\ X + m = Y + k /\ D + b = X + a /\ a <= D /\ b <= X
  BY <1>2, <1>3, <1>6
<1>8. s + k <= b <=> end <= v.new
  <2>1. b \in 0..Len(x) /\ s + k \in 0..Len(x)
    BY <1>3, <1>5
  <2>2. s + k <= b <=> Starts(x)[s + k] <= Starts(x)[b]
    BY <2>1, StartsGrow
  <2>. QED  BY <1>2, <1>3, <2>2
<1>9. CASE end <= v.new
  <2>1. s + k <= b
    BY <1>9, <1>8
  <2>2. PICK n \in Nat : b = (s + k) + n
    <3>1. b - (s + k) \in Nat /\ b = (s + k) + (b - (s + k))
      BY <1>5, <2>1
    <3>. QED  BY <3>1
  <2>. DEFINE q == (s + m) + n
  <2>3. q \in 0..Len(y) /\ Len(d) + q = Len(y) + a /\ n \in 0..(Len(x) - (s + k)) /\ s <= q
    <3>1. q \in 0..Y /\ D + q = Y + a /\ n \in 0..(X - (s + k)) /\ s <= q
      BY <1>7, <2>2
    <3>. QED  BY <1>6, <3>1
  <2>4. Starts(y)[q] = v.new - e.old + e.new /\ Starts(y)[q] \in Nat
    <3>1. BackMoves(e, x, s + k, y, s + m)
      BY SpliceStarts
    <3>. QED  BY <1>3, <2>2, <2>3, <3>1 DEF BackMoves
  <2>. HIDE DEF q
  <2>5. w = [old |-> v.old, new |-> v.new + (e.new - e.old)]
    <3>1. w = [v EXCEPT !.new = @ + e.new - e.old]
      BY <1>9 DEF SuffixStep
    <3>. QED  BY <1>4, <3>1
  <2>6. v.new + (e.new - e.old) = Starts(y)[q]
    <3>1. PICK t, u, o \in Nat : t = v.new /\ u = e.new /\ o = e.old
      BY <1>1, <1>5
    <3>2. Starts(y)[q] = t - o + u
      BY <2>4, <3>1
    <3>3. t + (u - o) = t - o + u
      BY <3>1
    <3>. QED  BY <3>1, <3>2, <3>3
  <2>7. SameRunes(d, a, y, q, Len(d) - a)
    <3>1. ASSUME NEW i \in 1..(Len(d) - a) PROVE d[a + i] = y[q + i]
      <4>1. d[a + i] = x[b + i]
        BY <1>3 DEF SameRunes
      <4>2. PICK j \in 1..(Len(x) - (s + k)) : j = n + i /\ b + i = (s + k) + j /\ q + i = (s + m) + j
        <5>1. n + i \in 1..(Len(x) - (s + k)) /\ b + i = (s + k) + (n + i) /\ q + i = (s + m) + (n + i)
          BY <1>1, <1>3, <1>5, <2>2 DEF q
        <5>. QED  BY <5>1
      <4>3. x[(s + k) + j] = y[(s + m) + j]
        BY <1>2 DEF SameRunes
      <4>. QED  BY <4>1, <4>2, <4>3
    <3>. QED  BY <3>1 DEF SameRunes
  <2>8. w \in [old : Nat, new : Nat] /\ w.old = v.old /\ w.new = Starts(y)[q]
    BY <1>5, <2>4, <2>5, <2>6
  <2>. HIDE DEF w
  <2>9. Ends(w, d, y, a, q)
    BY <1>3, <2>3, <2>7, <2>8 DEF Ends
  <2>. QED  BY <2>3, <2>9 DEF w, q
<1>10. CASE ~(end <= v.new)
  <2>1. b < s + k
    BY <1>10, <1>8
  <2>2. PICK n \in Nat : s + k = b + n
    <3>1. (s + k) - b \in Nat /\ s + k = b + ((s + k) - b)
      BY <1>5, <2>1
    <3>. QED  BY <3>1
  <2>. DEFINE p == a + n
              q == s + m
  <2>3. p \in 0..Len(d) /\ q \in 0..Len(y) /\ Len(d) + q = Len(y) + p /\ s <= q /\ p <= Len(d) /\ b + n <= Len(x)
        /\ n <= Len(d) - a /\ Len(d) - p = Len(x) - (s + k)
    <3>1. p \in 0..D /\ q \in 0..Y /\ D + q = Y + p /\ s <= q /\ p <= D /\ b + n <= X
          /\ n <= D - a /\ D - p = X - (s + k)
      BY <1>7, <2>2
    <3>. QED  BY <1>6, <3>1
  <2>4. Starts(d)[p] + Starts(x)[b] = Starts(x)[b + n] + Starts(d)[a]
    <3>1. SameKinds(d, a, x, b, n)
      <4>1. \A i \in 1..n : i \in 1..(Len(d) - a)
        BY <1>1, <1>5, <2>3
      <4>. QED  BY <1>3, <4>1 DEF SameKinds, SameRunes
    <3>2. a + n <= Len(d) /\ b + n <= Len(x)
      BY <2>3
    <3>. QED  BY <3>1, <3>2, StartsShift
  <2>5. Starts(d)[p] \in Nat
    BY <2>3, StartsGrow
  <2>. HIDE DEF p, q
  <2>6. w = [old |-> v.old + (end - v.new), new |-> e.start + e.new]
    BY <1>10 DEF SuffixStep
  <2>7. v.old + (end - v.new) = Starts(d)[p]
    <3>1. PICK g, h, t, u \in Nat : g = Starts(d)[p] /\ h = v.new /\ t = end /\ u = v.old
      BY <1>5, <2>5
    <3>2. g + h = t + u
      BY <1>2, <1>3, <2>2, <2>4, <3>1
    <3>3. u + (t - h) = g
      BY <3>2
    <3>. QED  BY <3>1, <3>3
  <2>8. w \in [old : Nat, new : Nat] /\ w.old = Starts(d)[p] /\ w.new = Starts(y)[q]
    <3>1. e.start + e.new \in Nat /\ Starts(y)[q] = e.start + e.new
      <4>1. Starts(y)[q] = e.start + e.new
        BY <1>2 DEF q
      <4>2. e.start + e.new \in Nat
        BY <1>1
      <4>. QED  BY <4>1, <4>2
    <3>. QED  BY <2>5, <2>6, <2>7, <3>1
  <2>9. SameRunes(d, p, y, q, Len(d) - p)
    <3>1. ASSUME NEW i \in 1..(Len(d) - p) PROVE d[p + i] = y[q + i]
      <4>1. PICK j \in 1..(Len(d) - a) : j = n + i /\ p + i = a + j /\ b + j = (s + k) + i
        <5>1. n + i \in 1..(Len(d) - a) /\ p + i = a + (n + i) /\ b + (n + i) = (s + k) + i
          BY <1>1, <1>5, <2>2, <2>3 DEF p
        <5>. QED  BY <5>1
      <4>2. d[a + j] = x[b + j]
        BY <1>3 DEF SameRunes
      <4>3. i \in 1..(Len(x) - (s + k))
        BY <2>3
      <4>4. x[(s + k) + i] = y[(s + m) + i]
        BY <1>2, <4>3 DEF SameRunes
      <4>. QED  BY <4>1, <4>2, <4>4 DEF q
    <3>. QED  BY <3>1 DEF SameRunes
  <2>. HIDE DEF w
  <2>10. Ends(w, d, y, p, q)
    BY <2>3, <2>8, <2>9 DEF Ends
  <2>. QED  BY <2>3, <2>10 DEF w, p, q
<1>. QED  BY <1>9, <1>10

SuffixBody(g, edits) ==
    [i \in 0..Len(edits) |-> IF i = 0 THEN [old |-> 0, new |-> 0] ELSE SuffixStep(g[i - 1], edits[i])]
SuffixAt(edits) == CHOOSE g : g = SuffixBody(g, edits)

LEMMA SuffixUnfold ==
    ASSUME NEW edits, Len(edits) \in Nat
    PROVE  /\ SuffixAt(edits)[0] = [old |-> 0, new |-> 0]
           /\ \A i \in 1..Len(edits) : SuffixAt(edits)[i] = SuffixStep(SuffixAt(edits)[i - 1], edits[i])
<1>. DEFINE n == Len(edits)
            base == [old |-> 0, new |-> 0]
            Val(g, i) == IF i = 0 THEN base ELSE SuffixStep(g[i - 1], edits[i])
            Right(g, m) == \A i \in 0..n : i <= m => g[i] = Val(g, i)
            Done == {m \in Nat : \E g : Right(g, m)}
<1>. HIDE DEF base
<1>1. 0 \in Done
  <2>. DEFINE g == [i \in 0..n |-> base]
  <2>1. Right(g, 0)
    OBVIOUS
  <2>. HIDE DEF g, Right
  <2>. QED  BY <2>1
<1>2. ASSUME NEW m \in Nat, m \in Done PROVE m + 1 \in Done
  <2>1. PICK g : Right(g, m)
    BY <1>2
  <2>. DEFINE f == [i \in 0..n |-> Val(g, i)]
  <2>2. ASSUME NEW i \in 0..n, i <= m + 1 PROVE f[i] = Val(f, i)
    <3>1. CASE i = 0
      BY <3>1
    <3>2. CASE i # 0
      <4>1. i - 1 \in 0..n /\ i - 1 <= m
        BY <2>2, <3>2
      <4>2. g[i - 1] = Val(g, i - 1)
        <5>. HIDE DEF Val
        <5>. QED  BY <2>1, <4>1
      <4>3. f[i - 1] = Val(g, i - 1) /\ f[i] = Val(g, i)
        <5>. HIDE DEF Val
        <5>. QED  BY <4>1
      <4>4. f[i - 1] = g[i - 1]
        <5>. HIDE DEF Val, f
        <5>. QED  BY <4>2, <4>3
      <4>. HIDE DEF f
      <4>. QED  BY <3>2, <4>3, <4>4
    <3>. QED  BY <3>1, <3>2
  <2>3. Right(f, m + 1)
    <3>. HIDE DEF Val, f
    <3>. QED  BY <2>2
  <2>. HIDE DEF f, Right
  <2>. QED  BY <2>3
<1>3. \A m \in Nat : m \in Done
  <2>. HIDE DEF Done
  <2>. QED  BY <1>1, <1>2, SetInduction
<1>4. PICK g : Right(g, n)
  <2>1. n \in Done
    BY <1>3
  <2>. HIDE DEF Right
  <2>. QED  BY <2>1
<1>. DEFINE f == [i \in 0..n |-> g[i]]
<1>5. f = SuffixBody(f, edits)
  <2>1. ASSUME NEW i \in 0..n PROVE f[i] = (IF i = 0 THEN base ELSE SuffixStep(f[i - 1], edits[i]))
    <3>1. g[i] = Val(g, i) /\ f[i] = g[i]
      BY <1>4
    <3>2. CASE i = 0
      BY <3>1, <3>2
    <3>3. CASE i # 0
      <4>1. i - 1 \in 0..n
        BY <3>3
      <4>2. f[i - 1] = g[i - 1]
        BY <4>1
      <4>. HIDE DEF f
      <4>. QED  BY <3>1, <3>3, <4>2
    <3>. QED  BY <3>2, <3>3
  <2>2. f = [i \in 0..n |-> f[i]]
    OBVIOUS
  <2>. HIDE DEF f
  <2>. QED  BY <2>1, <2>2 DEF SuffixBody, base
<1>6. SuffixAt(edits) = SuffixBody(SuffixAt(edits), edits)
  <2>. HIDE DEF f
  <2>. QED  BY <1>5 DEF SuffixAt
<1>. DEFINE s == SuffixAt(edits)
<1>7. s = [i \in 0..n |-> IF i = 0 THEN base ELSE SuffixStep(s[i - 1], edits[i])]
  BY <1>6 DEF SuffixBody, base
<1>. HIDE DEF s
<1>8. s[0] = base
  <2>1. 0 \in 0..n
    OBVIOUS
  <2>. QED  BY <1>7, <2>1
<1>9. ASSUME NEW i \in 1..n PROVE s[i] = SuffixStep(s[i - 1], edits[i])
  <2>1. i \in 0..n /\ i # 0
    OBVIOUS
  <2>. QED  BY <1>7, <2>1
<1>. QED  BY <1>8, <1>9 DEF s, base

LEMMA StableSuffixIs ==
    ASSUME NEW m PROVE stableSuffix(m) = SuffixAt(m.edits)[Len(m.edits)]
BY DEF stableSuffix, SuffixAt, SuffixBody, SuffixStep

\* The suffix a map keeps, behind what it keeps in front of its edits.
LEMMA SuffixStays ==
    ASSUME NEW c, NEW edits, Track(c, edits), NEW k \in 0..Len(c[0]),
           \A i \in 1..Len(edits) : Starts(c[0])[k] <= edits[i].start
    PROVE  \E a, b \in Nat : /\ Ends(SuffixAt(edits)[Len(edits)], c[0], c[Len(edits)], a, b)
                             /\ Len(edits) # 0 => k <= b
<1>. DEFINE n == Len(edits)
            d == c[0]
            at == SuffixAt(edits)
            Holds(i, a, b) == Ends(at[i], d, c[i], a, b) /\ (i # 0 => k <= b)
            Done == {i \in Nat : i <= n => \E a, b \in Nat : Holds(i, a, b)}
<1>1. n \in Nat /\ (\A i \in 1..n : edits[i] \in Edit) /\ (\A i \in 0..n : c[i] \in Docs) /\ d \in Docs
  BY TrackTypes
<1>2. Len(d) \in Nat /\ k \in Nat /\ Starts(d)[k] \in Nat /\ k \in 0..Len(d) /\ Starts(d)[0] = 0
  BY <1>1, RuneWidths, StartsGrow, StartsUnfold
<1>3. at[0] = [old |-> 0, new |-> 0] /\ \A i \in 1..n : at[i] = SuffixStep(at[i - 1], edits[i])
  BY <1>1, SuffixUnfold
<1>4. \A i \in 0..n : k <= Len(c[i]) /\ SameRunes(d, 0, c[i], 0, k)
  BY PrefixStays
<1>. HIDE DEF d, at
<1>5. 0 \in Done
  <2>1. at[0] \in [old : Nat, new : Nat] /\ at[0].old = 0 /\ at[0].new = 0
    BY <1>3
  <2>2. 0 \in 0..Len(d) /\ c[0] = d
    BY <1>2 DEF d
  <2>3. SameRunes(d, 0, d, 0, Len(d) - 0)
    BY DEF SameRunes
  <2>4. Ends(at[0], d, d, 0, 0)
    BY <1>2, <2>1, <2>2, <2>3 DEF Ends
  <2>5. Holds(0, 0, 0) /\ 0 \in Nat
    BY <2>2, <2>4
  <2>. HIDE DEF Holds
  <2>. QED  BY <2>5
<1>6. ASSUME NEW i \in Nat, i \in Done PROVE i + 1 \in Done
  <2>. SUFFICES ASSUME i + 1 <= n PROVE \E a, b \in Nat : Holds(i + 1, a, b)
    <3>. HIDE DEF Holds
    <3>. QED  OBVIOUS
  <2>1. PICK l \in 1..n : l = i + 1 /\ l - 1 = i /\ l \in 0..n /\ i \in 0..n /\ i <= n
    <3>1. i + 1 \in 1..n /\ (i + 1) - 1 = i /\ i + 1 \in 0..n /\ i \in 0..n /\ i <= n
      BY <1>1
    <3>. QED  BY <3>1
  <2>. DEFINE x == c[i]
              y == c[l]
              e == edits[l]
  <2>2. x \in Docs /\ y \in Docs /\ e \in Edit /\ k <= Len(x) /\ SameRunes(d, 0, x, 0, k)
    BY <1>1, <1>4, <2>1
  <2>3. EditStep(e, x, y)
    BY <2>1 DEF Track
  <2>4. Starts(d)[k] <= e.start
    BY DEF d
  <2>5. PICK a, b \in Nat : Holds(i, a, b)
    <3>. HIDE DEF Holds
    <3>. QED  BY <1>6, <2>1
  <2>6. at[l] = SuffixStep(at[i], e)
    BY <1>3, <2>1
  <2>. HIDE DEF x, y, e
  <2>7. PICK s, g, h \in Nat : Splice(e, x, y, s, g, h)
    BY <2>3 DEF EditStep
  <2>8. s + g <= Len(x) /\ Starts(x)[s] = e.start
    BY <2>7 DEF Splice
  <2>9. Starts(x)[k] = Starts(d)[k] /\ k \in 0..Len(x)
    BY <1>1, <1>2, <2>2, StartsSame
  <2>10. Len(x) \in Nat /\ s \in 0..Len(x)
    BY <2>2, <2>8, RuneWidths
  <2>11. k <= s
    <3>1. Starts(x)[k] <= Starts(x)[s]
      BY <2>4, <2>8, <2>9
    <3>. QED  BY <2>2, <2>9, <2>10, <3>1, StartsGrow
  <2>12. Ends(at[i], d, x, a, b)
    BY <2>5 DEF x
  <2>13. PICK p, q \in Nat : Ends(SuffixStep(at[i], e), d, y, p, q) /\ s <= q
    BY <1>1, <2>2, <2>7, <2>12, SuffixOne
  <2>14. Holds(l, p, q)
    <3>1. k <= q
      BY <1>2, <2>11, <2>13
    <3>. QED  BY <2>6, <2>13, <3>1 DEF y
  <2>. HIDE DEF Holds
  <2>. QED  BY <2>1, <2>14
<1>7. \A i \in Nat : i \in Done
  <2>. HIDE DEF Done
  <2>. QED  BY <1>5, <1>6, SetInduction
<1>8. PICK a, b \in Nat : Holds(n, a, b)
  <2>1. n \in Done /\ n <= n
    <3>. HIDE DEF Done
    <3>. QED  BY <1>1, <1>7
  <2>. HIDE DEF Holds
  <2>. QED  BY <2>1
<1>9. Ends(at[n], d, c[n], a, b) /\ (n # 0 => k <= b)
  BY <1>8
<1>. QED  BY <1>9 DEF at, d, n

-----------------------------------------------------------------------------
\* Searching the checkpoints

LEMMA SearchIs ==
    ASSUME NEW cps, Len(cps) \in Nat, NEW beyond
    PROVE  LET j == Search(cps, beyond)
           IN  /\ j \in 1..(Len(cps) + 1) /\ (j <= Len(cps) => cps[j] \in beyond)
               /\ \A i \in 1..Len(cps) : i < j => cps[i] \notin beyond
<1>. DEFINE n == Len(cps)
            S == {i \in 1..n : cps[i] \in beyond} \cup {n + 1}
            j == Min(S)
<1>1. S \in SUBSET Nat /\ S # {}
  OBVIOUS
<1>2. j \in S /\ \A y \in S : j <= y
  <2>. HIDE DEF S
  <2>. QED  BY <1>1, MinIs
<1>3. Search(cps, beyond) = j
  BY DEF Search
<1>. HIDE DEF j
<1>4. j \in 1..(n + 1) /\ (j <= n => cps[j] \in beyond)
  BY <1>2
<1>5. ASSUME NEW i \in 1..n, i < j PROVE cps[i] \notin beyond
  <2>1. SUFFICES ASSUME cps[i] \in beyond PROVE FALSE
    OBVIOUS
  <2>2. i \in S
    BY <2>1
  <2>3. j <= i /\ j \in Nat
    BY <1>2, <1>4, <2>2
  <2>. QED  BY <1>5, <2>3
<1>. QED  BY <1>3, <1>4, <1>5

LEMMA InToSet ==
    ASSUME NEW d \in Docs, NEW k \in 0..Len(d), NEW cps, Covers(cps, d, k), NEW i \in 1..Len(cps)
    PROVE  cps[i] \in ToSet(cps)
<1>1. cps \in Seq(Positions)
  BY DEF Covers
<1>2. DOMAIN cps = 1..Len(cps)
  BY <1>1
<1>. QED  BY <1>2 DEF ToSet

-----------------------------------------------------------------------------
\* The coordinate index

\* x answers for d: exact totals, and checkpoints from its start to its end.
GoodIndex(x, d) ==
    /\ x.byteLength = ByteLength(d) /\ x.runeCount = Len(d)
    /\ x.lineCount = PositionOf(d, Len(d)).line + 1
    /\ Covers(x.checkpoints, d, Len(d)) /\ Newest(x.checkpoints) = PositionOf(d, Len(d))

LEMMA IndexGood ==
    ASSUME NEW d \in Docs, NEW r, NEW cps, Covers(cps, d, Len(d)), Newest(cps) = PositionOf(d, Len(d))
    PROVE  LET x == Index(r, ByteLength(d), cps) IN "error" \notin DOMAIN x /\ x.revision = r /\ GoodIndex(x, d)
<1>. DEFINE x == Index(r, ByteLength(d), cps)
<1>1. Len(d) \in 0..Len(d)
  BY RuneWidths
<1>2. PositionOf(d, Len(d)).runeOffset = Len(d)
  BY <1>1, PositionParts
<1>3. x = [revision |-> r, byteLength |-> ByteLength(d), runeCount |-> Newest(cps).runeOffset,
           lineCount |-> Newest(cps).line + 1, checkpoints |-> cps]
  BY DEF Index, Newest
<1>4. "error" \notin DOMAIN x /\ x.revision = r
  BY <1>3
<1>5. /\ x.byteLength = ByteLength(d) /\ x.runeCount = Newest(cps).runeOffset
      /\ x.lineCount = Newest(cps).line + 1 /\ x.checkpoints = cps
  BY <1>3
<1>. HIDE DEF x
<1>6. GoodIndex(x, d)
  BY <1>2, <1>5 DEF GoodIndex
<1>. QED  BY <1>4, <1>6 DEF x

LEMMA FinishGood ==
    ASSUME NEW d \in Docs, NEW r, NEW scan, scan.state = PositionOf(d, Len(d)), Covers(scan.checkpoints, d, Len(d))
    PROVE  LET x == finishScan(r, d, scan) IN "error" \notin DOMAIN x /\ x.revision = r /\ GoodIndex(x, d)
<1>. DEFINE cps == AppendCheckpoint(scan.checkpoints, PositionOf(d, Len(d)))
<1>1. Len(d) \in 0..Len(d)
  BY RuneWidths
<1>2. Covers(cps, d, Len(d)) /\ Newest(cps) = PositionOf(d, Len(d))
  BY <1>1, CoversLast
<1>3. finishScan(r, d, scan) = Index(r, ByteLength(d), cps)
  BY DEF finishScan
<1>. HIDE DEF cps
<1>. QED  BY <1>2, <1>3, IndexGood

LEMMA BuildGood ==
    ASSUME NEW d \in Docs, NEW r
    PROVE  LET x == build(d, r) IN "error" \notin DOMAIN x /\ x.revision = r /\ GoodIndex(x, d)
<1>. DEFINE cps == <<Origin>>
            scan == scanSegment(d, Origin, cps, 0, ByteLength(d))
<1>1. Len(d) \in Nat /\ 0 \in 0..Len(d) /\ Len(d) \in 0..Len(d) /\ 0 <= Len(d)
  BY RuneWidths
<1>2. PositionOf(d, 0) = Origin /\ Origin \in Positions /\ Starts(d)[0] = 0 /\ Origin.runeOffset = 0
      /\ Origin.byteOffset = 0
  <2>1. PositionOf(d, 0) = Origin
    BY PositionOrigin
  <2>2. Starts(d)[0] = 0
    BY StartsUnfold
  <2>. QED  BY <2>1, <2>2 DEF Origin, Positions
<1>3. cps \in Seq(Positions) /\ Len(cps) = 1 /\ cps[1] = Origin
  BY <1>2
<1>. HIDE DEF cps
<1>4. Newest(cps) = Origin
  BY <1>3 DEF Newest
<1>5. Covers(cps, d, 0)
  <2>1. \A i \in 1..Len(cps) : i = 1
    BY <1>3
  <2>2. \A i, j \in 1..Len(cps) : ~(i < j)
    BY <1>3
  <2>3. 1..(Len(cps) - 1) = {}
    BY <1>3
  <2>4. 0 \in 0..0 /\ Len(cps) # 0
    BY <1>3
  <2>5. Starts(d)[0] <= cps[Len(cps)].byteOffset + Window
    BY <1>2, <1>3, WindowIs
  <2>. QED  BY <1>2, <1>3, <2>1, <2>2, <2>3, <2>4, <2>5 DEF Covers
<1>6. scan = scanSegment(d, PositionOf(d, 0), cps, Starts(d)[0], Starts(d)[Len(d)])
  BY <1>2 DEF ByteLength
<1>7. scan.state = PositionOf(d, Len(d)) /\ Covers(scan.checkpoints, d, Len(d))
  <2>. HIDE DEF scan
  <2>. QED  BY <1>1, <1>2, <1>4, <1>5, <1>6, ScanCovers
<1>8. build(d, r) = finishScan(r, d, scan)
  BY DEF build, cps
<1>. HIDE DEF scan
<1>. QED  BY <1>7, <1>8, FinishGood

\* The checkpoints in front of every edit are checkpoints of the new document.
LEMMA PrefixCovers ==
    ASSUME NEW d \in Docs, NEW e \in Docs, NEW cps, Covers(cps, d, Len(d)), NEW l \in 1..Len(cps),
           NEW k, k = cps[l].runeOffset, k <= Len(e), SameRunes(d, 0, e, 0, k)
    PROVE  LET q == SubSeq(cps, 1, l)
           IN  /\ Covers(q, e, k) /\ Newest(q) = PositionOf(e, k) /\ q[Len(q)] = cps[l]
               /\ k \in 0..Len(e) /\ cps[l].byteOffset = Starts(e)[k]
<1>. DEFINE q == SubSeq(cps, 1, l)
            n == Len(cps)
<1>1. Len(d) \in Nat /\ Len(e) \in Nat /\ Len(d) \in 0..Len(d)
  BY RuneWidths
<1>2. n \in Nat \ {0} /\ \A i \in 1..n : cps[i].runeOffset \in 0..Len(d) /\ cps[i].byteOffset \in Nat
  BY <1>1, CoversTypes
<1>3. k \in 0..Len(d) /\ k \in Nat /\ k \in 0..Len(e) /\ l \in Nat /\ l # 0
  BY <1>1, <1>2
<1>4. q \in Seq(Positions) /\ Len(q) = l /\ \A i \in 1..l : q[i] = cps[i]
  <2>1. cps \in Seq(Positions) /\ 1 \in Int /\ l \in Int /\ 1 <= l
    BY <1>3 DEF Covers
  <2>2. \A i \in 1..l : cps[i] \in Positions
    <3>1. \A i \in 1..l : i \in 1..n
      BY <1>2, <1>3
    <3>. QED  BY <2>1, <3>1, LenProperties
  <2>3. q \in Seq(Positions) /\ Len(q) = (IF 1 <= l THEN l - 1 + 1 ELSE 0) /\ \A i \in 1..(l - 1 + 1) : q[i] = cps[1 + i - 1]
    BY <2>1, <2>2, SubSeqProperties
  <2>4. Len(q) = l
    BY <1>3, <2>1, <2>3
  <2>5. \A i \in 1..l : 1 + i - 1 = i /\ i \in 1..(l - 1 + 1)
    BY <1>3
  <2>. QED  BY <2>3, <2>4, <2>5
<1>. HIDE DEF q
<1>5. \A i \in 1..l : i \in 1..n
  BY <1>2, <1>3
<1>6. ASSUME NEW i \in 1..l PROVE cps[i].runeOffset \in 0..k
  <2>1. i = l \/ i < l
    BY <1>3
  <2>2. i < l => cps[i].runeOffset < cps[l].runeOffset
    BY <1>5 DEF Covers
  <2>3. PICK x \in Nat : x = cps[i].runeOffset
    BY <1>1, <1>2, <1>5
  <2>4. x <= k
    BY <1>3, <2>1, <2>2, <2>3
  <2>. QED  BY <1>3, <2>3, <2>4
<1>7. ASSUME NEW i \in 1..l PROVE cps[i] = PositionOf(e, cps[i].runeOffset)
  <2>1. PICK x \in 0..k : x = cps[i].runeOffset
    BY <1>6
  <2>2. x \in 0..Len(d) /\ x <= Len(e)
    BY <1>1, <1>3
  <2>3. SameRunes(d, 0, e, 0, x)
    <3>1. \A j \in 1..x : j \in 1..k
      BY <1>3
    <3>. QED  BY <3>1 DEF SameRunes
  <2>4. PositionOf(e, x) = PositionOf(d, x)
    BY <2>2, <2>3, PositionSame
  <2>5. cps[i] = PositionOf(d, cps[i].runeOffset)
    BY <1>5 DEF Covers
  <2>. QED  BY <2>1, <2>4, <2>5
<1>8. l \in 1..l /\ 1 \in 1..l
  BY <1>3
<1>9. Newest(q) = cps[l] /\ cps[l] = PositionOf(e, k)
  BY <1>4, <1>7, <1>8 DEF Newest
<1>10. cps[l].byteOffset = Starts(e)[k] /\ Starts(e)[k] \in Nat
  BY <1>3, <1>9, PositionParts
<1>11. ASSUME NEW i \in 1..Len(q) PROVE q[i].runeOffset \in 0..k /\ q[i] = PositionOf(e, q[i].runeOffset)
  BY <1>4, <1>6, <1>7
<1>12. ASSUME NEW i \in 1..Len(q), NEW j \in 1..Len(q), i < j PROVE q[i].runeOffset < q[j].runeOffset
  <2>1. i \in 1..n /\ j \in 1..n /\ q[i] = cps[i] /\ q[j] = cps[j]
    BY <1>4, <1>5
  <2>2. cps[i].runeOffset < cps[j].runeOffset
    BY <1>12, <2>1 DEF Covers
  <2>. QED  BY <2>1, <2>2
<1>13. ASSUME NEW i \in 1..(Len(q) - 1) PROVE q[i + 1].byteOffset <= q[i].byteOffset + Window
  <2>1. i \in 1..l /\ i + 1 \in 1..l /\ i \in 1..(n - 1)
    BY <1>2, <1>3, <1>4
  <2>2. cps[i + 1].byteOffset <= cps[i].byteOffset + Window
    BY <2>1 DEF Covers
  <2>. QED  BY <1>4, <2>1, <2>2
<1>14. q[1].runeOffset = 0 /\ Len(q) # 0
  BY <1>3, <1>4, <1>8 DEF Covers
<1>15. Starts(e)[k] <= q[Len(q)].byteOffset + Window
  <2>1. PICK x \in Nat : x = Starts(e)[k]
    BY <1>10
  <2>2. q[Len(q)] = cps[l]
    BY <1>9 DEF Newest
  <2>3. q[Len(q)].byteOffset = x
    BY <1>10, <2>1, <2>2
  <2>4. x <= x + Window
    BY WindowIs
  <2>. QED  BY <2>1, <2>3, <2>4
<1>16. Covers(q, e, k)
  BY <1>4, <1>11, <1>12, <1>13, <1>14, <1>15 DEF Covers
<1>. QED  BY <1>3, <1>9, <1>10, <1>16 DEF q, Newest

AppendBody(g, cps, seam, suffix) ==
    [i \in 0..Len(suffix) |-> IF i = 0 THEN cps
                              ELSE AppendCheckpoint(g[i - 1], translated(suffix[i], suffix[1], seam))]
Appends(cps, seam, suffix) == CHOOSE g : g = AppendBody(g, cps, seam, suffix)

LEMMA AppendsUnfold ==
    ASSUME NEW cps, NEW seam, NEW suffix, Len(suffix) \in Nat
    PROVE  /\ Appends(cps, seam, suffix)[0] = cps
           /\ \A i \in 1..Len(suffix) :
                Appends(cps, seam, suffix)[i]
                  = AppendCheckpoint(Appends(cps, seam, suffix)[i - 1], translated(suffix[i], suffix[1], seam))
<1>. DEFINE n == Len(suffix)
            Then(p, i) == AppendCheckpoint(p, translated(suffix[i], suffix[1], seam))
            Val(g, i) == IF i = 0 THEN cps ELSE Then(g[i - 1], i)
            Right(g, m) == \A i \in 0..n : i <= m => g[i] = Val(g, i)
            Done == {m \in Nat : \E g : Right(g, m)}
<1>. HIDE DEF Then
<1>1. 0 \in Done
  <2>. DEFINE g == [i \in 0..n |-> cps]
  <2>1. Right(g, 0)
    OBVIOUS
  <2>. HIDE DEF g, Right
  <2>. QED  BY <2>1
<1>2. ASSUME NEW m \in Nat, m \in Done PROVE m + 1 \in Done
  <2>1. PICK g : Right(g, m)
    BY <1>2
  <2>. DEFINE f == [i \in 0..n |-> Val(g, i)]
  <2>2. ASSUME NEW i \in 0..n, i <= m + 1 PROVE f[i] = Val(f, i)
    <3>1. CASE i = 0
      BY <3>1
    <3>2. CASE i # 0
      <4>1. i - 1 \in 0..n /\ i - 1 <= m
        BY <2>2, <3>2
      <4>2. g[i - 1] = Val(g, i - 1)
        <5>. HIDE DEF Val
        <5>. QED  BY <2>1, <4>1
      <4>3. f[i - 1] = Val(g, i - 1) /\ f[i] = Val(g, i)
        <5>. HIDE DEF Val
        <5>. QED  BY <4>1
      <4>4. f[i - 1] = g[i - 1]
        <5>. HIDE DEF Val, f
        <5>. QED  BY <4>2, <4>3
      <4>. HIDE DEF f
      <4>. QED  BY <3>2, <4>3, <4>4
    <3>. QED  BY <3>1, <3>2
  <2>3. Right(f, m + 1)
    <3>. HIDE DEF Val, f
    <3>. QED  BY <2>2
  <2>. HIDE DEF f, Right
  <2>. QED  BY <2>3
<1>3. \A m \in Nat : m \in Done
  <2>. HIDE DEF Done
  <2>. QED  BY <1>1, <1>2, SetInduction
<1>4. PICK g : Right(g, n)
  <2>1. n \in Done
    BY <1>3
  <2>. HIDE DEF Right
  <2>. QED  BY <2>1
<1>. DEFINE f == [i \in 0..n |-> g[i]]
<1>5. f = AppendBody(f, cps, seam, suffix)
  <2>1. ASSUME NEW i \in 0..n PROVE f[i] = (IF i = 0 THEN cps ELSE Then(f[i - 1], i))
    <3>1. g[i] = Val(g, i) /\ f[i] = g[i]
      BY <1>4
    <3>2. CASE i = 0
      BY <3>1, <3>2
    <3>3. CASE i # 0
      <4>1. i - 1 \in 0..n
        BY <3>3
      <4>2. f[i - 1] = g[i - 1]
        BY <4>1
      <4>. HIDE DEF f
      <4>. QED  BY <3>1, <3>3, <4>2
    <3>. QED  BY <3>2, <3>3
  <2>2. f = [i \in 0..n |-> f[i]]
    OBVIOUS
  <2>. HIDE DEF f
  <2>3. AppendBody(f, cps, seam, suffix) = [i \in 0..n |-> IF i = 0 THEN cps ELSE Then(f[i - 1], i)]
    BY DEF AppendBody, Then
  <2>. QED  BY <2>1, <2>2, <2>3
<1>6. Appends(cps, seam, suffix) = AppendBody(Appends(cps, seam, suffix), cps, seam, suffix)
  <2>. HIDE DEF f
  <2>. QED  BY <1>5 DEF Appends
<1>. DEFINE s == Appends(cps, seam, suffix)
<1>7. s = [i \in 0..n |-> IF i = 0 THEN cps ELSE Then(s[i - 1], i)]
  BY <1>6 DEF AppendBody, Then
<1>. HIDE DEF s
<1>8. s[0] = cps
  <2>1. 0 \in 0..n
    OBVIOUS
  <2>. QED  BY <1>7, <2>1
<1>9. ASSUME NEW i \in 1..n PROVE s[i] = Then(s[i - 1], i)
  <2>1. i \in 0..n /\ i # 0
    OBVIOUS
  <2>. QED  BY <1>7, <2>1
<1>. QED  BY <1>8, <1>9 DEF s, Then

LEMMA AppendSuffixIs ==
    ASSUME NEW cps, NEW seam, NEW suffix
    PROVE  appendTranslatedSuffix(cps, seam, suffix) = Appends(cps, seam, suffix)[Len(suffix)]
BY DEF appendTranslatedSuffix, Appends, AppendBody

\* A checkpoint of the suffix, moved from rune a of d to rune b of e.
Moved(d, a, e, b, p, k) ==
    /\ a + k = p.runeOffset /\ a + k \in 0..Len(d) /\ b + k \in 0..Len(e)
    /\ translated(p, PositionOf(d, a), PositionOf(e, b)) = PositionOf(e, b + k)
    /\ p.byteOffset + Starts(e)[b] = Starts(e)[b + k] + Starts(d)[a]

LEMMA CheckpointMoves ==
    ASSUME NEW d \in Docs, NEW e \in Docs, NEW a \in 0..Len(d), NEW b \in 0..Len(e),
           Len(d) + b = Len(e) + a, SameRunes(d, a, e, b, Len(d) - a),
           NEW p, p.runeOffset \in 0..Len(d), a <= p.runeOffset, p = PositionOf(d, p.runeOffset)
    PROVE  \E k \in Nat : Moved(d, a, e, b, p, k)
<1>1. Len(d) \in Nat /\ Len(e) \in Nat /\ a \in Nat /\ b \in Nat
  BY RuneWidths
<1>2. PICK x \in 0..Len(d) : x = p.runeOffset /\ a <= x
  OBVIOUS
<1>3. PICK k \in Nat : a + k = x
  <2>1. x - a \in Nat /\ a + (x - a) = x
    BY <1>1, <1>2
  <2>. QED  BY <2>1
<1>4. a + k <= Len(d) /\ b + k <= Len(e) /\ b + k \in 0..Len(e) /\ a + k \in 0..Len(d)
  BY <1>1, <1>2, <1>3
<1>5. SameRunes(d, a, e, b, k)
  <2>1. \A i \in 1..k : i \in 1..(Len(d) - a)
    BY <1>1, <1>4
  <2>. QED  BY <2>1 DEF SameRunes
<1>6. SameKinds(d, a, e, b, k)
  BY <1>5 DEF SameRunes, SameKinds
<1>7. translated(PositionOf(d, a + k), PositionOf(d, a), PositionOf(e, b)) = PositionOf(e, b + k)
  BY <1>1, <1>4, <1>5, PositionTranslated
<1>8. Starts(d)[a + k] + Starts(e)[b] = Starts(e)[b + k] + Starts(d)[a]
  BY <1>1, <1>4, <1>6, StartsShift
<1>9. p = PositionOf(d, a + k) /\ a + k = p.runeOffset
  BY <1>2, <1>3
<1>10. p.byteOffset = Starts(d)[a + k]
  BY <1>4, <1>9, PositionParts
<1>11. Moved(d, a, e, b, p, k)
  BY <1>4, <1>7, <1>8, <1>9, <1>10 DEF Moved
<1>. QED  BY <1>11

Aligned(x, y, a, b) == x + b = y + a
SumsTo(a, k, x) == a + k = x

LEMMA SameRest ==
    ASSUME NEW x \in Nat, NEW y \in Nat, NEW a \in Nat, NEW b \in Nat, NEW k \in Nat,
           Aligned(x, y, a, b), SumsTo(a, k, x)
    PROVE  SumsTo(b, k, y)
BY DEF Aligned, SumsTo

LEMMA AppendTranslated ==
    ASSUME NEW d \in Docs, NEW e \in Docs, NEW cps, Covers(cps, d, Len(d)), Newest(cps) = PositionOf(d, Len(d)),
           NEW l \in 1..Len(cps), NEW a \in 0..Len(d), a = cps[l].runeOffset, NEW b \in 0..Len(e),
           Len(d) + b = Len(e) + a, SameRunes(d, a, e, b, Len(d) - a),
           NEW q, Covers(q, e, b)
    PROVE  LET r == appendTranslatedSuffix(q, PositionOf(e, b), SubSeq(cps, l, Len(cps)))
           IN  Covers(r, e, Len(e)) /\ Newest(r) = PositionOf(e, Len(e))
<1>. DEFINE n == Len(cps)
            suffix == SubSeq(cps, l, n)
            s == Appends(q, PositionOf(e, b), suffix)
            At(k, i) == /\ Moved(d, a, e, b, cps[l + i], k)
                        /\ Covers(s[i + 1], e, b + k) /\ Newest(s[i + 1]) = PositionOf(e, b + k)
            Done == {i \in Nat : l + i <= n => \E k \in Nat : At(k, i)}
<1>1. Len(d) \in Nat /\ Len(e) \in Nat /\ a \in Nat /\ b \in Nat /\ Len(d) \in 0..Len(d)
  BY RuneWidths
<1>2. n \in Nat \ {0} /\ l \in Nat \ {0} /\ \A i \in 1..n : cps[i].runeOffset \in 0..Len(d) /\ cps[i].byteOffset \in Nat
      /\ cps[i] = PositionOf(d, cps[i].runeOffset)
  <2>1. n \in Nat \ {0} /\ \A i \in 1..n : cps[i].runeOffset \in 0..Len(d) /\ cps[i].byteOffset \in Nat
    BY <1>1, CoversTypes
  <2>2. \A i \in 1..n : cps[i] = PositionOf(d, cps[i].runeOffset)
    BY DEF Covers
  <2>. QED  BY <2>1, <2>2
<1>3. Len(suffix) = (n - l) + 1 /\ \A i \in 1..((n - l) + 1) : suffix[i] = cps[l + (i - 1)]
  <2>1. cps \in Seq(Positions) /\ l \in Int /\ n \in Int /\ l <= n
    BY <1>2 DEF Covers
  <2>2. \A i \in l..n : cps[i] \in Positions
    <3>1. \A i \in l..n : i \in 1..n
      BY <1>2
    <3>. QED  BY <2>1, <3>1, LenProperties
  <2>3. Len(suffix) = (IF l <= n THEN n - l + 1 ELSE 0) /\ \A i \in 1..(n - l + 1) : suffix[i] = cps[l + i - 1]
    <3>. HIDE DEF n
    <3>. QED  BY <2>1, <2>2, SubSeqProperties
  <2>4. Len(suffix) = (n - l) + 1
    BY <1>2, <2>1, <2>3
  <2>5. \A i \in 1..((n - l) + 1) : l + i - 1 = l + (i - 1) /\ i \in 1..(n - l + 1)
    BY <1>2
  <2>. QED  BY <2>3, <2>4, <2>5
<1>0. l \in 1..n /\ l <= n
  BY <1>2
<1>. HIDE DEF suffix, n
<1>4. suffix[1] = PositionOf(d, a) /\ Len(suffix) \in Nat
  <2>1. 1 \in 1..((n - l) + 1) /\ l + (1 - 1) = l /\ (n - l) + 1 \in Nat
    BY <1>2 DEF n
  <2>. QED  BY <1>2, <1>3, <2>1 DEF n
<1>5. s[0] = q /\ \A i \in 1..Len(suffix) : s[i] = AppendCheckpoint(s[i - 1], translated(suffix[i], suffix[1], PositionOf(e, b)))
  BY <1>4, AppendsUnfold
<1>. HIDE DEF s
<1>6. ASSUME NEW i \in Nat, l + i <= n
      PROVE  /\ l + i \in 1..n
             /\ s[i + 1] = AppendCheckpoint(s[i], translated(cps[l + i], PositionOf(d, a), PositionOf(e, b)))
             /\ \E k \in Nat : Moved(d, a, e, b, cps[l + i], k)
  <2>1. l + i \in 1..n /\ i + 1 \in 1..((n - l) + 1) /\ (i + 1) - 1 = i /\ (l = l + i \/ l < l + i)
    <3>1. n \in Nat /\ l \in Nat /\ 1 <= l /\ l <= n
      BY <1>0, <1>2
    <3>. QED  BY <1>6, <3>1
  <2>2. s[i + 1] = AppendCheckpoint(s[i], translated(cps[l + i], PositionOf(d, a), PositionOf(e, b)))
    BY <1>3, <1>4, <1>5, <2>1
  <2>3. PICK y \in 1..n : y = l + i
    BY <2>1
  <2>4. cps[y].runeOffset \in 0..Len(d) /\ cps[y] = PositionOf(d, cps[y].runeOffset)
    BY <1>2, <2>3 DEF n
  <2>5. a <= cps[y].runeOffset
    <3>1. PICK x \in Nat : x = cps[y].runeOffset
      BY <1>1, <2>4
    <3>2. l < y => cps[l].runeOffset < cps[y].runeOffset
      BY <1>0, <2>3 DEF Covers, n
    <3>3. l < y => a < x
      BY <3>1, <3>2
    <3>4. l = y => a = x
      BY <3>1
    <3>5. l = y \/ l < y
      BY <2>1, <2>3
    <3>6. a <= x
      BY <1>1, <3>3, <3>4, <3>5
    <3>. QED  BY <3>1, <3>6
  <2>6. \E k \in Nat : Moved(d, a, e, b, cps[y], k)
    BY <2>4, <2>5, CheckpointMoves
  <2>. QED  BY <2>1, <2>2, <2>3, <2>6
<1>7. ASSUME NEW i \in Nat, l + i <= n, NEW k \in Nat, Moved(d, a, e, b, cps[l + i], k),
             Covers(s[i], e, b + k)
      PROVE  At(k, i)
  <2>1. s[i + 1] = AppendCheckpoint(s[i], PositionOf(e, b + k))
    BY <1>6, <1>7 DEF Moved
  <2>2. b + k \in 0..Len(e)
    BY <1>7 DEF Moved
  <2>3. Covers(s[i + 1], e, b + k) /\ Newest(s[i + 1]) = PositionOf(e, b + k)
    BY <1>7, <2>1, <2>2, CoversLast
  <2>. QED  BY <1>7, <2>3
<1>8. 0 \in Done
  <2>1. l + 0 = l /\ l + 0 <= n
    BY <1>2 DEF n
  <2>2. PICK k \in Nat : Moved(d, a, e, b, cps[l + 0], k)
    BY <1>6, <2>1
  <2>3. k = 0 /\ b + k = b
    <3>1. a + k = a
      BY <2>1, <2>2 DEF Moved
    <3>. QED  BY <1>1, <3>1
  <2>4. Covers(s[0], e, b + k)
    BY <1>5, <2>3
  <2>5. At(k, 0)
    BY <1>7, <2>1, <2>2, <2>4
  <2>. HIDE DEF At
  <2>. QED  BY <2>5
<1>9. ASSUME NEW i \in Nat, i \in Done PROVE i + 1 \in Done
  <2>. SUFFICES ASSUME l + (i + 1) <= n PROVE \E k \in Nat : At(k, i + 1)
    OBVIOUS
  <2>1. l + i <= n /\ l + i \in 1..(n - 1) /\ (l + i) + 1 = l + (i + 1) /\ l + i < l + (i + 1)
        /\ l + i \in 1..n /\ l + (i + 1) \in 1..n
    BY <1>2
  <2>2. PICK k \in Nat : At(k, i)
    <3>. HIDE DEF At
    <3>. QED  BY <1>9, <2>1
  <2>3. PICK j \in Nat : Moved(d, a, e, b, cps[l + (i + 1)], j)
    <3>1. i + 1 \in Nat /\ l + (i + 1) <= n
      OBVIOUS
    <3>. QED  BY <1>6, <3>1
  <2>4. cps[l + i].runeOffset < cps[l + (i + 1)].runeOffset
        /\ cps[l + (i + 1)].byteOffset <= cps[l + i].byteOffset + Window
    BY <2>1 DEF Covers, n
  <2>5. b + k <= b + j
    <3>1. a + k < a + j
      BY <2>2, <2>3, <2>4 DEF Moved
    <3>2. a \in Nat /\ b \in Nat /\ k \in Nat /\ j \in Nat
      BY <1>1
    <3>3. k < j
      BY <3>1, <3>2
    <3>. QED  BY <3>2, <3>3
  <2>6. b + k \in 0..Len(e) /\ b + j \in 0..Len(e)
    BY <2>2, <2>3 DEF Moved
  <2>7. Starts(e)[b + j] <= Newest(s[i + 1]).byteOffset + Window
    <3>1. PICK x, y, u, v, w \in Nat : x = cps[l + i].byteOffset /\ y = cps[l + (i + 1)].byteOffset
             /\ u = Starts(e)[b + k] /\ v = Starts(e)[b + j] /\ w = Starts(e)[b]
      <4>1. cps[l + i].byteOffset \in Nat /\ cps[l + (i + 1)].byteOffset \in Nat
        BY <1>2, <2>1 DEF n
      <4>2. Starts(e)[b + k] \in Nat /\ Starts(e)[b + j] \in Nat /\ Starts(e)[b] \in Nat
        BY <2>6, StartsGrow
      <4>. QED  BY <4>1, <4>2
    <3>2. PICK z \in Nat : z = Starts(d)[a]
      BY StartsGrow
    <3>3. x + w = u + z /\ y + w = v + z
      BY <2>2, <2>3, <3>1, <3>2 DEF Moved
    <3>4. y <= x + Window
      BY <2>4, <3>1
    <3>5. v <= u + Window
      BY <3>3, <3>4, WindowIs
    <3>6. Newest(s[i + 1]).byteOffset = u
      BY <2>2, <2>6, <3>1, PositionParts
    <3>. QED  BY <3>1, <3>5, <3>6
  <2>8. Covers(s[i + 1], e, b + j)
    BY <2>2, <2>5, <2>6, <2>7, CoversOn
  <2>9. At(j, i + 1)
    <3>1. i + 1 \in Nat /\ l + (i + 1) <= n
      OBVIOUS
    <3>. HIDE DEF At
    <3>. QED  BY <1>7, <2>3, <2>8, <3>1
  <2>. HIDE DEF At
  <2>. QED  BY <2>9
<1>10. \A i \in Nat : i \in Done
  <2>. HIDE DEF Done
  <2>. QED  BY <1>8, <1>9, SetInduction
<1>11. PICK i \in Nat : l + i = n
  <2>1. n - l \in Nat /\ l + (n - l) = n
    BY <1>2 DEF n
  <2>. QED  BY <2>1
<1>12. PICK k \in Nat : At(k, i)
  <2>1. l + i <= n
    BY <1>2, <1>11
  <2>2. i \in Done
    BY <1>10
  <2>. HIDE DEF At
  <2>. QED  BY <2>1, <2>2
<1>13. b + k = Len(e)
  <2>1. cps[l + i].runeOffset = Len(d)
    <3>1. cps[n] = PositionOf(d, Len(d))
      BY DEF Newest, n
    <3>. QED  BY <1>1, <1>11, <3>1, PositionParts
  <2>2. a + k = Len(d)
    BY <1>12, <2>1 DEF Moved
  <2>3. PICK x, y \in Nat : x = Len(d) /\ y = Len(e)
    BY <1>1
  <2>4. x + b = y + a /\ a + k = x
    BY <2>2, <2>3
  <2>5. b + k = y
    <3>1. a \in Nat /\ b \in Nat
      BY <1>1
    <3>2. k \in Nat
      BY <1>12
    <3>3. x \in Nat /\ y \in Nat
      BY <2>3
    <3>4. Aligned(x, y, a, b)
      BY <2>4 DEF Aligned
    <3>5. SumsTo(a, k, x)
      BY <2>4 DEF SumsTo
    <3>6. SumsTo(b, k, y)
      BY <3>1, <3>2, <3>3, <3>4, <3>5, SameRest
    <3>. QED  BY <3>6 DEF SumsTo
  <2>. QED  BY <2>3, <2>5
<1>14. Len(suffix) = i + 1
  BY <1>2, <1>3, <1>11
<1>15. appendTranslatedSuffix(q, PositionOf(e, b), suffix) = s[i + 1]
  BY <1>14, AppendSuffixIs DEF s
<1>16. Covers(s[i + 1], e, Len(e)) /\ Newest(s[i + 1]) = PositionOf(e, Len(e))
  BY <1>12, <1>13
<1>. QED  BY <1>15, <1>16 DEF suffix, n

-----------------------------------------------------------------------------
\* The incremental rebuild

\* The checkpoint the scan starts at, and the first one that is translated.
SeedLast(cps, m) == Search(cps, {c \in ToSet(cps) : c.byteOffset > stablePrefix(m)}) - 1
SeedSeam(cps, m) == Search(cps, {c \in ToSet(cps) : c.byteOffset >= stableSuffix(m).old})
SeedEnd(cps, m) == stableSuffix(m).new + cps[SeedSeam(cps, m)].byteOffset - stableSuffix(m).old

LEMMA PlanIs ==
    ASSUME NEW x, NEW m, NEW length, NEW cps, cps = x.checkpoints, NEW l, l = SeedLast(cps, m)
    PROVE  LET p == incrementalSeed(x, m, length)
           IN  /\ p.prefix = SubSeq(cps, 1, l) /\ p.scanStart = cps[l].byteOffset
               /\ m.edits = <<>> => p.scanEnd = cps[l].byteOffset /\ p.suffix = SubSeq(cps, l + 1, Len(cps))
               /\ m.edits # <<>> /\ SeedSeam(cps, m) >= Len(cps) => p.scanEnd = length /\ p.suffix = <<>>
               /\ m.edits # <<>> /\ ~(SeedSeam(cps, m) >= Len(cps)) =>
                    p.scanEnd = SeedEnd(cps, m) /\ p.suffix = SubSeq(cps, SeedSeam(cps, m), Len(cps))
<1>. DEFINE p == incrementalSeed(x, m, length)
            q == SubSeq(cps, 1, l)
            start == cps[l].byteOffset
            seam == SeedSeam(cps, m)
            plan == [prefix |-> q, scanStart |-> start, scanEnd |-> length, suffix |-> <<>>]
<1>1. p = (IF m.edits = <<>>
           THEN [plan EXCEPT !.scanEnd = plan.scanStart, !.suffix = SubSeq(cps, l + 1, Len(cps))]
           ELSE IF seam >= Len(cps) THEN plan
           ELSE [plan EXCEPT !.scanEnd = SeedEnd(cps, m), !.suffix = SubSeq(cps, seam, Len(cps))])
  BY Zenon DEF incrementalSeed, SeedLast, SeedSeam, SeedEnd
<1>. DEFINE rest == SubSeq(cps, l + 1, Len(cps))
            tail == SubSeq(cps, seam, Len(cps))
            end == SeedEnd(cps, m)
<1>. HIDE DEF p, q, start, seam, rest, tail, end
<1>2. CASE m.edits = <<>>
  <2>1. p = [plan EXCEPT !.scanEnd = plan.scanStart, !.suffix = rest]
    BY <1>1, <1>2 DEF rest
  <2>2. p.prefix = q /\ p.scanStart = start /\ p.scanEnd = start /\ p.suffix = rest
    BY <2>1
  <2>. QED  BY <1>2, <2>2 DEF p, q, start, rest
<1>3. CASE m.edits # <<>> /\ seam >= Len(cps)
  <2>1. p = plan
    BY <1>1, <1>3
  <2>2. p.prefix = q /\ p.scanStart = start /\ p.scanEnd = length /\ p.suffix = <<>>
    BY <2>1
  <2>. QED  BY <1>3, <2>2 DEF p, q, start, seam
<1>4. CASE m.edits # <<>> /\ ~(seam >= Len(cps))
  <2>1. p = [plan EXCEPT !.scanEnd = end, !.suffix = tail]
    BY <1>1, <1>4 DEF end, tail
  <2>2. p.prefix = q /\ p.scanStart = start /\ p.scanEnd = end /\ p.suffix = tail
    BY <2>1
  <2>. QED  BY <1>4, <2>2 DEF p, q, start, seam, tail, end
<1>. QED  BY <1>2, <1>3, <1>4 DEF seam

\* The scan starts at or in front of every edit, and without an edit at the end.
LEMMA SeedFront ==
    ASSUME NEW m, NEW c, Track(c, m.edits), NEW d, d = c[0], m.beforeLength = ByteLength(d),
           NEW cps, Covers(cps, d, Len(d)), NEW l, l = SeedLast(cps, m)
    PROVE  /\ l \in 1..Len(cps) /\ cps[l].runeOffset \in 0..Len(d)
           /\ \A i \in 1..Len(m.edits) : Starts(d)[cps[l].runeOffset] <= m.edits[i].start
           /\ Len(m.edits) = 0 => l = Len(cps)
<1>. DEFINE n == Len(cps)
            first == stablePrefix(m)
            S == {m.beforeLength} \cup {m.edits[i].start : i \in 1..Len(m.edits)}
            beyond == {z \in ToSet(cps) : z.byteOffset > first}
            j == Search(cps, beyond)
<1>1. d \in Docs /\ Len(m.edits) \in Nat /\ \A i \in 1..Len(m.edits) : m.edits[i] \in Edit
  BY TrackTypes
<1>2. Len(d) \in Nat /\ Len(d) \in 0..Len(d) /\ ByteLength(d) \in Nat
  BY <1>1, RuneWidths, ByteLengthType
<1>3. /\ n \in Nat \ {0}
      /\ \A i \in 1..n : cps[i].runeOffset \in 0..Len(d) /\ cps[i].byteOffset \in Nat
                         /\ cps[i].byteOffset = Starts(d)[cps[i].runeOffset]
  BY <1>1, <1>2, CoversTypes
<1>4. first \in S /\ S \in SUBSET Nat /\ \A y \in S : first <= y
  <2>1. S \in SUBSET Nat /\ S # {}
    BY <1>1, <1>2 DEF Edit
  <2>2. first = Min(S)
    BY DEF stablePrefix
  <2>. HIDE DEF S
  <2>. QED  BY <2>1, <2>2, MinIs
<1>5. first \in Nat /\ \A i \in 1..Len(m.edits) : first <= m.edits[i].start
  <2>1. \A i \in 1..Len(m.edits) : m.edits[i].start \in S
    OBVIOUS
  <2>. HIDE DEF S, first
  <2>. QED  BY <1>4, <2>1
<1>6. Len(m.edits) = 0 => first = ByteLength(d)
  <2>1. Len(m.edits) = 0 => 1..Len(m.edits) = {}
    OBVIOUS
  <2>2. Len(m.edits) = 0 => S = {ByteLength(d)}
    BY <2>1
  <2>. HIDE DEF S, first
  <2>. QED  BY <1>4, <2>2
<1>. HIDE DEF first
<1>7. \A i \in 1..n : cps[i] \in beyond <=> cps[i].byteOffset > first
  BY <1>1, <1>2, InToSet
<1>8. /\ j \in 1..(n + 1) /\ (j <= n => cps[j] \in beyond)
      /\ \A i \in 1..n : i < j => cps[i] \notin beyond
  <2>. HIDE DEF beyond
  <2>. QED  BY <1>3, SearchIs
<1>. HIDE DEF beyond
<1>9. l = j - 1
  BY DEF SeedLast, j, beyond, first
<1>. HIDE DEF j, n
<1>10. 1 \in 1..n /\ cps[1].byteOffset = 0
  <2>1. 1 \in 1..n
    BY <1>3
  <2>2. cps[1].runeOffset = 0
    BY DEF Covers
  <2>3. Starts(d)[0] = 0
    BY <1>1, StartsUnfold
  <2>. QED  BY <1>3, <2>1, <2>2, <2>3
<1>11. j # 1
  <2>1. ~(cps[1].byteOffset > first)
    BY <1>5, <1>10
  <2>2. cps[1] \notin beyond
    BY <1>7, <1>10, <2>1
  <2>3. 1 <= n
    BY <1>3
  <2>. QED  BY <1>8, <2>2, <2>3
<1>12. l \in 1..n /\ l < j
  BY <1>3, <1>8, <1>9, <1>11
<1>13. cps[l].byteOffset <= first
  <2>1. PICK z \in Nat : z = cps[l].byteOffset
    BY <1>3, <1>12
  <2>2. ~(cps[l].byteOffset > first)
    BY <1>7, <1>8, <1>12
  <2>. QED  BY <1>5, <2>1, <2>2
<1>14. ASSUME NEW i \in 1..Len(m.edits) PROVE Starts(d)[cps[l].runeOffset] <= m.edits[i].start
  <2>1. PICK z \in Nat : z = cps[l].byteOffset /\ z = Starts(d)[cps[l].runeOffset]
    BY <1>3, <1>12
  <2>2. m.edits[i].start \in Nat /\ first <= m.edits[i].start
    BY <1>1, <1>5 DEF Edit
  <2>. QED  BY <1>5, <1>13, <2>1, <2>2
<1>15. ASSUME Len(m.edits) = 0 PROVE l = n
  <2>1. SUFFICES ASSUME l # n PROVE FALSE
    OBVIOUS
  <2>2. j \in 1..n /\ j <= n
    BY <1>3, <1>8, <1>9, <2>1
  <2>3. cps[j].byteOffset > first /\ first = Starts(d)[Len(d)]
    BY <1>6, <1>7, <1>8, <1>15, <2>2 DEF ByteLength
  <2>4. PICK z \in 0..Len(d) : z = cps[j].runeOffset /\ cps[j].byteOffset = Starts(d)[z]
    BY <1>3, <2>2
  <2>5. z <= Len(d) <=> Starts(d)[z] <= Starts(d)[Len(d)]
    BY <1>1, <1>2, StartsGrow
  <2>6. Starts(d)[z] \in Nat /\ Starts(d)[Len(d)] \in Nat
    BY <1>1, <1>2, StartsGrow
  <2>7. z <= Len(d)
    BY <1>2
  <2>. QED  BY <2>3, <2>4, <2>5, <2>6, <2>7
<1>. QED  BY <1>3, <1>12, <1>14, <1>15 DEF n

\* Rune a of d and rune b of e begin the same suffix.
SameBehind(d, a, e, b) ==
    /\ a \in 0..Len(d) /\ b \in 0..Len(e) /\ Len(d) + b = Len(e) + a
    /\ SameRunes(d, a, e, b, Len(d) - a)

LEMMA LaterBehind ==
    ASSUME NEW d \in Docs, NEW e \in Docs, NEW a \in Nat, NEW b \in Nat, NEW k \in Nat,
           SameBehind(d, a, e, b), a + k \in 0..Len(d), b + k \in 0..Len(e)
    PROVE  SameBehind(d, a + k, e, b + k)
<1>1. Len(d) \in Nat /\ Len(e) \in Nat
  BY RuneWidths
<1>2. Len(d) + b = Len(e) + a
  BY DEF SameBehind
<1>3. Len(d) + (b + k) = Len(e) + (a + k)
  BY <1>1, <1>2
<1>4. ASSUME NEW i \in 1..(Len(d) - (a + k)) PROVE d[(a + k) + i] = e[(b + k) + i]
  <2>1. k + i \in 1..(Len(d) - a) /\ a + (k + i) = (a + k) + i /\ b + (k + i) = (b + k) + i
    BY <1>1, <1>4
  <2>2. d[a + (k + i)] = e[b + (k + i)]
    BY <2>1 DEF SameBehind, SameRunes
  <2>. QED  BY <2>1, <2>2
<1>5. SameRunes(d, a + k, e, b + k, Len(d) - (a + k))
  BY <1>4 DEF SameRunes
<1>. QED  BY <1>3, <1>5 DEF SameBehind

Difference(t, p, s, u) == t + p - s = u
LEMMA DifferenceIs ==
    ASSUME NEW t \in Nat, NEW p \in Nat, NEW s \in Nat, NEW u \in Nat, p + t = u + s PROVE Difference(t, p, s, u)
BY DEF Difference

Seamed(cps, m, l, d, a, e, b) ==
    \E k \in Nat : /\ cps[l].runeOffset = a + k /\ SameBehind(d, a + k, e, b + k)
                   /\ SeedEnd(cps, m) = Starts(e)[b + k]

\* A checkpoint behind every edit stands where the scan of the middle ends.
LEMMA SeedBack ==
    ASSUME NEW m, NEW d \in Docs, NEW e \in Docs, NEW a \in Nat, NEW b \in Nat, Ends(stableSuffix(m), d, e, a, b),
           NEW cps, Covers(cps, d, Len(d)), NEW l, l = SeedSeam(cps, m), ~(l >= Len(cps))
    PROVE  l \in 1..Len(cps) /\ Seamed(cps, m, l, d, a, e, b)
<1>. DEFINE n == Len(cps)
            v == stableSuffix(m)
            beyond == {z \in ToSet(cps) : z.byteOffset >= v.old}
<1>1. Len(d) \in Nat /\ Len(e) \in Nat /\ Len(d) \in 0..Len(d)
  BY RuneWidths
<1>2. n \in Nat \ {0} /\ \A i \in 1..n : cps[i].runeOffset \in 0..Len(d) /\ cps[i].byteOffset \in Nat
                         /\ cps[i].byteOffset = Starts(d)[cps[i].runeOffset]
  BY <1>1, CoversTypes
<1>3. SameBehind(d, a, e, b) /\ v.old = Starts(d)[a] /\ v.new = Starts(e)[b] /\ v.old \in Nat /\ v.new \in Nat
      /\ a \in 0..Len(d) /\ b \in 0..Len(e)
  BY DEF Ends, SameBehind
<1>. HIDE DEF v
<1>4. l \in 1..(n + 1) /\ (l <= n => cps[l] \in beyond)
  <2>1. l = Search(cps, beyond)
    BY DEF SeedSeam, v
  <2>. HIDE DEF beyond
  <2>. QED  BY <1>2, <2>1, SearchIs
<1>5. l \in 1..n /\ cps[l].byteOffset >= v.old
  <2>1. l \in 1..n /\ l <= n
    BY <1>2, <1>4
  <2>. QED  BY <1>4, <2>1
<1>6. PICK x \in 0..Len(d) : x = cps[l].runeOffset /\ cps[l].byteOffset = Starts(d)[x]
  BY <1>2, <1>5
<1>7. a <= x
  <2>1. a <= x <=> Starts(d)[a] <= Starts(d)[x]
    BY <1>3, StartsGrow
  <2>2. Starts(d)[a] \in Nat /\ Starts(d)[x] \in Nat
    BY <1>3, StartsGrow
  <2>3. Starts(d)[x] >= Starts(d)[a]
    BY <1>3, <1>5, <1>6
  <2>. QED  BY <2>1, <2>2, <2>3
<1>8. cps[l] = PositionOf(d, cps[l].runeOffset)
  BY <1>5 DEF Covers
<1>9. PICK k \in Nat : Moved(d, a, e, b, cps[l], k)
  <2>1. Len(d) + b = Len(e) + a /\ SameRunes(d, a, e, b, Len(d) - a)
    BY <1>3 DEF SameBehind
  <2>. QED  BY <1>3, <1>6, <1>7, <1>8, <2>1, CheckpointMoves
<1>10. cps[l].runeOffset = a + k /\ a + k \in 0..Len(d) /\ b + k \in 0..Len(e)
  BY <1>9 DEF Moved
<1>11. SameBehind(d, a + k, e, b + k)
  BY <1>3, <1>9, <1>10, LaterBehind
<1>12. SeedEnd(cps, m) = Starts(e)[b + k]
  <2>1. PICK t, p, s, u \in Nat : t = v.new /\ p = cps[l].byteOffset /\ s = v.old /\ u = Starts(e)[b + k]
    <3>1. Starts(e)[b + k] \in Nat
      BY <1>10, StartsGrow
    <3>. QED  BY <1>2, <1>3, <1>5, <3>1
  <2>2. p + t = u + s
    BY <1>3, <1>9, <2>1 DEF Moved
  <2>3. Difference(t, p, s, u)
    BY <2>1, <2>2, DifferenceIs
  <2>4. SeedEnd(cps, m) = v.new + cps[l].byteOffset - v.old
    BY DEF SeedEnd, v
  <2>5. SeedEnd(cps, m) = t + p - s
    BY <2>1, <2>4
  <2>. QED  BY <2>1, <2>3, <2>5 DEF Difference
<1>. QED  BY <1>5, <1>9, <1>10, <1>11, <1>12 DEF Seamed

LEMMA RebuildGood ==
    ASSUME NEW m, NEW T, NEW r, NEW q, Leads(m, T, r, q), NEW x, x.revision = r, GoodIndex(x, T[r])
    PROVE  LET y == rebuild(T[q], x, m) IN "error" \notin DOMAIN y /\ y.revision = q /\ GoodIndex(y, T[q])
<1>. DEFINE d == T[r]
            e == T[q]
            y == rebuild(e, x, m)
            cps == x.checkpoints
            n == Len(m.edits)
            l == SeedLast(cps, m)
            k == cps[l].runeOffset
            front == SubSeq(cps, 1, l)
            p == incrementalSeed(x, m, ByteLength(e))
            scan == scanSegment(e, p.prefix[Len(p.prefix)], p.prefix, p.scanStart, p.scanEnd)
            Good == "error" \notin DOMAIN y /\ y.revision = q /\ GoodIndex(y, e)
<1>1. PICK c : Track(c, m.edits) /\ c[0] = d /\ c[n] = e
  BY DEF Leads
<1>2. x.revision = m.beforeRevision /\ x.byteLength = m.beforeLength /\ ByteLength(e) = m.afterLength
      /\ m.afterRevision = q /\ m.beforeLength = ByteLength(d)
  BY DEF Leads, GoodIndex
<1>3. d \in Docs /\ e \in Docs /\ n \in Nat /\ m.edits \in Seq(Edit)
  BY <1>1, TrackTypes DEF Track
<1>4. Len(d) \in Nat /\ Len(e) \in Nat /\ Len(d) \in 0..Len(d) /\ Len(e) \in 0..Len(e)
  BY <1>3, RuneWidths
<1>5. Covers(cps, d, Len(d)) /\ Newest(cps) = PositionOf(d, Len(d))
  BY DEF GoodIndex
<1>6. y = (IF p.suffix = <<>> THEN finishScan(q, e, scan)
           ELSE Index(q, ByteLength(e), appendTranslatedSuffix(scan.checkpoints, scan.state, p.suffix)))
  BY <1>2, Zenon DEF rebuild
<1>7. /\ p.prefix = front /\ p.scanStart = cps[l].byteOffset
      /\ m.edits = <<>> => p.scanEnd = cps[l].byteOffset /\ p.suffix = SubSeq(cps, l + 1, Len(cps))
      /\ m.edits # <<>> /\ SeedSeam(cps, m) >= Len(cps) => p.scanEnd = ByteLength(e) /\ p.suffix = <<>>
      /\ m.edits # <<>> /\ ~(SeedSeam(cps, m) >= Len(cps)) =>
           p.scanEnd = SeedEnd(cps, m) /\ p.suffix = SubSeq(cps, SeedSeam(cps, m), Len(cps))
  <2>. HIDE DEF p, l
  <2>. QED  BY PlanIs DEF p, l
<1>8. /\ l \in 1..Len(cps) /\ k \in 0..Len(d) /\ (n = 0 => l = Len(cps))
      /\ \A i \in 1..n : Starts(d)[k] <= m.edits[i].start
  <2>. HIDE DEF d, cps, l
  <2>. QED  BY <1>1, <1>2, <1>5, SeedFront DEF l
<1>. HIDE DEF d, e, cps, l, p, y
<1>9. k <= Len(e) /\ SameRunes(d, 0, e, 0, k)
  <2>1. n \in 0..n
    BY <1>3
  <2>2. \A i \in 0..n : k <= Len(c[i]) /\ SameRunes(c[0], 0, c[i], 0, k)
    <3>. HIDE DEF k
    <3>. QED  BY <1>1, <1>8, PrefixStays
  <2>. QED  BY <1>1, <2>1, <2>2
<1>10. /\ Covers(front, e, k) /\ Newest(front) = PositionOf(e, k) /\ front[Len(front)] = cps[l]
       /\ k \in 0..Len(e) /\ cps[l].byteOffset = Starts(e)[k]
  BY <1>3, <1>5, <1>8, <1>9, PrefixCovers
<1>. HIDE DEF front, k
<1>11. ASSUME NEW b \in 0..Len(e), k <= b, p.scanEnd = Starts(e)[b]
       PROVE  scan.state = PositionOf(e, b) /\ Covers(scan.checkpoints, e, b)
  <2>1. scan = scanSegment(e, PositionOf(e, k), front, Starts(e)[k], Starts(e)[b])
    BY <1>7, <1>10, <1>11 DEF Newest
  <2>. HIDE DEF scan
  <2>. QED  BY <1>3, <1>10, <1>11, <2>1, ScanCovers
<1>. HIDE DEF scan
<1>12. ASSUME p.suffix = <<>>, k <= Len(e), p.scanEnd = Starts(e)[Len(e)] PROVE Good
  <2>1. scan.state = PositionOf(e, Len(e)) /\ Covers(scan.checkpoints, e, Len(e))
    BY <1>4, <1>11, <1>12
  <2>2. y = finishScan(q, e, scan)
    BY <1>6, <1>12
  <2>. QED  BY <1>3, <2>1, <2>2, FinishGood
<1>13. ASSUME m.edits = <<>> PROVE Good
  <2>1. n = 0 /\ l = Len(cps)
    BY <1>8, <1>13
  <2>2. d = e
    BY <1>1, <2>1
  <2>3. k = Len(e)
    <3>1. cps[l] = PositionOf(d, Len(d))
      BY <1>5, <2>1 DEF Newest
    <3>. QED  BY <1>3, <1>4, <2>2, <3>1, PositionParts DEF k
  <2>4. p.suffix = <<>>
    <3>1. l + 1 \in Int /\ Len(cps) \in Int /\ Len(cps) < l + 1
      BY <1>8, <2>1
    <3>. QED  BY <1>7, <1>13, <3>1, SubSeqEmpty
  <2>5. p.scanEnd = Starts(e)[Len(e)]
    BY <1>7, <1>10, <1>13, <2>3
  <2>. HIDE DEF Good
  <2>. QED  BY <1>9, <1>12, <2>4, <2>5
<1>14. ASSUME m.edits # <<>>, SeedSeam(cps, m) >= Len(cps) PROVE Good
  <2>1. p.suffix = <<>> /\ p.scanEnd = Starts(e)[Len(e)]
    BY <1>7, <1>14 DEF ByteLength
  <2>. HIDE DEF Good
  <2>. QED  BY <1>9, <1>12, <2>1
<1>15. ASSUME m.edits # <<>>, ~(SeedSeam(cps, m) >= Len(cps)) PROVE Good
  <2>. DEFINE seam == SeedSeam(cps, m)
              suffix == SubSeq(cps, seam, Len(cps))
              all == appendTranslatedSuffix(scan.checkpoints, scan.state, suffix)
  <2>1. n # 0
    BY <1>3, <1>15, EmptySeq
  <2>2. PICK a, b \in Nat : Ends(SuffixAt(m.edits)[n], d, e, a, b) /\ k <= b
    BY <1>1, <1>8, <2>1, SuffixStays
  <2>3. Ends(stableSuffix(m), d, e, a, b)
    BY <2>2, StableSuffixIs
  <2>4. seam \in 1..Len(cps) /\ Seamed(cps, m, seam, d, a, e, b)
    <3>1. seam = SeedSeam(cps, m) /\ ~(seam >= Len(cps))
      BY <1>15
    <3>. HIDE DEF seam
    <3>. QED  BY <1>3, <1>5, <2>2, <2>3, <3>1, SeedBack
  <2>. HIDE DEF seam
  <2>5. PICK j \in Nat : /\ cps[seam].runeOffset = a + j /\ SameBehind(d, a + j, e, b + j)
                         /\ SeedEnd(cps, m) = Starts(e)[b + j]
    BY <2>4 DEF Seamed
  <2>6. a + j \in 0..Len(d) /\ b + j \in 0..Len(e) /\ Len(d) + (b + j) = Len(e) + (a + j)
        /\ SameRunes(d, a + j, e, b + j, Len(d) - (a + j))
    BY <2>5 DEF SameBehind
  <2>7. k <= b + j
    <3>1. k \in Nat
      BY <1>4, <1>10
    <3>. QED  BY <2>2, <2>5, <3>1
  <2>8. p.scanEnd = Starts(e)[b + j] /\ p.suffix = suffix
    BY <1>7, <1>15, <2>5 DEF seam
  <2>9. scan.state = PositionOf(e, b + j) /\ Covers(scan.checkpoints, e, b + j)
    BY <1>11, <2>6, <2>7, <2>8
  <2>10. Covers(all, e, Len(e)) /\ Newest(all) = PositionOf(e, Len(e))
    BY <1>3, <1>5, <2>4, <2>5, <2>6, <2>9, AppendTranslated
  <2>11. suffix # <<>>
    <3>1. Len(cps) \in Nat /\ seam \in Int /\ Len(cps) \in Int /\ seam <= Len(cps) /\ cps \in Seq(Positions)
      BY <1>3, <1>4, <1>5, <2>4, CoversTypes DEF Covers
    <3>2. \A i \in seam..Len(cps) : cps[i] \in Positions
      <4>1. \A i \in seam..Len(cps) : i \in 1..Len(cps)
        BY <2>4, <3>1
      <4>. QED  BY <3>1, <4>1, LenProperties
    <3>3. Len(suffix) = IF seam <= Len(cps) THEN Len(cps) - seam + 1 ELSE 0
      BY <3>1, <3>2, SubSeqProperties
    <3>4. Len(suffix) # 0
      <4>. HIDE DEF suffix
      <4>. QED  BY <3>1, <3>3
    <3>. HIDE DEF suffix
    <3>. QED  BY <3>4
  <2>12. y = Index(q, ByteLength(e), all)
    BY <1>6, <2>8, <2>11
  <2>. HIDE DEF all
  <2>. QED  BY <1>3, <2>10, <2>12, IndexGood
<1>16. Good
  <2>. HIDE DEF Good
  <2>. QED  BY <1>13, <1>14, <1>15
<1>. QED  BY <1>16 DEF y, e

-----------------------------------------------------------------------------
\* The queries

DecodeBody(g, d, cp, f) == [k \in f..Len(d) |-> IF k = f THEN cp ELSE advance(g[k - 1], d[k])]
DecodeStates(d, cp, f) == CHOOSE g : g = DecodeBody(g, d, cp, f)

LEMMA DecodeUnfold ==
    ASSUME NEW d \in Docs, NEW f \in 0..Len(d), NEW k \in f..Len(d)
    PROVE  DecodeStates(d, PositionOf(d, f), f)[k] = PositionOf(d, k)
<1>. DEFINE p == PositionOf(d, f)
            g == [i \in f..Len(d) |-> PositionOf(d, i)]
            s == DecodeStates(d, p, f)
            Done == {m \in Nat : f + m <= Len(d) => s[f + m] = PositionOf(d, f + m)}
<1>1. Len(d) \in Nat /\ f \in Nat
  BY RuneWidths
<1>2. g = DecodeBody(g, d, p, f)
  <2>1. ASSUME NEW i \in f..Len(d) PROVE g[i] = IF i = f THEN p ELSE advance(g[i - 1], d[i])
    <3>1. CASE i = f
      BY <3>1
    <3>2. CASE i # f
      <4>1. i - 1 \in f..Len(d) /\ i \in 1..Len(d)
        BY <1>1, <3>2
      <4>2. PositionOf(d, i) = advance(PositionOf(d, i - 1), d[i])
        BY <4>1, PositionStep
      <4>3. g[i] = PositionOf(d, i) /\ g[i - 1] = PositionOf(d, i - 1)
        BY <4>1
      <4>. HIDE DEF g
      <4>. QED  BY <3>2, <4>2, <4>3
    <3>. QED  BY <3>1, <3>2
  <2>2. g = [i \in f..Len(d) |-> g[i]]
    OBVIOUS
  <2>. HIDE DEF g, p
  <2>. QED  BY <2>1, <2>2 DEF DecodeBody
<1>3. s = DecodeBody(s, d, p, f)
  <2>. HIDE DEF g, p
  <2>. QED  BY <1>2 DEF DecodeStates
<1>. HIDE DEF s
<1>4. \A i \in f..Len(d) : s[i] = IF i = f THEN p ELSE advance(s[i - 1], d[i])
  <2>. HIDE DEF p
  <2>1. s = [i \in f..Len(d) |-> IF i = f THEN p ELSE advance(s[i - 1], d[i])]
    BY <1>3 DEF DecodeBody
  <2>. QED  BY <2>1
<1>5. 0 \in Done
  <2>1. f + 0 = f /\ f \in f..Len(d)
    BY <1>1
  <2>. QED  BY <1>4, <2>1
<1>6. ASSUME NEW m \in Nat, m \in Done PROVE m + 1 \in Done
  <2>. SUFFICES ASSUME f + (m + 1) <= Len(d) PROVE s[f + (m + 1)] = PositionOf(d, f + (m + 1))
    OBVIOUS
  <2>1. PICK i \in 1..Len(d) : i = f + (m + 1) /\ i - 1 = f + m /\ i \in f..Len(d) /\ i # f /\ f + m <= Len(d)
    <3>1. f + (m + 1) \in 1..Len(d) /\ (f + (m + 1)) - 1 = f + m /\ f + (m + 1) \in f..Len(d) /\ f + (m + 1) # f
          /\ f + m <= Len(d)
      BY <1>1
    <3>. QED  BY <3>1
  <2>2. s[i - 1] = PositionOf(d, i - 1)
    BY <1>6, <2>1
  <2>3. s[i] = advance(s[i - 1], d[i])
    BY <1>4, <2>1
  <2>4. PositionOf(d, i) = advance(PositionOf(d, i - 1), d[i])
    BY <2>1, PositionStep
  <2>. QED  BY <2>1, <2>2, <2>3, <2>4
<1>7. \A m \in Nat : m \in Done
  <2>. HIDE DEF Done
  <2>. QED  BY <1>5, <1>6, SetInduction
<1>8. PICK m \in Nat : f + m = k
  <2>1. k - f \in Nat /\ f + (k - f) = k
    BY <1>1
  <2>. QED  BY <2>1
<1>9. m \in Done /\ f + m <= Len(d)
  BY <1>1, <1>7, <1>8
<1>. QED  BY <1>8, <1>9 DEF s, p

\* Decoding passes through positions, and through all of one window.
Passes(states, d, f) ==
    /\ \A s \in states : \E n \in 0..Len(d) : s = PositionOf(d, n)
    /\ \A k \in f..Len(d) : k = f \/ Starts(d)[k] <= Starts(d)[f] + Window => PositionOf(d, k) \in states

LEMMA DecodedIs ==
    ASSUME NEW d \in Docs, NEW f \in 0..Len(d) PROVE Passes(Decoded(d, PositionOf(d, f)), d, f)
<1>. DEFINE p == PositionOf(d, f)
            s == DecodeStates(d, p, f)
            window == p.byteOffset + CheckpointBytes + UTFMax
            S == {s[k] : k \in {n \in f..Len(d) : n = f \/ Starts(d)[n] <= window}}
<1>1. Len(d) \in Nat /\ f \in Nat
  BY RuneWidths
<1>2. RunesBefore(d, p.byteOffset) = f /\ p.byteOffset = Starts(d)[f] /\ Starts(d)[f] \in Nat
  BY PositionParts, RunesBeforeIs
<1>3. Decoded(d, p) = S
  <2>. HIDE DEF p
  <2>. QED  BY <1>2 DEF Decoded, DecodeStates, DecodeBody
<1>4. \A k \in f..Len(d) : s[k] = PositionOf(d, k)
  BY DecodeUnfold
<1>5. window = Starts(d)[f] + Window
  <2>1. PICK x \in Nat : x = Starts(d)[f]
    BY <1>2
  <2>2. window = x + CheckpointBytes + UTFMax
    BY <1>2, <2>1
  <2>3. window = x + (CheckpointBytes + UTFMax)
    <3>. HIDE DEF window
    <3>. QED  BY <2>2, WindowIs
  <2>. QED  BY <2>1, <2>3 DEF Window
<1>. HIDE DEF s, window, p
<1>6. ASSUME NEW v \in S PROVE \E n \in 0..Len(d) : v = PositionOf(d, n)
  <2>1. PICK k \in f..Len(d) : v = s[k]
    OBVIOUS
  <2>2. k \in 0..Len(d)
    BY <1>1
  <2>. QED  BY <1>4, <2>1, <2>2
<1>7. ASSUME NEW k \in f..Len(d), k = f \/ Starts(d)[k] <= Starts(d)[f] + Window PROVE PositionOf(d, k) \in S
  <2>1. s[k] \in S
    BY <1>5, <1>7
  <2>. HIDE DEF S
  <2>. QED  BY <1>4, <2>1
<1>. HIDE DEF S
<1>. QED  BY <1>3, <1>6, <1>7 DEF Passes, p

\* beyond are the checkpoints behind k, and states are positions, k's with them.
Splits(cps, beyond, k) == \A i \in 1..Len(cps) : cps[i] \in beyond <=> cps[i].runeOffset > k
Finds(states, d, k) ==
    PositionOf(d, k) \in states /\ \A s \in states : \E n \in 0..Len(d) : s = PositionOf(d, n)

\* The checkpoint a search stops at is within one window of the place.
LEMMA Found ==
    ASSUME NEW d \in Docs, NEW cps, Covers(cps, d, Len(d)), Newest(cps) = PositionOf(d, Len(d)),
           NEW k \in 0..Len(d), NEW beyond, Splits(cps, beyond, k)
    PROVE  Finds(Decoded(d, cps[Search(cps, beyond) - 1]), d, k)
<1>. DEFINE n == Len(cps)
            j == Search(cps, beyond)
            l == j - 1
            f == cps[l].runeOffset
<1>1. Len(d) \in Nat /\ k \in Nat /\ Len(d) \in 0..Len(d)
  BY RuneWidths
<1>2. /\ n \in Nat \ {0}
      /\ \A i \in 1..n : cps[i].runeOffset \in 0..Len(d) /\ cps[i].byteOffset \in Nat
                         /\ cps[i].byteOffset = Starts(d)[cps[i].runeOffset]
  BY <1>1, CoversTypes
<1>3. /\ j \in 1..(n + 1) /\ (j <= n => cps[j] \in beyond)
      /\ \A i \in 1..n : i < j => cps[i] \notin beyond
  BY <1>2, SearchIs
<1>. HIDE DEF j
<1>4. j # 1
  <2>1. 1 \in 1..n /\ 1 <= n
    BY <1>2
  <2>2. ~(cps[1].runeOffset > k)
    BY <1>1 DEF Covers
  <2>. QED  BY <1>3, <2>1, <2>2 DEF Splits
<1>5. l \in 1..n /\ l < j /\ (j = n + 1 => l = n) /\ (j # n + 1 => j \in 1..n /\ l \in 1..(n - 1) /\ l + 1 = j)
  BY <1>2, <1>3, <1>4
<1>. HIDE DEF l
<1>6. f \in 0..Len(d) /\ cps[l] = PositionOf(d, f) /\ cps[l].byteOffset = Starts(d)[f]
  BY <1>2, <1>5 DEF Covers
<1>7. ~(f > k)
  BY <1>3, <1>5 DEF Splits
<1>8. k = f \/ Starts(d)[k] <= Starts(d)[f] + Window
  <2>1. CASE j = n + 1
    <3>1. f = Len(d)
      BY <1>1, <1>5, <2>1, PositionParts DEF Newest
    <3>. QED  BY <1>1, <1>7, <3>1
  <2>2. CASE j # n + 1
    <3>1. cps[j].runeOffset > k /\ cps[j].byteOffset <= cps[l].byteOffset + Window
      <4>1. j \in 1..n /\ j <= n /\ l \in 1..(n - 1) /\ l + 1 = j
        BY <1>2, <1>5, <2>2
      <4>2. cps[j].runeOffset > k
        BY <1>3, <4>1 DEF Splits
      <4>3. cps[l + 1].byteOffset <= cps[l].byteOffset + Window
        BY <4>1 DEF Covers
      <4>. QED  BY <4>1, <4>2, <4>3
    <3>2. PICK x \in 0..Len(d) : x = cps[j].runeOffset /\ cps[j].byteOffset = Starts(d)[x]
      BY <1>2, <1>5, <2>2
    <3>3. k <= x
      BY <1>1, <3>1, <3>2
    <3>4. k <= x <=> Starts(d)[k] <= Starts(d)[x]
      BY <3>2, StartsGrow
    <3>5. PICK u, v, w \in Nat : u = Starts(d)[k] /\ v = Starts(d)[x] /\ w = Starts(d)[f]
      BY <1>6, <3>2, StartsGrow
    <3>6. u <= v /\ v <= w + Window
      BY <1>6, <3>1, <3>2, <3>3, <3>4, <3>5
    <3>7. PICK z \in Nat : z = w + Window
      BY WindowIs
    <3>8. v <= z
      BY <3>6, <3>7
    <3>9. u <= z
      BY <3>6, <3>8
    <3>. QED  BY <3>5, <3>7, <3>9
  <2>. QED  BY <2>1, <2>2
<1>9. k \in f..Len(d)
  BY <1>1, <1>6, <1>7
<1>. HIDE DEF f
<1>10. Passes(Decoded(d, cps[l]), d, f)
  BY <1>6, DecodedIs
<1>11. Finds(Decoded(d, cps[l]), d, k)
  BY <1>8, <1>9, <1>10 DEF Passes, Finds
<1>. QED  BY <1>11 DEF l, j

LEMMA HitIs == ASSUME NEW S, NEW p \in S, \A s \in S : s = p PROVE Hit(S) = p
BY DEF Hit

\* Lines and columns order the positions of a document.
Behind(p, q) == p.line > q.line \/ (p.line = q.line /\ p.column > q.column)

LEMMA PositionOrder ==
    ASSUME NEW d \in Docs, NEW i \in 0..Len(d), NEW k \in 0..Len(d)
    PROVE  /\ Behind(PositionOf(d, i), PositionOf(d, k)) <=> i > k
           /\ PositionOf(d, i).line = PositionOf(d, k).line /\ PositionOf(d, i).column = PositionOf(d, k).column => i = k
<1>. DEFINE p == PositionOf(d, i)
            q == PositionOf(d, k)
<1>1. Len(d) \in Nat /\ i \in Nat /\ k \in Nat
  BY RuneWidths
<1>2. p.line \in Nat /\ p.column \in Nat /\ q.line \in Nat /\ q.column \in Nat
  BY PositionParts
<1>3. i > k => \E n \in Nat : n # 0 /\ Beyond(q, p, n)
  <2>1. SUFFICES ASSUME i > k PROVE \E n \in Nat : n # 0 /\ Beyond(q, p, n)
    OBVIOUS
  <2>2. PICK n \in Nat : n # 0 /\ k + n = i
    <3>1. i - k \in Nat /\ i - k # 0 /\ k + (i - k) = i
      BY <1>1, <2>1
    <3>. QED  BY <3>1
  <2>3. k + n <= Len(d)
    BY <1>1, <2>2
  <2>4. Beyond(PositionOf(d, k), PositionOf(d, k + n), n)
    BY <1>1, <2>2, <2>3, PositionLater
  <2>. QED  BY <2>2, <2>4
<1>4. i < k => \E n \in Nat : n # 0 /\ Beyond(p, q, n)
  <2>1. SUFFICES ASSUME i < k PROVE \E n \in Nat : n # 0 /\ Beyond(p, q, n)
    OBVIOUS
  <2>2. PICK n \in Nat : n # 0 /\ i + n = k
    <3>1. k - i \in Nat /\ k - i # 0 /\ i + (k - i) = k
      BY <1>1, <2>1
    <3>. QED  BY <3>1
  <2>3. i + n <= Len(d)
    BY <1>1, <2>2
  <2>4. Beyond(PositionOf(d, i), PositionOf(d, i + n), n)
    BY <1>1, <2>2, <2>3, PositionLater
  <2>. QED  BY <2>2, <2>4
<1>. DEFINE a == p.line
            b == p.column
            u == q.line
            v == q.column
<1>5. i > k => u <= a /\ (u = a => b > v)
  <2>1. SUFFICES ASSUME i > k PROVE u <= a /\ (u = a => b > v)
    OBVIOUS
  <2>2. PICK n \in Nat : n # 0 /\ Beyond(q, p, n)
    BY <1>3, <2>1
  <2>3. u <= a /\ (u = a => b = v + n)
    BY <2>2 DEF Beyond
  <2>. HIDE DEF a, b, u, v
  <2>4. a \in Nat /\ b \in Nat /\ u \in Nat /\ v \in Nat
    BY <1>2 DEF a, b, u, v
  <2>. QED  BY <2>2, <2>3, <2>4
<1>6. i < k => a <= u /\ (u = a => v > b)
  <2>1. SUFFICES ASSUME i < k PROVE a <= u /\ (u = a => v > b)
    OBVIOUS
  <2>2. PICK n \in Nat : n # 0 /\ Beyond(p, q, n)
    BY <1>4, <2>1
  <2>3. a <= u /\ (u = a => v = b + n)
    BY <2>2 DEF Beyond
  <2>. HIDE DEF a, b, u, v
  <2>4. a \in Nat /\ b \in Nat /\ u \in Nat /\ v \in Nat
    BY <1>2 DEF a, b, u, v
  <2>. QED  BY <2>2, <2>3, <2>4
<1>7. i = k => a = u /\ b = v
  OBVIOUS
<1>8. a \in Nat /\ b \in Nat /\ u \in Nat /\ v \in Nat
  BY <1>2
<1>9. Behind(p, q) <=> a > u \/ (a = u /\ b > v)
  BY DEF Behind
<1>. HIDE DEF a, b, u, v, p, q
<1>10. Behind(p, q) <=> i > k
  BY <1>1, <1>5, <1>6, <1>7, <1>8, <1>9
<1>11. a = u /\ b = v => i = k
  BY <1>1, <1>5, <1>6, <1>8
<1>. QED  BY <1>10, <1>11 DEF a, b, u, v, p, q

LEMMA ByteFound ==
    ASSUME NEW d \in Docs, NEW x, GoodIndex(x, d), NEW k \in 0..Len(d)
    PROVE  ByteToPosition(d, x, PositionOf(d, k).byteOffset) = PositionOf(d, k)
<1>. DEFINE p == PositionOf(d, k)
            cps == x.checkpoints
            beyond == {c \in ToSet(cps) : c.byteOffset > p.byteOffset}
            states == Decoded(d, cps[Search(cps, beyond) - 1])
            S == {s \in states : s.byteOffset = p.byteOffset}
<1>1. Len(d) \in Nat /\ k \in Nat /\ Len(d) \in 0..Len(d)
  BY RuneWidths
<1>2. Covers(cps, d, Len(d)) /\ Newest(cps) = PositionOf(d, Len(d))
  BY DEF GoodIndex
<1>3. p.byteOffset = Starts(d)[k] /\ Starts(d)[k] \in Nat
  BY PositionParts
<1>. HIDE DEF cps, p
<1>4. ASSUME NEW i \in 1..Len(cps) PROVE cps[i] \in beyond <=> cps[i].runeOffset > k
  <2>1. PICK n \in 0..Len(d) : n = cps[i].runeOffset /\ cps[i].byteOffset = Starts(d)[n]
    BY <1>1, <1>2, CoversTypes
  <2>2. (n <= k <=> Starts(d)[n] <= Starts(d)[k]) /\ Starts(d)[n] \in Nat
    BY <2>1, StartsGrow
  <2>3. cps[i].byteOffset > p.byteOffset <=> n > k
    BY <1>1, <1>3, <2>1, <2>2
  <2>4. cps[i] \in ToSet(cps)
    BY <1>1, <1>2, InToSet
  <2>. QED  BY <2>1, <2>3, <2>4
<1>. HIDE DEF beyond
<1>5. p \in states /\ \A s \in states : \E n \in 0..Len(d) : s = PositionOf(d, n)
  <2>1. Splits(cps, beyond, k)
    BY <1>4 DEF Splits
  <2>2. Finds(states, d, k)
    BY <1>2, <2>1, Found
  <2>. QED  BY <2>2 DEF Finds, p
<1>. HIDE DEF states
<1>6. ASSUME NEW s \in S PROVE s = p
  <2>1. PICK n \in 0..Len(d) : s = PositionOf(d, n)
    BY <1>5
  <2>2. Starts(d)[n] = Starts(d)[k]
    BY <1>3, <2>1, PositionParts
  <2>3. n = k
    BY <2>1, <2>2, StartsGrow
  <2>. QED  BY <2>1, <2>3 DEF p
<1>7. p \in S
  BY <1>5
<1>8. ByteToPosition(d, x, p.byteOffset) = Hit(S)
  BY DEF ByteToPosition, states, beyond, cps
<1>. HIDE DEF S
<1>9. Hit(S) = p
  BY <1>6, <1>7, HitIs
<1>. QED  BY <1>8, <1>9 DEF p

LEMMA RuneFound ==
    ASSUME NEW d \in Docs, NEW x, GoodIndex(x, d), NEW k \in 0..Len(d)
    PROVE  RuneToPosition(d, x, PositionOf(d, k).runeOffset) = PositionOf(d, k)
<1>. DEFINE p == PositionOf(d, k)
            cps == x.checkpoints
            beyond == {c \in ToSet(cps) : c.runeOffset > p.runeOffset}
            states == Decoded(d, cps[Search(cps, beyond) - 1])
            S == {s \in states : s.runeOffset = p.runeOffset}
<1>1. Len(d) \in Nat /\ k \in Nat /\ Len(d) \in 0..Len(d)
  BY RuneWidths
<1>2. Covers(cps, d, Len(d)) /\ Newest(cps) = PositionOf(d, Len(d))
  BY DEF GoodIndex
<1>3. p.runeOffset = k
  BY PositionParts
<1>. HIDE DEF cps, p
<1>4. ASSUME NEW i \in 1..Len(cps) PROVE cps[i] \in beyond <=> cps[i].runeOffset > k
  <2>1. cps[i] \in ToSet(cps)
    BY <1>1, <1>2, InToSet
  <2>. QED  BY <1>3, <2>1
<1>. HIDE DEF beyond
<1>5. p \in states /\ \A s \in states : \E n \in 0..Len(d) : s = PositionOf(d, n)
  <2>1. Splits(cps, beyond, k)
    BY <1>4 DEF Splits
  <2>2. Finds(states, d, k)
    BY <1>2, <2>1, Found
  <2>. QED  BY <2>2 DEF Finds, p
<1>. HIDE DEF states
<1>6. ASSUME NEW s \in S PROVE s = p
  <2>1. PICK n \in 0..Len(d) : s = PositionOf(d, n)
    BY <1>5
  <2>2. n = k
    BY <1>3, <2>1, PositionParts
  <2>. QED  BY <2>1, <2>2 DEF p
<1>7. p \in S
  BY <1>5
<1>8. RuneToPosition(d, x, p.runeOffset) = Hit(S)
  BY DEF RuneToPosition, states, beyond, cps
<1>. HIDE DEF S
<1>9. Hit(S) = p
  BY <1>6, <1>7, HitIs
<1>. QED  BY <1>8, <1>9 DEF p

LEMMA LineFound ==
    ASSUME NEW d \in Docs, NEW x, GoodIndex(x, d), NEW k \in 0..Len(d)
    PROVE  LineToPosition(d, x, PositionOf(d, k).line, PositionOf(d, k).column) = PositionOf(d, k)
<1>. DEFINE p == PositionOf(d, k)
            cps == x.checkpoints
            beyond == {c \in ToSet(cps) : c.line > p.line \/ (c.line = p.line /\ c.column > p.column)}
            states == Decoded(d, cps[Search(cps, beyond) - 1])
            S == {s \in states : s.line = p.line /\ s.column = p.column}
<1>1. Len(d) \in Nat /\ k \in Nat /\ Len(d) \in 0..Len(d)
  BY RuneWidths
<1>2. Covers(cps, d, Len(d)) /\ Newest(cps) = PositionOf(d, Len(d))
  BY DEF GoodIndex
<1>. HIDE DEF cps, p
<1>4. ASSUME NEW i \in 1..Len(cps) PROVE cps[i] \in beyond <=> cps[i].runeOffset > k
  <2>1. PICK n \in 0..Len(d) : n = cps[i].runeOffset
    BY <1>1, <1>2, CoversTypes
  <2>2. cps[i] = PositionOf(d, n)
    BY <1>2, <2>1 DEF Covers
  <2>3. Behind(cps[i], p) <=> n > k
    BY <2>1, <2>2, PositionOrder DEF p
  <2>4. cps[i] \in ToSet(cps)
    BY <1>1, <1>2, InToSet
  <2>. QED  BY <2>1, <2>3, <2>4 DEF Behind
<1>. HIDE DEF beyond
<1>5. p \in states /\ \A s \in states : \E n \in 0..Len(d) : s = PositionOf(d, n)
  <2>1. Splits(cps, beyond, k)
    BY <1>4 DEF Splits
  <2>2. Finds(states, d, k)
    BY <1>2, <2>1, Found
  <2>. QED  BY <2>2 DEF Finds, p
<1>. HIDE DEF states
<1>6. ASSUME NEW s \in S PROVE s = p
  <2>1. PICK n \in 0..Len(d) : s = PositionOf(d, n)
    BY <1>5
  <2>2. PositionOf(d, n).line = PositionOf(d, k).line /\ PositionOf(d, n).column = PositionOf(d, k).column
    BY <2>1 DEF p
  <2>3. n = k
    BY <2>1, <2>2, PositionOrder
  <2>. QED  BY <2>1, <2>3 DEF p
<1>7. p \in S
  BY <1>5
<1>8. LineToPosition(d, x, p.line, p.column) = Hit(S)
  BY DEF LineToPosition, states, beyond, cps
<1>. HIDE DEF S
<1>9. Hit(S) = p
  BY <1>6, <1>7, HitIs
<1>. QED  BY <1>8, <1>9 DEF p

-----------------------------------------------------------------------------
\* The index of a timeline

\* x is an index of a document of the timeline.
IndexOf(x, T, hi) ==
    /\ "error" \notin DOMAIN x /\ x.revision \in StartRevision..hi
    /\ GoodIndex(x, T[x.revision])

\* r is a revision that was ever current.
Noted(r, p) == \E i \in 1..Len(p) : p[i].revision = r

LEMMA NotedCurrent ==
    ASSUME NEW T, NEW E, NEW h, NEW p, NEW hi \in Nat, Ring(h, T, E), Notes(p, h, T, hi)
    PROVE  Noted(h.currentRevision, p)
<1>. DEFINE i == (Len(p) - h.count) + h.count
<1>1. h.count \in Nat /\ h.currentRevision = Mark(h, h.count)
  BY MarkTypes
<1>2. h.count \in 0..h.count
  BY <1>1
<1>3. i \in 1..Len(p)
  BY <1>2, NotesTypes
<1>4. Mark(h, h.count) = p[i].revision
  BY <1>2 DEF Notes
<1>. HIDE DEF i
<1>. QED  BY <1>1, <1>3, <1>4 DEF Noted

LEMMA NotedMore ==
    ASSUME NEW p \in Seq([revision : Nat, doc : Docs]), NEW z, z \in [revision : Nat, doc : Docs],
           NEW r, Noted(r, p)
    PROVE  Noted(r, Append(p, z))
<1>1. PICK i \in 1..Len(p) : p[i].revision = r
  BY DEF Noted
<1>2. Len(p) \in Nat /\ Len(Append(p, z)) = Len(p) + 1 /\ Append(p, z)[i] = p[i]
  BY <1>1, AppendProperties
<1>3. i \in 1..Len(Append(p, z))
  BY <1>1, <1>2
<1>. QED  BY <1>1, <1>2, <1>3 DEF Noted

-----------------------------------------------------------------------------
\* The inductive invariant

\* T and E are a timeline of the state: everything the Session, a captured
\* refresh and the host's index hold is read off it.
Told(T, E, d, r, h, x, j, p) ==
    /\ r \in StartRevision..MaxRevision
    /\ Timeline(T, E, r) /\ d = T[r]
    /\ Ring(h, T, E) /\ h.currentRevision = r
    /\ Notes(p, h, T, r)
    /\ x # None => IndexOf(x, T, r) /\ Noted(x.revision, p)
    /\ j # None => /\ x # None /\ Ring(j.history, T, E) /\ j.history.currentRevision <= r
                   /\ j.doc = T[j.history.currentRevision] /\ Noted(j.history.currentRevision, p)

HistoryInv == \E T, E : Told(T, E, doc, revision, history, index, job, published)

LEMMA ToldTypes ==
    ASSUME NEW T, NEW E, NEW d, NEW r, NEW h, NEW x, NEW j, NEW p, Told(T, E, d, r, h, x, j, p)
    PROVE  /\ StartRevision \in Nat /\ MaxRevision \in Nat /\ r \in Nat /\ StartRevision <= r
           /\ r \in StartRevision..r /\ d \in Docs
<1>1. StartRevision \in Nat /\ MaxRevision \in Nat
  BY HistoryAssumption
<1>2. r \in Nat /\ StartRevision <= r /\ r \in StartRevision..r
  BY <1>1 DEF Told
<1>3. T[r] \in Docs
  BY <1>2 DEF Told, Timeline
<1>. QED  BY <1>1, <1>2, <1>3 DEF Told

LEMMA ToldNoted ==
    ASSUME NEW T, NEW E, NEW d, NEW r, NEW h, NEW x, NEW j, NEW p, Told(T, E, d, r, h, x, j, p)
    PROVE  Noted(r, p)
<1>1. r \in Nat
  BY ToldTypes
<1>2. Ring(h, T, E) /\ h.currentRevision = r /\ Notes(p, h, T, r)
  BY DEF Told
<1>3. Noted(h.currentRevision, p)
  BY <1>1, <1>2, NotedCurrent
<1>. QED  BY <1>2, <1>3

LEMMA InitTold == ASSUME Init PROVE HistoryInv
<1>. DEFINE d == Text(InitialDocument, 0)
            T == [r \in {StartRevision} |-> d]
            E == [r \in {} |-> d]
            h == newChangeHistory(StartRevision, ByteLength(d))
            p == <<[revision |-> StartRevision, doc |-> d]>>
<1>1. StartRevision \in Nat /\ MaxRevision \in Nat /\ StartRevision <= MaxRevision /\ Limit \in Nat \ {0}
  BY HistoryAssumption
<1>2. d \in Docs /\ Len(d) \in Nat /\ \A i \in 1..Len(d) : d[i].id = <<0, i>>
  BY HistoryAssumption, TextIs
<1>3. ByteLength(d) \in Nat
  BY <1>2, ByteLengthType
<1>4. StartRevision..StartRevision = {StartRevision} /\ (StartRevision + 1)..StartRevision = {}
  BY <1>1
<1>5. Distinct(d) /\ Born(d, StartRevision)
  <2>1. ASSUME NEW i \in 1..Len(d), NEW j \in 1..Len(d), d[i] = d[j] PROVE i = j
    <3>1. <<0, i>> = <<0, j>>
      BY <1>2, <2>1
    <3>. QED  BY <3>1
  <2>2. ASSUME NEW i \in 1..Len(d) PROVE d[i].id[1] <= StartRevision
    <3>1. d[i].id = <<0, i>>
      BY <1>2
    <3>2. d[i].id[1] = 0
      BY <3>1
    <3>. QED  BY <1>1, <3>2
  <2>. QED  BY <2>1, <2>2 DEF Distinct, Born
<1>. HIDE DEF d
<1>6. T[StartRevision] = d
  OBVIOUS
<1>7. Timeline(T, E, StartRevision)
  <2>1. T \in [StartRevision..StartRevision -> Docs]
    BY <1>2, <1>4
  <2>2. E \in [(StartRevision + 1)..StartRevision -> Edit]
    BY <1>4
  <2>. HIDE DEF T, E
  <2>. QED  BY <1>4, <1>5, <1>6, <2>1, <2>2 DEF Timeline
<1>. HIDE DEF T, E
<1>8. /\ h.count = 0 /\ h.baseRevision = StartRevision /\ h.currentRevision = StartRevision
      /\ h.baseLength = ByteLength(d) /\ h.currentLength = ByteLength(d)
  BY DEF newChangeHistory
<1>9. h \in Rings
  <2>1. 0 \in 0..(Limit - 1) /\ 0 \in 0..Limit
    BY <1>1
  <2>2. [i \in 0..(Limit - 1) |-> None] \in [0..(Limit - 1) -> Map \cup {None}]
    OBVIOUS
  <2>. QED  BY <1>1, <1>3, <2>1, <2>2 DEF newChangeHistory, Rings
<1>. HIDE DEF h
<1>10. Mark(h, 0) = StartRevision
  BY <1>8 DEF Mark
<1>11. 0..h.count = {0} /\ 0..(h.count - 1) = {}
  BY <1>8
<1>12. Ring(h, T, E)
  BY <1>4, <1>6, <1>8, <1>9, <1>10, <1>11 DEF Ring
<1>13. Notes(p, h, T, StartRevision)
  <2>1. p \in Seq([revision : Nat, doc : Docs]) /\ Len(p) = 1 /\ p[1].revision = StartRevision /\ p[1].doc = d
    BY <1>1, <1>2
  <2>. HIDE DEF p
  <2>2. \A k \in 1..Len(p) : k = 1
    BY <2>1
  <2>3. h.count = IF Len(p) <= Limit THEN Len(p) - 1 ELSE Limit
    BY <1>1, <1>8, <2>1
  <2>4. \A i \in 0..h.count : Mark(h, i) = p[(Len(p) - h.count) + i].revision
    <3>1. (Len(p) - h.count) + 0 = 1
      BY <1>8, <2>1
    <3>. QED  BY <1>10, <1>11, <2>1, <3>1
  <2>. QED  BY <1>4, <1>6, <2>1, <2>2, <2>3, <2>4 DEF Notes
<1>14. StartRevision \in StartRevision..MaxRevision
  BY <1>1
<1>15. Told(T, E, d, StartRevision, h, None, None, p)
  BY <1>6, <1>7, <1>8, <1>12, <1>13, <1>14 DEF Told
<1>16. doc = d /\ revision = StartRevision /\ history = h /\ index = None /\ job = None /\ published = p
  BY DEF Init, d, h
<1>. HIDE DEF p
<1>. QED  BY <1>15, <1>16 DEF HistoryInv

\* What a commit does, on the documents of its batch.
Committed(batch, docs) ==
    LET after == revision + Len(batch)
    IN  /\ after <= MaxRevision
        /\ \A i \in 1..Len(batch) : Allowed(docs[i - 1], batch[i])
        /\ doc' = docs[Len(batch)] /\ revision' = after
        /\ history' = append(history, NewChangeMap(revision, after, ByteLength(doc),
                                                   [i \in 1..Len(batch) |-> EditOf(batch[i])]))
        /\ published' = Append(published, [revision |-> after, doc |-> docs[Len(batch)]])
        /\ index' = index /\ job' = job

LEMMA CommitDocs ==
    ASSUME NEW batch, Commit(batch) PROVE Committed(batch, BatchDocs(doc, revision, batch))
BY Zenon DEF Commit, Committed, BatchDocs, BatchBody

LEMMA IndexExtends ==
    ASSUME NEW T, NEW E, NEW S, NEW F, NEW hi \in Nat, NEW after \in Nat, hi <= after,
           Extends(T, E, S, F, hi), NEW x, IndexOf(x, T, hi)
    PROVE  IndexOf(x, S, after)
<1>1. x.revision \in StartRevision..hi /\ StartRevision \in Nat
  BY HistoryAssumption DEF IndexOf
<1>2. x.revision \in StartRevision..after
  BY <1>1
<1>3. S[x.revision] = T[x.revision]
  BY <1>1 DEF Extends
<1>. QED  BY <1>2, <1>3 DEF IndexOf

LEMMA CommitTold ==
    ASSUME NEW T, NEW E, Told(T, E, doc, revision, history, index, job, published),
           NEW batch \in Batches, Commit(batch)
    PROVE  HistoryInv'
<1>. DEFINE n == Len(batch)
            after == revision + n
            docs == BatchDocs(doc, revision, batch)
            new == [revision |-> after, doc |-> docs[n]]
<1>1. /\ StartRevision \in Nat /\ MaxRevision \in Nat /\ revision \in Nat /\ StartRevision <= revision
      /\ revision \in StartRevision..revision
  BY ToldTypes
<1>2. n \in 1..MaxBatchOperations /\ n \in Nat /\ MaxBatchOperations \in Nat
  BY BatchTypes, HistoryAssumption
<1>3. Timeline(T, E, revision) /\ doc = T[revision] /\ Ring(history, T, E) /\ history.currentRevision = revision
      /\ Notes(published, history, T, revision)
  BY DEF Told
<1>4. Committed(batch, docs)
  BY CommitDocs
<1>5. Staged(docs, T[revision], revision, batch)
  BY <1>2, <1>3, <1>4, BatchDocsUnfold DEF Staged, Committed
<1>. HIDE DEF docs
<1>6. PICK S, F : GoesOn(T, E, S, F, revision, docs, batch, n)
  BY <1>1, <1>3, <1>5, CommitTimeline
<1>7. Timeline(S, F, after) /\ Extends(T, E, S, F, revision) /\ S[after] = docs[n]
  BY <1>6 DEF GoesOn
<1>8. NewChangeMap(revision, after, ByteLength(T[revision]), [i \in 1..n |-> EditOf(batch[i])])
        = Slice(S, F, revision, after)
  BY <1>1, <1>6, CommitSlice
<1>. DEFINE h == append(history, Slice(S, F, history.currentRevision, after))
            k == IF history.count = Limit THEN 1 ELSE 0
<1>9. /\ doc' = docs[n] /\ revision' = after /\ published' = Append(published, new) /\ after <= MaxRevision
      /\ index' = index /\ job' = job
  BY <1>4 DEF Committed
<1>10. history' = h
  BY <1>3, <1>4, <1>8 DEF Committed
<1>11. /\ after \in Nat /\ revision < after /\ revision <= after /\ after <= revision + MaxBatchOperations
       /\ after \in StartRevision..after /\ StartRevision <= after /\ after \in StartRevision..MaxRevision
  <2>1. after <= MaxRevision
    BY <1>9
  <2>. HIDE DEF n
  <2>. QED  BY <1>1, <1>2, <2>1
<1>. HIDE DEF after, n
<1>12. Ring(history, S, F)
  BY <1>1, <1>3, <1>7, RingExtends
<1>13. /\ Ring(h, S, F) /\ h.currentRevision = after /\ h.count = (history.count + 1) - k
       /\ \A i \in 0..(h.count - 1) : Mark(h, i) = Mark(history, i + k)
  BY <1>3, <1>7, <1>11, <1>12, AppendRing
<1>. HIDE DEF h
<1>14. Notes(Append(published, [revision |-> after, doc |-> S[after]]), h, S, after)
  <2>. HIDE DEF k
  <2>1. k = IF history.count = Limit THEN 1 ELSE 0
    BY DEF k
  <2>. QED  BY <1>1, <1>3, <1>7, <1>11, <1>13, <2>1, NotesGrow
<1>. DEFINE p == Append(published, [revision |-> after, doc |-> S[after]])
<1>noted. ASSUME NEW q, Noted(q, published) PROVE Noted(q, p)
  <2>1. published \in Seq([revision : Nat, doc : Docs])
    BY <1>3 DEF Notes
  <2>2. S[after] \in Docs
    BY <1>7, <1>11 DEF Timeline
  <2>3. [revision |-> after, doc |-> S[after]] \in [revision : Nat, doc : Docs]
    BY <1>11, <2>2
  <2>. QED  BY <1>noted, <2>1, <2>3, NotedMore
<1>. HIDE DEF p
<1>15. index # None => IndexOf(index, S, after) /\ Noted(index.revision, p)
  <2>1. SUFFICES ASSUME index # None PROVE IndexOf(index, S, after) /\ Noted(index.revision, p)
    OBVIOUS
  <2>2. IndexOf(index, T, revision) /\ Noted(index.revision, published)
    BY <2>1 DEF Told
  <2>3. IndexOf(index, S, after)
    BY <1>1, <1>7, <1>11, <2>2, IndexExtends
  <2>. QED  BY <1>noted, <2>2, <2>3
<1>16. ASSUME job # None
       PROVE  /\ index # None /\ Ring(job.history, S, F) /\ job.history.currentRevision <= after
              /\ job.doc = S[job.history.currentRevision] /\ Noted(job.history.currentRevision, p)
  <2>1. index # None /\ Ring(job.history, T, E) /\ job.history.currentRevision <= revision
        /\ job.doc = T[job.history.currentRevision] /\ Noted(job.history.currentRevision, published)
    BY <1>16 DEF Told
  <2>2. Ring(job.history, S, F)
    BY <1>1, <1>7, <2>1, RingExtends
  <2>3. job.history.currentRevision \in Nat /\ job.history.currentRevision \in StartRevision..revision
    <3>1. job.history.currentRevision \in Nat /\ job.history.baseRevision \in StartRevision..job.history.currentRevision
      BY <2>1, MarkTypes
    <3>. QED  BY <1>1, <2>1, <3>1
  <2>4. S[job.history.currentRevision] = T[job.history.currentRevision]
    BY <1>7, <2>3 DEF Extends
  <2>5. job.history.currentRevision <= after
    BY <1>1, <1>11, <2>3
  <2>6. Noted(job.history.currentRevision, p)
    BY <1>noted, <2>1
  <2>. QED  BY <2>1, <2>2, <2>4, <2>5, <2>6
<1>17. Told(S, F, S[after], after, h, index, job, p)
  <2>1. Notes(p, h, S, after)
    BY <1>14 DEF p
  <2>. QED  BY <1>7, <1>11, <1>13, <1>15, <1>16, <2>1 DEF Told
<1>18. Told(S, F, doc', revision', history', index', job', published')
  BY <1>7, <1>9, <1>10, <1>17 DEF p
<1>. QED  BY <1>18 DEF HistoryInv

LEMMA BuildTold ==
    ASSUME NEW T, NEW E, Told(T, E, doc, revision, history, index, job, published), BuildIndex
    PROVE  HistoryInv'
<1>1. doc \in Docs /\ revision \in StartRevision..revision
  BY ToldTypes
<1>2. job = None /\ index' = build(doc, revision) /\ doc' = doc /\ revision' = revision /\ history' = history
      /\ job' = job /\ published' = published
  BY DEF BuildIndex
<1>3. "error" \notin DOMAIN index' /\ index'.revision = revision /\ GoodIndex(index', doc)
  BY <1>1, <1>2, BuildGood
<1>4. IndexOf(index', T, revision) /\ Noted(index'.revision, published)
  <2>1. IndexOf(index', T, revision)
    BY <1>1, <1>3 DEF IndexOf, Told
  <2>2. Noted(revision, published)
    BY ToldNoted
  <2>. QED  BY <1>3, <2>1, <2>2
<1>5. Told(T, E, doc', revision', history', index', job', published')
  BY <1>2, <1>4 DEF Told
<1>. QED  BY <1>5 DEF HistoryInv

LEMMA CaptureTold ==
    ASSUME NEW T, NEW E, Told(T, E, doc, revision, history, index, job, published), RefreshCapture
    PROVE  HistoryInv'
<1>1. index # None /\ job' = [history |-> history, doc |-> doc] /\ doc' = doc /\ revision' = revision
      /\ history' = history /\ index' = index /\ published' = published
  BY DEF RefreshCapture
<1>2. job'.history = history /\ job'.doc = doc
  BY <1>1
<1>3. Ring(history, T, E) /\ history.currentRevision = revision /\ doc = T[revision]
  BY DEF Told
<1>4. revision <= revision /\ Noted(revision, published)
  BY ToldTypes, ToldNoted
<1>5. Told(T, E, doc', revision', history', index', job', published')
  BY <1>1, <1>2, <1>3, <1>4 DEF Told
<1>. QED  BY <1>5 DEF HistoryInv

LEMMA FinishTold ==
    ASSUME NEW T, NEW E, Told(T, E, doc, revision, history, index, job, published), RefreshFinish
    PROVE  HistoryInv'
<1>. DEFINE h == job.history
            from == index.revision
            to == h.currentRevision
            m == between(h, from, to)
<1>1. job # None /\ "error" \notin DOMAIN m /\ index' = rebuild(job.doc, index, m) /\ job' = None
      /\ doc' = doc /\ revision' = revision /\ history' = history /\ published' = published
  BY DEF RefreshFinish
<1>2. revision \in Nat /\ StartRevision \in Nat
  BY ToldTypes
<1>3. index # None /\ Ring(h, T, E) /\ to <= revision /\ job.doc = T[to] /\ Timeline(T, E, revision)
  BY <1>1 DEF Told
<1>4. IndexOf(index, T, revision)
  BY <1>3 DEF Told
<1>5. from \in Int /\ to \in Nat /\ to \in StartRevision..revision
  <2>1. to \in Nat /\ h.baseRevision \in StartRevision..to
    BY <1>3, MarkTypes
  <2>2. from \in StartRevision..revision
    BY <1>4 DEF IndexOf
  <2>. QED  BY <1>2, <1>3, <2>1, <2>2
<1>. HIDE DEF h, from, to
<1>6. Leads(m, T, from, to)
  <2>1. ASSUME NEW e, m = Error(e) PROVE FALSE
    BY <1>1, <2>1 DEF Error
  <2>. HIDE DEF m
  <2>2. /\ {from, to} \subseteq Boundaries(h) => Leads(m, T, from, to)
        /\ ~({from, to} \subseteq Boundaries(h)) =>
             m = Error(IF from < h.baseRevision \/ to < h.baseRevision
                       THEN "ErrChangeHistoryExpired" ELSE "ErrRevisionUnavailable")
    <3>1. to = h.currentRevision
      BY DEF to
    <3>2. h.currentRevision <= revision
      BY <1>3, <3>1
    <3>. QED  BY <1>2, <1>3, <1>5, <3>2, BetweenExact DEF m
  <2>. QED  BY <2>1, <2>2
<1>. HIDE DEF m
<1>7. index.revision = from /\ GoodIndex(index, T[from])
  BY <1>4 DEF IndexOf, from
<1>8. "error" \notin DOMAIN index' /\ index'.revision = to /\ GoodIndex(index', T[to])
  BY <1>1, <1>3, <1>6, <1>7, RebuildGood
<1>9. IndexOf(index', T, revision) /\ Noted(index'.revision, published)
  <2>1. Noted(to, published)
    BY <1>1 DEF Told, h, to
  <2>. QED  BY <1>5, <1>8, <2>1 DEF IndexOf
<1>10. Told(T, E, doc', revision', history', index', job', published')
  BY <1>1, <1>9 DEF Told
<1>. QED  BY <1>10 DEF HistoryInv

LEMMA ExpiredTold ==
    ASSUME NEW T, NEW E, Told(T, E, doc, revision, history, index, job, published), RefreshExpired
    PROVE  HistoryInv'
<1>1. index' = None /\ job' = None /\ doc' = doc /\ revision' = revision /\ history' = history
      /\ published' = published
  BY DEF RefreshExpired
<1>2. Told(T, E, doc', revision', history', index', job', published')
  BY <1>1 DEF Told
<1>. QED  BY <1>2 DEF HistoryInv

LEMMA NextTold == ASSUME HistoryInv, [Next]_vars PROVE HistoryInv'
<1>1. PICK T, E : Told(T, E, doc, revision, history, index, job, published)
  BY DEF HistoryInv
<1>2. CASE \E batch \in Batches : Commit(batch)
  BY <1>1, <1>2, CommitTold
<1>3. CASE BuildIndex
  BY <1>1, <1>3, BuildTold
<1>4. CASE RefreshCapture
  BY <1>1, <1>4, CaptureTold
<1>5. CASE RefreshFinish
  BY <1>1, <1>5, FinishTold
<1>6. CASE RefreshExpired
  BY <1>1, <1>6, ExpiredTold
<1>7. CASE UNCHANGED vars
  <2>1. doc' = doc /\ revision' = revision /\ history' = history /\ index' = index /\ job' = job
        /\ published' = published
    BY <1>7 DEF vars
  <2>2. Told(T, E, doc', revision', history', index', job', published')
    BY <1>1, <2>1
  <2>. QED  BY <2>2 DEF HistoryInv
<1>. QED  BY <1>2, <1>3, <1>4, <1>5, <1>6, <1>7 DEF Next

\* Whatever commits, builds and refreshes interleave, the state is read off one
\* timeline: the maps of the ring (change_history.go, append) are its slices, the
\* ring holds the boundaries of the last Limit transactions, and what a refresh
\* captured before its unlock stays on it while other transactions commit.
THEOREM HistoryInvariance == Spec => []HistoryInv
<1>1. Init => HistoryInv
  BY InitTold
<1>2. HistoryInv /\ [Next]_vars => HistoryInv'
  BY NextTold
<1>. QED  BY <1>1, <1>2, PTL DEF Spec

-----------------------------------------------------------------------------
\* The properties

\* Contents are those of the timeline.
LEMMA ContentIs ==
    ASSUME NEW T, NEW E, Told(T, E, doc, revision, history, index, job, published),
           NEW r, Noted(r, published)
    PROVE  r \in StartRevision..revision /\ ContentAt(r) = T[r]
<1>. DEFINE p == published
            j == CHOOSE j \in 1..Len(p) : p[j].revision = r
<1>1. \A i \in 1..Len(p) : p[i].revision \in StartRevision..revision /\ p[i].doc = T[p[i].revision]
  BY DEF Told, Notes
<1>2. j \in 1..Len(p) /\ p[j].revision = r
  BY DEF Noted
<1>3. ContentAt(r) = p[j].doc
  BY DEF ContentAt
<1>. HIDE DEF j
<1>. QED  BY <1>1, <1>2, <1>3

\* What the ring answers for is what it retains.
LEMMA RetainedIs ==
    ASSUME NEW T, NEW E, Told(T, E, doc, revision, history, index, job, published)
    PROVE  /\ Retained = Boundaries(history) /\ Min(Retained) = history.baseRevision
           /\ \A r \in Retained : r \in StartRevision..revision /\ ContentAt(r) = T[r]
<1>. DEFINE l == Len(published)
            c == history.count
            low == l - c
            p == published
<1>1. revision \in Nat /\ StartRevision \in Nat /\ Notes(p, history, T, revision) /\ Ring(history, T, E)
  BY ToldTypes DEF Told
<1>2. l \in Nat \ {0} /\ c \in Nat /\ c < l /\ \A i \in 0..c : low + i \in 1..l
  BY <1>1, NotesTypes
<1>3. c = (IF l <= Limit THEN l - 1 ELSE Limit) /\ \A i \in 0..c : Mark(history, i) = p[low + i].revision
  BY <1>1 DEF Notes
<1>4. Limit \in Nat \ {0}
  BY HistoryAssumption
<1>. HIDE DEF l, c, p
<1>5. Max({1, l - Limit}) = low
  <2>1. low \in {1, l - Limit} /\ \A y \in {1, l - Limit} : low >= y
    BY <1>2, <1>3, <1>4
  <2>2. ASSUME NEW z \in {1, l - Limit}, \A y \in {1, l - Limit} : z >= y PROVE z = low
    BY <1>2, <1>4, <2>1, <2>2
  <2>. QED  BY <2>1, <2>2 DEF Max
<1>6. Retained = {p[i].revision : i \in low..l}
  BY <1>5 DEF Retained, p, l
<1>7. Boundaries(history) = {Mark(history, i) : i \in 0..c}
  BY <1>1, BoundariesAre DEF c
<1>8. Retained = Boundaries(history)
  <2>1. ASSUME NEW i \in low..l PROVE p[i].revision \in {Mark(history, j) : j \in 0..c}
    <3>1. i - low \in 0..c /\ low + (i - low) = i
      BY <1>2
    <3>2. Mark(history, i - low) = p[i].revision
      BY <1>3, <3>1
    <3>. QED  BY <3>1, <3>2
  <2>2. ASSUME NEW j \in 0..c PROVE Mark(history, j) \in {p[i].revision : i \in low..l}
    <3>1. low + j \in low..l
      BY <1>2
    <3>. QED  BY <1>3, <3>1
  <2>. QED  BY <1>6, <1>7, <2>1, <2>2
<1>9. Min(Retained) = history.baseRevision
  <2>1. /\ \A i \in 0..c : Mark(history, i) \in Nat
        /\ history.baseRevision = Mark(history, 0)
    BY <1>1, MarkTypes DEF c
  <2>2. 0 \in 0..c
    BY <1>2
  <2>3. ASSUME NEW i \in 0..c PROVE Mark(history, 0) <= Mark(history, i)
    <3>1. 0 <= i
      BY <1>2
    <3>. QED  BY <1>1, <2>2, <3>1, MarksGrow DEF c
  <2>4. history.baseRevision \in Retained /\ \A y \in Retained : history.baseRevision <= y /\ y \in Nat
    BY <1>7, <1>8, <2>1, <2>2, <2>3
  <2>5. ASSUME NEW z \in Retained, \A y \in Retained : z =< y PROVE z = history.baseRevision
    BY <2>4, <2>5
  <2>. QED  BY <2>4, <2>5 DEF Min
<1>10. ASSUME NEW r \in Retained PROVE r \in StartRevision..revision /\ ContentAt(r) = T[r]
  <2>1. PICK i \in low..l : r = p[i].revision
    BY <1>6
  <2>2. i \in 1..l
    BY <1>2
  <2>3. Noted(r, published)
    BY <2>1, <2>2 DEF Noted, p, l
  <2>. QED  BY <2>3, ContentIs
<1>. QED  BY <1>8, <1>9, <1>10

LEMMA ToldTypeOK == ASSUME HistoryInv PROVE TypeOK
<1>1. PICK T, E : Told(T, E, doc, revision, history, index, job, published)
  BY DEF HistoryInv
<1>2. revision \in StartRevision..MaxRevision /\ Ring(history, T, E) /\ history.currentRevision = revision
      /\ doc = T[revision]
  BY <1>1 DEF Told
<1>3. history \in Rings /\ history.baseRevision \in StartRevision..revision
  BY <1>2, MarkTypes
<1>4. /\ history.entries \in [0..(Limit - 1) -> Map \cup {None}]
      /\ history.start \in 0..(Limit - 1) /\ history.count \in 0..Limit /\ history.baseLength \in Nat
  BY <1>3, RingTypes
<1>5. history.currentLength = ByteLength(doc)
  BY <1>2 DEF Ring
<1>6. index # None => "error" \notin DOMAIN index
  BY <1>1 DEF Told, IndexOf
<1>. QED  BY <1>2, <1>3, <1>4, <1>5, <1>6 DEF TypeOK

LEMMA ToldQueryExact == ASSUME HistoryInv PROVE QueryExact
<1>1. PICK T, E : Told(T, E, doc, revision, history, index, job, published)
  BY DEF HistoryInv
<1>2. Timeline(T, E, revision) /\ Ring(history, T, E) /\ history.currentRevision = revision
  BY <1>1 DEF Told
<1>3. MaxRevision \in Nat /\ revision \in Nat /\ revision <= revision
  BY <1>1, ToldTypes
<1>4. /\ Retained = Boundaries(history) /\ Min(Retained) = history.baseRevision
      /\ \A r \in Retained : ContentAt(r) = T[r]
  BY <1>1, RetainedIs
<1>5. history.baseRevision \in Nat
  BY <1>2, RingTypes DEF Ring
<1>. SUFFICES ASSUME NEW from \in 0..(MaxRevision + 1), NEW to \in 0..(MaxRevision + 1)
     PROVE  LET answer == between(history, from, to)
            IN  IF {from, to} \subseteq Retained
                THEN /\ "error" \notin DOMAIN answer
                     /\ answer.beforeRevision = from /\ answer.afterRevision = to
                     /\ answer.beforeLength = ByteLength(ContentAt(from))
                     /\ answer.afterLength = ByteLength(ContentAt(to))
                     /\ Lengths(answer.beforeLength, answer.edits)[Len(answer.edits)] = answer.afterLength
                ELSE answer = Error(IF Min({from, to}) < Min(Retained)
                                    THEN "ErrChangeHistoryExpired" ELSE "ErrRevisionUnavailable")
  BY DEF QueryExact
<1>. DEFINE answer == between(history, from, to)
<1>6. from \in Int /\ to \in Int
  OBVIOUS
<1>7. /\ {from, to} \subseteq Boundaries(history) => Leads(answer, T, from, to)
      /\ ~({from, to} \subseteq Boundaries(history)) =>
           answer = Error(IF from < history.baseRevision \/ to < history.baseRevision
                          THEN "ErrChangeHistoryExpired" ELSE "ErrRevisionUnavailable")
  BY <1>2, <1>3, <1>6, BetweenExact
<1>. HIDE DEF answer
<1>8. ASSUME {from, to} \subseteq Retained
      PROVE  /\ "error" \notin DOMAIN answer
             /\ answer.beforeRevision = from /\ answer.afterRevision = to
             /\ answer.beforeLength = ByteLength(ContentAt(from))
             /\ answer.afterLength = ByteLength(ContentAt(to))
             /\ Lengths(answer.beforeLength, answer.edits)[Len(answer.edits)] = answer.afterLength
  <2>1. Leads(answer, T, from, to)
    BY <1>4, <1>7, <1>8
  <2>2. ContentAt(from) = T[from] /\ ContentAt(to) = T[to]
    BY <1>4, <1>8
  <2>3. "error" \notin DOMAIN answer
        /\ Lengths(answer.beforeLength, answer.edits)[Len(answer.edits)] = answer.afterLength
    BY <2>1, LeadsExact
  <2>. QED  BY <2>1, <2>2, <2>3 DEF Leads
<1>9. Min({from, to}) < Min(Retained) <=> from < history.baseRevision \/ to < history.baseRevision
  <2>. DEFINE z == Min({from, to})
  <2>1. z \in {from, to} /\ \A y \in {from, to} : z <= y
    <3>1. \E x \in {from, to} : \A y \in {from, to} : x =< y
      BY <1>6
    <3>. QED  BY <3>1 DEF Min
  <2>. HIDE DEF z
  <2>2. z < history.baseRevision <=> from < history.baseRevision \/ to < history.baseRevision
    BY <1>5, <1>6, <2>1
  <2>. QED  BY <1>4, <2>2 DEF z
<1>10. ASSUME ~({from, to} \subseteq Retained)
       PROVE  answer = Error(IF Min({from, to}) < Min(Retained)
                             THEN "ErrChangeHistoryExpired" ELSE "ErrRevisionUnavailable")
  BY <1>4, <1>7, <1>9, <1>10
<1>. QED  BY <1>8, <1>10 DEF answer

LEMMA ToldAnchors == ASSUME HistoryInv PROVE AnchorsTrackText
<1>1. PICK T, E : Told(T, E, doc, revision, history, index, job, published)
  BY DEF HistoryInv
<1>2. Timeline(T, E, revision) /\ Ring(history, T, E) /\ history.currentRevision = revision
  BY <1>1 DEF Told
<1>3. revision \in Nat /\ revision <= revision /\ StartRevision \in Nat
  BY <1>1, ToldTypes
<1>4. Retained = Boundaries(history) /\ \A r \in Retained : r \in StartRevision..revision /\ ContentAt(r) = T[r]
  BY <1>1, RetainedIs
<1>. SUFFICES ASSUME NEW before \in Retained, NEW after \in Retained
     PROVE  LET m == between(history, before, after)
                d == ContentAt(before)
                e == ContentAt(after)
                from == Starts(d)
                to == Starts(e)
            IN  /\ \A i \in 1..Len(d), j \in 1..Len(e) : d[i] = e[j] =>
                     /\ Transform(m, from[i - 1], "after") = to[j - 1]
                     /\ Transform(m, from[i], "before") = to[j]
                /\ revision \in {before, after} /\ before # after =>
                     \A a \in 0..Len(d) : \A b \in a..Len(d) : RangeFollows(m, d, e, from, to, a, b)
  BY DEF AnchorsTrackText
<1>. DEFINE m == between(history, before, after)
            d == ContentAt(before)
            e == ContentAt(after)
<1>5. d = T[before] /\ e = T[after] /\ before \in Int /\ after \in Int
  BY <1>3, <1>4
<1>6. Leads(m, T, before, after)
  BY <1>2, <1>3, <1>4, <1>5, BetweenExact
<1>. HIDE DEF m, d, e
<1>7. /\ \A i \in 1..Len(d), j \in 1..Len(e) : d[i] = e[j] => Follows(m, d, e, i, j)
      /\ \A a \in 0..Len(d) : \A b \in a..Len(d) : RangeFollows(m, d, e, Starts(d), Starts(e), a, b)
  BY <1>5, <1>6, LeadsExact
<1>8. \A i \in 1..Len(d), j \in 1..Len(e) : d[i] = e[j] =>
         /\ Transform(m, Starts(d)[i - 1], "after") = Starts(e)[j - 1]
         /\ Transform(m, Starts(d)[i], "before") = Starts(e)[j]
  BY <1>7 DEF Follows
<1>. QED  BY <1>7, <1>8 DEF m, d, e

LEMMA ToldIndex == ASSUME HistoryInv PROVE IndexAnswersExactly
<1>. DEFINE d == ContentAt(index.revision)
            end == PositionOf(d, Len(d))
<1>1. PICK T, E : Told(T, E, doc, revision, history, index, job, published)
  BY DEF HistoryInv
<1>. SUFFICES ASSUME index # None
     PROVE  /\ index.byteLength = end.byteOffset /\ index.runeCount = end.runeOffset
            /\ index.lineCount = end.line + 1
            /\ \A k \in 0..Len(d) :
                  /\ ByteToPosition(d, index, PositionOf(d, k).byteOffset) = PositionOf(d, k)
                  /\ RuneToPosition(d, index, PositionOf(d, k).runeOffset) = PositionOf(d, k)
                  /\ LineToPosition(d, index, PositionOf(d, k).line, PositionOf(d, k).column) = PositionOf(d, k)
  BY DEF IndexAnswersExactly
<1>2. IndexOf(index, T, revision) /\ Noted(index.revision, published) /\ Timeline(T, E, revision)
  BY <1>1 DEF Told
<1>3. d = T[index.revision] /\ index.revision \in StartRevision..revision
  BY <1>1, <1>2, ContentIs
<1>4. d \in Docs
  BY <1>2, <1>3 DEF Timeline
<1>5. GoodIndex(index, d)
  BY <1>2, <1>3 DEF IndexOf
<1>. HIDE DEF d
<1>6. Len(d) \in 0..Len(d)
  BY <1>4, RuneWidths
<1>7. end.byteOffset = ByteLength(d) /\ end.runeOffset = Len(d)
  BY <1>4, <1>6, PositionParts DEF ByteLength
<1>8. index.byteLength = end.byteOffset /\ index.runeCount = end.runeOffset /\ index.lineCount = end.line + 1
  <2>. HIDE DEF end
  <2>. QED  BY <1>5, <1>7 DEF GoodIndex, end
<1>. HIDE DEF end
<1>. QED  BY <1>4, <1>5, <1>8, ByteFound, RuneFound, LineFound

\* The ring never holds more than Limit maps, its indices stay inside it, its
\* oldest boundary is a revision of the Session, its length is the document's,
\* and no build or refresh leaves the host with an error for an index
\* (change_history.go append, coordinate/index.go Build and Rebuild).
THEOREM HistoryTypeCorrect == Spec => []TypeOK
<1>1. HistoryInv => TypeOK
  BY ToldTypeOK
<1>. QED  BY <1>1, HistoryInvariance, PTL

\* ChangesBetween (change_history.go between) answers for exactly the last Limit
\* transactions, in both directions, with the revisions and the lengths of the
\* two contents; older revisions have expired, all others are unavailable, and
\* composing a full ring is never too complex.
THEOREM QueriesAreExact == Spec => []QueryExact
<1>1. HistoryInv => QueryExact
  BY ToldQueryExact
<1>. QED  BY <1>1, HistoryInvariance, PTL

\* Through every composed or inverted map that ChangesBetween returns, an anchor
\* stays with the rune it leans on for as long as that rune lives, and a range
\* keeps its surviving text (changemap.go Transform, TransformRange).
THEOREM AnchorsStayWithText == Spec => []AnchorsTrackText
<1>1. HistoryInv => AnchorsTrackText
  BY ToldAnchors
<1>. QED  BY <1>1, HistoryInvariance, PTL

\* However often RefreshCoordinateIndex rebuilt it incrementally, and whatever
\* was committed between a refresh's capture and its return, the index answers
\* every query by byte, by rune and by line and column as the definition of a
\* position does, for the content of its revision and within one window of a
\* checkpoint (coordinate/index.go Rebuild, ByteToPosition, PositionToByte).
THEOREM IndexIsExact == Spec => []IndexAnswersExactly
<1>1. HistoryInv => IndexAnswersExactly
  BY ToldIndex
<1>. QED  BY <1>1, HistoryInvariance, PTL
=============================================================================
