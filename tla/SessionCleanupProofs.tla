------------------------ MODULE SessionCleanupProofs ------------------------
(***************************************************************************)
(* Proofs about SessionCleanup, for any number of processes, any leftovers *)
(* of a crash and any number of calls: a reclamation never takes what is   *)
(* not Docengine's, a held marker lock protects against the calls that     *)
(* begin later, calls that do not overlap leave one user, and a crash      *)
(* behind the write of the marker keeps no later Open out.                 *)
(***************************************************************************)
EXTENDS SessionCleanup, FiniteSetTheorems, TLAPS

-----------------------------------------------------------------------------
\* Types

Phases == {"idle", "dead", "lstat", "open", "lock", "read", "list", "unlock",
           "remove", "removeMarker", "removeDir", "mkdir", "create", "write",
           "lockOwn", "abort", "store", "live", "closeUnlock", "closeMarker",
           "closeDir"}
Owners == Procs \cup {Stale}

TypeInv ==
    /\ dir \in BOOLEAN /\ foreign \in BOOLEAN
    /\ marker \in Inodes \cup {0}
    /\ content \in [Inodes -> {"empty", "magic", "malformed"}]
    /\ lock \in [Inodes -> Procs \cup {Nobody}]
    /\ stores \subseteq Owners
    /\ pc \in [Procs -> Phases]
    /\ fd \in [Procs -> Inodes \cup {0}]
    /\ found \in [Procs -> [removable : BOOLEAN, paths : SUBSET Owners, err : BOOLEAN]]
    /\ racers \in [Procs -> SUBSET Procs] /\ displaced \subseteq Procs
    /\ contended \in BOOLEAN

\* A process that works on its marker has it open, and a Session has it locked.
HandleInv ==
    /\ \A p \in Procs : pc[p] \in {"lock", "read", "list", "unlock", "write", "lockOwn",
                                   "abort", "store", "live", "closeUnlock"} => fd[p] # 0
    /\ \A p \in Procs : Holds(p) => lock[fd[p]] = p

\* The phases of a call that has not touched a marker yet.
Harmless == {"idle", "dead", "lstat", "open", "lock", "mkdir", "create"}

\* While a malformed marker lies there, no process gets past its bytes.
MalformedInv ==
    \A i \in Inodes : content[i] = "malformed" =>
        /\ marker = i /\ dir /\ stores \subseteq {Stale}
        /\ \A p \in Procs : /\ pc[p] \in Harmless \cup {"read", "list", "unlock"}
                            /\ fd[p] \in {0, i}
                            /\ ~found[p].removable

ForeignInv == foreign => dir

\* A process that a Session's lock did not find at work never gets past it,
\* unless it closes a Session that has lost its marker.
Kept(q) ==
    \/ pc[q] \in Harmless /\ (pc[q] = "lock" => fd[q] = marker)
    \/ pc[q] = "live"
    \/ q \in displaced /\ pc[q] \in {"closeUnlock", "closeMarker", "closeDir"}
RacersInv ==
    \A p \in Sessions : Holds(p) /\ marker = fd[p] =>
        \A q \in Procs \ {p} : q \in racers[p] \/ Kept(q)

\* The calls of an uncontended history: one process is at work at a time, and
\* it works on the marker that is there.
AloneInv ==
    ~contended =>
      /\ \A p, q \in Procs : AtWork(p) /\ AtWork(q) => p = q
      /\ \A p \in Procs : pc[p] \in {"lock", "write", "lockOwn", "store", "live"}
                            => fd[p] = marker
      /\ \A p \in Procs, q \in Procs : Holds(p) /\ q # p => pc[q] \in Harmless \cup {"live"}
StoreInv ==
    ~contended =>
      /\ \A p \in Procs : pc[p] \in {"write", "lockOwn", "abort", "store", "removeMarker",
                                     "closeUnlock", "closeMarker"}
                            => stores = {}
      /\ \A p \in Procs : pc[p] = "live" => stores = {p}
      /\ \A p \in Procs : pc[p] = "remove" => stores \subseteq found[p].paths
      /\ \A p \in Procs : pc[p] = "unlock" /\ found[p].removable => stores \subseteq found[p].paths
      /\ \A p \in Procs : pc[p] \in {"lockOwn", "store", "live"} => content[fd[p]] = "magic"
      /\ stores # {} => marker # 0 /\ content[marker] # "empty"

\* What a reclamation without overlap knows of the marker at the path.
LeftOf(p) ==
    /\ pc[p] \in {"read", "list", "unlock"} => fd[p] = marker
    /\ pc[p] = "list" => found[p].removable \/ content[marker] # "magic"
    /\ pc[p] = "unlock" =>
          found[p].removable \/ found[p].err \/ content[marker] # "magic" \/ foreign
    /\ pc[p] = "removeDir" => marker = 0
LeftInv == ~contended => \A p \in Procs : LeftOf(p)

Inv == TypeInv /\ HandleInv /\ MalformedInv /\ ForeignInv /\ RacersInv /\ AloneInv /\ StoreInv
       /\ LeftInv

USE DEF files, locals, history

-----------------------------------------------------------------------------
\* The end of a reclamation, and the free inode

\* What a process has behind it when its reclamation ends, however it ends.
Ended(p) ==
    /\ \E x \in {"lstat", "mkdir", "idle"} :
         /\ pc' = [pc EXCEPT ![p] = x]
         /\ \/ racers' = racers /\ displaced' = displaced
            \/ x = "idle" /\ racers' = [q \in Procs |-> racers[q] \ {p}]
               /\ displaced' = displaced \ {p}
    /\ fd' = [fd EXCEPT ![p] = 0] /\ found' = [found EXCEPT ![p] = Nothing]
    /\ contended' = contended

LEMMA AfterEnds == ASSUME NEW p \in Procs, NEW f, After(p, f) PROVE Ended(p)
BY DEF After, Return, Goto, Ended

Stay == UNCHANGED <<found, racers, displaced, contended>>

\* The steps of a reclamation that may end it.
LEMMA ReclaimFacts ==
    ASSUME NEW p \in Procs
    PROVE  /\ Lstat(p) => /\ pc[p] = "lstat" /\ UNCHANGED files
                          /\ \/ Ended(p)
                             \/ marker # 0 /\ Goto(p, "open") /\ Stay /\ fd' = fd
           /\ OpenMarker(p) => /\ pc[p] = "open" /\ UNCHANGED files
                               /\ \/ Ended(p)
                                  \/ /\ marker # 0 /\ Goto(p, "lock") /\ Stay
                                     /\ fd' = [fd EXCEPT ![p] = marker]
           /\ LockMarker(p) => /\ pc[p] = "lock"
                               /\ UNCHANGED <<dir, marker, content, stores, foreign>>
                               /\ \/ Ended(p) /\ lock' = lock
                                  \/ /\ lock[fd[p]] = Nobody /\ Goto(p, "read") /\ Stay
                                     /\ lock' = [lock EXCEPT ![fd[p]] = p] /\ fd' = fd
           /\ UnlockMarker(p) => /\ pc[p] = "unlock" /\ lock' = Unlocked(p)
                                 /\ UNCHANGED <<dir, marker, content, stores, foreign>>
                                 /\ \/ Ended(p)
                                    \/ /\ found[p].removable /\ Goto(p, "remove") /\ Stay
                                       /\ fd' = [fd EXCEPT ![p] = 0]
           /\ RemoveDir(p) => /\ pc[p] = "removeDir" /\ Ended(p)
                              /\ dir' = (dir /\ ~Empty)
                              /\ UNCHANGED <<marker, content, lock, stores, foreign>>
           /\ ReclaimFails(p) => /\ pc[p] \in {"lstat", "open", "lock", "unlock", "remove",
                                               "removeMarker", "removeDir"}
                                 /\ lock' = Unlocked(p) /\ Ended(p)
                                 /\ UNCHANGED <<dir, marker, content, stores, foreign>>
<1>1. ASSUME Lstat(p)
      PROVE  /\ pc[p] = "lstat" /\ UNCHANGED files
             /\ Ended(p) \/ (marker # 0 /\ Goto(p, "open") /\ Stay /\ fd' = fd)
  BY <1>1, AfterEnds DEF Lstat, OldEnough, Stay
<1>2. ASSUME OpenMarker(p)
      PROVE  /\ pc[p] = "open" /\ UNCHANGED files
             /\ \/ Ended(p)
                \/ /\ marker # 0 /\ Goto(p, "lock") /\ Stay
                   /\ fd' = [fd EXCEPT ![p] = marker]
  BY <1>2, AfterEnds DEF OpenMarker, Stay
<1>3. ASSUME LockMarker(p)
      PROVE  /\ pc[p] = "lock" /\ UNCHANGED <<dir, marker, content, stores, foreign>>
             /\ \/ Ended(p) /\ lock' = lock
                \/ /\ lock[fd[p]] = Nobody /\ Goto(p, "read") /\ Stay
                   /\ lock' = [lock EXCEPT ![fd[p]] = p] /\ fd' = fd
  BY <1>3, AfterEnds DEF LockMarker, Stay
<1>4. ASSUME UnlockMarker(p)
      PROVE  /\ pc[p] = "unlock" /\ lock' = Unlocked(p)
             /\ UNCHANGED <<dir, marker, content, stores, foreign>>
             /\ \/ Ended(p)
                \/ /\ found[p].removable /\ Goto(p, "remove") /\ Stay
                   /\ fd' = [fd EXCEPT ![p] = 0]
  BY <1>4, AfterEnds DEF UnlockMarker, Stay
<1>5. ASSUME RemoveDir(p)
      PROVE  /\ pc[p] = "removeDir" /\ Ended(p) /\ dir' = (dir /\ ~Empty)
             /\ UNCHANGED <<marker, content, lock, stores, foreign>>
  BY <1>5, AfterEnds DEF RemoveDir
<1>6. ASSUME ReclaimFails(p)
      PROVE  /\ pc[p] \in {"lstat", "open", "lock", "unlock", "remove", "removeMarker",
                           "removeDir"}
             /\ lock' = Unlocked(p) /\ Ended(p)
             /\ UNCHANGED <<dir, marker, content, stores, foreign>>
  BY <1>6, AfterEnds DEF ReclaimFails
<1>. QED  BY <1>1, <1>2, <1>3, <1>4, <1>5, <1>6, Zenon

LEMMA InodeFacts == 0 \notin Inodes /\ Nobody \notin Procs
BY CleanupAssumption, FS_CardinalityType DEF Inodes

\* There is one inode more than there are processes, so a new marker finds one
\* that no process has open.
LEMMA FreeFacts ==
    ASSUME TypeInv, marker = 0
    PROVE  Free \in Inodes /\ \A q \in Procs : fd[q] # Free
<1>. DEFINE Holder == [i \in Inodes |-> CHOOSE q \in Procs : fd[q] = i]
<1>0. IsFiniteSet(Procs) /\ Cardinality(Procs) \in Nat
  BY CleanupAssumption, FS_CardinalityType
<1>1. IsFiniteSet(Inodes) /\ Cardinality(Inodes) = Cardinality(Procs) + 1
  BY <1>0, FS_Interval DEF Inodes
<1>2. \E i \in Inodes : \A q \in Procs : fd[q] # i
  <2>. SUFFICES ASSUME \A i \in Inodes : \E q \in Procs : fd[q] = i PROVE FALSE
    OBVIOUS
  <2>1. \A i \in Inodes : Holder[i] \in Procs /\ fd[Holder[i]] = i
    OBVIOUS
  <2>2. Holder \in [Inodes -> Procs]
    BY <2>1
  <2>. HIDE DEF Holder
  <2>3. \E i, j \in Inodes : i # j /\ Holder[i] = Holder[j]
    BY <1>0, <1>1, <2>2, FS_PigeonHole
  <2>. QED  BY <2>1, <2>3
<1>3. \E i \in Inodes : i # marker /\ \A q \in Procs : fd[q] # i
  BY <1>2, InodeFacts
<1>. QED  BY <1>3 DEF Free

\* A new marker at the path.
Created(p) ==
    /\ marker = 0 /\ dir /\ Goto(p, "write")
    /\ Free \in Inodes /\ \A q \in Procs : fd[q] # Free
    /\ marker' = Free /\ fd' = [fd EXCEPT ![p] = Free]
    /\ content' = [content EXCEPT ![Free] = "empty"]
    /\ UNCHANGED <<dir, lock, stores, foreign, racers, displaced, contended>>

LEMMA CreateFacts ==
    ASSUME NEW p \in Procs, TypeInv, CreateMarker(p)
    PROVE  /\ pc[p] = "create" /\ found' = found
           /\ (Return(p, "idle") /\ UNCHANGED <<files, fd>>) \/ Created(p)
BY FreeFacts DEF CreateMarker, Created

LEMMA TypeInit == Init => TypeInv
<1>. SUFFICES ASSUME Init PROVE TypeInv
  OBVIOUS
<1>1. PICK l \in Leftovers :
         /\ dir = l.dir /\ foreign = l.foreign
         /\ marker = IF l.marker = "none" THEN 0 ELSE 1
         /\ content = [i \in Inodes |-> IF i = marker THEN l.marker ELSE "empty"]
         /\ stores = IF l.store THEN {Stale} ELSE {}
  BY DEF Init
<1>2. l \in LeftoverType
  BY CleanupAssumption
<1>3. 1 \in Inodes
  BY CleanupAssumption, FS_CardinalityType DEF Inodes
<1>. QED  BY <1>1, <1>2, <1>3, InodeFacts DEF Init, TypeInv, LeftoverType, Owners, Phases, Nothing

\* The part of the types that belongs to the processes.
LocalTypes ==
    /\ pc \in [Procs -> Phases]
    /\ fd \in [Procs -> Inodes \cup {0}]
    /\ found \in [Procs -> [removable : BOOLEAN, paths : SUBSET Owners, err : BOOLEAN]]
    /\ racers \in [Procs -> SUBSET Procs] /\ displaced \subseteq Procs

LEMMA EndedTypes == ASSUME NEW p \in Procs, LocalTypes, Ended(p) PROVE LocalTypes'
<1>1. pc' \in [Procs -> Phases] /\ racers' \in [Procs -> SUBSET Procs]
      /\ displaced' \subseteq Procs
  BY DEF LocalTypes, Ended, Phases
<1>2. fd' \in [Procs -> Inodes \cup {0}]
  BY DEF LocalTypes, Ended
<1>3. Nothing \in [removable : BOOLEAN, paths : SUBSET Owners, err : BOOLEAN]
  BY DEF Nothing
<1>4. found' = [found EXCEPT ![p] = Nothing]
  BY DEF Ended
<1>5. found' \in [Procs -> [removable : BOOLEAN, paths : SUBSET Owners, err : BOOLEAN]]
  BY <1>3, <1>4 DEF LocalTypes
<1>. QED  BY <1>1, <1>2, <1>5 DEF LocalTypes

\* The same process by process.
LEMMA EndedFacts ==
    ASSUME NEW p \in Procs, TypeInv, Ended(p)
    PROVE  /\ pc'[p] \in {"lstat", "mkdir", "idle"} /\ fd'[p] = 0
           /\ found'[p] = Nothing /\ ~Nothing.removable
           /\ \A q \in Procs \ {p} : pc'[q] = pc[q] /\ fd'[q] = fd[q] /\ found'[q] = found[q]
           /\ \A q \in Procs, r \in Procs \ {p} : r \in racers[q] => r \in racers'[q]
           /\ \A q \in Procs \ {p} : q \in displaced => q \in displaced'
           /\ contended' = contended
BY DEF TypeInv, Ended, Nothing

LEMMA TypeStep == TypeInv /\ [Next]_vars => TypeInv'
<1>. SUFFICES ASSUME TypeInv, [Next]_vars PROVE TypeInv'
  OBVIOUS
<1>0. LocalTypes
  BY DEF TypeInv, LocalTypes
<1>. USE DEF TypeInv
<1>1. ASSUME NEW p \in Procs, Begin(p) PROVE TypeInv'
  BY <1>1 DEF Begin, Goto, Phases
<1>2. ASSUME NEW p \in Procs, Lstat(p) PROVE TypeInv'
  <2>1. CASE Ended(p)
    <3>1. LocalTypes' /\ contended' = contended
      BY <1>0, <2>1, EndedTypes DEF Ended
    <3>2. lock' \in [Inodes -> Procs \cup {Nobody}]
      BY <1>2, ReclaimFacts DEF Unlocked
    <3>. QED  BY <1>2, <3>1, <3>2, ReclaimFacts DEF LocalTypes
  <2>2. CASE ~Ended(p)
    BY <1>2, <2>2, ReclaimFacts DEF Goto, Stay, Unlocked, Phases
  <2>. QED  BY <2>1, <2>2
<1>3. ASSUME NEW p \in Procs, OpenMarker(p) PROVE TypeInv'
  <2>1. CASE Ended(p)
    <3>1. LocalTypes' /\ contended' = contended
      BY <1>0, <2>1, EndedTypes DEF Ended
    <3>2. lock' \in [Inodes -> Procs \cup {Nobody}]
      BY <1>3, ReclaimFacts DEF Unlocked
    <3>. QED  BY <1>3, <3>1, <3>2, ReclaimFacts DEF LocalTypes
  <2>2. CASE ~Ended(p)
    BY <1>3, <2>2, ReclaimFacts DEF Goto, Stay, Unlocked, Phases
  <2>. QED  BY <2>1, <2>2
<1>4. ASSUME NEW p \in Procs, LockMarker(p) PROVE TypeInv'
  <2>1. CASE Ended(p)
    <3>1. LocalTypes' /\ contended' = contended
      BY <1>0, <2>1, EndedTypes DEF Ended
    <3>2. lock' \in [Inodes -> Procs \cup {Nobody}]
      BY <1>4, ReclaimFacts DEF Unlocked
    <3>. QED  BY <1>4, <3>1, <3>2, ReclaimFacts DEF LocalTypes
  <2>2. CASE ~Ended(p)
    BY <1>4, <2>2, ReclaimFacts DEF Goto, Stay, Unlocked, Phases
  <2>. QED  BY <2>1, <2>2
<1>5. ASSUME NEW p \in Procs, ReadMarker(p) PROVE TypeInv'
  <2>1. \E b \in BOOLEAN : found' = [found EXCEPT ![p].removable = b]
    <3>1. Magic(p) \in BOOLEAN
      BY DEF Magic
    <3>. QED  BY <1>5, <3>1, Zenon DEF ReadMarker
  <2>2. found' \in [Procs -> [removable : BOOLEAN, paths : SUBSET Owners, err : BOOLEAN]]
    <3>1. PICK b \in BOOLEAN : found' = [found EXCEPT ![p].removable = b]
      BY <2>1
    <3>2. ASSUME NEW q \in Procs
          PROVE  found'[q] \in [removable : BOOLEAN, paths : SUBSET Owners, err : BOOLEAN]
      <4>1. CASE q = p
        <5>1. found[p] \in [removable : BOOLEAN, paths : SUBSET Owners, err : BOOLEAN]
          OBVIOUS
        <5>2. found'[q] = [found[p] EXCEPT !.removable = b]
          BY <3>1, <4>1
        <5>. QED  BY <5>1, <5>2
      <4>2. CASE q # p
        BY <3>1, <4>2
      <4>. QED  BY <4>1, <4>2
    <3>. QED  BY <3>1, <3>2
  <2>. QED  BY <1>5, <2>2 DEF ReadMarker, Goto, Phases
<1>6. ASSUME NEW p \in Procs, ListEntries(p) PROVE TypeInv'
  BY <1>6 DEF ListEntries, Goto, Phases
<1>7. ASSUME NEW p \in Procs, UnlockMarker(p) PROVE TypeInv'
  <2>1. CASE Ended(p)
    <3>1. LocalTypes' /\ contended' = contended
      BY <1>0, <2>1, EndedTypes DEF Ended
    <3>2. lock' \in [Inodes -> Procs \cup {Nobody}]
      BY <1>7, ReclaimFacts DEF Unlocked
    <3>. QED  BY <1>7, <3>1, <3>2, ReclaimFacts DEF LocalTypes
  <2>2. CASE ~Ended(p)
    <3>1. /\ pc' = [pc EXCEPT ![p] = "remove"] /\ Stay /\ fd' = [fd EXCEPT ![p] = 0]
          /\ UNCHANGED <<dir, marker, content, stores, foreign>>
      BY <1>7, <2>2, ReclaimFacts DEF Goto
    <3>2. lock' \in [Inodes -> Procs \cup {Nobody}]
      BY <1>7, ReclaimFacts DEF Unlocked
    <3>. QED  BY <3>1, <3>2 DEF Stay, Phases
  <2>. QED  BY <2>1, <2>2
<1>8. ASSUME NEW p \in Procs, RemoveStore(p) PROVE TypeInv'
  <2>1. CASE \E s \in found[p].paths : /\ stores' = stores \ {s} /\ UNCHANGED pc
                                      /\ found' = [found EXCEPT ![p].paths = @ \ {s}]
    <3>1. PICK S \in SUBSET Owners : found' = [found EXCEPT ![p].paths = S]
      BY <2>1
    <3>2. found' \in [Procs -> [removable : BOOLEAN, paths : SUBSET Owners, err : BOOLEAN]]
      BY <3>1
    <3>. QED  BY <1>8, <2>1, <3>2 DEF RemoveStore
  <2>2. CASE UNCHANGED <<stores, found>> /\ Goto(p, "removeMarker")
    BY <1>8, <2>2 DEF RemoveStore, Goto, Phases
  <2>. QED  BY <1>8, <2>1, <2>2 DEF RemoveStore
<1>9. ASSUME NEW p \in Procs, RemoveMarker(p) PROVE TypeInv'
  BY <1>9 DEF RemoveMarker, Goto, Phases
<1>10. ASSUME NEW p \in Procs, RemoveDir(p) PROVE TypeInv'
  <2>1. LocalTypes' /\ contended' = contended
    BY <1>0, <1>10, EndedTypes, ReclaimFacts DEF Ended
  <2>2. lock' \in [Inodes -> Procs \cup {Nobody}]
    BY <1>10, ReclaimFacts DEF Unlocked
  <2>. QED  BY <1>10, <2>1, <2>2, ReclaimFacts DEF LocalTypes
<1>11. ASSUME NEW p \in Procs, ReclaimFails(p) PROVE TypeInv'
  <2>1. LocalTypes' /\ contended' = contended
    BY <1>0, <1>11, EndedTypes, ReclaimFacts DEF Ended
  <2>2. lock' \in [Inodes -> Procs \cup {Nobody}]
    BY <1>11, ReclaimFacts DEF Unlocked
  <2>. QED  BY <1>11, <2>1, <2>2, ReclaimFacts DEF LocalTypes
<1>12. ASSUME NEW p \in Procs, Crash(p) PROVE TypeInv'
  BY <1>12 DEF Crash, Unlocked, Return, Goto, Phases, Nothing
<1>13. ASSUME NEW p \in Procs, MkdirAll(p) PROVE TypeInv'
  BY <1>13 DEF MkdirAll, Goto, Phases
<1>14. ASSUME NEW p \in Procs, CreateMarker(p) PROVE TypeInv'
  <2>1. CASE Return(p, "idle") /\ UNCHANGED <<files, fd>>
    BY <1>14, <2>1, CreateFacts DEF Return, Goto, Phases
  <2>2. CASE Created(p)
    BY <1>14, <2>2, CreateFacts DEF Created, Goto, Phases
  <2>. QED  BY <1>14, <2>1, <2>2, CreateFacts
<1>15. ASSUME NEW p \in Procs, WriteMarker(p) PROVE TypeInv'
  BY <1>15 DEF WriteMarker, Goto, Phases
<1>16. ASSUME NEW p \in Procs, LockOwn(p) PROVE TypeInv'
  <2>1. racers' \in [Procs -> SUBSET Procs]
    BY <1>16 DEF LockOwn
  <2>2. lock' \in [Inodes -> Procs \cup {Nobody}]
    BY <1>16 DEF LockOwn
  <2>3. pc' \in [Procs -> Phases]
    <3>1. PICK x \in {"abort", "store"} : pc' = [pc EXCEPT ![p] = x]
      BY <1>16 DEF LockOwn, Goto
    <3>2. x \in Phases
      BY DEF Phases
    <3>. QED  BY <3>1, <3>2
  <2>4. UNCHANGED <<dir, marker, content, stores, foreign, fd, found, displaced, contended>>
    BY <1>16 DEF LockOwn
  <2>. QED  BY <2>1, <2>2, <2>3, <2>4
<1>17. ASSUME NEW p \in Procs, OpenFails(p) PROVE TypeInv'
  BY <1>17 DEF OpenFails, Goto, Phases
<1>18. ASSUME NEW p \in Procs, Abort(p) PROVE TypeInv'
  BY <1>18 DEF Abort, Goto, Phases
<1>19. ASSUME NEW p \in Procs, OpenStore(p) PROVE TypeInv'
  <2>1. \E x \in {"live", "closeUnlock"} : pc' = [pc EXCEPT ![p] = x]
    BY <1>19 DEF OpenStore, Return, Goto
  <2>2. pc' \in [Procs -> Phases]
    BY <2>1 DEF Phases
  <2>3. /\ racers' = racers \/ racers' = [q \in Procs |-> racers[q] \ {p}]
        /\ displaced' \subseteq displaced
        /\ dir' \in BOOLEAN /\ stores' \subseteq stores \cup {p}
        /\ UNCHANGED <<marker, content, lock, foreign, fd, found, contended>>
    BY <1>19 DEF OpenStore, Return
  <2>4. racers' \in [Procs -> SUBSET Procs]
    BY <2>3
  <2>. QED  BY <2>2, <2>3, <2>4 DEF Owners
<1>20. ASSUME NEW p \in Procs, Close(p) PROVE TypeInv'
  BY <1>20 DEF Close, Goto, Phases
<1>21. ASSUME NEW p \in Procs, CloseUnlock(p) PROVE TypeInv'
  BY <1>21 DEF CloseUnlock, Unlocked, Goto, Phases
<1>22. ASSUME NEW p \in Procs, CloseMarker(p) PROVE TypeInv'
  BY <1>22 DEF CloseMarker, Goto, Phases
<1>23. ASSUME NEW p \in Procs, CloseDir(p) PROVE TypeInv'
  BY <1>23 DEF CloseDir, Empty, Return, Goto, Phases
<1>24. CASE Age \/ UNCHANGED vars
  BY <1>24 DEF Age, vars
<1>. QED  BY <1>1, <1>2, <1>3, <1>4, <1>5, <1>6, <1>7, <1>8, <1>9, <1>10, <1>11, <1>12, <1>13, <1>14, <1>15, <1>16, <1>17, <1>18, <1>19, <1>20, <1>21, <1>22, <1>23, <1>24
          DEF Next, Reclaim, OpenMarkerFile, CloseSession, Procs

-----------------------------------------------------------------------------
\* Handles and locks

LEMMA HandleEnded ==
    ASSUME NEW p \in Procs, TypeInv, HandleInv, Ended(p), lock' = lock \/ lock' = Unlocked(p)
    PROVE  HandleInv'
<1>1. \A q \in Procs \ {p} : pc'[q] = pc[q] /\ fd'[q] = fd[q]
  BY EndedFacts
<1>2. pc'[p] \in {"lstat", "mkdir", "idle"}
  BY EndedFacts
<1>3. \A q \in Procs \ {p} : Holds(q) => lock'[fd[q]] = q
  BY InodeFacts DEF HandleInv, TypeInv, Unlocked, Holds
<1>. QED  BY <1>1, <1>2, <1>3 DEF HandleInv, Holds

LEMMA HandleStep == TypeInv /\ HandleInv /\ [Next]_vars => HandleInv'
<1>. SUFFICES ASSUME TypeInv, HandleInv, [Next]_vars PROVE HandleInv'
  OBVIOUS
<1>1. ASSUME NEW p \in Procs, Begin(p) PROVE HandleInv'
  BY <1>1, InodeFacts DEF Begin, Goto, HandleInv, TypeInv, Holds
<1>2. ASSUME NEW p \in Procs, Lstat(p) PROVE HandleInv'
  <2>1. CASE Ended(p)
    BY <1>2, <2>1, ReclaimFacts, HandleEnded
  <2>2. CASE ~Ended(p)
    BY <1>2, <2>2, ReclaimFacts, InodeFacts
       DEF Goto, Stay, Unlocked, HandleInv, TypeInv, Holds
  <2>. QED  BY <2>1, <2>2
<1>3. ASSUME NEW p \in Procs, OpenMarker(p) PROVE HandleInv'
  <2>1. CASE Ended(p)
    BY <1>3, <2>1, ReclaimFacts, HandleEnded
  <2>2. CASE ~Ended(p)
    BY <1>3, <2>2, ReclaimFacts, InodeFacts
       DEF Goto, Stay, Unlocked, HandleInv, TypeInv, Holds
  <2>. QED  BY <2>1, <2>2
<1>4. ASSUME NEW p \in Procs, LockMarker(p) PROVE HandleInv'
  <2>1. CASE Ended(p) /\ lock' = lock
    BY <1>4, <2>1, ReclaimFacts, HandleEnded
  <2>2. CASE ~(Ended(p) /\ lock' = lock)
    <3>1. /\ pc[p] = "lock" /\ pc' = [pc EXCEPT ![p] = "read"] /\ fd' = fd
          /\ lock[fd[p]] = Nobody /\ lock' = [lock EXCEPT ![fd[p]] = p]
      BY <1>4, <2>2, ReclaimFacts DEF Goto
    <3>2. \A q \in Procs : Holds(q) => lock'[fd[q]] = q
      BY <3>1, InodeFacts DEF HandleInv, TypeInv, Holds
    <3>. QED  BY <3>1, <3>2 DEF HandleInv, TypeInv, Holds
  <2>. QED  BY <2>1, <2>2
<1>5. ASSUME NEW p \in Procs, ReadMarker(p) PROVE HandleInv'
  BY <1>5, InodeFacts DEF ReadMarker, Goto, HandleInv, TypeInv, Holds
<1>6. ASSUME NEW p \in Procs, ListEntries(p) PROVE HandleInv'
  BY <1>6, InodeFacts DEF ListEntries, Goto, HandleInv, TypeInv, Holds
<1>7. ASSUME NEW p \in Procs, UnlockMarker(p) PROVE HandleInv'
  <2>1. CASE Ended(p)
    BY <1>7, <2>1, ReclaimFacts, HandleEnded
  <2>2. CASE ~Ended(p)
    BY <1>7, <2>2, ReclaimFacts, InodeFacts
       DEF Goto, Stay, Unlocked, HandleInv, TypeInv, Holds
  <2>. QED  BY <2>1, <2>2
<1>8. ASSUME NEW p \in Procs, RemoveStore(p) PROVE HandleInv'
  BY <1>8, InodeFacts DEF RemoveStore, Goto, HandleInv, TypeInv, Holds
<1>9. ASSUME NEW p \in Procs, RemoveMarker(p) PROVE HandleInv'
  BY <1>9, InodeFacts DEF RemoveMarker, Goto, HandleInv, TypeInv, Holds
<1>10. ASSUME NEW p \in Procs, RemoveDir(p) PROVE HandleInv'
  BY <1>10, ReclaimFacts, HandleEnded
<1>11. ASSUME NEW p \in Procs, ReclaimFails(p) PROVE HandleInv'
  BY <1>11, ReclaimFacts, HandleEnded
<1>12. ASSUME NEW p \in Procs, Crash(p) PROVE HandleInv'
  BY <1>12, InodeFacts DEF Crash, Unlocked, Return, Goto, HandleInv, TypeInv, Holds
<1>13. ASSUME NEW p \in Procs, MkdirAll(p) PROVE HandleInv'
  BY <1>13, InodeFacts DEF MkdirAll, Goto, HandleInv, TypeInv, Holds
<1>14. ASSUME NEW p \in Procs, CreateMarker(p) PROVE HandleInv'
  <2>1. CASE Return(p, "idle") /\ UNCHANGED <<files, fd>>
    BY <1>14, <2>1, CreateFacts, InodeFacts DEF Return, Goto, HandleInv, TypeInv, Holds
  <2>2. CASE Created(p)
    BY <1>14, <2>2, CreateFacts, InodeFacts DEF Created, Goto, HandleInv, TypeInv, Holds
  <2>. QED  BY <1>14, <2>1, <2>2, CreateFacts
<1>15. ASSUME NEW p \in Procs, WriteMarker(p) PROVE HandleInv'
  BY <1>15, InodeFacts DEF WriteMarker, Goto, HandleInv, TypeInv, Holds
<1>16. ASSUME NEW p \in Procs, LockOwn(p) PROVE HandleInv'
  BY <1>16, InodeFacts DEF LockOwn, Goto, HandleInv, TypeInv, Holds
<1>17. ASSUME NEW p \in Procs, OpenFails(p) PROVE HandleInv'
  BY <1>17, InodeFacts DEF OpenFails, Goto, HandleInv, TypeInv, Holds
<1>18. ASSUME NEW p \in Procs, Abort(p) PROVE HandleInv'
  BY <1>18, InodeFacts DEF Abort, Goto, HandleInv, TypeInv, Holds
<1>19. ASSUME NEW p \in Procs, OpenStore(p) PROVE HandleInv'
  BY <1>19, InodeFacts DEF OpenStore, Return, Goto, HandleInv, TypeInv, Holds
<1>20. ASSUME NEW p \in Procs, Close(p) PROVE HandleInv'
  BY <1>20, InodeFacts DEF Close, Goto, HandleInv, TypeInv, Holds
<1>21. ASSUME NEW p \in Procs, CloseUnlock(p) PROVE HandleInv'
  BY <1>21, InodeFacts DEF CloseUnlock, Unlocked, Goto, HandleInv, TypeInv, Holds
<1>22. ASSUME NEW p \in Procs, CloseMarker(p) PROVE HandleInv'
  BY <1>22, InodeFacts DEF CloseMarker, Goto, HandleInv, TypeInv, Holds
<1>23. ASSUME NEW p \in Procs, CloseDir(p) PROVE HandleInv'
  BY <1>23, InodeFacts DEF CloseDir, Return, Goto, HandleInv, TypeInv, Holds
<1>24. CASE Age \/ UNCHANGED vars
  BY <1>24 DEF Age, vars, HandleInv, TypeInv, Holds
<1>. QED  BY <1>1, <1>2, <1>3, <1>4, <1>5, <1>6, <1>7, <1>8, <1>9, <1>10, <1>11, <1>12,
             <1>13, <1>14, <1>15, <1>16, <1>17, <1>18, <1>19, <1>20, <1>21, <1>22, <1>23, <1>24
          DEF Next, Reclaim, OpenMarkerFile, CloseSession, Procs

LEMMA ForeignStep == TypeInv /\ ForeignInv /\ [Next]_vars => ForeignInv'
<1>. SUFFICES ASSUME TypeInv, ForeignInv, [Next]_vars PROVE ForeignInv'
  OBVIOUS
<1>1. ASSUME NEW p \in Procs, Begin(p) PROVE ForeignInv'
  BY <1>1 DEF Begin, Goto, ForeignInv
<1>2. ASSUME NEW p \in Procs, Lstat(p) PROVE ForeignInv'
  <2>1. CASE Ended(p)
    BY <1>2, <2>1, ReclaimFacts, EndedFacts DEF Unlocked, ForeignInv
  <2>2. CASE ~Ended(p)
    BY <1>2, <2>2, ReclaimFacts DEF Goto, Stay, Unlocked, ForeignInv
  <2>. QED  BY <2>1, <2>2
<1>3. ASSUME NEW p \in Procs, OpenMarker(p) PROVE ForeignInv'
  <2>1. CASE Ended(p)
    BY <1>3, <2>1, ReclaimFacts, EndedFacts DEF Unlocked, ForeignInv
  <2>2. CASE ~Ended(p)
    BY <1>3, <2>2, ReclaimFacts DEF Goto, Stay, Unlocked, ForeignInv
  <2>. QED  BY <2>1, <2>2
<1>4. ASSUME NEW p \in Procs, LockMarker(p) PROVE ForeignInv'
  <2>1. CASE Ended(p)
    BY <1>4, <2>1, ReclaimFacts, EndedFacts DEF Unlocked, ForeignInv
  <2>2. CASE ~Ended(p)
    BY <1>4, <2>2, ReclaimFacts DEF Goto, Stay, Unlocked, ForeignInv
  <2>. QED  BY <2>1, <2>2
<1>5. ASSUME NEW p \in Procs, ReadMarker(p) PROVE ForeignInv'
  BY <1>5 DEF ReadMarker, Goto, ForeignInv
<1>6. ASSUME NEW p \in Procs, ListEntries(p) PROVE ForeignInv'
  BY <1>6 DEF ListEntries, Goto, ForeignInv
<1>7. ASSUME NEW p \in Procs, UnlockMarker(p) PROVE ForeignInv'
  <2>1. CASE Ended(p)
    BY <1>7, <2>1, ReclaimFacts, EndedFacts DEF Unlocked, ForeignInv
  <2>2. CASE ~Ended(p)
    BY <1>7, <2>2, ReclaimFacts DEF Goto, Stay, Unlocked, ForeignInv
  <2>. QED  BY <2>1, <2>2
<1>8. ASSUME NEW p \in Procs, RemoveStore(p) PROVE ForeignInv'
  BY <1>8 DEF RemoveStore, Goto, ForeignInv
<1>9. ASSUME NEW p \in Procs, RemoveMarker(p) PROVE ForeignInv'
  BY <1>9 DEF RemoveMarker, Goto, ForeignInv
<1>10. ASSUME NEW p \in Procs, RemoveDir(p) PROVE ForeignInv'
  BY <1>10, ReclaimFacts, EndedFacts DEF Unlocked, ForeignInv, Empty
<1>11. ASSUME NEW p \in Procs, ReclaimFails(p) PROVE ForeignInv'
  BY <1>11, ReclaimFacts, EndedFacts DEF Unlocked, ForeignInv
<1>12. ASSUME NEW p \in Procs, Crash(p) PROVE ForeignInv'
  BY <1>12 DEF Crash, Unlocked, Return, Goto, ForeignInv
<1>13. ASSUME NEW p \in Procs, MkdirAll(p) PROVE ForeignInv'
  BY <1>13 DEF MkdirAll, Goto, ForeignInv
<1>14. ASSUME NEW p \in Procs, CreateMarker(p) PROVE ForeignInv'
  <2>1. CASE Return(p, "idle") /\ UNCHANGED <<files, fd>>
    BY <1>14, <2>1, CreateFacts DEF Return, Goto, ForeignInv
  <2>2. CASE Created(p)
    BY <1>14, <2>2, CreateFacts DEF Created, Goto, ForeignInv
  <2>. QED  BY <1>14, <2>1, <2>2, CreateFacts
<1>15. ASSUME NEW p \in Procs, WriteMarker(p) PROVE ForeignInv'
  BY <1>15 DEF WriteMarker, Goto, ForeignInv
<1>16. ASSUME NEW p \in Procs, LockOwn(p) PROVE ForeignInv'
  BY <1>16 DEF LockOwn, Goto, ForeignInv
<1>17. ASSUME NEW p \in Procs, OpenFails(p) PROVE ForeignInv'
  BY <1>17 DEF OpenFails, Goto, ForeignInv
<1>18. ASSUME NEW p \in Procs, Abort(p) PROVE ForeignInv'
  BY <1>18 DEF Abort, Goto, ForeignInv
<1>19. ASSUME NEW p \in Procs, OpenStore(p) PROVE ForeignInv'
  BY <1>19 DEF OpenStore, Return, Goto, ForeignInv
<1>20. ASSUME NEW p \in Procs, Close(p) PROVE ForeignInv'
  BY <1>20 DEF Close, Goto, ForeignInv
<1>21. ASSUME NEW p \in Procs, CloseUnlock(p) PROVE ForeignInv'
  BY <1>21 DEF CloseUnlock, Unlocked, Goto, ForeignInv
<1>22. ASSUME NEW p \in Procs, CloseMarker(p) PROVE ForeignInv'
  BY <1>22 DEF CloseMarker, Goto, ForeignInv
<1>23. ASSUME NEW p \in Procs, CloseDir(p) PROVE ForeignInv'
  BY <1>23 DEF CloseDir, Return, Goto, ForeignInv, Empty
<1>24. CASE Age \/ UNCHANGED vars
  BY <1>24 DEF Age, vars, ForeignInv
<1>. QED  BY <1>1, <1>2, <1>3, <1>4, <1>5, <1>6, <1>7, <1>8, <1>9, <1>10, <1>11, <1>12,
             <1>13, <1>14, <1>15, <1>16, <1>17, <1>18, <1>19, <1>20, <1>21, <1>22, <1>23, <1>24
          DEF Next, Reclaim, OpenMarkerFile, CloseSession, Procs

LEMMA MalformedEnded ==
    ASSUME NEW p \in Procs, TypeInv, MalformedInv, Ended(p),
           UNCHANGED <<marker, content, dir, stores>>
    PROVE  MalformedInv'
BY EndedFacts DEF MalformedInv, Harmless

LEMMA MalformedStep == TypeInv /\ HandleInv /\ MalformedInv /\ [Next]_vars => MalformedInv'
<1>. SUFFICES ASSUME TypeInv, HandleInv, MalformedInv, [Next]_vars PROVE MalformedInv'
  OBVIOUS
<1>1. ASSUME NEW p \in Procs, Begin(p) PROVE MalformedInv'
  BY <1>1, InodeFacts DEF Begin, Goto, MalformedInv, TypeInv, Harmless
<1>2. ASSUME NEW p \in Procs, Lstat(p) PROVE MalformedInv'
  <2>1. CASE Ended(p)
    BY <1>2, <2>1, ReclaimFacts, MalformedEnded
  <2>2. CASE ~Ended(p)
    BY <1>2, <2>2, ReclaimFacts, InodeFacts DEF Goto, Stay, MalformedInv, TypeInv, Harmless
  <2>. QED  BY <2>1, <2>2
<1>3. ASSUME NEW p \in Procs, OpenMarker(p) PROVE MalformedInv'
  <2>1. CASE Ended(p)
    BY <1>3, <2>1, ReclaimFacts, MalformedEnded
  <2>2. CASE ~Ended(p)
    BY <1>3, <2>2, ReclaimFacts, InodeFacts DEF Goto, Stay, MalformedInv, TypeInv, Harmless
  <2>. QED  BY <2>1, <2>2
<1>4. ASSUME NEW p \in Procs, LockMarker(p) PROVE MalformedInv'
  <2>1. CASE Ended(p)
    BY <1>4, <2>1, ReclaimFacts, MalformedEnded
  <2>2. CASE ~Ended(p)
    BY <1>4, <2>2, ReclaimFacts, InodeFacts DEF Goto, Stay, MalformedInv, TypeInv, Harmless
  <2>. QED  BY <2>1, <2>2
<1>5. ASSUME NEW p \in Procs, ReadMarker(p) PROVE MalformedInv'
  BY <1>5, InodeFacts DEF ReadMarker, Goto, MalformedInv, TypeInv, Harmless, HandleInv, Magic
<1>6. ASSUME NEW p \in Procs, ListEntries(p) PROVE MalformedInv'
  BY <1>6, InodeFacts DEF ListEntries, Goto, MalformedInv, TypeInv, Harmless
<1>7. ASSUME NEW p \in Procs, UnlockMarker(p) PROVE MalformedInv'
  <2>1. CASE Ended(p)
    BY <1>7, <2>1, ReclaimFacts, MalformedEnded
  <2>2. CASE ~Ended(p)
    BY <1>7, <2>2, ReclaimFacts, InodeFacts DEF Goto, Stay, MalformedInv, TypeInv, Harmless
  <2>. QED  BY <2>1, <2>2
<1>8. ASSUME NEW p \in Procs, RemoveStore(p) PROVE MalformedInv'
  BY <1>8, InodeFacts DEF RemoveStore, Goto, MalformedInv, TypeInv, Harmless
<1>9. ASSUME NEW p \in Procs, RemoveMarker(p) PROVE MalformedInv'
  BY <1>9, InodeFacts DEF RemoveMarker, Goto, MalformedInv, TypeInv, Harmless
<1>10. ASSUME NEW p \in Procs, RemoveDir(p) PROVE MalformedInv'
  BY <1>10, ReclaimFacts, EndedFacts, InodeFacts DEF Unlocked, MalformedInv, TypeInv, Harmless, Nothing
<1>11. ASSUME NEW p \in Procs, ReclaimFails(p) PROVE MalformedInv'
  BY <1>11, ReclaimFacts, MalformedEnded
<1>12. ASSUME NEW p \in Procs, Crash(p) PROVE MalformedInv'
  BY <1>12, InodeFacts DEF Crash, Unlocked, Return, Goto, MalformedInv, TypeInv, Harmless, Nothing
<1>13. ASSUME NEW p \in Procs, MkdirAll(p) PROVE MalformedInv'
  BY <1>13, InodeFacts DEF MkdirAll, Goto, MalformedInv, TypeInv, Harmless
<1>14. ASSUME NEW p \in Procs, CreateMarker(p) PROVE MalformedInv'
  <2>1. CASE Return(p, "idle") /\ UNCHANGED <<files, fd>>
    BY <1>14, <2>1, CreateFacts, InodeFacts DEF Return, Goto, MalformedInv, TypeInv, Harmless
  <2>2. CASE Created(p)
    BY <1>14, <2>2, CreateFacts, InodeFacts DEF Created, Goto, MalformedInv, TypeInv, Harmless
  <2>. QED  BY <1>14, <2>1, <2>2, CreateFacts
<1>15. ASSUME NEW p \in Procs, WriteMarker(p) PROVE MalformedInv'
  BY <1>15, InodeFacts DEF WriteMarker, Goto, MalformedInv, TypeInv, Harmless
<1>16. ASSUME NEW p \in Procs, LockOwn(p) PROVE MalformedInv'
  BY <1>16, InodeFacts DEF LockOwn, Goto, MalformedInv, TypeInv, Harmless
<1>17. ASSUME NEW p \in Procs, OpenFails(p) PROVE MalformedInv'
  BY <1>17, InodeFacts DEF OpenFails, Goto, MalformedInv, TypeInv, Harmless
<1>18. ASSUME NEW p \in Procs, Abort(p) PROVE MalformedInv'
  BY <1>18, InodeFacts DEF Abort, Goto, MalformedInv, TypeInv, Harmless
<1>19. ASSUME NEW p \in Procs, OpenStore(p) PROVE MalformedInv'
  BY <1>19, InodeFacts DEF OpenStore, Return, Goto, MalformedInv, TypeInv, Harmless
<1>20. ASSUME NEW p \in Procs, Close(p) PROVE MalformedInv'
  BY <1>20, InodeFacts DEF Close, Goto, MalformedInv, TypeInv, Harmless
<1>21. ASSUME NEW p \in Procs, CloseUnlock(p) PROVE MalformedInv'
  BY <1>21, InodeFacts DEF CloseUnlock, Unlocked, Goto, MalformedInv, TypeInv, Harmless
<1>22. ASSUME NEW p \in Procs, CloseMarker(p) PROVE MalformedInv'
  BY <1>22, InodeFacts DEF CloseMarker, Goto, MalformedInv, TypeInv, Harmless
<1>23. ASSUME NEW p \in Procs, CloseDir(p) PROVE MalformedInv'
  BY <1>23, InodeFacts DEF CloseDir, Return, Goto, MalformedInv, TypeInv, Harmless
<1>24. CASE Age \/ UNCHANGED vars
  BY <1>24 DEF Age, vars, MalformedInv, TypeInv, Harmless
<1>. QED  BY <1>1, <1>2, <1>3, <1>4, <1>5, <1>6, <1>7, <1>8, <1>9, <1>10, <1>11, <1>12,
             <1>13, <1>14, <1>15, <1>16, <1>17, <1>18, <1>19, <1>20, <1>21, <1>22, <1>23, <1>24
          DEF Next, Reclaim, OpenMarkerFile, CloseSession, Procs

LEMMA RacersEnded ==
    ASSUME NEW p \in Procs, TypeInv, RacersInv, Ended(p), marker' = marker
    PROVE  RacersInv'
<1>. SUFFICES ASSUME NEW s \in Sessions, Holds(s)', marker' = fd'[s], NEW q \in Procs \ {s}
              PROVE  q \in racers'[s] \/ Kept(q)'
  BY DEF RacersInv
<1>1. s # p /\ Holds(s) /\ marker = fd[s] /\ s \in Procs
  BY EndedFacts DEF Holds, Procs
<1>2. CASE q = p
  BY <1>2, EndedFacts DEF Kept, Harmless
<1>3. CASE q # p
  BY <1>1, <1>3, EndedFacts DEF RacersInv, Kept
<1>. QED  BY <1>2, <1>3

LEMMA RacersStep == TypeInv /\ HandleInv /\ RacersInv /\ [Next]_vars => RacersInv'
<1>. SUFFICES ASSUME TypeInv, HandleInv, RacersInv, [Next]_vars PROVE RacersInv'
  OBVIOUS
<1>1. ASSUME NEW p \in Procs, Begin(p) PROVE RacersInv'
  BY <1>1, InodeFacts DEF Begin, Goto, RacersInv, Kept, HandleInv, TypeInv, Harmless, Holds, Procs
<1>2. ASSUME NEW p \in Procs, Lstat(p) PROVE RacersInv'
  <2>1. CASE Ended(p)
    BY <1>2, <2>1, ReclaimFacts, RacersEnded
  <2>2. CASE ~Ended(p)
    BY <1>2, <2>2, ReclaimFacts, InodeFacts
       DEF Goto, Stay, RacersInv, Kept, HandleInv, TypeInv, Harmless, Holds, Procs
  <2>. QED  BY <2>1, <2>2
<1>3. ASSUME NEW p \in Procs, OpenMarker(p) PROVE RacersInv'
  <2>1. CASE Ended(p)
    BY <1>3, <2>1, ReclaimFacts, RacersEnded
  <2>2. CASE ~Ended(p)
    BY <1>3, <2>2, ReclaimFacts, InodeFacts
       DEF Goto, Stay, RacersInv, Kept, HandleInv, TypeInv, Harmless, Holds, Procs
  <2>. QED  BY <2>1, <2>2
<1>4. ASSUME NEW p \in Procs, LockMarker(p) PROVE RacersInv'
  <2>1. CASE Ended(p)
    BY <1>4, <2>1, ReclaimFacts, RacersEnded
  <2>2. CASE ~Ended(p)
    BY <1>4, <2>2, ReclaimFacts, InodeFacts
       DEF Goto, Stay, RacersInv, Kept, HandleInv, TypeInv, Harmless, Holds, Procs
  <2>. QED  BY <2>1, <2>2
<1>5. ASSUME NEW p \in Procs, ReadMarker(p) PROVE RacersInv'
  BY <1>5, InodeFacts DEF ReadMarker, Goto, RacersInv, Kept, HandleInv, TypeInv, Harmless, Holds, Procs
<1>6. ASSUME NEW p \in Procs, ListEntries(p) PROVE RacersInv'
  BY <1>6, InodeFacts DEF ListEntries, Goto, RacersInv, Kept, HandleInv, TypeInv, Harmless, Holds, Procs
<1>7. ASSUME NEW p \in Procs, UnlockMarker(p) PROVE RacersInv'
  <2>1. CASE Ended(p)
    BY <1>7, <2>1, ReclaimFacts, RacersEnded
  <2>2. CASE ~Ended(p)
    BY <1>7, <2>2, ReclaimFacts, InodeFacts
       DEF Goto, Stay, RacersInv, Kept, HandleInv, TypeInv, Harmless, Holds, Procs
  <2>. QED  BY <2>1, <2>2
<1>8. ASSUME NEW p \in Procs, RemoveStore(p) PROVE RacersInv'
  BY <1>8, InodeFacts DEF RemoveStore, Goto, RacersInv, Kept, HandleInv, TypeInv, Harmless, Holds, Procs
<1>9. ASSUME NEW p \in Procs, RemoveMarker(p) PROVE RacersInv'
  BY <1>9, InodeFacts DEF RemoveMarker, Goto, RacersInv, Kept, HandleInv, TypeInv, Harmless, Holds, Procs
<1>10. ASSUME NEW p \in Procs, RemoveDir(p) PROVE RacersInv'
  BY <1>10, ReclaimFacts, RacersEnded
<1>11. ASSUME NEW p \in Procs, ReclaimFails(p) PROVE RacersInv'
  BY <1>11, ReclaimFacts, RacersEnded
<1>12. ASSUME NEW p \in Procs, Crash(p) PROVE RacersInv'
  BY <1>12, InodeFacts DEF Crash, Unlocked, Return, Goto, RacersInv, Kept, HandleInv, TypeInv, Harmless, Holds, Procs
<1>13. ASSUME NEW p \in Procs, MkdirAll(p) PROVE RacersInv'
  BY <1>13, InodeFacts DEF MkdirAll, Goto, RacersInv, Kept, HandleInv, TypeInv, Harmless, Holds, Procs
<1>14. ASSUME NEW p \in Procs, CreateMarker(p) PROVE RacersInv'
  <2>1. CASE Return(p, "idle") /\ UNCHANGED <<files, fd>>
    BY <1>14, <2>1, CreateFacts, InodeFacts DEF Return, Goto, RacersInv, Kept, HandleInv, TypeInv, Harmless, Holds, Procs
  <2>2. CASE Created(p)
    BY <1>14, <2>2, CreateFacts, InodeFacts DEF Created, Goto, RacersInv, Kept, HandleInv, TypeInv, Harmless, Holds, Procs
  <2>. QED  BY <1>14, <2>1, <2>2, CreateFacts
<1>15. ASSUME NEW p \in Procs, WriteMarker(p) PROVE RacersInv'
  BY <1>15, InodeFacts DEF WriteMarker, Goto, RacersInv, Kept, HandleInv, TypeInv, Harmless, Holds, Procs
<1>16. ASSUME NEW p \in Procs, LockOwn(p) PROVE RacersInv'
  BY <1>16, InodeFacts DEF LockOwn, AtWork, Phases, Goto, RacersInv, Kept, HandleInv, TypeInv, Harmless, Holds, Procs
<1>17. ASSUME NEW p \in Procs, OpenFails(p) PROVE RacersInv'
  BY <1>17, InodeFacts DEF OpenFails, Goto, RacersInv, Kept, HandleInv, TypeInv, Harmless, Holds, Procs
<1>18. ASSUME NEW p \in Procs, Abort(p) PROVE RacersInv'
  BY <1>18, InodeFacts DEF Abort, Goto, RacersInv, Kept, HandleInv, TypeInv, Harmless, Holds, Procs
<1>19. ASSUME NEW p \in Procs, OpenStore(p) PROVE RacersInv'
  BY <1>19, InodeFacts DEF OpenStore, Return, Goto, RacersInv, Kept, HandleInv, TypeInv, Harmless, Holds, Procs
<1>20. ASSUME NEW p \in Procs, Close(p) PROVE RacersInv'
  BY <1>20, InodeFacts DEF Close, Goto, RacersInv, Kept, HandleInv, TypeInv, Harmless, Holds, Procs
<1>21. ASSUME NEW p \in Procs, CloseUnlock(p) PROVE RacersInv'
  BY <1>21, InodeFacts DEF CloseUnlock, Unlocked, Goto, RacersInv, Kept, HandleInv, TypeInv, Harmless, Holds, Procs
<1>22. ASSUME NEW p \in Procs, CloseMarker(p) PROVE RacersInv'
  BY <1>22, InodeFacts DEF CloseMarker, Goto, RacersInv, Kept, HandleInv, TypeInv, Harmless, Holds, Procs
<1>23. ASSUME NEW p \in Procs, CloseDir(p) PROVE RacersInv'
  BY <1>23, InodeFacts DEF CloseDir, Return, Goto, RacersInv, Kept, HandleInv, TypeInv, Harmless, Holds, Procs
<1>24. CASE Age \/ UNCHANGED vars
  BY <1>24 DEF Age, vars, RacersInv, Kept, HandleInv, TypeInv, Harmless, Holds, Procs
<1>. QED  BY <1>1, <1>2, <1>3, <1>4, <1>5, <1>6, <1>7, <1>8, <1>9, <1>10, <1>11, <1>12,
             <1>13, <1>14, <1>15, <1>16, <1>17, <1>18, <1>19, <1>20, <1>21, <1>22, <1>23, <1>24
          DEF Next, Reclaim, OpenMarkerFile, CloseSession, Procs

LEMMA AloneEnded ==
    ASSUME NEW p \in Procs, TypeInv, AloneInv, Ended(p), AtWork(p), marker' = marker
    PROVE  AloneInv'
<1>1. /\ pc'[p] \in {"lstat", "mkdir", "idle"} /\ contended' = contended
      /\ \A q \in Procs \ {p} : pc'[q] = pc[q] /\ fd'[q] = fd[q]
  BY EndedFacts
<1>. QED  BY <1>1 DEF AloneInv, AtWork, Holds, Harmless

\* A step of p, where no other process is at work and p has its new marker.
LEMMA AloneMove ==
    ASSUME NEW p \in Procs, AloneInv,
           \A q \in Procs \ {p} : pc'[q] = pc[q] /\ fd'[q] = fd[q],
           ~contended' => /\ ~contended
                          /\ \A q \in Procs \ {p} : ~AtWork(q)
                          /\ \/ pc'[p] \notin {"lock", "write", "lockOwn", "store", "live"}
                             \/ fd'[p] = marker'
                          /\ \/ \A q \in Procs \ {p} : ~Holds(q)
                             \/ marker' = marker /\ pc'[p] \in Harmless
    PROVE  AloneInv'
<1>. SUFFICES ASSUME ~contended' PROVE AloneInv'
  BY DEF AloneInv
<1>1. \A q \in Procs \ {p} : ~AtWork(q)' /\ (Holds(q)' <=> Holds(q))
  BY DEF AtWork, Holds
<1>2. \A q \in Procs \ {p} : pc[q] \in {"idle", "dead", "live"}
  BY DEF AtWork
<1>3. \A q \in Procs : pc'[q] \in {"lock", "write", "lockOwn", "store", "live"}
                         => fd'[q] = marker'
  BY <1>2 DEF AloneInv, Holds
<1>4. \A r, q \in Procs : Holds(r)' /\ q # r => pc'[q] \in Harmless \cup {"live"}
  BY <1>1, <1>2 DEF Harmless
<1>5. \A r, q \in Procs : AtWork(r)' /\ AtWork(q)' => r = q
  BY <1>1
<1>. QED  BY <1>3, <1>4, <1>5 DEF AloneInv

\* A process past the lock of the marker is the only one that uses it.
LEMMA AloneInside ==
    ASSUME NEW p \in Procs, AloneInv, AtWork(p)
    PROVE  ~contended => /\ \A q \in Procs \ {p} : ~AtWork(q)
                         /\ pc[p] \notin Harmless => \A q \in Procs \ {p} : ~Holds(q)
BY DEF AloneInv, AtWork

LEMMA AloneStep == TypeInv /\ HandleInv /\ AloneInv /\ StoreInv /\ [Next]_vars => AloneInv'
<1>. SUFFICES ASSUME TypeInv, HandleInv, AloneInv, StoreInv, [Next]_vars PROVE AloneInv'
  OBVIOUS
<1>1. ASSUME NEW p \in Procs, Begin(p) PROVE AloneInv'
  <2>1. /\ pc' = [pc EXCEPT ![p] = "lstat"] /\ UNCHANGED <<marker, fd>>
        /\ ~contended' => ~contended /\ \A q \in Procs \ {p} : ~AtWork(q)
    BY <1>1 DEF Begin, Goto
  <2>. QED  BY <2>1, AloneMove DEF TypeInv, Harmless
<1>2. ASSUME NEW p \in Procs, Lstat(p) PROVE AloneInv'
  <2>0. AtWork(p) /\ marker' = marker
    BY <1>2, ReclaimFacts DEF AtWork
  <2>1. CASE Ended(p)
    BY <2>0, <2>1, AloneEnded
  <2>2. CASE ~Ended(p)
    <3>1. /\ \A q \in Procs \ {p} : pc'[q] = pc[q] /\ fd'[q] = fd[q]
          /\ contended' = contended
      BY <1>2, <2>2, ReclaimFacts DEF TypeInv, Goto, Stay
    <3>2. pc'[p] = "open"
      BY <1>2, <2>2, ReclaimFacts DEF TypeInv, Goto
    <3>. QED  BY <2>0, <3>1, <3>2, AloneMove, AloneInside DEF Harmless
  <2>. QED  BY <2>1, <2>2
<1>3. ASSUME NEW p \in Procs, OpenMarker(p) PROVE AloneInv'
  <2>0. AtWork(p) /\ marker' = marker
    BY <1>3, ReclaimFacts DEF AtWork
  <2>1. CASE Ended(p)
    BY <2>0, <2>1, AloneEnded
  <2>2. CASE ~Ended(p)
    <3>1. /\ \A q \in Procs \ {p} : pc'[q] = pc[q] /\ fd'[q] = fd[q]
          /\ contended' = contended
      BY <1>3, <2>2, ReclaimFacts DEF TypeInv, Goto, Stay
    <3>2. pc'[p] = "lock" /\ fd'[p] = marker
      BY <1>3, <2>2, ReclaimFacts DEF TypeInv, Goto
    <3>. QED  BY <2>0, <3>1, <3>2, AloneMove, AloneInside DEF Harmless
  <2>. QED  BY <2>1, <2>2
<1>4. ASSUME NEW p \in Procs, LockMarker(p) PROVE AloneInv'
  <2>0. AtWork(p) /\ marker' = marker
    BY <1>4, ReclaimFacts DEF AtWork
  <2>1. CASE Ended(p)
    BY <2>0, <2>1, AloneEnded
  <2>2. CASE ~Ended(p)
    <3>1. /\ \A q \in Procs \ {p} : pc'[q] = pc[q] /\ fd'[q] = fd[q]
          /\ contended' = contended
      BY <1>4, <2>2, ReclaimFacts DEF TypeInv, Goto, Stay
    <3>2. pc[p] = "lock" /\ pc'[p] = "read" /\ lock[fd[p]] = Nobody
      BY <1>4, <2>2, ReclaimFacts DEF TypeInv, Goto
    <3>3. ~contended => \A q \in Procs : ~Holds(q)
      BY <3>2, InodeFacts DEF AloneInv, HandleInv, Holds
    <3>. QED  BY <2>0, <3>1, <3>2, <3>3, AloneMove, AloneInside
  <2>. QED  BY <2>1, <2>2
<1>5. ASSUME NEW p \in Procs, ReadMarker(p) PROVE AloneInv'
  <2>0. AtWork(p)
    BY <1>5 DEF AtWork, ReadMarker, Goto
  <2>1. \A q \in Procs \ {p} : pc'[q] = pc[q] /\ fd'[q] = fd[q]
    BY <1>5 DEF TypeInv, ReadMarker, Goto
  <2>. QED  BY <1>5, <2>0, <2>1, AloneMove, AloneInside DEF TypeInv, Harmless, ReadMarker, Goto
<1>6. ASSUME NEW p \in Procs, ListEntries(p) PROVE AloneInv'
  <2>0. AtWork(p)
    BY <1>6 DEF AtWork, ListEntries, Goto
  <2>1. \A q \in Procs \ {p} : pc'[q] = pc[q] /\ fd'[q] = fd[q]
    BY <1>6 DEF TypeInv, ListEntries, Goto
  <2>. QED  BY <1>6, <2>0, <2>1, AloneMove, AloneInside DEF TypeInv, Harmless, ListEntries, Goto
<1>7. ASSUME NEW p \in Procs, UnlockMarker(p) PROVE AloneInv'
  <2>0. AtWork(p) /\ marker' = marker
    BY <1>7, ReclaimFacts DEF AtWork
  <2>1. CASE Ended(p)
    BY <2>0, <2>1, AloneEnded
  <2>2. CASE ~Ended(p)
    <3>1. /\ \A q \in Procs \ {p} : pc'[q] = pc[q] /\ fd'[q] = fd[q]
          /\ contended' = contended
      BY <1>7, <2>2, ReclaimFacts DEF TypeInv, Goto, Stay
    <3>2. pc[p] = "unlock" /\ pc'[p] = "remove"
      BY <1>7, <2>2, ReclaimFacts DEF TypeInv, Goto
    <3>. QED  BY <2>0, <3>1, <3>2, AloneMove, AloneInside DEF Harmless
  <2>. QED  BY <2>1, <2>2
<1>8. ASSUME NEW p \in Procs, RemoveStore(p) PROVE AloneInv'
  <2>0. AtWork(p)
    BY <1>8 DEF AtWork, RemoveStore, Goto
  <2>1. \A q \in Procs \ {p} : pc'[q] = pc[q] /\ fd'[q] = fd[q]
    BY <1>8 DEF TypeInv, RemoveStore, Goto
  <2>. QED  BY <1>8, <2>0, <2>1, AloneMove, AloneInside DEF TypeInv, Harmless, RemoveStore, Goto
<1>9. ASSUME NEW p \in Procs, RemoveMarker(p) PROVE AloneInv'
  <2>0. AtWork(p)
    BY <1>9 DEF AtWork, RemoveMarker, Goto
  <2>1. \A q \in Procs \ {p} : pc'[q] = pc[q] /\ fd'[q] = fd[q]
    BY <1>9 DEF TypeInv, RemoveMarker, Goto
  <2>. QED  BY <1>9, <2>0, <2>1, AloneMove, AloneInside DEF TypeInv, Harmless, RemoveMarker, Goto
<1>10. ASSUME NEW p \in Procs, RemoveDir(p) PROVE AloneInv'
  <2>0. AtWork(p) /\ marker' = marker /\ Ended(p)
    BY <1>10, ReclaimFacts DEF AtWork
  <2>. QED  BY <2>0, AloneEnded
<1>11. ASSUME NEW p \in Procs, ReclaimFails(p) PROVE AloneInv'
  <2>0. AtWork(p) /\ marker' = marker /\ Ended(p)
    BY <1>11, ReclaimFacts DEF AtWork
  <2>. QED  BY <2>0, AloneEnded
<1>12. ASSUME NEW p \in Procs, Crash(p) PROVE AloneInv'
  BY <1>12, InodeFacts DEF Crash, Unlocked, Return, Goto, AloneInv, HandleInv, TypeInv, Harmless, Holds, AtWork
<1>13. ASSUME NEW p \in Procs, MkdirAll(p) PROVE AloneInv'
  <2>0. AtWork(p)
    BY <1>13 DEF AtWork, MkdirAll, Goto
  <2>1. \A q \in Procs \ {p} : pc'[q] = pc[q] /\ fd'[q] = fd[q]
    BY <1>13 DEF TypeInv, MkdirAll, Goto
  <2>. QED  BY <1>13, <2>0, <2>1, AloneMove, AloneInside DEF TypeInv, Harmless, MkdirAll, Goto
<1>14. ASSUME NEW p \in Procs, CreateMarker(p) PROVE AloneInv'
  <2>1. CASE Return(p, "idle") /\ UNCHANGED <<files, fd>>
    BY <1>14, <2>1, CreateFacts, AloneInside, AloneMove DEF Return, Goto, TypeInv, Harmless, AtWork
  <2>2. CASE Created(p)
    <3>1. /\ \A q \in Procs \ {p} : pc'[q] = pc[q] /\ fd'[q] = fd[q]
          /\ marker = 0 /\ fd'[p] = marker' /\ contended' = contended /\ AtWork(p)
      BY <1>14, <2>2, CreateFacts DEF Created, Goto, TypeInv, AtWork
    <3>2. ~contended => \A q \in Procs : ~Holds(q)
      BY <3>1, InodeFacts DEF AloneInv, HandleInv, Holds
    <3>. QED  BY <3>1, <3>2, AloneMove, AloneInside
  <2>. QED  BY <1>14, <2>1, <2>2, CreateFacts
<1>15. ASSUME NEW p \in Procs, WriteMarker(p) PROVE AloneInv'
  <2>0. AtWork(p)
    BY <1>15 DEF AtWork, WriteMarker, Goto
  <2>1. \A q \in Procs \ {p} : pc'[q] = pc[q] /\ fd'[q] = fd[q]
    BY <1>15 DEF TypeInv, WriteMarker, Goto
  <2>. QED  BY <1>15, <2>0, <2>1, AloneMove, AloneInside DEF TypeInv, Harmless, WriteMarker, Goto, AloneInv
<1>16. ASSUME NEW p \in Procs, LockOwn(p) PROVE AloneInv'
  <2>0. AtWork(p)
    BY <1>16 DEF AtWork, LockOwn, Goto
  <2>1. \A q \in Procs \ {p} : pc'[q] = pc[q] /\ fd'[q] = fd[q]
    BY <1>16 DEF TypeInv, LockOwn, Goto
  <2>. QED  BY <1>16, <2>0, <2>1, AloneMove, AloneInside DEF TypeInv, Harmless, LockOwn, Goto, AloneInv
<1>17. ASSUME NEW p \in Procs, OpenFails(p) PROVE AloneInv'
  <2>0. AtWork(p)
    BY <1>17 DEF AtWork, OpenFails, Goto
  <2>1. \A q \in Procs \ {p} : pc'[q] = pc[q] /\ fd'[q] = fd[q]
    BY <1>17 DEF TypeInv, OpenFails, Goto
  <2>. QED  BY <1>17, <2>0, <2>1, AloneMove, AloneInside DEF TypeInv, Harmless, OpenFails, Goto
<1>18. ASSUME NEW p \in Procs, Abort(p) PROVE AloneInv'
  <2>0. AtWork(p)
    BY <1>18 DEF AtWork, Abort, Goto
  <2>1. \A q \in Procs \ {p} : pc'[q] = pc[q] /\ fd'[q] = fd[q]
    BY <1>18 DEF TypeInv, Abort, Goto
  <2>. QED  BY <1>18, <2>0, <2>1, AloneMove, AloneInside DEF TypeInv, Harmless, Abort, Goto
<1>19. ASSUME NEW p \in Procs, OpenStore(p) PROVE AloneInv'
  <2>0. AtWork(p)
    BY <1>19 DEF AtWork, OpenStore, Goto
  <2>1. \A q \in Procs \ {p} : pc'[q] = pc[q] /\ fd'[q] = fd[q]
    BY <1>19 DEF TypeInv, OpenStore, Return, Goto
  <2>2. /\ pc[p] = "store" /\ pc'[p] \in {"live", "closeUnlock"}
        /\ UNCHANGED <<marker, fd, contended>>
    BY <1>19 DEF TypeInv, OpenStore, Return, Goto
  <2>3. ~contended => fd[p] = marker
    BY <2>2 DEF AloneInv
  <2>. QED  BY <2>0, <2>1, <2>2, <2>3, AloneMove, AloneInside DEF Harmless
<1>20. ASSUME NEW p \in Procs, Close(p) PROVE AloneInv'
  <2>1. /\ pc[p] = "live" /\ pc' = [pc EXCEPT ![p] = "closeUnlock"] /\ UNCHANGED <<marker, fd>>
        /\ ~contended' => ~contended /\ \A q \in Procs \ {p} : ~AtWork(q)
    BY <1>20 DEF Close, Goto
  <2>2. ~contended' => \A q \in Procs \ {p} : ~Holds(q)
    BY <2>1 DEF Holds, AtWork, StoreInv
  <2>. QED  BY <2>1, <2>2, AloneMove DEF TypeInv
<1>21. ASSUME NEW p \in Procs, CloseUnlock(p) PROVE AloneInv'
  <2>0. AtWork(p)
    BY <1>21 DEF AtWork, CloseUnlock, Goto
  <2>1. \A q \in Procs \ {p} : pc'[q] = pc[q] /\ fd'[q] = fd[q]
    BY <1>21 DEF TypeInv, CloseUnlock, Goto
  <2>. QED  BY <1>21, <2>0, <2>1, AloneMove, AloneInside DEF TypeInv, Harmless, CloseUnlock, Goto
<1>22. ASSUME NEW p \in Procs, CloseMarker(p) PROVE AloneInv'
  <2>0. AtWork(p)
    BY <1>22 DEF AtWork, CloseMarker, Goto
  <2>1. \A q \in Procs \ {p} : pc'[q] = pc[q] /\ fd'[q] = fd[q]
    BY <1>22 DEF TypeInv, CloseMarker, Goto
  <2>. QED  BY <1>22, <2>0, <2>1, AloneMove, AloneInside DEF TypeInv, Harmless, CloseMarker, Goto
<1>23. ASSUME NEW p \in Procs, CloseDir(p) PROVE AloneInv'
  <2>0. AtWork(p)
    BY <1>23 DEF AtWork, CloseDir, Return, Goto
  <2>1. \A q \in Procs \ {p} : pc'[q] = pc[q] /\ fd'[q] = fd[q]
    BY <1>23 DEF TypeInv, CloseDir, Return, Goto
  <2>. QED  BY <1>23, <2>0, <2>1, AloneMove, AloneInside DEF TypeInv, Harmless, CloseDir, Return, Goto
<1>24. CASE Age \/ UNCHANGED vars
  BY <1>24 DEF Age, vars, AloneInv, HandleInv, TypeInv, Harmless, Holds, AtWork
<1>. QED  BY <1>1, <1>2, <1>3, <1>4, <1>5, <1>6, <1>7, <1>8, <1>9, <1>10, <1>11, <1>12,
             <1>13, <1>14, <1>15, <1>16, <1>17, <1>18, <1>19, <1>20, <1>21, <1>22, <1>23, <1>24
          DEF Next, Reclaim, OpenMarkerFile, CloseSession, Procs

\* A step of p to a phase that StoreInv says nothing about.
LEMMA StoreQuiet ==
    ASSUME NEW p \in Procs, StoreInv, pc'[p] \in Harmless \cup {"read"}, contended' = contended,
           UNCHANGED <<marker, content, stores>>,
           \A q \in Procs \ {p} : pc'[q] = pc[q] /\ fd'[q] = fd[q] /\ found'[q] = found[q]
    PROVE  StoreInv'
BY DEF StoreInv, Harmless

LEMMA StoreEnded ==
    ASSUME NEW p \in Procs, TypeInv, AloneInv, StoreInv, Ended(p), AtWork(p),
           UNCHANGED <<marker, content, stores>>
    PROVE  StoreInv'
<1>1. /\ pc'[p] \in {"lstat", "mkdir", "idle"} /\ contended' = contended
      /\ \A q \in Procs \ {p} : pc'[q] = pc[q] /\ fd'[q] = fd[q] /\ found'[q] = found[q]
  BY EndedFacts
<1>2. pc'[p] \in Harmless \cup {"read"}
  BY <1>1 DEF Harmless
<1>. QED  BY <1>1, <1>2, StoreQuiet

LEMMA StoreStep == TypeInv /\ HandleInv /\ AloneInv /\ StoreInv /\ [Next]_vars => StoreInv'
<1>. SUFFICES ASSUME TypeInv, HandleInv, AloneInv, StoreInv, [Next]_vars PROVE StoreInv'
  OBVIOUS
<1>1. ASSUME NEW p \in Procs, Begin(p) PROVE StoreInv'
  BY <1>1, InodeFacts DEF Begin, Goto, StoreInv, AloneInv, HandleInv, TypeInv, Harmless, Holds, AtWork
<1>2. ASSUME NEW p \in Procs, Lstat(p) PROVE StoreInv'
  <2>0. AtWork(p) /\ UNCHANGED <<marker, content, stores>>
    BY <1>2, ReclaimFacts DEF AtWork
  <2>1. CASE Ended(p)
    BY <2>0, <2>1, StoreEnded
  <2>2. CASE ~Ended(p)
    <3>1. /\ pc' = [pc EXCEPT ![p] = "open"] /\ UNCHANGED <<found, contended>>
          /\ fd' = fd \/ fd' = [fd EXCEPT ![p] = marker]
      BY <1>2, <2>2, ReclaimFacts DEF Goto, Stay, history
    <3>2. /\ pc'[p] = "open" /\ contended' = contended
          /\ \A q \in Procs \ {p} : pc'[q] = pc[q] /\ fd'[q] = fd[q] /\ found'[q] = found[q]
      BY <3>1 DEF TypeInv
    <3>3. pc'[p] \in Harmless \cup {"read"}
      BY <3>2 DEF Harmless
    <3>. QED  BY <2>0, <3>2, <3>3, StoreQuiet
  <2>. QED  BY <2>1, <2>2
<1>3. ASSUME NEW p \in Procs, OpenMarker(p) PROVE StoreInv'
  <2>0. AtWork(p) /\ UNCHANGED <<marker, content, stores>>
    BY <1>3, ReclaimFacts DEF AtWork
  <2>1. CASE Ended(p)
    BY <2>0, <2>1, StoreEnded
  <2>2. CASE ~Ended(p)
    <3>1. /\ pc' = [pc EXCEPT ![p] = "lock"] /\ UNCHANGED <<found, contended>>
          /\ fd' = fd \/ fd' = [fd EXCEPT ![p] = marker]
      BY <1>3, <2>2, ReclaimFacts DEF Goto, Stay, history
    <3>2. /\ pc'[p] = "lock" /\ contended' = contended
          /\ \A q \in Procs \ {p} : pc'[q] = pc[q] /\ fd'[q] = fd[q] /\ found'[q] = found[q]
      BY <3>1 DEF TypeInv
    <3>3. pc'[p] \in Harmless \cup {"read"}
      BY <3>2 DEF Harmless
    <3>. QED  BY <2>0, <3>2, <3>3, StoreQuiet
  <2>. QED  BY <2>1, <2>2
<1>4. ASSUME NEW p \in Procs, LockMarker(p) PROVE StoreInv'
  <2>0. AtWork(p) /\ UNCHANGED <<marker, content, stores>>
    BY <1>4, ReclaimFacts DEF AtWork
  <2>1. CASE Ended(p)
    BY <2>0, <2>1, StoreEnded
  <2>2. CASE ~Ended(p)
    <3>1. /\ pc' = [pc EXCEPT ![p] = "read"] /\ UNCHANGED <<found, contended>>
          /\ fd' = fd \/ fd' = [fd EXCEPT ![p] = marker]
      BY <1>4, <2>2, ReclaimFacts DEF Goto, Stay, history
    <3>2. /\ pc'[p] = "read" /\ contended' = contended
          /\ \A q \in Procs \ {p} : pc'[q] = pc[q] /\ fd'[q] = fd[q] /\ found'[q] = found[q]
      BY <3>1 DEF TypeInv
    <3>3. pc'[p] \in Harmless \cup {"read"}
      BY <3>2 DEF Harmless
    <3>. QED  BY <2>0, <3>2, <3>3, StoreQuiet
  <2>. QED  BY <2>1, <2>2
<1>5. ASSUME NEW p \in Procs, ReadMarker(p) PROVE StoreInv'
  BY <1>5, InodeFacts DEF ReadMarker, Goto, StoreInv, AloneInv, HandleInv, TypeInv, Harmless, Holds, AtWork
<1>6. ASSUME NEW p \in Procs, ListEntries(p) PROVE StoreInv'
  BY <1>6, InodeFacts DEF ListEntries, Goto, StoreInv, AloneInv, HandleInv, TypeInv, Harmless, Holds, AtWork
<1>7. ASSUME NEW p \in Procs, UnlockMarker(p) PROVE StoreInv'
  <2>0. AtWork(p) /\ UNCHANGED <<marker, content, stores>>
    BY <1>7, ReclaimFacts DEF AtWork
  <2>1. CASE Ended(p)
    BY <2>0, <2>1, StoreEnded
  <2>2. CASE ~Ended(p)
    <3>1. /\ pc[p] = "unlock" /\ found[p].removable
          /\ pc' = [pc EXCEPT ![p] = "remove"] /\ UNCHANGED <<found, contended>>
          /\ fd' = [fd EXCEPT ![p] = 0]
      BY <1>7, <2>2, ReclaimFacts DEF Goto, Stay, history
    <3>2. /\ pc'[p] = "remove" /\ contended' = contended /\ found' = found
          /\ \A q \in Procs \ {p} : pc'[q] = pc[q] /\ fd'[q] = fd[q]
      BY <3>1 DEF TypeInv
    <3>. QED  BY <2>0, <3>1, <3>2 DEF StoreInv
  <2>. QED  BY <2>1, <2>2
<1>8. ASSUME NEW p \in Procs, RemoveStore(p) PROVE StoreInv'
  <2>0. pc[p] = "remove" /\ AtWork(p) /\ UNCHANGED <<marker, content, fd, contended>>
    BY <1>8 DEF RemoveStore, AtWork
  <2>1. ~contended => \A q \in Procs \ {p} : pc[q] \in {"idle", "dead"}
    BY <2>0, AloneInside DEF Harmless, AtWork, Holds
  <2>2. CASE \E s \in found[p].paths : /\ stores' = stores \ {s} /\ UNCHANGED pc
                                      /\ found' = [found EXCEPT ![p].paths = @ \ {s}]
    BY <2>0, <2>1, <2>2 DEF StoreInv, TypeInv
  <2>3. CASE UNCHANGED <<stores, found>> /\ found[p].paths = {} /\ Goto(p, "removeMarker")
    BY <2>0, <2>1, <2>3 DEF StoreInv, TypeInv, Goto
  <2>. QED  BY <1>8, <2>2, <2>3 DEF RemoveStore
<1>9. ASSUME NEW p \in Procs, RemoveMarker(p) PROVE StoreInv'
  BY <1>9, InodeFacts DEF RemoveMarker, Goto, StoreInv, AloneInv, HandleInv, TypeInv, Harmless, Holds, AtWork
<1>10. ASSUME NEW p \in Procs, RemoveDir(p) PROVE StoreInv'
  <2>0. AtWork(p) /\ UNCHANGED <<marker, content, stores>> /\ Ended(p)
    BY <1>10, ReclaimFacts DEF AtWork
  <2>. QED  BY <2>0, StoreEnded
<1>11. ASSUME NEW p \in Procs, ReclaimFails(p) PROVE StoreInv'
  <2>0. AtWork(p) /\ UNCHANGED <<marker, content, stores>> /\ Ended(p)
    BY <1>11, ReclaimFacts DEF AtWork
  <2>. QED  BY <2>0, StoreEnded
<1>12. ASSUME NEW p \in Procs, Crash(p) PROVE StoreInv'
  BY <1>12, InodeFacts DEF Crash, Unlocked, Return, Goto, StoreInv, AloneInv, HandleInv, TypeInv, Harmless, Holds, AtWork
<1>13. ASSUME NEW p \in Procs, MkdirAll(p) PROVE StoreInv'
  BY <1>13, InodeFacts DEF MkdirAll, Goto, StoreInv, AloneInv, HandleInv, TypeInv, Harmless, Holds, AtWork
<1>14. ASSUME NEW p \in Procs, CreateMarker(p) PROVE StoreInv'
  <2>1. CASE Return(p, "idle") /\ UNCHANGED <<files, fd>>
    BY <1>14, <2>1, CreateFacts, InodeFacts DEF Return, Goto, StoreInv, AloneInv, HandleInv, TypeInv, Harmless, Holds, AtWork
  <2>2. CASE Created(p)
    BY <1>14, <2>2, CreateFacts, InodeFacts DEF Created, Goto, StoreInv, AloneInv, HandleInv, TypeInv, Harmless, Holds, AtWork
  <2>. QED  BY <1>14, <2>1, <2>2, CreateFacts
<1>15. ASSUME NEW p \in Procs, WriteMarker(p) PROVE StoreInv'
  BY <1>15, InodeFacts DEF WriteMarker, Goto, StoreInv, AloneInv, HandleInv, TypeInv, Harmless, Holds, AtWork
<1>16. ASSUME NEW p \in Procs, LockOwn(p) PROVE StoreInv'
  <2>1. /\ pc[p] = "lockOwn" /\ AtWork(p) /\ pc'[p] \in {"abort", "store"}
        /\ \A q \in Procs \ {p} : pc'[q] = pc[q]
        /\ UNCHANGED <<marker, content, stores, fd, found, contended>>
    BY <1>16 DEF LockOwn, Goto, TypeInv, AtWork
  <2>. QED  BY <2>1 DEF StoreInv
<1>17. ASSUME NEW p \in Procs, OpenFails(p) PROVE StoreInv'
  BY <1>17, InodeFacts DEF OpenFails, Goto, StoreInv, AloneInv, HandleInv, TypeInv, Harmless, Holds, AtWork
<1>18. ASSUME NEW p \in Procs, Abort(p) PROVE StoreInv'
  BY <1>18, InodeFacts DEF Abort, Goto, StoreInv, AloneInv, HandleInv, TypeInv, Harmless, Holds, AtWork
<1>19. ASSUME NEW p \in Procs, OpenStore(p) PROVE StoreInv'
  <2>0. pc[p] = "store" /\ AtWork(p) /\ UNCHANGED <<marker, content, fd, found, contended>>
    BY <1>19 DEF OpenStore, Return, AtWork
  <2>1. ~contended => stores = {} /\ \A q \in Procs \ {p} : pc[q] \in {"idle", "dead"}
    BY <2>0, AloneInside DEF AtWork, StoreInv
  <2>2. ~contended => content[fd[p]] = "magic" /\ marker = fd[p] /\ marker # 0
    BY <2>0 DEF StoreInv, AloneInv, HandleInv
  <2>3. CASE stores' = stores \cup {p} /\ Goto(p, "live")
    BY <2>0, <2>1, <2>2, <2>3 DEF StoreInv, TypeInv, Goto
  <2>4. CASE stores' = stores /\ Goto(p, "closeUnlock")
    BY <2>0, <2>1, <2>2, <2>4 DEF StoreInv, TypeInv, Goto
  <2>. QED  BY <1>19, <2>3, <2>4 DEF OpenStore, Return
<1>20. ASSUME NEW p \in Procs, Close(p) PROVE StoreInv'
  BY <1>20, InodeFacts DEF Close, Goto, StoreInv, AloneInv, HandleInv, TypeInv, Harmless, Holds, AtWork
<1>21. ASSUME NEW p \in Procs, CloseUnlock(p) PROVE StoreInv'
  BY <1>21, InodeFacts DEF CloseUnlock, Unlocked, Goto, StoreInv, AloneInv, HandleInv, TypeInv, Harmless, Holds, AtWork
<1>22. ASSUME NEW p \in Procs, CloseMarker(p) PROVE StoreInv'
  BY <1>22, InodeFacts DEF CloseMarker, Goto, StoreInv, AloneInv, HandleInv, TypeInv, Harmless, Holds, AtWork
<1>23. ASSUME NEW p \in Procs, CloseDir(p) PROVE StoreInv'
  BY <1>23, InodeFacts DEF CloseDir, Return, Goto, StoreInv, AloneInv, HandleInv, TypeInv, Harmless, Holds, AtWork
<1>24. CASE Age \/ UNCHANGED vars
  BY <1>24 DEF Age, vars, StoreInv, AloneInv, HandleInv, TypeInv, Harmless, Holds, AtWork
<1>. QED  BY <1>1, <1>2, <1>3, <1>4, <1>5, <1>6, <1>7, <1>8, <1>9, <1>10, <1>11, <1>12,
             <1>13, <1>14, <1>15, <1>16, <1>17, <1>18, <1>19, <1>20, <1>21, <1>22, <1>23, <1>24
          DEF Next, Reclaim, OpenMarkerFile, CloseSession, Procs

-----------------------------------------------------------------------------
\* What a reclamation leaves

\* A step of p, where no other process is at work or the marker stays.
LEMMA LeftMove ==
    ASSUME NEW p \in Procs, LeftInv, foreign' = foreign,
           \A q \in Procs \ {p} : pc'[q] = pc[q] /\ fd'[q] = fd[q] /\ found'[q] = found[q],
           ~contended' => /\ ~contended /\ LeftOf(p)'
                          /\ \/ \A q \in Procs \ {p} : ~AtWork(q)
                             \/ UNCHANGED <<marker, content>>
    PROVE  LeftInv'
<1>. SUFFICES ASSUME ~contended', NEW q \in Procs PROVE LeftOf(q)'
  BY DEF LeftInv
<1>1. CASE q = p
  BY <1>1
<1>2. CASE q # p /\ ~AtWork(q)
  BY <1>2 DEF LeftOf, AtWork
<1>3. CASE q # p /\ UNCHANGED <<marker, content>>
  <2>1. LeftOf(q)
    BY DEF LeftInv
  <2>. QED  BY <1>3, <2>1 DEF LeftOf
<1>. QED  BY <1>1, <1>2, <1>3

LEMMA LeftEnded ==
    ASSUME NEW p \in Procs, TypeInv, LeftInv, Ended(p), UNCHANGED <<marker, content, foreign>>
    PROVE  LeftInv'
BY EndedFacts, LeftMove DEF LeftOf

\* The steps that read the marker or take it away.
Touching(p) ==
    LockMarker(p) \/ ReadMarker(p) \/ ListEntries(p) \/ RemoveMarker(p) \/ CreateMarker(p)
    \/ WriteMarker(p) \/ Abort(p) \/ CloseMarker(p)

LEMMA LeftTouching ==
    ASSUME NEW p \in Procs, TypeInv, HandleInv, AloneInv, LeftInv, Touching(p)
    PROVE  LeftInv'
<1>0. AtWork(p)
  BY DEF Touching, LockMarker, ReadMarker, ListEntries, RemoveMarker, CreateMarker,
         WriteMarker, Abort, CloseMarker, AtWork
<1>1. ~contended => \A q \in Procs \ {p} : ~AtWork(q)
  BY <1>0, AloneInside
<1>2. CASE LockMarker(p)
  <2>1. CASE Ended(p)
    BY <1>2, <2>1, ReclaimFacts, LeftEnded
  <2>2. CASE ~Ended(p)
    <3>1. /\ pc[p] = "lock" /\ pc' = [pc EXCEPT ![p] = "read"]
          /\ UNCHANGED <<marker, content, foreign, fd, found, contended>>
      BY <1>2, <2>2, ReclaimFacts DEF Goto, Stay
    <3>2. ~contended => fd[p] = marker
      BY <3>1 DEF AloneInv
    <3>3. /\ pc'[p] = "read"
          /\ \A q \in Procs \ {p} : pc'[q] = pc[q]
      BY <3>1 DEF TypeInv
    <3>. QED  BY <1>1, <3>1, <3>2, <3>3, LeftMove DEF LeftOf
  <2>. QED  BY <2>1, <2>2
<1>3. CASE ReadMarker(p)
  <2>1. /\ pc[p] = "read" /\ pc' = [pc EXCEPT ![p] = "list"]
        /\ found' = [found EXCEPT ![p].removable = Magic(p)]
        /\ UNCHANGED <<marker, content, foreign, fd, contended>>
    BY <1>3 DEF ReadMarker, Goto
  <2>2. ~contended => fd[p] = marker
    BY <2>1 DEF LeftInv, LeftOf
  <2>3. found'[p].removable = Magic(p)
    BY <2>1 DEF TypeInv
  <2>4. ~contended => found'[p].removable \/ content[marker] # "magic"
    BY <2>2, <2>3 DEF Magic
  <2>5. /\ pc'[p] = "list"
        /\ \A q \in Procs \ {p} : pc'[q] = pc[q] /\ found'[q] = found[q]
    BY <2>1 DEF TypeInv
  <2>. QED  BY <1>1, <2>1, <2>2, <2>4, <2>5, LeftMove DEF LeftOf
<1>4. CASE ListEntries(p)
  <2>1. /\ pc[p] = "list" /\ pc' = [pc EXCEPT ![p] = "unlock"]
        /\ UNCHANGED <<marker, content, foreign, fd, contended>>
    BY <1>4 DEF ListEntries, Goto
  <2>2. ~contended => fd[p] = marker /\ (found[p].removable \/ content[marker] # "magic")
    BY <2>1 DEF LeftInv, LeftOf
  <2>3. /\ found'[p].removable = (found[p].removable /\ dir /\ ~foreign)
        /\ found'[p].err = ~dir
        /\ \A q \in Procs \ {p} : found'[q] = found[q]
    BY <1>4 DEF ListEntries, TypeInv
  <2>4. ~contended =>
          found'[p].removable \/ found'[p].err \/ content[marker] # "magic" \/ foreign
    BY <2>2, <2>3
  <2>5. /\ pc'[p] = "unlock"
        /\ \A q \in Procs \ {p} : pc'[q] = pc[q]
    BY <2>1 DEF TypeInv
  <2>. QED  BY <1>1, <2>1, <2>2, <2>3, <2>4, <2>5, LeftMove DEF LeftOf
<1>5. CASE RemoveMarker(p) \/ WriteMarker(p) \/ Abort(p) \/ CloseMarker(p)
  <2>1. /\ \E x \in {"removeDir", "lockOwn", "closeDir"} :
             pc' = [pc EXCEPT ![p] = x] /\ (x = "removeDir" => marker' = 0)
        /\ fd' = fd \/ fd' = [fd EXCEPT ![p] = 0]
        /\ UNCHANGED <<foreign, found, contended>>
    BY <1>5 DEF RemoveMarker, WriteMarker, Abort, CloseMarker, Goto
  <2>2. /\ pc'[p] \in {"removeDir", "lockOwn", "closeDir"}
        /\ pc'[p] = "removeDir" => marker' = 0
        /\ \A q \in Procs \ {p} : pc'[q] = pc[q] /\ fd'[q] = fd[q]
    BY <2>1 DEF TypeInv
  <2>. QED  BY <1>1, <2>1, <2>2, LeftMove DEF LeftOf
<1>6. CASE CreateMarker(p)
  <2>1. /\ \E x \in {"idle", "write"} : pc' = [pc EXCEPT ![p] = x]
        /\ fd' = fd \/ fd' = [fd EXCEPT ![p] = Free]
        /\ UNCHANGED <<foreign, found, contended>>
    BY <1>6 DEF CreateMarker, Return, Goto
  <2>2. /\ pc'[p] \in {"idle", "write"}
        /\ \A q \in Procs \ {p} : pc'[q] = pc[q] /\ fd'[q] = fd[q]
    BY <2>1 DEF TypeInv
  <2>. QED  BY <1>1, <2>1, <2>2, LeftMove DEF LeftOf
<1>. QED  BY <1>2, <1>3, <1>4, <1>5, <1>6 DEF Touching

LEMMA LeftStep == TypeInv /\ HandleInv /\ AloneInv /\ LeftInv /\ [Next]_vars => LeftInv'
<1>. SUFFICES ASSUME TypeInv, HandleInv, AloneInv, LeftInv, [Next]_vars PROVE LeftInv'
  OBVIOUS
<1>1. ASSUME NEW p \in Procs, Touching(p) PROVE LeftInv'
  BY <1>1, LeftTouching
<1>2. ASSUME NEW p \in Procs, Lstat(p) \/ OpenMarker(p) \/ UnlockMarker(p) PROVE LeftInv'
  <2>0. UNCHANGED <<marker, content, foreign>>
    BY <1>2, ReclaimFacts
  <2>1. CASE Ended(p)
    BY <2>0, <2>1, LeftEnded
  <2>2. CASE ~Ended(p)
    <3>1. /\ \E x \in {"open", "lock", "remove"} : pc' = [pc EXCEPT ![p] = x]
          /\ \E x \in Inodes \cup {0} : fd' = fd \/ fd' = [fd EXCEPT ![p] = x]
          /\ UNCHANGED <<found, contended>>
      BY <1>2, <2>2, ReclaimFacts DEF Goto, Stay, TypeInv
    <3>2. /\ pc'[p] \in {"open", "lock", "remove"} /\ found' = found
          /\ \A q \in Procs \ {p} : pc'[q] = pc[q] /\ fd'[q] = fd[q]
      BY <3>1 DEF TypeInv
    <3>. QED  BY <2>0, <3>1, <3>2, LeftMove DEF LeftOf
  <2>. QED  BY <2>1, <2>2
<1>3. ASSUME NEW p \in Procs, RemoveDir(p) \/ ReclaimFails(p) PROVE LeftInv'
  BY <1>3, ReclaimFacts, LeftEnded
<1>4. ASSUME NEW p \in Procs, RemoveStore(p) PROVE LeftInv'
  <2>1. /\ pc[p] = "remove" /\ pc'[p] \in {"remove", "removeMarker"}
        /\ UNCHANGED <<marker, content, foreign, fd, contended>>
        /\ \A q \in Procs \ {p} : pc'[q] = pc[q] /\ found'[q] = found[q]
    BY <1>4 DEF RemoveStore, Goto, TypeInv
  <2>. QED  BY <2>1, LeftMove DEF LeftOf
<1>5. ASSUME NEW p \in Procs,
             \/ Begin(p) \/ MkdirAll(p) \/ LockOwn(p) \/ OpenFails(p) \/ OpenStore(p) \/ Close(p)
             \/ CloseUnlock(p) \/ CloseDir(p) \/ Crash(p)
      PROVE  LeftInv'
  <2>1. /\ \E x \in {"lstat", "create", "abort", "store", "live", "closeUnlock", "closeMarker",
                     "idle", "dead"} : pc' = [pc EXCEPT ![p] = x]
        /\ fd' = fd \/ fd' = [fd EXCEPT ![p] = 0]
        /\ found' = found \/ found' = [found EXCEPT ![p] = Nothing]
        /\ UNCHANGED <<marker, content, foreign>> /\ (contended => contended')
    <3>1. CASE Begin(p)
      BY <3>1 DEF Begin, Goto
    <3>2. CASE MkdirAll(p) \/ LockOwn(p) \/ OpenFails(p)
      BY <3>2 DEF MkdirAll, LockOwn, OpenFails, Goto
    <3>3. CASE OpenStore(p)
      BY <3>3 DEF OpenStore, Return, Goto
    <3>4. CASE Close(p)
      BY <3>4 DEF Close, Goto
    <3>5. CASE CloseUnlock(p) \/ CloseDir(p) \/ Crash(p)
      BY <3>5 DEF CloseUnlock, CloseDir, Crash, Return, Goto
    <3>. QED  BY <1>5, <3>1, <3>2, <3>3, <3>4, <3>5
  <2>2. /\ pc'[p] \in {"lstat", "create", "abort", "store", "live", "closeUnlock",
                       "closeMarker", "idle", "dead"}
        /\ \A q \in Procs \ {p} : pc'[q] = pc[q] /\ fd'[q] = fd[q] /\ found'[q] = found[q]
    BY <2>1 DEF TypeInv
  <2>. QED  BY <2>1, <2>2, LeftMove DEF LeftOf
<1>6. CASE Age \/ UNCHANGED vars
  BY <1>6 DEF Age, vars, LeftInv, LeftOf
<1>. QED  BY <1>1, <1>2, <1>3, <1>4, <1>5, <1>6
          DEF Next, Reclaim, OpenMarkerFile, CloseSession, Procs, Touching

-----------------------------------------------------------------------------
\* Theorems

LEMMA InvInit == Init => Inv
<1>. SUFFICES ASSUME Init PROVE Inv
  OBVIOUS
<1>1. PICK l \in Leftovers :
         /\ dir = l.dir /\ foreign = l.foreign
         /\ marker = IF l.marker = "none" THEN 0 ELSE 1
         /\ content = [i \in Inodes |-> IF i = marker THEN l.marker ELSE "empty"]
         /\ stores = IF l.store THEN {Stale} ELSE {}
  BY DEF Init
<1>2. l \in LeftoverType /\ (l.marker # "none" \/ l.store \/ l.foreign => l.dir)
      /\ (l.store => l.marker # "none")
  BY CleanupAssumption
<1>3. 1 \in Inodes
  BY CleanupAssumption, FS_CardinalityType DEF Inodes
<1>4. pc = [p \in Procs |-> "idle"] /\ fd = [p \in Procs |-> 0]
      /\ found = [p \in Procs |-> Nothing] /\ ~Nothing.removable
  BY DEF Init, Nothing
<1>5. HandleInv /\ RacersInv /\ AloneInv
  BY <1>4 DEF HandleInv, RacersInv, AloneInv, Holds, AtWork, Procs
<1>9. LeftInv
  BY <1>4 DEF LeftInv, LeftOf
<1>6. MalformedInv /\ ForeignInv
  BY <1>1, <1>2, <1>4 DEF MalformedInv, ForeignInv, LeftoverType, Harmless
<1>7. stores # {} => marker = 1 /\ content[1] # "empty"
  BY <1>1, <1>2, <1>3 DEF LeftoverType
<1>8. StoreInv
  BY <1>4, <1>7 DEF StoreInv
<1>. QED  BY <1>5, <1>6, <1>8, <1>9, TypeInit DEF Inv

LEMMA Invariance == Spec => []Inv
<1>1. Inv /\ [Next]_vars => Inv'
  BY TypeStep, HandleStep, ForeignStep, MalformedStep, RacersStep, AloneStep, StoreStep, LeftStep DEF Inv
<1>. QED  BY <1>1, InvInit, PTL DEF Spec

\* Reclamation is conservative for any number of processes: whatever crashes
\* and overlaps, reclaimSessionDirectory and Close leave a malformed marker, a
\* foreign entry and the directory around them where they are.
THEOREM ReclamationIsConservative == Spec => []ForeignKept
<1>1. Inv => ForeignKept
  BY DEF Inv, MalformedInv, ForeignInv, ForeignKept
<1>. QED  BY <1>1, Invariance, PTL

\* Calls that do not overlap leave one Session at a time in the directory, with
\* its marker in place and locked, and no undo store without a marker.
THEOREM OneUserAtATime == Spec => []UsedByOne
<1>1. Inv => UsedByOne
  <2>. SUFFICES ASSUME Inv, ~contended PROVE UsedByOne
    BY DEF UsedByOne
  <2>1. \A p \in Sessions : Holds(p) => marker = fd[p] /\ lock[marker] = p
    BY DEF Inv, AloneInv, HandleInv, Holds, Procs
  <2>2. \A p \in Sessions : pc[p] = "live" => p \in stores
    BY DEF Inv, StoreInv, Procs
  <2>. QED  BY <2>1, <2>2 DEF UsedByOne, Inv, StoreInv
<1>. QED  BY <1>1, Invariance, PTL

\* What the lock of a marker protects from.
Protected(p) ==
    Holds(p) /\ marker = fd[p] /\ pc'[p] = pc[p] =>
        /\ p \in stores \ stores' => \E q \in racers[p] : found'[q] # found[q]
        /\ marker' # marker => \E q \in racers[p] \cup displaced : pc'[q] # pc[q]

LEMMA ProtectStep == Inv /\ [Next]_vars => \A s \in Sessions : Protected(s)
<1>. SUFFICES ASSUME Inv, [Next]_vars, NEW s \in Sessions, Holds(s), marker = fd[s],
                     pc'[s] = pc[s]
              PROVE  /\ s \in stores \ stores' => \E q \in racers[s] : found'[q] # found[q]
                     /\ marker' # marker => \E q \in racers[s] \cup displaced : pc'[q] # pc[q]
  BY Zenon DEF Protected
<1>0. s \in Procs /\ marker # 0
  BY DEF Inv, HandleInv, Holds, Procs
<1>1. ASSUME NEW p \in Procs, RemoveStore(p)
      PROVE  marker' = marker /\ (s \in stores \ stores' => \E q \in racers[s] : found'[q] # found[q])
  <2>1. p # s /\ pc[p] = "remove"
    BY <1>1 DEF RemoveStore, Holds
  <2>2. p \in racers[s]
    BY <1>0, <2>1 DEF Inv, RacersInv, Kept, Harmless
  <2>3. CASE \E x \in found[p].paths : /\ stores' = stores \ {x} /\ UNCHANGED pc
                                      /\ found' = [found EXCEPT ![p].paths = @ \ {x}]
    <3>1. found'[p].paths # found[p].paths
      BY <2>3 DEF Inv, TypeInv
    <3>. QED  BY <1>1, <2>2, <3>1 DEF RemoveStore
  <2>4. CASE UNCHANGED <<stores, found>>
    BY <1>1, <2>4 DEF RemoveStore
  <2>. QED  BY <1>1, <2>3, <2>4 DEF RemoveStore
<1>6. ASSUME NEW p \in Procs, RemoveMarker(p) \/ Abort(p) \/ CloseMarker(p)
      PROVE  stores' = stores /\ \E q \in racers[s] \cup displaced : pc'[q] # pc[q]
  <2>1. p # s /\ pc[p] \in {"removeMarker", "abort", "closeMarker"} /\ pc'[p] # pc[p]
    BY <1>6 DEF RemoveMarker, Abort, CloseMarker, Holds, Goto, Inv, TypeInv
  <2>2. p \in racers[s] \cup displaced
    BY <1>0, <2>1 DEF Inv, RacersInv, Kept, Harmless
  <2>. QED  BY <1>6, <2>1, <2>2 DEF RemoveMarker, Abort, CloseMarker
<1>2. ASSUME NEW p \in Procs,
             \/ Begin(p) \/ Lstat(p) \/ OpenMarker(p) \/ LockMarker(p) \/ ReadMarker(p)
             \/ ListEntries(p) \/ UnlockMarker(p) \/ RemoveDir(p) \/ ReclaimFails(p)
             \/ MkdirAll(p) \/ WriteMarker(p) \/ LockOwn(p) \/ OpenFails(p) \/ OpenStore(p)
             \/ CloseUnlock(p) \/ CloseDir(p) \/ Crash(p)
      PROVE  marker' = marker /\ stores \subseteq stores'
  BY <1>2 DEF Begin, Lstat, OpenMarker, LockMarker, ReadMarker, ListEntries, UnlockMarker,
              RemoveDir, ReclaimFails, MkdirAll, WriteMarker, LockOwn, OpenFails, OpenStore,
              CloseUnlock, CloseDir, Crash
<1>3. ASSUME NEW p \in Procs, CreateMarker(p)
      PROVE  UNCHANGED <<marker, stores>>
  BY <1>0, <1>3 DEF CreateMarker
<1>4. ASSUME NEW p \in Procs, Close(p)
      PROVE  marker' = marker /\ (s \in stores => s \in stores')
  <2>1. p # s
    BY <1>0, <1>4 DEF Close, Goto, Inv, TypeInv
  <2>. QED  BY <1>4, <2>1 DEF Close
<1>5. CASE Age \/ UNCHANGED vars
  BY <1>5 DEF Age, vars
<1>. QED  BY <1>1, <1>2, <1>3, <1>4, <1>5, <1>6
          DEF Next, Reclaim, OpenMarkerFile, CloseSession, Procs

\* A held marker lock protects a Session, as long as it has its marker: only
\* calls already under way when the lock was taken can still remove its undo
\* store, and only those and the Close of a Session that has lost its own
\* marker (session_cleanup.go:241-248) can remove the marker.
THEOREM LateCallsFindTheLock == Spec => LockProtects
<1>1. Inv /\ [Next]_vars => [\A p \in Sessions : Protected(p)]_vars
  BY ProtectStep
<1>. QED  BY <1>1, Invariance, PTL DEF Spec, LockProtects, Protected

LEMMA ReclaimedStep ==
    Inv /\ [Next]_vars =>
        (~contended => \A p \in Sessions : pc[p] # "mkdir" => ~Blocked(p)')
<1>. SUFFICES ASSUME Inv, [Next]_vars, NEW p \in Sessions, ~contended,
                     pc[p] # "mkdir", pc'[p] = "mkdir"
              PROVE  marker' = 0 \/ lock'[marker'] # Nobody \/ content'[marker'] # "magic"
                     \/ foreign'
  BY DEF Blocked
<1>0. p \in Procs
  BY DEF Procs
<1>1. ASSUME NEW q \in Procs,
             \/ Begin(q) \/ ReadMarker(q) \/ ListEntries(q) \/ RemoveStore(q) \/ RemoveMarker(q)
             \/ Crash(q) \/ MkdirAll(q) \/ CreateMarker(q) \/ WriteMarker(q) \/ LockOwn(q)
             \/ OpenFails(q) \/ Abort(q) \/ OpenStore(q) \/ Close(q) \/ CloseUnlock(q)
             \/ CloseMarker(q) \/ CloseDir(q)
      PROVE  FALSE
  BY <1>0, <1>1
     DEF Begin, ReadMarker, ListEntries, RemoveStore, RemoveMarker, Crash, MkdirAll,
         CreateMarker, WriteMarker, LockOwn, OpenFails, Abort, OpenStore, Close, CloseUnlock,
         CloseMarker, CloseDir, Return, Goto, Inv, TypeInv
<1>2. ASSUME NEW q \in Procs,
             \/ Lstat(q) \/ OpenMarker(q) \/ LockMarker(q) \/ UnlockMarker(q) \/ RemoveDir(q)
             \/ ReclaimFails(q)
      PROVE  q = p
  <2>1. \E x : pc' = [pc EXCEPT ![q] = x]
    BY <1>2, ReclaimFacts DEF Ended, Goto
  <2>. QED  BY <1>0, <2>1 DEF Inv, TypeInv
<1>3. ASSUME NEW failed, After(p, failed) PROVE mode[p] = "exact" /\ ~failed
  BY <1>0, <1>3 DEF After, Return, Goto, Inv, TypeInv
<1>4. CASE Lstat(p)
  <2>1. marker = 0
    BY <1>0, <1>3, <1>4 DEF Lstat, OldEnough, Goto, Inv, TypeInv
  <2>. QED  BY <1>4, <2>1 DEF Lstat
<1>5. CASE OpenMarker(p)
  BY <1>0, <1>3, <1>5 DEF OpenMarker, Goto, Inv, TypeInv
<1>6. CASE LockMarker(p)
  <2>1. pc[p] = "lock" /\ lock[fd[p]] # Nobody /\ UNCHANGED <<marker, lock>>
    BY <1>0, <1>6 DEF LockMarker, Goto, Inv, TypeInv
  <2>2. fd[p] = marker
    BY <1>0, <2>1 DEF Inv, AloneInv
  <2>. QED  BY <2>1, <2>2
<1>7. CASE UnlockMarker(p)
  <2>1. pc[p] = "unlock" /\ ~found[p].removable /\ UNCHANGED <<marker, content, foreign>>
    BY <1>0, <1>7 DEF UnlockMarker, Goto, Inv, TypeInv
  <2>2. ~found[p].err
    BY <1>3, <1>7, <2>1 DEF UnlockMarker
  <2>3. LeftOf(p)
    BY <1>0 DEF Inv, LeftInv
  <2>. QED  BY <2>1, <2>2, <2>3 DEF LeftOf
<1>8. CASE RemoveDir(p)
  <2>1. pc[p] = "removeDir" /\ marker' = marker
    BY <1>8 DEF RemoveDir
  <2>. QED  BY <1>0, <2>1 DEF Inv, LeftInv, LeftOf
<1>9. CASE ReclaimFails(p)
  BY <1>3, <1>9 DEF ReclaimFails
<1>10. CASE Age \/ UNCHANGED vars
  BY <1>10 DEF Age, vars
<1>. QED  BY <1>1, <1>2, <1>4, <1>5, <1>6, <1>7, <1>8, <1>9, <1>10
          DEF Next, Reclaim, OpenMarkerFile, CloseSession, Procs

\* A crash behind the write of the marker keeps no later Open out: however many
\* processes crashed before, an Open that no call overlaps has reclaimed what
\* they left, unless a process holds the lock or the host has put an entry there.
THEOREM CrashKeepsNobodyOut == Spec => LeftoverReclaimed
<1>1. Inv /\ [Next]_vars =>
        [~contended => \A p \in Sessions : pc[p] # "mkdir" => ~Blocked(p)']_vars
  BY ReclaimedStep
<1>. QED  BY <1>1, Invariance, PTL DEF Spec, LeftoverReclaimed
=============================================================================
