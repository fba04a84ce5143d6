--------------------------- MODULE SessionCleanup ---------------------------
(***************************************************************************)
(* The owned session directory: the marker file that Open creates and      *)
(* locks, the undo store beside it, Close, and the reclamation of what a    *)
(* crash leaves behind (session_cleanup.go).  Every system call on the     *)
(* directory is a step of its own, for several processes, each of which    *)
(* may crash between two of them.                                          *)
(*                                                                         *)
(* There is one directory: a scan of the root treats every directory by    *)
(* itself.  The marker's path leads to an inode; a process may still hold  *)
(* an inode that is no longer there.  flock belongs to the inode.          *)
(***************************************************************************)
EXTENDS Integers, FiniteSets

CONSTANTS
    Sessions,      \* processes that open a Session in the directory
    Reclaimers,    \* processes that call ReclaimStaleSessionDirectories
    Leftovers,     \* contents of the directory in the beginning
    MaxCalls       \* bound on the calls of all processes together

Procs == Sessions \cup Reclaimers
Nobody == "nobody"
Inodes == 1..(Cardinality(Procs) + 1)

LeftoverType == [dir : BOOLEAN, marker : {"none", "magic", "malformed"},
                 old : BOOLEAN, store : BOOLEAN, foreign : BOOLEAN]

ASSUME CleanupAssumption ==
    /\ IsFiniteSet(Procs) /\ Nobody \notin Procs
    /\ Leftovers \subseteq LeftoverType /\ MaxCalls \in Nat
    /\ \A l \in Leftovers :
          (l.marker # "none" \/ l.store \/ l.foreign => l.dir)
             /\ (l.store => l.marker # "none")

VARIABLES
    dir,        \* the directory exists
    marker,     \* inode at the marker's path, 0 if there is none
    content, old, lock,  \* of each inode: bytes, age, holder of the flock
    stores,     \* owners of the .docengine-undo-*.store files
    foreign,    \* another entry of the host
    pc,         \* of each process: its next system call
    mode,       \* of a reclamation: "root", "exact" or by the "host"
    fd,         \* the marker inode a process has open, 0 if none
    found,      \* removable, paths and entriesErr of a reclamation
    calls,      \* calls so far
    racers,     \* history variable: calls under way when a Session locked
    displaced,  \* history variable: Sessions closing without their marker
    contended   \* history variable: two processes were at work at once

files == <<dir, marker, content, old, lock, stores, foreign>>
locals == <<pc, mode, fd, found>>
history == <<calls, racers, displaced, contended>>
vars == <<files, locals, history>>

Nothing == [removable |-> FALSE, paths |-> {}, err |-> FALSE]
Stale == "stale"        \* owner of the undo store a crash has left

\* In the middle of an Open, a Close or a reclamation.
AtWork(p) == pc[p] \notin {"idle", "dead", "live"}

Init ==
    /\ \E l \in Leftovers :
         /\ dir = l.dir /\ foreign = l.foreign
         /\ marker = IF l.marker = "none" THEN 0 ELSE 1
         /\ content = [i \in Inodes |-> IF i = marker THEN l.marker ELSE "empty"]
         /\ old = [i \in Inodes |-> i = marker /\ l.old]
         /\ stores = IF l.store THEN {Stale} ELSE {}
    /\ lock = [i \in Inodes |-> Nobody]
    /\ pc = [p \in Procs |-> "idle"] /\ mode = [p \in Procs |-> "root"]
    /\ fd = [p \in Procs |-> 0] /\ found = [p \in Procs |-> Nothing]
    /\ racers = [p \in Procs |-> {}] /\ displaced = {} /\ contended = FALSE
    /\ calls = 0

Goto(p, label) == pc' = [pc EXCEPT ![p] = label]
Unlocked(p) == [i \in Inodes |-> IF lock[i] = p THEN Nobody ELSE lock[i]]
Empty == marker = 0 /\ stores = {} /\ ~foreign

\* A call of p returns: what it does from now on is another call.
Return(p, label) ==
    /\ Goto(p, label)
    /\ racers' = [q \in Procs |-> racers[q] \ {p}]
    /\ displaced' = displaced \ {p}
    /\ UNCHANGED <<calls, contended>>

-----------------------------------------------------------------------------
\* reclaimSessionDirectory

\* A reclamation begins: that of the root in Open, or one of the host.
Begin(p) ==
    /\ pc[p] = "idle" /\ calls < MaxCalls
    /\ calls' = calls + 1
    /\ mode' = [mode EXCEPT ![p] = IF p \in Sessions THEN "root" ELSE "host"]
    /\ Goto(p, "lstat")
    /\ contended' = (contended \/ \E q \in Procs \ {p} : AtWork(q))
    /\ UNCHANGED <<files, fd, found, racers, displaced>>

\* Mutant: Open leaves the exact directory out.
AfterRootOnly(p, failed) ==
    /\ fd' = [fd EXCEPT ![p] = 0] /\ found' = [found EXCEPT ![p] = Nothing]
    /\ IF mode[p] = "root" THEN Goto(p, "mkdir") /\ UNCHANGED history
       ELSE Return(p, "idle")
    /\ UNCHANGED mode

\* What follows a reclamation: the root scan of Open ignores errors and the
\* exact directory comes next, whose errors end Open.
After(p, failed) ==
    /\ fd' = [fd EXCEPT ![p] = 0] /\ found' = [found EXCEPT ![p] = Nothing]
    /\ \/ /\ mode[p] = "root"
          /\ mode' = [mode EXCEPT ![p] = "exact"] /\ Goto(p, "lstat")
          /\ UNCHANGED history
       \/ /\ mode[p] = "exact" /\ ~failed
          /\ Goto(p, "mkdir") /\ UNCHANGED <<mode, history>>
       \/ /\ mode[p] = "host" \/ (mode[p] = "exact" /\ failed)
          /\ Return(p, "idle") /\ UNCHANGED mode

\* The root scan of Open wants 24 hours, the exact directory has no age, and
\* the host brings a time of its own.
OldEnough(p) == marker # 0 /\ (mode[p] = "root" => old[marker])

Lstat(p) ==
    /\ pc[p] = "lstat"
    /\ \/ /\ OldEnough(p)
          /\ Goto(p, "open") /\ UNCHANGED <<mode, fd, found, history>>
       \/ /\ ~OldEnough(p) \/ mode[p] = "host"
          /\ After(p, FALSE)
    /\ UNCHANGED files

OpenMarker(p) ==
    /\ pc[p] = "open"
    /\ IF marker = 0 THEN After(p, TRUE)
       ELSE /\ fd' = [fd EXCEPT ![p] = marker] /\ Goto(p, "lock")
            /\ UNCHANGED <<mode, found, history>>
    /\ UNCHANGED files

\* Mutant: the answer of the lock is ignored.
LockMarkerIgnored(p) ==
    /\ pc[p] = "lock"
    /\ Goto(p, "read")
    /\ UNCHANGED <<files, mode, fd, found, history>>

LockMarker(p) ==
    /\ pc[p] = "lock"
    /\ IF lock[fd[p]] # Nobody THEN After(p, FALSE) /\ UNCHANGED lock
       ELSE /\ lock' = [lock EXCEPT ![fd[p]] = p] /\ Goto(p, "read")
            /\ UNCHANGED <<mode, fd, found, history>>
    /\ UNCHANGED <<dir, marker, content, old, stores, foreign>>

\* Mutant: any regular file at the marker's path will do.
MagicAny(p) == TRUE

Magic(p) == content[fd[p]] = "magic"

ReadMarker(p) ==
    /\ pc[p] = "read"
    /\ found' = [found EXCEPT ![p].removable = Magic(p)]
    /\ Goto(p, "list")
    /\ UNCHANGED <<files, mode, fd, history>>

\* readDir and the check of the entries; a directory that has gone is an error.
ListEntries(p) ==
    /\ pc[p] = "list"
    /\ found' = [found EXCEPT ![p] =
          [removable |-> @.removable /\ dir /\ ~foreign, paths |-> stores,
           err |-> ~dir]]
    /\ Goto(p, "unlock")
    /\ UNCHANGED <<files, mode, fd, history>>

\* unlock and close: what follows is done without the lock.
UnlockMarker(p) ==
    /\ pc[p] = "unlock"
    /\ lock' = Unlocked(p)
    /\ IF found[p].removable
       THEN /\ fd' = [fd EXCEPT ![p] = 0] /\ Goto(p, "remove")
            /\ UNCHANGED <<mode, found, history>>
       ELSE After(p, found[p].err)
    /\ UNCHANGED <<dir, marker, content, old, stores, foreign>>

RemoveStore(p) ==
    /\ pc[p] = "remove"
    /\ \/ \E s \in found[p].paths :
            /\ stores' = stores \ {s}
            /\ found' = [found EXCEPT ![p].paths = @ \ {s}]
            /\ UNCHANGED pc
       \/ /\ found[p].paths = {} /\ Goto(p, "removeMarker")
          /\ UNCHANGED <<stores, found>>
    /\ UNCHANGED <<dir, marker, content, old, lock, foreign, mode, fd, history>>

\* remove takes whatever is at the path by now.
RemoveMarker(p) ==
    /\ pc[p] = "removeMarker"
    /\ marker' = 0 /\ Goto(p, "removeDir")
    /\ UNCHANGED <<dir, content, old, lock, stores, foreign, mode, fd, found,
                   history>>

RemoveDir(p) ==
    /\ pc[p] = "removeDir"
    /\ dir' = (dir /\ ~Empty)
    /\ After(p, dir /\ ~Empty)
    /\ UNCHANGED <<marker, content, old, lock, stores, foreign>>

\* A system call of a reclamation fails: the marker is closed, which gives the
\* lock up, and the rest is left alone.
ReclaimFails(p) ==
    /\ pc[p] \in {"lstat", "open", "lock", "unlock", "remove", "removeMarker",
                  "removeDir"}
    /\ lock' = Unlocked(p)
    /\ After(p, TRUE)
    /\ UNCHANGED <<dir, marker, content, old, stores, foreign>>

-----------------------------------------------------------------------------
\* openOwnedSessionMarker and openUndoStore

MkdirAll(p) ==
    /\ pc[p] = "mkdir"
    /\ dir' = TRUE /\ Goto(p, "create")
    /\ UNCHANGED <<marker, content, old, lock, stores, foreign, mode, fd, found,
                   history>>

Free == CHOOSE i \in Inodes : i # marker /\ \A q \in Procs : fd[q] # i

\* O_EXCL: ErrSessionInUse if there is a marker, an error without a directory.
CreateMarker(p) ==
    /\ pc[p] = "create"
    /\ IF marker # 0 \/ ~dir
       THEN Return(p, "idle") /\ UNCHANGED <<files, fd>>
       ELSE /\ marker' = Free /\ fd' = [fd EXCEPT ![p] = Free]
            /\ content' = [content EXCEPT ![Free] = "empty"]
            /\ old' = [old EXCEPT ![Free] = FALSE]
            /\ Goto(p, "write")
            /\ UNCHANGED <<dir, lock, stores, foreign, history>>
    /\ UNCHANGED <<mode, found>>

\* writeMarker and syncMarker
WriteMarker(p) ==
    /\ pc[p] = "write"
    /\ content' = [content EXCEPT ![fd[p]] = "magic"]
    /\ Goto(p, "lockOwn")
    /\ UNCHANGED <<dir, marker, old, lock, stores, foreign, mode, fd, found,
                   history>>

LockOwn(p) ==
    /\ pc[p] = "lockOwn"
    /\ IF lock[fd[p]] # Nobody THEN Goto(p, "abort") /\ UNCHANGED <<lock, racers>>
       ELSE /\ lock' = [lock EXCEPT ![fd[p]] = p]
            /\ racers' = [racers EXCEPT ![p] =
                  {q \in Procs \ {p} : AtWork(q)}]
            /\ Goto(p, "store")
    /\ UNCHANGED <<dir, marker, content, old, stores, foreign, mode, fd, found,
                   calls, displaced, contended>>

\* The cleanup of a failed open: close and remove, then an empty directory.
OpenFails(p) ==
    /\ pc[p] \in {"write", "lockOwn"}
    /\ Goto(p, "abort")
    /\ UNCHANGED <<files, mode, fd, found, history>>

Abort(p) ==
    /\ pc[p] = "abort"
    /\ marker' = 0 /\ fd' = [fd EXCEPT ![p] = 0]
    /\ Goto(p, "closeDir")
    /\ UNCHANGED <<dir, content, old, lock, stores, foreign, mode, found, history>>

\* openUndoStore makes the directory again if need be.  Without a store the
\* marker is closed.
OpenStore(p) ==
    /\ pc[p] = "store"
    /\ \/ /\ dir' = TRUE /\ stores' = stores \cup {p}
          /\ Return(p, "live")
       \/ Goto(p, "closeUnlock") /\ UNCHANGED <<dir, stores, history>>
    /\ UNCHANGED <<marker, content, old, lock, foreign, mode, fd, found>>

-----------------------------------------------------------------------------
\* Close, and Open when it fails after the undo store

Close(p) ==
    /\ pc[p] = "live"
    /\ stores' = stores \ {p}
    /\ Goto(p, "closeUnlock")
    /\ contended' = (contended \/ \E q \in Procs \ {p} : AtWork(q))
    /\ displaced' = IF marker = fd[p] THEN displaced ELSE displaced \cup {p}
    /\ UNCHANGED <<dir, marker, content, old, lock, foreign, mode, fd, found,
                   calls, racers>>

\* sessionMarker.close: unlock and close ...
CloseUnlock(p) ==
    /\ pc[p] = "closeUnlock"
    /\ lock' = Unlocked(p) /\ fd' = [fd EXCEPT ![p] = 0]
    /\ Goto(p, "closeMarker")
    /\ UNCHANGED <<dir, marker, content, old, stores, foreign, mode, found,
                   history>>

\* ... and then remove the path.
CloseMarker(p) ==
    /\ pc[p] = "closeMarker"
    /\ marker' = 0 /\ Goto(p, "closeDir")
    /\ UNCHANGED <<dir, content, old, lock, stores, foreign, mode, fd, found,
                   history>>

\* removeEmptyDirectory
CloseDir(p) ==
    /\ pc[p] = "closeDir"
    /\ dir' = (dir /\ ~Empty)
    /\ Return(p, "idle")
    /\ UNCHANGED <<marker, content, old, lock, stores, foreign, mode, fd, found>>

-----------------------------------------------------------------------------
\* The environment

\* The kernel closes the files of a crashed process; the names stay.
Crash(p) ==
    /\ pc[p] \notin {"idle", "dead"}
    /\ lock' = Unlocked(p) /\ fd' = [fd EXCEPT ![p] = 0]
    /\ found' = [found EXCEPT ![p] = Nothing]
    /\ Return(p, "dead")
    /\ UNCHANGED <<dir, marker, content, old, stores, foreign, mode>>

\* The 24 hours pass.
Age ==
    /\ marker # 0 /\ ~old[marker]
    /\ old' = [old EXCEPT ![marker] = TRUE]
    /\ UNCHANGED <<dir, marker, content, lock, stores, foreign, locals, history>>

Reclaim(p) ==
    \/ Lstat(p) \/ OpenMarker(p) \/ LockMarker(p) \/ ReadMarker(p)
    \/ ListEntries(p) \/ UnlockMarker(p) \/ RemoveStore(p) \/ RemoveMarker(p)
    \/ RemoveDir(p) \/ ReclaimFails(p)
OpenMarkerFile(p) ==
    \/ MkdirAll(p) \/ CreateMarker(p) \/ WriteMarker(p) \/ LockOwn(p)
    \/ OpenFails(p) \/ Abort(p) \/ OpenStore(p)
CloseSession(p) ==
    Close(p) \/ CloseUnlock(p) \/ CloseMarker(p) \/ CloseDir(p)

Next ==
    \/ \E p \in Procs : Begin(p) \/ Reclaim(p) \/ Crash(p)
    \/ \E p \in Sessions : OpenMarkerFile(p) \/ CloseSession(p)
    \/ Age

Spec == Init /\ [][Next]_vars

-----------------------------------------------------------------------------
\* Properties

Holds(p) == pc[p] \in {"store", "live"}

\* What a held marker lock is worth, as long as the Session still has its
\* marker: its undo store is only ever taken away by a call that was already
\* under way when the Session got its lock, and its marker by such a call or by
\* the Close of a Session that had lost its own marker before it closed, which
\* removes whatever is at the path.  Every other reclamation, Open and Close
\* finds the lock held or the marker in place, however old it is.
LockProtects ==
    [][\A p \in Sessions :
          Holds(p) /\ marker = fd[p] /\ pc'[p] = pc[p] =>
            /\ p \in stores \ stores' => \E q \in racers[p] : found'[q] # found[q]
            /\ marker' # marker => \E q \in racers[p] \cup displaced : pc'[q] # pc[q]]_vars

\* As long as calls do not overlap, one Session at a time uses the directory,
\* with its marker in place, and no undo store ever lies there without a
\* written marker, so that a reclamation can get at it: the order in which
\* openOwnedSessionMarker, openUndoStore, Close and reclaimSessionDirectory
\* create and remove the two.
UsedByOne ==
    ~contended =>
      /\ \A p \in Sessions : Holds(p) => marker = fd[p] /\ lock[marker] = p
      /\ \A p \in Sessions : pc[p] = "live" => p \in stores
      /\ stores # {} => marker # 0 /\ content[marker] # "empty"

\* A marker that is still there keeps the Open of p out although nobody has it
\* locked and no entry of the host lies beside it.
Blocked(p) ==
    /\ pc[p] = "mkdir" /\ marker # 0
    /\ lock[marker] = Nobody /\ content[marker] = "magic" /\ ~foreign

\* A crash after the marker was written does not keep the next Open out, if no
\* call overlaps: its own reclamation of the exact directory, which looks at
\* the lock and not at the age, has removed a written marker nobody holds by
\* the time the Open creates its own.  A marker that was created and not yet
\* written has no magic, and is not reclaimed: every later Open is refused.
LeftoverReclaimed ==
    [][~contended => \A p \in Sessions : pc[p] # "mkdir" => ~Blocked(p)']_vars

\* Reclamation is conservative: neither a malformed marker nor an entry that
\* is not Docengine's ever goes away, nor the directory around them, whatever
\* overlaps and crashes.
ForeignKept ==
    /\ foreign => dir
    /\ \A i \in Inodes : content[i] = "malformed" => marker = i /\ dir
          /\ stores \subseteq {Stale}

\* "A held marker lock always protects a live Session regardless of age."
\* (session_cleanup.go:16)
HeldLockProtects ==
    \A p \in Sessions : Holds(p) => marker = fd[p]
=============================================================================
