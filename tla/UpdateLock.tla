----------------------------- MODULE UpdateLock -----------------------------
(***************************************************************************)
(* internal/update/lock.go: the lock file update.lock, by which the client *)
(* processes of one user take turns at changing the installation.          *)
(*                                                                         *)
(* Every access to the file system is a step, as another process may run   *)
(* between any two of them.  A file has an inode number, by which          *)
(* os.SameFile recognises it; the number of a removed file that no process *)
(* has open may come back.  Who created the file (owner, NoProc once that  *)
(* process has died) is not in the code: it says when the file may be      *)
(* older than staleLockAfter.                                              *)
(***************************************************************************)
EXTENDS Naturals

CONSTANTS Proc,         \* processes
          NoProc,       \* no process
          Inode,        \* inode numbers
          NoInode,      \* no inode number
          MaxCrashes,   \* bound: processes that die
          SlowUpdates   \* whether an update may last longer than
                        \* staleLockAfter, 10 minutes: artifactDownloadTimeout
                        \* alone is 30

ASSUME NoProcAssumption == NoProc \notin Proc
ASSUME NoInodeAssumption == NoInode \notin Inode
ASSUME BoundAssumption == MaxCrashes \in Nat /\ SlowUpdates \in BOOLEAN

VARIABLES file,         \* update.lock
          taker,        \* what each process is at, with the lock
          crashes       \* processes that died

lockVars == <<file, taker, crashes>>

-----------------------------------------------------------------------------
(* The lock file: NoFile, or its inode, whether lockMetadata has been       *)
(* written to it, and whether CreatedAt is more than staleLockAfter ago.    *)

NoFile == [ino |-> NoInode, full |-> FALSE, old |-> FALSE, owner |-> NoProc]

NewFile(i, p) == [ino |-> i, full |-> FALSE, old |-> FALSE, owner |-> p]

Exists == file.ino # NoInode

\* Where Acquire and Release are. "busy" is ErrUpdateLocked and "failed" any
\* other error; both are left by the caller's next step.
Stages == {"none", "open", "write", "stat", "inspect", "remove", "held",
           "unlink", "busy", "failed"}

Away == [at |-> "none", attempt |-> 0, ino |-> NoInode]

\* ino is the file that the process has open, then Lock.info.
Go(p, stage) == taker' = [taker EXCEPT ![p].at = stage]

Holds(p) == taker[p].at = "held"

-----------------------------------------------------------------------------
(* Acquire *)

Begin(p) ==
    /\ taker[p].at = "none"
    /\ taker' = [taker EXCEPT ![p] = [Away EXCEPT !.at = "open"]]
    /\ UNCHANGED <<file, crashes>>

\* Defective variant: the lock is opened without O_EXCL.
CreateShared(p) ==
    /\ taker[p].at = "open"
    /\ \E i \in Inode \ {taker[q].ino : q \in {r \in Proc : taker[r].at = "write"}} :
        /\ file' = NewFile(i, p)
        /\ taker' = [taker EXCEPT ![p].at = "write", ![p].ino = i]
    /\ UNCHANGED crashes

\* O_EXCL: no other file is there, and the inode is none that is still open.
Create(p) ==
    /\ taker[p].at = "open"
    /\ ~Exists
    /\ \E i \in Inode \ {taker[q].ino : q \in {r \in Proc : taker[r].at = "write"}} :
        /\ file' = NewFile(i, p)
        /\ taker' = [taker EXCEPT ![p].at = "write", ![p].ino = i]
    /\ UNCHANGED crashes

FindExisting(p) ==
    /\ taker[p].at = "open"
    /\ Exists
    /\ Go(p, "inspect")
    /\ UNCHANGED <<file, crashes>>

\* Encode, Sync and Close write to the file this process has opened, whether
\* or not it is still update.lock.
WriteMetadata(p) ==
    /\ taker[p].at = "write"
    /\ file' = IF file.ino = taker[p].ino THEN [file EXCEPT !.full = TRUE] ELSE file
    /\ Go(p, "stat")
    /\ UNCHANGED crashes

\* Defective variant: the file that could not be written stays.
WriteFailsLeaving(p) ==
    /\ taker[p].at = "write"
    /\ Go(p, "failed")
    /\ UNCHANGED <<file, crashes>>

\* One of them fails, and os.Remove takes whatever file is at the path.
WriteFails(p) ==
    /\ taker[p].at = "write"
    /\ file' = NoFile
    /\ Go(p, "failed")
    /\ UNCHANGED crashes

\* The Lstat whose result Release will compare with.
StatLock(p) ==
    /\ taker[p].at = "stat"
    /\ taker' = [taker EXCEPT ![p].at  = IF Exists THEN "held" ELSE "failed",
                              ![p].ino = file.ino]
    /\ UNCHANGED <<file, crashes>>

\* staleUpdateLock: a file that is gone or without metadata is an error.
Inspect(p) ==
    /\ taker[p].at = "inspect"
    /\ Go(p, IF ~Exists \/ ~file.full THEN "failed"
             ELSE IF file.old /\ taker[p].attempt = 0 THEN "remove"
             ELSE "busy")
    /\ UNCHANGED <<file, crashes>>

\* os.Remove takes the file that is there now.
RemoveStale(p) ==
    /\ taker[p].at = "remove"
    /\ file' = NoFile
    /\ taker' = [taker EXCEPT ![p].at = IF Exists THEN "open" ELSE "failed",
                              ![p].attempt = 1]
    /\ UNCHANGED crashes

\* The caller takes note of the error.
GiveUp(p) ==
    /\ taker[p].at \in {"busy", "failed"}
    /\ taker' = [taker EXCEPT ![p] = Away]
    /\ UNCHANGED <<file, crashes>>

-----------------------------------------------------------------------------
(* Release *)

\* Lstat and SameFile: the lock that another process has made is left alone.
Release(p) ==
    /\ Holds(p)
    /\ taker' = [taker EXCEPT ![p] =
                    IF file.ino = taker[p].ino THEN [@ EXCEPT !.at = "unlink"] ELSE Away]
    /\ UNCHANGED <<file, crashes>>

Unlink(p) ==
    /\ taker[p].at = "unlink"
    /\ file' = NoFile
    /\ taker' = [taker EXCEPT ![p] = Away]
    /\ UNCHANGED crashes

-----------------------------------------------------------------------------
(* Time and failure *)

GrowOld ==
    /\ file.full /\ ~file.old
    /\ SlowUpdates \/ file.owner = NoProc
    /\ file' = [file EXCEPT !.old = TRUE]
    /\ UNCHANGED <<taker, crashes>>

\* The process dies; the file it has made stays.
LoseTaker(p) ==
    /\ crashes < MaxCrashes
    /\ crashes' = crashes + 1
    /\ file' = IF file.owner = p THEN [file EXCEPT !.owner = NoProc] ELSE file
    /\ taker' = [taker EXCEPT ![p] = Away]

-----------------------------------------------------------------------------
LockInit ==
    /\ file = NoFile
    /\ taker = [p \in Proc |-> Away]
    /\ crashes = 0

Acquire(p) ==
    \/ Create(p) \/ FindExisting(p) \/ WriteMetadata(p) \/ WriteFails(p)
    \/ StatLock(p) \/ Inspect(p) \/ RemoveStale(p)

LockNext ==
    \/ \E p \in Proc : Begin(p) \/ Acquire(p) \/ GiveUp(p)
    \/ \E p \in Proc : Release(p) \/ Unlink(p)
    \/ GrowOld
    \/ \E p \in Proc : LoseTaker(p)

LockSpec == LockInit /\ [][LockNext]_lockVars

-----------------------------------------------------------------------------
(* Properties *)

\* Every field has a value of its kind.
LockTypeOK ==
    /\ file \in [ino : Inode \cup {NoInode}, full : BOOLEAN, old : BOOLEAN,
                 owner : Proc \cup {NoProc}]
    /\ taker \in [Proc -> [at : Stages, attempt : 0..1, ino : Inode \cup {NoInode}]]
    /\ crashes \in 0..MaxCrashes

\* Two processes never both believe that they hold the lock: each would change
\* the installation under the other.
OneUpdater == \A p, q \in Proc : Holds(p) /\ Holds(q) => p = q

\* A lock whose owner lives is the file its owner knows: nobody has put another
\* in its place, so Release finds it.
OwnerKnowsFile ==
    \A p \in Proc : taker[p].at \in {"held", "unlink"} =>
        file.ino = taker[p].ino /\ file.owner = p

\* No lock stays behind when nobody died: whoever created the file is still at
\* it, or has it to release.
NoLeak == Exists /\ file.owner # NoProc =>
            taker[file.owner].at \in {"write", "stat", "held", "unlink"}

=============================================================================
