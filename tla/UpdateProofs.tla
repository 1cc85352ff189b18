---------------------------- MODULE UpdateProofs ----------------------------
(***************************************************************************)
(* Theorems about the client's update, for any number of processes,        *)
(* releases and crashes: the order of versions; the lock while no update   *)
(* dies or outlasts staleLockAfter; what the client processes never do;    *)
(* and the installation they share: how a lock comes to its end, whom a    *)
(* rollback may take the pointer from, what an uninstall leaves, and that  *)
(* the launcher finds a client.                                            *)
(***************************************************************************)
EXTENDS ClientUpdate, TLAPS

-----------------------------------------------------------------------------
(* The order of versions *)

\* Compare is a total order: exactly one of before, same and after holds, the
\* other way round for the other order of arguments, and same means equal.
THEOREM CompareIsAntisymmetric ==
    ASSUME NEW v \in Version, NEW w \in Version
    PROVE  /\ Compare(v, w) \in {-1, 0, 1}
           /\ Compare(v, w) = - Compare(w, v)
           /\ Compare(v, w) = 0 <=> v = w
<1>1. /\ v.major \in Nat /\ v.minor \in Nat /\ v.patch \in Nat
      /\ w.major \in Nat /\ w.minor \in Nat /\ w.patch \in Nat
  BY DEF Version
<1>2. v = w <=> v.major = w.major /\ v.minor = w.minor /\ v.patch = w.patch
  BY DEF Version
<1> QED
  BY <1>1, <1>2 DEF Compare, Order

\* What precedes a version that precedes another precedes that other too.
THEOREM CompareIsTransitive ==
    ASSUME NEW u \in Version, NEW v \in Version, NEW w \in Version,
           Compare(u, v) <= 0, Compare(v, w) <= 0
    PROVE  /\ Compare(u, w) <= 0
           /\ Compare(u, v) < 0 \/ Compare(v, w) < 0 => Compare(u, w) < 0
<1>1. /\ u.major \in Nat /\ u.minor \in Nat /\ u.patch \in Nat
      /\ v.major \in Nat /\ v.minor \in Nat /\ v.patch \in Nat
      /\ w.major \in Nat /\ w.minor \in Nat /\ w.patch \in Nat
  BY DEF Version
<1> QED
  BY <1>1 DEF Compare, Order

\* A client is told to update only to a later version, for every manifest that
\* VerifyManifest accepts.
THEOREM OnlyUpward ==
    ASSUME NEW v \in Version, NEW m \in Manifest,
           DecisionFor(v, m.latest, m.minimum) \in {"optional", "required"}
    PROVE  Compare(v, m.latest) < 0
<1>1. m.latest \in Version /\ m.minimum \in Version /\ Compare(m.minimum, m.latest) <= 0
  BY DEF Manifest
<1>2. CASE Compare(v, m.minimum) < 0
  <2>1. Compare(v, m.minimum) <= 0
    BY <1>1, <1>2, CompareIsAntisymmetric
  <2> QED BY <1>1, <1>2, <2>1, CompareIsTransitive
<1>3. CASE ~(Compare(v, m.minimum) < 0)
  BY <1>3 DEF DecisionFor
<1> QED BY <1>2, <1>3

\* The version a client updates to is up to date: an update is not followed by
\* another one for the same manifest.
THEOREM UpdateSettles ==
    ASSUME NEW m \in Manifest
    PROVE  DecisionFor(m.latest, m.latest, m.minimum) = "current"
<1>1. m.latest \in Version /\ m.minimum \in Version /\ Compare(m.minimum, m.latest) <= 0
  BY DEF Manifest
<1>2. Compare(m.latest, m.latest) = 0
  BY <1>1, CompareIsAntisymmetric
<1>3. Compare(m.latest, m.minimum) = - Compare(m.minimum, m.latest)
  BY <1>1, CompareIsAntisymmetric
<1>4. Compare(m.minimum, m.latest) \in {-1, 0, 1}
  BY <1>1, CompareIsAntisymmetric
<1>5. ~(Compare(m.latest, m.minimum) < 0)
  BY <1>1, <1>3, <1>4
<1> QED BY <1>2, <1>5 DEF DecisionFor

-----------------------------------------------------------------------------
(* The lock *)

\* While a file is there it has an owner, who is between creating and removing
\* it, and it is never stale.
LockInv ==
    /\ LockTypeOK
    /\ ~file.old
    /\ file.owner \in Proc \/ file = NoFile
    /\ \A p \in Proc : taker[p].at # "remove"
    /\ \A p \in Proc : taker[p].at \in {"write", "stat", "held", "unlink"} =>
          file.ino = taker[p].ino /\ file.owner = p /\ file.ino # NoInode

\* No update dies, and none lasts longer than staleLockAfter.
NoFaults == MaxCrashes = 0 /\ SlowUpdates = FALSE

LEMMA LockInvInit == LockInit => LockInv
BY NoInodeAssumption, BoundAssumption
DEF LockInit, LockInv, LockTypeOK, NoFile, Away, Stages

LEMMA LockInvStep ==
    ASSUME NoFaults, LockInv, [LockNext]_lockVars
    PROVE  LockInv'
<1> USE NoProcAssumption, NoInodeAssumption, BoundAssumption
    DEF NoFaults, LockInv, LockTypeOK, Stages, Go, Away, Exists, Holds
<1>1. ASSUME NEW p \in Proc, Begin(p) PROVE LockInv'
  BY <1>1 DEF Begin
<1>2. ASSUME NEW p \in Proc, Create(p) PROVE LockInv'
  <2>1. PICK i \in Inode : file' = NewFile(i, p) /\
                taker' = [taker EXCEPT ![p].at = "write", ![p].ino = i]
    BY <1>2 DEF Create
  <2>2. \A q \in Proc : taker[q].at \notin {"write", "stat", "held", "unlink"}
    BY <1>2 DEF Create
  <2>3. crashes' = crashes
    BY <1>2 DEF Create
  <2>4. LockTypeOK'
    BY ZenonT(60), <2>1, <2>3 DEF NewFile
  <2>5. file'.owner = p /\ file'.ino = i /\ file'.old = FALSE
    BY <2>1 DEF NewFile
  <2>6. \A q \in Proc : IF q = p THEN taker'[q].at = "write" /\ taker'[q].ino = i
                       ELSE taker'[q] = taker[q]
    BY <2>1
  <2> QED BY <2>2, <2>4, <2>5, <2>6
<1>3. ASSUME NEW p \in Proc, FindExisting(p) PROVE LockInv'
  BY <1>3 DEF FindExisting
<1>4. ASSUME NEW p \in Proc, WriteMetadata(p) PROVE LockInv'
  <2>1. file.ino = taker[p].ino /\ file.owner = p /\ taker[p].at = "write"
    BY <1>4 DEF WriteMetadata
  <2>2. file' = [file EXCEPT !.full = TRUE]
    BY <1>4, <2>1 DEF WriteMetadata
  <2>3. file'.ino = file.ino /\ file'.owner = p /\ file'.old = file.old
    BY <2>1, <2>2
  <2>4. LockTypeOK'
    <3>1. file' \in [ino : Inode \cup {NoInode}, full : BOOLEAN, old : BOOLEAN,
                     owner : Proc \cup {NoProc}]
      BY <2>2
    <3>2. taker' = [taker EXCEPT ![p].at = "stat"] /\ crashes' = crashes
      BY <1>4 DEF WriteMetadata
    <3> QED BY <3>1, <3>2
  <2>5. \A q \in Proc : IF q = p THEN taker'[q].at = "stat" /\ taker'[q].ino = taker[q].ino
                       ELSE taker'[q] = taker[q]
    BY <1>4 DEF WriteMetadata
  <2> QED BY <2>1, <2>3, <2>4, <2>5
<1>5. ASSUME NEW p \in Proc, WriteFails(p) PROVE LockInv'
  <2>1. \A q \in Proc \ {p} : taker[q].at \notin {"write", "stat", "held", "unlink"}
    BY <1>5 DEF WriteFails
  <2>2. \A q \in Proc : IF q = p THEN taker'[q].at = "failed" ELSE taker'[q] = taker[q]
    BY <1>5 DEF WriteFails
  <2>3. file' = NoFile /\ ~file'.old
    BY <1>5 DEF WriteFails, NoFile
  <2>4. LockTypeOK'
    BY <1>5 DEF WriteFails, NoFile
  <2> QED BY <2>1, <2>2, <2>3, <2>4
<1>6. ASSUME NEW p \in Proc, StatLock(p) PROVE LockInv'
  <2>1. file' = file /\ crashes' = crashes
    BY <1>6 DEF StatLock
  <2>2. file.ino = taker[p].ino /\ file.owner = p /\ file.ino # NoInode
    BY <1>6 DEF StatLock
  <2>3. taker' = [taker EXCEPT ![p].at = "held", ![p].ino = file.ino]
    BY <1>6, <2>2 DEF StatLock
  <2>4. LockTypeOK'
    BY ZenonT(60), <2>1, <2>3
  <2>5. \A q \in Proc : IF q = p THEN taker'[q].at = "held" /\ taker'[q].ino = file.ino
                       ELSE taker'[q] = taker[q]
    BY <2>3
  <2> QED BY <2>1, <2>2, <2>4, <2>5
<1>7. ASSUME NEW p \in Proc, Inspect(p) PROVE LockInv'
  BY <1>7 DEF Inspect
<1>8. ASSUME NEW p \in Proc, RemoveStale(p) PROVE LockInv'
  BY <1>8 DEF RemoveStale
<1>9. ASSUME NEW p \in Proc, GiveUp(p) PROVE LockInv'
  BY <1>9 DEF GiveUp
<1>10. ASSUME NEW p \in Proc, Release(p) PROVE LockInv'
  BY <1>10 DEF Release
<1>11. ASSUME NEW p \in Proc, Unlink(p) PROVE LockInv'
  <2>1. \A q \in Proc \ {p} : taker[q].at \notin {"write", "stat", "held", "unlink"}
    BY <1>11 DEF Unlink
  <2>2. \A q \in Proc : IF q = p THEN taker'[q].at = "none" ELSE taker'[q] = taker[q]
    BY <1>11 DEF Unlink
  <2>3. file' = NoFile /\ ~file'.old
    BY <1>11 DEF Unlink, NoFile
  <2>4. LockTypeOK'
    BY <1>11 DEF Unlink, NoFile
  <2> QED BY <2>1, <2>2, <2>3, <2>4
<1>12. ASSUME GrowOld PROVE FALSE
  <2>1. file.full /\ file.owner = NoProc
    BY <1>12 DEF GrowOld
  <2>2. file = NoFile
    BY <2>1
  <2> QED BY <2>1, <2>2 DEF NoFile
<1>13. ASSUME NEW p \in Proc, LoseTaker(p) PROVE FALSE
  BY <1>13 DEF LoseTaker
<1>14. CASE UNCHANGED lockVars
  BY <1>14 DEF lockVars
<1> QED
  BY <1>1, <1>2, <1>3, <1>4, <1>5, <1>6, <1>7, <1>8, <1>9, <1>10, <1>11, <1>12, <1>13,
     <1>14 DEF LockNext, Acquire

\* The lock keeps its users apart, whatever their number: two processes never
\* both believe that they hold it.
THEOREM LockExcludes ==
    ASSUME NoFaults PROVE LockSpec => []OneUpdater
<1>1. LockInv => OneUpdater
  BY DEF LockInv, OneUpdater, Holds
<1>2. LockInv /\ [LockNext]_lockVars => LockInv'
  BY LockInvStep
<1> QED
  BY <1>1, <1>2, LockInvInit, PTL DEF LockSpec

\* The file its owner has made stays in its place until the owner removes it.
THEOREM LockStays ==
    ASSUME NoFaults PROVE LockSpec => []OwnerKnowsFile
<1>1. LockInv => OwnerKnowsFile
  BY DEF LockInv, OwnerKnowsFile
<1>2. LockInv /\ [LockNext]_lockVars => LockInv'
  BY LockInvStep
<1> QED
  BY <1>1, <1>2, LockInvInit, PTL DEF LockSpec

-----------------------------------------------------------------------------
(* The client processes use the lock by its rules *)

LEMMA LockStepAllowed ==
    ASSUME NEW p \in Proc, LockStep(p)
    PROVE  LockNext
BY DEF LockStep, LockNext

\* What a process does with the lock is a step of Acquire or of Release, and
\* nothing else changes the lock; a crash apart, which is one of the lock too.
LEMMA NextKeepsRules ==
    ASSUME [Next]_vars
    PROVE  [LockNext]_lockVars
<1>1. ASSUME NEW p \in Proc, ClientNext(p) PROVE [LockNext]_lockVars
  <2>1. CASE InstallNext(p)
    BY <2>1 DEF InstallNext, InstallBusy, CompletedByAnother, InstallFailed, FoundChanged,
       Reuse, Fetch, Stage, InstallStepFails, Promote, Point, Undo, InstallReturns, LockNext
  <2>2. CASE RollbackNext(p)
    BY <2>2 DEF RollbackNext, KeepShared, BeginRollback, RollbackRefused, RollbackPoint,
       RollbackFails, RollbackDiscard, RollbackReturns, LockNext
  <2>3. CASE LockStep(p)
    BY <2>3, LockStepAllowed
  <2>4. CASE AcceptUpdate(p) \/ Retry(p)
    BY <2>4 DEF AcceptUpdate, Retry, LockNext
  <2>5. CASE \/ Start(p) \/ StartFails(p) \/ Sweep(p) \/ EndCleanup(p) \/ EnterChat(p)
             \/ Decline(p) \/ GiveUpUpdate(p) \/ LaunchFails(p) \/ Relaunched(p)
             \/ LeaveChat(p) \/ UpgradeRequired(p)
             \/ (\E q \in Proc : Launch(p, q))
             \/ (\E e \in proc[p].garbage : RemoveEntry(p, e))
    BY <2>5 DEF Start, StartFails, Sweep, EndCleanup, EnterChat, Decline, GiveUpUpdate,
       LaunchFails, Relaunched, LeaveChat, UpgradeRequired, Launch, RemoveEntry, End
  <2> QED BY <1>1, <2>1, <2>2, <2>3, <2>4, <2>5 DEF ClientNext
<1>2. ASSUME NEW p \in Proc, UninstallNext(p) PROVE [LockNext]_lockVars
  BY <1>2 DEF UninstallNext, BeginUninstall, UninstallRefused, RemoveVersions,
     RemovePointer, RemovalFails, UninstallReturns, LockNext
<1>3. ASSUME NEW p \in Proc, Crash(p) PROVE [LockNext]_lockVars
  BY <1>3 DEF Crash, LockNext
<1>4. CASE Publish \/ Time
  BY <1>4 DEF Publish, Time, LockNext
<1>5. CASE UNCHANGED vars
  BY <1>5 DEF vars, lockVars
<1> QED BY <1>1, <1>2, <1>3, <1>4, <1>5 DEF Next

\* The installation implements the lock: every behaviour of the clients is one
\* of the lock's, on its part of the state.
THEOREM ClientsImplementLock == Spec => LockRules
<1>1. Init => LockInit
  BY DEF Init
<1> QED
  BY <1>1, NextKeepsRules, PTL DEF Spec, LockRules, LockSpec

\* So two processes are never both installing, taking back or uninstalling.
THEOREM OneUpdaterAtATime ==
    ASSUME NoFaults PROVE Spec => []OneUpdater
BY ClientsImplementLock, LockExcludes, PTL DEF LockRules

-----------------------------------------------------------------------------
(* What a client process decides *)

\* Where a process is from accepting an update until it goes on without it.
Updating == {"asking", "locking", "verifying", "downloading", "promoting", "pointing",
             "undoing", "releasing", "launching", "waiting", "launch_failed",
             "taking_back", "discarding", "taken_back"}

\* A refused client that is updating takes the update for required, so that
\* it does not go on to the chat without it.
RefusedRequires ==
    \A p \in Proc : proc[p].known =>
        ~At(p, "chatting") /\ (proc[p].at \in Updating => proc[p].required)

ProcInv == ProcTypeOK /\ RefusedRequires /\ Upward

LEMMA OffTyped == Off \in ProcType
BY DEF Off, NoResult, ProcType, Places, Named

LEMMA StartedTyped ==
    ASSUME NEW v \in Releases, NEW q \in Proc \cup {NoProc}
    PROVE  Started(v, q) \in ProcType
<1>1. "sweeping" \in Places
  BY DEF Places
<1> QED BY <1>1, OffTyped DEF Started, ProcType, Named

LEMMA FieldsTyped ==
    ASSUME NEW x \in ProcType, NEW w \in Places
    PROVE  /\ [x EXCEPT !.at = w] \in ProcType
           /\ [x EXCEPT !.parent = NoProc] \in ProcType
BY DEF ProcType

\* A step that only moves on from one place to another.
LEMMA MoveKeeps ==
    ASSUME ProcInv, NEW p \in Proc, NEW w \in Places, Move(p, w),
           proc[p].known => w # "chatting" /\ (w \in Updating => proc[p].required)
    PROVE  ProcInv'
<1>1. proc' = [proc EXCEPT ![p].at = w]
  BY DEF Move
<1>2. ProcTypeOK'
  BY <1>1, FieldsTyped DEF ProcInv, ProcTypeOK
<1>3. \A q \in Proc : /\ proc'[q].known = proc[q].known
                      /\ proc'[q].required = proc[q].required
                      /\ proc'[q].version = proc[q].version
                      /\ proc'[q].target = proc[q].target
                      /\ proc'[q].at = IF q = p THEN w ELSE proc[q].at
  BY <1>1 DEF ProcInv, ProcTypeOK, ProcType
<1>4. RefusedRequires'
  BY <1>3 DEF ProcInv, RefusedRequires, At
<1>5. Upward'
  BY <1>3 DEF ProcInv, Upward
<1> QED BY <1>2, <1>4, <1>5 DEF ProcInv

\* The end of a process, for itself, its parent and its child.
LEMMA EndKeeps ==
    ASSUME ProcInv, NEW p \in Proc, NEW code, EndWith(p, code)
    PROVE  ProcInv'
<1> DEFINE result == IF code = 0 THEN "relaunched" ELSE "launch_failed"
<1>1. proc' = [r \in Proc |-> After(r, p, result)]
  BY DEF EndWith
<1>2. ASSUME NEW q \in Proc
      PROVE  \/ proc'[q] = Off
             \/ At(q, "waiting") /\ proc'[q] = [proc[q] EXCEPT !.at = result]
             \/ proc'[q] = [proc[q] EXCEPT !.parent = NoProc]
             \/ proc'[q] = proc[q]
  BY <1>1 DEF After
<1>3. ASSUME NEW q \in Proc
      PROVE  /\ proc[q].at \in Places
             /\ \/ proc'[q] = Off
                \/ /\ proc'[q].known = proc[q].known
                   /\ proc'[q].required = proc[q].required
                   /\ proc'[q].version = proc[q].version
                   /\ proc'[q].target = proc[q].target
                   /\ \/ proc'[q].at = proc[q].at
                      \/ proc'[q].at = "relaunched"
                      \/ proc[q].at = "waiting" /\ proc'[q].at = "launch_failed"
  BY ZenonT(60), <1>2 DEF At, ProcInv, ProcTypeOK, ProcType
<1>4. ProcTypeOK'
  <2>1. "relaunched" \in Places /\ "launch_failed" \in Places
    BY DEF Places
  <2>2. \A q \in Proc : proc[q] \in ProcType
    BY DEF ProcInv, ProcTypeOK
  <2>3. ASSUME NEW q \in Proc PROVE proc'[q] \in ProcType
    <3>1. proc[q] \in ProcType
      BY <2>2
    <3>2. [proc[q] EXCEPT !.at = result] \in ProcType
      BY <2>1, <3>1, FieldsTyped
    <3>3. [proc[q] EXCEPT !.parent = NoProc] \in ProcType
      BY <2>1, <3>1, FieldsTyped
    <3> HIDE DEF result
    <3> QED BY <1>2, <3>1, <3>2, <3>3, OffTyped
  <2> QED BY <1>1, <2>3 DEF ProcTypeOK
<1>5. RefusedRequires'
  BY <1>3 DEF ProcInv, RefusedRequires, At, Off, Updating
<1>6. Upward'
  BY <1>3 DEF ProcInv, Upward, Off
<1> QED BY <1>4, <1>5, <1>6 DEF ProcInv

\* A new process, of a version that was installed.
LEMMA StartKeeps ==
    ASSUME ProcInv, NEW p \in Proc, NEW v \in Releases, NEW q \in Proc \cup {NoProc},
           q \in Proc => q # p /\ proc[q].at = "launching",
           proc' = [r \in Proc |-> IF r = p THEN Started(v, q)
                                   ELSE IF r = q THEN [proc[q] EXCEPT !.at = "waiting"]
                                   ELSE proc[r]]
    PROVE  ProcInv'
<1>1. ProcTypeOK'
  <2>1. "waiting" \in Places
    BY DEF Places
  <2>2. \A r \in Proc : proc[r] \in ProcType
    BY DEF ProcInv, ProcTypeOK
  <2>3. ASSUME NEW r \in Proc PROVE proc'[r] \in ProcType
    <3>1. Started(v, q) \in ProcType
      BY StartedTyped
    <3>2. [proc[r] EXCEPT !.at = "waiting"] \in ProcType
      BY <2>1, <2>2, FieldsTyped
    <3>3. CASE r = p
      BY <3>1, <3>3
    <3>4. CASE r # p /\ r = q
      BY <3>2, <3>4
    <3>5. CASE r # p /\ r # q
      BY <2>2, <3>5
    <3> QED BY <3>3, <3>4, <3>5
  <2> QED BY <2>3 DEF ProcTypeOK
<1>2. \A r \in Proc :
        \/ r = p /\ proc'[r] = Started(v, q)
        \/ /\ proc'[r].known = proc[r].known
           /\ proc'[r].required = proc[r].required
           /\ proc'[r].version = proc[r].version
           /\ proc'[r].target = proc[r].target
           /\ proc'[r].at = IF r = q THEN "waiting" ELSE proc[r].at
  BY DEF ProcInv, ProcTypeOK, ProcType
<1>3. /\ Started(v, q).known = FALSE
      /\ Started(v, q).target = NoVersion
  BY DEF Started, Off
<1>4. RefusedRequires'
  BY <1>2, <1>3 DEF ProcInv, RefusedRequires, At, Updating
<1>5. Upward'
  BY <1>2, <1>3 DEF ProcInv, Upward
<1> QED BY <1>1, <1>4, <1>5 DEF ProcInv

\* The lock file and the taker, each by itself.
FileTypeOK ==
    file \in [ino : Inode \cup {NoInode}, full : BOOLEAN, old : BOOLEAN,
              owner : Proc \cup {NoProc}]
TakerTypeOK ==
    taker \in [Proc -> [at : Stages, attempt : 0..1, ino : Inode \cup {NoInode}]]

LEMMA LockTypeParts ==
    /\ LockTypeOK <=> FileTypeOK /\ TakerTypeOK /\ crashes \in 0..MaxCrashes
    /\ LockTypeOK' <=> FileTypeOK' /\ TakerTypeOK' /\ (crashes \in 0..MaxCrashes)'
BY DEF LockTypeOK, FileTypeOK, TakerTypeOK

LEMMA TakerFields ==
    ASSUME NEW x \in [at : Stages, attempt : 0..1, ino : Inode \cup {NoInode}],
           NEW w \in Stages, NEW a \in 0..1
    PROVE  [x EXCEPT !.at = w, !.attempt = a]
              \in [at : Stages, attempt : 0..1, ino : Inode \cup {NoInode}]
OBVIOUS

LEMMA TakerFound ==
    ASSUME NEW x \in [at : Stages, attempt : 0..1, ino : Inode \cup {NoInode}],
           NEW w \in Stages, NEW i \in Inode \cup {NoInode}
    PROVE  [x EXCEPT !.at = w, !.ino = i]
              \in [at : Stages, attempt : 0..1, ino : Inode \cup {NoInode}]
OBVIOUS

LEMMA LockTypeStep ==
    ASSUME LockTypeOK, [LockNext]_lockVars
    PROVE  LockTypeOK'
<1> USE BoundAssumption DEF LockTypeOK, Go, Stages
<1>1. ASSUME NEW p \in Proc, Begin(p) PROVE LockTypeOK'
  BY <1>1 DEF Begin, Away
<1>2. ASSUME NEW p \in Proc, Acquire(p) PROVE LockTypeOK'
  <2>1. CASE Create(p)
    <3>1. PICK i \in Inode : file' = NewFile(i, p) /\ crashes' = crashes /\
                taker' = [taker EXCEPT ![p].at = "write", ![p].ino = i]
      BY <2>1 DEF Create
    <3>2. FileTypeOK'
      BY <3>1 DEF NewFile, FileTypeOK
    <3>3. TakerTypeOK'
      BY ZenonT(60), <3>1 DEF TakerTypeOK
    <3> QED BY <3>1, <3>2, <3>3, LockTypeParts
  <2>2. CASE FindExisting(p)
    BY <2>2 DEF FindExisting
  <2>3. CASE WriteMetadata(p)
    <3>1. file' \in {file, [file EXCEPT !.full = TRUE]}
      BY <2>3 DEF WriteMetadata
    <3>2. taker' = [taker EXCEPT ![p].at = "stat"] /\ crashes' = crashes
      BY <2>3 DEF WriteMetadata
    <3>3. FileTypeOK'
      BY <3>1 DEF FileTypeOK
    <3>4. TakerTypeOK'
      BY <3>2 DEF TakerTypeOK
    <3> QED BY <3>2, <3>3, <3>4, LockTypeParts
  <2>4. CASE WriteFails(p)
    BY <2>4 DEF WriteFails, NoFile
  <2>5. CASE StatLock(p)
    <3>0. file' = file /\ crashes' = crashes
      BY <2>5 DEF StatLock
    <3>1. PICK w \in {"held", "failed"} :
             taker' = [taker EXCEPT ![p].at = w, ![p].ino = file.ino]
      BY <2>5 DEF StatLock
    <3>2. FileTypeOK'
      BY <3>0 DEF FileTypeOK
    <3>3. file.ino \in Inode \cup {NoInode}
      OBVIOUS
    <3>4. TakerTypeOK'
      <4>1. w \in Stages /\ taker[p] \in [at : Stages, attempt : 0..1, ino : Inode \cup {NoInode}]
        OBVIOUS
      <4>2. [taker[p] EXCEPT !.at = w, !.ino = file.ino]
              \in [at : Stages, attempt : 0..1, ino : Inode \cup {NoInode}]
        <5> HIDE DEF Stages, LockTypeOK
        <5> QED BY <4>1, <3>3, TakerFound
      <4>3. taker' = [taker EXCEPT ![p] = [taker[p] EXCEPT !.at = w, !.ino = file.ino]]
        BY <3>1
      <4> QED BY <4>2, <4>3 DEF TakerTypeOK
    <3> QED BY <3>0, <3>2, <3>4, LockTypeParts
  <2>6. CASE Inspect(p)
    <3>0. file' = file /\ crashes' = crashes
      BY <2>6 DEF Inspect
    <3>1. PICK w \in {"failed", "remove", "busy"} : taker' = [taker EXCEPT ![p].at = w]
      BY <2>6 DEF Inspect
    <3>2. FileTypeOK'
      BY <3>0 DEF FileTypeOK
    <3>3. TakerTypeOK'
      BY <3>1 DEF TakerTypeOK
    <3> QED BY <3>0, <3>2, <3>3, LockTypeParts
  <2>7. CASE RemoveStale(p)
    <3>0. file' = NoFile /\ crashes' = crashes
      BY <2>7 DEF RemoveStale
    <3>1. PICK w \in {"open", "failed"} :
             taker' = [taker EXCEPT ![p].at = w, ![p].attempt = 1]
      BY <2>7 DEF RemoveStale
    <3>2. FileTypeOK'
      BY <3>0 DEF FileTypeOK, NoFile
    <3>3. TakerTypeOK'
      <4>1. w \in Stages /\ taker[p] \in [at : Stages, attempt : 0..1, ino : Inode \cup {NoInode}]
        OBVIOUS
      <4>2. [taker[p] EXCEPT !.at = w, !.attempt = 1]
              \in [at : Stages, attempt : 0..1, ino : Inode \cup {NoInode}]
        <5>1. 1 \in 0..1
          OBVIOUS
        <5> HIDE DEF Stages, LockTypeOK
        <5> QED BY <4>1, <5>1, TakerFields
      <4>3. taker' = [taker EXCEPT ![p] = [taker[p] EXCEPT !.at = w, !.attempt = 1]]
        BY <3>1
      <4> QED BY <4>2, <4>3 DEF TakerTypeOK
    <3> QED BY <3>0, <3>2, <3>3, LockTypeParts
  <2> QED BY <1>2, <2>1, <2>2, <2>3, <2>4, <2>5, <2>6, <2>7 DEF Acquire
<1>3. ASSUME NEW p \in Proc, GiveUp(p) PROVE LockTypeOK'
  BY <1>3 DEF GiveUp, Away
<1>4. ASSUME NEW p \in Proc, Release(p) PROVE LockTypeOK'
  BY <1>4 DEF Release, Away
<1>5. ASSUME NEW p \in Proc, Unlink(p) PROVE LockTypeOK'
  BY <1>5 DEF Unlink, Away, NoFile
<1>6. ASSUME GrowOld PROVE LockTypeOK'
  <2>1. file' = [file EXCEPT !.old = TRUE]
    BY <1>6 DEF GrowOld
  <2> QED BY <1>6, <2>1 DEF GrowOld
<1>7. ASSUME NEW p \in Proc, LoseTaker(p) PROVE LockTypeOK'
  <2>1. file' \in {file, [file EXCEPT !.owner = NoProc]}
    BY <1>7 DEF LoseTaker
  <2>2. crashes' \in 0..MaxCrashes
    BY <1>7 DEF LoseTaker
  <2>3. taker' = [taker EXCEPT ![p] = Away]
    BY <1>7 DEF LoseTaker
  <2> QED BY <2>1, <2>2, <2>3 DEF Away
<1>8. CASE UNCHANGED lockVars
  BY <1>8 DEF lockVars
<1> QED BY <1>1, <1>2, <1>3, <1>4, <1>5, <1>6, <1>7, <1>8 DEF LockNext

-----------------------------------------------------------------------------
(* Every step of a process keeps ProcInv *)

\* A step that changes one process to x.
LEMMA EditKeeps ==
    ASSUME ProcInv, NEW p \in Proc, NEW x \in ProcType, proc' = [proc EXCEPT ![p] = x],
           x.target # NoVersion => Compare(x.version, x.target) < 0,
           x.known => x.at # "chatting" /\ (x.at \in Updating => x.required)
    PROVE  ProcInv'
<1>1. ProcTypeOK'
  BY DEF ProcInv, ProcTypeOK
<1>2. \A q \in Proc : proc'[q] = IF q = p THEN x ELSE proc[q]
  BY DEF ProcInv, ProcTypeOK
<1>3. RefusedRequires'
  BY <1>2 DEF ProcInv, RefusedRequires, At
<1>4. Upward'
  BY <1>2 DEF ProcInv, Upward
<1> QED BY <1>1, <1>3, <1>4 DEF ProcInv

\* What a process becomes when it is at w, and has g to remove.
LEMMA GarbageTyped ==
    ASSUME ProcInv, NEW p \in Proc, NEW w \in Places,
           NEW g \in SUBSET (({"version"} \X Releases) \cup ({"staged"} \X Proc))
    PROVE  /\ [proc[p] EXCEPT !.at = w, !.garbage = g] \in ProcType
           /\ proc[p].garbage \in SUBSET (({"version"} \X Releases) \cup ({"staged"} \X Proc))
           /\ proc[p] \in ProcType
<1>1. proc[p] \in ProcType
  BY DEF ProcInv, ProcTypeOK
<1> QED BY <1>1 DEF ProcType

LEMMA CleanupKeeps ==
    ASSUME ProcInv, NEW p \in Proc, NEW w \in Places, NEW g,
           g \in SUBSET (({"version"} \X Releases) \cup ({"staged"} \X Proc)),
           proc' = [proc EXCEPT ![p].at = w, ![p].garbage = g],
           w \notin Updating \cup {"chatting"} \/ w = proc[p].at
    PROVE  ProcInv'
<1> DEFINE x == [proc[p] EXCEPT !.at = w, !.garbage = g]
<1>1. proc' = [proc EXCEPT ![p] = x]
  OBVIOUS
<1>2. x \in ProcType
  BY GarbageTyped
<1>3. /\ x.version = proc[p].version /\ x.target = proc[p].target
      /\ x.known = proc[p].known /\ x.required = proc[p].required
      /\ x.at = w
  BY ZenonT(60), GarbageTyped DEF ProcType
<1> HIDE DEF x
<1>4. x.known => x.at # "chatting" /\ (x.at \in Updating => x.required)
  BY <1>3 DEF ProcInv, RefusedRequires, At
<1>5. x.target # NoVersion => Compare(x.version, x.target) < 0
  BY <1>3 DEF ProcInv, Upward
<1> QED BY <1>1, <1>2, <1>4, <1>5, EditKeeps

LEMMA SweepKeeps ==
    ASSUME ProcInv, NEW p \in Proc, Sweep(p)
    PROVE  ProcInv'
<1> DEFINE v == proc[p].version
           g == {<<"version", w>> : w \in Installed \ Kept(v, Installed \ {v})}
                  \cup {<<"staged", q>> : q \in {r \in Proc : staged[r] # "absent"}}
<1>1. proc' = [proc EXCEPT ![p].at = "removing", ![p].garbage = g]
  BY DEF Sweep
<1>2. g \in SUBSET (({"version"} \X Releases) \cup ({"staged"} \X Proc))
  <2>1. ASSUME NEW w \in Installed PROVE <<"version", w>> \in {"version"} \X Releases
    BY DEF Installed
  <2>2. ASSUME NEW q \in Proc PROVE <<"staged", q>> \in {"staged"} \X Proc
    OBVIOUS
  <2> QED BY <2>1, <2>2
<1>3. "removing" \in Places /\ "removing" \notin Updating \cup {"chatting"}
  BY DEF Places, Updating
<1> HIDE DEF g
<1> QED BY <1>1, <1>2, <1>3, CleanupKeeps

LEMMA RemoveKeeps ==
    ASSUME ProcInv, NEW p \in Proc,
           EndCleanup(p) \/ (\E e \in proc[p].garbage : RemoveEntry(p, e))
    PROVE  ProcInv'
<1>1. CASE EndCleanup(p)
  <2>1. proc' = [proc EXCEPT ![p].at = "checking", ![p].garbage = {}]
    BY <1>1 DEF EndCleanup
  <2>2. "checking" \in Places /\ "checking" \notin Updating \cup {"chatting"}
    BY DEF Places, Updating
  <2>3. {} \in SUBSET (({"version"} \X Releases) \cup ({"staged"} \X Proc))
    OBVIOUS
  <2> QED BY <2>1, <2>2, <2>3, CleanupKeeps
<1>2. ASSUME NEW e \in proc[p].garbage, RemoveEntry(p, e)
      PROVE  ProcInv'
  <2> DEFINE g == proc[p].garbage \ {e}
  <2>1. \/ proc' = proc
        \/ proc' = [proc EXCEPT ![p].garbage = g]
    BY <1>2 DEF RemoveEntry
  <2>2. proc[p] \in ProcType /\ "removing" \in Places
    BY DEF ProcInv, ProcTypeOK, Places
  <2>3. proc[p].at = "removing"
    BY <1>2 DEF RemoveEntry, At
  <2>4. g \in SUBSET (({"version"} \X Releases) \cup ({"staged"} \X Proc))
    BY <2>2 DEF ProcType
  <2>5. CASE proc' = proc
    BY <2>5 DEF ProcInv, ProcTypeOK, RefusedRequires, Upward, At
  <2>6. CASE proc' = [proc EXCEPT ![p].garbage = g]
    <3>1. [proc[p] EXCEPT !.garbage = g] = [proc[p] EXCEPT !.at = "removing", !.garbage = g]
      BY <2>2, <2>3 DEF ProcType
    <3>2. proc' = [proc EXCEPT ![p].at = "removing", ![p].garbage = g]
      BY <2>6, <3>1
    <3> HIDE DEF g
    <3> QED BY <3>2, <2>2, <2>3, <2>4, CleanupKeeps
  <2> QED BY <2>1, <2>5, <2>6
<1> QED BY <1>1, <1>2

\* A step within an update, that stays in it or leaves it for a place where a
\* refused client may be.
LEMMA UpdateKeeps ==
    ASSUME ProcInv, NEW p \in Proc, NEW w \in Places, NEW b \in BOOLEAN, NEW f \in BOOLEAN,
           NEW r \in [target : Named, previous : Named, shared : BOOLEAN],
           proc' = [proc EXCEPT ![p].at = w, ![p].ok = b, ![p].fresh = f, ![p].result = r],
           proc[p].at \in Updating, w \in Updating
    PROVE  ProcInv'
<1> DEFINE x == [proc[p] EXCEPT !.at = w, !.ok = b, !.fresh = f, !.result = r]
<1>1. proc' = [proc EXCEPT ![p] = x]
  OBVIOUS
<1>2. proc[p] \in ProcType
  BY DEF ProcInv, ProcTypeOK
<1>3. x \in ProcType
  BY <1>2 DEF ProcType
<1>4. /\ x.version = proc[p].version /\ x.target = proc[p].target
      /\ x.known = proc[p].known /\ x.required = proc[p].required
      /\ x.at = w
  BY <1>2 DEF ProcType
<1> HIDE DEF x
<1>5. x.known => x.at # "chatting" /\ (x.at \in Updating => x.required)
  BY <1>4 DEF ProcInv, RefusedRequires, At, Updating
<1>6. x.target # NoVersion => Compare(x.version, x.target) < 0
  BY <1>4 DEF ProcInv, Upward
<1> QED BY <1>1, <1>3, <1>5, <1>6, EditKeeps

\* The fields such a step leaves alone, written out.
LEMMA SameFields ==
    ASSUME NEW x \in ProcType, NEW w, NEW b, NEW r
    PROVE  /\ [x EXCEPT !.at = w, !.ok = b]
                = [x EXCEPT !.at = w, !.ok = b, !.fresh = x.fresh, !.result = x.result]
           /\ [x EXCEPT !.at = w, !.fresh = b]
                = [x EXCEPT !.at = w, !.ok = x.ok, !.fresh = b, !.result = x.result]
           /\ [x EXCEPT !.at = w, !.result = r]
                = [x EXCEPT !.at = w, !.ok = x.ok, !.fresh = x.fresh, !.result = r]
           /\ [x EXCEPT !.at = w, !.ok = b, !.result = r]
                = [x EXCEPT !.at = w, !.ok = b, !.fresh = x.fresh, !.result = r]
           /\ x.ok \in BOOLEAN /\ x.fresh \in BOOLEAN
           /\ x.result \in [target : Named, previous : Named, shared : BOOLEAN]
<1>1. [x EXCEPT !.at = w, !.ok = b]
        = [x EXCEPT !.at = w, !.ok = b, !.fresh = x.fresh, !.result = x.result]
  BY DEF ProcType
<1>2. [x EXCEPT !.at = w, !.fresh = b]
        = [x EXCEPT !.at = w, !.ok = x.ok, !.fresh = b, !.result = x.result]
  BY DEF ProcType
<1>3. [x EXCEPT !.at = w, !.result = r]
        = [x EXCEPT !.at = w, !.ok = x.ok, !.fresh = x.fresh, !.result = r]
  BY DEF ProcType
<1>4. [x EXCEPT !.at = w, !.ok = b, !.result = r]
        = [x EXCEPT !.at = w, !.ok = b, !.fresh = x.fresh, !.result = r]
  BY DEF ProcType
<1>5. /\ x.ok \in BOOLEAN /\ x.fresh \in BOOLEAN
      /\ x.result \in [target : Named, previous : Named, shared : BOOLEAN]
  BY DEF ProcType
<1> QED BY <1>1, <1>2, <1>3, <1>4, <1>5

\* Where Without leads: a refused client is asked again.
LEMMA WithoutKeeps ==
    ASSUME ProcInv, NEW p \in Proc, proc[p].at \in Updating, Move(p, Without(p))
    PROVE  ProcInv'
<1>1. Without(p) \in Places
  BY DEF Without, Places
<1>2. proc[p].known => proc[p].required
  BY DEF ProcInv, RefusedRequires
<1>3. proc[p].known => Without(p) # "chatting" /\ (Without(p) \in Updating => proc[p].required)
  BY <1>2 DEF Without
<1> QED BY <1>1, <1>3, MoveKeeps

\* The same, for each of the ways in which the actions write it.
LEMMA OkKeeps ==
    ASSUME ProcInv, NEW p \in Proc, NEW w \in Updating, NEW b \in BOOLEAN,
           proc[p].at \in Updating,
           NEW r \in [target : Named, previous : Named, shared : BOOLEAN],
           \/ proc' = [proc EXCEPT ![p].at = w, ![p].ok = b]
           \/ proc' = [proc EXCEPT ![p].at = w, ![p].fresh = b]
           \/ proc' = [proc EXCEPT ![p].at = w, ![p].result = r]
           \/ proc' = [proc EXCEPT ![p].at = w, ![p].ok = b, ![p].result = r]
    PROVE  ProcInv'
<1> DEFINE x == proc[p]
<1>1. x \in ProcType /\ w \in Places
  BY DEF ProcInv, ProcTypeOK, Updating, Places
<1>2. x.ok \in BOOLEAN /\ x.fresh \in BOOLEAN
      /\ x.result \in [target : Named, previous : Named, shared : BOOLEAN]
  BY <1>1, SameFields
<1>3. CASE proc' = [proc EXCEPT ![p].at = w, ![p].ok = b]
  <2>1. [x EXCEPT !.at = w, !.ok = b]
          = [x EXCEPT !.at = w, !.ok = b, !.fresh = x.fresh, !.result = x.result]
    BY <1>1, SameFields
  <2>2. proc' = [proc EXCEPT ![p].at = w, ![p].ok = b, ![p].fresh = x.fresh,
                            ![p].result = x.result]
    BY <1>3, <2>1
  <2> QED BY <1>1, <1>2, <2>2, UpdateKeeps
<1>4. CASE proc' = [proc EXCEPT ![p].at = w, ![p].fresh = b]
  <2>1. [x EXCEPT !.at = w, !.fresh = b]
          = [x EXCEPT !.at = w, !.ok = x.ok, !.fresh = b, !.result = x.result]
    BY <1>1, SameFields
  <2>2. proc' = [proc EXCEPT ![p].at = w, ![p].ok = x.ok, ![p].fresh = b,
                            ![p].result = x.result]
    BY <1>4, <2>1
  <2> QED BY <1>1, <1>2, <2>2, UpdateKeeps
<1>5. CASE proc' = [proc EXCEPT ![p].at = w, ![p].result = r]
  <2>1. [x EXCEPT !.at = w, !.result = r]
          = [x EXCEPT !.at = w, !.ok = x.ok, !.fresh = x.fresh, !.result = r]
    BY <1>1, SameFields
  <2>2. proc' = [proc EXCEPT ![p].at = w, ![p].ok = x.ok, ![p].fresh = x.fresh,
                            ![p].result = r]
    BY <1>5, <2>1
  <2> QED BY <1>1, <1>2, <2>2, UpdateKeeps
<1>6. CASE proc' = [proc EXCEPT ![p].at = w, ![p].ok = b, ![p].result = r]
  <2>1. [x EXCEPT !.at = w, !.ok = b, !.result = r]
          = [x EXCEPT !.at = w, !.ok = b, !.fresh = x.fresh, !.result = r]
    BY <1>1, SameFields
  <2>2. proc' = [proc EXCEPT ![p].at = w, ![p].ok = b, ![p].fresh = x.fresh,
                            ![p].result = r]
    BY <1>6, <2>1
  <2> QED BY <1>1, <1>2, <2>2, UpdateKeeps
<1> QED BY <1>3, <1>4, <1>5, <1>6

LEMMA InstallKeeps ==
    ASSUME ProcInv, DiskTypeOK, NEW p \in Proc, InstallNext(p)
    PROVE  ProcInv'
<1> DEFINE Results == [target : Named, previous : Named, shared : BOOLEAN]
<1>0. /\ proc[p] \in ProcType /\ current \in Named
      /\ proc[p].target \in Named /\ proc[p].version \in Named
      /\ proc[p].result \in Results
  BY DEF ProcInv, ProcTypeOK, ProcType, DiskTypeOK, Named
<1>1. CASE InstallBusy(p)
  <2>1. proc[p].at \in Updating
    BY <1>1 DEF InstallBusy, At, Updating
  <2>2. CASE Move(p, Without(p))
    BY <2>1, <2>2, WithoutKeeps
  <2>3. CASE Move(p, "verifying")
    BY <2>1, <2>3, MoveKeeps DEF Places, ProcInv, RefusedRequires
  <2> QED BY <1>1, <2>2, <2>3 DEF InstallBusy
<1>2. CASE CompletedByAnother(p)
  <2>1. proc[p].at \in Updating /\ "launching" \in Updating
    BY <1>2 DEF CompletedByAnother, At, Updating
  <2>2. [target |-> proc[p].target, previous |-> proc[p].version, shared |-> TRUE] \in Results
    BY <1>0
  <2> QED BY <1>2, <2>1, <2>2, WithoutKeeps, OkKeeps DEF CompletedByAnother
<1>3. CASE InstallFailed(p)
  BY <1>3, WithoutKeeps DEF InstallFailed, At, Updating
<1>4. CASE FoundChanged(p)
  <2>1. proc[p].at \in Updating /\ "releasing" \in Updating
    BY <1>4 DEF FoundChanged, Installing, At, Updating
  <2>2. [target |-> current, previous |-> proc[p].version, shared |-> TRUE] \in Results
    BY <1>0
  <2> QED BY <1>0, <1>4, <2>1, <2>2, OkKeeps DEF FoundChanged, Fails
<1>5. CASE Reuse(p)
  <2>1. proc[p].at \in Updating /\ "pointing" \in Updating
    BY <1>5 DEF Reuse, Installing, At, Updating
  <2> QED BY <1>0, <1>5, <2>1, OkKeeps DEF Reuse
<1>6. CASE Fetch(p)
  BY <1>6, MoveKeeps DEF Fetch, Installing, At, Updating, Places, ProcInv, RefusedRequires
<1>7. CASE Stage(p)
  BY <1>7, MoveKeeps DEF Stage, At, Updating, Places, ProcInv, RefusedRequires
<1>8. CASE InstallStepFails(p)
  <2>1. proc[p].at \in Updating /\ "undoing" \in Updating
    BY <1>8 DEF InstallStepFails, At, Updating
  <2> QED BY <1>0, <1>8, <2>1, OkKeeps DEF InstallStepFails, Undoing
<1>9. CASE Promote(p)
  <2>1. proc[p].at \in Updating /\ "pointing" \in Updating
    BY <1>9 DEF Promote, At, Updating
  <2> QED BY <1>0, <1>9, <2>1, OkKeeps DEF Promote
<1>10. CASE Point(p)
  <2>1. proc[p].at \in Updating /\ "undoing" \in Updating
    BY <1>10 DEF Point, At, Updating
  <2>2. Ours(p) \in Results
    BY <1>0 DEF Ours
  <2> QED BY <1>10, <2>1, <2>2, OkKeeps DEF Point
<1>11. CASE Undo(p)
  <2>1. proc[p].at \in Updating /\ "releasing" \in Updating
    BY <1>11 DEF Undo, At, Updating
  <2> QED BY <1>0, <1>11, <2>1, OkKeeps DEF Undo
<1>12. CASE InstallReturns(p)
  <2>1. proc[p].at \in Updating
    BY <1>12 DEF InstallReturns, At, Updating
  <2>2. CASE Move(p, "launching")
    BY <2>1, <2>2, MoveKeeps DEF Places, ProcInv, RefusedRequires
  <2>3. CASE Move(p, Without(p))
    BY <2>1, <2>3, WithoutKeeps
  <2> QED BY <1>12, <2>2, <2>3 DEF InstallReturns
<1> QED BY <1>1, <1>2, <1>3, <1>4, <1>5, <1>6, <1>7, <1>8, <1>9, <1>10, <1>11, <1>12
        DEF InstallNext

LEMMA RollbackKeeps ==
    ASSUME ProcInv, NEW p \in Proc, RollbackNext(p)
    PROVE  ProcInv'
<1>0. proc[p].result \in [target : Named, previous : Named, shared : BOOLEAN]
  BY DEF ProcInv, ProcTypeOK, ProcType
<1>1. CASE KeepShared(p)
  BY <1>1, WithoutKeeps DEF KeepShared, At, Updating
<1>2. CASE BeginRollback(p) \/ RollbackPoint(p)
  BY <1>2, MoveKeeps DEF BeginRollback, RollbackPoint, At, Updating, Places, ProcInv,
     RefusedRequires
<1>3. CASE RollbackRefused(p)
  BY <1>3, EndKeeps DEF RollbackRefused
<1>4. CASE RollbackFails(p) \/ RollbackDiscard(p)
  <2>1. proc[p].at \in Updating /\ "taken_back" \in Updating
    BY <1>4 DEF RollbackFails, RollbackDiscard, At, Updating
  <2>2. PICK b \in BOOLEAN : proc' = [proc EXCEPT ![p].at = "taken_back", ![p].ok = b]
    BY <1>4 DEF RollbackFails, RollbackDiscard
  <2> QED BY <1>0, <2>1, <2>2, OkKeeps
<1>5. CASE RollbackReturns(p)
  <2>1. proc[p].at \in Updating
    BY <1>5 DEF RollbackReturns, At, Updating
  <2> QED BY <1>5, <2>1, WithoutKeeps, EndKeeps DEF RollbackReturns
<1> QED BY <1>1, <1>2, <1>3, <1>4, <1>5 DEF RollbackNext

\* Accepting an update: the manifest is one VerifyManifest accepts, so that the
\* target is a later version.
LEMMA AcceptKeeps ==
    ASSUME ProcInv, DiskTypeOK, NEW p \in Proc, AcceptUpdate(p)
    PROVE  ProcInv'
<1> DEFINE r == proc[p].known \/ Decision(p) = "required"
           x == [proc[p] EXCEPT !.at = "locking", !.target = published.latest, !.required = r]
<1>1. proc' = [proc EXCEPT ![p] = x]
  BY DEF AcceptUpdate
<1>2. proc[p] \in ProcType
  BY DEF ProcInv, ProcTypeOK
<1>3. published \in Manifest /\ published.latest \in Releases
  BY ReleaseAssumption DEF DiskTypeOK
<1>4. r \in BOOLEAN /\ "locking" \in Places /\ published.latest \in Named
  BY <1>3 DEF Places, Named
<1>5. x \in ProcType
  <2> HIDE DEF r
  <2> QED BY <1>2, <1>4 DEF ProcType
<1>6. /\ x.version = proc[p].version /\ x.target = published.latest
      /\ x.known = proc[p].known /\ x.required = r /\ x.at = "locking"
  BY <1>2 DEF ProcType
<1>7. proc[p].version \in Version
  BY <1>2, ReleaseAssumption DEF AcceptUpdate, Behind, Client, ProcType, Named
<1>8. Compare(proc[p].version, published.latest) < 0
  BY <1>3, <1>7, OnlyUpward DEF AcceptUpdate, Behind, Decision
<1> HIDE DEF x
<1>9. x.known => x.at # "chatting" /\ (x.at \in Updating => x.required)
  BY <1>6
<1> QED BY <1>1, <1>5, <1>6, <1>8, <1>9, EditKeeps

LEMMA RefusalKeeps ==
    ASSUME ProcInv, NEW p \in Proc, UpgradeRequired(p)
    PROVE  ProcInv'
<1> DEFINE x == [proc[p] EXCEPT !.at = "checking", !.known = TRUE]
<1>1. proc' = [proc EXCEPT ![p] = x]
  BY DEF UpgradeRequired
<1>2. proc[p] \in ProcType
  BY DEF ProcInv, ProcTypeOK
<1>3. x \in ProcType
  BY <1>2 DEF ProcType, Places
<1>4. x.version = proc[p].version /\ x.target = proc[p].target /\ x.at = "checking"
  BY <1>2 DEF ProcType
<1> HIDE DEF x
<1>5. x.known => x.at # "chatting" /\ (x.at \in Updating => x.required)
  BY <1>4 DEF Updating
<1>6. x.target # NoVersion => Compare(x.version, x.target) < 0
  BY <1>4 DEF ProcInv, Upward
<1> QED BY <1>1, <1>3, <1>5, <1>6, EditKeeps

LEMMA LaunchKeeps ==
    ASSUME ProcInv, NEW p \in Proc, NEW q \in Proc, Launch(p, q)
    PROVE  ProcInv'
<1>1. p # q /\ proc[p].at = "launching"
  BY DEF Launch, At
<1>2. proc' = [r \in Proc |-> IF r = q THEN Started(proc[p].result.target, p)
                              ELSE IF r = p THEN [proc[p] EXCEPT !.at = "waiting"]
                              ELSE proc[r]]
  BY <1>1 DEF Launch, ProcInv, ProcTypeOK
<1>3. proc[p].result.target \in Releases
  BY DEF Launch, Runnable
<1> QED BY <1>1, <1>2, <1>3, StartKeeps

LEMMA ClientKeeps ==
    ASSUME ProcInv, DiskTypeOK, NEW p \in Proc, ClientNext(p)
    PROVE  ProcInv'
<1>1. CASE Start(p)
  <2>1. current \in Releases /\ NoProc \notin Proc
    BY <1>1, NoProcAssumption DEF Start, Runnable
  <2>2. proc' = [r \in Proc |-> IF r = p THEN Started(current, NoProc)
                                ELSE IF r = NoProc THEN [proc[NoProc] EXCEPT !.at = "waiting"]
                                ELSE proc[r]]
    BY <1>1, <2>1 DEF Start, ProcInv, ProcTypeOK
  <2> QED BY <2>1, <2>2, StartKeeps
<1>2. CASE StartFails(p) \/ Decline(p) \/ GiveUpUpdate(p) \/ Relaunched(p) \/ LeaveChat(p)
  BY <1>2, EndKeeps DEF StartFails, Decline, GiveUpUpdate, Relaunched, LeaveChat, End
<1>3. CASE \/ Sweep(p) \/ EndCleanup(p)
           \/ (\E e \in proc[p].garbage : RemoveEntry(p, e))
  BY <1>3, SweepKeeps, RemoveKeeps
<1>4. CASE EnterChat(p)
  BY <1>4, MoveKeeps DEF EnterChat, Places
<1>5. CASE AcceptUpdate(p) \/ UpgradeRequired(p)
  BY <1>5, AcceptKeeps, RefusalKeeps
<1>6. CASE Retry(p) \/ LaunchFails(p)
  BY <1>6, MoveKeeps DEF Retry, LaunchFails, Places, At, Updating, ProcInv, RefusedRequires
<1>7. CASE InstallNext(p) \/ RollbackNext(p)
  BY <1>7, InstallKeeps, RollbackKeeps
<1>8. CASE \E q \in Proc : Launch(p, q)
  BY <1>8, LaunchKeeps
<1>9. CASE LockStep(p)
  BY <1>9 DEF LockStep, ProcInv, ProcTypeOK, RefusedRequires, Upward, At
<1> QED BY <1>1, <1>2, <1>3, <1>4, <1>5, <1>6, <1>7, <1>8, <1>9 DEF ClientNext

LEMMA UninstallKeeps ==
    ASSUME ProcInv, NEW p \in Proc, UninstallNext(p)
    PROVE  ProcInv'
<1>1. CASE RemovePointer(p)
  <2> DEFINE x == [proc[p] EXCEPT !.at = "forgotten", !.ok = TRUE]
  <2>1. proc' = [proc EXCEPT ![p] = x]
    BY <1>1 DEF RemovePointer
  <2>2. proc[p] \in ProcType
    BY DEF ProcInv, ProcTypeOK
  <2>3. x \in ProcType
    BY <2>2 DEF ProcType, Places
  <2>4. x.version = proc[p].version /\ x.target = proc[p].target /\ x.at = "forgotten"
    BY <2>2 DEF ProcType
  <2> HIDE DEF x
  <2>5. x.known => x.at # "chatting" /\ (x.at \in Updating => x.required)
    BY <2>4 DEF Updating
  <2>6. x.target # NoVersion => Compare(x.version, x.target) < 0
    BY <2>4 DEF ProcInv, Upward
  <2> QED BY <2>1, <2>3, <2>5, <2>6, EditKeeps
<1>2. CASE UninstallReturns(p)
  <2>1. Off.at = "off" /\ Off.known = FALSE /\ Off.target = NoVersion
    BY DEF Off
  <2> QED BY <1>2, <2>1, OffTyped, EditKeeps DEF UninstallReturns
<1>3. CASE BeginUninstall(p) \/ UninstallRefused(p) \/ RemoveVersions(p) \/ RemovalFails(p)
  <2>1. PICK w \in {"uninstalling", "off", "forgetting", "forgotten"} : Move(p, w)
    BY <1>3 DEF BeginUninstall, UninstallRefused, RemoveVersions, RemovalFails, Move
  <2>2. w \in Places /\ w # "chatting" /\ w \notin Updating
    BY DEF Places, Updating
  <2> QED BY <2>1, <2>2, MoveKeeps
<1> QED BY <1>1, <1>2, <1>3 DEF UninstallNext

LEMMA ProcInvStep ==
    ASSUME ProcInv, DiskTypeOK, [Next]_vars
    PROVE  ProcInv'
<1>1. CASE \E p \in Proc : Crash(p)
  BY <1>1, EndKeeps DEF Crash
<1>2. CASE Publish \/ Time \/ UNCHANGED vars
  BY <1>2 DEF Publish, Time, vars, ProcInv, ProcTypeOK, RefusedRequires, Upward, At
<1> QED BY <1>1, <1>2, ClientKeeps, UninstallKeeps DEF Next

-----------------------------------------------------------------------------
(* The types of what is on disk, and the theorems *)

LEMMA DiskStep ==
    ASSUME DiskTypeOK, ProcTypeOK, [Next]_vars
    PROVE  DiskTypeOK'
<1> USE DEF DiskTypeOK, Directory, disk, Named
<1>0. \A p \in Proc : proc[p] \in ProcType
  BY DEF ProcTypeOK
<1>1. ASSUME NEW p \in Proc, InstallNext(p) PROVE DiskTypeOK'
  <2>1. CASE \/ InstallBusy(p) \/ CompletedByAnother(p) \/ InstallFailed(p)
             \/ FoundChanged(p) \/ Reuse(p) \/ InstallStepFails(p) \/ InstallReturns(p)
    BY <2>1 DEF InstallBusy, CompletedByAnother, InstallFailed, FoundChanged, Reuse,
       InstallStepFails, InstallReturns
  <2>2. CASE Fetch(p)
    BY <2>2 DEF Fetch
  <2>3. CASE Stage(p)
    BY <2>3 DEF Stage
  <2>4. CASE Promote(p)
    <3>1. staged[p] \in Directory
      OBVIOUS
    <3> QED BY <2>4, <3>1 DEF Promote
  <2>5. CASE Point(p)
    <3>1. proc[p].target \in Named
      BY <1>0 DEF ProcType
    <3> QED BY <2>5, <3>1 DEF Point
  <2>6. CASE Undo(p)
    BY <2>6 DEF Undo
  <2> QED BY <1>1, <2>1, <2>2, <2>3, <2>4, <2>5, <2>6 DEF InstallNext
<1>2. ASSUME NEW p \in Proc, RollbackNext(p) PROVE DiskTypeOK'
  <2>1. proc[p].result.previous \in Named
    BY <1>0 DEF ProcType
  <2> QED BY <1>2, <2>1 DEF RollbackNext, KeepShared, BeginRollback, RollbackRefused,
             RollbackPoint, RollbackFails, RollbackDiscard, RollbackReturns
<1>3. ASSUME NEW p \in Proc, UninstallNext(p) PROVE DiskTypeOK'
  BY <1>3 DEF UninstallNext, BeginUninstall, UninstallRefused, RemoveVersions,
     RemovePointer, RemovalFails, UninstallReturns
<1>4. ASSUME NEW p \in Proc, NEW e \in proc[p].garbage, RemoveEntry(p, e) PROVE DiskTypeOK'
  <2>1. \A d : Shrunk(d) \in Directory
    BY DEF Shrunk
  <2> QED BY <1>4, <2>1 DEF RemoveEntry
<1>5. ASSUME NEW p \in Proc, Sweep(p) PROVE DiskTypeOK'
  BY <1>5 DEF Sweep
<1>6. ASSUME NEW p \in Proc, ClientNext(p), ~InstallNext(p), ~RollbackNext(p), ~Sweep(p),
             ~(\E e \in proc[p].garbage : RemoveEntry(p, e))
      PROVE  DiskTypeOK'
  BY <1>6 DEF ClientNext, Start, StartFails, EndCleanup, EnterChat, Decline, AcceptUpdate,
     Retry, GiveUpUpdate, Launch, LaunchFails, Relaunched, LeaveChat, UpgradeRequired,
     LockStep, End
<1>7. ASSUME NEW p \in Proc, Crash(p) PROVE DiskTypeOK'
  BY <1>7 DEF Crash
<1>8. CASE Publish \/ Time \/ UNCHANGED vars
  BY <1>8 DEF Publish, Time, vars
<1> QED BY <1>1, <1>2, <1>3, <1>4, <1>5, <1>6, <1>7, <1>8 DEF Next

LEMMA InitKeeps == Init => LockTypeOK /\ DiskTypeOK /\ ProcInv
<1> SUFFICES ASSUME Init PROVE LockTypeOK /\ DiskTypeOK /\ ProcInv
  OBVIOUS
<1>1. LockTypeOK
  BY BoundAssumption DEF Init, LockInit, LockTypeOK, NoFile, Away, Stages
<1>2. DiskTypeOK
  BY ReleaseAssumption DEF Init, DiskTypeOK, Directory
<1>3. ProcTypeOK
  BY OffTyped DEF Init, ProcTypeOK
<1>4. \A p \in Proc : proc[p] = Off
  BY DEF Init
<1>5. RefusedRequires /\ Upward
  BY <1>4 DEF RefusedRequires, Upward, At, Off
<1> QED BY <1>1, <1>2, <1>3, <1>5 DEF ProcInv

LEMMA ClientInvariant == Spec => [](LockTypeOK /\ DiskTypeOK /\ ProcInv)
<1>1. LockTypeOK /\ DiskTypeOK /\ ProcInv /\ [Next]_vars
        => (LockTypeOK /\ DiskTypeOK /\ ProcInv)'
  BY LockTypeStep, NextKeepsRules, DiskStep, ProcInvStep DEF ProcInv
<1> QED BY <1>1, InitKeeps, PTL DEF Spec

\* Every field keeps its kind, for any processes, releases, bounds and faults.
THEOREM TypeCorrect == Spec => []TypeOK
<1>1. LockTypeOK /\ DiskTypeOK /\ ProcInv => TypeOK
  BY DEF ProcInv, TypeOK
<1> QED BY <1>1, ClientInvariant, PTL

\* A client the server has refused never chats again, whatever fails, dies or is
\* published meanwhile: from its update it can go on only through the question
\* that leaves no other choice.
THEOREM RefusedIsOut == Spec => []RefusedStaysOut
<1>1. LockTypeOK /\ DiskTypeOK /\ ProcInv => RefusedStaysOut
  BY DEF ProcInv, RefusedRequires, RefusedStaysOut
<1> QED BY <1>1, ClientInvariant, PTL

\* An update leads to a later version, whatever the server publishes.
THEOREM UpdatesGoUp == Spec => []Upward
<1>1. LockTypeOK /\ DiskTypeOK /\ ProcInv => Upward
  BY DEF ProcInv
<1> QED BY <1>1, ClientInvariant, PTL

-----------------------------------------------------------------------------
(* The lock is given back *)

\* Who created the file, while it lives, is still at it and knows it: it has
\* not looked at another file since.
Owned ==
    Exists /\ file.owner # NoProc =>
        /\ file.owner \in Proc
        /\ taker[file.owner].at \in {"write", "stat", "held", "unlink"}
        /\ taker[file.owner].ino = file.ino

LEMMA OwnedStep ==
    ASSUME LockTypeOK, Owned, [LockNext]_lockVars
    PROVE  Owned'
<1> USE NoProcAssumption, NoInodeAssumption
    DEF LockTypeOK, Owned, Stages, Go, Away, Exists, Holds
<1>1. ASSUME NEW p \in Proc, Begin(p) PROVE Owned'
  BY <1>1 DEF Begin
<1>2. ASSUME NEW p \in Proc, Create(p) PROVE Owned'
  <2>1. PICK i \in Inode : file' = NewFile(i, p) /\
                taker' = [taker EXCEPT ![p].at = "write", ![p].ino = i]
    BY <1>2 DEF Create
  <2>2. file'.owner = p /\ file'.ino = i
    BY <2>1 DEF NewFile
  <2>3. taker'[p].at = "write" /\ taker'[p].ino = i
    BY <2>1
  <2> QED BY <2>2, <2>3
<1>3. ASSUME NEW p \in Proc, FindExisting(p) PROVE Owned'
  BY <1>3 DEF FindExisting
<1>4. ASSUME NEW p \in Proc, WriteMetadata(p) PROVE Owned'
  <2>1. file'.ino = file.ino /\ file'.owner = file.owner
    BY <1>4 DEF WriteMetadata
  <2>2. taker' = [taker EXCEPT ![p].at = "stat"]
    BY <1>4 DEF WriteMetadata
  <2>3. \A q \in Proc : taker'[q].ino = taker[q].ino /\
                        taker'[q].at = IF q = p THEN "stat" ELSE taker[q].at
    BY <2>2
  <2> QED BY <2>1, <2>3
<1>5. ASSUME NEW p \in Proc, WriteFails(p) \/ RemoveStale(p) \/ Unlink(p) PROVE Owned'
  <2>1. file' = NoFile
    BY <1>5 DEF WriteFails, RemoveStale, Unlink
  <2> QED BY <2>1 DEF NoFile
<1>6. ASSUME NEW p \in Proc, StatLock(p) PROVE Owned'
  <2>1. file' = file
    BY <1>6 DEF StatLock
  <2>2. CASE ~Exists
    BY <2>1, <2>2
  <2>3. CASE Exists
    <3>1. taker' = [taker EXCEPT ![p].at = "held", ![p].ino = file.ino]
      BY <1>6, <2>3 DEF StatLock
    <3>2. \A q \in Proc : IF q = p THEN taker'[q].at = "held" /\ taker'[q].ino = file.ino
                         ELSE taker'[q] = taker[q]
      BY <3>1
    <3> QED BY <2>1, <3>2
  <2> QED BY <2>2, <2>3
<1>7. ASSUME NEW p \in Proc, Inspect(p) PROVE Owned'
  BY <1>7 DEF Inspect
<1>8. ASSUME NEW p \in Proc, GiveUp(p) PROVE Owned'
  BY <1>8 DEF GiveUp
<1>9. ASSUME NEW p \in Proc, Release(p) PROVE Owned'
  <2>1. CASE file.ino = taker[p].ino
    <3>1. \A q \in Proc : taker'[q].ino = taker[q].ino /\
                          taker'[q].at = IF q = p THEN "unlink" ELSE taker[q].at
      BY <1>9, <2>1 DEF Release
    <3> QED BY <1>9, <3>1 DEF Release
  <2>2. CASE file.ino # taker[p].ino
    <3>1. \A q \in Proc \ {p} : taker'[q] = taker[q]
      BY <1>9, <2>2 DEF Release
    <3> QED BY <1>9, <2>2, <3>1 DEF Release
  <2> QED BY <2>1, <2>2
<1>10. ASSUME GrowOld PROVE Owned'
  <2>1. file'.ino = file.ino /\ file'.owner = file.owner /\ taker' = taker
    BY <1>10 DEF GrowOld
  <2> QED BY <2>1
<1>11. ASSUME NEW p \in Proc, LoseTaker(p) PROVE Owned'
  <2>1. \A q \in Proc \ {p} : taker'[q] = taker[q]
    BY <1>11 DEF LoseTaker
  <2>2. CASE file.owner = p
    <3>1. file'.owner = NoProc
      BY <1>11, <2>2 DEF LoseTaker
    <3> QED BY <3>1
  <2>3. CASE file.owner # p
    <3>1. file' = file
      BY <1>11, <2>3 DEF LoseTaker
    <3> QED BY <2>1, <2>3, <3>1
  <2> QED BY <2>2, <2>3
<1>12. CASE UNCHANGED lockVars
  BY <1>12 DEF lockVars
<1> QED
  BY <1>1, <1>2, <1>3, <1>4, <1>5, <1>6, <1>7, <1>8, <1>9, <1>10, <1>11, <1>12
  DEF LockNext, Acquire

\* No lock stays behind when nobody died, however many processes die and however
\* long an update lasts: the file is removed or its owner is still to remove it.
THEOREM LocksGivenBack == Spec => []NoLeak
<1>1. Init => LockTypeOK /\ Owned
  BY InitKeeps DEF Init, LockInit, Owned, NoFile, Exists
<1>2. LockTypeOK /\ Owned /\ [Next]_vars => (LockTypeOK /\ Owned)'
  BY LockTypeStep, OwnedStep, NextKeepsRules
<1>3. LockTypeOK /\ Owned => NoLeak
  BY DEF Owned, NoLeak
<1> QED BY <1>1, <1>2, <1>3, PTL DEF Spec

-----------------------------------------------------------------------------
(* What each process may rely on while it changes the installation *)

\* Where a process holds the lock, whatever others do.
Working == {"downloading", "promoting", "pointing", "undoing", "discarding", "forgetting"}

\* From here on it has a result that it may launch and take back.
Done(p) ==
    \/ proc[p].at \in {"launching", "waiting", "launch_failed", "taking_back", "discarding"}
    \/ proc[p].at \in {"undoing", "releasing"} /\ proc[p].ok

\* The pointer still names the version that the process runs, or does again.
AtOwn(p) ==
    \/ proc[p].at \in {"downloading", "promoting", "pointing", "discarding"}
    \/ proc[p].at = "undoing" /\ ~proc[p].ok

Emptied ==
    /\ \A v \in Releases : dirs[v] = "absent"
    /\ \A p \in Proc : staged[p] = "absent" /\ ~temp[p]

Gone == current = NoVersion /\ Emptied

Sound(p) ==
    /\ proc[p].at \in Working => Holds(p)
    /\ proc[p].at \in Updating => proc[p].version \in Releases /\ proc[p].target \in Releases
    /\ Done(p) => /\ proc[p].result.target = proc[p].target
                  /\ proc[p].result.previous = proc[p].version
    /\ AtOwn(p) => current = proc[p].version
    /\ proc[p].at \in {"off", "uninstalling", "forgetting"} => ~proc[p].ok
    /\ proc[p].at = "forgetting" => Emptied
    /\ proc[p].at = "forgotten" /\ proc[p].ok => Gone

SoundInv == \A p \in Proc : Sound(p)

\* What a step makes of the process that takes it, and that it leaves the others.
Becomes(p, w, t, b, r) ==
    /\ proc'[p].at = w /\ proc'[p].version = proc[p].version
    /\ proc'[p].target = t /\ proc'[p].ok = b /\ proc'[p].result = r
    /\ \A q \in Proc \ {p} : proc'[q] = proc[q]

\* A process goes on to w, and changes nothing that the others read.
Goes(p, w) == Becomes(p, w, proc[p].target, proc[p].ok, proc[p].result)

\* What the step of another may do to a process: end the child it waits for.
Still(q) ==
    /\ proc'[q].version = proc[q].version /\ proc'[q].target = proc[q].target
    /\ proc'[q].ok = proc[q].ok /\ proc'[q].result = proc[q].result
    /\ proc'[q].garbage = proc[q].garbage
    /\ \/ proc'[q].at = proc[q].at
       \/ proc[q].at = "waiting" /\ proc'[q].at \in {"relaunched", "launch_failed"}

LEMMA Typed ==
    ASSUME ProcTypeOK, NEW p \in Proc
    PROVE  /\ proc[p] \in ProcType
           /\ proc[p].at \in Places /\ proc[p].version \in Named /\ proc[p].target \in Named
           /\ proc[p].result \in [target : Named, previous : Named, shared : BOOLEAN]
BY DEF ProcTypeOK, ProcType

LEMMA MoveFields ==
    ASSUME ProcTypeOK, NEW p \in Proc, NEW w \in Places, Move(p, w)
    PROVE  Goes(p, w) /\ proc'[p].garbage = proc[p].garbage
BY DEF ProcTypeOK, ProcType, Move, Goes, Becomes

LEMMA EndFields ==
    ASSUME ProcTypeOK, NEW p \in Proc, NEW code, EndWith(p, code)
    PROVE  proc'[p] = Off /\ \A q \in Proc \ {p} : Still(q)
<1> DEFINE result == IF code = 0 THEN "relaunched" ELSE "launch_failed"
<1>1. proc' = [r \in Proc |-> After(r, p, result)]
  BY DEF EndWith
<1>2. proc'[p] = Off
  BY <1>1 DEF After
<1>3. ASSUME NEW q \in Proc \ {p} PROVE Still(q)
  <2>1. proc[q] \in ProcType /\ result \in {"relaunched", "launch_failed"}
    BY Typed
  <2>2. proc'[q] = After(q, p, result)
    BY <1>1
  <2> HIDE DEF result
  <2>3. CASE q = proc[p].parent /\ At(q, "waiting")
    <3>1. proc'[q] = [proc[q] EXCEPT !.at = result]
      BY <2>2, <2>3 DEF After
    <3> QED BY <2>1, <2>3, <3>1 DEF Still, ProcType, At
  <2>4. CASE ~(q = proc[p].parent /\ At(q, "waiting"))
    <3>1. proc'[q] = [proc[q] EXCEPT !.parent = NoProc] \/ proc'[q] = proc[q]
      BY <2>2, <2>4 DEF After
    <3> QED BY <2>1, <3>1 DEF Still, ProcType
  <2> QED BY <2>3, <2>4
<1> QED BY <1>2, <1>3

\* Whom another process's step does not take the lock from.
LEMMA TakerOfOthers ==
    ASSUME LockTypeOK, NEW p \in Proc, NEW q \in Proc \ {p},
           \/ Begin(p) \/ Acquire(p) \/ GiveUp(p) \/ Release(p) \/ Unlink(p)
           \/ UNCHANGED lockVars
    PROVE  taker'[q] = taker[q]
BY DEF LockTypeOK, Begin, Acquire, GiveUp, Release, Unlink, Create, FindExisting,
   WriteMetadata, WriteFails, StatLock, Inspect, RemoveStale, Go, lockVars

\* One process at most is at work.
LEMMA OthersRest ==
    ASSUME LockInv, SoundInv, NEW p \in Proc, Holds(p), NEW q \in Proc \ {p}
    PROVE  /\ proc[q].at \notin Working
           /\ ~AtOwn(q)
<1>1. ~Holds(q)
  BY DEF LockInv, Holds
<1>2. proc[q].at \notin Working
  BY <1>1 DEF SoundInv, Sound
<1> QED BY <1>2 DEF AtOwn, Working

\* What is sound for a process stays so while others move.
LEMMA OtherStaysSound ==
    ASSUME SoundInv, NEW q \in Proc, Still(q), taker'[q] = taker[q],
           Gone => Gone',
           \/ proc[q].at \notin Working
           \/ current' = current /\ (Emptied => Emptied')
    PROVE  Sound(q)'
<1>1. Sound(q)
  BY DEF SoundInv
<1>2. CASE proc'[q].at = proc[q].at
  BY <1>1, <1>2 DEF Still, Sound, Done, AtOwn, Holds, Working, Updating
<1>3. CASE proc[q].at = "waiting" /\ proc'[q].at \in {"relaunched", "launch_failed"}
  BY <1>1, <1>3 DEF Still, Sound, Done, AtOwn, Holds, Working, Updating
<1> QED BY <1>2, <1>3 DEF Still

LEMMA OffSound ==
    ASSUME NEW q \in Proc, proc'[q] = Off
    PROVE  Sound(q)'
BY DEF Off, Sound, Done, AtOwn, Working, Updating

LEMMA KeepsOthers ==
    ASSUME LockInv, SoundInv, NEW p \in Proc,
           \A q \in Proc \ {p} : Still(q) /\ taker'[q] = taker[q],
           Gone => Gone', Sound(p)',
           Holds(p) \/ (current' = current /\ (Emptied => Emptied'))
    PROVE  SoundInv'
<1>1. ASSUME NEW q \in Proc \ {p} PROVE Sound(q)'
  <2>1. proc[q].at \notin Working \/ (current' = current /\ (Emptied => Emptied'))
    BY OthersRest
  <2> QED BY <2>1, OtherStaysSound
<1> QED BY <1>1 DEF SoundInv

LEMMA BecomesStill ==
    ASSUME NEW p \in Proc, NEW w, NEW t, NEW b, NEW r, Becomes(p, w, t, b, r)
    PROVE  \A q \in Proc \ {p} : Still(q)
BY DEF Becomes, Still

LEMMA QuietGone ==
    ASSUME UNCHANGED disk
    PROVE  current' = current /\ (Emptied => Emptied') /\ (Gone => Gone')
BY DEF disk, Emptied, Gone

\* A step that touches no file but the lock.
LEMMA QuietKeeps ==
    ASSUME LockInv, SoundInv, NEW p \in Proc, UNCHANGED disk,
           \A q \in Proc \ {p} : Still(q) /\ taker'[q] = taker[q],
           Sound(p)'
    PROVE  SoundInv'
BY QuietGone, KeepsOthers

LEMMA QuietGoes ==
    ASSUME LockInv, SoundInv, ProcTypeOK, NEW p \in Proc, UNCHANGED disk,
           NEW w \in Places, Move(p, w),
           \A q \in Proc \ {p} : taker'[q] = taker[q],
           Sound(p)'
    PROVE  SoundInv'
<1>1. Goes(p, w)
  BY MoveFields
<1>2. \A q \in Proc \ {p} : Still(q)
  BY <1>1, BecomesStill DEF Goes
<1> QED BY <1>2, QuietKeeps

LEMMA QuietEnd ==
    ASSUME LockInv, SoundInv, ProcTypeOK, NEW p \in Proc, UNCHANGED disk,
           NEW code, EndWith(p, code),
           \A q \in Proc \ {p} : taker'[q] = taker[q]
    PROVE  SoundInv'
<1>1. proc'[p] = Off /\ \A q \in Proc \ {p} : Still(q)
  BY EndFields
<1>2. Sound(p)'
  BY <1>1, OffSound
<1> QED BY <1>1, <1>2, QuietKeeps

\* Without an update a process only goes back to a question or to the chat.
LEMMA WithoutSound ==
    ASSUME LockInv, SoundInv, ProcTypeOK, NEW p \in Proc, UNCHANGED disk,
           proc[p].at \in Updating, Move(p, Without(p)),
           \A q \in Proc \ {p} : taker'[q] = taker[q]
    PROVE  SoundInv'
<1>1. Without(p) \in {"asking", "chatting"} /\ Without(p) \in Places
  BY DEF Without, Places
<1>2. Goes(p, Without(p))
  BY <1>1, MoveFields
<1>3. Sound(p)'
  BY <1>1, <1>2 DEF SoundInv, Sound, Goes, Becomes, Done, AtOwn, Working, Updating
<1> QED BY <1>1, <1>3, QuietGoes

LEMMA InstallSoundQuiet ==
    ASSUME LockInv, SoundInv, ProcTypeOK, DiskTypeOK, NEW p \in Proc,
           \/ InstallBusy(p) \/ CompletedByAnother(p) \/ InstallFailed(p) \/ FoundChanged(p)
           \/ Reuse(p) \/ InstallStepFails(p) \/ InstallReturns(p)
    PROVE  SoundInv'
<1> USE DEF Sound, Done, AtOwn, Working, Updating, At, Becomes
<1>0. Sound(p) /\ proc[p] \in ProcType /\ LockTypeOK
  BY Typed DEF SoundInv, LockInv
<1>1. UNCHANGED disk
  BY DEF InstallBusy, CompletedByAnother, InstallFailed, FoundChanged, Reuse,
     InstallStepFails, InstallReturns
<1>2. \A q \in Proc \ {p} : taker'[q] = taker[q]
  <2>1. GiveUp(p) \/ UNCHANGED lockVars
    BY DEF InstallBusy, CompletedByAnother, InstallFailed, FoundChanged, Reuse,
       InstallStepFails, InstallReturns
  <2> QED BY <1>0, <2>1, TakerOfOthers
<1>3. CASE Move(p, Without(p))
  <2>1. proc[p].at \in Updating
    BY DEF InstallBusy, CompletedByAnother, InstallFailed, FoundChanged, Reuse,
       InstallStepFails, InstallReturns, Installing
  <2> QED BY <1>1, <1>2, <1>3, <2>1, WithoutSound
<1>4. CASE InstallBusy(p) /\ Move(p, "verifying")
  <2>1. "verifying" \in Places /\ proc[p].at = "locking"
    BY <1>4 DEF Places, InstallBusy
  <2>2. Goes(p, "verifying")
    BY <1>4, <2>1, MoveFields
  <2>3. Sound(p)'
    BY <1>0, <2>1, <2>2 DEF Goes
  <2> QED BY <1>1, <1>2, <1>4, <2>1, <2>3, QuietGoes
<1>5. CASE CompletedByAnother(p) /\ ~Move(p, Without(p))
  <2> DEFINE r == [target |-> proc[p].target, previous |-> proc[p].version, shared |-> TRUE]
  <2>1. proc' = [proc EXCEPT ![p].at = "launching", ![p].result = r] /\ proc[p].at = "verifying"
    BY <1>5 DEF CompletedByAnother
  <2>2. Becomes(p, "launching", proc[p].target, proc[p].ok, r)
    BY <1>0, <2>1 DEF ProcTypeOK, ProcType
  <2>3. r.target = proc[p].target /\ r.previous = proc[p].version
    OBVIOUS
  <2> HIDE DEF r
  <2>4. Sound(p)'
    BY <1>0, <2>1, <2>2, <2>3
  <2> QED BY <1>1, <1>2, <2>2, <2>4, BecomesStill, QuietKeeps
<1>6. CASE FoundChanged(p)
  <2>1. proc[p].at = "locking" /\ taker' = taker
    BY <1>6 DEF FoundChanged, Installing, lockVars
  <2>2. CASE Fails(p)
    <3>1. Becomes(p, "releasing", proc[p].target, FALSE, proc[p].result)
      BY <1>0, <2>2 DEF Fails, ProcTypeOK, ProcType
    <3>2. Sound(p)'
      BY <1>0, <2>1, <3>1
    <3> QED BY <1>1, <1>2, <3>1, <3>2, BecomesStill, QuietKeeps
  <2>3. CASE ~Fails(p)
    <3> DEFINE r == [target |-> current, previous |-> proc[p].version, shared |-> TRUE]
    <3>1. /\ proc' = [proc EXCEPT ![p].at = "releasing", ![p].ok = TRUE, ![p].result = r]
          /\ current = proc[p].target
      BY <1>6, <2>3 DEF FoundChanged
    <3>2. Becomes(p, "releasing", proc[p].target, TRUE, r)
      BY <1>0, <3>1 DEF ProcTypeOK, ProcType
    <3>3. r.target = proc[p].target /\ r.previous = proc[p].version
      BY <3>1
    <3> HIDE DEF r
    <3>4. Sound(p)'
      BY <1>0, <2>1, <3>2, <3>3
    <3> QED BY <1>1, <1>2, <3>2, <3>4, BecomesStill, QuietKeeps
  <2> QED BY <2>2, <2>3
<1>7. CASE Reuse(p)
  <2>1. proc[p].at = "locking" /\ taker' = taker /\ Holds(p) /\ current = proc[p].version
    BY <1>7 DEF Reuse, Installing, lockVars
  <2>2. Becomes(p, "pointing", proc[p].target, proc[p].ok, proc[p].result)
    BY <1>0, <1>7 DEF Reuse, ProcTypeOK, ProcType
  <2>3. Sound(p)'
    BY <1>0, <1>1, <2>1, <2>2 DEF disk, Holds
  <2> QED BY <1>1, <1>2, <2>2, <2>3, BecomesStill, QuietKeeps
<1>8. CASE InstallStepFails(p)
  <2>1. proc[p].at \in {"downloading", "promoting", "pointing"} /\ taker' = taker
    BY <1>8 DEF InstallStepFails, lockVars
  <2>2. Becomes(p, "undoing", proc[p].target, FALSE, proc[p].result)
    BY <1>0, <1>8 DEF InstallStepFails, Undoing, ProcTypeOK, ProcType
  <2>3. Sound(p)'
    BY <1>0, <1>1, <2>1, <2>2 DEF disk, Holds
  <2> QED BY <1>1, <1>2, <2>2, <2>3, BecomesStill, QuietKeeps
<1>9. CASE InstallReturns(p) /\ proc[p].ok
  <2>1. proc[p].at = "releasing" /\ Move(p, "launching") /\ "launching" \in Places
    BY <1>9 DEF InstallReturns, Places
  <2>2. Goes(p, "launching")
    BY <2>1, MoveFields
  <2>3. Sound(p)'
    BY <1>0, <1>9, <2>1, <2>2 DEF Goes
  <2> QED BY <1>1, <1>2, <2>1, <2>3, QuietGoes
<1> QED BY <1>3, <1>4, <1>5, <1>6, <1>7, <1>8, <1>9
        DEF InstallBusy, InstallFailed, InstallReturns

\* The steps of an installation that change files: all are taken by the holder
\* of the lock, and none after the end of the installation.
LEMMA InstallSoundDisk ==
    ASSUME LockInv, SoundInv, ProcTypeOK, DiskTypeOK, NEW p \in Proc,
           Fetch(p) \/ Stage(p) \/ Promote(p) \/ Point(p) \/ Undo(p)
    PROVE  SoundInv'
<1> USE DEF Sound, Done, AtOwn, Working, Updating, At, Becomes
<1>0. /\ Sound(p) /\ proc[p] \in ProcType /\ LockTypeOK
      /\ NoVersion \notin Releases
  BY Typed, ReleaseAssumption DEF SoundInv, LockInv
<1>1. Holds(p) /\ taker' = taker
  BY <1>0 DEF Fetch, Installing, Stage, Promote, Point, Undo, lockVars
<1>2. \A q \in Proc \ {p} : taker'[q] = taker[q]
  BY <1>1
<1>3. CASE Fetch(p) \/ Stage(p)
  <2>1. PICK w \in {"downloading", "promoting"} : Move(p, w)
    BY <1>3 DEF Fetch, Stage
  <2>2. w \in Places /\ Goes(p, w)
    BY <2>1, MoveFields DEF Places
  <2>3. current' = current /\ current = proc[p].version /\ proc[p].at \in Updating
    BY <1>0, <1>3 DEF Fetch, Stage, Installing
  <2>4. Sound(p)'
    BY <1>0, <1>1, <2>1, <2>2, <2>3 DEF Goes, Holds
  <2>5. ~Gone
    BY <1>0, <2>3 DEF Gone
  <2>6. \A q \in Proc \ {p} : Still(q)
    BY <2>2, BecomesStill DEF Goes
  <2> QED BY <1>1, <1>2, <2>4, <2>5, <2>6, KeepsOthers
<1>4. CASE Promote(p)
  <2>1. Becomes(p, "pointing", proc[p].target, proc[p].ok, proc[p].result)
    BY <1>0, <1>4 DEF Promote, ProcTypeOK, ProcType
  <2>2. current' = current /\ current = proc[p].version /\ proc[p].at = "promoting"
    BY <1>0, <1>4 DEF Promote
  <2>3. Sound(p)'
    BY <1>0, <1>1, <2>1, <2>2 DEF Holds
  <2>4. ~Gone
    BY <1>0, <2>2 DEF Gone
  <2> QED BY <1>1, <1>2, <2>1, <2>3, <2>4, BecomesStill, KeepsOthers
<1>5. CASE Point(p)
  <2>1. Becomes(p, "undoing", proc[p].target, TRUE, Ours(p))
    BY <1>0, <1>5 DEF Point, ProcTypeOK, ProcType
  <2>2. current = proc[p].version /\ proc[p].at = "pointing"
    BY <1>0, <1>5 DEF Point
  <2>3. Ours(p).target = proc[p].target /\ Ours(p).previous = proc[p].version
    BY DEF Ours
  <2>4. Sound(p)'
    BY <1>0, <1>1, <2>1, <2>2, <2>3 DEF Holds
  <2>5. ~Gone
    BY <1>0, <2>2 DEF Gone
  <2> QED BY <1>1, <1>2, <2>1, <2>4, <2>5, BecomesStill, KeepsOthers
<1>6. CASE Undo(p)
  <2>1. Becomes(p, "releasing", proc[p].target, proc[p].ok, proc[p].result)
    BY <1>0, <1>6 DEF Undo, ProcTypeOK, ProcType
  <2>2. proc[p].at = "undoing" /\ current' = current
    BY <1>6 DEF Undo
  <2>3. Sound(p)'
    BY <1>0, <1>1, <2>1, <2>2 DEF Holds
  <2>4. Gone => Gone'
    BY <1>6 DEF Undo, Gone, Emptied, DiskTypeOK
  <2> QED BY <1>1, <1>2, <2>1, <2>3, <2>4, BecomesStill, KeepsOthers
<1> QED BY <1>3, <1>4, <1>5, <1>6

LEMMA RollbackSound ==
    ASSUME LockInv, SoundInv, ProcTypeOK, DiskTypeOK, NEW p \in Proc, RollbackNext(p)
    PROVE  SoundInv'
<1> USE DEF Sound, Done, AtOwn, Working, Updating, At, Becomes
<1>0. /\ Sound(p) /\ proc[p] \in ProcType /\ LockTypeOK
      /\ NoVersion \notin Releases
  BY Typed, ReleaseAssumption DEF SoundInv, LockInv
<1>2. \A q \in Proc \ {p} : taker'[q] = taker[q]
  <2>1. Begin(p) \/ GiveUp(p) \/ UNCHANGED lockVars
    BY DEF RollbackNext, KeepShared, BeginRollback, RollbackRefused, RollbackPoint,
       RollbackFails, RollbackDiscard, RollbackReturns
  <2> QED BY <1>0, <2>1, TakerOfOthers
<1>3. CASE KeepShared(p) \/ (RollbackReturns(p) /\ proc[p].ok)
  BY <1>2, <1>3, WithoutSound DEF KeepShared, RollbackReturns
<1>4. CASE RollbackRefused(p) \/ (RollbackReturns(p) /\ ~proc[p].ok)
  BY <1>2, <1>4, QuietEnd DEF RollbackRefused, RollbackReturns
<1>5. CASE BeginRollback(p)
  <2>1. Move(p, "taking_back") /\ "taking_back" \in Places /\ proc[p].at = "launch_failed"
    BY <1>5 DEF BeginRollback, Places
  <2>2. Goes(p, "taking_back")
    BY <2>1, MoveFields
  <2>3. Sound(p)'
    BY <1>0, <2>1, <2>2 DEF Goes
  <2> QED BY <1>2, <1>5, <2>1, <2>3, QuietGoes DEF BeginRollback
<1>6. CASE RollbackPoint(p)
  <2>1. /\ Move(p, "discarding") /\ "discarding" \in Places
        /\ proc[p].at = "taking_back" /\ Holds(p) /\ taker' = taker
        /\ current = proc[p].result.target /\ current' = proc[p].result.previous
    BY <1>6 DEF RollbackPoint, Places, lockVars
  <2>2. Goes(p, "discarding")
    BY <2>1, MoveFields
  <2>3. Sound(p)'
    BY <1>0, <2>1, <2>2 DEF Goes, Holds
  <2>4. ~Gone
    BY <1>0, <2>1 DEF Gone
  <2>5. \A q \in Proc \ {p} : Still(q)
    BY <2>2, BecomesStill DEF Goes
  <2> QED BY <1>2, <2>1, <2>3, <2>4, <2>5, KeepsOthers
<1>7. CASE RollbackFails(p)
  <2>1. proc[p].at = "taking_back" /\ UNCHANGED disk
    BY <1>7 DEF RollbackFails
  <2>2. Becomes(p, "taken_back", proc[p].target, FALSE, proc[p].result)
    BY <1>0, <1>7 DEF RollbackFails, ProcTypeOK, ProcType
  <2>3. Sound(p)'
    BY <1>0, <2>1, <2>2
  <2> QED BY <1>2, <2>1, <2>2, <2>3, BecomesStill, QuietKeeps
<1>8. CASE RollbackDiscard(p)
  <2>1. proc[p].at = "discarding" /\ current' = current /\ Holds(p)
    BY <1>0, <1>8 DEF RollbackDiscard
  <2>2. Becomes(p, "taken_back", proc[p].target, TRUE, proc[p].result)
    BY <1>0, <1>8 DEF RollbackDiscard, ProcTypeOK, ProcType
  <2>3. Sound(p)'
    BY <1>0, <2>1, <2>2
  <2>4. ~Gone
    BY <1>0, <2>1 DEF Gone
  <2> QED BY <1>2, <2>1, <2>2, <2>3, <2>4, BecomesStill, KeepsOthers
<1> QED BY <1>3, <1>4, <1>5, <1>6, <1>7, <1>8 DEF RollbackNext

LEMMA UninstallSound ==
    ASSUME LockInv, SoundInv, ProcTypeOK, DiskTypeOK, NEW p \in Proc, UninstallNext(p)
    PROVE  SoundInv'
<1> USE DEF Sound, Done, AtOwn, Working, Updating, At, Becomes
<1>0. Sound(p) /\ proc[p] \in ProcType /\ LockTypeOK
  BY Typed DEF SoundInv, LockInv
<1>2. \A q \in Proc \ {p} : taker'[q] = taker[q]
  <2>1. Begin(p) \/ GiveUp(p) \/ UNCHANGED lockVars
    BY DEF UninstallNext, BeginUninstall, UninstallRefused, RemoveVersions,
       RemovePointer, RemovalFails, UninstallReturns
  <2> QED BY <1>0, <2>1, TakerOfOthers
<1>3. CASE BeginUninstall(p)
  <2>1. Move(p, "uninstalling") /\ proc[p].at = "off" /\ "uninstalling" \in Places
    BY <1>3 DEF BeginUninstall, Move, Places
  <2>2. Goes(p, "uninstalling")
    BY <2>1, MoveFields
  <2>3. Sound(p)'
    BY <1>0, <2>1, <2>2 DEF Goes
  <2> QED BY <1>2, <1>3, <2>1, <2>3, QuietGoes DEF BeginUninstall
<1>4. CASE UninstallRefused(p)
  <2>1. Move(p, "off") /\ proc[p].at = "uninstalling" /\ "off" \in Places
    BY <1>4 DEF UninstallRefused, Move, Places
  <2>2. Goes(p, "off")
    BY <2>1, MoveFields
  <2>3. Sound(p)'
    BY <1>0, <2>1, <2>2 DEF Goes
  <2> QED BY <1>2, <1>4, <2>1, <2>3, QuietGoes DEF UninstallRefused
<1>5. CASE RemoveVersions(p)
  <2>1. Move(p, "forgetting") /\ proc[p].at = "uninstalling" /\ "forgetting" \in Places
    BY <1>5 DEF RemoveVersions, Places
  <2>2. Goes(p, "forgetting")
    BY <2>1, MoveFields
  <2>3. Holds(p) /\ Holds(p)' /\ current' = current
    BY <1>5 DEF RemoveVersions, lockVars, Holds
  <2>4. Emptied'
    BY <1>5 DEF RemoveVersions, Emptied
  <2>5. Sound(p)'
    BY <1>0, <2>1, <2>2, <2>3, <2>4 DEF Goes
  <2>6. Gone => Gone'
    BY <2>3, <2>4 DEF Gone
  <2>7. \A q \in Proc \ {p} : Still(q)
    BY <2>2, BecomesStill DEF Goes
  <2> QED BY <1>2, <2>3, <2>5, <2>6, <2>7, KeepsOthers
<1>6. CASE RemovePointer(p)
  <2>1. proc[p].at = "forgetting" /\ Holds(p) /\ current' = NoVersion
    BY <1>0, <1>6 DEF RemovePointer
  <2>2. Becomes(p, "forgotten", proc[p].target, TRUE, proc[p].result)
    BY <1>0, <1>6 DEF RemovePointer, ProcTypeOK, ProcType
  <2>3. Emptied'
    BY <1>0, <1>6, <2>1 DEF RemovePointer, Emptied
  <2>4. Gone'
    BY <2>1, <2>3 DEF Gone
  <2>5. Sound(p)'
    BY <1>0, <2>1, <2>2, <2>4
  <2> QED BY <1>2, <2>1, <2>2, <2>4, <2>5, BecomesStill, KeepsOthers
<1>7. CASE RemovalFails(p)
  <2>1. Move(p, "forgotten") /\ "forgotten" \in Places
        /\ proc[p].at \in {"uninstalling", "forgetting"} /\ UNCHANGED disk
    BY <1>7 DEF RemovalFails, Places
  <2>2. Goes(p, "forgotten")
    BY <2>1, MoveFields
  <2>3. Sound(p)'
    BY <1>0, <2>1, <2>2 DEF Goes
  <2> QED BY <1>2, <2>1, <2>3, QuietGoes
<1>8. CASE UninstallReturns(p)
  <2>1. proc' = [proc EXCEPT ![p] = Off] /\ UNCHANGED disk
    BY <1>8 DEF UninstallReturns
  <2>2. proc'[p] = Off /\ \A q \in Proc \ {p} : Still(q)
    BY <2>1 DEF ProcTypeOK, Still
  <2>3. Sound(p)'
    BY <2>2, OffSound
  <2> QED BY <1>2, <2>1, <2>2, <2>3, QuietKeeps
<1> QED BY <1>3, <1>4, <1>5, <1>6, <1>7, <1>8 DEF UninstallNext

\* Cleaning up brings nothing back.
LEMMA CleanupEmpties ==
    ASSUME ProcTypeOK, DiskTypeOK, NEW p \in Proc, Emptied,
           \/ Sweep(p) \/ EndCleanup(p)
           \/ \E e \in proc[p].garbage : RemoveEntry(p, e)
    PROVE  current' = current /\ Emptied'
<1>0. proc[p] \in ProcType
  BY Typed
<1>1. current' = current
  BY DEF Sweep, EndCleanup, RemoveEntry, disk
<1>2. CASE Sweep(p) \/ EndCleanup(p)
  BY <1>2 DEF Sweep, EndCleanup, Emptied, disk
<1>3. ASSUME NEW e \in proc[p].garbage, RemoveEntry(p, e)
      PROVE  Emptied'
  <2>1. e \in ({"version"} \X Releases) \cup ({"staged"} \X Proc)
    BY <1>0 DEF ProcType
  <2>2. Shrunk("absent") = "absent" /\ temp' = temp
    BY <1>3 DEF Shrunk, RemoveEntry
  <2>3. CASE e[1] = "version"
    <3>1. e[2] \in Releases
      BY <2>1, <2>3
    <3>2. dirs' = [dirs EXCEPT ![e[2]] = Shrunk(dirs[e[2]])] /\ staged' = staged
      BY <1>3, <2>3 DEF RemoveEntry
    <3> QED BY <2>2, <3>1, <3>2 DEF Emptied, DiskTypeOK
  <2>4. CASE e[1] # "version"
    <3>1. e[2] \in Proc
      BY <2>1, <2>4
    <3>2. staged' = [staged EXCEPT ![e[2]] = Shrunk(staged[e[2]])] /\ dirs' = dirs
      BY <1>3, <2>4 DEF RemoveEntry
    <3> QED BY <2>2, <3>1, <3>2 DEF Emptied, DiskTypeOK
  <2> QED BY <2>3, <2>4
<1> QED BY <1>1, <1>2, <1>3

LEMMA CleanupSound ==
    ASSUME LockInv, SoundInv, ProcTypeOK, DiskTypeOK, NEW p \in Proc,
           \/ Sweep(p) \/ EndCleanup(p)
           \/ \E e \in proc[p].garbage : RemoveEntry(p, e)
    PROVE  SoundInv'
<1> USE DEF Sound, Done, AtOwn, Working, Updating, At, Becomes
<1>0. Sound(p) /\ proc[p] \in ProcType /\ LockTypeOK
  BY Typed DEF SoundInv, LockInv
<1>1. /\ \A q \in Proc \ {p} : taker'[q] = taker[q]
      /\ current' = current
  BY DEF Sweep, EndCleanup, RemoveEntry, lockVars, disk
<1>2. PICK w \in {"removing", "checking"} :
          Becomes(p, w, proc[p].target, proc[p].ok, proc[p].result)
  <2>1. CASE Sweep(p)
    BY <1>0, <2>1 DEF Sweep, ProcTypeOK, ProcType
  <2>2. CASE EndCleanup(p)
    BY <1>0, <2>2 DEF EndCleanup, ProcTypeOK, ProcType
  <2>3. ASSUME NEW e \in proc[p].garbage, RemoveEntry(p, e)
        PROVE  Becomes(p, "removing", proc[p].target, proc[p].ok, proc[p].result)
    <3>1. proc[p].at = "removing"
      BY <2>3 DEF RemoveEntry
    <3>2. proc' = proc \/ proc' = [proc EXCEPT ![p].garbage = @ \ {e}]
      BY <2>3 DEF RemoveEntry
    <3> QED BY <1>0, <3>1, <3>2 DEF ProcTypeOK, ProcType
  <2> QED BY <2>1, <2>2, <2>3
<1>3. Sound(p)'
  BY <1>0, <1>2
<1>4. Emptied => Emptied'
  BY CleanupEmpties
<1>5. Gone => Gone'
  BY <1>1, <1>4 DEF Gone
<1> QED BY <1>1, <1>2, <1>3, <1>4, <1>5, BecomesStill, KeepsOthers

LEMMA StartedSound ==
    ASSUME NEW q \in Proc, NEW v, NEW r, proc'[q] = Started(v, r)
    PROVE  Sound(q)'
<1>1. proc'[q].at = "sweeping" /\ proc'[q].ok = FALSE
  BY DEF Started, Off
<1> QED BY <1>1 DEF Sound, Done, AtOwn, Working, Updating

LEMMA LaunchSound ==
    ASSUME LockInv, SoundInv, ProcTypeOK, NEW p \in Proc, NEW q \in Proc, Launch(p, q)
    PROVE  SoundInv'
<1> USE DEF Sound, Done, AtOwn, Working, Updating, At
<1>0. Sound(p) /\ proc[p] \in ProcType /\ proc[p].at = "launching" /\ p # q
  BY Typed DEF SoundInv, Launch
<1>1. UNCHANGED disk /\ taker' = taker
  BY DEF Launch, lockVars
<1>2. /\ proc'[q] = Started(proc[p].result.target, p)
      /\ proc'[p] = [proc[p] EXCEPT !.at = "waiting"]
      /\ \A r \in Proc \ {p, q} : proc'[r] = proc[r]
  BY <1>0 DEF Launch, ProcTypeOK
<1>3. Sound(q)'
  BY <1>2, StartedSound
<1>4. /\ proc'[p].at = "waiting" /\ proc'[p].version = proc[p].version
      /\ proc'[p].target = proc[p].target /\ proc'[p].result = proc[p].result
  BY <1>0, <1>2 DEF ProcType
<1>5. Sound(p)'
  BY <1>0, <1>4
<1>6. ASSUME NEW r \in Proc \ {p, q} PROVE Sound(r)'
  <2>1. Still(r) /\ taker'[r] = taker[r]
    BY <1>1, <1>2 DEF Still
  <2> QED BY <1>1, <2>1, QuietGone, OtherStaysSound
<1> QED BY <1>3, <1>5, <1>6 DEF SoundInv

LEMMA ClientSound ==
    ASSUME LockInv, SoundInv, ProcTypeOK, DiskTypeOK, NEW p \in Proc, ClientNext(p)
    PROVE  SoundInv'
<1> USE DEF Sound, Done, AtOwn, Working, Updating, At, Becomes
<1>0. Sound(p) /\ proc[p] \in ProcType /\ LockTypeOK
  BY Typed DEF SoundInv, LockInv
<1>1. CASE Start(p)
  <2>1. /\ UNCHANGED disk /\ taker' = taker
        /\ proc'[p] = Started(current, NoProc)
        /\ \A q \in Proc \ {p} : proc'[q] = proc[q]
    BY <1>1 DEF Start, lockVars, ProcTypeOK
  <2>2. Sound(p)'
    BY <2>1, StartedSound
  <2>3. \A q \in Proc \ {p} : Still(q) /\ taker'[q] = taker[q]
    BY <2>1 DEF Still
  <2> QED BY <2>1, <2>2, <2>3, QuietKeeps
<1>2. CASE StartFails(p) \/ Decline(p) \/ GiveUpUpdate(p) \/ Relaunched(p) \/ LeaveChat(p)
  <2>1. PICK code \in {0, 1} : End(p, code)
    BY <1>2 DEF StartFails, Decline, GiveUpUpdate, Relaunched, LeaveChat
  <2>2. UNCHANGED disk /\ \A q \in Proc \ {p} : taker'[q] = taker[q]
    BY <2>1 DEF End, lockVars
  <2> QED BY <2>1, <2>2, QuietEnd DEF End
<1>3. CASE \/ Sweep(p) \/ EndCleanup(p)
           \/ (\E e \in proc[p].garbage : RemoveEntry(p, e))
  BY <1>3, CleanupSound
<1>4. CASE EnterChat(p) \/ LaunchFails(p)
  <2>1. PICK w \in {"chatting", "launch_failed"} :
           /\ Move(p, w) /\ w \in Places
           /\ (w = "launch_failed" => proc[p].at = "launching")
    BY <1>4 DEF EnterChat, LaunchFails, Places
  <2>2. Goes(p, w)
    BY <2>1, MoveFields
  <2>3. Sound(p)'
    BY <1>0, <2>1, <2>2 DEF Goes
  <2>4. UNCHANGED disk /\ \A q \in Proc \ {p} : taker'[q] = taker[q]
    BY <1>4 DEF EnterChat, LaunchFails, lockVars
  <2> QED BY <2>1, <2>3, <2>4, QuietGoes
<1>5. CASE Retry(p)
  <2>1. Move(p, "locking") /\ "locking" \in Places /\ proc[p].at = "asking"
    BY <1>5 DEF Retry, Places
  <2>2. Goes(p, "locking")
    BY <2>1, MoveFields
  <2>3. Sound(p)'
    BY <1>0, <2>1, <2>2 DEF Goes
  <2>4. UNCHANGED disk /\ \A q \in Proc \ {p} : taker'[q] = taker[q]
    BY <1>0, <1>5, TakerOfOthers DEF Retry
  <2> QED BY <2>1, <2>3, <2>4, QuietGoes
<1>6. CASE AcceptUpdate(p)
  <2> DEFINE x == [proc[p] EXCEPT !.at = "locking", !.target = published.latest,
                       !.required = proc[p].known \/ Decision(p) = "required"]
  <2>1. proc' = [proc EXCEPT ![p] = x]
    BY <1>6 DEF AcceptUpdate
  <2>2. /\ x.at = "locking" /\ x.target = published.latest
        /\ x.version = proc[p].version /\ x.ok = proc[p].ok /\ x.result = proc[p].result
    BY <1>0 DEF ProcType
  <2>3. Becomes(p, "locking", published.latest, proc[p].ok, proc[p].result)
    <3> HIDE DEF x
    <3> QED BY <2>1, <2>2 DEF ProcTypeOK
  <2>4. proc[p].version \in Releases /\ published.latest \in Releases
    BY <1>0, <1>6, ReleaseAssumption
    DEF AcceptUpdate, Behind, Client, ProcType, Named, DiskTypeOK
  <2>5. Sound(p)'
    BY <2>3, <2>4
  <2>6. UNCHANGED disk /\ \A q \in Proc \ {p} : taker'[q] = taker[q]
    BY <1>0, <1>6, TakerOfOthers DEF AcceptUpdate
  <2> QED BY <2>3, <2>5, <2>6, BecomesStill, QuietKeeps
<1>7. CASE UpgradeRequired(p)
  <2>1. Becomes(p, "checking", proc[p].target, proc[p].ok, proc[p].result)
    BY <1>0, <1>7 DEF UpgradeRequired, ProcTypeOK, ProcType
  <2>2. UNCHANGED disk /\ \A q \in Proc \ {p} : taker'[q] = taker[q]
    BY <1>7 DEF UpgradeRequired, lockVars
  <2>3. Sound(p)'
    BY <2>1
  <2> QED BY <2>1, <2>2, <2>3, BecomesStill, QuietKeeps
<1>8. CASE InstallNext(p) \/ RollbackNext(p)
  BY <1>8, InstallSoundQuiet, InstallSoundDisk, RollbackSound DEF InstallNext
<1>9. CASE \E q \in Proc : Launch(p, q)
  BY <1>9, LaunchSound
<1>10. CASE LockStep(p)
  <2>1. UNCHANGED disk /\ proc' = proc /\ proc[p].at \notin Working
    BY <1>10 DEF LockStep, Locking, Unlocking
  <2>2. \A q \in Proc \ {p} : taker'[q] = taker[q]
    BY <1>0, <1>10, TakerOfOthers DEF LockStep
  <2>3. Sound(p)'
    BY <1>0, <2>1, QuietGone DEF Still
  <2>4. \A q \in Proc \ {p} : Still(q)
    BY <2>1 DEF Still
  <2> QED BY <2>1, <2>2, <2>3, <2>4, QuietKeeps
<1> QED BY <1>1, <1>2, <1>3, <1>4, <1>5, <1>6, <1>7, <1>8, <1>9, <1>10 DEF ClientNext

LEMMA SoundStep ==
    ASSUME NoFaults, LockInv, SoundInv, ProcTypeOK, DiskTypeOK, [Next]_vars
    PROVE  SoundInv'
<1>1. ASSUME NEW p \in Proc, Crash(p) PROVE FALSE
  BY <1>1 DEF Crash, LoseTaker, NoFaults, LockInv, LockTypeOK
<1>2. CASE Publish \/ Time \/ UNCHANGED vars
  <2>1. UNCHANGED disk /\ proc' = proc /\ taker' = taker
    BY <1>2 DEF Publish, Time, vars, lockVars, GrowOld, disk
  <2>2. ASSUME NEW q \in Proc PROVE Sound(q)'
    <3>1. Still(q) /\ taker'[q] = taker[q]
      BY <2>1 DEF Still
    <3> QED BY <2>1, <3>1, QuietGone, OtherStaysSound
  <2> QED BY <2>2 DEF SoundInv
<1> QED BY <1>1, <1>2, ClientSound, UninstallSound DEF Next

-----------------------------------------------------------------------------
(* The end of the installation *)

\* Once everything is gone no client brings anything back: to install one, the
\* pointer must still name the version it runs.
LEMMA GoneStays ==
    ASSUME SoundInv, ProcTypeOK, DiskTypeOK, Gone, [Next]_vars
    PROVE  Gone'
<1> USE DEF At
<1>0. NoVersion \notin Releases /\ current = NoVersion /\ Emptied
  BY ReleaseAssumption DEF Gone
<1>1. CASE UNCHANGED disk
  BY <1>1, QuietGone
<1>2. ASSUME NEW p \in Proc, \/ Sweep(p) \/ EndCleanup(p)
                             \/ \E e \in proc[p].garbage : RemoveEntry(p, e)
      PROVE  Gone'
  BY <1>0, <1>2, CleanupEmpties DEF Gone
<1>3. ASSUME NEW p \in Proc, Fetch(p) \/ Stage(p) \/ Promote(p) \/ Point(p)
      PROVE  FALSE
  <2>1. Sound(p)
    BY DEF SoundInv
  <2>2. current = proc[p].version /\ proc[p].at \in Updating
    BY <1>3, <2>1 DEF Fetch, Stage, Promote, Point, Installing, Sound, AtOwn, Updating
  <2> QED BY <1>0, <2>1, <2>2 DEF Sound
<1>4. ASSUME NEW p \in Proc, Undo(p) PROVE Gone'
  BY <1>0, <1>4 DEF Undo, Gone, Emptied, DiskTypeOK
<1>5. ASSUME NEW p \in Proc, RollbackPoint(p) \/ RollbackDiscard(p) PROVE FALSE
  <2>1. Sound(p)
    BY DEF SoundInv
  <2>2. \/ proc[p].at = "taking_back" /\ current = proc[p].result.target
        \/ proc[p].at = "discarding"
    BY <1>5 DEF RollbackPoint, RollbackDiscard
  <2> QED BY <1>0, <2>1, <2>2 DEF Sound, Done, AtOwn, Updating
<1>6. ASSUME NEW p \in Proc, RemoveVersions(p) \/ RemovePointer(p) PROVE Gone'
  BY <1>0, <1>6 DEF RemoveVersions, RemovePointer, Gone, Emptied
<1>7. ASSUME NEW p \in Proc, UninstallNext(p) PROVE Gone'
  <2>1. UNCHANGED disk \/ RemoveVersions(p) \/ RemovePointer(p)
    BY <1>7 DEF UninstallNext, BeginUninstall, UninstallRefused, RemovalFails,
       UninstallReturns
  <2> QED BY <1>1, <1>6, <2>1
<1>8. ASSUME NEW p \in Proc, ClientNext(p) PROVE Gone'
  <2>1. CASE InstallNext(p)
    <3>1. UNCHANGED disk \/ Fetch(p) \/ Stage(p) \/ Promote(p) \/ Point(p) \/ Undo(p)
      BY <2>1 DEF InstallNext, InstallBusy, CompletedByAnother, InstallFailed, FoundChanged,
         Reuse, InstallStepFails, InstallReturns
    <3> QED BY <1>1, <1>3, <1>4, <3>1
  <2>2. CASE RollbackNext(p)
    <3>1. UNCHANGED disk \/ RollbackPoint(p) \/ RollbackDiscard(p)
      BY <2>2 DEF RollbackNext, KeepShared, BeginRollback, RollbackRefused, RollbackFails,
         RollbackReturns
    <3> QED BY <1>1, <1>5, <3>1
  <2>3. CASE \/ Start(p) \/ StartFails(p) \/ EnterChat(p) \/ Decline(p) \/ AcceptUpdate(p)
             \/ Retry(p) \/ GiveUpUpdate(p) \/ (\E q \in Proc : Launch(p, q))
             \/ LaunchFails(p) \/ Relaunched(p) \/ LeaveChat(p) \/ UpgradeRequired(p)
             \/ LockStep(p)
    <3>1. UNCHANGED disk
      BY <2>3 DEF Start, StartFails, EnterChat, Decline, AcceptUpdate, Retry, GiveUpUpdate,
         Launch, LaunchFails, Relaunched, LeaveChat, UpgradeRequired, LockStep, End
    <3> QED BY <1>1, <3>1
  <2> QED BY <1>2, <1>8, <2>1, <2>2, <2>3 DEF ClientNext
<1>9. CASE (\E p \in Proc : Crash(p)) \/ Publish \/ Time \/ UNCHANGED vars
  <2>1. UNCHANGED disk
    BY <1>9 DEF Crash, Publish, Time, vars, disk
  <2> QED BY <1>1, <2>1
<1> QED BY <1>7, <1>8, <1>9 DEF Next

\* All that the steps of the installation need of each other.
InstallInv ==
    /\ LockInv /\ DiskTypeOK /\ ProcInv /\ SoundInv
    /\ removed = "done" => Gone

LEMMA InstallInit == Init => InstallInv
<1> SUFFICES ASSUME Init PROVE InstallInv
  OBVIOUS
<1>1. LockInv /\ DiskTypeOK /\ ProcInv
  BY InitKeeps, LockInvInit DEF Init
<1>2. \A p \in Proc : proc[p] = Off
  BY DEF Init
<1>3. SoundInv
  <2>1. ASSUME NEW p \in Proc PROVE Sound(p)
    <3>1. proc[p].at = "off" /\ proc[p].ok = FALSE
      BY <1>2 DEF Off
    <3> QED BY <3>1 DEF Sound, Done, AtOwn, Working, Updating
  <2> QED BY <2>1 DEF SoundInv
<1>4. removed # "done"
  BY DEF Init
<1> QED BY <1>1, <1>3, <1>4 DEF InstallInv

LEMMA InstallStep ==
    ASSUME NoFaults, InstallInv, [Next]_vars
    PROVE  InstallInv'
<1> USE DEF InstallInv
<1>1. LockInv'
  BY NextKeepsRules, LockInvStep
<1>2. DiskTypeOK' /\ ProcInv'
  BY DiskStep, ProcInvStep DEF ProcInv
<1>3. SoundInv'
  BY SoundStep DEF ProcInv
<1>4. Gone => Gone'
  BY GoneStays DEF ProcInv
<1>5. ASSUME NEW p \in Proc, UninstallReturns(p), removed' = "done" PROVE Gone'
  <2>1. CASE removed = "done"
    BY <1>4, <2>1
  <2>2. CASE removed # "done"
    <3>1. proc[p].at = "forgotten" /\ proc[p].ok
      BY <1>5, <2>2 DEF UninstallReturns, At
    <3> QED BY <1>4, <3>1 DEF SoundInv, Sound
  <2> QED BY <2>1, <2>2
<1>6. ASSUME ~(\E p \in Proc : UninstallReturns(p))
      PROVE  removed' \in {removed, "partly"}
  <2>1. ASSUME NEW p \in Proc, UninstallNext(p) PROVE removed' \in {removed, "partly"}
    BY <1>6, <2>1 DEF UninstallNext, BeginUninstall, UninstallRefused, RemovalFails,
       RemoveVersions, RemovePointer
  <2>2. ASSUME NEW p \in Proc, ClientNext(p) PROVE removed' = removed
    <3>1. CASE InstallNext(p)
      BY <3>1 DEF InstallNext, InstallBusy, CompletedByAnother, InstallFailed, FoundChanged,
         Reuse, Fetch, Stage, InstallStepFails, Promote, Point, Undo, InstallReturns
    <3>2. CASE RollbackNext(p)
      BY <3>2 DEF RollbackNext, KeepShared, BeginRollback, RollbackRefused, RollbackPoint,
         RollbackFails, RollbackDiscard, RollbackReturns
    <3>3. CASE ~InstallNext(p) /\ ~RollbackNext(p)
      BY <2>2, <3>3 DEF ClientNext, Start, StartFails, Sweep, EndCleanup, RemoveEntry,
         EnterChat, Decline, AcceptUpdate, Retry, GiveUpUpdate, Launch, LaunchFails,
         Relaunched, LeaveChat, UpgradeRequired, LockStep, End
    <3> QED BY <3>1, <3>2, <3>3
  <2>3. ASSUME (\E p \in Proc : Crash(p)) \/ Publish \/ Time \/ UNCHANGED vars
        PROVE  removed' = removed
    BY <2>3 DEF Crash, Publish, Time, vars
  <2> QED BY <2>1, <2>2, <2>3 DEF Next
<1> QED BY <1>1, <1>2, <1>3, <1>4, <1>5, <1>6

LEMMA InstallInvariant ==
    ASSUME NoFaults PROVE Spec => []InstallInv
<1>1. InstallInv /\ [Next]_vars => InstallInv'
  BY InstallStep
<1> QED BY <1>1, InstallInit, PTL DEF Spec

\* After an uninstall nothing of the installation is left, whatever the clients
\* do that were started while it ran, for any number of them and of releases.
THEOREM UninstallLeavesNothing ==
    ASSUME NoFaults PROVE Spec => []NothingLeft
<1>1. InstallInv => NothingLeft
  BY DEF InstallInv, NothingLeft, Gone, Emptied
<1> QED BY <1>1, InstallInvariant, PTL

-----------------------------------------------------------------------------
(* Whose update a rollback takes back *)

\* The process has made the pointer name its target, and may take that back.
Live(p) == Done(p) /\ ~At(p, "discarding") /\ ~proc[p].result.shared

AtMost(v, w) == Compare(v, w) <= 0

\* The versions between which two updates lead do not overlap.
Apart(p, q) ==
    AtMost(proc[p].target, proc[q].version) \/ AtMost(proc[q].target, proc[p].version)

\* The live updates are stacked one upon the other, below the pointer.
Stacked ==
    /\ \A p \in Proc : At(p, "taking_back") => Live(p)
    /\ \A p \in Proc : Live(p) =>
          /\ installer[proc[p].target] = p
          /\ current # NoVersion => AtMost(proc[p].target, current)
    /\ \A p, q \in Proc : Live(p) /\ Live(q) => p = q \/ Apart(p, q)

LEMMA AtMostOrder ==
    ASSUME NEW u \in Version, NEW v \in Version, NEW w \in Version
    PROVE  /\ AtMost(u, u)
           /\ AtMost(u, v) /\ AtMost(v, w) => AtMost(u, w)
           /\ AtMost(u, v) /\ AtMost(v, u) => u = v
BY CompareIsAntisymmetric, CompareIsTransitive DEF AtMost

\* A live update is of an installed version to a later one.
LEMMA LiveVersions ==
    ASSUME InstallInv, NEW p \in Proc, proc[p].at \in Updating
    PROVE  /\ proc[p].version \in Version /\ proc[p].target \in Version
           /\ proc[p].version \in Releases /\ proc[p].target \in Releases
           /\ AtMost(proc[p].version, proc[p].target)
           /\ proc[p].version # proc[p].target
           /\ NoVersion \notin Releases
<1>1. proc[p].version \in Releases /\ proc[p].target \in Releases
  BY DEF InstallInv, SoundInv, Sound
<1>2. proc[p].version \in Version /\ proc[p].target \in Version /\ NoVersion \notin Releases
  BY <1>1, ReleaseAssumption
<1>3. Compare(proc[p].version, proc[p].target) < 0
  BY <1>1, <1>2 DEF InstallInv, ProcInv, Upward
<1>4. AtMost(proc[p].version, proc[p].target) /\ proc[p].version # proc[p].target
  BY <1>2, <1>3, CompareIsAntisymmetric DEF AtMost
<1> QED BY <1>1, <1>2, <1>4

LEMMA LiveUpdating ==
    ASSUME NEW p \in Proc, Live(p) \/ At(p, "pointing") \/ At(p, "taking_back")
    PROVE  proc[p].at \in Updating
BY DEF Live, Done, At, Updating

\* What a step that is not Point does to a process: no update comes to life, and
\* only RollbackPoint leads from taking back to discarding.
Fades(q) ==
    /\ Live(q)' => Live(q) /\ proc'[q].target = proc[q].target
                           /\ proc'[q].version = proc[q].version
    /\ At(q, "taking_back")' => Live(q)'
    /\ At(q, "taking_back") /\ At(q, "discarding")' => RollbackPoint(q)

LEMMA StillFades ==
    ASSUME Stacked, NEW q \in Proc, Still(q)
    PROVE  Fades(q)
<1>1. CASE proc'[q].at = proc[q].at
  BY <1>1 DEF Still, Fades, Live, Done, At, Stacked
<1>2. CASE proc[q].at = "waiting" /\ proc'[q].at \in {"relaunched", "launch_failed"}
  BY <1>2 DEF Still, Fades, Live, Done, At
<1> QED BY <1>1, <1>2 DEF Still

\* A place where no update is live.
LEMMA LowFades ==
    ASSUME NEW q \in Proc,
           \/ proc'[q].at \notin {"launching", "waiting", "launch_failed", "taking_back",
                                  "discarding", "undoing", "releasing"}
           \/ proc'[q].at \in {"undoing", "releasing"} /\ ~proc'[q].ok
           \/ proc'[q].at \in {"launching", "undoing", "releasing"} /\ proc'[q].result.shared
    PROVE  Fades(q)
BY DEF Fades, Live, Done, At

LEMMA BecomesFades ==
    ASSUME Stacked, NEW p \in Proc, NEW w, NEW t, NEW b, NEW r, Becomes(p, w, t, b, r),
           Fades(p)
    PROVE  \A q \in Proc : Fades(q)
BY BecomesStill, StillFades

LEMMA EndFades ==
    ASSUME Stacked, ProcTypeOK, NEW p \in Proc, NEW code, EndWith(p, code)
    PROVE  \A q \in Proc : Fades(q)
<1>1. Fades(p)
  BY EndFields, LowFades DEF Off
<1> QED BY <1>1, EndFields, StillFades

\* A process that goes on within a live update, or to a place without one.
LEMMA MoveFades ==
    ASSUME Stacked, ProcTypeOK, NEW p \in Proc, NEW w \in Places, Move(p, w),
           \/ w \notin {"launching", "waiting", "launch_failed", "taking_back",
                        "discarding", "undoing", "releasing"}
           \/ w \in {"launch_failed", "launching"} /\ Done(p) /\ ~At(p, "discarding")
           \/ w = "taking_back" /\ Live(p)
           \/ w = "discarding" /\ RollbackPoint(p)
    PROVE  \A q \in Proc : Fades(q)
<1>1. Goes(p, w)
  BY MoveFields
<1>2. Fades(p)
  BY <1>1 DEF Goes, Becomes, Fades, Live, Done, At
<1> QED BY <1>1, <1>2, BecomesFades DEF Goes

LEMMA InstallFades ==
    ASSUME InstallInv, Stacked, NEW p \in Proc, InstallNext(p), ~Point(p)
    PROVE  \A q \in Proc : Fades(q)
<1> USE DEF At, Becomes
<1>0. /\ proc[p] \in ProcType /\ ProcTypeOK /\ Sound(p)
      /\ Without(p) \in Places \cap {"asking", "chatting"}
      /\ {"verifying", "downloading", "promoting", "launching"} \subseteq Places
  BY Typed DEF InstallInv, ProcInv, SoundInv, Without, Places
<1>1. CASE InstallBusy(p) \/ InstallFailed(p) \/ Fetch(p) \/ Stage(p)
  <2>1. PICK w \in {"verifying", "downloading", "promoting", Without(p)} : Move(p, w)
    BY <1>1 DEF InstallBusy, InstallFailed, Fetch, Stage
  <2> QED BY <1>0, <2>1, MoveFades
<1>2. CASE CompletedByAnother(p)
  <2>1. CASE Move(p, Without(p))
    BY <1>0, <2>1, MoveFades
  <2>2. CASE ~Move(p, Without(p))
    <3> DEFINE r == [target |-> proc[p].target, previous |-> proc[p].version, shared |-> TRUE]
    <3>1. proc' = [proc EXCEPT ![p].at = "launching", ![p].result = r]
      BY <1>2, <2>2 DEF CompletedByAnother
    <3>2. Becomes(p, "launching", proc[p].target, proc[p].ok, r) /\ r.shared = TRUE
      BY <1>0, <3>1 DEF ProcTypeOK, ProcType
    <3> HIDE DEF r
    <3>3. Fades(p)
      BY <3>2, LowFades
    <3> QED BY <3>2, <3>3, BecomesFades
  <2> QED BY <2>1, <2>2
<1>3. CASE FoundChanged(p)
  <2>1. CASE Fails(p)
    <3>1. Becomes(p, "releasing", proc[p].target, FALSE, proc[p].result)
      BY <1>0, <2>1 DEF Fails, ProcTypeOK, ProcType
    <3>2. Fades(p)
      BY <3>1, LowFades
    <3> QED BY <3>1, <3>2, BecomesFades
  <2>2. CASE ~Fails(p)
    <3> DEFINE r == [target |-> current, previous |-> proc[p].version, shared |-> TRUE]
    <3>1. proc' = [proc EXCEPT ![p].at = "releasing", ![p].ok = TRUE, ![p].result = r]
      BY <1>3, <2>2 DEF FoundChanged
    <3>2. Becomes(p, "releasing", proc[p].target, TRUE, r) /\ r.shared = TRUE
      BY <1>0, <3>1 DEF ProcTypeOK, ProcType
    <3> HIDE DEF r
    <3>3. Fades(p)
      BY <3>2, LowFades
    <3> QED BY <3>2, <3>3, BecomesFades
  <2> QED BY <2>1, <2>2
<1>4. CASE Reuse(p) \/ Promote(p)
  <2>1. Becomes(p, "pointing", proc[p].target, proc[p].ok, proc[p].result)
    BY <1>0, <1>4 DEF Reuse, Promote, ProcTypeOK, ProcType
  <2>2. Fades(p)
    BY <2>1, LowFades
  <2> QED BY <2>1, <2>2, BecomesFades
<1>5. CASE InstallStepFails(p)
  <2>1. Becomes(p, "undoing", proc[p].target, FALSE, proc[p].result)
    BY <1>0, <1>5 DEF InstallStepFails, Undoing, ProcTypeOK, ProcType
  <2>2. Fades(p)
    BY <2>1, LowFades
  <2> QED BY <2>1, <2>2, BecomesFades
<1>6. CASE Undo(p)
  <2>1. Becomes(p, "releasing", proc[p].target, proc[p].ok, proc[p].result)
    BY <1>0, <1>6 DEF Undo, ProcTypeOK, ProcType
  <2>2. proc[p].at = "undoing"
    BY <1>6 DEF Undo
  <2>3. Fades(p)
    BY <2>1, <2>2 DEF Fades, Live, Done
  <2> QED BY <2>1, <2>3, BecomesFades
<1>7. CASE InstallReturns(p)
  <2>1. CASE proc[p].ok
    <3>1. Move(p, "launching") /\ Done(p) /\ ~At(p, "discarding")
      BY <1>7, <2>1 DEF InstallReturns, Done
    <3> QED BY <1>0, <3>1, MoveFades
  <2>2. CASE ~proc[p].ok
    BY <1>0, <1>7, <2>2, MoveFades DEF InstallReturns
  <2> QED BY <2>1, <2>2
<1> QED BY <1>1, <1>2, <1>3, <1>4, <1>5, <1>6, <1>7 DEF InstallNext

LEMMA RollbackFades ==
    ASSUME InstallInv, Stacked, NEW p \in Proc, RollbackNext(p)
    PROVE  \A q \in Proc : Fades(q)
<1> USE DEF At, Becomes
<1>0. /\ proc[p] \in ProcType /\ ProcTypeOK
      /\ Without(p) \in Places \cap {"asking", "chatting"}
      /\ {"taking_back", "discarding"} \subseteq Places
  BY Typed DEF InstallInv, ProcInv, Without, Places
<1>1. CASE KeepShared(p) \/ (RollbackReturns(p) /\ proc[p].ok)
  BY <1>0, <1>1, MoveFades DEF KeepShared, RollbackReturns
<1>2. CASE RollbackRefused(p) \/ (RollbackReturns(p) /\ ~proc[p].ok)
  BY <1>0, <1>2, EndFades DEF RollbackRefused, RollbackReturns
<1>3. CASE BeginRollback(p)
  <2>1. Live(p)
    BY <1>3 DEF BeginRollback, Live, Done
  <2> QED BY <1>0, <1>3, <2>1, MoveFades DEF BeginRollback
<1>4. CASE RollbackPoint(p)
  <2>1. Move(p, "discarding")
    BY <1>4 DEF RollbackPoint
  <2> QED BY <1>0, <1>4, <2>1, MoveFades
<1>5. CASE RollbackFails(p) \/ RollbackDiscard(p)
  <2>1. PICK b \in BOOLEAN : Becomes(p, "taken_back", proc[p].target, b, proc[p].result)
    BY <1>0, <1>5 DEF RollbackFails, RollbackDiscard, ProcTypeOK, ProcType
  <2>2. Fades(p)
    BY <2>1, LowFades
  <2> QED BY <2>1, <2>2, BecomesFades
<1> QED BY <1>1, <1>2, <1>3, <1>4, <1>5 DEF RollbackNext

LEMMA OtherFades ==
    ASSUME InstallInv, Stacked, [Next]_vars,
           \A p \in Proc : ~InstallNext(p) /\ ~RollbackNext(p)
    PROVE  \A q \in Proc : Fades(q)
<1> USE DEF At, Becomes
<1>0. ProcTypeOK /\ \A p \in Proc : proc[p] \in ProcType
  BY Typed DEF InstallInv, ProcInv
<1>1. ASSUME NEW p \in Proc, Start(p) PROVE \A q \in Proc : Fades(q)
  <2>1. /\ proc'[p] = Started(current, NoProc)
        /\ \A q \in Proc \ {p} : proc'[q] = proc[q]
    BY <1>0, <1>1 DEF Start, ProcTypeOK
  <2>2. proc'[p].at = "sweeping"
    BY <2>1 DEF Started, Off
  <2>3. Fades(p)
    BY <2>2, LowFades
  <2> QED BY <2>1, <2>3, StillFades DEF Still
<1>2. ASSUME NEW p \in Proc, NEW q \in Proc, Launch(p, q) PROVE \A r \in Proc : Fades(r)
  <2>1. proc[p].at = "launching" /\ p # q
    BY <1>2 DEF Launch
  <2>2. /\ proc'[q] = Started(proc[p].result.target, p)
        /\ proc'[p] = [proc[p] EXCEPT !.at = "waiting"]
        /\ \A r \in Proc \ {p, q} : proc'[r] = proc[r]
    BY <1>0, <1>2, <2>1 DEF Launch, ProcTypeOK
  <2>3. proc'[q].at = "sweeping"
    BY <2>2 DEF Started, Off
  <2>4. /\ proc'[p].at = "waiting" /\ proc'[p].version = proc[p].version
        /\ proc'[p].target = proc[p].target /\ proc'[p].result = proc[p].result
    BY <1>0, <2>2 DEF ProcType
  <2>5. Fades(p)
    BY <2>1, <2>4 DEF Fades, Live, Done
  <2>6. Fades(q)
    BY <2>3, LowFades
  <2> QED BY <2>2, <2>5, <2>6, StillFades DEF Still
<1>3. ASSUME NEW p \in Proc,
             StartFails(p) \/ Decline(p) \/ GiveUpUpdate(p) \/ Relaunched(p) \/ LeaveChat(p)
             \/ Crash(p)
      PROVE  \A q \in Proc : Fades(q)
  BY <1>0, <1>3, EndFades
  DEF StartFails, Decline, GiveUpUpdate, Relaunched, LeaveChat, Crash, End
<1>4. ASSUME NEW p \in Proc, EnterChat(p) \/ Retry(p) \/ UninstallRefused(p)
             \/ RemoveVersions(p) \/ RemovalFails(p) \/ BeginUninstall(p)
      PROVE  \A q \in Proc : Fades(q)
  <2>1. PICK w \in {"chatting", "locking", "off", "forgetting", "forgotten", "uninstalling"} :
            Move(p, w)
    BY <1>4 DEF EnterChat, Retry, UninstallRefused, RemoveVersions, RemovalFails,
       BeginUninstall, Move
  <2>2. w \in Places
    BY DEF Places
  <2> QED BY <1>0, <2>1, <2>2, MoveFades
<1>5. ASSUME NEW p \in Proc, LaunchFails(p) PROVE \A q \in Proc : Fades(q)
  <2>1. "launch_failed" \in Places /\ Done(p) /\ ~At(p, "discarding")
    BY <1>5 DEF Places, LaunchFails, Done
  <2> QED BY <1>0, <1>5, <2>1, MoveFades DEF LaunchFails
<1>6. ASSUME NEW p \in Proc, Sweep(p) \/ EndCleanup(p) \/ AcceptUpdate(p)
             \/ UpgradeRequired(p) \/ RemovePointer(p) \/ UninstallReturns(p)
             \/ (\E e \in proc[p].garbage : RemoveEntry(p, e))
      PROVE  \A q \in Proc : Fades(q)
  <2>1. \A q \in Proc \ {p} : proc'[q] = proc[q]
    BY <1>0, <1>6 DEF Sweep, EndCleanup, AcceptUpdate, UpgradeRequired, RemovePointer,
       UninstallReturns, RemoveEntry, ProcTypeOK
  <2>2. proc'[p].at \in {"removing", "checking", "locking", "forgotten", "off"}
    <3>1. CASE Sweep(p) \/ EndCleanup(p) \/ UpgradeRequired(p) \/ RemovePointer(p)
      BY <1>0, <3>1 DEF Sweep, EndCleanup, UpgradeRequired, RemovePointer, ProcTypeOK, ProcType
    <3>2. CASE AcceptUpdate(p)
      BY <1>0, <3>2 DEF AcceptUpdate, ProcTypeOK, ProcType
    <3>3. CASE UninstallReturns(p)
      BY <1>0, <3>3 DEF UninstallReturns, ProcTypeOK, Off
    <3>4. ASSUME NEW e \in proc[p].garbage, RemoveEntry(p, e)
          PROVE  proc'[p].at = "removing"
      <4>1. proc[p].at = "removing"
        BY <3>4 DEF RemoveEntry
      <4>2. proc' = proc \/ proc' = [proc EXCEPT ![p].garbage = @ \ {e}]
        BY <3>4 DEF RemoveEntry
      <4> QED BY <1>0, <4>1, <4>2 DEF ProcTypeOK, ProcType
    <3> QED BY <1>6, <3>1, <3>2, <3>3, <3>4
  <2>3. Fades(p)
    BY <2>2, LowFades
  <2> QED BY <2>1, <2>3, StillFades DEF Still
<1>7. ASSUME (\E p \in Proc : LockStep(p)) \/ Publish \/ Time \/ UNCHANGED vars
      PROVE  \A q \in Proc : Fades(q)
  <2>1. proc' = proc
    BY <1>7 DEF LockStep, Publish, Time, vars
  <2> QED BY <2>1, StillFades DEF Still
<1>8. ASSUME NEW p \in Proc, ClientNext(p) PROVE \A q \in Proc : Fades(q)
  BY <1>1, <1>2, <1>3, <1>4, <1>5, <1>6, <1>7, <1>8 DEF ClientNext
<1>9. ASSUME NEW p \in Proc, UninstallNext(p) PROVE \A q \in Proc : Fades(q)
  BY <1>4, <1>6, <1>9 DEF UninstallNext
<1> QED BY <1>3, <1>7, <1>8, <1>9 DEF Next

\* Who changes the pointer and the note of who made it name a version.
LEMMA PointerSteps ==
    ASSUME [Next]_vars, \A p \in Proc : ~Point(p)
    PROVE  /\ installer' = installer
           /\ \/ current' \in {current, NoVersion}
              \/ \E p \in Proc : RollbackPoint(p)
<1>1. ASSUME NEW p \in Proc, ClientNext(p), ~RollbackPoint(p)
      PROVE  installer' = installer /\ current' = current
  <2>1. CASE InstallNext(p)
    BY <2>1 DEF InstallNext, InstallBusy, CompletedByAnother, InstallFailed, FoundChanged,
       Reuse, Fetch, Stage, InstallStepFails, Promote, Undo, InstallReturns, disk
  <2>2. CASE RollbackNext(p)
    BY <1>1, <2>2 DEF RollbackNext, KeepShared, BeginRollback, RollbackRefused,
       RollbackFails, RollbackDiscard, RollbackReturns, disk
  <2>3. CASE ~InstallNext(p) /\ ~RollbackNext(p)
    BY <1>1, <2>3 DEF ClientNext, Start, StartFails, Sweep, EndCleanup, RemoveEntry,
       EnterChat, Decline, AcceptUpdate, Retry, GiveUpUpdate, Launch, LaunchFails,
       Relaunched, LeaveChat, UpgradeRequired, LockStep, End, disk
  <2> QED BY <2>1, <2>2, <2>3
<1>2. ASSUME NEW p \in Proc, UninstallNext(p)
      PROVE  installer' = installer /\ current' \in {current, NoVersion}
  BY <1>2 DEF UninstallNext, BeginUninstall, UninstallRefused, RemoveVersions,
     RemovePointer, RemovalFails, UninstallReturns, disk
<1>3. ASSUME NEW p \in Proc, RollbackPoint(p) PROVE installer' = installer
  BY <1>3 DEF RollbackPoint
<1>4. ASSUME (\E p \in Proc : Crash(p)) \/ Publish \/ Time \/ UNCHANGED vars
      PROVE  installer' = installer /\ current' = current
  BY <1>4 DEF Crash, Publish, Time, vars, disk
<1> QED BY <1>1, <1>2, <1>3, <1>4 DEF Next

LEMMA PointStacks ==
    ASSUME InstallInv, Stacked, NEW p \in Proc, Point(p)
    PROVE  Stacked'
<1> USE DEF At
<1>0. /\ ProcTypeOK /\ proc[p] \in ProcType /\ DiskTypeOK
      /\ proc[p].at = "pointing" /\ current = proc[p].version
  BY Typed DEF InstallInv, ProcInv, Point, SoundInv, Sound, AtOwn
<1>1. /\ Becomes(p, "undoing", proc[p].target, TRUE, Ours(p))
      /\ Ours(p).shared = FALSE
  BY <1>0 DEF Point, Ours, ProcTypeOK, ProcType, Becomes
<1>2. /\ proc[p].version \in Version /\ proc[p].target \in Version
      /\ proc[p].version \in Releases /\ proc[p].target \in Releases
      /\ AtMost(proc[p].version, proc[p].target) /\ proc[p].version # proc[p].target
      /\ NoVersion \notin Releases
  BY <1>0, LiveVersions, LiveUpdating
<1>3. /\ current' = proc[p].target
      /\ installer' = [installer EXCEPT ![proc[p].target] = p]
  BY DEF Point
<1>4. /\ \A q \in Proc \ {p} : /\ Live(q)' <=> Live(q)
                               /\ At(q, "taking_back")' <=> At(q, "taking_back")
                               /\ proc'[q] = proc[q]
      /\ Live(p)' /\ ~At(p, "taking_back")'
      /\ proc'[p].target = proc[p].target /\ proc'[p].version = proc[p].version
  BY <1>1 DEF Becomes, Live, Done
<1>5. ASSUME NEW q \in Proc \ {p}, Live(q)
      PROVE  /\ AtMost(proc[q].target, proc[p].version)
             /\ AtMost(proc[q].target, proc[p].target)
             /\ proc[q].target # proc[p].target
             /\ proc[q].target \in Releases
  <2>1. AtMost(proc[q].target, proc[p].version)
    BY <1>0, <1>2, <1>5 DEF Stacked
  <2>2. proc[q].target \in Version /\ proc[q].target \in Releases
    BY <1>5, LiveVersions, LiveUpdating
  <2> QED BY <1>2, <2>1, <2>2, AtMostOrder
<1>6. ASSUME NEW q \in Proc, Live(q)'
      PROVE  /\ installer'[proc'[q].target] = q
             /\ AtMost(proc'[q].target, current')
  <2>1. CASE q = p
    BY <1>0, <1>2, <1>3, <1>4, <2>1, AtMostOrder DEF DiskTypeOK
  <2>2. CASE q # p
    <3>1. Live(q) /\ proc'[q] = proc[q]
      BY <1>4, <1>6, <2>2
    <3>2. installer[proc[q].target] = q
      BY <3>1 DEF Stacked
    <3> QED BY <1>0, <1>3, <1>5, <2>2, <3>1, <3>2 DEF DiskTypeOK
  <2> QED BY <2>1, <2>2
<1>7. ASSUME NEW q \in Proc, NEW r \in Proc, Live(q)', Live(r)'
      PROVE  q = r \/ Apart(q, r)'
  <2>1. CASE q # p /\ r # p
    BY <1>4, <1>7, <2>1 DEF Stacked, Apart
  <2>2. CASE q = p /\ r # p
    BY <1>4, <1>5, <1>7, <2>2 DEF Apart
  <2>3. CASE q # p /\ r = p
    BY <1>4, <1>5, <1>7, <2>3 DEF Apart
  <2> QED BY <2>1, <2>2, <2>3
<1>8. \A q \in Proc : At(q, "taking_back")' => Live(q)'
  BY <1>4 DEF Stacked
<1> QED BY <1>6, <1>7, <1>8 DEF Stacked

\* The update taken back is the topmost one, and those below it end no later
\* than where it began.
LEMMA FadesStack ==
    ASSUME InstallInv, Stacked, [Next]_vars, \A p \in Proc : ~Point(p),
           \A q \in Proc : Fades(q)
    PROVE  Stacked'
<1>1. ASSUME NEW q \in Proc, Live(q)'
      PROVE  /\ Live(q) /\ proc'[q].target = proc[q].target
             /\ proc'[q].version = proc[q].version
             /\ installer[proc[q].target] = q
  BY <1>1 DEF Fades, Stacked
<1>2. ASSUME NEW q \in Proc, Live(q)', current' # NoVersion
      PROVE  AtMost(proc[q].target, current')
  <2>1. CASE current' = current
    BY <1>1, <1>2, <2>1 DEF Stacked
  <2>2. ASSUME NEW p \in Proc, RollbackPoint(p) PROVE AtMost(proc[q].target, current')
    <3>1. /\ proc[p].at = "taking_back" /\ Live(p)
          /\ current = proc[p].result.target /\ current' = proc[p].result.previous
          /\ proc'[p].at = "discarding"
      BY <2>2, MoveFields DEF RollbackPoint, Stacked, At, Move, InstallInv, ProcInv,
         ProcTypeOK, ProcType
    <3>2. current = proc[p].target /\ current' = proc[p].version
      BY <3>1 DEF InstallInv, SoundInv, Sound, Done
    <3>3. p # q
      BY <1>2, <3>1 DEF Live, At
    <3>4. /\ proc[p].version \in Version /\ proc[p].target \in Version
          /\ proc[q].version \in Version /\ proc[q].target \in Version
          /\ AtMost(proc[q].version, proc[q].target)
          /\ proc[q].version # proc[q].target
          /\ current # NoVersion
      BY <1>1, <1>2, <3>1, <3>2, LiveVersions, LiveUpdating
    <3>5. AtMost(proc[q].target, proc[p].target)
      BY <1>1, <1>2, <3>2, <3>4 DEF Stacked
    <3>6. Apart(p, q)
      BY <1>1, <1>2, <3>1, <3>3 DEF Stacked
    <3>7. CASE AtMost(proc[p].target, proc[q].version)
      <4>1. AtMost(proc[q].target, proc[q].version)
        BY <3>4, <3>5, <3>7, AtMostOrder
      <4> QED BY <3>4, <4>1, AtMostOrder
    <3>8. CASE AtMost(proc[q].target, proc[p].version)
      BY <3>2, <3>8
    <3> QED BY <3>6, <3>7, <3>8 DEF Apart
  <2> QED BY <1>2, <2>1, <2>2, PointerSteps
<1>3. installer' = installer
  BY PointerSteps
<1>4. ASSUME NEW q \in Proc, NEW r \in Proc, Live(q)', Live(r)'
      PROVE  q = r \/ Apart(q, r)'
  <2>1. Live(q) /\ Live(r)
    BY <1>1, <1>4
  <2>2. q = r \/ Apart(q, r)
    BY <2>1 DEF Stacked
  <2> QED BY <1>1, <1>4, <2>2 DEF Apart
<1>5. \A q \in Proc : At(q, "taking_back")' => Live(q)'
  BY DEF Fades
<1> QED BY <1>1, <1>2, <1>3, <1>4, <1>5 DEF Stacked

LEMMA AllFade ==
    ASSUME InstallInv, Stacked, [Next]_vars, \A p \in Proc : ~Point(p)
    PROVE  \A q \in Proc : Fades(q)
BY InstallFades, RollbackFades, OtherFades

LEMMA StackedStep ==
    ASSUME InstallInv, Stacked, [Next]_vars
    PROVE  Stacked'
BY PointStacks, FadesStack, AllFade

LEMMA StackedInit == Init => Stacked
<1> SUFFICES ASSUME Init PROVE Stacked
  OBVIOUS
<1>1. \A p \in Proc : proc[p].at = "off"
  BY DEF Init, Off
<1> QED BY <1>1 DEF Stacked, Live, Done, At

LEMMA StackedInvariant ==
    ASSUME NoFaults PROVE Spec => [](InstallInv /\ Stacked)
<1>1. InstallInv /\ Stacked /\ [Next]_vars => (InstallInv /\ Stacked)'
  BY InstallStep, StackedStep
<1> QED BY <1>1, InstallInit, StackedInit, PTL DEF Spec

\* A rollback takes the pointer away from a version only if the process that
\* does so had it put there, however many clients update side by side and one
\* upon the other, and whatever the server publishes.
THEOREM RollbackIsOwn ==
    ASSUME NoFaults PROVE Spec => OwnRollback
<1> DEFINE Own == \A p \in Proc :
              At(p, "taking_back") /\ current' # current /\ At(p, "discarding")'
                => installer[current] = p
<1>1. ASSUME InstallInv, Stacked, [Next]_vars PROVE Own
  <2>1. ASSUME NEW p \in Proc, At(p, "taking_back"), At(p, "discarding")'
        PROVE  installer[current] = p
    <3>1. \A q \in Proc : ~Point(q)
      <4>1. ASSUME NEW q \in Proc, Point(q) PROVE FALSE
        <5>1. proc[p].at = "taking_back" /\ proc'[p].at = "discarding"
          BY <2>1 DEF At
        <5>2. proc' = [proc EXCEPT ![q].at = "undoing", ![q].ok = TRUE, ![q].result = Ours(q)]
              /\ proc[q].at = "pointing"
          BY <4>1 DEF Point, At
        <5>3. p # q
          BY <5>1, <5>2
        <5>4. proc \in [Proc -> ProcType]
          BY <1>1 DEF InstallInv, ProcInv, ProcTypeOK
        <5>5. proc'[p] = proc[p]
          BY <5>2, <5>3, <5>4
        <5> QED BY <5>1, <5>5
      <4> QED BY <4>1
    <3>2. Fades(p)
      BY <1>1, <3>1, AllFade
    <3>3. RollbackPoint(p)
      BY <2>1, <3>2 DEF Fades
    <3>4. current = proc[p].result.target /\ Live(p)
      BY <1>1, <2>1, <3>3 DEF RollbackPoint, Stacked
    <3>5. current = proc[p].target
      BY <1>1, <2>1, <3>4 DEF InstallInv, SoundInv, Sound, Live
    <3> QED BY <1>1, <3>4, <3>5 DEF Stacked
  <2> QED BY <2>1
<1>2. InstallInv /\ Stacked /\ [Next]_vars => Own
  BY <1>1
<1>3. Spec => [][Own]_vars
  BY <1>2, StackedInvariant, PTL DEF Spec
<1> QED BY <1>3 DEF OwnRollback

-----------------------------------------------------------------------------
(* The launcher finds a client *)

\* One release follows the first, and RemoveAll leaves nothing halfway. With two
\* more, a child's Cleanup removes what its parent would go back to; and a
\* staging directory that a Cleanup has emptied can be promoted.
OneSuccessor == \E w \in Releases : Releases = {First, w}
WholeRemoval == OneStepRemoval = TRUE

\* Nobody runs anything older than the first version, nor does the pointer name
\* it: then every update is from the first version to its successor.
NoneOlder ==
    /\ current # NoVersion => AtMost(First, current)
    /\ \A p \in Proc : proc[p].version # NoVersion => AtMost(First, proc[p].version)

\* What is about to be pointed at is whole.
Pointable == \A p \in Proc : At(p, "pointing") => dirs[proc[p].target] = "whole"

\* Special up takes no version, as there are none but the own and another one.
Spared ==
    \A p \in Proc : /\ At(p, "sweeping") => proc[p].version # NoVersion
                    /\ At(p, "removing") => \A e \in proc[p].garbage : e[1] # "version"

Usable ==
    /\ removed = "no" => dirs[First] = "whole"
    /\ NoneOlder /\ Pointable /\ Spared
    /\ \A p \in Proc : staged[p] # "empty"
    /\ PointerRunnable

LEMMA FromFirst ==
    ASSUME OneSuccessor, InstallInv, Usable, NEW p \in Proc, proc[p].at \in Updating
    PROVE  /\ proc[p].version = First /\ proc[p].target # First
           /\ proc[p].target \in Releases
           /\ AtMost(First, proc[p].target)
<1>1. /\ proc[p].version \in Version /\ proc[p].target \in Version
      /\ proc[p].version \in Releases /\ proc[p].target \in Releases
      /\ AtMost(proc[p].version, proc[p].target)
      /\ proc[p].version # proc[p].target
      /\ NoVersion \notin Releases
  BY LiveVersions
<1>2. First \in Version /\ AtMost(First, proc[p].version)
  BY <1>1, ReleaseAssumption DEF Usable, NoneOlder
<1>3. proc[p].target # First
  BY <1>1, <1>2, AtMostOrder
<1>4. proc[p].version = First
  BY <1>1, <1>3 DEF OneSuccessor
<1> QED BY <1>1, <1>2, <1>3, <1>4, AtMostOrder

\* Where a process is about to do what PointerRunnable depends upon.
Special == {"sweeping", "removing", "pointing"}

\* What most steps leave of a process.
Plain(q) ==
    /\ proc'[q].version \in {proc[q].version, NoVersion}
    /\ At(q, "pointing")' => At(q, "pointing") /\ proc'[q].target = proc[q].target
    /\ At(q, "sweeping")' => At(q, "sweeping") /\ proc'[q].version = proc[q].version
    /\ At(q, "removing")' => At(q, "removing") /\ proc'[q].garbage = proc[q].garbage

LEMMA PlainKinds ==
    ASSUME NEW q \in Proc
    PROVE  /\ Still(q) => Plain(q)
           /\ proc'[q] = Off => Plain(q)
           /\ proc'[q].version = proc[q].version /\ proc'[q].at \notin Special
                => Plain(q)
<1>1. Off.version = NoVersion /\ Off.at = "off"
  BY DEF Off
<1> QED BY <1>1 DEF Still, Plain, At, Special

LEMMA BecomesPlain ==
    ASSUME NEW p \in Proc, NEW w, NEW t, NEW b, NEW r, Becomes(p, w, t, b, r),
           w \notin Special
    PROVE  \A q \in Proc : Plain(q)
<1>1. \A q \in Proc \ {p} : Still(q)
  BY BecomesStill
<1>2. proc'[p].version = proc[p].version /\ proc'[p].at = w
  BY DEF Becomes
<1> QED BY <1>1, <1>2, PlainKinds

LEMMA MovePlain ==
    ASSUME ProcTypeOK, NEW p \in Proc, NEW w \in Places \ Special, Move(p, w)
    PROVE  \A q \in Proc : Plain(q)
<1>1. Goes(p, w)
  BY MoveFields
<1> QED BY <1>1, BecomesPlain DEF Goes

LEMMA EndPlain ==
    ASSUME ProcTypeOK, NEW p \in Proc, NEW code, EndWith(p, code)
    PROVE  \A q \in Proc : Plain(q)
BY EndFields, PlainKinds

LEMMA InstallPlain ==
    ASSUME InstallInv, NEW p \in Proc, InstallNext(p), ~Reuse(p), ~Promote(p)
    PROVE  \A q \in Proc : Plain(q)
<1> USE DEF At, Becomes, Special
<1>0. /\ proc[p] \in ProcType /\ ProcTypeOK
      /\ {"verifying", "downloading", "promoting", "launching", Without(p)}
             \subseteq Places \ Special
  BY Typed DEF InstallInv, ProcInv, Without, Places, Special
<1>1. CASE InstallBusy(p) \/ InstallFailed(p) \/ Fetch(p) \/ Stage(p) \/ InstallReturns(p)
  <2>1. PICK w \in {"verifying", "downloading", "promoting", "launching", Without(p)} :
             Move(p, w)
    BY <1>1 DEF InstallBusy, InstallFailed, Fetch, Stage, InstallReturns
  <2> QED BY <1>0, <2>1, MovePlain
<1>2. CASE CompletedByAnother(p)
  <2>1. CASE Move(p, Without(p))
    BY <1>0, <2>1, MovePlain
  <2>2. CASE ~Move(p, Without(p))
    <3> DEFINE r == [target |-> proc[p].target, previous |-> proc[p].version, shared |-> TRUE]
    <3>1. proc' = [proc EXCEPT ![p].at = "launching", ![p].result = r]
      BY <1>2, <2>2 DEF CompletedByAnother
    <3>2. Becomes(p, "launching", proc[p].target, proc[p].ok, r)
      BY <1>0, <3>1 DEF ProcTypeOK, ProcType
    <3> HIDE DEF r
    <3> QED BY <3>2, BecomesPlain
  <2> QED BY <2>1, <2>2
<1>3. CASE FoundChanged(p)
  <2>1. CASE Fails(p)
    <3>1. Becomes(p, "releasing", proc[p].target, FALSE, proc[p].result)
      BY <1>0, <2>1 DEF Fails, ProcTypeOK, ProcType
    <3> QED BY <3>1, BecomesPlain
  <2>2. CASE ~Fails(p)
    <3> DEFINE r == [target |-> current, previous |-> proc[p].version, shared |-> TRUE]
    <3>1. proc' = [proc EXCEPT ![p].at = "releasing", ![p].ok = TRUE, ![p].result = r]
      BY <1>3, <2>2 DEF FoundChanged
    <3>2. Becomes(p, "releasing", proc[p].target, TRUE, r)
      BY <1>0, <3>1 DEF ProcTypeOK, ProcType
    <3> HIDE DEF r
    <3> QED BY <3>2, BecomesPlain
  <2> QED BY <2>1, <2>2
<1>4. CASE InstallStepFails(p)
  <2>1. Becomes(p, "undoing", proc[p].target, FALSE, proc[p].result)
    BY <1>0, <1>4 DEF InstallStepFails, Undoing, ProcTypeOK, ProcType
  <2> QED BY <2>1, BecomesPlain
<1>5. CASE Point(p)
  <2>1. Becomes(p, "undoing", proc[p].target, TRUE, Ours(p))
    BY <1>0, <1>5 DEF Point, ProcTypeOK, ProcType
  <2> QED BY <2>1, BecomesPlain
<1>6. CASE Undo(p)
  <2>1. Becomes(p, "releasing", proc[p].target, proc[p].ok, proc[p].result)
    BY <1>0, <1>6 DEF Undo, ProcTypeOK, ProcType
  <2> QED BY <2>1, BecomesPlain
<1> QED BY <1>1, <1>2, <1>3, <1>4, <1>5, <1>6 DEF InstallNext

LEMMA RollbackPlain ==
    ASSUME InstallInv, NEW p \in Proc, RollbackNext(p)
    PROVE  \A q \in Proc : Plain(q)
<1> USE DEF At, Becomes, Special
<1>0. /\ proc[p] \in ProcType /\ ProcTypeOK
      /\ {"taking_back", "discarding", Without(p)} \subseteq Places \ Special
  BY Typed DEF InstallInv, ProcInv, Without, Places, Special
<1>1. CASE RollbackRefused(p) \/ (RollbackReturns(p) /\ ~proc[p].ok)
  BY <1>0, <1>1, EndPlain DEF RollbackRefused, RollbackReturns
<1>2. CASE RollbackFails(p) \/ RollbackDiscard(p)
  <2>1. PICK b \in BOOLEAN : Becomes(p, "taken_back", proc[p].target, b, proc[p].result)
    BY <1>0, <1>2 DEF RollbackFails, RollbackDiscard, ProcTypeOK, ProcType
  <2> QED BY <2>1, BecomesPlain
<1>3. CASE \/ KeepShared(p) \/ BeginRollback(p) \/ RollbackPoint(p)
           \/ (RollbackReturns(p) /\ proc[p].ok)
  <2>1. PICK w \in {"taking_back", "discarding", Without(p)} : Move(p, w)
    BY <1>3 DEF KeepShared, BeginRollback, RollbackPoint, RollbackReturns
  <2> QED BY <1>0, <2>1, MovePlain
<1> QED BY <1>1, <1>2, <1>3 DEF RollbackNext

LEMMA OtherPlain ==
    ASSUME InstallInv, NEW p \in Proc,
           \/ StartFails(p) \/ Decline(p) \/ GiveUpUpdate(p) \/ Relaunched(p) \/ LeaveChat(p)
           \/ Crash(p) \/ EnterChat(p) \/ Retry(p) \/ LaunchFails(p) \/ EndCleanup(p)
           \/ AcceptUpdate(p) \/ UpgradeRequired(p) \/ UninstallNext(p)
    PROVE  \A q \in Proc : Plain(q)
<1> USE DEF At, Special
<1>0. ProcTypeOK /\ proc[p] \in ProcType
  BY Typed DEF InstallInv, ProcInv
<1>1. CASE StartFails(p) \/ Decline(p) \/ GiveUpUpdate(p) \/ Relaunched(p) \/ LeaveChat(p)
           \/ Crash(p)
  BY <1>0, <1>1, EndPlain
  DEF StartFails, Decline, GiveUpUpdate, Relaunched, LeaveChat, Crash, End
<1>2. CASE EnterChat(p) \/ Retry(p) \/ UninstallRefused(p) \/ LaunchFails(p)
           \/ RemoveVersions(p) \/ RemovalFails(p) \/ BeginUninstall(p)
  <2>1. PICK w \in {"chatting", "locking", "off", "forgetting", "forgotten", "uninstalling",
                    "launch_failed"} : Move(p, w)
    BY <1>2 DEF EnterChat, Retry, UninstallRefused, RemoveVersions, RemovalFails,
       BeginUninstall, Move, LaunchFails
  <2>2. w \in Places \ Special
    BY DEF Places, Special
  <2> QED BY <1>0, <2>1, <2>2, MovePlain
<1>3. CASE EndCleanup(p) \/ AcceptUpdate(p) \/ UpgradeRequired(p) \/ RemovePointer(p)
  <2>1. \A q \in Proc \ {p} : proc'[q] = proc[q]
    BY <1>0, <1>3 DEF EndCleanup, AcceptUpdate, UpgradeRequired, RemovePointer, ProcTypeOK
  <2>2. /\ proc'[p].at \notin Special
        /\ proc'[p].version = proc[p].version
    <3>1. CASE EndCleanup(p) \/ UpgradeRequired(p) \/ RemovePointer(p)
      BY <1>0, <3>1 DEF EndCleanup, UpgradeRequired, RemovePointer, ProcTypeOK, ProcType
    <3>2. CASE AcceptUpdate(p)
      BY <1>0, <3>2 DEF AcceptUpdate, ProcTypeOK, ProcType
    <3> QED BY <1>3, <3>1, <3>2
  <2> QED BY <2>1, <2>2, PlainKinds DEF Still
<1>4. CASE UninstallReturns(p)
  <2>1. proc'[p] = Off /\ \A q \in Proc \ {p} : proc'[q] = proc[q]
    BY <1>0, <1>4 DEF UninstallReturns, ProcTypeOK
  <2> QED BY <2>1, PlainKinds DEF Still
<1> QED BY <1>1, <1>2, <1>3, <1>4 DEF UninstallNext

LEMMA PlainParts ==
    ASSUME Usable, \A q \in Proc : Plain(q)
    PROVE  /\ Spared'
           /\ \A q \in Proc : proc'[q].version # NoVersion => AtMost(First, proc'[q].version)
           /\ \A q \in Proc : At(q, "pointing")' =>
                 At(q, "pointing") /\ proc'[q].target = proc[q].target
                                   /\ dirs[proc[q].target] = "whole"
BY DEF Usable, Spared, NoneOlder, Pointable, Plain, At

LEMMA QuietUsable ==
    ASSUME Usable, UNCHANGED disk, removed' = "no" => removed = "no",
           \A q \in Proc : Plain(q)
    PROVE  Usable'
<1>1. Spared' /\ NoneOlder' /\ Pointable'
  BY PlainParts DEF Usable, NoneOlder, Pointable, disk
<1> QED BY <1>1 DEF Usable, PointerRunnable, Runnable, disk

\* The steps on the way to the successor and back, by the holder of the lock.
LEMMA HolderUsable ==
    ASSUME OneSuccessor, InstallInv, Usable, NEW p \in Proc, Holds(p),
           proc[p].at \in Updating, \A q \in Proc : Plain(q), proc'[p].at # "pointing",
           removed' = removed, \A q \in Proc : staged'[q] # "empty",
           dirs' \in {dirs, [dirs EXCEPT ![proc[p].target] = "absent"]},
           \/ current' = First
           \/ dirs' = dirs /\ current' = current
           \/ dirs' = dirs /\ current' = proc[p].target /\ dirs[proc[p].target] = "whole"
    PROVE  Usable'
<1>1. /\ proc[p].version = First /\ proc[p].target # First /\ proc[p].target \in Releases
      /\ AtMost(First, proc[p].target) /\ First \in Version /\ First \in Releases
  BY FromFirst, ReleaseAssumption
<1>2. dirs'[First] = dirs[First] /\ AtMost(First, First)
  <2>1. dirs'[First] = dirs[First]
    BY <1>1 DEF InstallInv, DiskTypeOK
  <2> QED BY <1>1, <2>1, AtMostOrder
<1>3. \A q \in Proc : ~At(q, "pointing")'
  <2>1. ASSUME NEW q \in Proc \ {p} PROVE ~At(q, "pointing")
    BY OthersRest DEF InstallInv, Working, At
  <2> QED BY <2>1 DEF Plain, At
<1>4. Spared' /\ NoneOlder' /\ Pointable'
  BY <1>1, <1>2, <1>3, PlainParts DEF Usable, NoneOlder, Pointable
<1>5. PointerRunnable'
  BY <1>1, <1>2 DEF Usable, PointerRunnable, Runnable
<1> QED BY <1>2, <1>4, <1>5 DEF Usable

LEMMA InstallUsable ==
    ASSUME OneSuccessor, InstallInv, Usable, NEW p \in Proc, InstallNext(p)
    PROVE  Usable'
<1> USE DEF At, Updating, Becomes
<1>0. /\ proc[p] \in ProcType /\ ProcTypeOK /\ Sound(p) /\ DiskTypeOK
      /\ removed' = removed
  <2>1. removed' = removed
    BY DEF InstallNext, InstallBusy, CompletedByAnother, InstallFailed, FoundChanged,
       Reuse, Fetch, Stage, InstallStepFails, Promote, Point, Undo, InstallReturns
  <2> QED BY <2>1, Typed DEF InstallInv, ProcInv, SoundInv
<1>1. CASE UNCHANGED disk /\ ~Reuse(p) /\ ~Promote(p)
  BY <1>0, <1>1, InstallPlain, QuietUsable
<1>2. CASE Reuse(p)
  <2>1. Becomes(p, "pointing", proc[p].target, proc[p].ok, proc[p].result)
    BY <1>0, <1>2 DEF Reuse, ProcTypeOK, ProcType
  <2>2. UNCHANGED disk /\ dirs[proc[p].target] = "whole"
    BY <1>2 DEF Reuse, Runnable
  <2>3. Spared' /\ NoneOlder' /\ Pointable'
    BY <2>1, <2>2 DEF Usable, Spared, NoneOlder, Pointable, disk
  <2> QED BY <1>0, <2>2, <2>3 DEF Usable, PointerRunnable, Runnable, disk
<1>3. CASE Fetch(p) \/ Stage(p) \/ Point(p) \/ Undo(p)
  <2>1. \A q \in Proc : Plain(q)
    <3>1. proc'[p].at # "pointing"
      BY <1>0, <1>3 DEF Fetch, Stage, Point, Undo, Move, ProcTypeOK, ProcType
    <3>2. ~Reuse(p) /\ ~Promote(p)
      BY <1>0, <3>1 DEF Reuse, Promote, ProcTypeOK, ProcType
    <3> QED BY <3>2, InstallPlain
  <2>2. /\ Holds(p) /\ proc[p].at \in Updating
        /\ proc[p].at \in {"locking", "downloading", "pointing", "undoing"}
    BY <1>0, <1>3 DEF Fetch, Stage, Point, Undo, Installing, Sound, Working
  <2>3. proc'[p].at # "pointing"
    BY <1>0, <1>3 DEF Fetch, Stage, Point, Undo, Move, ProcTypeOK, ProcType
  <2>4. proc[p].version = First
    BY <2>2, FromFirst
  <2>5. \A q \in Proc : staged'[q] # "empty"
    BY <1>0, <1>3 DEF Fetch, Stage, Point, Undo, Usable, DiskTypeOK
  <2>6. dirs' \in {dirs, [dirs EXCEPT ![proc[p].target] = "absent"]}
    BY <1>3 DEF Fetch, Stage, Point, Undo
  <2>7. \/ current' = First
        \/ dirs' = dirs /\ current' = current
        \/ dirs' = dirs /\ current' = proc[p].target /\ dirs[proc[p].target] = "whole"
    <3>1. CASE Fetch(p) \/ Stage(p)
      BY <2>4, <3>1 DEF Fetch, Stage
    <3>2. CASE Point(p)
      BY <3>2 DEF Point, Usable, Pointable
    <3>3. CASE Undo(p) /\ proc[p].ok
      BY <3>3 DEF Undo
    <3>4. CASE Undo(p) /\ ~proc[p].ok
      BY <1>0, <2>4, <3>4 DEF Undo, Sound, AtOwn
    <3> QED BY <1>3, <3>1, <3>2, <3>3, <3>4
  <2> QED BY <1>0, <2>1, <2>2, <2>3, <2>5, <2>6, <2>7, HolderUsable
<1>4. CASE Promote(p)
  <2>1. Becomes(p, "pointing", proc[p].target, proc[p].ok, proc[p].result)
    BY <1>0, <1>4 DEF Promote, ProcTypeOK, ProcType
  <2>2. /\ Holds(p) /\ proc[p].at = "promoting" /\ current = proc[p].version
        /\ current' = current
    BY <1>0, <1>4 DEF Promote, Sound, AtOwn, Working
  <2>3. /\ current = First /\ proc[p].target # First /\ proc[p].target \in Releases
    BY <2>2, FromFirst
  <2>4. dirs' = [dirs EXCEPT ![proc[p].target] = "whole"]
    BY <1>0, <1>4 DEF Promote, Usable, DiskTypeOK, Directory
  <2>5. First \in Releases
    BY ReleaseAssumption
  <2>6. dirs'[proc[p].target] = "whole" /\ dirs'[First] = dirs[First]
    BY <1>0, <2>3, <2>4, <2>5 DEF DiskTypeOK
  <2>7. \A q \in Proc \ {p} : ~At(q, "pointing")
    BY <2>2, OthersRest DEF InstallInv, Working
  <2>8. Spared' /\ NoneOlder' /\ Pointable'
    BY <2>1, <2>2, <2>6, <2>7 DEF Usable, Spared, NoneOlder, Pointable
  <2>9. \A q \in Proc : staged'[q] # "empty"
    BY <1>0, <1>4 DEF Promote, Usable, DiskTypeOK
  <2> QED BY <1>0, <2>2, <2>3, <2>5, <2>6, <2>8, <2>9 DEF Usable, PointerRunnable, Runnable
<1>5. \/ UNCHANGED disk \/ Fetch(p) \/ Stage(p) \/ Point(p) \/ Undo(p) \/ Promote(p)
  BY DEF InstallNext, InstallBusy, CompletedByAnother, InstallFailed, FoundChanged,
     Reuse, InstallStepFails, InstallReturns
<1> QED BY <1>1, <1>2, <1>3, <1>4, <1>5

LEMMA RollbackUsable ==
    ASSUME OneSuccessor, InstallInv, Usable, NEW p \in Proc, RollbackNext(p)
    PROVE  Usable'
<1> USE DEF At, Updating
<1>0. /\ proc[p] \in ProcType /\ ProcTypeOK /\ Sound(p) /\ DiskTypeOK
      /\ removed' = removed /\ \A q \in Proc : Plain(q)
  <2>1. removed' = removed
    BY DEF RollbackNext, KeepShared, BeginRollback, RollbackRefused, RollbackPoint,
       RollbackFails, RollbackDiscard, RollbackReturns
  <2> QED BY <2>1, Typed, RollbackPlain DEF InstallInv, ProcInv, SoundInv
<1>1. CASE UNCHANGED disk
  BY <1>0, <1>1, QuietUsable
<1>2. CASE RollbackPoint(p) \/ RollbackDiscard(p)
  <2>1. /\ Holds(p) /\ proc[p].at \in {"taking_back", "discarding"}
        /\ proc[p].result.target = proc[p].target /\ proc[p].result.previous = proc[p].version
        /\ proc[p].at = "discarding" => current = proc[p].version
    BY <1>0, <1>2 DEF RollbackPoint, RollbackDiscard, Sound, Done, AtOwn, Working
  <2>2. proc[p].version = First
    BY <2>1, FromFirst
  <2>3. proc'[p].at # "pointing"
    BY <1>0, <1>2 DEF RollbackPoint, RollbackDiscard, Move, ProcTypeOK, ProcType
  <2>4. \A q \in Proc : staged'[q] # "empty"
    BY <1>2 DEF RollbackPoint, RollbackDiscard, Usable
  <2>5. dirs' \in {dirs, [dirs EXCEPT ![proc[p].target] = "absent"]}
    BY <1>2, <2>1 DEF RollbackPoint, RollbackDiscard
  <2>6. current' = First
    BY <1>2, <2>1, <2>2 DEF RollbackPoint, RollbackDiscard
  <2> QED BY <1>0, <2>1, <2>3, <2>4, <2>5, <2>6, HolderUsable
<1>3. UNCHANGED disk \/ RollbackPoint(p) \/ RollbackDiscard(p)
  BY DEF RollbackNext, KeepShared, BeginRollback, RollbackRefused, RollbackFails,
     RollbackReturns
<1> QED BY <1>1, <1>2, <1>3

LEMMA UninstallUsable ==
    ASSUME InstallInv, Usable, NEW p \in Proc, UninstallNext(p)
    PROVE  Usable'
<1> USE DEF At
<1>0. Sound(p) /\ DiskTypeOK /\ \A q \in Proc : Plain(q)
  BY OtherPlain DEF InstallInv, SoundInv
<1>1. CASE UNCHANGED disk
  <2>1. removed' = "no" => removed = "no"
    BY <1>1 DEF UninstallNext, BeginUninstall, UninstallRefused, RemoveVersions,
       RemovePointer, RemovalFails, UninstallReturns
  <2> QED BY <1>0, <1>1, <2>1, QuietUsable
<1>2. CASE RemoveVersions(p)
  <2>1. /\ Holds(p) /\ proc[p].at = "uninstalling" /\ current' = current /\ removed' = "partly"
        /\ staged' = [q \in Proc |-> "absent"]
    BY <1>2 DEF RemoveVersions
  <2>2. \A q \in Proc : ~At(q, "pointing")'
    <3>1. \A q \in Proc \ {p} : proc[q].at # "pointing"
      BY <2>1, OthersRest DEF InstallInv, Working
    <3> QED BY <1>0, <2>1, <3>1 DEF Plain
  <2>3. Spared' /\ NoneOlder' /\ Pointable'
    BY <1>0, <2>1, <2>2, PlainParts DEF Usable, NoneOlder, Pointable
  <2> QED BY <2>1, <2>3 DEF Usable, PointerRunnable
<1>3. CASE RemovePointer(p)
  <2>1. /\ proc[p].at = "forgetting" /\ current' = NoVersion /\ removed' = removed
        /\ dirs' = dirs /\ staged' = staged
    BY <1>3 DEF RemovePointer
  <2>2. removed # "no"
    <3>1. First \in Releases
      BY ReleaseAssumption
    <3> QED BY <1>0, <2>1, <3>1 DEF Sound, Emptied, Usable
  <2>3. Spared' /\ NoneOlder' /\ Pointable'
    BY <1>0, <2>1, PlainParts DEF Usable, NoneOlder, Pointable
  <2> QED BY <2>1, <2>2, <2>3 DEF Usable, PointerRunnable
<1>4. UNCHANGED disk \/ RemoveVersions(p) \/ RemovePointer(p)
  BY DEF UninstallNext, BeginUninstall, UninstallRefused, RemovalFails, UninstallReturns
<1> QED BY <1>1, <1>2, <1>3, <1>4

LEMMA CleanupUsable ==
    ASSUME OneSuccessor, WholeRemoval, InstallInv, Usable, NEW p \in Proc,
           Sweep(p) \/ (\E e \in proc[p].garbage : RemoveEntry(p, e))
    PROVE  Usable'
<1> USE DEF At
<1>0. /\ proc[p] \in ProcType /\ ProcTypeOK /\ DiskTypeOK
      /\ removed' = removed /\ current' = current
  BY Typed DEF InstallInv, ProcInv, Sweep, RemoveEntry
<1>1. CASE Sweep(p)
  <2> DEFINE v == proc[p].version
             others == Installed \ {v}
             g == {<<"version", w>> : w \in Installed \ Kept(v, others)}
                    \cup {<<"staged", q>> : q \in {r \in Proc : staged[r] # "absent"}}
  <2>1. proc' = [proc EXCEPT ![p].at = "removing", ![p].garbage = g]
    BY <1>1 DEF Sweep
  <2>2. dirs' = dirs /\ staged' = staged
    BY <1>1 DEF Sweep
  <2>3. Installed \subseteq Kept(v, others)
    <3>1. v \in Releases
      BY <1>0, <1>1 DEF Sweep, Usable, Spared, ProcType, Named
    <3>2. PICK w \in Releases : Releases = {First, w}
      BY DEF OneSuccessor
    <3>3. CASE others = {}
      BY <3>3 DEF Kept
    <3>4. CASE others # {}
      <4>1. PICK u \in Releases : others = {u}
        BY <3>1, <3>2, <3>4 DEF Installed
      <4>2. Compare(u, u) >= 0
        <5>1. u \in Version
          BY ReleaseAssumption
        <5> QED BY <5>1, CompareIsAntisymmetric
      <4>3. NewestOf(others) = u
        BY <4>1, <4>2 DEF NewestOf
      <4> QED BY <3>4, <4>1, <4>3 DEF Kept
    <3> QED BY <3>3, <3>4
  <2>4. \A e \in g : e[1] # "version"
    BY <2>3
  <2> HIDE DEF g
  <2>5. /\ proc'[p].at = "removing" /\ proc'[p].garbage = g
        /\ proc'[p].version = proc[p].version
        /\ \A q \in Proc \ {p} : proc'[q] = proc[q]
    BY <1>0, <2>1 DEF ProcTypeOK, ProcType
  <2>6. Spared' /\ NoneOlder' /\ Pointable'
    BY <1>0, <2>2, <2>4, <2>5 DEF Usable, Spared, NoneOlder, Pointable
  <2> QED BY <1>0, <2>2, <2>6 DEF Usable, PointerRunnable, Runnable
<1>2. ASSUME NEW e \in proc[p].garbage, RemoveEntry(p, e)
      PROVE  Usable'
  <2>1. proc[p].at = "removing" /\ e[1] # "version"
    BY <1>2 DEF RemoveEntry, Usable, Spared
  <2>2. e[2] \in Proc
    BY <1>0, <2>1 DEF ProcType
  <2>3. /\ dirs' = dirs
        /\ staged' = [staged EXCEPT ![e[2]] = "absent"]
    BY <1>2, <2>1 DEF RemoveEntry, Shrunk, WholeRemoval
  <2>4. \A q \in Proc : staged'[q] # "empty"
    BY <1>0, <2>2, <2>3 DEF Usable, DiskTypeOK
  <2>5. proc' = proc \/ proc' = [proc EXCEPT ![p].garbage = @ \ {e}]
    BY <1>2 DEF RemoveEntry
  <2>6. /\ proc'[p].at = "removing" /\ proc'[p].garbage \subseteq proc[p].garbage
        /\ proc'[p].version = proc[p].version
        /\ \A q \in Proc \ {p} : proc'[q] = proc[q]
    BY <1>0, <2>1, <2>5 DEF ProcTypeOK, ProcType
  <2>7. Spared' /\ NoneOlder' /\ Pointable'
    BY <1>0, <2>1, <2>3, <2>6 DEF Usable, Spared, NoneOlder, Pointable
  <2> QED BY <1>0, <2>3, <2>4, <2>7 DEF Usable, PointerRunnable, Runnable
<1> QED BY <1>1, <1>2

\* A process is started only in the version that the pointer names, or in the
\* one that its parent has installed.
LEMMA StartUsable ==
    ASSUME OneSuccessor, InstallInv, Usable, NEW p \in Proc,
           Start(p) \/ (\E q \in Proc : Launch(p, q))
    PROVE  Usable'
<1> USE DEF At
<1>0. /\ proc[p] \in ProcType /\ ProcTypeOK /\ Sound(p) /\ NoVersion \notin Releases
      /\ UNCHANGED disk /\ removed' = removed
  BY Typed, ReleaseAssumption DEF InstallInv, ProcInv, SoundInv, Start, Launch
<1>1. ASSUME NEW q \in Proc, NEW v \in Releases, NEW r, AtMost(First, v),
             proc'[q] = Started(v, r),
             \A s \in Proc \ {q} : Plain(s)
      PROVE  Usable'
  <2>1. proc'[q].at = "sweeping" /\ proc'[q].version = v
    BY <1>1 DEF Started, Off
  <2>2. ASSUME NEW s \in Proc \ {q}
        PROVE  /\ proc'[s].version # NoVersion => AtMost(First, proc'[s].version)
               /\ At(s, "pointing")' => dirs[proc'[s].target] = "whole"
               /\ At(s, "sweeping")' => proc'[s].version # NoVersion
               /\ At(s, "removing")' => \A e \in proc'[s].garbage : e[1] # "version"
    BY <1>1 DEF Plain, Usable, NoneOlder, Pointable, Spared
  <2>3. Spared' /\ NoneOlder' /\ Pointable'
    BY <1>0, <1>1, <2>1, <2>2 DEF Usable, Spared, NoneOlder, Pointable, disk
  <2> QED BY <1>0, <2>3 DEF Usable, PointerRunnable, Runnable, disk
<1>2. CASE Start(p)
  <2>1. /\ proc'[p] = Started(current, NoProc)
        /\ \A s \in Proc \ {p} : proc'[s] = proc[s]
        /\ current \in Releases
    BY <1>0, <1>2 DEF Start, Runnable, ProcTypeOK
  <2>2. AtMost(First, current)
    BY <1>0, <2>1 DEF Usable, NoneOlder
  <2>3. \A s \in Proc \ {p} : Plain(s)
    BY <2>1, PlainKinds DEF Still
  <2> QED BY <1>1, <2>1, <2>2, <2>3
<1>3. ASSUME NEW q \in Proc, Launch(p, q) PROVE Usable'
  <2>1. /\ proc[p].at = "launching" /\ p # q
    BY <1>3 DEF Launch
  <2>2. /\ proc'[q] = Started(proc[p].result.target, p)
        /\ proc'[p] = [proc[p] EXCEPT !.at = "waiting"]
        /\ \A s \in Proc \ {p, q} : proc'[s] = proc[s]
    BY <1>0, <1>3, <2>1 DEF Launch, ProcTypeOK
  <2>3. proc[p].result.target = proc[p].target
    BY <1>0, <2>1 DEF Sound, Done
  <2>4. AtMost(First, proc[p].target) /\ proc[p].target \in Releases
    BY <2>1, FromFirst DEF Updating
  <2>5. proc'[p].at = "waiting" /\ proc'[p].version = proc[p].version
    BY <1>0, <2>2 DEF ProcType
  <2>6. ASSUME NEW s \in Proc \ {q} PROVE Plain(s)
    <3>1. CASE s = p
      BY <2>5, <3>1, PlainKinds DEF Special
    <3>2. CASE s # p
      BY <2>2, <3>2, PlainKinds DEF Still
    <3> QED BY <3>1, <3>2
  <2> QED BY <1>1, <2>2, <2>3, <2>4, <2>6
<1> QED BY <1>2, <1>3

LEMMA UsableStep ==
    ASSUME NoFaults, OneSuccessor, WholeRemoval, InstallInv, Usable, [Next]_vars
    PROVE  Usable'
<1>1. ASSUME NEW p \in Proc, ClientNext(p) PROVE Usable'
  <2>1. CASE InstallNext(p) \/ RollbackNext(p)
    BY <2>1, InstallUsable, RollbackUsable
  <2>2. CASE Sweep(p) \/ (\E e \in proc[p].garbage : RemoveEntry(p, e))
    BY <2>2, CleanupUsable
  <2>3. CASE Start(p) \/ (\E q \in Proc : Launch(p, q))
    BY <2>3, StartUsable
  <2>4. CASE \/ StartFails(p) \/ Decline(p) \/ GiveUpUpdate(p) \/ Relaunched(p) \/ LeaveChat(p)
             \/ EnterChat(p) \/ Retry(p) \/ LaunchFails(p) \/ EndCleanup(p)
             \/ AcceptUpdate(p) \/ UpgradeRequired(p)
    <3>1. UNCHANGED disk /\ removed' = removed
      BY <2>4 DEF StartFails, EnterChat, Decline, AcceptUpdate, Retry, GiveUpUpdate,
         LaunchFails, Relaunched, LeaveChat, UpgradeRequired, EndCleanup, End
    <3>2. \A q \in Proc : Plain(q)
      BY <2>4, OtherPlain
    <3> QED BY <3>1, <3>2, QuietUsable
  <2>5. CASE LockStep(p)
    <3>1. UNCHANGED disk /\ removed' = removed /\ proc' = proc
      BY <2>5 DEF LockStep
    <3>2. \A q \in Proc : Plain(q)
      BY <3>1, PlainKinds DEF Still
    <3> QED BY <3>1, <3>2, QuietUsable
  <2> QED BY <1>1, <2>1, <2>2, <2>3, <2>4, <2>5 DEF ClientNext
<1>2. ASSUME NEW p \in Proc, Crash(p) PROVE FALSE
  BY <1>2 DEF Crash, LoseTaker, NoFaults, InstallInv, LockInv, LockTypeOK
<1>3. CASE Publish \/ Time \/ UNCHANGED vars
  <2>1. UNCHANGED disk /\ removed' = removed /\ proc' = proc
    BY <1>3 DEF Publish, Time, vars, disk
  <2>2. \A q \in Proc : Plain(q)
    BY <2>1, PlainKinds DEF Still
  <2> QED BY <2>1, <2>2, QuietUsable
<1> QED BY <1>1, <1>2, <1>3, UninstallUsable DEF Next

LEMMA UsableInit == Init => Usable
<1> SUFFICES ASSUME Init PROVE Usable
  OBVIOUS
<1>1. First \in Releases /\ First \in Version
  BY ReleaseAssumption
<1>2. current = First /\ dirs[First] = "whole"
  BY <1>1 DEF Init
<1>3. \A p \in Proc : proc[p].at = "off" /\ proc[p].version = NoVersion
  BY DEF Init, Off
<1>4. NoneOlder /\ Pointable /\ Spared
  BY <1>1, <1>2, <1>3, AtMostOrder DEF NoneOlder, Pointable, Spared, At
<1>5. \A p \in Proc : staged[p] # "empty"
  BY DEF Init
<1> QED BY <1>1, <1>2, <1>4, <1>5 DEF Usable, PointerRunnable, Runnable

\* The pointer always names a client that can be started, until an uninstall
\* ends that: for any number of clients side by side, of rollbacks and of failed
\* steps, while one release follows the first.
THEOREM LauncherFindsClient ==
    ASSUME NoFaults, OneSuccessor, WholeRemoval PROVE Spec => []PointerRunnable
<1>1. InstallInv /\ Usable /\ [Next]_vars => (InstallInv /\ Usable)'
  BY InstallStep, UsableStep
<1>2. InstallInv /\ Usable => PointerRunnable
  BY DEF Usable
<1> QED BY <1>1, <1>2, InstallInit, UsableInit, PTL DEF Spec

=============================================================================
