---------------------------- MODULE ClientUpdate ----------------------------
(***************************************************************************)
(* The client processes of one user and the installation they share:       *)
(* internal/launcher starts the version that the pointer "current" names;  *)
(* cmd/xchat cleans up, asks the server for an update and offers it        *)
(* (update/runner.go), installs it (update/install.go), runs the new       *)
(* version as a child and takes the update back when the child fails.      *)
(* internal/uninstall removes the installation.                            *)
(*                                                                         *)
(* Every step that changes a file others can see is a step of its own, with *)
(* the reads the code makes just before it; what a process does without     *)
(* touching a file (the check, the questions to the user) is one step.  An  *)
(* installed version is a directory that is absent, empty or whole: an      *)
(* artifact is verified by its digest, so what is not whole is as good as   *)
(* empty.                                                                   *)
(***************************************************************************)
EXTENDS UpdateLock, Versions, FiniteSets

CONSTANTS Releases,     \* the versions ever published
          Manifests,    \* the manifests ever published
          NoVersion,    \* no pointer, after an uninstall
          First,        \* the version installed at first
          OneStepRemoval,  \* whether RemoveAll of a directory is taken as one
                           \* step; it removes the file, then the directory
          MaxRoots,     \* bound: clients the user has started side by side
          Uninstalls    \* whether the user may run "spacechat uninstall"

ASSUME ReleaseAssumption ==
    /\ Releases \subseteq Version /\ First \in Releases /\ NoVersion \notin Releases
    /\ Manifests \subseteq {m \in Manifest : m.latest \in Releases}
    /\ OneStepRemoval \in BOOLEAN /\ Uninstalls \in BOOLEAN /\ MaxRoots \in Nat

VARIABLES current,      \* the pointer file
          dirs,         \* Layout.Versions: each version's directory
          staged,       \* Layout.Versions: the staging directory of a process
          temp,         \* Layout.Temp: whether the download of a process is there
          proc,         \* what each process is doing
          published,    \* the manifest the server offers
          installer,    \* not in the code: who made the pointer name a version
          removed       \* not in the code: how far an uninstall has got

disk == <<current, dirs, staged, temp>>
vars == <<file, taker, crashes, current, dirs, staged, temp, proc, published,
          installer, removed>>

-----------------------------------------------------------------------------
(* A process *)

NoResult == [target |-> NoVersion, previous |-> NoVersion, shared |-> FALSE]

\* at: where the process is. check: what Check said. known: the server has
\* refused this version (KnownIncompatible). result: InstallResult. garbage:
\* what Cleanup has still to remove. ok: whether what a lock is released after
\* succeeded; fresh: promoted.
Off == [at |-> "off", version |-> NoVersion, parent |-> NoProc,
        target |-> NoVersion, required |-> FALSE, known |-> FALSE,
        result |-> NoResult, garbage |-> {}, ok |-> FALSE, fresh |-> FALSE]

Started(v, parent) == [Off EXCEPT !.at = "sweeping", !.version = v, !.parent = parent]

Places == {"off", "sweeping", "removing", "checking", "asking", "chatting", "locking",
           "verifying", "downloading", "promoting", "pointing", "undoing", "releasing",
           "launching", "waiting", "relaunched", "launch_failed", "taking_back",
           "discarding", "taken_back", "uninstalling", "forgetting", "forgotten"}

At(p, where) == proc[p].at = where
Move(p, where) == proc' = [proc EXCEPT ![p].at = where]

\* Which processes run a client, rather than an uninstall.
Client(p) == proc[p].version # NoVersion

\* The versions whose client can be executed.
Runnable == {v \in Releases : dirs[v] = "whole"}

Installed == {v \in Releases : dirs[v] # "absent"}

NewestOf(S) == CHOOSE v \in S : \A w \in S : Compare(v, w) >= 0

-----------------------------------------------------------------------------
(* Starting: the launcher, and the end of a process *)

\* Clients that are no other client's child, or not any more.
Roots == {p \in Proc : Client(p) /\ proc[p].parent = NoProc}

\* launcher.Run finds the client of the current version and executes it.
Start(p) ==
    /\ At(p, "off") /\ Cardinality(Roots) < MaxRoots
    /\ current \in Runnable
    /\ proc' = [proc EXCEPT ![p] = Started(current, NoProc)]
    /\ UNCHANGED <<lockVars, disk, published, installer, removed>>

\* What the end of p leaves of r: its parent goes on with result, and a child
\* has no parent any more.
After(r, p, result) ==
    IF r = p THEN Off
    ELSE IF r = proc[p].parent /\ At(r, "waiting") THEN [proc[r] EXCEPT !.at = result]
    ELSE IF proc[r].parent = p THEN [proc[r] EXCEPT !.parent = NoProc]
    ELSE proc[r]

\* The process exits: zero ends its parent's Run with Relaunched, another code
\* is the error of launchUpdated.
EndWith(p, code) ==
    proc' = [r \in Proc |->
                After(r, p, IF code = 0 THEN "relaunched" ELSE "launch_failed")]

End(p, code) ==
    /\ EndWith(p, code)
    /\ UNCHANGED <<lockVars, disk, published, installer, removed>>

\* Errors before Cleanup: options, configuration, certificates.
StartFails(p) == At(p, "sweeping") /\ End(p, 1)

-----------------------------------------------------------------------------
(* Cleanup *)

\* Defective variant: only the own version is kept.
KeptNone(v, others) == {v}

\* The own version and the newest other one.
Kept(v, others) == {v} \cup (IF others = {} THEN {} ELSE {NewestOf(others)})

\* cleanDirectoryContents(Temp), and the entries to be removed.
Sweep(p) ==
    LET v == proc[p].version
    IN  /\ At(p, "sweeping")
        /\ temp' = [q \in Proc |-> FALSE]
        /\ proc' = [proc EXCEPT ![p].at = "removing",
               ![p].garbage = {<<"version", w>> : w \in Installed \ Kept(v, Installed \ {v})}
                         \cup {<<"staged", q>> : q \in {r \in Proc : staged[r] # "absent"}}]
        /\ UNCHANGED <<lockVars, current, dirs, staged, published, installer, removed>>

\* What RemoveAll makes of a directory in one step.
Shrunk(d) == IF OneStepRemoval \/ d # "whole" THEN "absent" ELSE "empty"

\* os.RemoveAll of one entry.
RemoveEntry(p, e) ==
    /\ At(p, "removing") /\ e \in proc[p].garbage
    /\ LET before == IF e[1] = "version" THEN dirs[e[2]] ELSE staged[e[2]]
       IN  /\ IF e[1] = "version"
              THEN dirs' = [dirs EXCEPT ![e[2]] = Shrunk(@)] /\ UNCHANGED staged
              ELSE staged' = [staged EXCEPT ![e[2]] = Shrunk(@)] /\ UNCHANGED dirs
           /\ proc' = IF Shrunk(before) = "absent"
                      THEN [proc EXCEPT ![p].garbage = @ \ {e}] ELSE proc
    /\ UNCHANGED <<lockVars, current, temp, published, installer, removed>>

\* Nothing is left to remove, or an error ends it early: either way the
\* client goes on.
EndCleanup(p) ==
    /\ At(p, "removing")
    /\ proc' = [proc EXCEPT ![p].at = "checking", ![p].garbage = {}]
    /\ UNCHANGED <<lockVars, disk, published, installer, removed>>

-----------------------------------------------------------------------------
(* Runner.Run: the check and the question *)

Decision(p) == DecisionFor(proc[p].version, published.latest, published.minimum)

\* The client is offered an update, as optional or as required.
Behind(p) == Client(p) /\ Decision(p) \in {"optional", "required"}

\* Defective variant: whoever is not offered a required update may chat.
EnterChatAnyway(p) ==
    /\ At(p, "checking")
    /\ Decision(p) # "required"
    /\ Move(p, "chatting")
    /\ UNCHANGED <<lockVars, disk, published, installer, removed>>

\* The check fails, or there is no update, or the user skips an optional one.
EnterChat(p) ==
    /\ At(p, "checking")
    /\ ~proc[p].known
    /\ Move(p, "chatting")
    /\ UNCHANGED <<lockVars, disk, published, installer, removed>>

\* ActionExit, in answer to a required update or to a check to be retried.
Decline(p) ==
    /\ At(p, "checking")
    /\ proc[p].known \/ Decision(p) = "required"
    /\ End(p, 0)

\* ActionUpdate, and the beginning of Install.
AcceptUpdate(p) ==
    /\ At(p, "checking")
    /\ Behind(p)
    /\ Begin(p)
    /\ proc' = [proc EXCEPT ![p].at = "locking", ![p].target = published.latest,
                    ![p].required = proc[p].known \/ Decision(p) = "required"]
    /\ UNCHANGED <<disk, published, installer, removed>>

\* Without an update: a required one is offered again, after an optional one
\* the chat begins.
Without(p) == IF proc[p].required THEN "asking" ELSE "chatting"

\* ActionRetry
Retry(p) ==
    /\ At(p, "asking")
    /\ Begin(p)
    /\ Move(p, "locking")
    /\ UNCHANGED <<disk, published, installer, removed>>

GiveUpUpdate(p) == At(p, "asking") /\ End(p, 0)

-----------------------------------------------------------------------------
(* Install *)

\* Another process holds the lock.
InstallBusy(p) ==
    /\ At(p, "locking") /\ taker[p].at = "busy"
    /\ GiveUp(p)
    /\ Move(p, IF current = proc[p].target THEN "verifying" ELSE Without(p))
    /\ UNCHANGED <<disk, published, installer, removed>>

\* completedByAnother: the target is verified and still the current version.
CompletedByAnother(p) ==
    /\ At(p, "verifying")
    /\ IF current = proc[p].target /\ current \in Runnable
       THEN proc' = [proc EXCEPT ![p].at = "launching",
                ![p].result = [target |-> proc[p].target,
                               previous |-> proc[p].version, shared |-> TRUE]]
       ELSE Move(p, Without(p))
    /\ UNCHANGED <<lockVars, disk, published, installer, removed>>

InstallFailed(p) ==
    /\ At(p, "locking") /\ taker[p].at = "failed"
    /\ GiveUp(p)
    /\ Move(p, Without(p))
    /\ UNCHANGED <<disk, published, installer, removed>>

Installing(p) == At(p, "locking") /\ Holds(p)

Fails(p) == proc' = [proc EXCEPT ![p].at = "releasing", ![p].ok = FALSE]

\* The deferred cleaning up, for better or for worse.
Undoing(p, ok) == proc' = [proc EXCEPT ![p].at = "undoing", ![p].ok = ok]

\* The pointer names the target already, if that is whole; or neither it nor
\* the own version.
FoundChanged(p) ==
    /\ Installing(p)
    /\ current # proc[p].version
    /\ IF current = proc[p].target /\ current \in Runnable
       THEN proc' = [proc EXCEPT ![p].at = "releasing", ![p].ok = TRUE,
                ![p].result = [target |-> current, previous |-> proc[p].version,
                               shared |-> TRUE]]
       ELSE Fails(p)
    /\ UNCHANGED <<lockVars, disk, published, installer, removed>>

\* What Rollback would undo.
Ours(p) == [target |-> proc[p].target, previous |-> proc[p].version, shared |-> FALSE]

\* The target is there, whole, and passes its self-check.
Reuse(p) ==
    /\ Installing(p)
    /\ current = proc[p].version /\ proc[p].target \in Runnable
    /\ proc' = [proc EXCEPT ![p].at = "pointing", ![p].fresh = FALSE]
    /\ UNCHANGED <<lockVars, disk, published, installer, removed>>

\* The target is not there or removed, and its download begins.
Fetch(p) ==
    /\ Installing(p)
    /\ current = proc[p].version
    /\ dirs' = [dirs EXCEPT ![proc[p].target] = "absent"]
    /\ temp' = [temp EXCEPT ![p] = TRUE]
    /\ Move(p, "downloading")
    /\ UNCHANGED <<lockVars, current, staged, published, installer, removed>>

\* The download ends, and is renamed into a staging directory of its own,
\* unless somebody's Cleanup has removed it.
Stage(p) ==
    /\ At(p, "downloading") /\ temp[p]
    /\ temp' = [temp EXCEPT ![p] = FALSE]
    /\ staged' = [staged EXCEPT ![p] = "whole"]
    /\ Move(p, "promoting")
    /\ UNCHANGED <<lockVars, current, dirs, published, installer, removed>>

\* A step between the download and the promotion fails.
InstallStepFails(p) ==
    /\ At(p, "downloading") \/ At(p, "promoting") \/ At(p, "pointing")
    /\ Undoing(p, FALSE)
    /\ UNCHANGED <<lockVars, disk, published, installer, removed>>

\* The self-check has passed, and the staging directory is renamed to the
\* target's, where there must be nothing but an empty directory.
Promote(p) ==
    /\ At(p, "promoting")
    /\ staged[p] # "absent" /\ proc[p].target \notin Runnable
    /\ dirs' = [dirs EXCEPT ![proc[p].target] = staged[p]]
    /\ staged' = [staged EXCEPT ![p] = "absent"]
    /\ proc' = [proc EXCEPT ![p].at = "pointing", ![p].fresh = TRUE]
    /\ UNCHANGED <<lockVars, current, temp, published, installer, removed>>

\* WriteCurrent
Point(p) ==
    /\ At(p, "pointing")
    /\ current' = proc[p].target
    /\ installer' = [installer EXCEPT ![proc[p].target] = p]
    /\ proc' = [proc EXCEPT ![p].at = "undoing", ![p].ok = TRUE, ![p].result = Ours(p)]
    /\ UNCHANGED <<lockVars, dirs, staged, temp, published, removed>>

\* Defective variant: the promoted version is removed on success too.
UndoAlways(p) ==
    /\ At(p, "undoing")
    /\ staged' = [staged EXCEPT ![p] = "absent"]
    /\ temp' = [temp EXCEPT ![p] = FALSE]
    /\ dirs' = IF proc[p].fresh THEN [dirs EXCEPT ![proc[p].target] = "absent"] ELSE dirs
    /\ proc' = [proc EXCEPT ![p].at = "releasing", ![p].fresh = FALSE]
    /\ UNCHANGED <<lockVars, current, published, installer, removed>>

\* The deferred functions before lock.Release.
Undo(p) ==
    /\ At(p, "undoing")
    /\ staged' = [staged EXCEPT ![p] = "absent"]
    /\ temp' = [temp EXCEPT ![p] = FALSE]
    /\ dirs' = IF ~proc[p].ok /\ proc[p].fresh
               THEN [dirs EXCEPT ![proc[p].target] = "absent"] ELSE dirs
    /\ proc' = [proc EXCEPT ![p].at = "releasing", ![p].fresh = FALSE]
    /\ UNCHANGED <<lockVars, current, published, installer, removed>>

\* Defective variant: a path of Install on which the lock is not released.
ReturnUnreleased(p) ==
    /\ At(p, "releasing")
    /\ taker' = [taker EXCEPT ![p] = Away]
    /\ Move(p, IF proc[p].ok THEN "launching" ELSE Without(p))
    /\ UNCHANGED <<file, crashes, disk, published, installer, removed>>

\* lock.Release is over.
InstallReturns(p) ==
    /\ At(p, "releasing") /\ taker[p].at = "none"
    /\ Move(p, IF proc[p].ok THEN "launching" ELSE Without(p))
    /\ UNCHANGED <<lockVars, disk, published, installer, removed>>

-----------------------------------------------------------------------------
(* The new version as a child, and Rollback *)

Launch(p, q) ==
    /\ At(p, "launching") /\ At(q, "off")
    /\ proc[p].result.target \in Runnable
    /\ proc' = [proc EXCEPT ![p].at = "waiting", ![q] = Started(proc[p].result.target, p)]
    /\ UNCHANGED <<lockVars, disk, published, installer, removed>>

LaunchFails(p) ==
    /\ At(p, "launching")
    /\ Move(p, "launch_failed")
    /\ UNCHANGED <<lockVars, disk, published, installer, removed>>

Relaunched(p) == At(p, "relaunched") /\ End(p, 0)

\* Another updater's installation is not taken back.
KeepShared(p) ==
    /\ At(p, "launch_failed") /\ proc[p].result.shared
    /\ Move(p, Without(p))
    /\ UNCHANGED <<lockVars, disk, published, installer, removed>>

\* Defective variant: whoever failed to launch a version takes it back.
BeginRollbackOfAny(p) ==
    /\ At(p, "launch_failed")
    /\ Begin(p)
    /\ Move(p, "taking_back")
    /\ UNCHANGED <<disk, published, installer, removed>>

BeginRollback(p) ==
    /\ At(p, "launch_failed") /\ ~proc[p].result.shared
    /\ Begin(p)
    /\ Move(p, "taking_back")
    /\ UNCHANGED <<disk, published, installer, removed>>

\* The error of a rollback ends the client.
RollbackRefused(p) ==
    /\ At(p, "taking_back") /\ taker[p].at \in {"busy", "failed"}
    /\ GiveUp(p)
    /\ EndWith(p, 1)
    /\ UNCHANGED <<disk, published, installer, removed>>

\* WriteCurrent(Previous), if the target is still the current version.
RollbackPoint(p) ==
    /\ At(p, "taking_back") /\ Holds(p)
    /\ current = proc[p].result.target
    /\ current' = proc[p].result.previous
    /\ Move(p, "discarding")
    /\ UNCHANGED <<lockVars, dirs, staged, temp, published, installer, removed>>

\* Another version is current, or WriteCurrent fails.
RollbackFails(p) ==
    /\ At(p, "taking_back") /\ Holds(p)
    /\ proc' = [proc EXCEPT ![p].at = "taken_back", ![p].ok = FALSE]
    /\ UNCHANGED <<lockVars, disk, published, installer, removed>>

\* RemoveAll of the target's directory.
RollbackDiscard(p) ==
    /\ At(p, "discarding")
    /\ dirs' = [dirs EXCEPT ![proc[p].result.target] = "absent"]
    /\ proc' = [proc EXCEPT ![p].at = "taken_back", ![p].ok = TRUE]
    /\ UNCHANGED <<lockVars, current, staged, temp, published, installer, removed>>

RollbackReturns(p) ==
    /\ At(p, "taken_back") /\ taker[p].at = "none"
    /\ IF proc[p].ok THEN Move(p, Without(p)) ELSE EndWith(p, 1)
    /\ UNCHANGED <<lockVars, disk, published, installer, removed>>

-----------------------------------------------------------------------------
(* The chat, the server, and the end of the installation *)

\* runTerminal returns, with an error or without.
LeaveChat(p) == At(p, "chatting") /\ \E code \in {0, 1} : End(p, code)

\* The server's answer to a join is upgrade_required.
UpgradeRequired(p) ==
    /\ At(p, "chatting")
    /\ Compare(proc[p].version, published.minimum) < 0
    /\ proc' = [proc EXCEPT ![p].at = "checking", ![p].known = TRUE]
    /\ UNCHANGED <<lockVars, disk, published, installer, removed>>

\* The server is restarted with another manifest, of a newer release or, when
\* a release is taken back, of an older one.
Publish ==
    /\ \E m \in Manifests \ {published} : published' = m
    /\ UNCHANGED <<lockVars, disk, proc, installer, removed>>

\* checkRunning finds neither a client nor another uninstall running.
BeginUninstall(p) ==
    /\ Uninstalls
    /\ \A q \in Proc : At(q, "off")
    /\ Begin(p)
    /\ proc' = [proc EXCEPT ![p].at = "uninstalling"]
    /\ UNCHANGED <<disk, published, installer, removed>>

UninstallRefused(p) ==
    /\ At(p, "uninstalling") /\ taker[p].at \in {"busy", "failed"}
    /\ GiveUp(p)
    /\ Move(p, "off")
    /\ UNCHANGED <<disk, published, installer, removed>>

\* Defective variant: the uninstall goes on when an updater holds the lock.
RemoveVersionsUnlocked(p) ==
    /\ At(p, "uninstalling") /\ taker[p].at \in {"held", "busy"}
    /\ dirs' = [v \in Releases |-> "absent"]
    /\ staged' = [q \in Proc |-> "absent"]
    /\ temp' = [q \in Proc |-> FALSE]
    /\ removed' = "partly"
    /\ Move(p, "forgetting")
    /\ taker' = IF Holds(p) THEN taker ELSE [taker EXCEPT ![p] = Away]
    /\ UNCHANGED <<file, crashes, current, published, installer>>

\* RemoveAll of Versions and Temp.
RemoveVersions(p) ==
    /\ At(p, "uninstalling") /\ Holds(p)
    /\ dirs' = [v \in Releases |-> "absent"]
    /\ staged' = [q \in Proc |-> "absent"]
    /\ temp' = [q \in Proc |-> FALSE]
    /\ removed' = "partly"
    /\ Move(p, "forgetting")
    /\ UNCHANGED <<lockVars, current, published, installer>>

\* The pointer, the entry in PATH and the launcher.
RemovePointer(p) ==
    /\ At(p, "forgetting")
    /\ current' = NoVersion
    /\ proc' = [proc EXCEPT ![p].at = "forgotten", ![p].ok = TRUE]
    /\ UNCHANGED <<lockVars, dirs, staged, temp, published, installer, removed>>

\* Something cannot be removed: what is gone stays gone.
RemovalFails(p) ==
    /\ \/ At(p, "uninstalling") /\ Holds(p)
       \/ At(p, "forgetting")
    /\ Move(p, "forgotten")
    /\ UNCHANGED <<lockVars, disk, published, installer, removed>>

UninstallReturns(p) ==
    /\ At(p, "forgotten") /\ taker[p].at = "none"
    /\ removed' = IF proc[p].ok THEN "done" ELSE removed
    /\ proc' = [proc EXCEPT ![p] = Off]
    /\ UNCHANGED <<lockVars, disk, published, installer>>

-----------------------------------------------------------------------------
(* The lock, and crashes *)

Locking(p) == proc[p].at \in {"locking", "taking_back", "uninstalling"}
Unlocking(p) == proc[p].at \in {"releasing", "taken_back", "forgotten"}

LockStep(p) ==
    /\ \/ Locking(p) /\ Acquire(p)
       \/ Unlocking(p) /\ (Release(p) \/ Unlink(p))
    /\ UNCHANGED <<disk, proc, published, installer, removed>>

Time == GrowOld /\ UNCHANGED <<disk, proc, published, installer, removed>>

\* A process dies; its parent sees that its child has failed.
Crash(p) ==
    /\ ~At(p, "off")
    /\ LoseTaker(p)
    /\ EndWith(p, 1)
    /\ UNCHANGED <<disk, published, installer, removed>>

-----------------------------------------------------------------------------
Init ==
    /\ LockInit
    /\ current = First
    /\ dirs = [v \in Releases |-> IF v = First THEN "whole" ELSE "absent"]
    /\ staged = [p \in Proc |-> "absent"]
    /\ temp = [p \in Proc |-> FALSE]
    /\ proc = [p \in Proc |-> Off]
    /\ published \in Manifests
    /\ installer = [v \in Releases |-> NoProc]
    /\ removed = "no"

InstallNext(p) ==
    \/ InstallBusy(p) \/ CompletedByAnother(p) \/ InstallFailed(p)
    \/ FoundChanged(p) \/ Reuse(p) \/ Fetch(p) \/ Stage(p) \/ InstallStepFails(p)
    \/ Promote(p) \/ Point(p) \/ Undo(p) \/ InstallReturns(p)

RollbackNext(p) ==
    \/ KeepShared(p) \/ BeginRollback(p) \/ RollbackRefused(p) \/ RollbackPoint(p)
    \/ RollbackFails(p) \/ RollbackDiscard(p) \/ RollbackReturns(p)

UninstallNext(p) ==
    \/ BeginUninstall(p) \/ UninstallRefused(p) \/ RemoveVersions(p)
    \/ RemovePointer(p) \/ RemovalFails(p) \/ UninstallReturns(p)

ClientNext(p) ==
    \/ Start(p) \/ StartFails(p) \/ Sweep(p) \/ EndCleanup(p)
    \/ \E e \in proc[p].garbage : RemoveEntry(p, e)
    \/ EnterChat(p) \/ Decline(p) \/ AcceptUpdate(p) \/ Retry(p) \/ GiveUpUpdate(p)
    \/ InstallNext(p)
    \/ \E q \in Proc : Launch(p, q)
    \/ LaunchFails(p) \/ Relaunched(p)
    \/ RollbackNext(p)
    \/ LeaveChat(p) \/ UpgradeRequired(p)
    \/ LockStep(p)

Next ==
    \/ \E p \in Proc : ClientNext(p) \/ UninstallNext(p) \/ Crash(p)
    \/ Publish \/ Time

Spec == Init /\ [][Next]_vars

-----------------------------------------------------------------------------
(* Properties *)

Directory == {"absent", "empty", "whole"}

DiskTypeOK ==
    /\ current \in Releases \cup {NoVersion}
    /\ dirs \in [Releases -> Directory]
    /\ staged \in [Proc -> Directory]
    /\ temp \in [Proc -> BOOLEAN]
    /\ published \in Manifests
    /\ installer \in [Releases -> Proc \cup {NoProc}]
    /\ removed \in {"no", "partly", "done"}

Named == Releases \cup {NoVersion}

ProcType ==
    [at : Places, version : Named, parent : Proc \cup {NoProc}, target : Named,
     required : BOOLEAN, known : BOOLEAN,
     result : [target : Named, previous : Named, shared : BOOLEAN],
     garbage : SUBSET (({"version"} \X Releases) \cup ({"staged"} \X Proc)),
     ok : BOOLEAN, fresh : BOOLEAN]

ProcTypeOK == proc \in [Proc -> ProcType]

\* Every field has a value of its kind.
TypeOK == LockTypeOK /\ DiskTypeOK /\ ProcTypeOK

\* The pointer always names a version that is there, so the launcher finds a
\* client whatever happens to an update; only an uninstall ends that.
PointerRunnable ==
    \/ current \in Runnable
    \/ removed # "no"

\* A rollback takes the pointer away from a version only if the process that
\* does so had it put there.
OwnRollback ==
    [][\A p \in Proc : At(p, "taking_back") /\ current' # current /\ At(p, "discarding")'
            => installer[current] = p]_vars

\* Once the server has refused a version, the process running it does not chat
\* again: only the version it installs does.
RefusedStaysOut == \A p \in Proc : proc[p].known => ~At(p, "chatting")

\* An update leads to a later version: no manifest makes a client install an
\* older one, or its own again.
Upward == \A p \in Proc : proc[p].target # NoVersion =>
            Compare(proc[p].version, proc[p].target) < 0

\* After an uninstall nothing of the installation is left, and no client that
\* still runs brings anything back.
NothingLeft ==
    removed = "done" =>
        /\ current = NoVersion
        /\ \A v \in Releases : dirs[v] = "absent"
        /\ \A p \in Proc : staged[p] = "absent" /\ ~temp[p]

\* The lock is used by its rules: whoever acquires it goes through Acquire, and
\* gives it back through Release, on every path.
LockRules == LockSpec

=============================================================================
