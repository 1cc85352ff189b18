---------------------------- MODULE Publication ----------------------------
(***************************************************************************)
(* How a release reaches the host of the server: deploy/rooms/install.sh    *)
(* (systemd) and deploy/docker/build-artifacts.sh (Compose).  A release is  *)
(* built by cmd/spacechat-release; it is staged beside the current one,     *)
(* validated with the new server, and moved into place part by part.  What  *)
(* fails is undone; what is killed stays as it is.                          *)
(*                                                                         *)
(* Parts that no property tells apart (the cleanup script, the units) take *)
(* the same steps as the server binary and are left out.                   *)
(***************************************************************************)
EXTENDS Naturals, Sequences, FiniteSets

CONSTANTS Release,          \* releases, and what their files contain
          NoRelease,        \* nothing under that name
          VersionOf,        \* Release -> the version in its manifests and file names
          SignedBy,         \* Release -> the key its two manifests are signed with
          PublicKey,        \* Release -> the key in its update-public.key
          Preinstalled,     \* the release on the host at first, if there is one
          EncryptionKey,    \* keys of the database
          NoKey,
          MaxPublications,  \* bound: runs of the script
          MaxOutside        \* bound: deaths of scripts and servers, lost keys, and
                            \* clients that come, all together

ASSUME ReleaseAssumption ==
    /\ NoRelease \notin Release
    /\ VersionOf \in [Release -> Nat]
    /\ DOMAIN SignedBy = Release /\ DOMAIN PublicKey = Release
    /\ Preinstalled \in Release
ASSUME EncryptionKeyAssumption ==
    /\ EncryptionKey # {}
    /\ NoKey \notin EncryptionKey /\ "empty" \notin EncryptionKey /\ NoKey # "empty"
ASSUME PublicationBounds == MaxPublications \in Nat /\ MaxOutside \in Nat

VARIABLES compose,      \* the kind of deployment; never changes
          current,      \* release found under each name
          previous,     \* ... under the name with .previous
          staged,       \* ... under the name with .new, or in the staging directory
          publisher,    \* the script
          enabled,      \* the service is enabled; the container exists
          keyFile,      \* encryption.key
          db,           \* rooms.db: the key its key_check is sealed with
          spent         \* how much of the bounds is used

publication == <<current, previous, staged>>
hostData == <<keyFile, db>>

Part == {"updates", "installers", "key", "server"}
File == Release \cup {NoRelease}
None == [t \in Part |-> NoRelease]

\* The order in which names are moved. In Compose the three are one directory,
\* and the server comes with its image.
Order == IF compose THEN <<{"updates", "installers", "key"}>>
                    ELSE <<{"updates"}, {"installers"}, {"key"}, {"server"}>>

Published == UNION {Order[k] : k \in DOMAIN Order}

\* What createManifest and createInstallerCatalog leave behind, or nothing:
\* they write into a temporary directory and rename it.
Holding(r) == [t \in Part |-> IF t \in Published THEN r ELSE NoRelease]

\* The parts of group g of files f, taken from h.
Put(f, g, h) == [t \in Part |-> IF t \in g THEN h[t] ELSE f[t]]

There(f, g) == \A t \in g : f[t] # NoRelease

\* LoadUpdateCatalog and LoadInstallerCatalog accept r with this public key.
Verifies(r, key) == r # NoRelease /\ SignedBy[r] = key

\* xchat-server -validate-updates on the staged files
Valid(f) ==
    /\ f["key"] # NoRelease
    /\ Verifies(f["updates"], PublicKey[f["key"]])
    /\ Verifies(f["installers"], PublicKey[f["key"]])

Idle == [at |-> "idle", k |-> 0, had |-> {}, backup |-> FALSE, before |-> None]

Doing(where) == publisher.at = where

\* Where a failing command or a signal makes install.sh roll back, and where
\* it makes build-artifacts.sh clean up.
Swapping ==
    \/ publisher.at \in {"moving_away", "moving_in"}
    \/ compose /\ publisher.at \in {"noting", "discarding"}
    \/ ~compose /\ publisher.at \in {"stopping", "watching"}

-----------------------------------------------------------------------------
(* The beginning of the script *)

\* build-artifacts.sh puts back a release that a killed run left under the
\* other name; with both there the previous one is a leftover.
Recovered == IF ~There(current, Published) /\ There(previous, Published)
             THEN previous ELSE current

\* install.sh creates the encryption key, and refuses to when there is a
\* database.
Begin ==
    /\ Doing("idle") /\ spent.publications < MaxPublications
    /\ spent' = [spent EXCEPT !.publications = @ + 1, !.hands = 0]
    /\ \/ /\ ~compose
          /\ \/ /\ keyFile = NoKey /\ db # NoKey
                /\ UNCHANGED <<publisher, keyFile>>
             \/ /\ keyFile = NoKey /\ db = NoKey
                /\ keyFile' = "empty"
                /\ publisher' = [Idle EXCEPT !.at = "writing_key"]
             \/ /\ keyFile # NoKey
                /\ publisher' = [Idle EXCEPT !.at = "staging"]
                /\ UNCHANGED keyFile
          /\ UNCHANGED <<current, previous>>
       \/ /\ compose
          /\ current' = Recovered /\ previous' = None
          /\ publisher' = [Idle EXCEPT !.at = "staging"]
          /\ UNCHANGED keyFile
    /\ UNCHANGED <<compose, staged, enabled, db>>

FreshKey == CHOOSE k \in EncryptionKey : k # keyFile /\ k # db

WriteKey ==
    /\ Doing("writing_key")
    /\ keyFile' = FreshKey
    /\ publisher' = [Idle EXCEPT !.at = "staging"]
    /\ UNCHANGED <<compose, publication, enabled, db, spent>>

\* Copying (install.sh), or building and signing (build-artifacts.sh), then
\* validation. What cannot be validated ends the script, like a copy that
\* fails. (What a script leaves staged is removed by the next one before
\* anything reads it, and counts as gone.)
Stage ==
    /\ Doing("staging")
    /\ \E r \in Release \ {current["updates"]} :
        IF Valid(Holding(r))
        THEN staged' = Holding(r) /\ publisher' = [Idle EXCEPT !.at = "clearing"]
        ELSE staged' = None /\ publisher' = Idle
    /\ UNCHANGED <<compose, current, previous, enabled, hostData, spent>>

\* install.sh removes what an earlier run left under *.previous and notes
\* what there is to go back to.
Clear ==
    /\ Doing("clearing")
    /\ previous' = IF compose THEN previous ELSE None
    /\ publisher' = [publisher EXCEPT
            !.at = "moving_away", !.k = 1, !.before = current,
            !.had = {t \in Part : current[t] # NoRelease}]
    /\ UNCHANGED <<compose, current, staged, enabled, hostData, spent>>

-----------------------------------------------------------------------------
(* The swap *)

Group == Order[publisher.k]

\* mv current current.previous, when there is a current one
MoveAway ==
    /\ Doing("moving_away")
    /\ IF There(current, Group)
       THEN /\ previous' = Put(previous, Group, current)
            /\ current' = Put(current, Group, None)
            /\ publisher' = [publisher EXCEPT !.at = IF compose THEN "noting" ELSE "moving_in"]
       ELSE /\ publisher' = [publisher EXCEPT !.at = "moving_in"]
            /\ UNCHANGED <<current, previous>>
    /\ UNCHANGED <<compose, staged, enabled, hostData, spent>>

\* backup_active=1
NoteBackup ==
    /\ Doing("noting")
    /\ publisher' = [publisher EXCEPT !.at = "moving_in", !.backup = TRUE]
    /\ UNCHANGED <<compose, publication, enabled, hostData, spent>>

\* mv current.new current
MoveIn ==
    /\ Doing("moving_in")
    /\ current' = Put(current, Group, staged)
    /\ staged' = Put(staged, Group, None)
    /\ publisher' = IF publisher.k < Len(Order)
                    THEN [publisher EXCEPT !.at = "moving_away", !.k = @ + 1]
                    ELSE [publisher EXCEPT !.at = IF compose THEN "discarding" ELSE "stopping"]
    /\ UNCHANGED <<compose, previous, enabled, hostData, spent>>

\* The end of build-artifacts.sh: docker compose goes on with the server.
Discard ==
    /\ Doing("discarding")
    /\ previous' = None
    /\ publisher' = [publisher EXCEPT !.at = "stopping"]
    /\ UNCHANGED <<compose, current, staged, enabled, hostData, spent>>

\* systemctl status has found the service active: swapping=0, and the
\* previous files go. In Compose the container is up.
Finish ==
    /\ previous' = None
    /\ publisher' = Idle
    /\ spent' = [spent EXCEPT !.aborted = FALSE]
    /\ UNCHANGED <<compose, current, staged, enabled, hostData>>

-----------------------------------------------------------------------------
(* What goes wrong *)

\* Defective variant: goes by what there was, not by what has been moved.
UndoesWhatWas(g) ==
    \/ g \subseteq publisher.had
    \/ g \cap publisher.had = {} /\ ~There(staged, g)

\* restore_directory and restore_file (install.sh) take the current files of
\* group g away to put the previous ones back, or when there was nothing and
\* the staged ones have been moved in.
Undoes(g) ==
    \/ There(previous, g)
    \/ g \cap publisher.had = {} /\ ~There(staged, g)

\* Defective variant: the test for the current release is the wrong way round.
TakesBackInverted == publisher.backup /\ There(current, Published)

\* cleanup (build-artifacts.sh) puts the previous release back.
TakesBack == publisher.backup /\ ~There(current, Published)

\* A command fails, or HUP, INT or TERM arrives. install.sh restores group by
\* group. build-artifacts.sh cleans up at once, but looks at the releases only
\* when backup_active is set: a signal right after mv leaves the release under
\* release.previous. And when only the removal of the previous release fails,
\* the new one is in place but the server is not started again.
Fail ==
    /\ Swapping
    /\ IF compose
       THEN /\ current' = IF TakesBack THEN previous ELSE current
            /\ previous' = IF publisher.backup THEN None ELSE previous
            /\ staged' = None
            /\ publisher' = Idle
            /\ spent' = [spent EXCEPT !.aborted = @ \/ Doing("noting") \/ Doing("discarding")]
       ELSE /\ publisher' = [publisher EXCEPT !.at = "restoring", !.k = 1]
            /\ UNCHANGED <<publication, spent>>
    /\ UNCHANGED <<compose, enabled, hostData>>

\* restore_directory, restore_file. (Between its rm and its mv a server finds
\* what it finds between the two mv of the swap: nothing.)
Restore ==
    /\ Doing("restoring")
    /\ current' = IF Undoes(Group) THEN Put(current, Group, previous) ELSE current
    /\ previous' = Put(previous, Group, None)
    /\ publisher' = IF publisher.k < Len(Order)
                    THEN [publisher EXCEPT !.k = @ + 1]
                    ELSE [publisher EXCEPT !.at = "undone"]
    /\ UNCHANGED <<compose, staged, enabled, hostData, spent>>

\* The script dies without running a trap.
Kill ==
    /\ ~Doing("idle") /\ spent.outside < MaxOutside
    /\ staged' = None
    /\ publisher' = Idle
    /\ spent' = [spent EXCEPT !.outside = @ + 1, !.aborted = TRUE]
    /\ UNCHANGED <<compose, current, previous, enabled, hostData>>

PublicationSteps ==
    \/ WriteKey \/ Stage \/ Clear \/ MoveAway \/ NoteBackup \/ MoveIn \/ Discard
    \/ Restore

=============================================================================
