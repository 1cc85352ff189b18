----------------------------- MODULE Deployment -----------------------------
(***************************************************************************)
(* The host of the server as a whole: the script that publishes releases,   *)
(* the servers that start, serve, stop and die beside it, and a client that *)
(* installs itself and its updates from what they serve.  A server keeps    *)
(* both manifests and the packages in memory from its start on, but reads   *)
(* an update artifact from the directory when it is asked for it.           *)
(***************************************************************************)
EXTENDS ServerStart

VARIABLE client     \* has: the release it runs; wants: the one it has been promised

vars == <<compose, publication, publisher, enabled, hostData, spent, servers, client>>
host == <<compose, publication, publisher, enabled, spent>>
script == <<compose, hostData, spent>>

NoClient == [at |-> "none", has |-> NoRelease, wants |-> NoRelease]

Init ==
    /\ compose \in BOOLEAN
    /\ enabled \in BOOLEAN
    /\ current = IF enabled THEN Holding(Preinstalled) ELSE None
    /\ previous = None /\ staged = None
    /\ publisher = Idle
    /\ keyFile = IF enabled /\ ~compose THEN CHOOSE k \in EncryptionKey : TRUE ELSE NoKey
    /\ db = NoKey
    /\ spent = [publications |-> 0, outside |-> 0, hands |-> 0, aborted |-> FALSE]
    /\ srv = [s \in Server |-> Off]
    /\ socket = NoServer
    /\ client = NoClient

-----------------------------------------------------------------------------
(* Who starts and stops servers *)

\* Restart=on-failure, restart: unless-stopped
Restart ==
    /\ enabled /\ publisher.at \notin {"stopping", "undone"}
    /\ Exec(Unit)
    /\ UNCHANGED <<host, client>>

\* docker compose run server. Bound: only before anything is published.
StartByHand(s) ==
    /\ s # Unit /\ compose /\ enabled /\ Doing("idle")
    /\ spent.publications = 0 /\ spent.hands < MaxHands
    /\ Exec(s)
    /\ spent' = [spent EXCEPT !.hands = @ + 1]
    /\ UNCHANGED <<compose, publication, publisher, enabled, client>>

StopByHand(s) ==
    /\ s # Unit /\ Interrupt(s)
    /\ UNCHANGED <<host, client>>

\* systemctl restart, or docker compose up with a new image: stop ... Under
\* Compose the server may also be stopped first (docker compose down).
StopUnit ==
    /\ publisher.at \in {"stopping", "undone"} \/ (compose /\ Doing("staging"))
    /\ Interrupt(Unit)
    /\ UNCHANGED <<host, client>>

\* ... and start. The script watches the service it has put in place, not the
\* one it has put back; docker compose ends here.
StartUnit ==
    /\ publisher.at \in {"stopping", "undone"}
    /\ At(Unit, "down")
    /\ IF compose \/ current["server"] # NoRelease
       THEN Exec(Unit) ELSE UNCHANGED <<servers, hostData>>
    /\ publisher' = IF Doing("stopping") THEN [publisher EXCEPT !.at = "watching"] ELSE Idle
    /\ staged' = None
    /\ enabled' = (enabled \/ Doing("stopping"))
    /\ UNCHANGED <<compose, current, previous, spent, client>>

\* systemctl status: a failed service makes install.sh fail.
Watch ==
    /\ Doing("watching")
    /\ compose \/ ~At(Unit, "down")
    /\ Finish
    /\ UNCHANGED <<servers, client>>

Serve(s) == StartStep(s) /\ UNCHANGED <<host, client>>

Crash(s) ==
    /\ ~At(s, "down") /\ spent.outside < MaxOutside
    /\ Gone(s)
    /\ spent' = [spent EXCEPT !.outside = @ + 1]
    /\ UNCHANGED <<compose, publication, publisher, enabled, hostData, client>>

\* The volume comes back without the key while everything is stopped.
LoseKey ==
    /\ db # NoKey /\ keyFile # NoKey
    /\ Doing("idle") /\ \A s \in Server : At(s, "down")
    /\ spent.outside < MaxOutside
    /\ keyFile' = NoKey
    /\ spent' = [spent EXCEPT !.outside = @ + 1]
    /\ UNCHANGED <<compose, publication, publisher, enabled, db, servers, client>>

\* Bound: the script runs when no server of another hand is about.
Publish ==
    /\ \/ Begin /\ \A s \in Server \ {Unit} : At(s, "down")
       \/ PublicationSteps \/ Fail \/ Kill
    /\ UNCHANGED <<servers, client>>

-----------------------------------------------------------------------------
(* The client. Each request goes to the server that is up at that moment.   *)
(* Bound: one series of requests, an installation or an update.             *)

Has(r) == client' = [at |-> "done", has |-> r, wants |-> NoRelease]
GiveUp == Has(client.has)
Expect(where, r) == client' = [client EXCEPT !.at = where, !.wants = r]

\* GET /install/linux: the script names the package and its digest.
GetScript(s) == Expect("package", srv[s].installers)

\* GET /updates/v1/manifest, by a client of the first release
GetManifest(s) ==
    client' = [at |-> "signature", has |-> Preinstalled, wants |-> srv[s].updates]

\* The package comes from memory, under a name with the version in it; the
\* script compares the digest.
GetPackage(s) ==
    /\ client.at = "package"
    /\ IF srv[s].installers = client.wants THEN Has(client.wants) ELSE GiveUp

\* GET /updates/v1/manifest.sig: VerifyManifest with the key the client has
\* been built with, and DecisionFor.
GetSignature(s) ==
    /\ client.at = "signature"
    /\ IF /\ srv[s].updates = client.wants
          /\ SignedBy[client.wants] = SignedBy[client.has]
          /\ VersionOf[client.wants] > VersionOf[client.has]
       THEN Expect("artifact", client.wants)
       ELSE GiveUp

\* The body of GET /updates/v1/artifacts/{name}: the file that has that name
\* now, where the server's manifest lists it.
Artifact(s) ==
    LET r == current["updates"]
    IN  IF /\ VersionOf[srv[s].updates] = VersionOf[client.wants]
           /\ r # NoRelease /\ VersionOf[r] = VersionOf[client.wants]
        THEN r ELSE NoRelease

\* Defective variant: the download is not compared with the manifest.
DownloadUnchecked(s) ==
    /\ client.at = "artifact"
    /\ IF Artifact(s) # NoRelease THEN Has(Artifact(s)) ELSE GiveUp

\* Download: size and digest have to be those of the manifest.
Download(s) ==
    /\ client.at = "artifact"
    /\ IF Artifact(s) = client.wants THEN Has(client.wants) ELSE GiveUp

Unreachable == client.at \notin {"none", "done"} /\ GiveUp

Come ==
    /\ client.at = "none" /\ spent.outside < MaxOutside
    /\ \E s \in Server : Up(s) /\ (GetScript(s) \/ GetManifest(s))
    /\ spent' = [spent EXCEPT !.outside = @ + 1]
    /\ UNCHANGED <<compose, publication, publisher, enabled, hostData, servers>>

Fetch ==
    /\ \/ \E s \in Server : Up(s) /\ (GetPackage(s) \/ GetSignature(s) \/ Download(s))
       \/ (\A s \in Server : ~Up(s)) /\ Unreachable
    /\ UNCHANGED <<host, hostData, servers>>

-----------------------------------------------------------------------------

Next ==
    \/ Publish
    \/ \E s \in Server : Serve(s) \/ Crash(s) \/ StartByHand(s) \/ StopByHand(s)
    \/ Restart \/ StopUnit \/ StartUnit \/ Watch \/ LoseKey
    \/ Come \/ Fetch

Spec == Init /\ [][Next]_vars

\* The script and every start go on; systemd and Docker start the service
\* again.
Fairness ==
    /\ WF_vars(PublicationSteps /\ UNCHANGED <<servers, client>>)
    /\ WF_vars(StopUnit) /\ WF_vars(StartUnit) /\ WF_vars(Watch)
    /\ \A s \in Server : WF_vars(Serve(s))
    /\ WF_vars(Restart)

FairSpec == Spec /\ Fairness

-----------------------------------------------------------------------------
(* Properties *)

\* However many servers start at once, and die half way, there is one key: the
\* database is sealed with the key that lies beside it.
KeyFitsDatabase ==
    {keyFile, db} \subseteq EncryptionKey => keyFile = db

\* The nightly cleanup reaches the server that serves: nobody else's start or
\* end takes its socket away.
SocketOwner == \A s \in Server : Up(s) => socket = s

\* A failed publication leaves what was there: install.sh has put every file
\* back when it ends, and under Compose, killed or not, a complete release lies
\* under one of the two names.
KeepsRelease ==
    IF compose
    THEN enabled => \E r \in Release : Holding(r) \in {current, previous}
    ELSE Doing("undone") => current = publisher.before

\* Unless a script has been cut short, what is served, what lies on the disk
\* and the program that serves it are of one release once the script has ended.
OneRelease ==
    Doing("idle") /\ ~spent.aborted =>
        \A s \in Server : Up(s) =>
            \A t \in Published : current[t] = srv[s].updates
                              /\ srv[s].installers = srv[s].updates
                              /\ srv[s].binary \in {current["server"]}

\* A client comes to run only what a manifest signed with its own key describes,
\* and only a later version, whatever is swapped, restarted or rebuilt under
\* the same version between its requests.
TrustedInstall ==
    [][client.at # "none" /\ client'.has # client.has =>
        /\ client'.has = client.wants
        /\ client.has # NoRelease =>
              /\ SignedBy[client'.has] = SignedBy[client.has]
              /\ VersionOf[client'.has] > VersionOf[client.has]]_vars

\* A host that has its files and its key gets its server back, however often a
\* server dies or a publication fails.
Intact ==
    /\ Doing("idle") /\ ~spent.aborted /\ enabled
    /\ current["updates"] # NoRelease
    /\ keyFile # "empty" /\ (db # NoKey => keyFile # NoKey)

ServerReturns == Intact ~> (\E s \in Server : Up(s)) \/ ~Intact

=============================================================================
