-------------------------- MODULE DeploymentProofs --------------------------
(***************************************************************************)
(* What holds of the host of the server for every number of servers,       *)
(* releases, keys, publications and failures: the types, that there is one *)
(* key and it fits the database, that the socket belongs to the server     *)
(* that serves, and that a client comes to run only what it may trust;     *)
(* and, under Compose and under systemd, that a failed publication leaves  *)
(* what was there and that what is served after one is one release.        *)
(***************************************************************************)
EXTENDS Deployment, TLAPS

ServerPlace == {"down", "updates_key", "updates", "installers_key", "installers",
                "look_key", "look_db", "link", "read_key", "open", "create",
                "look_socket", "remove_socket", "bind", "listen", "up", "closing"}
ScriptPlace == {"idle", "writing_key", "staging", "clearing", "moving_away", "noting",
                "moving_in", "discarding", "stopping", "watching", "restoring", "undone"}
ClientPlace == {"none", "package", "signature", "artifact", "done"}

Process == [at : ServerPlace, updates : File, installers : File, trusted : File,
            binary : File, key : EncryptionKey \cup {NoKey}]
Script == [at : ScriptPlace, k : Nat, had : SUBSET Part, backup : BOOLEAN,
           before : [Part -> File]]
Account == [publications : Nat, outside : Nat, hands : Nat, aborted : BOOLEAN]
Person == [at : ClientPlace, has : File, wants : File]

Files == [Part -> File]

ScriptTypes ==
    /\ compose \in BOOLEAN /\ enabled \in BOOLEAN
    /\ current \in Files /\ previous \in Files /\ staged \in Files
    /\ publisher \in Script
    /\ spent \in Account

ServerTypes ==
    /\ srv \in [Server -> Process]
    /\ socket \in Server \cup {NoServer}

\* Everything but the key and the database, which KeyInv types.
Types == ScriptTypes /\ ServerTypes /\ client \in Person

-----------------------------------------------------------------------------
(* Types *)

LEMMA HoldingType == ASSUME NEW r \in File PROVE Holding(r) \in Files
  BY DEF Holding, Files, File

LEMMA NoneType == None \in Files /\ Idle \in Script
  BY DEF None, Files, File, Idle, Script, ScriptPlace

LEMMA PutType == ASSUME NEW f \in Files, NEW h \in Files, NEW g PROVE Put(f, g, h) \in Files
  BY DEF Put, Files

LEMMA OffType == Off \in Process
  BY DEF Off, Process, ServerPlace, File

LEMMA ScriptMoves ==
    ASSUME NEW x \in Script, NEW w \in ScriptPlace, NEW n \in Nat
    PROVE  /\ [x EXCEPT !.at = w] \in Script
           /\ [x EXCEPT !.at = w, !.backup = TRUE] \in Script
           /\ [x EXCEPT !.k = @ + 1] \in Script
           /\ [x EXCEPT !.at = w, !.k = @ + 1] \in Script
           /\ [x EXCEPT !.at = w, !.k = n] \in Script
  <1>1. [x EXCEPT !.at = w] \in Script /\ [x EXCEPT !.at = w, !.backup = TRUE] \in Script
    BY DEF Script
  <1>2. x.k + 1 \in Nat
    BY DEF Script
  <1>3. \A m \in Nat : [x EXCEPT !.k = m] \in Script /\ [x EXCEPT !.at = w, !.k = m] \in Script
    BY DEF Script
  <1> QED BY <1>1, <1>2, <1>3

LEMMA AccountGrows ==
    ASSUME NEW x \in Account, NEW b \in BOOLEAN
    PROVE  /\ [x EXCEPT !.publications = @ + 1, !.hands = 0] \in Account
           /\ [x EXCEPT !.outside = @ + 1, !.aborted = TRUE] \in Account
           /\ [x EXCEPT !.outside = @ + 1] \in Account
           /\ [x EXCEPT !.hands = @ + 1] \in Account
           /\ [x EXCEPT !.aborted = b] \in Account
  <1>1. x.publications + 1 \in Nat /\ x.outside + 1 \in Nat /\ x.hands + 1 \in Nat /\ 0 \in Nat
    BY DEF Account
  <1>2. \A n \in Nat : /\ [x EXCEPT !.publications = n, !.hands = 0] \in Account
                       /\ [x EXCEPT !.outside = n, !.aborted = TRUE] \in Account
                       /\ [x EXCEPT !.outside = n] \in Account
                       /\ [x EXCEPT !.hands = n] \in Account
    BY DEF Account
  <1>3. [x EXCEPT !.aborted = b] \in Account
    BY DEF Account
  <1> QED BY <1>1, <1>2, <1>3

LEMMA InitTypes == Init => Types
  <1> SUFFICES ASSUME Init PROVE Types
    OBVIOUS
  <1>1. current \in Files /\ previous \in Files /\ staged \in Files /\ publisher \in Script
    BY HoldingType, NoneType, ReleaseAssumption DEF Init, File
  <1>2. compose \in BOOLEAN /\ enabled \in BOOLEAN /\ spent \in Account
    BY DEF Init, Account
  <1>3. ServerTypes
    BY OffType DEF Init, ServerTypes
  <1>4. client \in Person
    BY DEF Init, NoClient, Person, ClientPlace, File
  <1> QED
    BY <1>1, <1>2, <1>3, <1>4 DEF Types, ScriptTypes

\* The script.
LEMMA PublishTypes == Types /\ Publish => ScriptTypes' /\ ServerTypes' /\ client' \in Person
  <1> SUFFICES ASSUME Types, Publish PROVE ScriptTypes' /\ ServerTypes' /\ client' \in Person
    OBVIOUS
  <1> USE NoneType DEF Types, ScriptTypes, ScriptPlace
  <1>a. UNCHANGED <<servers, client>>
    BY DEF Publish
  <1>b. ServerTypes' /\ client' \in Person
    BY <1>a DEF ServerTypes, servers
  <1>1. CASE Begin
    <2>1. Recovered \in Files
      BY DEF Recovered
    <2>2. publisher' \in Script
      BY <1>1 DEF Begin, Script, Idle
    <2>3. spent' \in Account
      BY <1>1, AccountGrows DEF Begin
    <2> QED
      BY <1>1, <1>b, <2>1, <2>2, <2>3 DEF Begin
  <1>2. CASE WriteKey
    BY <1>2, <1>b DEF WriteKey, publication, Script, Idle
  <1>3. CASE Stage
    <2>1. PICK r \in Release : staged' \in {Holding(r), None}
            /\ publisher' \in {[Idle EXCEPT !.at = "clearing"], Idle}
      BY <1>3 DEF Stage
    <2>2. Holding(r) \in Files
      BY HoldingType DEF File
    <2>3. publisher' \in Script
      BY <2>1 DEF Script, Idle
    <2> QED
      BY <1>3, <1>b, <2>1, <2>2, <2>3 DEF Stage
  <1>4. CASE Clear
    <2> DEFINE there == {t \in Part : current[t] # NoRelease}
    <2>1. publisher' = [publisher EXCEPT !.at = "moving_away", !.k = 1,
                                         !.before = current, !.had = there]
      BY <1>4 DEF Clear
    <2>2. publisher' \in Script
      <3>1. there \in SUBSET Part
        OBVIOUS
      <3> HIDE DEF there
      <3> QED BY <2>1, <3>1 DEF Script, Files
    <2> QED
      BY <1>4, <1>b, <2>2 DEF Clear
  <1>5. CASE MoveAway
    <2>1. Put(previous, Group, current) \in Files /\ Put(current, Group, None) \in Files
      BY PutType
    <2> QED
      BY <1>5, <1>b, <2>1, ScriptMoves DEF MoveAway
  <1>6. CASE NoteBackup
    BY <1>6, <1>b DEF NoteBackup, publication, Script
  <1>7. CASE MoveIn
    <2>1. Put(current, Group, staged) \in Files /\ Put(staged, Group, None) \in Files
      BY PutType
    <2> QED
      BY <1>7, <1>b, <2>1, ScriptMoves DEF MoveIn
  <1>8. CASE Discard
    BY <1>8, <1>b DEF Discard, Script
  <1>9. CASE Restore
    <2>1. Put(current, Group, previous) \in Files /\ Put(previous, Group, None) \in Files
      BY PutType
    <2> QED
      BY <1>9, <1>b, <2>1, ScriptMoves DEF Restore
  <1>10. CASE Fail
    <2>1. publisher' \in Script
      <3>1. publisher' \in {Idle, [publisher EXCEPT !.at = "restoring", !.k = 1]}
        BY <1>10 DEF Fail
      <3>2. [publisher EXCEPT !.at = "restoring", !.k = 1] \in Script
        BY ScriptMoves
      <3> QED BY <3>1, <3>2
    <2>2. spent' \in Account
      <3>1. spent.aborted \in BOOLEAN
        BY DEF Account
      <3>2. \/ spent' = spent
            \/ spent' = [spent EXCEPT !.aborted = @ \/ Doing("noting") \/ Doing("discarding")]
        BY <1>10 DEF Fail
      <3>3. (spent.aborted \/ Doing("noting") \/ Doing("discarding")) \in BOOLEAN
        BY <3>1 DEF Doing
      <3> QED BY <3>2, <3>3 DEF Account
    <2> QED
      BY <1>10, <1>b, <2>1, <2>2 DEF Fail, publication
  <1>11. CASE Kill
    <2>1. spent' \in Account
      BY <1>11, AccountGrows DEF Kill
    <2> QED
      BY <1>11, <1>b, <2>1 DEF Kill
  <1> QED
    BY <1>1, <1>2, <1>3, <1>4, <1>5, <1>6, <1>7, <1>8, <1>9, <1>10, <1>11
    DEF Publish, PublicationSteps

LEMMA MoveType ==
    ASSUME ServerTypes, NEW s \in Server, NEW w \in ServerPlace, Move(s, w)
    PROVE  srv' \in [Server -> Process]
  <1>1. [srv[s] EXCEPT !.at = w] \in Process
    BY DEF ServerTypes, Process
  <1>2. srv' = [srv EXCEPT ![s] = [srv[s] EXCEPT !.at = w]]
    BY DEF Move
  <1> QED BY <1>1, <1>2 DEF ServerTypes

LEMMA GoneType ==
    ASSUME ServerTypes, NEW s \in Server, Gone(s)
    PROVE  ServerTypes'
  BY OffType DEF Gone, ServerTypes

LEMMA ExecType ==
    ASSUME ScriptTypes, ServerTypes, NEW s \in Server, Exec(s)
    PROVE  ServerTypes'
  <1>1. [Off EXCEPT !.at = "updates_key", !.binary = current["server"]] \in Process
    BY DEF Off, Process, ServerPlace, ScriptTypes, Files, Part, File
  <1> QED BY <1>1 DEF Exec, ServerTypes

LEMMA InterruptType ==
    ASSUME ServerTypes, NEW s \in Server, Interrupt(s)
    PROVE  ServerTypes'
  <1>1. CASE Move(s, "closing") /\ RestStays
    BY <1>1, MoveType DEF RestStays, ServerTypes, ServerPlace
  <1>2. CASE Refuse(s)
    BY <1>2, GoneType DEF Refuse
  <1> QED BY <1>1, <1>2 DEF Interrupt

LEMMA StartStepType ==
    ASSUME ScriptTypes, ServerTypes, NEW s \in Server, StartStep(s)
    PROVE  ServerTypes'
  <1>a. ASSUME NEW w \in ServerPlace, Move(s, w), RestStays PROVE ServerTypes'
    BY <1>a, MoveType DEF RestStays, ServerTypes
  <1>b. ASSUME Refuse(s) PROVE ServerTypes'
    BY <1>b, GoneType DEF Refuse
  <1>c. /\ current["key"] \in File /\ current["updates"] \in File
        /\ current["installers"] \in File /\ NoRelease \in File
    BY DEF ScriptTypes, Files, Part, File
  <1>d. ASSUME NEW w \in ServerPlace, NEW r \in File, NEW q \in File
        PROVE  /\ [srv[s] EXCEPT !.at = w, !.trusted = r] \in Process
               /\ [srv[s] EXCEPT !.at = w, !.updates = r] \in Process
               /\ [srv[s] EXCEPT !.at = w, !.installers = r, !.trusted = q] \in Process
    BY DEF ServerTypes, Process
  <1>k. ASSUME NEW w \in ServerPlace, NEW k \in EncryptionKey
        PROVE  [srv[s] EXCEPT !.at = w, !.key = k] \in Process
    BY DEF ServerTypes, Process
  <1>e. ASSUME NEW x \in Process, srv' = [srv EXCEPT ![s] = x], RestStays PROVE ServerTypes'
    BY <1>e DEF ServerTypes, RestStays
  <1> USE DEF ServerPlace
  <1>1. CASE ReadPublicKey(s)
    <2>1. PICK w \in {"updates", "installers"} :
            Refuse(s) \/ /\ srv' = [srv EXCEPT ![s].at = w, ![s].trusted = current["key"]]
                         /\ RestStays
      BY <1>1 DEF ReadPublicKey
    <2>2. CASE ~Refuse(s)
      <3>1. srv' = [srv EXCEPT ![s] = [srv[s] EXCEPT !.at = w, !.trusted = current["key"]]]
        BY <2>1, <2>2
      <3> QED BY <1>c, <1>d, <1>e, <2>1, <2>2, <3>1
    <2> QED BY <1>b, <2>2
  <1>2. CASE LoadUpdateCatalog(s)
    <2>1. CASE ~Refuse(s)
      <3>1. srv' = [srv EXCEPT ![s] = [srv[s] EXCEPT !.at = "installers_key",
                                                     !.updates = current["updates"]]]
        BY <1>2, <2>1 DEF LoadUpdateCatalog
      <3>2. RestStays
        BY <1>2, <2>1 DEF LoadUpdateCatalog
      <3> QED BY <1>c, <1>d, <1>e, <3>1, <3>2
    <2> QED BY <1>b, <2>1
  <1>3. CASE LoadInstallerCatalog(s)
    <2>1. CASE ~Refuse(s)
      <3>1. PICK w \in {"look_key", "read_key"} :
              srv' = [srv EXCEPT ![s] = [srv[s] EXCEPT !.at = w,
                        !.installers = current["installers"], !.trusted = NoRelease]]
        BY <1>3, <2>1 DEF LoadInstallerCatalog
      <3>2. RestStays
        BY <1>3, <2>1 DEF LoadInstallerCatalog
      <3> QED BY <1>c, <1>d, <1>e, <3>1, <3>2
    <2> QED BY <1>b, <2>1
  <1>4. CASE LookForKey(s)
    BY <1>4, <1>a DEF LookForKey
  <1>5. CASE LookForDatabase(s)
    BY <1>5, <1>a, <1>b DEF LookForDatabase
  <1>6. CASE LinkKey(s)
    BY <1>6, MoveType DEF LinkKey, ServerTypes
  <1>7. CASE ReadKey(s)
    <2>1. CASE ~Refuse(s)
      <3>1. srv' = [srv EXCEPT ![s] = [srv[s] EXCEPT !.at = "open", !.key = keyFile]]
        BY <1>7, <2>1 DEF ReadKey
      <3>2. RestStays /\ keyFile \in EncryptionKey
        BY <1>7, <2>1 DEF ReadKey
      <3> QED BY <1>k, <1>e, <3>1, <3>2
    <2> QED BY <1>b, <2>1
  <1>8. CASE OpenDatabase(s)
    <2>1. CASE Move(s, "create") /\ socket' = socket
      BY <2>1, MoveType DEF ServerTypes
    <2> QED BY <1>8, <1>a, <1>b, <2>1 DEF OpenDatabase
  <1>9. CASE CreateTables(s)
    <2>1. CASE Move(s, "look_socket") /\ socket' = socket
      BY <2>1, MoveType DEF ServerTypes
    <2> QED BY <1>9, <1>b, <2>1 DEF CreateTables
  <1>10. CASE LookForSocket(s)
    BY <1>10, <1>a, <1>b DEF LookForSocket
  <1>11. CASE RemoveSocket(s)
    <2>1. CASE Move(s, "bind") /\ socket' = NoServer
      BY <2>1, MoveType DEF ServerTypes
    <2> QED BY <1>11, <1>b, <2>1 DEF RemoveSocket
  <1>12. CASE Bind(s)
    <2>1. CASE Move(s, "listen") /\ socket' = s
      BY <2>1, MoveType DEF ServerTypes
    <2> QED BY <1>12, <1>b, <2>1 DEF Bind
  <1>13. CASE Listen(s)
    BY <1>13, <1>a DEF Listen
  <1>14. CASE Close(s)
    BY <1>14, OffType DEF Close, ServerTypes
  <1> QED
    BY <1>1, <1>2, <1>3, <1>4, <1>5, <1>6, <1>7, <1>8, <1>9, <1>10, <1>11, <1>12,
       <1>13, <1>14 DEF StartStep

-----------------------------------------------------------------------------

LEMMA ClientType ==
    ASSUME Types, Come \/ Fetch
    PROVE  client' \in Person
  <1> USE DEF Types, Person, ClientPlace
  <1>1. ASSUME NEW r \in File, Has(r) PROVE client' \in Person
    BY <1>1 DEF Has, File
  <1>2. ASSUME NEW r \in File, NEW w \in ClientPlace, Expect(w, r) PROVE client' \in Person
    BY <1>2 DEF Expect
  <1>3. client.has \in File /\ client.wants \in File
    OBVIOUS
  <1>4. \A s \in Server : srv[s].updates \in File /\ srv[s].installers \in File
    BY DEF ServerTypes, Process
  <1>5. CASE Come
    <2>1. PICK s \in Server : GetScript(s) \/ GetManifest(s)
      BY <1>5 DEF Come
    <2>2. CASE GetScript(s)
      BY <1>2, <1>4, <2>2 DEF GetScript
    <2>3. CASE GetManifest(s)
      BY <1>4, <2>3, ReleaseAssumption DEF GetManifest, File
    <2> QED BY <2>1, <2>2, <2>3
  <1>6. ASSUME NEW s \in Server, GetPackage(s) \/ GetSignature(s) \/ Download(s)
        PROVE client' \in Person
    BY <1>1, <1>2, <1>3, <1>6 DEF GetPackage, GetSignature, Download, GiveUp
  <1>7. CASE Unreachable
    BY <1>1, <1>3, <1>7 DEF Unreachable, GiveUp
  <1> QED BY <1>5, <1>6, <1>7 DEF Fetch

LEMMA TypesStep == Types /\ [Next]_vars => Types'
  <1> SUFFICES ASSUME Types, [Next]_vars PROVE Types'
    OBVIOUS
  <1> USE DEF Types
  <1>h. ASSUME UNCHANGED host PROVE ScriptTypes'
    BY <1>h DEF ScriptTypes, host, publication
  <1>1. CASE Publish
    BY <1>1, PublishTypes
  <1>2. ASSUME NEW s \in Server, Serve(s) PROVE Types'
    BY <1>2, <1>h, StartStepType DEF Serve
  <1>3. ASSUME NEW s \in Server, Crash(s) PROVE Types'
    <2>1. spent' \in Account
      BY <1>3, AccountGrows DEF Crash, ScriptTypes
    <2> QED BY <1>3, <2>1, GoneType DEF Crash, ScriptTypes, publication
  <1>4. ASSUME NEW s \in Server, StartByHand(s) PROVE Types'
    <2>1. spent' \in Account
      BY <1>4, AccountGrows DEF StartByHand, ScriptTypes
    <2> QED BY <1>4, <2>1, ExecType DEF StartByHand, ScriptTypes, publication
  <1>5. ASSUME NEW s \in Server, StopByHand(s) PROVE Types'
    BY <1>5, <1>h, InterruptType DEF StopByHand
  <1>6. CASE Restart
    BY <1>6, <1>h, ExecType, ServerAssumption DEF Restart
  <1>7. CASE StopUnit
    BY <1>7, <1>h, InterruptType, ServerAssumption DEF StopUnit
  <1>8. CASE StartUnit
    <2>1. ServerTypes'
      BY <1>8, ExecType, ServerAssumption DEF StartUnit, servers, ServerTypes
    <2>2. publisher' \in Script
      BY <1>8, ScriptMoves, NoneType DEF StartUnit, ScriptTypes, ScriptPlace
    <2>3. enabled' \in BOOLEAN
      BY <1>8 DEF StartUnit, ScriptTypes, Doing
    <2> QED BY <1>8, <2>1, <2>2, <2>3, NoneType DEF StartUnit, ScriptTypes
  <1>9. CASE Watch
    <2>1. spent' \in Account
      BY <1>9, AccountGrows DEF Watch, Finish, ScriptTypes
    <2> QED BY <1>9, <2>1, NoneType DEF Watch, Finish, ScriptTypes, servers, ServerTypes
  <1>10. CASE LoseKey
    <2>1. spent' \in Account
      BY <1>10, AccountGrows DEF LoseKey, ScriptTypes
    <2> QED BY <1>10, <2>1 DEF LoseKey, ScriptTypes, publication, servers, ServerTypes
  <1>11. CASE Come
    <2>1. spent' \in Account
      BY <1>11, AccountGrows DEF Come, ScriptTypes
    <2> QED BY <1>11, <2>1, ClientType DEF Come, ScriptTypes, publication, servers, ServerTypes
  <1>12. CASE Fetch
    BY <1>12, <1>h, ClientType DEF Fetch, servers, ServerTypes
  <1>13. CASE UNCHANGED vars
    BY <1>13, <1>h DEF vars, host, servers, ServerTypes
  <1> QED
    BY <1>1, <1>2, <1>3, <1>4, <1>5, <1>6, <1>7, <1>8, <1>9, <1>10, <1>11, <1>12, <1>13
    DEF Next

\* Every field of every variable, but the key and the database, has a value of
\* its kind.
THEOREM TypesCorrect == Spec => []Types
  <1> QED BY InitTypes, TypesStep, PTL DEF Spec

-----------------------------------------------------------------------------
(* The socket of the server that serves                                     *)
(*                                                                         *)
(* Whoever lives owns the socket; a socket that is about to be removed is a *)
(* dead one, and one server at a time is about to remove it; and without    *)
(* Compose there is one server.                                             *)

SocketInv ==
    /\ \A s \in Server : Alive(s) => socket = s
    /\ \A s \in Server : At(s, "remove_socket") => socket \in Server /\ ~Alive(socket)
    /\ \A s, t \in Server : At(s, "remove_socket") /\ At(t, "remove_socket") => s = t
    /\ ~compose => \A s \in Server \ {Unit} : At(s, "down")

OnlyMoves(s) == \A t \in Server \ {s} : srv'[t].at = srv[t].at

LEMMA MoveMoves ==
    ASSUME ServerTypes, NEW s \in Server, NEW w, Move(s, w)
    PROVE  OnlyMoves(s) /\ srv'[s].at = w
  BY DEF Move, ServerTypes, OnlyMoves, Process

LEMMA GoneMoves ==
    ASSUME ServerTypes, NEW s \in Server, Gone(s)
    PROVE  OnlyMoves(s) /\ srv'[s].at = "down" /\ socket' = IF compose THEN socket ELSE NoServer
  BY DEF Gone, ServerTypes, OnlyMoves, Off

\* A server that goes on without touching the socket, alive before and after or
\* neither.
LEMMA QuietKeepsSocket ==
    ASSUME SocketInv, NEW s \in Server, ~At(s, "down") \/ s = Unit \/ compose,
           compose' = compose, socket' = socket, OnlyMoves(s),
           \/ srv'[s].at \notin {"listen", "up", "closing", "remove_socket"}
           \/ Alive(s) /\ srv'[s].at \in {"listen", "up", "closing"}
    PROVE  SocketInv'
  BY DEF SocketInv, OnlyMoves, Alive, At

LEMMA GoneKeepsSocket ==
    ASSUME ServerTypes, SocketInv, NEW s \in Server, ~At(s, "down"),
           compose' = compose, Gone(s)
    PROVE  SocketInv'
  <1>1. /\ OnlyMoves(s) /\ srv'[s].at = "down"
        /\ socket' = IF compose THEN socket ELSE NoServer
    BY GoneMoves
  <1>2. CASE compose
    BY <1>1, <1>2, QuietKeepsSocket
  <1>3. CASE ~compose
    <2>1. \A t \in Server : srv'[t].at = "down"
      BY <1>1, <1>3 DEF SocketInv, OnlyMoves, At
    <2> QED BY <2>1 DEF SocketInv, Alive, At
  <1> QED BY <1>2, <1>3

LEMMA InterruptKeepsSocket ==
    ASSUME ServerTypes, SocketInv, NEW s \in Server, compose' = compose, Interrupt(s)
    PROVE  SocketInv'
  <1>1. CASE srv[s].at \in {"listen", "up"} /\ Move(s, "closing") /\ RestStays
    <2>1. OnlyMoves(s) /\ srv'[s].at = "closing"
      BY <1>1, MoveMoves
    <2>2. Alive(s) /\ ~At(s, "down") /\ socket' = socket
      BY <1>1 DEF Alive, At, RestStays
    <2> QED BY <2>1, <2>2, QuietKeepsSocket
  <1>2. CASE Starting(s) /\ Refuse(s)
    BY <1>2, GoneKeepsSocket DEF Starting, Refuse, At
  <1> QED BY <1>1, <1>2 DEF Interrupt

LEMMA ExecKeepsSocket ==
    ASSUME ServerTypes, SocketInv, NEW s \in Server, s = Unit \/ compose,
           compose' = compose, Exec(s)
    PROVE  SocketInv'
  <1>1. OnlyMoves(s) /\ srv'[s].at = "updates_key" /\ socket' = socket
    BY DEF Exec, OnlyMoves, ServerTypes, Off
  <1> QED BY <1>1, QuietKeepsSocket

LEMMA StartStepKeepsSocket ==
    ASSUME Racing = FALSE, ServerTypes, SocketInv, NEW s \in Server,
           compose' = compose, StartStep(s)
    PROVE  SocketInv'
  <1>a. ASSUME ~At(s, "down"), ~Alive(s), socket' = socket,
               NEW w \in ServerPlace \ {"listen", "up", "closing", "remove_socket"}, Move(s, w)
        PROVE  SocketInv'
    BY <1>a, MoveMoves, QuietKeepsSocket
  <1>b. ASSUME ~At(s, "down"), Refuse(s) PROVE SocketInv'
    BY <1>b, GoneKeepsSocket DEF Refuse
  <1> USE DEF ServerPlace, At, Alive
  <1>1. CASE ReadPublicKey(s)
    <2>1. ~At(s, "down") /\ ~Alive(s)
      BY <1>1 DEF ReadPublicKey
    <2>2. PICK w \in {"updates", "installers"} :
            Refuse(s) \/ /\ srv' = [srv EXCEPT ![s].at = w, ![s].trusted = current["key"]]
                         /\ RestStays
      BY <1>1 DEF ReadPublicKey
    <2>3. CASE ~Refuse(s)
      <3>1. OnlyMoves(s) /\ srv'[s].at = w /\ socket' = socket
        BY <2>2, <2>3 DEF OnlyMoves, ServerTypes, Process, RestStays
      <3> QED BY <2>1, <3>1, QuietKeepsSocket
    <2> QED BY <1>b, <2>1, <2>3
  <1>2. CASE LoadUpdateCatalog(s)
    <2>1. ~At(s, "down") /\ ~Alive(s)
      BY <1>2 DEF LoadUpdateCatalog
    <2>2. CASE ~Refuse(s)
      <3>1. OnlyMoves(s) /\ srv'[s].at = "installers_key" /\ socket' = socket
        BY <1>2, <2>2 DEF LoadUpdateCatalog, OnlyMoves, ServerTypes, Process, RestStays
      <3> QED BY <2>1, <3>1, QuietKeepsSocket
    <2> QED BY <1>b, <2>1, <2>2
  <1>3. CASE LoadInstallerCatalog(s)
    <2>1. ~At(s, "down") /\ ~Alive(s)
      BY <1>3 DEF LoadInstallerCatalog
    <2>2. CASE ~Refuse(s)
      <3>1. OnlyMoves(s) /\ srv'[s].at \in {"look_key", "read_key"} /\ socket' = socket
        BY <1>3, <2>2 DEF LoadInstallerCatalog, OnlyMoves, ServerTypes, Process, RestStays
      <3> QED BY <2>1, <3>1, QuietKeepsSocket
    <2> QED BY <1>b, <2>1, <2>2
  <1>4. CASE LookForKey(s)
    BY <1>4, <1>a DEF LookForKey, RestStays
  <1>5. CASE LookForDatabase(s)
    BY <1>5, <1>a, <1>b DEF LookForDatabase, RestStays
  <1>6. CASE LinkKey(s)
    BY <1>6, <1>a DEF LinkKey
  <1>7. CASE ReadKey(s)
    <2>1. ~At(s, "down") /\ ~Alive(s)
      BY <1>7 DEF ReadKey
    <2>2. CASE ~Refuse(s)
      <3>1. OnlyMoves(s) /\ srv'[s].at = "open" /\ socket' = socket
        BY <1>7, <2>2 DEF ReadKey, OnlyMoves, ServerTypes, Process, RestStays
      <3> QED BY <2>1, <3>1, QuietKeepsSocket
    <2> QED BY <1>b, <2>1, <2>2
  <1>8. CASE OpenDatabase(s)
    BY <1>8, <1>a, <1>b DEF OpenDatabase, RestStays
  <1>9. CASE CreateTables(s)
    BY <1>9, <1>a, <1>b DEF CreateTables
  <1>10. CASE LookForSocket(s)
    <2>1. CASE Refuse(s) \/ socket = NoServer
      BY <1>10, <1>a, <1>b, <2>1 DEF LookForSocket, RestStays
    <2>2. CASE ~Refuse(s) /\ socket # NoServer
      <3>1. /\ ~Alive(socket) /\ socket \in Server /\ socket' = socket
            /\ \A t \in Server : ~At(t, "remove_socket")
            /\ Move(s, "remove_socket") /\ ~Alive(s) /\ ~At(s, "down")
        BY <1>10, <2>2 DEF LookForSocket, RestStays, ServerTypes
      <3>2. OnlyMoves(s) /\ srv'[s].at = "remove_socket"
        BY <3>1, MoveMoves
      <3> QED BY <3>1, <3>2 DEF SocketInv, OnlyMoves
    <2> QED BY <2>1, <2>2
  <1>11. CASE RemoveSocket(s)
    <2>1. /\ \A t \in Server : ~Alive(t)
          /\ \A t \in Server \ {s} : ~At(t, "remove_socket")
          /\ socket # NoServer /\ ~At(s, "down")
      BY <1>11, ServerAssumption DEF RemoveSocket, SocketInv
    <2>2. OnlyMoves(s) /\ srv'[s].at = "bind"
      BY <1>11, <2>1, MoveMoves DEF RemoveSocket
    <2> QED BY <2>1, <2>2 DEF SocketInv, OnlyMoves
  <1>12. CASE Bind(s)
    <2>1. CASE socket # NoServer
      BY <1>12, <1>b, <2>1 DEF Bind
    <2>2. CASE socket = NoServer
      <3>1. \A t \in Server : ~Alive(t) /\ ~At(t, "remove_socket")
        BY <2>2, ServerAssumption DEF SocketInv
      <3>2. OnlyMoves(s) /\ srv'[s].at = "listen" /\ socket' = s /\ ~At(s, "down")
        BY <1>12, <2>2, MoveMoves DEF Bind
      <3> QED BY <3>1, <3>2 DEF SocketInv, OnlyMoves
    <2> QED BY <2>1, <2>2
  <1>13. CASE Listen(s)
    <2>1. Alive(s) /\ ~At(s, "down") /\ socket' = socket /\ Move(s, "up")
      BY <1>13 DEF Listen, RestStays
    <2> QED BY <2>1, MoveMoves, QuietKeepsSocket
  <1>14. CASE Close(s)
    <2>1. /\ \A t \in Server \ {s} : ~Alive(t)
          /\ \A t \in Server : ~At(t, "remove_socket")
          /\ ~At(s, "down")
      BY <1>14 DEF Close, SocketInv
    <2>2. OnlyMoves(s) /\ srv'[s].at = "down"
      BY <1>14 DEF Close, OnlyMoves, ServerTypes, Off
    <2> QED BY <2>1, <2>2 DEF SocketInv, OnlyMoves
  <1> QED
    BY <1>1, <1>2, <1>3, <1>4, <1>5, <1>6, <1>7, <1>8, <1>9, <1>10, <1>11, <1>12,
       <1>13, <1>14 DEF StartStep

\* Two servers never find the same dead socket at the same moment.
NoRace == Racing = FALSE

LEMMA SocketStep ==
    ASSUME NoRace, Types, SocketInv, [Next]_vars
    PROVE  SocketInv'
  <1> USE DEF Types, NoRace
  <1>a. ASSUME UNCHANGED servers, compose' = compose PROVE SocketInv'
    BY <1>a DEF servers, SocketInv, At, Alive
  <1>1. CASE Publish
    BY <1>1, <1>a DEF Publish, PublicationSteps, Begin, WriteKey, Stage, Clear, MoveAway,
       NoteBackup, MoveIn, Discard, Restore, Fail, Kill
  <1>2. ASSUME NEW s \in Server, Serve(s) PROVE SocketInv'
    BY <1>2, StartStepKeepsSocket DEF Serve, host
  <1>3. ASSUME NEW s \in Server, Crash(s) PROVE SocketInv'
    BY <1>3, GoneKeepsSocket DEF Crash
  <1>4. ASSUME NEW s \in Server, StartByHand(s) PROVE SocketInv'
    BY <1>4, ExecKeepsSocket DEF StartByHand
  <1>5. ASSUME NEW s \in Server, StopByHand(s) PROVE SocketInv'
    BY <1>5, InterruptKeepsSocket DEF StopByHand, host
  <1>6. CASE Restart
    BY <1>6, ExecKeepsSocket, ServerAssumption DEF Restart, host
  <1>7. CASE StopUnit
    BY <1>7, InterruptKeepsSocket, ServerAssumption DEF StopUnit, host
  <1>8. CASE StartUnit
    BY <1>8, <1>a, ExecKeepsSocket, ServerAssumption DEF StartUnit
  <1>9. CASE Watch \/ LoseKey \/ Come \/ Fetch \/ UNCHANGED vars
    BY <1>9, <1>a DEF Watch, Finish, LoseKey, Come, Fetch, host, vars
  <1> QED
    BY <1>1, <1>2, <1>3, <1>4, <1>5, <1>6, <1>7, <1>8, <1>9 DEF Next

LEMMA SocketInit == Init => SocketInv
  BY DEF Init, SocketInv, Alive, At, Off

\* The nightly cleanup reaches the server that serves (SocketOwner), as long as
\* no two servers find the same dead socket at once.
THEOREM SocketIsTheServers == ASSUME NoRace PROVE Spec => []SocketOwner
  <1>1. SocketInv => SocketOwner
    BY DEF SocketInv, SocketOwner, Up, At, Alive
  <1>2. Init => Types /\ SocketInv
    BY InitTypes, SocketInit
  <1>3. Types /\ SocketInv /\ [Next]_vars => Types' /\ SocketInv'
    BY TypesStep, SocketStep
  <1> QED BY <1>1, <1>2, <1>3, PTL DEF Spec

-----------------------------------------------------------------------------
(* One key, which fits the database                                         *)
(*                                                                         *)
(* A server that is about to create the database has the key that lies      *)
(* there; a key is given a name only while there is no database.            *)

SomeKey == EncryptionKey \cup {NoKey, "empty"}

KeyInv ==
    /\ keyFile \in SomeKey /\ db \in SomeKey
    /\ KeyFitsDatabase
    /\ \A s \in Server : srv[s].at \in {"open", "create"} =>
            srv[s].key = keyFile /\ keyFile \in EncryptionKey
    /\ \A s \in Server : At(s, "link") /\ keyFile = NoKey => db = NoKey
    /\ Doing("writing_key") => keyFile = "empty" /\ db = NoKey

LEMMA FreshKeyIsAKey ==
    ASSUME keyFile \notin EncryptionKey, db \notin EncryptionKey
    PROVE  FreshKey \in EncryptionKey
  BY EncryptionKeyAssumption DEF FreshKey

\* A server that moves anywhere but where it works with the key.
LEMMA KeyUntouched ==
    ASSUME KeyInv, NEW s \in Server, hostData' = hostData, publisher' = publisher,
           \A t \in Server \ {s} : srv'[t] = srv[t],
           srv'[s].at \notin {"open", "create", "link"}
    PROVE  KeyInv'
  BY DEF KeyInv, KeyFitsDatabase, At, hostData, Doing

LEMMA OthersStay ==
    ASSUME ServerTypes, NEW s \in Server
    PROVE  /\ \A w : Move(s, w) => /\ \A t \in Server \ {s} : srv'[t] = srv[t]
                                   /\ srv'[s].at = w /\ srv'[s].key = srv[s].key
           /\ Gone(s) => (\A t \in Server \ {s} : srv'[t] = srv[t]) /\ srv'[s].at = "down"
           /\ Exec(s) => (\A t \in Server \ {s} : srv'[t] = srv[t]) /\ srv'[s].at = "updates_key"
  <1>1. ASSUME NEW w, Move(s, w)
        PROVE  /\ \A t \in Server \ {s} : srv'[t] = srv[t]
               /\ srv'[s].at = w /\ srv'[s].key = srv[s].key
    BY <1>1 DEF Move, ServerTypes, Process
  <1>2. ASSUME Gone(s)
        PROVE  (\A t \in Server \ {s} : srv'[t] = srv[t]) /\ srv'[s].at = "down"
    BY <1>2 DEF Gone, ServerTypes, Off
  <1>3. ASSUME Exec(s)
        PROVE  (\A t \in Server \ {s} : srv'[t] = srv[t]) /\ srv'[s].at = "updates_key"
    BY <1>3 DEF Exec, ServerTypes, Off
  <1> QED BY <1>1, <1>2, <1>3

LEMMA StartStepKeepsKey ==
    ASSUME ServerTypes, KeyInv, NEW s \in Server, publisher' = publisher, StartStep(s)
    PROVE  KeyInv'
  <1>a. ASSUME hostData' = hostData, NEW w, w \notin {"open", "create", "link"}, Move(s, w)
        PROVE  KeyInv'
    BY <1>a, OthersStay, KeyUntouched
  <1>b. ASSUME Refuse(s) PROVE KeyInv'
    BY <1>b, OthersStay, KeyUntouched DEF Refuse
  <1> USE DEF At
  <1>1. CASE ReadPublicKey(s)
    <2>1. CASE ~Refuse(s)
      <3>1. /\ hostData' = hostData /\ (\A t \in Server \ {s} : srv'[t] = srv[t])
            /\ srv'[s].at \in {"updates", "installers"}
        BY <1>1, <2>1 DEF ReadPublicKey, ServerTypes, Process, RestStays
      <3> QED BY <3>1, KeyUntouched
    <2> QED BY <1>b, <2>1
  <1>2. CASE LoadUpdateCatalog(s)
    <2>1. CASE ~Refuse(s)
      <3>1. /\ hostData' = hostData /\ (\A t \in Server \ {s} : srv'[t] = srv[t])
            /\ srv'[s].at = "installers_key"
        BY <1>2, <2>1 DEF LoadUpdateCatalog, ServerTypes, Process, RestStays
      <3> QED BY <3>1, KeyUntouched
    <2> QED BY <1>b, <2>1
  <1>3. CASE LoadInstallerCatalog(s)
    <2>1. CASE ~Refuse(s)
      <3>1. /\ hostData' = hostData /\ (\A t \in Server \ {s} : srv'[t] = srv[t])
            /\ srv'[s].at \in {"look_key", "read_key"}
        BY <1>3, <2>1 DEF LoadInstallerCatalog, ServerTypes, Process, RestStays
      <3> QED BY <3>1, KeyUntouched
    <2> QED BY <1>b, <2>1
  <1>4. CASE LookForKey(s)
    BY <1>4, <1>a DEF LookForKey, RestStays
  <1>5. CASE LookForDatabase(s)
    <2>1. CASE db = NoKey /\ Move(s, "link") /\ hostData' = hostData
      <3>1. (\A t \in Server \ {s} : srv'[t] = srv[t]) /\ srv'[s].at = "link"
        BY <2>1, OthersStay
      <3> QED BY <2>1, <3>1 DEF KeyInv, KeyFitsDatabase, hostData, Doing
    <2> QED BY <1>5, <1>b, <2>1 DEF LookForDatabase, RestStays
  <1>6. CASE LinkKey(s)
    <2>1. (\A t \in Server \ {s} : srv'[t] = srv[t]) /\ srv'[s].at = "read_key" /\ db' = db
      BY <1>6, OthersStay DEF LinkKey
    <2>2. CASE keyFile # NoKey
      <3>1. keyFile' = keyFile
        BY <1>6, <2>2 DEF LinkKey
      <3> QED BY <2>1, <3>1, KeyUntouched DEF hostData
    <2>3. CASE keyFile = NoKey
      <3>1. db = NoKey
        BY <1>6, <2>3 DEF LinkKey, KeyInv
      <3>2. keyFile' \in EncryptionKey
        BY <1>6, <2>3, <3>1, FreshKeyIsAKey, EncryptionKeyAssumption DEF LinkKey
      <3>3. \A t \in Server : srv'[t].at \notin {"open", "create"}
        BY <2>1, <2>3, EncryptionKeyAssumption DEF KeyInv
      <3>4. ~Doing("writing_key")
        BY <2>3, EncryptionKeyAssumption DEF KeyInv
      <3> QED BY <2>1, <3>1, <3>2, <3>3, <3>4, EncryptionKeyAssumption
          DEF KeyInv, KeyFitsDatabase, SomeKey, Doing
    <2> QED BY <2>2, <2>3
  <1>7. CASE ReadKey(s)
    <2>1. CASE ~Refuse(s)
      <3>1. /\ hostData' = hostData /\ (\A t \in Server \ {s} : srv'[t] = srv[t])
            /\ srv'[s].at = "open" /\ srv'[s].key = keyFile /\ keyFile \in EncryptionKey
        BY <1>7, <2>1 DEF ReadKey, ServerTypes, Process, RestStays
      <3> QED BY <3>1 DEF KeyInv, KeyFitsDatabase, hostData, Doing
    <2> QED BY <1>b, <2>1
  <1>8. CASE OpenDatabase(s)
    <2>1. srv[s].key = keyFile /\ keyFile \in EncryptionKey
      BY <1>8 DEF OpenDatabase, KeyInv
    <2>2. CASE db \notin EncryptionKey
      <3>1. db' = "empty" /\ Move(s, "create") /\ keyFile' = keyFile
        BY <1>8, <2>2 DEF OpenDatabase
      <3>2. /\ (\A t \in Server \ {s} : srv'[t] = srv[t])
            /\ srv'[s].at = "create" /\ srv'[s].key = keyFile
        BY <2>1, <3>1, OthersStay
      <3>3. keyFile # "empty" /\ keyFile # NoKey
        BY <2>1, EncryptionKeyAssumption
      <3> QED BY <2>1, <3>1, <3>2, <3>3, EncryptionKeyAssumption
          DEF KeyInv, KeyFitsDatabase, SomeKey, Doing
    <2>3. CASE db \in EncryptionKey
      BY <1>8, <1>a, <1>b, <2>3 DEF OpenDatabase, RestStays
    <2> QED BY <2>2, <2>3
  <1>9. CASE CreateTables(s)
    <2>1. CASE ~Refuse(s)
      <3>1. srv[s].key = keyFile /\ keyFile \in EncryptionKey
        BY <1>9 DEF CreateTables, KeyInv
      <3>2. db' = keyFile /\ keyFile' = keyFile /\ Move(s, "look_socket")
        BY <1>9, <2>1, <3>1 DEF CreateTables
      <3>3. (\A t \in Server \ {s} : srv'[t] = srv[t]) /\ srv'[s].at = "look_socket"
        BY <3>2, OthersStay
      <3>4. keyFile # "empty" /\ keyFile # NoKey
        BY <3>1, EncryptionKeyAssumption
      <3> QED BY <3>1, <3>2, <3>3, <3>4 DEF KeyInv, KeyFitsDatabase, SomeKey, Doing
    <2> QED BY <1>b, <2>1
  <1>10. CASE LookForSocket(s)
    BY <1>10, <1>a, <1>b DEF LookForSocket, RestStays
  <1>11. CASE RemoveSocket(s)
    BY <1>11, <1>a, <1>b DEF RemoveSocket
  <1>12. CASE Bind(s)
    BY <1>12, <1>a, <1>b DEF Bind
  <1>13. CASE Listen(s)
    BY <1>13, <1>a DEF Listen, RestStays
  <1>14. CASE Close(s)
    <2>1. (\A t \in Server \ {s} : srv'[t] = srv[t]) /\ srv'[s].at = "down"
      BY <1>14 DEF Close, ServerTypes, Off
    <2> QED BY <1>14, <2>1, KeyUntouched DEF Close
  <1> QED
    BY <1>1, <1>2, <1>3, <1>4, <1>5, <1>6, <1>7, <1>8, <1>9, <1>10, <1>11, <1>12,
       <1>13, <1>14 DEF StartStep

\* Of the steps of the script two are about the key: one makes the file, one
\* writes it.
LEMMA PublishKeepsKey ==
    ASSUME Types, KeyInv, Publish
    PROVE  KeyInv'
  <1>s. srv' = srv
    BY DEF Publish, servers
  <1>a. ASSUME hostData' = hostData, ~Doing("writing_key")' PROVE KeyInv'
    BY <1>a, <1>s DEF KeyInv, KeyFitsDatabase, hostData, At
  <1>1. CASE Begin
    <2>1. CASE keyFile' = "empty" /\ keyFile = NoKey /\ db = NoKey /\ db' = db
      <3>1. \A t \in Server : srv[t].at \notin {"open", "create"}
        BY <2>1, EncryptionKeyAssumption DEF KeyInv
      <3> QED BY <1>s, <2>1, <3>1, EncryptionKeyAssumption
          DEF KeyInv, KeyFitsDatabase, SomeKey, At
    <2>2. CASE UNCHANGED <<keyFile, db, publisher>>
      BY <1>s, <2>2 DEF KeyInv, KeyFitsDatabase, At, Doing
    <2>3. CASE UNCHANGED <<keyFile, db>> /\ publisher' = [Idle EXCEPT !.at = "staging"]
      BY <1>a, <2>3 DEF hostData, Doing, Idle
    <2> QED BY <1>1, <2>1, <2>2, <2>3 DEF Begin
  <1>2. CASE WriteKey
    <2>1. keyFile = "empty" /\ db = NoKey /\ db' = db /\ keyFile' = FreshKey
      BY <1>2 DEF WriteKey, KeyInv
    <2>2. keyFile' \in EncryptionKey
      BY <2>1, FreshKeyIsAKey, EncryptionKeyAssumption
    <2>3. \A t \in Server : srv[t].at \notin {"open", "create"}
      BY <2>1, EncryptionKeyAssumption DEF KeyInv
    <2>4. ~Doing("writing_key")'
      BY <1>2 DEF WriteKey, Doing, Idle
    <2> QED BY <1>s, <2>1, <2>2, <2>3, <2>4, EncryptionKeyAssumption
        DEF KeyInv, KeyFitsDatabase, SomeKey, At
  <1>3. CASE Stage \/ Kill
    <2>1. hostData' = hostData /\ publisher' \in {[Idle EXCEPT !.at = "clearing"], Idle}
      BY <1>3 DEF Stage, Kill
    <2> QED BY <1>a, <2>1 DEF Doing, Idle
  <1>4. CASE Clear \/ MoveAway \/ NoteBackup \/ MoveIn \/ Discard \/ Restore \/ Fail
    <2>1. hostData' = hostData
      BY <1>4 DEF Clear, MoveAway, NoteBackup, MoveIn, Discard, Restore, Fail
    <2>2. publisher'.at \in {"moving_away", "noting", "moving_in", "discarding", "stopping",
                             "restoring", "undone", "idle"}
      <3>1. publisher \in Script
        BY DEF Types, ScriptTypes
      <3>2. CASE Clear
        BY <3>1, <3>2 DEF Clear, Script
      <3>3. CASE MoveAway \/ NoteBackup \/ MoveIn \/ Discard
        BY <3>1, <3>3 DEF MoveAway, NoteBackup, MoveIn, Discard, Script, Doing
      <3>4. CASE Restore
        BY <3>1, <3>4 DEF Restore, Script, Doing
      <3>5. CASE Fail
        <4>1. publisher' \in {Idle, [publisher EXCEPT !.at = "restoring", !.k = 1]}
          BY <3>5 DEF Fail
        <4>2. [publisher EXCEPT !.at = "restoring", !.k = 1].at = "restoring"
          BY <3>1 DEF Script
        <4>3. Idle.at = "idle"
          BY DEF Idle
        <4> QED BY <4>1, <4>2, <4>3
      <3> QED BY <1>4, <3>2, <3>3, <3>4, <3>5
    <2> QED BY <1>a, <2>1, <2>2 DEF Doing
  <1> QED BY <1>1, <1>2, <1>3, <1>4 DEF Publish, PublicationSteps

LEMMA KeyStep ==
    ASSUME Types, KeyInv, [Next]_vars
    PROVE  KeyInv'
  <1> USE DEF Types
  <1>a. ASSUME UNCHANGED <<hostData, srv>>, Doing("writing_key")' => Doing("writing_key")
        PROVE KeyInv'
    BY <1>a DEF KeyInv, KeyFitsDatabase, hostData, At
  <1>b. ASSUME NEW s \in Server, Gone(s) \/ Exec(s), publisher' = publisher, hostData' = hostData
        PROVE KeyInv'
    BY <1>b, OthersStay, KeyUntouched
  <1>c. ASSUME NEW s \in Server, Interrupt(s), publisher' = publisher PROVE KeyInv'
    <2>1. CASE Move(s, "closing") /\ RestStays
      BY <1>c, <2>1, OthersStay, KeyUntouched DEF RestStays
    <2>2. CASE Refuse(s)
      BY <1>b, <1>c, <2>2 DEF Refuse
    <2> QED BY <1>c, <2>1, <2>2 DEF Interrupt
  <1>1. CASE Publish
    BY <1>1, PublishKeepsKey
  <1>2. ASSUME NEW s \in Server, Serve(s) PROVE KeyInv'
    BY <1>2, StartStepKeepsKey DEF Serve, host
  <1>3. ASSUME NEW s \in Server, Crash(s) PROVE KeyInv'
    BY <1>3, <1>b DEF Crash
  <1>4. ASSUME NEW s \in Server, StartByHand(s) PROVE KeyInv'
    BY <1>4, <1>b DEF StartByHand, Exec, hostData
  <1>5. ASSUME NEW s \in Server, StopByHand(s) PROVE KeyInv'
    BY <1>5, <1>c DEF StopByHand, host
  <1>6. CASE Restart
    BY <1>6, <1>b, ServerAssumption DEF Restart, host, Exec, hostData
  <1>7. CASE StopUnit
    BY <1>7, <1>c, ServerAssumption DEF StopUnit, host
  <1>8. CASE StartUnit
    <2>1. ~Doing("writing_key")'
      BY <1>8 DEF StartUnit, Doing, Idle, ScriptTypes, Script
    <2>2. UNCHANGED hostData
      BY <1>8 DEF StartUnit, Exec, hostData
    <2>3. CASE Exec(Unit)
      <3>1. \A s \in Server : srv'[s] = srv[s] \/ srv'[s].at = "updates_key"
        BY <2>3, OthersStay, ServerAssumption
      <3> QED BY <2>1, <2>2, <3>1 DEF KeyInv, KeyFitsDatabase, hostData, At
    <2>4. CASE UNCHANGED servers
      BY <1>a, <2>1, <2>2, <2>4 DEF servers
    <2> QED BY <1>8, <2>3, <2>4 DEF StartUnit
  <1>9. CASE Watch
    BY <1>9, <1>a DEF Watch, Finish, servers, Doing, Idle
  <1>10. CASE LoseKey
    <2>1. keyFile' = NoKey /\ db' = db /\ srv' = srv /\ publisher' = publisher
      BY <1>10 DEF LoseKey, servers
    <2>2. (\A s \in Server : At(s, "down")) /\ Doing("idle")
      BY <1>10 DEF LoseKey
    <2> QED BY <2>1, <2>2, EncryptionKeyAssumption
        DEF KeyInv, KeyFitsDatabase, SomeKey, At, Doing
  <1>11. CASE Come \/ Fetch \/ UNCHANGED vars
    BY <1>11, <1>a DEF Come, Fetch, host, vars, servers, hostData, Doing
  <1> QED
    BY <1>1, <1>2, <1>3, <1>4, <1>5, <1>6, <1>7, <1>8, <1>9, <1>10, <1>11 DEF Next

LEMMA KeyInit == Init => KeyInv
  BY EncryptionKeyAssumption
  DEF Init, KeyInv, KeyFitsDatabase, SomeKey, At, Off, Doing, Idle

\* However many servers start at once and die half way, the database is sealed
\* with the key that lies beside it.
THEOREM OneKey == Spec => []KeyFitsDatabase
  <1>1. KeyInv => KeyFitsDatabase
    BY DEF KeyInv
  <1>2. Init => Types /\ KeyInv
    BY InitTypes, KeyInit
  <1>3. Types /\ KeyInv /\ [Next]_vars => Types' /\ KeyInv'
    BY TypesStep, KeyStep
  <1> QED BY <1>1, <1>2, <1>3, PTL DEF Spec

-----------------------------------------------------------------------------
(* What a client comes to run: what it has been promised, which it has       *)
(* verified before it asks for the file.                                    *)

ClientInv ==
    /\ client.at \in {"none", "package"} => client.has = NoRelease
    /\ client.at = "artifact" =>
            /\ SignedBy[client.wants] = SignedBy[client.has]
            /\ VersionOf[client.wants] > VersionOf[client.has]

\* What a step does to the client, and what the client may rely on after it.
LEMMA ClientStep ==
    ASSUME Types, ClientInv, [Next]_vars
    PROVE  /\ ClientInv'
           /\ client.at # "none" /\ client'.has # client.has =>
                /\ client'.has = client.wants
                /\ client.has # NoRelease =>
                      /\ SignedBy[client'.has] = SignedBy[client.has]
                      /\ VersionOf[client'.has] > VersionOf[client.has]
  <1> USE DEF Types, Person, ClientInv
  <1>1. CASE client' = client
    BY <1>1
  <1>2. CASE Come
    <2>1. client.at = "none"
      BY <1>2 DEF Come
    <2>2. client'.at \in {"package", "signature"} /\ (client'.at = "package" => client'.has = NoRelease)
      <3>1. PICK s \in Server : GetScript(s) \/ GetManifest(s)
        BY <1>2 DEF Come
      <3>2. CASE GetScript(s)
        BY <2>1, <3>2 DEF GetScript, Expect
      <3>3. CASE GetManifest(s)
        BY <3>3 DEF GetManifest
      <3> QED BY <3>1, <3>2, <3>3
    <2> QED BY <2>1, <2>2
  <1>3. ASSUME NEW s \in Server, GetPackage(s)
        PROVE client'.at = "done" /\ client'.has \in {client.has, client.wants} /\ client.has = NoRelease
    BY <1>3 DEF GetPackage, Has, GiveUp
  <1>4. ASSUME NEW s \in Server, GetSignature(s)
        PROVE client'.has = client.has /\ ClientInv'
    <2>1. CASE Expect("artifact", client.wants)
      <3>1. /\ SignedBy[client.wants] = SignedBy[client.has]
            /\ VersionOf[client.wants] > VersionOf[client.has]
        BY <1>4, <2>1 DEF GetSignature, Expect, GiveUp, Has
      <3>2. client'.at = "artifact" /\ client'.has = client.has /\ client'.wants = client.wants
        BY <2>1 DEF Expect
      <3> QED BY <3>1, <3>2
    <2>2. CASE GiveUp
      BY <2>2 DEF GiveUp, Has
    <2> QED BY <1>4, <2>1, <2>2 DEF GetSignature
  <1>5. ASSUME NEW s \in Server, Download(s)
        PROVE client.at = "artifact" /\ client'.at = "done" /\ client'.has \in {client.has, client.wants}
    BY <1>5 DEF Download, GiveUp, Has
  <1>6. CASE Unreachable
    BY <1>6 DEF Unreachable, GiveUp, Has
  <1>7. CASE Fetch
    BY <1>3, <1>4, <1>5, <1>6, <1>7 DEF Fetch
  <1>8. CASE ~Come /\ ~Fetch
    BY <1>1, <1>8 DEF Next, Publish, Serve, Crash, StartByHand, StopByHand, Restart, StopUnit,
       StartUnit, Watch, Finish, LoseKey, vars
  <1> QED BY <1>2, <1>7, <1>8

\* A client comes to run only what a manifest with its own key describes, and
\* only a later version.
THEOREM OnlyTrustedReleases == Spec => TrustedInstall
  <1>1. Init => Types /\ ClientInv
    BY InitTypes DEF Init, ClientInv, NoClient
  <1>2. Types /\ ClientInv /\ [Next]_vars => Types' /\ ClientInv'
    BY TypesStep, ClientStep
  <1>3. Types /\ ClientInv /\ [Next]_vars =>
        [client.at # "none" /\ client'.has # client.has =>
            /\ client'.has = client.wants
            /\ client.has # NoRelease =>
                  /\ SignedBy[client'.has] = SignedBy[client.has]
                  /\ VersionOf[client'.has] > VersionOf[client.has]]_vars
    BY ClientStep
  <1> QED BY <1>1, <1>2, <1>3, PTL DEF Spec, TrustedInstall

-----------------------------------------------------------------------------
(* Publications                                                            *)

\* What Compose has under a name: a complete release or nothing.
Directories == {"updates", "installers", "key"}
Complete(r) == [t \in Part |-> IF t \in Directories THEN r ELSE NoRelease]
Full == {Complete(r) : r \in Release}

\* Under Compose everything that is served is swapped at once.
LEMMA OneGroup ==
    ASSUME compose = TRUE
    PROVE  /\ Order = <<Directories>> /\ Len(Order) = 1 /\ Order[1] = Directories
           /\ Published = Directories
           /\ \A r : Holding(r) = Complete(r)
  <1>1. Order = <<Directories>>
    BY DEF Order, Directories
  <1>2. Len(Order) = 1 /\ Order[1] = Directories /\ DOMAIN Order = {1}
    BY <1>1
  <1>3. Published = Directories
    BY <1>2 DEF Published
  <1> QED BY <1>1, <1>2, <1>3 DEF Holding, Complete

\* Under systemd the four parts are swapped one after the other.
LEMMA FourGroups ==
    ASSUME compose = FALSE
    PROVE  /\ Len(Order) = 4 /\ DOMAIN Order = 1..4
           /\ Order[1] = {"updates"} /\ Order[2] = {"installers"}
           /\ Order[3] = {"key"} /\ Order[4] = {"server"}
           /\ Published = Part
  <1>1. Order = <<{"updates"}, {"installers"}, {"key"}, {"server"}>>
    BY DEF Order
  <1>2. /\ Len(Order) = 4 /\ DOMAIN Order = 1..4
        /\ Order[1] = {"updates"} /\ Order[2] = {"installers"}
        /\ Order[3] = {"key"} /\ Order[4] = {"server"}
    BY <1>1
  <1>3. Published = Part
    <2>1. Published = UNION {Order[k] : k \in 1..4}
      BY <1>2 DEF Published
    <2>2. 1 \in 1..4 /\ 2 \in 1..4 /\ 3 \in 1..4 /\ 4 \in 1..4
      OBVIOUS
    <2>3. \A k \in 1..4 : k \in {1, 2, 3, 4}
      OBVIOUS
    <2> QED BY <1>2, <2>1, <2>2, <2>3 DEF Part
  <1> QED BY <1>2, <1>3

\* A name holds a complete release or nothing, and a swap hands over all of it.
LEMMA FullFacts ==
    /\ None \notin Full
    /\ \A f \in Full \cup {None} : There(f, Directories) <=> f \in Full
    /\ \A f, h \in Full \cup {None} : Put(f, Directories, h) = h
  <1>1. \A f \in Full : f["updates"] \in Release /\ f["key"] \in Release /\ f["installers"] \in Release
                        /\ f["server"] = NoRelease /\ f = [t \in Part |-> f[t]]
    BY DEF Full, Complete, Part, Directories
  <1>2. \A t \in Part : None[t] = NoRelease
    BY DEF None
  <1>3. None = [t \in Part |-> None[t]] /\ None["updates"] = NoRelease /\ None["server"] = NoRelease
    BY DEF None, Part
  <1>4. None \notin Full
    BY <1>1, <1>3, ReleaseAssumption
  <1>5. \A f \in Full \cup {None} : There(f, Directories) <=> f \in Full
    BY <1>1, <1>3, <1>4, ReleaseAssumption DEF There, Directories
  <1>6. ASSUME NEW f \in Full \cup {None}, NEW h \in Full \cup {None}
        PROVE  Put(f, Directories, h) = h
    <2>1. f["server"] = NoRelease /\ h["server"] = NoRelease /\ h = [t \in Part |-> h[t]]
      BY <1>1, <1>3
    <2>2. \A t \in Part : t \notin Directories => t = "server"
      BY DEF Part, Directories
    <2>3. Put(f, Directories, h) = [t \in Part |-> h[t]]
      BY <2>1, <2>2 DEF Put
    <2> QED BY <2>1, <2>3
  <1> QED BY <1>4, <1>5, <1>6

-----------------------------------------------------------------------------
(* Compose *)

\* Once there has been a server, a complete release is where the script has got
\* with it.
ComposeInv ==
    /\ current \in Full \cup {None} /\ previous \in Full \cup {None}
    /\ publisher.at \notin {"writing_key", "restoring", "undone"}
    /\ publisher.at \in {"moving_away", "noting", "moving_in"} => publisher.k = 1
    /\ publisher.at \in {"clearing", "moving_away", "noting", "moving_in"} => staged \in Full
    /\ publisher.at \in {"discarding", "stopping", "watching"} => current \in Full
    /\ enabled =>
        /\ current \in Full \/ previous \in Full
        /\ publisher.at \in {"staging", "clearing", "moving_away"} => current \in Full
        /\ Doing("moving_in") => publisher.backup

\* No step of build-artifacts.sh, its failure and its death included, loses the
\* last complete release.
LEMMA PublishKeepsCompose ==
    ASSUME compose = TRUE, Types, ComposeInv, Publish
    PROVE  ComposeInv'
  <1> USE FullFacts, OneGroup DEF ComposeInv, Doing
  <1>a. publisher \in Script
    BY DEF Types, ScriptTypes
  <1>f. ASSUME NEW w, NEW n
        PROVE  /\ [publisher EXCEPT !.at = w].at = w
               /\ [publisher EXCEPT !.at = w].k = publisher.k
               /\ [publisher EXCEPT !.at = w].backup = publisher.backup
               /\ [publisher EXCEPT !.at = w, !.backup = TRUE].at = w
               /\ [publisher EXCEPT !.at = w, !.backup = TRUE].k = publisher.k
               /\ [publisher EXCEPT !.at = w, !.backup = TRUE].backup = TRUE
               /\ [Idle EXCEPT !.at = w].at = w
               /\ Idle.at = "idle"
    BY <1>a DEF Script, Idle
  <1>1. CASE Begin
    <2>1. /\ current' = Recovered /\ previous' = None /\ publisher'.at = "staging"
          /\ staged' = staged /\ enabled' = enabled /\ publisher.at = "idle"
      BY <1>1, <1>f DEF Begin
    <2>2. Recovered \in Full \cup {None} /\ (enabled => Recovered \in Full)
      BY DEF Recovered
    <2> QED BY <2>1, <2>2
  <1>2. CASE WriteKey
    BY <1>2 DEF WriteKey
  <1>3. CASE Stage
    <2>1. /\ UNCHANGED <<current, previous, enabled>> /\ publisher.at = "staging"
          /\ \/ (\E r \in Release : staged' = Holding(r)) /\ publisher'.at = "clearing"
             \/ publisher'.at = "idle"
      BY <1>3, <1>f DEF Stage
    <2>2. \A r \in Release : Holding(r) \in Full
      BY DEF Full
    <2> QED BY <2>1, <2>2
  <1>4. CASE Clear
    <2>1. /\ UNCHANGED <<current, previous, enabled, staged>> /\ publisher.at = "clearing"
          /\ publisher'.at = "moving_away" /\ publisher'.k = 1
      BY <1>4, <1>a DEF Clear, Script
    <2> QED BY <2>1
  <1>5. CASE MoveAway
    <2>1. Group = Directories /\ publisher.at = "moving_away" /\ UNCHANGED <<staged, enabled>>
      BY <1>5 DEF MoveAway, Group
    <2>2. CASE current \in Full
      <3>1. /\ previous' = Put(previous, Directories, current)
            /\ current' = Put(current, Directories, None)
            /\ publisher' = [publisher EXCEPT !.at = "noting"]
        BY <1>5, <2>1, <2>2 DEF MoveAway
      <3>2. previous' = current /\ current' = None
        BY <3>1
      <3> QED BY <2>1, <2>2, <3>1, <3>2, <1>f
    <2>3. CASE current \notin Full
      <3>1. UNCHANGED <<current, previous>> /\ publisher' = [publisher EXCEPT !.at = "moving_in"]
        BY <1>5, <2>1, <2>3 DEF MoveAway
      <3> QED BY <2>1, <2>3, <3>1, <1>f
    <2> QED BY <2>2, <2>3
  <1>6. CASE NoteBackup
    <2>1. /\ UNCHANGED <<current, previous, enabled, staged>> /\ publisher.at = "noting"
          /\ publisher' = [publisher EXCEPT !.at = "moving_in", !.backup = TRUE]
      BY <1>6 DEF NoteBackup, publication
    <2> QED BY <2>1, <1>f
  <1>7. CASE MoveIn
    <2>1. Group = Directories /\ publisher.at = "moving_in" /\ UNCHANGED <<previous, enabled>>
      BY <1>7 DEF MoveIn, Group
    <2>2. current' = staged
      BY <1>7, <2>1 DEF MoveIn
    <2>3. publisher' = [publisher EXCEPT !.at = "discarding"]
      <3>1. publisher.k = 1 /\ Len(Order) = 1
        BY <2>1
      <3>2. ~(publisher.k < Len(Order))
        BY <3>1
      <3> QED BY <1>7, <3>2 DEF MoveIn
    <2> QED BY <2>1, <2>2, <2>3, <1>f
  <1>8. CASE Discard
    <2>1. /\ UNCHANGED <<current, enabled, staged>> /\ publisher.at = "discarding"
          /\ previous' = None /\ publisher' = [publisher EXCEPT !.at = "stopping"]
      BY <1>8 DEF Discard
    <2> QED BY <2>1, <1>f
  <1>9. CASE Restore
    BY <1>9 DEF Restore
  <1>10. CASE Fail
    <2>1. /\ current' = IF TakesBack THEN previous ELSE current
          /\ previous' = IF publisher.backup THEN None ELSE previous
          /\ publisher' = Idle /\ enabled' = enabled
          /\ publisher.at \in {"moving_away", "moving_in", "noting", "discarding"}
      BY <1>10 DEF Fail, Swapping
    <2>2. CASE TakesBack
      <3>1. publisher.backup /\ current \notin Full
        BY <2>2 DEF TakesBack
      <3> QED BY <2>1, <2>2, <3>1, <1>f
    <2>3. CASE ~TakesBack
      <3>1. ~publisher.backup \/ current \in Full
        BY <2>3 DEF TakesBack
      <3> QED BY <2>1, <2>3, <3>1, <1>f
    <2> QED BY <2>2, <2>3
  <1>11. CASE Kill
    BY <1>11, <1>f DEF Kill
  <1> QED
    BY <1>1, <1>2, <1>3, <1>4, <1>5, <1>6, <1>7, <1>8, <1>9, <1>10, <1>11
    DEF Publish, PublicationSteps

-----------------------------------------------------------------------------
(* systemd                                                                  *)
(*                                                                         *)
(* What install.sh can still undo: a part that is not put back yet has its  *)
(* previous file, or was never moved, or was not there and is as staged as  *)
(* it was.                                                                  *)

InSwap == {"moving_away", "moving_in", "stopping", "watching", "restoring"}

Undoable(t) ==
    LET was == publisher.before[t]
    IN  /\ previous[t] \in {NoRelease, was}
        /\ previous[t] = NoRelease /\ was # NoRelease => current[t] = was
        /\ staged[t] # NoRelease /\ was = NoRelease => current[t] = NoRelease

Rank(t) == IF t = "updates" THEN 1 ELSE IF t = "installers" THEN 2
           ELSE IF t = "key" THEN 3 ELSE 4

SwapInv ==
    /\ publisher.at \notin {"noting", "discarding"}
    /\ publisher.at \in {"moving_away", "moving_in", "restoring"} => publisher.k \in 1..4
    /\ publisher.at \in InSwap =>
            publisher.had = {t \in Part : publisher.before[t] # NoRelease}
    /\ Doing("clearing") => \A t \in Part : staged[t] # NoRelease
    /\ publisher.at \in InSwap \ {"restoring"} => \A t \in Part : Undoable(t)
    /\ publisher.at \in {"moving_away", "moving_in"} =>
            \A t \in Part : Rank(t) > publisher.k =>
                current[t] = publisher.before[t] /\ staged[t] # NoRelease
    /\ Doing("moving_away") => \A t \in Part : Rank(t) = publisher.k =>
            current[t] = publisher.before[t] /\ staged[t] # NoRelease
    /\ Doing("moving_in") => \A t \in Part : Rank(t) = publisher.k =>
            previous[t] = publisher.before[t]
    /\ Doing("restoring") => \A t \in Part :
            IF Rank(t) < publisher.k THEN current[t] = publisher.before[t] ELSE Undoable(t)
    /\ Doing("undone") => current = publisher.before

\* Step k of the swap moves one part, the one of rank k.
LEMMA OnePart ==
    ASSUME compose = FALSE, NEW k \in 1..4
    PROVE  \E p \in Part : /\ Order[k] = {p} /\ Rank(p) = k
                           /\ \A t \in Part \ {p} : Rank(t) # k
  <1>1. k \in {1, 2, 3, 4}
    OBVIOUS
  <1>2. \A t \in Part : t \in {"updates", "installers", "key", "server"}
    BY DEF Part
  <1> QED BY <1>1, <1>2, FourGroups DEF Part, Rank

\* Every part has its place in the swap.
LEMMA RankType == \A t \in Part : Rank(t) \in 1..4
  BY DEF Rank

\* No step of install.sh makes the swap impossible to undo.
LEMMA PublishKeepsSwap ==
    ASSUME compose = FALSE, Types, SwapInv, Publish
    PROVE  SwapInv'
  <1> USE DEF Doing, InSwap
  <1>a. publisher \in Script /\ current \in Files /\ previous \in Files /\ staged \in Files
    BY DEF Types, ScriptTypes
  <1>0. Idle.at = "idle" /\ \A w : [Idle EXCEPT !.at = w].at = w
    BY DEF Idle
  <1>i. ASSUME publisher'.at \in {"idle", "writing_key", "staging"} PROVE SwapInv'
    BY <1>i DEF SwapInv
  <1>f. ASSUME NEW w \in ScriptPlace
        PROVE  /\ [publisher EXCEPT !.at = w].at = w
               /\ [publisher EXCEPT !.at = w].k = publisher.k
               /\ [publisher EXCEPT !.at = w].had = publisher.had
               /\ [publisher EXCEPT !.at = w].before = publisher.before
    BY <1>a DEF Script
  <1>g. ASSUME NEW w \in ScriptPlace, NEW n
        PROVE  LET x == [publisher EXCEPT !.at = w, !.k = n]
                   y == [publisher EXCEPT !.k = n]
               IN  /\ x.at = w /\ x.k = n /\ x.had = publisher.had /\ x.before = publisher.before
                   /\ y.at = publisher.at /\ y.k = n /\ y.had = publisher.had
                   /\ y.before = publisher.before
    BY <1>a DEF Script
  <1>p. ASSUME NEW f \in Files, NEW h \in Files, NEW p \in Part
        PROVE  /\ Put(f, {p}, h) \in Files
               /\ \A t \in Part : Put(f, {p}, h)[t] = IF t = p THEN h[t] ELSE f[t]
    BY DEF Put, Files
  <1>n. None \in Files /\ \A t \in Part : None[t] = NoRelease
    BY NoneType DEF None
  <1> USE DEF ScriptPlace
  <1>1. CASE Begin
    <2>1. \/ publisher' = publisher /\ publisher.at = "idle"
          \/ \E w \in {"writing_key", "staging"} : publisher' = [Idle EXCEPT !.at = w]
      BY <1>1 DEF Begin
    <2>2. publisher'.at \in {"idle", "writing_key", "staging"}
      BY <2>1, <1>0
    <2> QED BY <1>i, <2>2
  <1>2. CASE WriteKey
    BY <1>2, <1>i, <1>0 DEF WriteKey
  <1>3. CASE Stage
    <2>0. \/ publisher' = Idle
          \/ /\ publisher' = [Idle EXCEPT !.at = "clearing"]
             /\ \E r \in Release : staged' = Holding(r)
      BY <1>3 DEF Stage
    <2>1. \/ publisher'.at = "idle"
          \/ publisher'.at = "clearing" /\ \E r \in Release : staged' = Holding(r)
      BY <1>0, <2>0
    <2>2. \A r \in Release : \A t \in Part : Holding(r)[t] # NoRelease
      BY FourGroups, ReleaseAssumption DEF Holding
    <2> QED BY <1>i, <2>1, <2>2 DEF SwapInv
  <1>4. CASE Clear
    <2> DEFINE there == {t \in Part : current[t] # NoRelease}
    <2>1. publisher' = [publisher EXCEPT !.at = "moving_away", !.k = 1,
                                         !.before = current, !.had = there]
      BY <1>4 DEF Clear
    <2>2. publisher'.at = "moving_away" /\ publisher'.k = 1 /\ publisher'.before = current
          /\ publisher'.had = there
      BY <1>a, <2>1 DEF Script
    <2>3. /\ current' = current /\ staged' = staged /\ previous' = None
          /\ \A t \in Part : staged[t] # NoRelease
      BY <1>4 DEF Clear, SwapInv
    <2>4. \A t \in Part : Undoable(t)'
      BY <1>n, <2>2, <2>3 DEF Undoable
    <2> QED BY <2>2, <2>3, <2>4 DEF SwapInv
  <1>5. CASE MoveAway
    <2>1. /\ publisher.at = "moving_away" /\ publisher.k \in 1..4 /\ staged' = staged
          /\ publisher' = [publisher EXCEPT !.at = "moving_in"]
      BY <1>5 DEF MoveAway, SwapInv
    <2>2. PICK p \in Part : /\ Group = {p} /\ Rank(p) = publisher.k
                            /\ \A t \in Part \ {p} : Rank(t) # publisher.k
      BY <2>1, OnePart DEF Group
    <2>3. publisher'.at = "moving_in" /\ publisher'.k = publisher.k
          /\ publisher'.before = publisher.before /\ publisher'.had = publisher.had
      BY <2>1, <1>f
    <2>4. CASE current[p] # NoRelease
      <3>1. previous' = Put(previous, {p}, current) /\ current' = Put(current, {p}, None)
        BY <1>5, <2>2, <2>4 DEF MoveAway, There
      <3>2. \A t \in Part : IF t = p THEN previous'[t] = current[t] /\ current'[t] = NoRelease
                                     ELSE previous'[t] = previous[t] /\ current'[t] = current[t]
        BY <1>a, <1>n, <1>p, <3>1
      <3>3. current[p] = publisher.before[p] /\ staged[p] # NoRelease
        BY <2>1, <2>2 DEF SwapInv
      <3>4. \A t \in Part : Undoable(t)'
        BY <2>1, <2>3, <2>4, <3>2, <3>3 DEF SwapInv, Undoable
      <3> QED BY <2>1, <2>2, <2>3, <3>2, <3>3, <3>4 DEF SwapInv
    <2>5. CASE current[p] = NoRelease
      <3>1. UNCHANGED <<current, previous>>
        BY <1>5, <2>2, <2>5 DEF MoveAway, There
      <3>2. previous[p] = publisher.before[p]
        BY <2>1, <2>2, <2>5 DEF SwapInv, Undoable
      <3>3. \A t \in Part : Undoable(t)'
        BY <2>1, <2>3, <3>1 DEF SwapInv, Undoable
      <3> QED BY <2>1, <2>2, <2>3, <3>1, <3>2, <3>3 DEF SwapInv
    <2> QED BY <2>4, <2>5
  <1>6. CASE NoteBackup
    BY <1>6 DEF NoteBackup, SwapInv
  <1>7. CASE MoveIn
    <2>1. publisher.at = "moving_in" /\ publisher.k \in 1..4 /\ previous' = previous
      BY <1>7 DEF MoveIn, SwapInv
    <2>2. PICK p \in Part : /\ Group = {p} /\ Rank(p) = publisher.k
                            /\ \A t \in Part \ {p} : Rank(t) # publisher.k
      BY <2>1, OnePart DEF Group
    <2>3. current' = Put(current, {p}, staged) /\ staged' = Put(staged, {p}, None)
      BY <1>7, <2>2 DEF MoveIn
    <2>4. \A t \in Part : IF t = p THEN current'[t] = staged[t] /\ staged'[t] = NoRelease
                                   ELSE current'[t] = current[t] /\ staged'[t] = staged[t]
      BY <1>a, <1>n, <1>p, <2>3
    <2>5. previous[p] = publisher.before[p]
      BY <2>1, <2>2 DEF SwapInv
    <2>6. \A t \in Part : Rank(t) > publisher.k =>
                current'[t] = publisher.before[t] /\ staged'[t] # NoRelease
      BY <2>1, <2>2, <2>4 DEF SwapInv
    <2>7. ASSUME publisher'.before = publisher.before PROVE \A t \in Part : Undoable(t)'
      BY <2>1, <2>4, <2>5, <2>7 DEF SwapInv, Undoable
    <2>8. CASE publisher.k < 4
      <3>1. publisher' = [publisher EXCEPT !.at = "moving_away", !.k = publisher.k + 1]
        BY <1>7, <2>8, FourGroups DEF MoveIn
      <3>2. publisher'.at = "moving_away" /\ publisher'.k = publisher.k + 1
            /\ publisher'.before = publisher.before /\ publisher'.had = publisher.had
        BY <3>1, <1>g
      <3>3. \A t \in Part : Rank(t) >= publisher'.k => Rank(t) > publisher.k
        BY <2>1, <3>2, RankType
      <3>4. publisher'.k \in 1..4 /\ \A t \in Part : Rank(t) > publisher'.k => Rank(t) >= publisher'.k
        BY <2>1, <2>8, <3>2, RankType
      <3> HIDE DEF Rank
      <3> QED BY <2>1, <2>6, <2>7, <3>2, <3>3, <3>4, RankType DEF SwapInv
    <2>9. CASE ~(publisher.k < 4)
      <3>1. publisher' = [publisher EXCEPT !.at = "stopping"]
        BY <1>7, <2>9, FourGroups DEF MoveIn
      <3>2. publisher'.at = "stopping" /\ publisher'.before = publisher.before
            /\ publisher'.had = publisher.had
        BY <3>1, <1>f
      <3> QED BY <2>1, <2>7, <3>2 DEF SwapInv
    <2> QED BY <2>8, <2>9
  <1>8. CASE Discard
    BY <1>8 DEF Discard, SwapInv
  <1>9. CASE Restore
    <2>1. publisher.at = "restoring" /\ publisher.k \in 1..4 /\ staged' = staged
      BY <1>9 DEF Restore, SwapInv
    <2>2. PICK p \in Part : /\ Group = {p} /\ Rank(p) = publisher.k
                            /\ \A t \in Part \ {p} : Rank(t) # publisher.k
      BY <2>1, OnePart DEF Group
    <2>3. /\ current' = IF Undoes({p}) THEN Put(current, {p}, previous) ELSE current
          /\ previous' = Put(previous, {p}, None)
      BY <1>9, <2>2 DEF Restore
    <2>4. \A t \in Part \ {p} : current'[t] = current[t] /\ previous'[t] = previous[t]
      BY <1>a, <1>n, <1>p, <2>3
    <2>5. Undoable(p) /\ (p \in publisher.had <=> publisher.before[p] # NoRelease)
      BY <2>1, <2>2 DEF SwapInv
    <2>6. Undoes({p}) <=> \/ previous[p] # NoRelease
                          \/ publisher.before[p] = NoRelease /\ staged[p] = NoRelease
      BY <2>5 DEF Undoes, There
    <2>7. current'[p] = publisher.before[p]
      <3>1. CASE Undoes({p})
        BY <1>a, <1>p, <2>3, <2>5, <2>6, <3>1 DEF Undoable
      <3>2. CASE ~Undoes({p})
        BY <2>3, <2>5, <2>6, <3>2 DEF Undoable
      <3> QED BY <3>1, <3>2
    <2>8. \A t \in Part : Rank(t) <= publisher.k => current'[t] = publisher.before[t]
      <3>1. \A t \in Part \ {p} : Rank(t) <= publisher.k => Rank(t) < publisher.k
        BY <2>1, <2>2, RankType
      <3> HIDE DEF Rank
      <3> QED BY <2>1, <2>4, <2>7, <3>1 DEF SwapInv
    <2>9. CASE publisher.k < 4
      <3>1. publisher' = [publisher EXCEPT !.k = publisher.k + 1]
        BY <1>9, <2>9, FourGroups DEF Restore
      <3>2. publisher'.at = "restoring" /\ publisher'.k = publisher.k + 1
            /\ publisher'.before = publisher.before /\ publisher'.had = publisher.had
        BY <2>1, <3>1, <1>g
      <3>3. \A t \in Part : Rank(t) < publisher'.k \/ (t # p /\ ~(Rank(t) < publisher.k))
        BY <2>1, <2>2, <3>2, RankType
      <3>4. \A t \in Part : Rank(t) < publisher'.k => Rank(t) <= publisher.k
        BY <2>1, <3>2, RankType
      <3>5. \A t \in Part : Rank(t) < publisher'.k => current'[t] = publisher.before[t]
        BY <2>8, <3>4
      <3>6. \A t \in Part : ~(Rank(t) < publisher'.k) => Undoable(t)'
        BY <2>1, <2>4, <3>2, <3>3 DEF SwapInv, Undoable
      <3>7. publisher'.k \in 1..4
        BY <2>1, <2>9, <3>2
      <3> HIDE DEF Rank
      <3> QED BY <2>1, <3>2, <3>5, <3>6, <3>7 DEF SwapInv
    <2>10. CASE ~(publisher.k < 4)
      <3>1. publisher' = [publisher EXCEPT !.at = "undone"]
        BY <1>9, <2>10, FourGroups DEF Restore
      <3>2. publisher'.at = "undone" /\ publisher'.before = publisher.before
        BY <3>1, <1>f
      <3>3. \A t \in Part : current'[t] = publisher.before[t]
        BY <2>1, <2>8, <2>10, RankType
      <3>4. current' \in Files /\ publisher.before \in Files
        <4>1. current' \in Files
          BY <1>a, <1>p, <2>3
        <4> QED BY <1>a, <4>1 DEF Script, Files
      <3>5. current' = publisher.before
        BY <3>3, <3>4 DEF Files
      <3> QED BY <3>2, <3>5 DEF SwapInv
    <2> QED BY <2>9, <2>10
  <1>10. CASE Fail
    <2>1. /\ publisher' = [publisher EXCEPT !.at = "restoring", !.k = 1]
          /\ UNCHANGED <<current, previous, staged>>
          /\ publisher.at \in {"moving_away", "moving_in", "stopping", "watching"}
      BY <1>10 DEF Fail, Swapping, publication
    <2>2. publisher'.at = "restoring" /\ publisher'.k = 1
          /\ publisher'.before = publisher.before /\ publisher'.had = publisher.had
      BY <2>1, <1>g
    <2>3. \A t \in Part : Undoable(t)' /\ ~(Rank(t) < 1)
      BY <2>1, <2>2, RankType DEF SwapInv, Undoable
    <2> QED BY <2>1, <2>2, <2>3 DEF SwapInv
  <1>11. CASE Kill
    BY <1>11, <1>i, <1>0 DEF Kill
  <1> QED
    BY <1>1, <1>2, <1>3, <1>4, <1>5, <1>6, <1>7, <1>8, <1>9, <1>10, <1>11
    DEF Publish, PublicationSteps

-----------------------------------------------------------------------------

\* What the script of the host keeps.
ReleaseInv == IF compose THEN ComposeInv ELSE SwapInv

scriptState == <<current, previous, staged, publisher, enabled>>

\* Nor does any step of the servers, of systemd or of a client.
LEMMA ReleaseStep ==
    ASSUME Types, ReleaseInv, [Next]_vars
    PROVE  ReleaseInv'
  <1>0. compose' = compose /\ compose \in BOOLEAN
    <2>1. compose \in BOOLEAN
      BY DEF Types, ScriptTypes
    <2> QED
      BY <2>1 DEF Next, vars, Publish, PublicationSteps, Begin, WriteKey, Stage, Clear, MoveAway,
       NoteBackup, MoveIn, Discard, Restore, Fail, Kill, Serve, host, Crash, StartByHand,
       StopByHand, Restart, StopUnit, StartUnit, Watch, Finish, LoseKey, Come, Fetch
  <1>s. publisher \in Script /\ current \in Files /\ previous \in Files /\ staged \in Files
    BY DEF Types, ScriptTypes
  <1>f. /\ [publisher EXCEPT !.at = "watching"].at = "watching"
        /\ [publisher EXCEPT !.at = "watching"].had = publisher.had
        /\ [publisher EXCEPT !.at = "watching"].before = publisher.before
        /\ Idle.at = "idle"
    BY <1>s DEF Script, Idle
  <1>a. ASSUME UNCHANGED scriptState PROVE ReleaseInv'
    <2>1. Group' = Group
      BY <1>0, <1>a DEF Group, Order, scriptState
    <2>2. ComposeInv <=> ComposeInv'
      BY <1>a DEF ComposeInv, scriptState, Doing
    <2>3. \A t \in Part : Undoable(t) <=> Undoable(t)'
      BY <1>a DEF scriptState, Undoable
    <2>4. SwapInv <=> SwapInv'
      BY <1>a, <2>3 DEF SwapInv, scriptState, Doing
    <2> QED BY <1>0, <2>2, <2>4 DEF ReleaseInv
  <1>1. CASE Publish
    <2>1. CASE compose
      BY <1>0, <1>1, <2>1, PublishKeepsCompose DEF ReleaseInv
    <2>2. CASE ~compose
      BY <1>0, <1>1, <2>2, PublishKeepsSwap DEF ReleaseInv
    <2> QED BY <2>1, <2>2
  <1>2. CASE StartUnit
    <2>1. /\ current' = current /\ previous' = previous /\ staged' = None
          /\ \/ publisher.at = "stopping" /\ publisher' = [publisher EXCEPT !.at = "watching"]
             \/ publisher.at = "undone" /\ publisher' = Idle
      BY <1>2 DEF StartUnit, Doing
    <2>2. CASE compose
      <3>1. current \in Full /\ publisher'.at = "watching"
        BY <2>1, <2>2, <1>f DEF ReleaseInv, ComposeInv
      <3>2. ComposeInv
        BY <2>2 DEF ReleaseInv
      <3> QED BY <1>0, <2>1, <2>2, <3>1, <3>2 DEF ReleaseInv, ComposeInv, Doing
    <2>3. CASE ~compose /\ publisher.at = "stopping"
      <3>1. /\ publisher'.at = "watching" /\ publisher'.had = publisher.had
            /\ publisher'.before = publisher.before
        BY <2>1, <2>3, <1>f
      <3>2. SwapInv /\ \A t \in Part : None[t] = NoRelease
        BY <2>3 DEF ReleaseInv, None
      <3>3. \A t \in Part : Undoable(t)'
        BY <2>1, <2>3, <3>1, <3>2 DEF SwapInv, InSwap, Undoable
      <3> QED BY <1>0, <2>3, <3>1, <3>2, <3>3 DEF ReleaseInv, SwapInv, InSwap, Doing
    <2>4. CASE ~compose /\ publisher.at = "undone"
      BY <1>0, <2>1, <2>4, <1>f DEF ReleaseInv, SwapInv, InSwap, Doing
    <2> QED BY <2>1, <2>2, <2>3, <2>4
  <1>3. CASE Watch
    <2>1. /\ current' = current /\ previous' = None /\ publisher' = Idle /\ enabled' = enabled
          /\ publisher.at = "watching"
      BY <1>3 DEF Watch, Finish, Doing
    <2>2. CASE compose
      BY <1>0, <2>1, <2>2, <1>f DEF ReleaseInv, ComposeInv, Doing
    <2>3. CASE ~compose
      BY <1>0, <2>1, <2>3, <1>f DEF ReleaseInv, SwapInv, InSwap, Doing
    <2> QED BY <2>2, <2>3
  <1>4. CASE ~Publish /\ ~StartUnit /\ ~Watch
    <2>1. UNCHANGED scriptState
      BY <1>4 DEF Next, vars, scriptState, publication, host, Serve, Crash, StartByHand,
         StopByHand, Restart, StopUnit, LoseKey, Come, Fetch
    <2> QED BY <1>a, <2>1
  <1> QED BY <1>1, <1>2, <1>3, <1>4

\* A host starts with a complete release.
LEMMA ReleaseInit == Init => ReleaseInv
  <1> SUFFICES ASSUME Init PROVE ReleaseInv
    OBVIOUS
  <1>1. Idle.at = "idle"
    BY DEF Idle
  <1>2. CASE compose
    <2>1. Holding(Preinstalled) \in Full
      BY <1>2, OneGroup, ReleaseAssumption DEF Full
    <2> QED BY <1>1, <1>2, <2>1 DEF Init, ReleaseInv, ComposeInv, Doing
  <1>3. CASE ~compose
    BY <1>1, <1>3 DEF Init, ReleaseInv, SwapInv, InSwap, Doing
  <1> QED BY <1>2, <1>3

\* A failed publication leaves what was there: install.sh has put every file
\* back when it ends, and build-artifacts.sh, killed or not, keeps a complete
\* release under one of its two names (KeepsRelease).
THEOREM FailureKeepsRelease == Spec => []KeepsRelease
  <1>1. ASSUME ReleaseInv, Types PROVE KeepsRelease
    <2>1. CASE compose
      <3>1. \A r : Holding(r) = Complete(r)
        BY <2>1, OneGroup DEF Types, ScriptTypes
      <3>2. enabled => current \in Full \/ previous \in Full
        BY <1>1, <2>1 DEF ReleaseInv, ComposeInv
      <3> QED BY <2>1, <3>1, <3>2 DEF KeepsRelease, Full
    <2>2. CASE ~compose
      BY <1>1, <2>2 DEF ReleaseInv, SwapInv, KeepsRelease
    <2> QED BY <2>1, <2>2
  <1>2. Init => Types /\ ReleaseInv
    BY InitTypes, ReleaseInit
  <1>3. Types /\ ReleaseInv /\ [Next]_vars => Types' /\ ReleaseInv'
    BY TypesStep, ReleaseStep
  <1> QED BY <1>1, <1>2, <1>3, PTL DEF Spec

-----------------------------------------------------------------------------
(* One release                                                              *)
(*                                                                         *)
(* What is on the disk is of one release whenever a server is started that  *)
(* will be there when the script has ended; and what such a server reads,   *)
(* piece by piece, is that release.                                         *)

\* All that is served there is of one release.
Whole(f) == \A t \in Published : f[t] = f["updates"]

\* What a server with the fields x has read so far are the files f.
HasRead(x, f) ==
    /\ x.at # "down" => x.binary = f["server"]
    /\ x.at \notin {"down", "updates_key", "updates"} => x.updates = f["updates"]
    /\ x.at \notin {"down", "updates_key", "updates", "installers_key", "installers"} =>
            x.installers = f["installers"]

Serves(f) == Whole(f) /\ \A s \in Server : HasRead(srv[s], f)

\* No server but the service is about while a script runs.
Alone == ~Doing("idle") => \A s \in Server \ {Unit} : At(s, "down")

Untouched == publisher.at \in {"idle", "writing_key", "staging", "clearing"}
Vacant == publisher.at \in {"noting", "moving_in"}

\* Under Compose: while there is no release in its place nobody can load any,
\* and the servers are those of the release which a failure puts back.
SwapOfDirectories ==
    /\ publisher.at \in {"staging", "clearing", "moving_away", "noting"} => ~publisher.backup
    /\ publisher.at \in {"staging", "clearing", "moving_away"} => previous = None
    /\ Vacant => current = None
    /\ Doing("moving_in") /\ ~publisher.backup => previous = None
    /\ ~spent.aborted =>
        /\ Doing("idle") => previous = None
        /\ Untouched \/ Doing("moving_away") => Serves(current)
        /\ Vacant => Serves(IF Doing("noting") \/ publisher.backup THEN previous ELSE current)

\* Under systemd: what is moved in and what is to be is of one release, and so
\* is what a failure puts back.
SwapOfParts ==
    /\ Doing("clearing") => \E r \in Release : \A t \in Part : staged[t] = r
    /\ publisher.at \in {"moving_away", "moving_in"} => \E r \in Release : \A t \in Part :
            IF Rank(t) < publisher.k THEN current[t] = r ELSE staged[t] = r
    /\ ~spent.aborted =>
        /\ Untouched => Serves(current)
        /\ publisher.at \in InSwap \cup {"undone"} => Whole(publisher.before)

ServeInv ==
    /\ Alone
    /\ Doing("stopping") => Whole(current)
    /\ Doing("watching") => Serves(current)
    /\ IF compose THEN SwapOfDirectories ELSE SwapOfParts

\* What the servers have read stays what they have read, while the files stay
\* or there are none.
Stands(f) == current = f \/ (current = None /\ f["server"] = NoRelease)

StillRead(f) ==
    (\A t \in Server : HasRead(srv[t], f)) => \A t \in Server : HasRead(srv'[t], f)

LEMMA FieldsOf ==
    ASSUME ServerTypes, NEW s \in Server
    PROVE  /\ \A t \in Server : \A x : [srv EXCEPT ![s] = x][t] = IF t = s THEN x ELSE srv[t]
           /\ \A w : LET x == [srv[s] EXCEPT !.at = w]
                     IN  /\ x.at = w /\ x.updates = srv[s].updates
                         /\ x.installers = srv[s].installers /\ x.binary = srv[s].binary
  BY DEF ServerTypes, Process

LEMMA MoveReads ==
    ASSUME ServerTypes, NEW s \in Server, NEW w, Move(s, w), NEW f,
           srv[s].at \notin {"down", "updates_key", "updates", "installers_key", "installers"}
    PROVE  StillRead(f)
  <1>1. srv' = [srv EXCEPT ![s] = [srv[s] EXCEPT !.at = w]]
    BY DEF Move
  <1>2. \A t \in Server \ {s} : srv'[t] = srv[t]
    BY <1>1, FieldsOf
  <1>3. /\ srv'[s].at = w /\ srv'[s].updates = srv[s].updates
        /\ srv'[s].installers = srv[s].installers /\ srv'[s].binary = srv[s].binary
    BY <1>1, FieldsOf
  <1> QED BY <1>2, <1>3 DEF StillRead, HasRead

LEMMA GoneReads ==
    ASSUME ServerTypes, NEW s \in Server, Gone(s), NEW f
    PROVE  StillRead(f)
  BY OthersStay DEF StillRead, HasRead

LEMMA ExecReads ==
    ASSUME ServerTypes, NEW s \in Server, Exec(s), NEW f, current["server"] = f["server"]
    PROVE  StillRead(f)
  <1>1. (\A t \in Server \ {s} : srv'[t] = srv[t]) /\ srv'[s].at = "updates_key"
    BY OthersStay
  <1>2. srv'[s].binary = current["server"]
    BY DEF Exec, Off, ServerTypes
  <1> QED BY <1>1, <1>2 DEF StillRead, HasRead

LEMMA InterruptReads ==
    ASSUME ServerTypes, NEW s \in Server, Interrupt(s), NEW f
    PROVE  StillRead(f)
  <1>1. CASE srv[s].at \in {"listen", "up"} /\ Move(s, "closing")
    BY <1>1, MoveReads
  <1>2. CASE Gone(s)
    BY <1>2, GoneReads
  <1> QED BY <1>1, <1>2 DEF Interrupt, Refuse

\* No catalog is loaded but the one that lies there.
LEMMA StartReads ==
    ASSUME ServerTypes, NEW s \in Server, StartStep(s), NEW f, Stands(f)
    PROVE  StillRead(f)
  <1>g. ASSUME Gone(s) PROVE StillRead(f)
    BY <1>g, GoneReads
  <1>m. ASSUME NEW w, Move(s, w),
               srv[s].at \notin {"down", "updates_key", "updates", "installers_key", "installers"}
        PROVE  StillRead(f)
    BY <1>m, MoveReads
  <1>o. \A x : srv' = [srv EXCEPT ![s] = x] =>
            /\ \A t \in Server \ {s} : srv'[t] = srv[t]
            /\ srv'[s] = x
    BY FieldsOf
  <1>p. srv[s] \in Process
    BY DEF ServerTypes
  <1>1. CASE ReadPublicKey(s)
    <2>1. PICK step \in {<<"updates_key", "updates">>, <<"installers_key", "installers">>} :
            /\ At(s, step[1])
            /\ \/ Gone(s)
               \/ srv' = [srv EXCEPT ![s] = [srv[s] EXCEPT !.at = step[2], !.trusted = current["key"]]]
      BY <1>1 DEF ReadPublicKey, Refuse
    <2>2. CASE Gone(s)
      BY <2>2, <1>g
    <2>3. CASE srv' = [srv EXCEPT ![s] = [srv[s] EXCEPT !.at = step[2], !.trusted = current["key"]]]
      <3>1. /\ \A t \in Server \ {s} : srv'[t] = srv[t]
            /\ srv'[s] = [srv[s] EXCEPT !.at = step[2], !.trusted = current["key"]]
        BY <1>o, <2>3
      <3>2. /\ srv'[s].at = step[2] /\ srv'[s].updates = srv[s].updates
            /\ srv'[s].installers = srv[s].installers /\ srv'[s].binary = srv[s].binary
        BY <1>p, <3>1 DEF Process
      <3>3. \/ srv[s].at = "updates_key" /\ srv'[s].at = "updates"
            \/ srv[s].at = "installers_key" /\ srv'[s].at = "installers"
        BY <2>1, <3>2 DEF At
      <3>4. HasRead(srv[s], f) => HasRead(srv'[s], f)
        <4>1. CASE srv[s].at = "updates_key" /\ srv'[s].at = "updates"
          BY <3>2, <4>1 DEF HasRead
        <4>2. CASE srv[s].at = "installers_key" /\ srv'[s].at = "installers"
          BY <3>2, <4>2 DEF HasRead
        <4> QED BY <3>3, <4>1, <4>2
      <3> QED BY <3>1, <3>4 DEF StillRead
    <2> QED BY <2>1, <2>2, <2>3
  <1>2. CASE LoadUpdateCatalog(s)
    <2>1. CASE Gone(s)
      BY <2>1, <1>g
    <2>2. CASE ~Gone(s)
      <3>1. /\ current["updates"] # NoRelease /\ srv[s].at = "updates"
            /\ srv' = [srv EXCEPT ![s] =
                    [srv[s] EXCEPT !.at = "installers_key", !.updates = current["updates"]]]
        BY <1>2, <2>2 DEF LoadUpdateCatalog, Refuse, Verifies, At
      <3>2. /\ \A t \in Server \ {s} : srv'[t] = srv[t]
            /\ srv'[s] = [srv[s] EXCEPT !.at = "installers_key", !.updates = current["updates"]]
        BY <1>o, <3>1
      <3>3. /\ srv'[s].at = "installers_key" /\ srv'[s].updates = current["updates"]
            /\ srv'[s].binary = srv[s].binary
        BY <1>p, <3>2 DEF Process
      <3>4. current = f
        BY <3>1 DEF Stands, None, Part
      <3> QED BY <3>1, <3>2, <3>3, <3>4 DEF StillRead, HasRead
    <2> QED BY <2>1, <2>2
  <1>3. CASE LoadInstallerCatalog(s)
    <2>1. CASE Gone(s)
      BY <2>1, <1>g
    <2>2. CASE ~Gone(s)
      <3> DEFINE w == IF compose THEN "look_key" ELSE "read_key"
      <3>1. /\ current["installers"] # NoRelease /\ srv[s].at = "installers"
            /\ srv' = [srv EXCEPT ![s] =
                    [srv[s] EXCEPT !.at = w, !.installers = current["installers"],
                                   !.trusted = NoRelease]]
        BY <1>3, <2>2 DEF LoadInstallerCatalog, Refuse, Verifies, At
      <3>2. /\ \A t \in Server \ {s} : srv'[t] = srv[t]
            /\ srv'[s] = [srv[s] EXCEPT !.at = w, !.installers = current["installers"],
                                        !.trusted = NoRelease]
        BY <1>o, <3>1
      <3>3. /\ srv'[s].installers = current["installers"] /\ srv'[s].updates = srv[s].updates
            /\ srv'[s].binary = srv[s].binary
        BY <1>p, <3>2 DEF Process
      <3>4. current = f
        BY <3>1 DEF Stands, None, Part
      <3> QED BY <3>1, <3>2, <3>3, <3>4 DEF StillRead, HasRead
    <2> QED BY <2>1, <2>2
  <1>4. CASE Close(s)
    <2>1. srv' = [srv EXCEPT ![s] = Off]
      BY <1>4 DEF Close
    <2>2. (\A t \in Server \ {s} : srv'[t] = srv[t]) /\ srv'[s].at = "down"
      BY <1>o, <2>1 DEF Off
    <2> QED BY <2>2 DEF StillRead, HasRead
  <1>5. CASE ReadKey(s)
    <2>1. CASE Gone(s)
      BY <2>1, <1>g
    <2>2. CASE ~Gone(s)
      <3>1. /\ srv[s].at = "read_key"
            /\ srv' = [srv EXCEPT ![s] = [srv[s] EXCEPT !.at = "open", !.key = keyFile]]
        BY <1>5, <2>2 DEF ReadKey, Refuse, At
      <3>2. /\ \A t \in Server \ {s} : srv'[t] = srv[t]
            /\ srv'[s] = [srv[s] EXCEPT !.at = "open", !.key = keyFile]
        BY <1>o, <3>1
      <3>3. /\ srv'[s].updates = srv[s].updates /\ srv'[s].installers = srv[s].installers
            /\ srv'[s].binary = srv[s].binary
        BY <1>p, <3>2 DEF Process
      <3> QED BY <3>1, <3>2, <3>3 DEF StillRead, HasRead
    <2> QED BY <2>1, <2>2
  <1>6. CASE \/ LookForKey(s) \/ LookForDatabase(s) \/ LinkKey(s) \/ OpenDatabase(s)
             \/ CreateTables(s) \/ LookForSocket(s) \/ RemoveSocket(s) \/ Bind(s) \/ Listen(s)
    <2>1. /\ srv[s].at \notin {"down", "updates_key", "updates", "installers_key", "installers"}
          /\ Gone(s) \/ \E w : Move(s, w)
      BY <1>6 DEF LookForKey, LookForDatabase, LinkKey, OpenDatabase, CreateTables,
         LookForSocket, RemoveSocket, Bind, Listen, Refuse, At
    <2> QED BY <2>1, <1>g, <1>m
  <1> QED BY <1>1, <1>2, <1>3, <1>4, <1>5, <1>6 DEF StartStep

\* While the script rests, whatever a server does leaves it as it is.
LEMMA ServersKeep ==
    ASSUME Types, ReleaseInv, ServeInv, compose' = compose, UNCHANGED publication,
           publisher' = publisher, spent'.aborted = spent.aborted, Alone',
           \A f \in Files : Stands(f) => StillRead(f)
    PROVE  ServeInv'
  <1> USE DEF Doing, publication
  <1>t. current \in Files /\ previous \in Files
    BY DEF Types, ScriptTypes
  <1>p. Published' = Published
    BY DEF Published, Order
  <1>w. \A f : Whole(f) <=> \A t \in Published : f[t] = f["updates"]
    BY DEF Whole
  <1>v. /\ Whole(current)' <=> Whole(current)
        /\ Whole(publisher.before)' <=> Whole(publisher.before)
    BY <1>p DEF Whole
  <1>s. Serves(current) => Serves(current)'
    <2>1. StillRead(current)
      BY <1>t DEF Stands
    <2> QED BY <1>v, <2>1 DEF Serves, StillRead
  <1>1. CASE compose
    <2>1. SwapOfDirectories /\ ComposeInv
      BY <1>1 DEF ServeInv, ReleaseInv
    <2>2. \A f \in Full \cup {None} : f["server"] = NoRelease
      BY DEF Full, Complete, None, Part, Directories
    <2>3. current = None /\ Serves(previous) => Serves(previous)'
      <3>1. current = None => StillRead(previous)
        BY <1>t, <2>1, <2>2 DEF Stands, ComposeInv
      <3>2. Whole(previous) => Whole(previous)'
        BY <1>p DEF Whole
      <3> QED BY <3>1, <3>2 DEF Serves, StillRead
    <2>4. SwapOfDirectories'
      <3>1. ASSUME ~spent'.aborted, Vacant'
            PROVE  Serves(IF Doing("noting") \/ publisher.backup THEN previous ELSE current)'
        <4>1. Serves(IF Doing("noting") \/ publisher.backup THEN previous ELSE current)
              /\ current = None
          BY <2>1, <3>1 DEF SwapOfDirectories, Vacant
        <4>2. CASE Doing("noting") \/ publisher.backup
          BY <4>1, <4>2, <2>3
        <4>3. CASE ~(Doing("noting") \/ publisher.backup)
          BY <4>1, <4>3, <1>s
        <4> QED BY <4>2, <4>3
      <3> QED BY <2>1, <3>1, <1>s DEF SwapOfDirectories, Untouched, Vacant
    <2> QED BY <1>1, <1>v, <1>s, <2>4 DEF ServeInv
  <1>2. CASE ~compose
    <2>1. SwapOfParts
      BY <1>2 DEF ServeInv
    <2>2. SwapOfParts'
      BY <2>1, <1>v, <1>s DEF SwapOfParts, Untouched
    <2> QED BY <1>2, <1>v, <1>s, <2>2 DEF ServeInv
  <1> QED BY <1>1, <1>2

-----------------------------------------------------------------------------
(* The script *)

\* While the script does not touch the current files the servers serve them.
LEMMA SameFiles ==
    ASSUME compose' = compose, srv' = srv, current' = current
    PROVE  (Serves(current) => Serves(current)') /\ (Whole(current) => Whole(current)')
  <1>1. Published' = Published
    BY DEF Published, Order
  <1> QED BY <1>1 DEF Serves, Whole

\* Whatever build-artifacts.sh does, fails at or dies at, the servers that will
\* be there are those of the release that will be.
LEMMA PublishServesCompose ==
    ASSUME compose = TRUE, compose' = compose, Types, ComposeInv, ServeInv, Publish
    PROVE  ServeInv'
  <1> USE DEF Doing
  <1>s. srv' = srv
    BY DEF Publish, servers
  <1>p. Published' = Published
    BY DEF Published, Order
  <1>q. publisher \in Script /\ spent \in Account
    BY DEF Types, ScriptTypes
  <1>i. SwapOfDirectories /\ Alone
    BY DEF ServeInv
  <1>o. current \in Full \cup {None} /\ previous \in Full \cup {None}
    BY DEF ComposeInv
  <1>w. \A f \in Full \cup {None} : Whole(f)
    BY OneGroup DEF Whole, Full, Complete, None, Part, Directories
  <1>w2. (current' = current => (Whole(current) => Whole(current)'))
    BY <1>p DEF Whole
  <1>f. ASSUME NEW w
        PROVE  /\ [publisher EXCEPT !.at = w].at = w
               /\ [publisher EXCEPT !.at = w].backup = publisher.backup
               /\ [publisher EXCEPT !.at = w, !.backup = TRUE].at = w
               /\ [publisher EXCEPT !.at = w, !.backup = TRUE].backup = TRUE
               /\ [Idle EXCEPT !.at = w].at = w
               /\ [Idle EXCEPT !.at = w].backup = FALSE
               /\ Idle.at = "idle" /\ Idle.backup = FALSE
    BY <1>q DEF Script, Idle
  <1>x. ASSUME SwapOfDirectories', Alone', publisher'.at \notin {"stopping", "watching"}
        PROVE  ServeInv'
    BY <1>x DEF ServeInv
  <1>y. ASSUME publisher.at # "idle" PROVE Alone'
    BY <1>i, <1>s, <1>y DEF Alone, At
  <1>1. CASE Begin
    <2>1. /\ current' = Recovered /\ previous' = None /\ publisher' = [Idle EXCEPT !.at = "staging"]
          /\ publisher.at = "idle" /\ spent' = [spent EXCEPT !.publications = @ + 1, !.hands = 0]
      BY <1>1 DEF Begin
    <2>2. publisher'.at = "staging" /\ publisher'.backup = FALSE /\ spent'.aborted = spent.aborted
      BY <2>1, <1>f, <1>q DEF Account
    <2>3. Alone'
      <3>1. CASE \A s \in Server \ {Unit} : At(s, "down")
        BY <3>1, <1>s DEF Alone, At
      <3>2. CASE ~\A s \in Server \ {Unit} : At(s, "down")
        BY <1>1, <3>2, <2>1 DEF Publish, PublicationSteps, WriteKey, Stage, Clear, MoveAway,
           NoteBackup, MoveIn, Discard, Restore, Fail, Swapping, Kill
      <3> QED BY <3>1, <3>2
    <2>4. ASSUME ~spent'.aborted PROVE Serves(current)'
      <3>1. previous = None /\ Serves(current)
        BY <2>1, <2>2, <2>4, <1>i DEF SwapOfDirectories, Untouched
      <3>2. current' = current
        <4>1. ~There(None, Published)
          BY OneGroup DEF There, Directories, None, Part
        <4> QED BY <2>1, <3>1, <4>1 DEF Recovered
      <3> QED BY <3>1, <3>2, <1>s, SameFiles
    <2>5. SwapOfDirectories'
      BY <2>1, <2>2, <2>4 DEF SwapOfDirectories, Vacant
    <2> QED BY <2>2, <2>3, <2>5, <1>x
  <1>2. CASE WriteKey
    BY <1>2 DEF WriteKey, ComposeInv
  <1>3. CASE Stage
    <2>1. /\ UNCHANGED <<current, previous, spent>> /\ publisher.at = "staging"
          /\ publisher' = [Idle EXCEPT !.at = "clearing"] \/ publisher' = Idle
      BY <1>3 DEF Stage
    <2>2. publisher'.at \in {"clearing", "idle"} /\ publisher'.backup = FALSE
      <3>1. CASE publisher' = [Idle EXCEPT !.at = "clearing"]
        BY <3>1, <1>f
      <3>2. CASE publisher' = Idle
        BY <3>2, <1>f
      <3> QED BY <2>1, <3>1, <3>2
    <2>3. previous = None /\ (~spent.aborted => Serves(current))
      BY <2>1, <1>i DEF SwapOfDirectories, Untouched
    <2>4. ~spent'.aborted => Serves(current)'
      BY <2>1, <2>3, <1>s, SameFiles
    <2>5. SwapOfDirectories'
      BY <2>1, <2>2, <2>3, <2>4 DEF SwapOfDirectories, Vacant
    <2> QED BY <2>1, <2>2, <2>5, <1>x, <1>y
  <1>4. CASE Clear
    <2>1. /\ UNCHANGED <<current, previous, spent>> /\ publisher.at = "clearing"
          /\ publisher'.at = "moving_away" /\ publisher'.backup = publisher.backup
      BY <1>4, <1>q DEF Clear, Script
    <2>3. previous = None /\ (~spent.aborted => Serves(current)) /\ ~publisher.backup
      BY <2>1, <1>i DEF SwapOfDirectories, Untouched
    <2>4. ~spent'.aborted => Serves(current)'
      BY <2>1, <2>3, <1>s, SameFiles
    <2>5. SwapOfDirectories'
      BY <2>1, <2>3, <2>4 DEF SwapOfDirectories, Vacant
    <2> QED BY <2>1, <2>5, <1>x, <1>y
  <1>5. CASE MoveAway
    <2>1. publisher.at = "moving_away" /\ spent' = spent /\ publisher.k = 1
      BY <1>5 DEF MoveAway, ComposeInv
    <2>2. Group = Directories
      BY <2>1, OneGroup DEF Group
    <2>3. previous = None /\ (~spent.aborted => Serves(current)) /\ ~publisher.backup
      BY <2>1, <1>i DEF SwapOfDirectories
    <2>4. CASE current \in Full
      <3>1. /\ previous' = Put(previous, Directories, current)
            /\ current' = Put(current, Directories, None)
            /\ publisher' = [publisher EXCEPT !.at = "noting"]
        BY <1>5, <2>2, <2>4, FullFacts DEF MoveAway
      <3>2. previous' = current /\ current' = None
        BY <3>1, <1>o, FullFacts
      <3>3. publisher'.at = "noting" /\ publisher'.backup = publisher.backup
        BY <3>1, <1>f
      <3>4. ~spent'.aborted => Serves(previous)'
        BY <2>1, <2>3, <3>2, <1>s, <1>p DEF Serves, Whole
      <3>5. SwapOfDirectories'
        BY <2>3, <3>2, <3>3, <3>4 DEF SwapOfDirectories, Untouched
      <3> QED BY <2>1, <3>3, <3>5, <1>x, <1>y
    <2>5. CASE current \notin Full
      <3>1. UNCHANGED <<current, previous>> /\ publisher' = [publisher EXCEPT !.at = "moving_in"]
        BY <1>5, <2>2, <2>5, <1>o, FullFacts DEF MoveAway
      <3>2. publisher'.at = "moving_in" /\ publisher'.backup = publisher.backup
        BY <3>1, <1>f
      <3>3. ~spent'.aborted => Serves(current)'
        BY <2>1, <2>3, <3>1, <1>s, SameFiles
      <3>4. current' = None
        BY <3>1, <2>5, <1>o
      <3>5. SwapOfDirectories'
        BY <2>3, <3>1, <3>2, <3>3, <3>4 DEF SwapOfDirectories, Untouched
      <3> QED BY <2>1, <3>2, <3>5, <1>x, <1>y
    <2> QED BY <2>4, <2>5
  <1>6. CASE NoteBackup
    <2>1. /\ UNCHANGED <<current, previous, spent>> /\ publisher.at = "noting"
          /\ publisher' = [publisher EXCEPT !.at = "moving_in", !.backup = TRUE]
      BY <1>6 DEF NoteBackup, publication
    <2>2. publisher'.at = "moving_in" /\ publisher'.backup = TRUE
      BY <2>1, <1>f
    <2>3. current = None /\ (~spent.aborted => Serves(previous))
      BY <2>1, <1>i DEF SwapOfDirectories, Vacant
    <2>4. ~spent'.aborted => Serves(previous)'
      BY <2>1, <2>3, <1>s, <1>p DEF Serves, Whole
    <2>5. SwapOfDirectories'
      BY <2>1, <2>2, <2>3, <2>4 DEF SwapOfDirectories, Untouched
    <2> QED BY <2>1, <2>2, <2>5, <1>x, <1>y
  <1>7. CASE MoveIn
    <2>1. publisher.at = "moving_in" /\ publisher.k = 1 /\ Len(Order) = 1
      BY <1>7, OneGroup DEF MoveIn, ComposeInv
    <2>2. ~(publisher.k < Len(Order))
      BY <2>1
    <2>3. publisher' = [publisher EXCEPT !.at = "discarding"]
      BY <1>7, <2>2 DEF MoveIn
    <2>4. publisher'.at = "discarding"
      BY <2>3, <1>f
    <2>5. SwapOfDirectories'
      BY <2>4 DEF SwapOfDirectories, Untouched, Vacant
    <2> QED BY <2>1, <2>4, <2>5, <1>x, <1>y
  <1>8. CASE Discard
    <2>1. /\ current' = current /\ publisher.at = "discarding"
          /\ publisher' = [publisher EXCEPT !.at = "stopping"]
      BY <1>8 DEF Discard
    <2>2. publisher'.at = "stopping"
      BY <2>1, <1>f
    <2>3. Whole(current)'
      BY <2>1, <1>o, <1>w, <1>w2
    <2>4. SwapOfDirectories'
      BY <2>2 DEF SwapOfDirectories, Untouched, Vacant
    <2> QED BY <2>1, <2>2, <2>3, <2>4, <1>y DEF ServeInv
  <1>9. CASE Restore
    BY <1>9 DEF Restore, ComposeInv
  <1>10. CASE Fail
    <2>1. /\ current' = IF TakesBack THEN previous ELSE current
          /\ previous' = IF publisher.backup THEN None ELSE previous
          /\ publisher' = Idle
          /\ spent' = [spent EXCEPT !.aborted = @ \/ Doing("noting") \/ Doing("discarding")]
          /\ publisher.at \in {"moving_away", "moving_in", "noting", "discarding"}
      BY <1>10 DEF Fail, Swapping
    <2>2. /\ publisher'.at = "idle" /\ publisher'.backup = FALSE
          /\ spent'.aborted = (spent.aborted \/ Doing("noting") \/ Doing("discarding"))
      BY <2>1, <1>f, <1>q DEF Account
    <2>3. ASSUME ~spent'.aborted PROVE previous' = None /\ Serves(current)'
      <3>1. ~spent.aborted /\ publisher.at \in {"moving_away", "moving_in"}
        BY <2>1, <2>2, <2>3
      <3>2. CASE publisher.at = "moving_away"
        <4>1. ~publisher.backup /\ previous = None /\ Serves(current)
          BY <3>1, <3>2, <1>i DEF SwapOfDirectories
        <4>2. current' = current /\ previous' = None
          BY <2>1, <4>1 DEF TakesBack
        <4> QED BY <4>1, <4>2, <1>s, SameFiles
      <3>3. CASE publisher.at = "moving_in" /\ publisher.backup
        <4>1. current = None /\ Serves(previous)
          BY <3>1, <3>3, <1>i DEF SwapOfDirectories, Vacant
        <4>2. ~There(current, Published)
          BY <4>1, OneGroup DEF There, Directories, None, Part
        <4>3. current' = previous /\ previous' = None
          BY <2>1, <3>3, <4>2 DEF TakesBack
        <4> QED BY <4>1, <4>3, <1>s, <1>p DEF Serves, Whole
      <3>4. CASE publisher.at = "moving_in" /\ ~publisher.backup
        <4>1. previous = None /\ Serves(current)
          BY <3>1, <3>4, <1>i DEF SwapOfDirectories, Vacant
        <4>2. current' = current /\ previous' = None
          BY <2>1, <3>4, <4>1 DEF TakesBack
        <4> QED BY <4>1, <4>2, <1>s, SameFiles
      <3> QED BY <3>1, <3>2, <3>3, <3>4
    <2>4. SwapOfDirectories'
      BY <2>2, <2>3 DEF SwapOfDirectories, Vacant
    <2> QED BY <2>1, <2>2, <2>4, <1>x, <1>y
  <1>11. CASE Kill
    <2>1. publisher' = Idle /\ spent' = [spent EXCEPT !.outside = @ + 1, !.aborted = TRUE]
          /\ publisher.at # "idle"
      BY <1>11 DEF Kill
    <2>2. publisher'.at = "idle" /\ spent'.aborted
      BY <2>1, <1>f, <1>q DEF Account
    <2>3. SwapOfDirectories'
      BY <2>2 DEF SwapOfDirectories, Vacant
    <2> QED BY <2>1, <2>2, <2>3, <1>x, <1>y
  <1> QED
    BY <1>1, <1>2, <1>3, <1>4, <1>5, <1>6, <1>7, <1>8, <1>9, <1>10, <1>11
    DEF Publish, PublicationSteps

\* Whatever install.sh does, what it moves in is of one release, and so is what
\* it would put back.
LEMMA PublishServesParts ==
    ASSUME compose = FALSE, compose' = compose, Types, SwapInv, ServeInv, Publish
    PROVE  ServeInv'
  <1> USE DEF Doing, InSwap
  <1>s. srv' = srv
    BY DEF Publish, servers
  <1>p. Published' = Published /\ Published = Part
    <2>1. Published' = Published
      BY DEF Published, Order
    <2> QED BY <2>1, FourGroups
  <1>q. /\ publisher \in Script /\ spent \in Account
        /\ current \in Files /\ previous \in Files /\ staged \in Files
    BY DEF Types, ScriptTypes
  <1>i. SwapOfParts /\ Alone
    BY DEF ServeInv
  <1>n. None \in Files /\ \A t \in Part : None[t] = NoRelease
    BY NoneType DEF None
  <1>u. ASSUME NEW f \in Files, NEW h \in Files, NEW p \in Part
        PROVE  \A t \in Part : Put(f, {p}, h)[t] = IF t = p THEN h[t] ELSE f[t]
    BY DEF Put, Files
  <1>0. Idle.at = "idle" /\ \A w : [Idle EXCEPT !.at = w].at = w
    BY DEF Idle
  <1>f. ASSUME NEW w
        PROVE  /\ [publisher EXCEPT !.at = w].at = w
               /\ [publisher EXCEPT !.at = w].k = publisher.k
               /\ [publisher EXCEPT !.at = w].before = publisher.before
    BY <1>q DEF Script
  <1>g. ASSUME NEW w, NEW n
        PROVE  LET x == [publisher EXCEPT !.at = w, !.k = n]
                   y == [publisher EXCEPT !.k = n]
               IN  /\ x.at = w /\ x.k = n /\ x.before = publisher.before
                   /\ y.at = publisher.at /\ y.k = n /\ y.before = publisher.before
    BY <1>q DEF Script
  <1>b. publisher'.before = publisher.before =>
            (Whole(publisher.before) => Whole(publisher.before)')
    BY <1>p DEF Whole
  <1>x. ASSUME SwapOfParts', Alone', publisher'.at \notin {"stopping", "watching"}
        PROVE  ServeInv'
    BY <1>x DEF ServeInv
  <1>y. ASSUME publisher.at # "idle" PROVE Alone'
    BY <1>i, <1>s, <1>y DEF Alone, At
  \* Nothing has happened yet.
  <1>z. ASSUME Alone', current' = current, spent'.aborted = spent.aborted, Untouched,
               publisher'.at \in {"idle", "writing_key", "staging"}
        PROVE  ServeInv'
    <2>1. ~spent'.aborted => Serves(current)'
      BY <1>z, <1>i, <1>s, SameFiles DEF SwapOfParts
    <2>2. SwapOfParts'
      BY <1>z, <2>1 DEF SwapOfParts
    <2> QED BY <1>x, <1>z, <2>2
  <1>1. CASE Begin
    <2>1. /\ UNCHANGED current /\ publisher.at = "idle"
          /\ spent' = [spent EXCEPT !.publications = @ + 1, !.hands = 0]
          /\ \/ publisher' = publisher
             \/ publisher' = [Idle EXCEPT !.at = "writing_key"]
             \/ publisher' = [Idle EXCEPT !.at = "staging"]
      BY <1>1 DEF Begin
    <2>2. publisher'.at \in {"idle", "writing_key", "staging"} /\ spent'.aborted = spent.aborted
      <3>1. publisher'.at \in {"idle", "writing_key", "staging"}
        BY <2>1, <1>0
      <3>2. spent'.aborted = spent.aborted
        BY <2>1, <1>q DEF Account
      <3> QED BY <3>1, <3>2
    <2>3. Alone'
      <3>1. CASE \A s \in Server \ {Unit} : At(s, "down")
        BY <3>1, <1>s DEF Alone, At
      <3>2. CASE ~\A s \in Server \ {Unit} : At(s, "down")
        BY <1>1, <3>2, <2>1 DEF Publish, PublicationSteps, WriteKey, Stage, Clear, MoveAway,
           NoteBackup, MoveIn, Discard, Restore, Fail, Swapping, Kill
      <3> QED BY <3>1, <3>2
    <2> QED BY <2>1, <2>2, <2>3, <1>z DEF Untouched
  <1>2. CASE WriteKey
    <2>1. publisher.at = "writing_key" /\ publisher'.at = "staging" /\ UNCHANGED <<current, spent>>
      BY <1>2, <1>0 DEF WriteKey, publication
    <2> QED BY <2>1, <1>y, <1>z DEF Untouched
  <1>3. CASE Stage
    <2>1. /\ UNCHANGED <<current, spent>> /\ publisher.at = "staging"
          /\ \/ publisher' = Idle
             \/ /\ publisher' = [Idle EXCEPT !.at = "clearing"]
                /\ \E r \in Release : staged' = Holding(r)
      BY <1>3 DEF Stage
    <2>2. CASE publisher' = Idle
      BY <2>1, <2>2, <1>0, <1>y, <1>z DEF Untouched
    <2>3. CASE publisher' = [Idle EXCEPT !.at = "clearing"] /\ \E r \in Release : staged' = Holding(r)
      <3>1. publisher'.at = "clearing"
        BY <2>3, <1>0
      <3>2. \E r \in Release : \A t \in Part : staged'[t] = r
        BY <2>3, <1>p DEF Holding
      <3>3. ~spent'.aborted => Serves(current)'
        BY <2>1, <1>i, <1>s, SameFiles DEF SwapOfParts, Untouched
      <3>4. SwapOfParts'
        BY <3>1, <3>2, <3>3 DEF SwapOfParts
      <3> QED BY <2>1, <3>1, <3>4, <1>x, <1>y
    <2> QED BY <2>1, <2>2, <2>3
  <1>4. CASE Clear
    <2>1. /\ UNCHANGED <<current, staged, spent>> /\ publisher.at = "clearing"
          /\ publisher'.at = "moving_away" /\ publisher'.k = 1 /\ publisher'.before = current
      BY <1>4, <1>q DEF Clear, Script
    <2>2. \E r \in Release : \A t \in Part : staged'[t] = r
      BY <2>1, <1>i DEF SwapOfParts
    <2>3. \A t \in Part : ~(Rank(t) < 1)
      BY RankType
    <2>4. ~spent'.aborted => Whole(publisher.before)'
      BY <2>1, <1>i, <1>p DEF SwapOfParts, Untouched, Serves, Whole
    <2>5. SwapOfParts'
      BY <2>1, <2>2, <2>3, <2>4 DEF SwapOfParts, Untouched
    <2> QED BY <2>1, <2>5, <1>x, <1>y
  <1>5. CASE MoveAway
    <2>1. /\ publisher.at = "moving_away" /\ publisher.k \in 1..4 /\ UNCHANGED <<staged, spent>>
          /\ publisher' = [publisher EXCEPT !.at = "moving_in"]
      BY <1>5 DEF MoveAway, SwapInv
    <2>2. PICK p \in Part : /\ Group = {p} /\ Rank(p) = publisher.k
                            /\ \A t \in Part \ {p} : Rank(t) # publisher.k
      BY <2>1, OnePart DEF Group
    <2>3. /\ publisher'.at = "moving_in" /\ publisher'.k = publisher.k
          /\ publisher'.before = publisher.before
      BY <2>1, <1>f
    <2>4. \A t \in Part \ {p} : current'[t] = current[t]
      <3>1. current' = current \/ current' = Put(current, {p}, None)
        BY <1>5, <2>2 DEF MoveAway
      <3> QED BY <3>1, <1>q, <1>n, <1>u
    <2>5. PICK r \in Release : \A t \in Part :
              IF Rank(t) < publisher.k THEN current[t] = r ELSE staged[t] = r
      BY <2>1, <1>i DEF SwapOfParts
    <2>6. \A t \in Part : IF Rank(t) < publisher'.k THEN current'[t] = r ELSE staged'[t] = r
      <3>1. ASSUME NEW t \in Part
            PROVE  IF Rank(t) < publisher'.k THEN current'[t] = r ELSE staged'[t] = r
        <4>1. CASE t = p
          <5>1. ~(Rank(p) < publisher.k)
            BY <2>1, <2>2
          <5> QED BY <5>1, <4>1, <2>1, <2>3, <2>5
        <4>2. CASE t # p
          BY <4>2, <2>1, <2>3, <2>4, <2>5
        <4> QED BY <4>1, <4>2
      <3> QED BY <3>1
    <2>7. ~spent'.aborted => Whole(publisher.before)'
      BY <2>1, <2>3, <1>i, <1>b DEF SwapOfParts
    <2>8. SwapOfParts'
      BY <2>3, <2>6, <2>7 DEF SwapOfParts, Untouched
    <2> QED BY <2>1, <2>3, <2>8, <1>x, <1>y
  <1>6. CASE NoteBackup
    BY <1>6 DEF NoteBackup, SwapInv
  <1>7. CASE MoveIn
    <2>1. publisher.at = "moving_in" /\ publisher.k \in 1..4 /\ spent' = spent
      BY <1>7 DEF MoveIn, SwapInv
    <2>2. PICK p \in Part : /\ Group = {p} /\ Rank(p) = publisher.k
                            /\ \A t \in Part \ {p} : Rank(t) # publisher.k
      BY <2>1, OnePart DEF Group
    <2>3. current' = Put(current, {p}, staged) /\ staged' = Put(staged, {p}, None)
      BY <1>7, <2>2 DEF MoveIn
    <2>4. \A t \in Part : IF t = p THEN current'[t] = staged[t]
                                   ELSE current'[t] = current[t] /\ staged'[t] = staged[t]
      BY <1>q, <1>n, <1>u, <2>3
    <2>5. PICK r \in Release : \A t \in Part :
              IF Rank(t) < publisher.k THEN current[t] = r ELSE staged[t] = r
      BY <2>1, <1>i DEF SwapOfParts
    <2>6. \A t \in Part : IF Rank(t) <= publisher.k THEN current'[t] = r ELSE staged'[t] = r
      <3>1. ASSUME NEW t \in Part
            PROVE  IF Rank(t) <= publisher.k THEN current'[t] = r ELSE staged'[t] = r
        <4>1. CASE t = p
          <5>1. ~(Rank(p) < publisher.k) /\ Rank(p) <= publisher.k
            BY <2>1, <2>2
          <5> QED BY <5>1, <4>1, <2>4, <2>5
        <4>2. CASE t # p
          <5>1. Rank(t) <= publisher.k <=> Rank(t) < publisher.k
            BY <4>2, <2>1, <2>2, RankType
          <5> HIDE DEF Rank
          <5> QED BY <5>1, <4>2, <2>4, <2>5
        <4> QED BY <4>1, <4>2
      <3> QED BY <3>1
    <2>7. CASE publisher.k < 4
      <3>1. publisher' = [publisher EXCEPT !.at = "moving_away", !.k = publisher.k + 1]
        BY <1>7, <2>7, FourGroups DEF MoveIn
      <3>2. publisher'.at = "moving_away" /\ publisher'.k = publisher.k + 1
            /\ publisher'.before = publisher.before
        BY <3>1, <1>g
      <3>3. \A t \in Part : Rank(t) < publisher'.k <=> Rank(t) <= publisher.k
        BY <2>1, <3>2, RankType
      <3>4. \A t \in Part : IF Rank(t) < publisher'.k THEN current'[t] = r ELSE staged'[t] = r
        BY <2>6, <3>3
      <3>5. ~spent'.aborted => Whole(publisher.before)'
        BY <2>1, <3>2, <1>i, <1>b DEF SwapOfParts
      <3>6. SwapOfParts'
        BY <3>2, <3>4, <3>5 DEF SwapOfParts, Untouched
      <3> QED BY <2>1, <3>2, <3>6, <1>x, <1>y
    <2>8. CASE ~(publisher.k < 4)
      <3>1. publisher' = [publisher EXCEPT !.at = "stopping"]
        BY <1>7, <2>8, FourGroups DEF MoveIn
      <3>2. publisher'.at = "stopping" /\ publisher'.before = publisher.before
        BY <3>1, <1>f
      <3>3. \A t \in Part : current'[t] = r
        <4>1. \A t \in Part : Rank(t) <= publisher.k
          BY <2>1, <2>8, RankType
        <4> QED BY <4>1, <2>6
      <3>4. Whole(current)'
        BY <3>3, <1>p DEF Whole, Part
      <3>5. ~spent'.aborted => Whole(publisher.before)'
        BY <2>1, <3>2, <1>i, <1>b DEF SwapOfParts
      <3>6. SwapOfParts'
        BY <3>2, <3>5 DEF SwapOfParts, Untouched
      <3> QED BY <2>1, <3>2, <3>4, <3>6, <1>y DEF ServeInv
    <2> QED BY <2>7, <2>8
  <1>8. CASE Discard
    BY <1>8 DEF Discard, SwapInv
  <1>9. CASE Restore
    <2>1. publisher.at = "restoring" /\ spent' = spent
          /\ \/ publisher' = [publisher EXCEPT !.k = publisher.k + 1]
             \/ publisher' = [publisher EXCEPT !.at = "undone"]
      BY <1>9 DEF Restore
    <2>2. publisher'.at \in {"restoring", "undone"} /\ publisher'.before = publisher.before
      <3>1. CASE publisher' = [publisher EXCEPT !.k = publisher.k + 1]
        BY <2>1, <3>1, <1>g
      <3>2. CASE publisher' = [publisher EXCEPT !.at = "undone"]
        BY <3>2, <1>f
      <3> QED BY <2>1, <3>1, <3>2
    <2>3. ~spent'.aborted => Whole(publisher.before)'
      BY <2>1, <2>2, <1>i, <1>b DEF SwapOfParts
    <2>4. SwapOfParts'
      BY <2>2, <2>3 DEF SwapOfParts, Untouched
    <2> QED BY <2>1, <2>2, <2>4, <1>x, <1>y
  <1>10. CASE Fail
    <2>1. /\ publisher' = [publisher EXCEPT !.at = "restoring", !.k = 1] /\ spent' = spent
          /\ publisher.at \in {"moving_away", "moving_in", "stopping", "watching"}
      BY <1>10 DEF Fail, Swapping
    <2>2. publisher'.at = "restoring" /\ publisher'.before = publisher.before
      BY <2>1, <1>g
    <2>3. ~spent'.aborted => Whole(publisher.before)'
      BY <2>1, <2>2, <1>i, <1>b DEF SwapOfParts
    <2>4. SwapOfParts'
      BY <2>2, <2>3 DEF SwapOfParts, Untouched
    <2> QED BY <2>1, <2>2, <2>4, <1>x, <1>y
  <1>11. CASE Kill
    <2>1. publisher' = Idle /\ spent' = [spent EXCEPT !.outside = @ + 1, !.aborted = TRUE]
          /\ publisher.at # "idle"
      BY <1>11 DEF Kill
    <2>2. publisher'.at = "idle" /\ spent'.aborted
      BY <2>1, <1>0, <1>q DEF Account
    <2>3. SwapOfParts'
      BY <2>2 DEF SwapOfParts
    <2> QED BY <2>1, <2>2, <2>3, <1>x, <1>y
  <1> QED
    BY <1>1, <1>2, <1>3, <1>4, <1>5, <1>6, <1>7, <1>8, <1>9, <1>10, <1>11
    DEF Publish, PublicationSteps

-----------------------------------------------------------------------------
(* Everybody *)

LEMMA ServeStep ==
    ASSUME Types, ReleaseInv, ServeInv, [Next]_vars
    PROVE  ServeInv'
  <1> USE DEF Doing
  <1>0. compose' = compose /\ compose \in BOOLEAN
    <2>1. compose \in BOOLEAN
      BY DEF Types, ScriptTypes
    <2> QED
      BY <2>1 DEF Next, vars, Publish, PublicationSteps, Begin, WriteKey, Stage, Clear, MoveAway,
       NoteBackup, MoveIn, Discard, Restore, Fail, Kill, Serve, host, Crash, StartByHand,
       StopByHand, Restart, StopUnit, StartUnit, Watch, Finish, LoseKey, Come, Fetch
  <1>q. publisher \in Script /\ spent \in Account /\ ServerTypes
    BY DEF Types, ScriptTypes
  <1>i. Alone
    BY DEF ServeInv
  <1>f. /\ [publisher EXCEPT !.at = "watching"].at = "watching"
        /\ [publisher EXCEPT !.at = "watching"].before = publisher.before
        /\ Idle.at = "idle"
    BY <1>q DEF Script, Idle
  <1>p. Published' = Published
    BY <1>0 DEF Published, Order
  \* A step of one server that does not start another beside the script.
  <1>a. ASSUME NEW s \in Server, UNCHANGED publication, publisher' = publisher,
               spent'.aborted = spent.aborted, \A t \in Server \ {s} : srv'[t] = srv[t],
               ~At(s, "down") \/ s = Unit \/ publisher.at = "idle",
               \A f \in Files : Stands(f) => StillRead(f)
        PROVE  ServeInv'
    <2>1. Alone'
      BY <1>a, <1>i DEF Alone, At
    <2> QED BY <1>0, <1>a, <2>1, ServersKeep
  <1>b. ASSUME NEW s \in Server, Exec(s), UNCHANGED publication, publisher' = publisher,
               spent'.aborted = spent.aborted, s = Unit \/ publisher.at = "idle"
        PROVE  ServeInv'
    <2>1. \A f \in Files : Stands(f) => StillRead(f)
      <3>1. \A f \in Files : Stands(f) => current["server"] = f["server"]
        BY DEF Stands, None, Part
      <3> QED BY <1>b, <1>q, <3>1, ExecReads
    <2>2. \A t \in Server \ {s} : srv'[t] = srv[t]
      BY <1>b, <1>q, OthersStay
    <2> QED BY <1>a, <1>b, <2>1, <2>2
  <1>c. ASSUME NEW s \in Server, Interrupt(s), UNCHANGED publication, publisher' = publisher,
               spent'.aborted = spent.aborted
        PROVE  ServeInv'
    <2>1. \A f \in Files : Stands(f) => StillRead(f)
      BY <1>c, <1>q, InterruptReads
    <2>2. ~At(s, "down") /\ (Gone(s) \/ Move(s, "closing"))
      BY <1>c DEF Interrupt, Starting, Refuse, At
    <2>3. \A t \in Server \ {s} : srv'[t] = srv[t]
      BY <2>2, <1>q, OthersStay
    <2> QED BY <1>a, <1>c, <2>1, <2>2, <2>3
  <1>1. CASE Publish
    <2>1. CASE compose
      BY <1>0, <1>1, <2>1, PublishServesCompose DEF ReleaseInv
    <2>2. CASE ~compose
      BY <1>0, <1>1, <2>2, PublishServesParts DEF ReleaseInv
    <2> QED BY <2>1, <2>2
  <1>2. ASSUME NEW s \in Server, Serve(s) PROVE ServeInv'
    <2>1. UNCHANGED host /\ StartStep(s)
      BY <1>2 DEF Serve
    <2>2. \A f \in Files : Stands(f) => StillRead(f)
      BY <2>1, <1>q, StartReads
    <2>3. ~At(s, "down")
      BY <2>1 DEF StartStep, ReadPublicKey, LoadUpdateCatalog, LoadInstallerCatalog,
         LookForKey, LookForDatabase, LinkKey, ReadKey, OpenDatabase, CreateTables,
         LookForSocket, RemoveSocket, Bind, Listen, Close, At
    <2>4. \A t \in Server \ {s} : srv'[t] = srv[t]
      BY <2>1, <1>q DEF StartStep, ReadPublicKey, LoadUpdateCatalog, LoadInstallerCatalog,
         LookForKey, LookForDatabase, LinkKey, ReadKey, OpenDatabase, CreateTables,
         LookForSocket, RemoveSocket, Bind, Listen, Close, Move, Refuse, Gone, ServerTypes
    <2> QED BY <1>a, <2>1, <2>2, <2>3, <2>4 DEF host, publication
  <1>3. ASSUME NEW s \in Server, Crash(s) PROVE ServeInv'
    <2>1. /\ ~At(s, "down") /\ Gone(s) /\ UNCHANGED <<publication, publisher>>
          /\ spent' = [spent EXCEPT !.outside = @ + 1]
      BY <1>3 DEF Crash
    <2>2. spent'.aborted = spent.aborted
      BY <2>1, <1>q DEF Account
    <2>3. \A f \in Files : Stands(f) => StillRead(f)
      BY <2>1, <1>q, GoneReads
    <2> QED BY <1>a, <1>q, <2>1, <2>2, <2>3, OthersStay
  <1>4. ASSUME NEW s \in Server, StartByHand(s) PROVE ServeInv'
    <2>1. /\ Exec(s) /\ publisher.at = "idle" /\ UNCHANGED <<publication, publisher>>
          /\ spent' = [spent EXCEPT !.hands = @ + 1]
      BY <1>4 DEF StartByHand
    <2>2. spent'.aborted = spent.aborted
      BY <2>1, <1>q DEF Account
    <2> QED BY <1>b, <2>1, <2>2
  <1>5. ASSUME NEW s \in Server, StopByHand(s) PROVE ServeInv'
    BY <1>5, <1>c DEF StopByHand, host
  <1>6. CASE Restart
    BY <1>6, <1>b, ServerAssumption DEF Restart, host
  <1>7. CASE StopUnit
    BY <1>7, <1>c, ServerAssumption DEF StopUnit, host
  <1>8. CASE StartUnit
    <2>1. /\ current' = current /\ spent' = spent /\ At(Unit, "down") /\ previous' = previous
          /\ \/ publisher.at = "stopping" /\ publisher' = [publisher EXCEPT !.at = "watching"]
             \/ publisher.at = "undone" /\ publisher' = Idle
          /\ srv' = srv \/ Exec(Unit)
      BY <1>8 DEF StartUnit, servers
    <2>2. \A s \in Server : At(s, "down")
      BY <1>i, <2>1 DEF Alone
    <2>3. \A s \in Server : HasRead(srv'[s], current)
      <3>1. \A s \in Server : HasRead(srv[s], current)
        BY <2>2 DEF HasRead, At
      <3>2. CASE srv' = srv
        BY <3>1, <3>2
      <3>3. CASE Exec(Unit)
        BY <3>1, <3>3, <1>q, ExecReads, ServerAssumption DEF StillRead
      <3> QED BY <2>1, <3>2, <3>3
    <2>4. Whole(current) => Serves(current)'
      BY <2>1, <2>3, <1>p DEF Serves, Whole
    <2>5. \A s \in Server \ {Unit} : srv'[s].at = "down"
      BY <2>1, <2>2, <1>q, OthersStay, ServerAssumption DEF At
    <2>6. Alone'
      BY <2>5 DEF Alone, At
    <2>7. CASE publisher.at = "stopping"
      <3>1. publisher' = [publisher EXCEPT !.at = "watching"]
        BY <2>1, <2>7
      <3>2. publisher'.at = "watching" /\ publisher'.before = publisher.before
        BY <3>1, <1>f
      <3>3. Serves(current)'
        BY <2>4, <2>7 DEF ServeInv
      <3>4. CASE compose
        <4>1. SwapOfDirectories'
          BY <3>2 DEF SwapOfDirectories, Untouched, Vacant
        <4> QED BY <1>0, <2>6, <3>2, <3>3, <3>4, <4>1 DEF ServeInv
      <3>5. CASE ~compose
        <4>1. SwapOfParts
          BY <3>5 DEF ServeInv
        <4>2. ~spent'.aborted => Whole(publisher.before)'
          BY <2>1, <2>7, <3>2, <4>1, <1>p DEF SwapOfParts, InSwap, Whole
        <4>3. SwapOfParts'
          BY <3>2, <4>2 DEF SwapOfParts, Untouched
        <4> QED BY <1>0, <2>6, <3>2, <3>3, <3>5, <4>3 DEF ServeInv
      <3> QED BY <3>4, <3>5
    <2>8. CASE publisher.at = "undone"
      <3>1. ~compose
        BY <2>8 DEF ReleaseInv, ComposeInv
      <3>2. publisher' = Idle
        BY <2>1, <2>8
      <3>3. publisher'.at = "idle"
        BY <3>2, <1>f
      <3>4. SwapOfParts /\ current = publisher.before
        BY <2>8, <3>1 DEF ServeInv, ReleaseInv, SwapInv
      <3>5. ~spent'.aborted => Serves(current)'
        BY <2>1, <2>4, <2>8, <3>4 DEF SwapOfParts
      <3>6. SwapOfParts'
        BY <3>3, <3>5 DEF SwapOfParts, InSwap
      <3> QED BY <1>0, <2>6, <3>1, <3>3, <3>6 DEF ServeInv
    <2> QED BY <2>1, <2>7, <2>8
  <1>9. CASE Watch
    <2>1. /\ current' = current /\ previous' = None /\ publisher' = Idle /\ srv' = srv
          /\ publisher.at = "watching"
      BY <1>9 DEF Watch, Finish, servers
    <2>2. publisher'.at = "idle"
      BY <2>1, <1>f
    <2>3. Serves(current)'
      BY <2>1, <1>0, SameFiles DEF ServeInv
    <2>4. Alone'
      BY <2>2 DEF Alone
    <2>5. SwapOfDirectories' /\ SwapOfParts'
      BY <2>1, <2>2, <2>3 DEF SwapOfDirectories, SwapOfParts, Vacant, InSwap
    <2> QED BY <2>2, <2>4, <2>5 DEF ServeInv
  <1>10. CASE LoseKey \/ Come \/ Fetch \/ UNCHANGED vars
    <2>1. UNCHANGED <<publication, publisher, srv>> /\ spent'.aborted = spent.aborted
      <3>1. /\ UNCHANGED <<publication, publisher, srv>>
            /\ spent' = spent \/ spent' = [spent EXCEPT !.outside = @ + 1]
        BY <1>10 DEF LoseKey, Come, Fetch, vars, host, servers
      <3> QED BY <3>1, <1>q DEF Account
    <2>2. \A f \in Files : StillRead(f)
      BY <2>1 DEF StillRead
    <2>3. Alone'
      BY <2>1, <1>i DEF Alone, At
    <2> QED BY <1>0, <2>1, <2>2, <2>3, ServersKeep
  <1> QED
    BY <1>1, <1>2, <1>3, <1>4, <1>5, <1>6, <1>7, <1>8, <1>9, <1>10 DEF Next

LEMMA ServeInit == Init => ServeInv
  <1> SUFFICES ASSUME Init PROVE ServeInv
    OBVIOUS
  <1>1. Idle.at = "idle" /\ Off.at = "down" /\ publisher = Idle
    BY DEF Idle, Off, Init
  <1>2. \A s \in Server : srv[s].at = "down"
    BY <1>1 DEF Init
  <1>3. Whole(current)
    <2>1. current = Holding(Preinstalled) \/ current = None
      BY DEF Init
    <2>2. Published \subseteq Part /\ "updates" \in Published
      <3>1. compose \in BOOLEAN
        BY DEF Init
      <3> QED BY <3>1, OneGroup, FourGroups DEF Directories, Part
    <2> QED BY <2>1, <2>2 DEF Whole, Holding, None, Part
  <1>4. Serves(current)
    BY <1>2, <1>3 DEF Serves, HasRead
  <1>5. SwapOfDirectories /\ SwapOfParts
    BY <1>1, <1>4 DEF SwapOfDirectories, SwapOfParts, Doing, Vacant, InSwap, Init
  <1> QED BY <1>1, <1>5 DEF ServeInv, Alone, Doing

\* Unless a script has been cut short, what is served, what lies on the disk and
\* the program that serves it are of one release once the script has ended:
\* however often servers die and are started again in the middle of the swap, and
\* however the swap fails.
THEOREM OneReleaseServed == Spec => []OneRelease
  <1>1. ASSUME ServeInv, Types PROVE OneRelease
    <2> SUFFICES ASSUME Doing("idle"), ~spent.aborted, NEW s \in Server, Up(s),
                        NEW t \in Published
                 PROVE  /\ current[t] = srv[s].updates
                        /\ srv[s].installers = srv[s].updates
                        /\ srv[s].binary \in {current["server"]}
      BY DEF OneRelease
    <2>1. Serves(current)
      BY <1>1 DEF ServeInv, SwapOfDirectories, SwapOfParts, Untouched, Doing
    <2>2. "installers" \in Published
      <3>1. compose \in BOOLEAN
        BY <1>1 DEF Types, ScriptTypes
      <3> QED BY <3>1, OneGroup, FourGroups DEF Directories, Part
    <2> QED BY <2>1, <2>2 DEF Serves, Whole, HasRead, Up, At
  <1>2. Init => Types /\ ReleaseInv /\ ServeInv
    BY InitTypes, ReleaseInit, ServeInit
  <1>3. Types /\ ReleaseInv /\ ServeInv /\ [Next]_vars => Types' /\ ReleaseInv' /\ ServeInv'
    BY TypesStep, ReleaseStep, ServeStep
  <1> QED BY <1>1, <1>2, <1>3, PTL DEF Spec

==============================================================================
