---------------------------- MODULE ServerStart ----------------------------
(***************************************************************************)
(* main of cmd/xchat-server from its command line to the first request and *)
(* back: it loads the catalogs, makes or reads the encryption key, opens    *)
(* the database and takes the admin socket.  Under Compose another server   *)
(* may be run on the same volumes meanwhile.  Every refusal is an           *)
(* os.Exit(1), which runs no deferred Close.                                *)
(***************************************************************************)
EXTENDS Publication

CONSTANTS Server,
          Unit,         \* the one that systemd or Docker starts again
          NoServer,
          Racing,       \* whether two servers may find the same dead socket
          MaxHands      \* bound: servers started by hand

ASSUME ServerAssumption == Unit \in Server /\ NoServer \notin Server
ASSUME StartBounds == Racing \in BOOLEAN /\ MaxHands \in Nat

VARIABLES srv,      \* the processes
          socket    \* who has created the file admin.sock, if it exists

servers == <<srv, socket>>

\* updates, installers: the catalogs in memory. trusted: the public key last
\* read. key: the encryption key. binary: what it is a process of.
Off == [at |-> "down", updates |-> NoRelease, installers |-> NoRelease,
        trusted |-> NoRelease, binary |-> NoRelease, key |-> NoKey]

At(s, where) == srv[s].at = where
Up(s) == At(s, "up")

\* Its admin listener accepts: the dial of another server finds it alive.
Alive(s) == srv[s].at \in {"listen", "up", "closing"}

Starting(s) == srv[s].at \notin {"down", "up", "closing"}

Move(s, where) == srv' = [srv EXCEPT ![s].at = where]

\* The process is gone. The file of its socket stays, on the volume of Compose;
\* systemd removes the RuntimeDirectory.
Gone(s) ==
    /\ srv' = [srv EXCEPT ![s] = Off]
    /\ socket' = IF compose THEN socket ELSE NoServer

Refuse(s) == Gone(s) /\ UNCHANGED hostData

RestStays == UNCHANGED <<socket, hostData>>

\* exec, where there is a program
Exec(s) ==
    /\ At(s, "down")
    /\ compose \/ current["server"] # NoRelease
    /\ srv' = [srv EXCEPT ![s] = [Off EXCEPT !.at = "updates_key", !.binary = current["server"]]]
    /\ UNCHANGED <<socket, hostData>>

-----------------------------------------------------------------------------
(* loadUpdateOptions, loadInstallerOptions: each reads the public key file  *)
(* and then its directory. A swap inside one directory read makes the       *)
(* verification fail, like a directory that is missing.                     *)

ReadPublicKey(s) ==
    \E step \in {<<"updates_key", "updates">>, <<"installers_key", "installers">>} :
        /\ At(s, step[1])
        /\ IF current["key"] = NoRelease
           THEN Refuse(s)
           ELSE /\ srv' = [srv EXCEPT ![s].at = step[2], ![s].trusted = current["key"]]
                /\ RestStays

LoadUpdateCatalog(s) ==
    /\ At(s, "updates")
    /\ IF Verifies(current["updates"], PublicKey[srv[s].trusted])
       THEN /\ srv' = [srv EXCEPT ![s].at = "installers_key", ![s].updates = current["updates"]]
            /\ RestStays
       ELSE Refuse(s)

\* Only the command line of Compose has -init-encryption-key.
LoadInstallerCatalog(s) ==
    /\ At(s, "installers")
    /\ IF Verifies(current["installers"], PublicKey[srv[s].trusted])
       THEN /\ srv' = [srv EXCEPT ![s].at = IF compose THEN "look_key" ELSE "read_key",
                                  ![s].installers = current["installers"],
                                  ![s].trusted = NoRelease]
            /\ RestStays
       ELSE Refuse(s)

-----------------------------------------------------------------------------
(* securestore.EnsureKey, ReadKey and Open *)

\* Lstat of the key
LookForKey(s) ==
    /\ At(s, "look_key")
    /\ Move(s, IF keyFile # NoKey THEN "read_key" ELSE "look_db")
    /\ RestStays

\* Lstat of the database: a database without its key is not given another.
LookForDatabase(s) ==
    /\ At(s, "look_db")
    /\ IF db # NoKey THEN Refuse(s) ELSE Move(s, "link") /\ RestStays

\* Defective variant: the new key replaces what has come meanwhile (os.Rename).
RenameKey(s) ==
    /\ At(s, "link")
    /\ keyFile' = FreshKey
    /\ Move(s, "read_key")
    /\ UNCHANGED <<socket, db>>

\* The random key is complete in a temporary file; os.Link gives it its name,
\* unless another server has been faster.
LinkKey(s) ==
    /\ At(s, "link")
    /\ keyFile' = IF keyFile = NoKey THEN FreshKey ELSE keyFile
    /\ Move(s, "read_key")
    /\ UNCHANGED <<socket, db>>

ReadKey(s) ==
    /\ At(s, "read_key")
    /\ IF keyFile \in EncryptionKey
       THEN /\ srv' = [srv EXCEPT ![s].at = "open", ![s].key = keyFile]
            /\ RestStays
       ELSE Refuse(s)

\* Open counts the tables, for which SQLite creates the file; what has been
\* sealed into the database of another key cannot be opened.
OpenDatabase(s) ==
    /\ At(s, "open")
    /\ IF db \notin EncryptionKey
       THEN db' = "empty" /\ Move(s, "create") /\ UNCHANGED <<socket, keyFile>>
       ELSE IF db = srv[s].key THEN Move(s, "look_socket") /\ RestStays
       ELSE Refuse(s)

\* One transaction creates the tables and seals key_check; it fails when the
\* tables have come meanwhile.
CreateTables(s) ==
    /\ At(s, "create")
    /\ IF db = "empty"
       THEN db' = srv[s].key /\ Move(s, "look_socket") /\ UNCHANGED <<socket, keyFile>>
       ELSE Refuse(s)

-----------------------------------------------------------------------------
(* admin.Start, and the way back *)

\* Defective variant: any socket that is in the way counts as stale.
LookForSocketUndialled(s) ==
    /\ At(s, "look_socket")
    /\ Racing \/ \A t \in Server : ~At(t, "remove_socket")
    /\ Move(s, IF socket = NoServer THEN "bind" ELSE "remove_socket")
    /\ RestStays

\* Defective variant: a file in the way is a server that lives.
LookForAnySocket(s) ==
    /\ At(s, "look_socket")
    /\ IF socket = NoServer THEN Move(s, "bind") /\ RestStays ELSE Refuse(s)

\* Lstat, and a dial to find out whether somebody listens. Two servers that
\* find the same dead socket are let at it one after the other unless Racing.
LookForSocket(s) ==
    /\ At(s, "look_socket")
    /\ Racing \/ \A t \in Server : ~At(t, "remove_socket")
    /\ IF socket = NoServer THEN Move(s, "bind") /\ RestStays
       ELSE IF Alive(socket) THEN Refuse(s)
       ELSE Move(s, "remove_socket") /\ RestStays

RemoveSocket(s) ==
    /\ At(s, "remove_socket")
    /\ IF socket = NoServer THEN Refuse(s)
       ELSE /\ socket' = NoServer
            /\ Move(s, "bind")
            /\ UNCHANGED hostData

Bind(s) ==
    /\ At(s, "bind")
    /\ IF socket # NoServer THEN Refuse(s)
       ELSE /\ socket' = s
            /\ Move(s, "listen")
            /\ UNCHANGED hostData

\* NewRooms, and ListenAndServe. (A port that is taken ends the server like a
\* death, and is one.)
Listen(s) ==
    /\ At(s, "listen")
    /\ Move(s, "up")
    /\ RestStays

\* SIGTERM, SIGINT: there is no handler before the server is about to serve.
Interrupt(s) ==
    \/ srv[s].at \in {"listen", "up"} /\ Move(s, "closing") /\ RestStays
    \/ Starting(s) /\ Refuse(s)

\* The deferred Close calls, after Shutdown: net removes the file of the socket
\* by its name.
Close(s) ==
    /\ At(s, "closing")
    /\ socket' = NoServer
    /\ srv' = [srv EXCEPT ![s] = Off]
    /\ UNCHANGED hostData

StartStep(s) ==
    \/ ReadPublicKey(s) \/ LoadUpdateCatalog(s) \/ LoadInstallerCatalog(s)
    \/ LookForKey(s) \/ LookForDatabase(s) \/ LinkKey(s) \/ ReadKey(s)
    \/ OpenDatabase(s) \/ CreateTables(s)
    \/ LookForSocket(s) \/ RemoveSocket(s) \/ Bind(s) \/ Listen(s)
    \/ Close(s)

=============================================================================
