----------------------------- MODULE ChatServer -----------------------------
(***************************************************************************)
(* internal/server over the encrypted room store: the connections, the     *)
(* session map, and the frames waiting to be written to each client.       *)
(*                                                                         *)
(* join, handle, recall, leave, ClearHistory and Close hold Server.mu from *)
(* their first read to their last frame, so each of them is one action;    *)
(* what interleaves with them is the goroutine that writes a client's      *)
(* frames (writeLoop), timeouts and broken connections, the clock, and the *)
(* end of the process.  Store calls are made under the same lock, so the   *)
(* identifiers they use are those of the file (RoomStore!MemoryAgrees).    *)
(*                                                                         *)
(* A request comes from the client's side of the connection: the actions   *)
(* take it as a parameter, and Next draws it from everything a client may  *)
(* send.                                                                   *)
(***************************************************************************)
EXTENDS RoomDb, Sequences

CONSTANTS Conn,         \* connections; one that has ended can be dialled again
          Name,         \* nicknames
          QueueCap,     \* capacity of session.outgoing, 256
          DeferCap,     \* most frames kept in session.deferred, 128
          MaxId,        \* bound: messages ever sent
          MaxDraws,     \* bound: recalls and cleanups
          MaxAge,       \* bound: messages that get older than RecallWindow
          MaxQueue      \* bound: a client sends no request while it has this
                        \* many unread frames

ASSUME CapAssumption == QueueCap \in Nat \ {0} /\ DeferCap \in Nat

VARIABLES db,           \* the room database
          horizon,      \* messages up to this id are older than RecallWindow
          closed,       \* Server.closed
          conns,        \* the goroutines and session of each connection
          sessions      \* Server.sessions

vars == <<db, horizon, closed, conns, sessions>>

\* Why a join is refused before the lock is taken. The client retries after
\* invalid_join and gives up after the others, which unauthorized stands for:
\* invalid_name, upgrade_required, unsupported_client.
JoinFailures == {"invalid_join", "unauthorized"}

-----------------------------------------------------------------------------
(* Frames. req is Frame.RequestID: it comes back in the answer, and is ""   *)
(* in what a session is told of the doings of others.                      *)

Welcome(inst, through, resumed, users) ==
    [type |-> "welcome", instance |-> inst, through |-> through,
     resumed |-> resumed, users |-> users]

PageFrame(type, req, page) ==
    [type |-> type, req |-> req, messages |-> page.messages, hasMore |-> page.hasMore]

SyncComplete(through) == [type |-> "sync_complete", through |-> through]
Message(req, m)       == [type |-> "message", req |-> req, message |-> m]
Ack(req, m)           == [type |-> "ack", req |-> req, message |-> m]
Recalled(req, m, inst) ==
    [type |-> "recalled", req |-> req, message |-> m, instance |-> inst]
HistoryCleared(inst)  == [type |-> "history_cleared", instance |-> inst]
Presence(users)       == [type |-> "presence", users |-> users]

\* The code of an error matters in answer to a join only.
Error(req, code)      == [type |-> "error", req |-> req, code |-> code]
Failure(req)          == Error(req, "failure")

-----------------------------------------------------------------------------
(* One session: values of conns[c] *)

Free == [phase |-> "free", live |-> FALSE]

Accepted == [phase |-> "reading", live |-> TRUE]

Refused(live, code) ==
    [phase |-> "refused", live |-> live, outgoing |-> <<Error("join", code)>>]

\* enqueue, for several frames in a row: the frame that finds the channel full
\* cancels the session, and a cancelled session takes no more frames.
EnqueueAll(s, frames) ==
    LET space == QueueCap - Len(s.outgoing)
    IN  IF ~s.live THEN s
        ELSE IF Len(frames) <= space THEN [s EXCEPT !.outgoing = @ \o frames]
        ELSE [s EXCEPT !.outgoing = @ \o SubSeq(frames, 1, space), !.live = FALSE]

Enqueue(s, frame) == EnqueueAll(s, <<frame>>)

\* Defective variant: news is not held back during the catching up.
DeliverAtOnce(s, frame) == Enqueue(s, frame)

\* deliver: news for a session that is catching up waits until it has.
Deliver(s, frame) ==
    IF ~s.syncing THEN Enqueue(s, frame)
    ELSE IF Len(s.deferred) >= DeferCap THEN [s EXCEPT !.live = FALSE]
    ELSE [s EXCEPT !.deferred = Append(@, frame)]

\* Defective variant: the deferred frames are forgotten.
FinishSyncDropping(s) ==
    [EnqueueAll(s, <<SyncComplete(s.through)>>)
        EXCEPT !.syncing = FALSE, !.deferred = <<>>]

FinishSync(s) ==
    [EnqueueAll(s, <<SyncComplete(s.through)>> \o s.deferred)
        EXCEPT !.syncing = FALSE, !.deferred = <<>>]

\* Defective variant: the session's cursor stays where the page started.
AdvanceNever(cursor, page) == cursor

\* The cursor moves to the last message of a page that has one.
Advance(cursor, page) ==
    IF page.messages = {} THEN cursor ELSE Max(Ids(page.messages))

-----------------------------------------------------------------------------
(* The session map *)

Registered(map) == {map[key] : key \in DOMAIN map}

Users(map, r) == {key[2] : key \in {k \in DOMAIN map : k[1] = r}}

Register(map, r, n, c) ==
    [key \in DOMAIN map \cup {<<r, n>>} |-> IF key = <<r, n>> THEN c ELSE map[key]]

Unregister(map, r, n) == [key \in DOMAIN map \ {<<r, n>>} |-> map[key]]

\* Defective variant: news of a room goes to every session.
InAnyRoom(cs, map, r) == Registered(map)

InRoom(cs, map, r) == {c \in Registered(map) : cs[c].room = r}

\* Defective variant: sessions that catch up are left out.
TellPresenceWhenSynced(cs, map) ==
    [c \in Conn |-> IF c \in Registered(map) /\ ~cs[c].syncing
                    THEN Deliver(cs[c], Presence(Users(map, cs[c].room)))
                    ELSE cs[c]]

\* presence: every session of every room is told who is in its room.
TellPresence(cs, map) ==
    [c \in Conn |-> IF c \in Registered(map)
                    THEN Deliver(cs[c], Presence(Users(map, cs[c].room)))
                    ELSE cs[c]]

\* News of a room for its sessions: answer for the one that asked for it, and
\* frame for the others.
Broadcast(cs, map, r, frame, asker, answer) ==
    [c \in Conn |-> IF c \in InRoom(cs, map, r)
                    THEN Deliver(cs[c], IF c = asker THEN answer ELSE frame)
                    ELSE cs[c]]

-----------------------------------------------------------------------------

Init == /\ db = NewDb
        /\ horizon = 0
        /\ closed = FALSE
        /\ conns = [c \in Conn |-> Free]
        /\ sessions = <<>>

\* serveConnection up to the read of the join frame. After Close the parent
\* context is cancelled and the read fails at once.
Accept(c) ==
    /\ conns[c].phase = "free"
    /\ ~closed
    /\ conns' = [conns EXCEPT ![c] = Accepted]
    /\ UNCHANGED <<db, horizon, closed, sessions>>

\* No join frame within 10 seconds, or the connection breaks before it.
JoinTimeout(c) ==
    /\ conns[c].phase = "reading"
    /\ conns' = [conns EXCEPT ![c] = Free]
    /\ UNCHANGED <<db, horizon, closed, sessions>>

Refuse(c, code) == conns' = [conns EXCEPT ![c] = Refused(@.live, code)]

\* join, refused before the lock is taken: the first frame is no join, the
\* client is too old, or its key, nickname or token is not well formed.
JoinInvalid(c, code) ==
    /\ conns[c].phase = "reading"
    /\ Refuse(c, code)
    /\ UNCHANGED <<db, horizon, closed, sessions>>

JoinClosed(c) ==
    /\ conns[c].phase = "reading"
    /\ closed
    /\ Refuse(c, "unavailable")
    /\ UNCHANGED <<db, horizon, closed, sessions>>

\* Defective variant: a cancelled session gives up its nickname.
TakenByLive(r, n) ==
    <<r, n>> \in DOMAIN sessions /\ conns[sessions[<<r, n>>]].live

\* A nickname is taken as long as its session is in the map, also when the
\* session has been cancelled and has not left yet.
Taken(r, n) == <<r, n>> \in DOMAIN sessions

\* Store.Room, LatestID or Page fails; the room's row may have been inserted.
JoinStorageError(c, r, n) ==
    /\ conns[c].phase = "reading"
    /\ ~closed
    /\ Refuse(c, "storage_error")
    /\ db' \in {db} \cup (IF Taken(r, n) THEN {} ELSE {OpenRoom(db, r)})
    /\ UNCHANGED <<horizon, closed, sessions>>

\* The session join makes: a client that names the current instance gets what
\* it has not seen, any other the latest page.
NewSession(r, n, o, inst, after) ==
    LET latest  == LatestID(db, r)
        resumed == inst = InstanceID(db, r)
        page    == IF resumed THEN Page(db, r, -1, after, latest)
                              ELSE Page(db, r, 0, 0, latest)
        blank   == [phase |-> "serving", live |-> TRUE, room |-> r, name |-> n,
                    owner |-> o, syncing |-> resumed, through |-> latest,
                    cursor |-> IF resumed THEN Advance(after, page) ELSE 0,
                    deferred |-> <<>>, outgoing |-> <<>>]
        users   == Users(sessions, r) \cup {n}
        greeted == EnqueueAll(blank,
                     <<Welcome(InstanceID(db, r), latest, resumed, users),
                       PageFrame(IF resumed THEN "sync" ELSE "history", "initial", page)>>)
    IN  IF resumed /\ page.hasMore THEN greeted ELSE FinishSync(greeted)

\* Defective variant: a negative cursor is let in.
InvalidCursorAbove(r, inst, after) ==
    after > LatestID(db, r) /\ inst = InstanceID(db, r)

\* A client may not claim to have read beyond the end of the instance it names.
InvalidCursor(r, inst, after) ==
    after < 0 \/ (after > LatestID(db, r) /\ inst = InstanceID(db, r))

Join(c, r, n, o, inst, after) ==
    /\ conns[c].phase = "reading"
    /\ ~closed
    /\ db' = OpenRoom(db, r)
    /\ \/ /\ Taken(r, n)
          /\ Refuse(c, "name_taken")
          /\ UNCHANGED sessions
       \/ /\ ~Taken(r, n)
          /\ InvalidCursor(r, inst, after)
          /\ Refuse(c, "invalid_cursor")
          /\ UNCHANGED sessions
       \/ /\ ~Taken(r, n)
          /\ ~InvalidCursor(r, inst, after)
          /\ sessions' = Register(sessions, r, n, c)
          /\ conns' = TellPresence(
                [conns EXCEPT ![c] = NewSession(r, n, o, inst, after)], sessions')
    /\ UNCHANGED <<horizon, closed>>

\* The refusal is written, or not, and the connection is closed.
WriteRefusal(c) ==
    /\ conns[c].phase = "refused"
    /\ conns' = [conns EXCEPT ![c] = Free]
    /\ UNCHANGED <<db, horizon, closed, sessions>>

-----------------------------------------------------------------------------
(* handle: the requests of a session *)

Handles(c) ==
    /\ conns[c].phase = "serving"
    /\ conns[c].live
    /\ ~closed

Fail(c, req) ==
    /\ conns' = [conns EXCEPT ![c] = Enqueue(@, Failure(req))]
    /\ UNCHANGED <<db, horizon, closed, sessions>>

\* A frame that is malformed, too long or of no known type, or whose store
\* call fails without a trace.
HandleFails(c, req) == Handles(c) /\ Fail(c, req)

HandleSend(c, req) ==
    /\ Handles(c)
    /\ \/ conns[c].syncing /\ Fail(c, req)
       \/ /\ ~conns[c].syncing
          /\ db.last < MaxId
          /\ LET r    == conns[c].room
                 m    == NewRow(db, r, conns[c].owner)
                 told == Broadcast(conns, sessions, r, Message("", m),
                                   c, Message(req, m))
             IN  /\ db' = AppendChat(db, r, conns[c].owner)
                 /\ conns' = [told EXCEPT ![c] = Enqueue(@, Ack(req, m))]
          /\ UNCHANGED <<horizon, closed, sessions>>

\* recall: a message that is already recalled is announced again.
HandleRecall(c, req, id) ==
    /\ Handles(c)
    /\ \/ conns[c].syncing /\ Fail(c, req)
       \/ /\ ~conns[c].syncing
          /\ OwnRows(db, conns[c].room, id, conns[c].owner) = {}
          /\ Fail(c, req)
       \/ /\ ~conns[c].syncing
          /\ \E m \in OwnRows(db, conns[c].room, id, conns[c].owner) :
                \/ /\ ~m.recalled /\ id <= horizon
                   /\ Fail(c, req)
                \/ /\ m.recalled \/ id > horizon
                   /\ m.recalled \/ db.drawn < MaxDraws
                   /\ db' = IF m.recalled THEN db ELSE RecallRow(db, m)
                   /\ LET shown == [m EXCEPT !.recalled = TRUE]
                          inst  == InstanceID(db', m.room)
                      IN  conns' = Broadcast(conns, sessions, m.room,
                                             Recalled("", shown, inst),
                                             c, Recalled(req, shown, inst))
                   /\ UNCHANGED <<horizon, closed, sessions>>

HandleHistory(c, req, before) ==
    /\ Handles(c)
    /\ \/ conns[c].syncing /\ Fail(c, req)
       \/ ~conns[c].syncing /\ before <= 0 /\ Fail(c, req)
       \/ /\ ~conns[c].syncing /\ before > 0
          /\ LET r    == conns[c].room
                 page == Page(db, r, before, 0, LatestID(db, r))
             IN  conns' = [conns EXCEPT ![c] = Enqueue(@, PageFrame("history", req, page))]
          /\ UNCHANGED <<db, horizon, closed, sessions>>

\* The next page of a session that is catching up; ignored once it has.
HandleSync(c, req, after) ==
    /\ Handles(c)
    /\ conns[c].syncing
    /\ \/ after # conns[c].cursor /\ Fail(c, req)
       \/ /\ after = conns[c].cursor
          /\ LET page == Page(db, conns[c].room, -1, after, conns[c].through)
                 sent == [Enqueue(conns[c], PageFrame("sync", req, page))
                             EXCEPT !.cursor = Advance(@, page)]
             IN  conns' = [conns EXCEPT ![c] =
                              IF page.hasMore THEN sent ELSE FinishSync(sent)]
          /\ UNCHANGED <<db, horizon, closed, sessions>>

\* A page of the catching up cannot be read: the session ends.
HandleSyncStorageError(c, req) ==
    /\ Handles(c)
    /\ conns[c].syncing
    /\ conns' = [conns EXCEPT ![c] =
                    [Enqueue(@, Failure(req)) EXCEPT !.live = FALSE]]
    /\ UNCHANGED <<db, horizon, closed, sessions>>

-----------------------------------------------------------------------------
(* The goroutines of a session and the service *)

\* writeLoop takes the next frame and writes it to the connection.
WriteFrame(c) ==
    /\ conns[c].phase = "serving"
    /\ conns[c].live
    /\ conns[c].outgoing # <<>>
    /\ conns' = [conns EXCEPT ![c].outgoing = Tail(@)]
    /\ UNCHANGED <<db, horizon, closed, sessions>>

\* A write, a ping or a read fails: writeLoop, heartbeat or the reading
\* goroutine cancels the session's context.
Cancel(c) ==
    /\ conns[c].phase = "serving"
    /\ conns[c].live
    /\ conns' = [conns EXCEPT ![c].live = FALSE]
    /\ UNCHANGED <<db, horizon, closed, sessions>>

\* The reading goroutine sees the cancelled context and runs leave.
Leave(c) ==
    /\ conns[c].phase = "serving"
    /\ ~conns[c].live
    /\ LET key  == <<conns[c].room, conns[c].name>>
           mine == key \in DOMAIN sessions /\ sessions[key] = c
           gone == [conns EXCEPT ![c] = Free]
       IN  /\ sessions' = IF mine THEN Unregister(sessions, key[1], key[2]) ELSE sessions
           /\ conns' = IF mine THEN TellPresence(gone, sessions') ELSE gone
    /\ UNCHANGED <<db, horizon, closed>>

\* ClearHistory: everybody starts over with an empty room.
ClearHistory ==
    /\ ~closed
    /\ db.drawn < MaxDraws
    /\ db' = ClearAll(db)
    /\ conns' = TellPresence(
          [c \in Conn |->
              IF c \in Registered(sessions)
              THEN Enqueue([conns[c] EXCEPT !.syncing = FALSE, !.deferred = <<>>,
                                            !.cursor = 0, !.through = 0],
                           HistoryCleared(InstanceID(db', conns[c].room)))
              ELSE conns[c]], sessions)
    /\ UNCHANGED <<horizon, closed, sessions>>

Close ==
    /\ ~closed
    /\ closed' = TRUE
    /\ conns' = [c \in Conn |-> [conns[c] EXCEPT !.live = FALSE]]
    /\ UNCHANGED <<db, horizon, sessions>>

\* The process ends, in an orderly way or not, and a new one opens the file.
Restart ==
    /\ closed' = FALSE
    /\ conns' = [c \in Conn |-> Free]
    /\ sessions' = <<>>
    /\ UNCHANGED <<db, horizon>>

\* Messages get older than RecallWindow in the order they were sent.
Age(upTo) ==
    /\ upTo > horizon
    /\ horizon' = upTo
    /\ UNCHANGED <<db, closed, conns, sessions>>

-----------------------------------------------------------------------------

\* What a client may send while it keeps up with its frames.
Request(c) ==
    /\ Handles(c)
    /\ Len(conns[c].outgoing) < MaxQueue
    /\ \/ HandleSend(c, "send")
       \/ \E id \in 1..db.last : HandleRecall(c, "recall", id)
       \/ \E before \in 0..db.last : HandleHistory(c, "older", before)
       \/ \E after \in 0..db.last : HandleSync(c, "next", after)
       \/ HandleFails(c, "send")
       \/ HandleSyncStorageError(c, "next")

Connect(c) ==
    \/ Accept(c)
    \/ JoinTimeout(c)
    \/ \E code \in JoinFailures : JoinInvalid(c, code)
    \/ JoinClosed(c)
    \/ \E r \in Room, n \in Name : JoinStorageError(c, r, n)
    \/ \E r \in Room, n \in Name, o \in Owner :
          \E inst \in {NoInstance, InstanceID(db, r)}, after \in -1..(db.last + 1) :
              Join(c, r, n, o, inst, after)
    \/ WriteRefusal(c)

Next ==
    \/ \E c \in Conn : Connect(c) \/ Request(c) \/ WriteFrame(c) \/ Cancel(c) \/ Leave(c)
    \/ ClearHistory
    \/ Close
    \/ Restart
    \/ \E upTo \in 1..db.last : upTo <= MaxAge /\ Age(upTo)

Spec == Init /\ [][Next]_vars

-----------------------------------------------------------------------------
(* Properties *)

ErrorCodes ==
    JoinFailures \cup {"unavailable", "storage_error", "name_taken", "invalid_cursor", "failure"}

\* An answer to a request is of a type its asker takes for the answer.
Frames ==
    [type : {"welcome"}, instance : InstanceIDs, through : Nat,
     resumed : BOOLEAN, users : SUBSET Name]
    \cup [type : {"history"}, req : {"initial", "older"},
          messages : SUBSET Row, hasMore : BOOLEAN]
    \cup [type : {"sync"}, req : {"initial", "next"},
          messages : SUBSET Row, hasMore : BOOLEAN]
    \cup [type : {"sync_complete"}, through : Nat]
    \cup [type : {"message"}, req : {"", "send"}, message : Row]
    \cup [type : {"ack"}, req : {"send"}, message : Row]
    \cup [type : {"recalled"}, req : {"", "recall"}, message : Row, instance : InstanceIDs]
    \cup [type : {"history_cleared"}, instance : InstanceIDs]
    \cup [type : {"presence"}, users : SUBSET Name]
    \cup [type : {"error"}, req : {"join", "send", "recall", "older", "next"}, code : ErrorCodes]

Sessions ==
    [phase : {"serving"}, live : BOOLEAN, room : Room, name : Name, owner : Owner,
     syncing : BOOLEAN, through : Nat, cursor : Nat,
     deferred : Seq(Frames), outgoing : Seq(Frames)]

Connections ==
    {Free} \cup [phase : {"reading"}, live : BOOLEAN]
    \cup [phase : {"refused"}, live : BOOLEAN, outgoing : Seq(Frames)]
    \cup Sessions

\* The state stays in the shapes above.
TypeOK ==
    /\ db \in Databases
    /\ horizon \in Nat
    /\ closed \in BOOLEAN
    /\ conns \in [Conn -> Connections]
    /\ DOMAIN sessions \subseteq Room \X Name
    /\ \A key \in DOMAIN sessions : sessions[key] \in Conn

Serving == {c \in Conn : conns[c].phase = "serving"}

\* The map and the serving connections say the same: a session is found under
\* its own room and name until it leaves, so a nickname has one owner in a room
\* and a late leave never evicts the session that took the name after it.
NamesExclusive ==
    /\ Registered(sessions) = Serving
    /\ \A key \in DOMAIN sessions :
          /\ conns[sessions[key]].room = key[1]
          /\ conns[sessions[key]].name = key[2]

=============================================================================
