------------------------------ MODULE ChatFeed ------------------------------
(***************************************************************************)
(* What the frames of ChatServer amount to for the client that reads them. *)
(*                                                                         *)
(* The auxiliary variable peer holds, for each connection, what a client   *)
(* knows that applied every frame written to it so far; it adds nothing to *)
(* the server's behaviour.  Applying the frames that are still on their    *)
(* way (outgoing, then deferred) must always lead to the room as it is.    *)
(***************************************************************************)
EXTENDS ChatServer

VARIABLE peer   \* what the client of each connection has been told

fvars == <<vars, peer>>

\* copy    the messages it has
\* floor   it has all messages of the room after this id that it was told of
\* cursor  where it would resume
\* users   who is in the room
\* more    it was told to ask for another page
Nobody == [copy |-> {}, floor |-> 0, cursor |-> 0, users |-> {}, more |-> FALSE]

Upto(n, new) == Max({n} \cup Ids(new))

\* New messages take the place of those with their ids.
Merge(p, new) ==
    [p EXCEPT !.copy   = {m \in @ : m.id \notin Ids(new)} \cup new,
              !.cursor = Upto(@, new)]

\* A client that applies a frame as it should: a recall of a message it does
\* not have is nothing to it, and only pages and messages move its cursor.
Apply(p, f) ==
    CASE f.type \in {"welcome", "presence"} -> [p EXCEPT !.users = f.users]
      [] f.type = "sync"             -> [Merge(p, f.messages) EXCEPT !.more = f.hasMore]
      [] f.type = "history"          -> Merge(p, f.messages)
      [] f.type = "sync_complete"    -> [p EXCEPT !.more = FALSE]
      [] f.type \in {"message", "ack"} -> Merge(p, {f.message})
      [] f.type = "recalled"         ->
            IF f.message.id \in Ids(p.copy) THEN Merge(p, {f.message}) ELSE p
      [] f.type = "history_cleared"  -> [Nobody EXCEPT !.users = p.users]
      [] f.type = "error"            -> p

\* The client that joins: it keeps the messages up to its cursor if it is
\* resumed, and otherwise starts from the latest page.
Joining(r, inst, after) ==
    LET page == Page(db, r, 0, 0, LatestID(db, r))
    IN  IF inst = InstanceID(db, r)
        THEN [Nobody EXCEPT !.copy = {m \in RoomRows(db, r) : m.id <= after},
                            !.cursor = after]
        ELSE [Nobody EXCEPT !.floor = IF page.hasMore THEN Min(Ids(page.messages)) - 1
                                                      ELSE 0]

FInit == Init /\ peer = [c \in Conn |-> Nobody]

FConnect(c) ==
    \/ /\ \/ Accept(c) \/ JoinTimeout(c) \/ JoinClosed(c) \/ WriteRefusal(c)
          \/ \E code \in JoinFailures : JoinInvalid(c, code)
          \/ \E r \in Room, n \in Name : JoinStorageError(c, r, n)
       /\ UNCHANGED peer
    \/ \E r \in Room, n \in Name, o \in Owner :
          \E inst \in {NoInstance, InstanceID(db, r)}, after \in -1..(db.last + 1) :
              /\ Join(c, r, n, o, inst, after)
              /\ peer' = [peer EXCEPT ![c] =
                            IF conns'[c].phase = "serving" THEN Joining(r, inst, after)
                                                           ELSE Nobody]

FNext ==
    \/ \E c \in Conn :
          \/ FConnect(c)
          \/ /\ WriteFrame(c)
             /\ peer' = [peer EXCEPT ![c] = Apply(@, Head(conns[c].outgoing))]
          \/ Request(c) /\ UNCHANGED peer
          \/ Cancel(c) /\ UNCHANGED peer
          \/ Leave(c) /\ peer' = [peer EXCEPT ![c] = Nobody]
    \/ Restart /\ peer' = [c \in Conn |-> Nobody]
    \/ /\ ClearHistory \/ Close \/ \E upTo \in 1..db.last : upTo <= MaxAge /\ Age(upTo)
       /\ UNCHANGED peer

FSpec == FInit /\ [][FNext]_fvars

-----------------------------------------------------------------------------
(* Properties *)

\* What a client that knows p knows after each number of frames of G: after k
\* frames of its queue, after the whole queue, and after the deferred frames,
\* which come last.
Applied(p, G) ==
    LET known[k \in 0..Len(G)] == IF k = 0 THEN p ELSE Apply(known[k - 1], G[k])
    IN  known

After(c, k) == Applied(peer[c], conns[c].outgoing)[k]
Queued(c)   == After(c, Len(conns[c].outgoing))
Final(c)    == Applied(Queued(c), conns[c].deferred)[Len(conns[c].deferred)]

\* What a session that is catching up has still to fetch.
Unsynced(c) ==
    IF conns[c].syncing
    THEN {m \in RoomRows(db, conns[c].room) :
            conns[c].cursor < m.id /\ m.id <= conns[c].through}
    ELSE {}

Listening == {c \in Serving : conns[c].live}

\* The frames under way, with the pages still to be fetched, make every live
\* client's copy equal to its room: no message of another room, none missing,
\* none twice in different forms, and none that was recalled or cleared.
CopyAgrees ==
    \A c \in Listening :
        LET p    == Final(c)
            rows == RoomRows(db, conns[c].room)
        IN  /\ p.copy \subseteq rows
            /\ {m \in rows : m.id > p.floor} \subseteq p.copy \cup Unsynced(c)

\* Every live client will have been told exactly who is in its room.
UsersAgree ==
    \A c \in Listening : Final(c).users = Users(sessions, conns[c].room)

\* Server and client agree on whether another page is to be fetched, and on
\* where it starts; otherwise the client would wait for ever, or be refused.
SyncAgrees ==
    \A c \in Listening :
        LET p == Queued(c)
        IN  /\ p.more = conns[c].syncing
            /\ p.more => p.cursor = conns[c].cursor

\* The connection may break after any frame. The client then comes back with
\* the largest id it has, so at every such point it has to have everything up
\* to that id: a frame that overtakes the catching up would leave a hole that
\* no later sync fills.
EveryCutResumes ==
    \A c \in Listening : \A k \in 0..Len(conns[c].outgoing) :
        LET p     == After(c, k)
            later == SubSeq(conns[c].outgoing, k + 1, Len(conns[c].outgoing))
        IN  (\A j \in DOMAIN later : later[j].type # "history_cleared")
            => \A m \in RoomRows(db, conns[c].room) :
                  (m.id > p.floor /\ m.id <= p.cursor) => m.id \in Ids(p.copy)

=============================================================================
