----------------------------- MODULE ChatSystem -----------------------------
(***************************************************************************)
(* ChatServer with the clients of ChatClient at the other end of its       *)
(* connections: they dial, join, catch up, send, recall, load older        *)
(* messages, lose their connection at any moment and come back.            *)
(*                                                                         *)
(* A connection delivers in order and may break at any time.  Frames for   *)
(* a client are in conns[c].outgoing until the client reads them: the      *)
(* channel, the writing goroutine and the network are one queue.  Requests *)
(* are in up[c] until the server handles them, also those of a client that *)
(* is gone: it left them in the network, and a server that has not noticed *)
(* keeps the session, and the nickname.                                    *)
(***************************************************************************)
EXTENDS ChatServer, ChatClient

CONSTANTS Client,       \* client processes; a client's token is its owner id
          RoomOf,       \* the room a client's passphrase opens
          NickOf,       \* its nickname
          UpCap,        \* requests under way on a connection (link.outgoing, 64)
          MaxDials,     \* bound: connections that clients make
          StoreFails,   \* whether operations of the store may fail
          LateCancel    \* whether a link may be cancelled between the read of a
                        \* frame and its emission

ASSUME ClientAssumption ==
    /\ Client \subseteq Owner \ {NoOwner}
    /\ RoomOf \in [Client -> Room]
    /\ NickOf \in [Client -> Name]
    /\ StoreFails \in BOOLEAN /\ LateCancel \in BOOLEAN

VARIABLES up,       \* requests on their way to the server
          net,      \* the state of internal/client
          tui,      \* the state of internal/tui
          dials     \* how often clients have dialled, for the bound

cvars == <<up, net, tui, dials>>
svars == <<vars, cvars>>

JoinRequest(i) ==
    [type |-> "join", client |-> i, instance |-> net[i].instance, after |-> net[i].cursor]

Linked(i) == net[i].phase = "linked"

Attached == {net[i].conn : i \in Client}

SInit == /\ Init
         /\ up = [c \in Conn |-> <<>>]
         /\ net = [i \in Client |-> NewNetwork]
         /\ tui = [i \in Client |-> NewModel]
         /\ dials = 0

-----------------------------------------------------------------------------
(* The client *)

\* connect: the connection is made and the join frame written.
Dial(i, c) ==
    /\ net[i].phase = "offline"
    /\ dials < MaxDials
    /\ c \notin Attached
    /\ Accept(c)
    /\ up' = [up EXCEPT ![c] = <<JoinRequest(i)>>]
    /\ net' = [net EXCEPT ![i] = Link(@, c)]
    /\ tui' = [tui EXCEPT ![i].connected = FALSE]
    /\ dials' = dials + 1

\* The link ends and Run waits to try again. What the client had written may
\* still arrive, what it had not read is lost.
Drop(i) ==
    /\ net' = [net EXCEPT ![i] = Unlink(@, "offline")]
    /\ tui' = [tui EXCEPT ![i] = Disconnected(@)]

Break(i) ==
    /\ Linked(i)
    /\ Drop(i)
    /\ UNCHANGED <<vars, up, dials>>

\* The next frame for client i, if there is one. A frame that is read after the
\* server gave the session up could as well have been read just before: it
\* changes nothing but the state of the client, so this order is not modelled.
Incoming(i) ==
    LET c == net[i].conn
    IN  IF Linked(i) /\ conns[c].phase \in {"refused", "serving"} /\ conns[c].live
           /\ conns[c].outgoing # <<>>
        THEN {Head(conns[c].outgoing)} ELSE {}

\* It is read off the connection.
Read(i) ==
    /\ WriteRefusal(net[i].conn) \/ WriteFrame(net[i].conn)
    /\ UNCHANGED dials

\* A refused join: Run gives up or retries.
ReceiveRefusal(i) ==
    \E f \in Incoming(i) :
        /\ ~net[i].welcomed /\ f.type = "error"
        /\ Read(i)
        /\ IF Fatal(net[i], f)
           THEN /\ net' = [net EXCEPT ![i] = Unlink(@, "stopped")]
                /\ tui' = [tui EXCEPT ![i] = GivenUp(@)]
           ELSE Drop(i)
        /\ UNCHANGED up

\* A page that is not the last one is answered with a request for the next.
AskNext(i, f) ==
    IF f.type = "sync" /\ f.hasMore
    THEN /\ Len(up[net[i].conn]) < UpCap
         /\ up' = [up EXCEPT ![net[i].conn] =
                      Append(@, [type |-> "sync", after |-> net'[i].cursor])]
    ELSE UNCHANGED up

Receive(i) ==
    \E f \in Incoming(i) :
        /\ net[i].welcomed \/ f.type # "error"
        /\ Read(i)
        /\ net' = [net EXCEPT ![i] = AfterEmit(BeforeEmit(@, f), f)]
        /\ tui' = [tui EXCEPT ![i] = Show(@, f)]
        /\ AskNext(i, f)

\* The link's context is cancelled, by the writing goroutine or the heartbeat,
\* after the frame was read: emit returns false and connect ends.
ReceiveCancelled(i) ==
    /\ LateCancel
    /\ \E f \in Incoming(i) :
          /\ net[i].welcomed \/ f.type # "error"
          /\ Read(i)
          /\ net' = [net EXCEPT ![i] = Unlink(BeforeEmit(@, f), "offline")]
          /\ tui' = [tui EXCEPT ![i] = Disconnected(@)]
          /\ UNCHANGED up

\* Client.queue: a request of the user, refused unless the link is ready and
\* has room for it.
Ask(i, request) ==
    /\ Linked(i)
    /\ net[i].ready
    /\ tui[i].connected
    /\ Len(up[net[i].conn]) < UpCap
    /\ up' = [up EXCEPT ![net[i].conn] = Append(@, request)]
    /\ UNCHANGED <<vars, net, dials>>

\* sendBody, one unanswered send at a time.
UserSend(i) ==
    /\ ~tui[i].pending
    /\ Ask(i, [type |-> "send"])
    /\ tui' = [tui EXCEPT ![i].pending = TRUE]

\* A confirmed recall of one of the user's own messages on display.
UserRecall(i) ==
    /\ ~tui[i].recalls
    /\ \E m \in tui[i].messages :
          /\ m.owner = i /\ ~m.recalled
          /\ Ask(i, [type |-> "recall", id |-> m.id])
    /\ tui' = [tui EXCEPT ![i].recalls = TRUE]

LoadOlder(i) ==
    /\ tui[i].hasMore /\ ~tui[i].loading /\ tui[i].messages # {}
    /\ Ask(i, [type |-> "history", before |-> Oldest(tui[i])])
    /\ tui' = [tui EXCEPT ![i].loading = TRUE]

-----------------------------------------------------------------------------
(* The server's end of a connection *)

\* serveConnection reads the next frame and handles it.
Serve(c, action) ==
    /\ up[c] # <<>>
    /\ action
    /\ up' = [up EXCEPT ![c] = Tail(@)]
    /\ UNCHANGED <<net, tui, dials>>

Requested(c, type) == up[c] # <<>> /\ Head(up[c]).type = type

ServeJoin(c) ==
    /\ Requested(c, "join")
    /\ LET q == Head(up[c])
           r == RoomOf[q.client]
           n == NickOf[q.client]
       IN  Serve(c, \/ Join(c, r, n, q.client, q.instance, q.after)
                    \/ JoinClosed(c)
                    \/ StoreFails /\ JoinStorageError(c, r, n))

\* The key, nickname or version of a client the server refuses for good.
ServeJoinInvalid(c) ==
    /\ Requested(c, "join")
    /\ Serve(c, JoinInvalid(c, "unauthorized"))

ServeSend(c) ==
    /\ Requested(c, "send")
    /\ Serve(c, HandleSend(c, "send") \/ (StoreFails /\ HandleFails(c, "send")))

ServeRecall(c) ==
    /\ Requested(c, "recall")
    /\ Serve(c, HandleRecall(c, "recall", Head(up[c]).id) \/ (StoreFails /\ HandleFails(c, "recall")))

ServeHistory(c) ==
    /\ Requested(c, "history")
    /\ Serve(c, HandleHistory(c, "older", Head(up[c]).before) \/ (StoreFails /\ HandleFails(c, "older")))

ServeSync(c) ==
    /\ Requested(c, "sync")
    /\ Serve(c, \/ HandleSync(c, "next", Head(up[c]).after)
                \/ StoreFails /\ HandleSyncStorageError(c, "next")
                \/ Handles(c) /\ ~conns[c].syncing /\ UNCHANGED vars)

\* Steps of the server that no client sees as such. A connection that ends
\* takes the unread requests with it.
Ends(c) ==
    /\ \/ JoinTimeout(c)
       \/ Leave(c)
       \/ WriteRefusal(c) /\ c \notin Attached
    /\ up' = [up EXCEPT ![c] = <<>>]
    /\ UNCHANGED <<net, tui, dials>>

Quietly ==
    /\ \/ \E c \in Conn : Cancel(c)
       \/ \E c \in Conn \ Attached : WriteFrame(c)
       \/ ClearHistory
       \/ Close
       \/ \E upTo \in 1..db.last : upTo <= MaxAge /\ Age(upTo)
    /\ UNCHANGED cvars

SRestart == /\ Restart
            /\ up' = [c \in Conn |-> <<>>]
            /\ UNCHANGED <<net, tui, dials>>

SNext ==
    \/ \E i \in Client :
          \/ \E c \in Conn : Dial(i, c)
          \/ Break(i) \/ ReceiveRefusal(i) \/ Receive(i) \/ ReceiveCancelled(i)
          \/ UserSend(i) \/ UserRecall(i) \/ LoadOlder(i)
    \/ \E c \in Conn :
          \/ ServeJoin(c) \/ ServeJoinInvalid(c) \/ ServeSend(c) \/ ServeRecall(c)
          \/ ServeHistory(c) \/ ServeSync(c) \/ Ends(c)
    \/ Quietly
    \/ SRestart

\* The goroutines run: a frame that arrived is read, a request is handled, a
\* broken link is noticed (the read fails, at the latest the heartbeat does),
\* and serveConnection returns after its context is cancelled. Nothing is
\* assumed of the user, of timeouts of live connections, or of when links break.
ServeNext(c) == \/ ServeJoin(c) \/ ServeJoinInvalid(c) \/ ServeSend(c)
                \/ ServeRecall(c) \/ ServeHistory(c) \/ ServeSync(c)

Notice(i) == Linked(i) /\ ~conns[net[i].conn].live /\ Break(i)

SFairness ==
    /\ \A i \in Client : /\ WF_svars(ReceiveRefusal(i) \/ Receive(i))
                         /\ WF_svars(Notice(i))
    /\ \A c \in Conn : WF_svars(ServeNext(c)) /\ WF_svars(Ends(c))

SSpec == SInit /\ [][SNext]_svars

FairSSpec == SSpec /\ SFairness

-----------------------------------------------------------------------------
(* Properties *)

Rows(i) == RoomRows(db, RoomOf[i])

\* Client i would be resumed: it names the instance its room has.
Current(i) == net[i].instance = InstanceID(db, RoomOf[i])

\* A client that would be resumed resumes inside the log. Were its cursor ever
\* beyond, join would answer invalid_cursor, which the client retries for ever.
CursorInLog ==
    \A i \in Client : Current(i) => net[i].cursor <= LatestID(db, RoomOf[i])

\* Everything on the screen of a client that would be resumed is in the room in
\* that very form: nothing recalled or cleared stays behind, because resuming
\* will not remove it.
ViewIsCurrent ==
    \A i \in Client : Current(i) => tui[i].messages \subseteq Rows(i)

\* And it has everything up to its cursor, but for older messages that it knows
\* it can still load.
NoGap ==
    \A i \in Client : Current(i) =>
        \A m \in Rows(i) :
            (/\ m.id <= net[i].cursor
             /\ tui[i].hasMore => \E k \in tui[i].messages : k.id <= m.id)
            => m.id \in Ids(tui[i].messages)

\* The server has ended the connection, whether the client knows it or not.
Dead(c) == ~conns[c].live

\* A request of client i that is of one of these types, or its answer, is under
\* way: a frame that carries the request's id or a cleanup, which settles all.
UnderWay(i, type, reqs) ==
    LET c == net[i].conn
    IN  \/ Dead(c)
        \/ \E k \in DOMAIN up[c] : up[c][k].type = type
        \/ \E k \in DOMAIN conns[c].outgoing :
              LET f == conns[c].outgoing[k]
              IN  \/ f.type = "history_cleared"
                  \/ f.type \in {"message", "ack", "recalled", "history", "sync", "error"}
                     /\ f.req \in reqs

\* What the user waits for is coming: a send in the state "sending", a recall,
\* a page of older messages. None of them is ever dropped in silence.
RequestsAnswered ==
    \A i \in Client :
        /\ tui[i].pending => Linked(i) /\ UnderWay(i, "send", {"send"})
        /\ tui[i].recalls => Linked(i) /\ UnderWay(i, "recall", {"recall"})
        /\ tui[i].loading => Linked(i) /\ UnderWay(i, "history", {"older"})

\* A client that was let in and is catching up is not stuck half way.
CatchUpMoves ==
    \A i \in Client :
        (Linked(i) /\ net[i].welcomed /\ ~net[i].ready)
        => \/ UnderWay(i, "sync", {"initial", "next"})
           \/ \E k \in DOMAIN conns[net[i].conn].outgoing :
                 conns[net[i].conn].outgoing[k].type = "sync_complete"

\* The documents promise of a cleanup that clients "online, offline and
\* synchronizing do not restore old messages": a client that is connected and
\* has read everything shows messages of the room only.
ShownIsLive ==
    \A i \in Client :
        (/\ Linked(i) /\ tui[i].connected /\ ~Dead(net[i].conn)
         /\ conns[net[i].conn].outgoing = <<>> /\ up[net[i].conn] = <<>>)
        => tui[i].messages \subseteq Rows(i)

\* Whoever waits is answered or loses the connection, and is told so.
Answered ==
    \A i \in Client :
        /\ tui[i].pending ~> ~tui[i].pending
        /\ tui[i].recalls ~> ~tui[i].recalls
        /\ tui[i].loading ~> ~tui[i].loading

\* A client that has dialled gets in, is refused or loses the connection; it
\* never stays in the catching up.
CatchesUp ==
    \A i \in Client : Linked(i) ~> (net[i].ready \/ ~Linked(i))

=============================================================================
