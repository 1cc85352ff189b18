--------------------------- MODULE ChatFeedProofs ---------------------------
(***************************************************************************)
(* That the frames the server queues for a client lead it to the room as   *)
(* it is, wherever the connection breaks: the properties of ChatFeed, for  *)
(* every number of rooms, connections and messages and all capacities.     *)
(*                                                                         *)
(* The first part says what the server does to one session, in one place:  *)
(* a session that is live after a step has just begun or has made one of   *)
(* the moves below.  The others say what each move does to what is under   *)
(* way; NoGapProofs builds on them too.                                    *)
(***************************************************************************)
EXTENDS ChatServerProofs, FiniteSetTheorems

-----------------------------------------------------------------------------
(* What a step of the server does to one session                           *)

\* s with these frames at the end of its queue.
Put(s, P) == [s EXCEPT !.outgoing = @ \o P]

\* t is s after one piece of news.
News(t, s, f) ==
    \/ ~s.syncing /\ t = Put(s, <<f>>)
    \/ s.syncing /\ t = [s EXCEPT !.deferred = @ \o <<f>>]

\* t is s after the page that its client asked for, and is still catching up.
Paged(t, s, page) ==
    t = [s EXCEPT !.outgoing = @ \o <<PageFrame("sync", "next", page)>>,
                  !.cursor   = Advance(@, page)]

\* t is s after the last page: what was held back follows.
Caught(t, s, page) ==
    t = [s EXCEPT !.outgoing = (@ \o <<PageFrame("sync", "next", page)>>)
                                  \o (<<SyncComplete(s.through)>> \o s.deferred),
                  !.cursor   = Advance(@, page),
                  !.syncing  = FALSE, !.deferred = <<>>]

\* t is s after a cleanup, which it is told of before who is present.
StartsOver(t, s, inst, users) ==
    t = [s EXCEPT !.outgoing = (@ \o <<HistoryCleared(inst)>>) \o <<Presence(users)>>,
                  !.syncing = FALSE, !.deferred = <<>>, !.cursor = 0, !.through = 0]

\* The moves of the session of connection c, which is in room r.
SameRows(r)  == RoomRows(db', r) = RoomRows(db, r)
SameUsers(r) == Users(sessions', r) = Users(sessions, r)

Rests(c) == conns'[c] = conns[c] /\ SameRows(conns[c].room) /\ SameUsers(conns[c].room)

HearsPresence(c) ==
    /\ SameRows(conns[c].room)
    /\ News(conns'[c], conns[c], Presence(Users(sessions', conns[c].room)))

HearsError(c) ==
    /\ SameRows(conns[c].room) /\ SameUsers(conns[c].room)
    /\ \E req \in Asked : conns'[c] = Put(conns[c], <<Failure(req)>>)

\* m is a new row of room r.
Adds(r, m) ==
    /\ m \in Row /\ m.id = db.last + 1 /\ m.room = r
    /\ RoomRows(db', r) = RoomRows(db, r) \cup {m}

HearsMessage(c) ==
    /\ SameUsers(conns[c].room)
    /\ \E m \in Row : /\ Adds(conns[c].room, m)
                      /\ News(conns'[c], conns[c], Message("", m))

HearsItsOwn(c) ==
    /\ SameUsers(conns[c].room)
    /\ ~conns[c].syncing
    /\ \E m \in Row :
          /\ Adds(conns[c].room, m)
          /\ conns'[c] = Put(Put(conns[c], <<Message("send", m)>>), <<Ack("send", m)>>)

\* Row m of room r is recalled, or was already.
Recalls(r, m) ==
    /\ m \in RoomRows(db, r)
    /\ RoomRows(db', r) = (RoomRows(db, r) \ {m}) \cup {[m EXCEPT !.recalled = TRUE]}

HearsRecall(c) ==
    /\ SameUsers(conns[c].room)
    /\ \E m \in Row, req \in {"", "recall"} :
          /\ Recalls(conns[c].room, m)
          /\ News(conns'[c], conns[c],
                  Recalled(req, [m EXCEPT !.recalled = TRUE], InstanceID(db', conns[c].room)))

OlderPage(c, before) == Page(db, conns[c].room, before, 0, LatestID(db, conns[c].room))

GetsOlder(c, before) ==
    /\ SameRows(conns[c].room) /\ SameUsers(conns[c].room)
    /\ ~conns[c].syncing /\ before \in Nat \ {0}
    /\ conns'[c] = Put(conns[c], <<PageFrame("history", "older", OlderPage(c, before))>>)

GetsPage(c) ==
    /\ SameRows(conns[c].room) /\ SameUsers(conns[c].room)
    /\ conns[c].syncing
    /\ \/ SyncPage(c).hasMore /\ Paged(conns'[c], conns[c], SyncPage(c))
       \/ ~SyncPage(c).hasMore /\ Caught(conns'[c], conns[c], SyncPage(c))

IsCleared(c) ==
    /\ RoomRows(db', conns[c].room) = {} /\ SameUsers(conns[c].room)
    /\ StartsOver(conns'[c], conns[c], InstanceID(db', conns[c].room),
                  Users(sessions, conns[c].room))

IsRead(c) ==
    /\ SameRows(conns[c].room) /\ SameUsers(conns[c].room)
    /\ conns[c].outgoing # <<>>
    /\ conns'[c] = [conns[c] EXCEPT !.outgoing = Tail(@)]

\* What only the frames of the session itself are about.
Hears(c) == Rests(c) \/ HearsPresence(c) \/ HearsMessage(c) \/ HearsRecall(c)

\* The session of c is live after the step, and was before.
Goes(c) == Active(conns'[c]) /\ Active(conns[c])

\* The session of c begins: a join was let in.
Begins(c, r, n, o, inst, after) ==
    /\ conns[c].phase = "reading"
    /\ SameRows(r)
    /\ ~InvalidCursor(r, inst, after) /\ after \in Nat
    /\ conns'[c].room = r
    /\ Users(sessions', r) = Users(sessions, r) \cup {n}
    /\ \E s \in SessionsOf(db.last) :
          /\ s.live
          /\ Fresh(s, r, n, o, inst, after)
          /\ News(conns'[c], s, Presence(Users(sessions', r)))

\* A session that is live after frames were queued has got them all.
LEMMA LiveQueue ==
    ASSUME NEW s, NEW P, EnqueueAll(s, P).live
    PROVE  s.live /\ EnqueueAll(s, P) = Put(s, P)
  <1> DEFINE t == EnqueueAll(s, P)
  <1>1. CASE ~s.live
    BY <1>1 DEF EnqueueAll
  <1>2. CASE s.live /\ Len(P) <= QueueCap - Len(s.outgoing)
    BY <1>2 DEF EnqueueAll, Put
  <1>3. CASE s.live /\ ~(Len(P) <= QueueCap - Len(s.outgoing))
    <2>1. t = [s EXCEPT !.outgoing = @ \o SubSeq(P, 1, QueueCap - Len(s.outgoing)), !.live = FALSE]
      BY <1>3 DEF EnqueueAll
    <2>2. ~t.live
      BY <2>1, <1>3
    <2> QED BY <2>2
  <1> QED BY <1>1, <1>2, <1>3

\* The same of a piece of news.
LEMMA LiveNews ==
    ASSUME NEW n \in Nat, NEW s \in SessionsOf(n), NEW f \in SoundFrames(n), Deliver(s, f).live
    PROVE  s.live /\ News(Deliver(s, f), s, f)
  <1>1. s \in Sessions /\ s.deferred \in Seq(SoundFrames(n)) /\ s.live \in BOOLEAN
    BY DEF SessionsOf, Sessions
  <1>2. CASE ~s.syncing
    BY <1>2, LiveQueue DEF Deliver, Enqueue, News
  <1>3. CASE s.syncing
    <2>1. CASE Len(s.deferred) >= DeferCap
      <3>1. Deliver(s, f) = [s EXCEPT !.live = FALSE]
        BY <1>3, <2>1 DEF Deliver
      <3> QED BY <1>1, <3>1 DEF Sessions
    <2>2. CASE ~(Len(s.deferred) >= DeferCap)
      <3>1. Deliver(s, f) = [s EXCEPT !.deferred = Append(s.deferred, f)]
        BY <1>3, <2>2 DEF Deliver
      <3>2. Append(s.deferred, f) = s.deferred \o <<f>>
        BY <1>1
      <3>3. Deliver(s, f) = [s EXCEPT !.deferred = s.deferred \o <<f>>]
        BY <3>1, <3>2
      <3> QED BY <1>1, <1>3, <3>3 DEF Sessions, News
    <2> QED BY <2>1, <2>2
  <1> QED BY <1>2, <1>3

\* News reaches a session of its room, or changes nothing.
LEMMA LiveBroadcast ==
    ASSUME ServerInv, NEW n \in Nat, db.last <= n, NEW d \in Conn, NEW r, NEW asker,
           NEW frame \in SoundFrames(n), NEW answer \in SoundFrames(n),
           Broadcast(conns, sessions, r, frame, asker, answer)[d].live,
           conns[d].phase = "serving"
    PROVE  LET told == Broadcast(conns, sessions, r, frame, asker, answer)
           IN  /\ conns[d].live
               /\ conns[d].room = r =>
                     News(told[d], conns[d], IF d = asker THEN answer ELSE frame)
               /\ conns[d].room # r => told[d] = conns[d]
  <1> DEFINE told == Broadcast(conns, sessions, r, frame, asker, answer)
             f == IF d = asker THEN answer ELSE frame
  <1>1. db.last \in Nat /\ d \in Registered(sessions) /\ conns[d] \in SessionsOf(db.last)
    BY InMap
  <1>2. conns[d] \in SessionsOf(n)
    BY <1>1, Grown
  <1>3. f \in SoundFrames(n)
    OBVIOUS
  <1> HIDE DEF f
  <1>4. CASE conns[d].room = r
    <2>1. told[d] = Deliver(conns[d], f)
      BY <1>1, <1>4 DEF Broadcast, InRoom, f
    <2> QED BY <1>2, <1>3, <1>4, <2>1, LiveNews DEF f
  <1>5. CASE conns[d].room # r
    <2>1. told[d] = conns[d]
      BY <1>5 DEF Broadcast, InRoom
    <2> QED BY <1>5, <2>1
  <1> QED BY <1>4, <1>5

\* Everybody who is in the map is told who is present in his room.
LEMMA LivePresence ==
    ASSUME NEW n \in Nat, NEW cs, NEW map, DOMAIN map \subseteq Room \X Name,
           NEW d \in Conn, cs[d] \in SessionsOf(n), d \in Registered(map),
           TellPresence(cs, map)[d].live
    PROVE  /\ cs[d].live
           /\ News(TellPresence(cs, map)[d], cs[d], Presence(Users(map, cs[d].room)))
  <1>1. Presence(Users(map, cs[d].room)) \in SoundFrames(n)
    BY UsersTyped, FramesTyped
  <1>2. TellPresence(cs, map)[d] = Deliver(cs[d], Presence(Users(map, cs[d].room)))
    BY DEF TellPresence
  <1> QED BY <1>1, <1>2, LiveNews

\* A session that is live at the end of its catching up has got what was held back.
LEMMA LiveFinish ==
    ASSUME NEW n \in Nat, NEW s \in SessionsOf(n), FinishSync(s).live
    PROVE  /\ s.live
           /\ FinishSync(s) = [s EXCEPT !.outgoing = @ \o (<<SyncComplete(s.through)>> \o s.deferred),
                                        !.syncing = FALSE, !.deferred = <<>>]
  <1> DEFINE new == <<SyncComplete(s.through)>> \o s.deferred
             e == EnqueueAll(s, new)
             t == FinishSync(s)
             G == SoundFrames(n)
  <1>1. s \in Sessions /\ s.outgoing \in Seq(G) /\ s.deferred \in Seq(G) /\ s.through \in 0 .. n
    BY DEF SessionsOf, Sessions
  <1>2. t = [e EXCEPT !.syncing = FALSE, !.deferred = <<>>]
    BY DEF FinishSync
  <1>3. SyncComplete(s.through) \in G
    BY <1>1, FramesTyped
  <1> HIDE DEF G
  <1>3a. <<SyncComplete(s.through)>> \in Seq(G)
    BY <1>3
  <1>3b. new \in Seq(G)
    BY <1>1, <1>3a, ConcatProperties
  <1> HIDE DEF new
  <1>3c. e \in SessionsOf(n)
    BY <1>3b, EnqueueTyped DEF G
  <1> HIDE DEF e
  <1>4. t.live = e.live
    BY <1>2, <1>3c DEF SessionsOf, Sessions
  <1>5. s.live /\ e = Put(s, new)
    BY <1>4, LiveQueue DEF e
  <1>6. t = [s EXCEPT !.outgoing = s.outgoing \o new, !.syncing = FALSE, !.deferred = <<>>]
    BY <1>1, <1>2, <1>5 DEF Put, Sessions
  <1> QED BY <1>5, <1>6 DEF new

-----------------------------------------------------------------------------
(* Every operation makes one of these moves                                *)

\* The transactions of the store.
Commits ==
    \/ db' = db
    \/ \E r \in Room : db' = OpenRoom(db, r)
    \/ \E r \in Room, o \in Owner : db' = AppendChat(db, r, o)
    \/ \E m \in db.rows : db' = RecallRow(db, m)
    \/ db' = ClearAll(db)

\* The shape of a session, for the records of the moves.
LEMMA SessionShape ==
    ASSUME ServerInv, NEW d \in Conn, conns[d].phase = "serving"
    PROVE  /\ conns[d] \in SessionsOf(db.last) /\ conns[d] \in Sessions
           /\ conns[d].room \in Room /\ conns[d].live \in BOOLEAN /\ db.last \in Nat
           /\ conns[d].outgoing \in Seq(SoundFrames(db.last))
           /\ conns[d].deferred \in Seq(SoundFrames(db.last))
  BY InMap DEF SessionsOf, Sessions

\* A step that touches one connection leaves the sessions of the others alone.
LEMMA OthersRest ==
    ASSUME ServerInv, NEW c \in Conn, NEW x, conns' = [conns EXCEPT ![c] = x],
           sessions' = sessions, \A r \in Room : SameRows(r),
           NEW d \in Conn, d # c, Active(conns'[d])
    PROVE  Goes(d) /\ Rests(d)
  <1>1. conns'[d] = conns[d]
    BY DEF ServerInv
  <1>2. conns[d].room \in Room
    BY <1>1, SessionShape DEF Active
  <1> QED BY <1>1, <1>2 DEF Goes, Rests, SameUsers, Active

\* Opening a room changes no messages.
LEMMA OpenSame ==
    ASSUME db \in Databases, NEW r \in Room, db' = OpenRoom(db, r) \/ db' = db
    PROVE  Commits /\ \A q \in Room : SameRows(q)
  <1>1. db'.rows = db.rows
    BY DEF OpenRoom, Databases
  <1> QED BY <1>1 DEF Commits, SameRows, RoomRows

\* Before it serves, and when it ends, a connection concerns no session.
LEMMA QuietMoves ==
    ASSUME ServerInv, NEW c \in Conn,
           \/ Accept(c) \/ JoinTimeout(c) \/ JoinClosed(c) \/ WriteRefusal(c)
           \/ \E code \in JoinFailures : JoinInvalid(c, code)
           \/ \E r \in Room, n \in Name : JoinStorageError(c, r, n),
           NEW d \in Conn
    PROVE  Commits /\ (Active(conns'[d]) => d # c /\ Goes(d) /\ Rests(d))
  <1>1. db \in Databases /\ sessions' = sessions /\ conns \in [Conn -> ConnsOf(db.last)]
    BY DEF ServerInv, Accept, JoinTimeout, JoinClosed, WriteRefusal, JoinInvalid, JoinStorageError
  <1>2. db' = db \/ \E r \in Room : db' = OpenRoom(db, r)
    BY DEF Accept, JoinTimeout, JoinClosed, WriteRefusal, JoinInvalid, JoinStorageError
  <1>3. Commits /\ \A q \in Room : SameRows(q)
    BY <1>1, <1>2, OpenSame DEF Commits, SameRows
  <1>4. PICK x : conns' = [conns EXCEPT ![c] = x] /\ x.phase # "serving"
    <2>1. CASE Accept(c)
      <3>1. conns' = [conns EXCEPT ![c] = Accepted]
        BY <2>1 DEF Accept
      <3>2. Accepted.phase # "serving"
        BY DEF Accepted
      <3> QED BY <3>1, <3>2
    <2>2. CASE JoinTimeout(c) \/ WriteRefusal(c)
      BY <2>2 DEF JoinTimeout, WriteRefusal, Free
    <2>3. CASE JoinClosed(c)
      <3>1. conns' = [conns EXCEPT ![c] = Refused(conns[c].live, "unavailable")]
        BY <2>3 DEF JoinClosed, Refuse
      <3>2. Refused(conns[c].live, "unavailable").phase # "serving"
        BY DEF Refused
      <3> QED BY <3>1, <3>2
    <2>4. CASE \E code \in JoinFailures : JoinInvalid(c, code)
      BY <2>4 DEF JoinInvalid, Refuse, Refused
    <2>5. CASE \E r \in Room, n \in Name : JoinStorageError(c, r, n)
      BY <2>5 DEF JoinStorageError, Refuse, Refused
    <2> QED BY <2>1, <2>2, <2>3, <2>4, <2>5
  <1>5. Active(conns'[d]) => d # c
    BY <1>1, <1>4 DEF Active
  <1>6. Active(conns'[d]) => Goes(d) /\ Rests(d)
    BY <1>1, <1>3, <1>4, <1>5, OthersRest
  <1> QED BY <1>3, <1>5, <1>6

\* A session that fails a request.
LEMMA FailMoves ==
    ASSUME ServerInv, NEW c \in Conn, conns[c].phase = "serving", NEW req \in Asked, Fail(c, req),
           NEW d \in Conn
    PROVE  /\ Commits
           /\ Active(conns'[d]) => Goes(d) /\ (d # c => Rests(d)) /\ (d = c => HearsError(c))
  <1>1. conns' = [conns EXCEPT ![c] = Enqueue(conns[c], Failure(req))]
        /\ UNCHANGED <<db, horizon, closed, sessions>>
    BY DEF Fail
  <1>2. \A q \in Room : SameRows(q)
    BY <1>1 DEF SameRows
  <1>3. d # c /\ Active(conns'[d]) => Goes(d) /\ Rests(d)
    BY <1>1, <1>2, OthersRest
  <1>4. ASSUME d = c, Active(conns'[d]) PROVE Goes(d) /\ HearsError(c)
    <2>1. conns'[c] = Enqueue(conns[c], Failure(req))
      BY <1>1 DEF ServerInv
    <2>2. conns[c].live /\ conns'[c] = Put(conns[c], <<Failure(req)>>)
      BY <1>4, <2>1, LiveQueue DEF Enqueue, Active
    <2>3. conns[c].room \in Room
      BY SessionShape
    <2> QED BY <1>1, <1>2, <1>4, <2>2, <2>3 DEF Goes, Active, HearsError, SameUsers
  <1> QED BY <1>1, <1>3, <1>4 DEF Commits

\* The reading of a frame, the end of a session's context and the clock.
LEMMA WriteMoves ==
    ASSUME ServerInv, NEW c \in Conn, WriteFrame(c), NEW d \in Conn
    PROVE  /\ Commits
           /\ Active(conns'[d]) => Goes(d) /\ (d # c => Rests(d)) /\ (d = c => IsRead(c))
  <1>1. conns' = [conns EXCEPT ![c] = [conns[c] EXCEPT !.outgoing = Tail(@)]]
        /\ UNCHANGED <<db, horizon, closed, sessions>>
        /\ conns[c].live /\ conns[c].phase = "serving" /\ conns[c].outgoing # <<>>
    BY DEF WriteFrame
  <1>2. \A q \in Room : SameRows(q)
    BY <1>1 DEF SameRows
  <1>3. d # c /\ Active(conns'[d]) => Goes(d) /\ Rests(d)
    BY <1>1, <1>2, OthersRest
  <1>4. ASSUME d = c, Active(conns'[d]) PROVE Goes(d) /\ IsRead(c)
    <2>1. conns'[c] = [conns[c] EXCEPT !.outgoing = Tail(@)]
      BY <1>1 DEF ServerInv
    <2>2. conns[c].room \in Room
      BY <1>1, SessionShape
    <2> QED BY <1>1, <1>2, <1>4, <2>1, <2>2 DEF Goes, Active, IsRead, SameUsers
  <1> QED BY <1>1, <1>3, <1>4 DEF Commits

\* Cancelled or ended sessions are not live any more, and the others rest.
LEMMA IdleMoves ==
    ASSUME ServerInv,
           \/ \E c \in Conn : Cancel(c)
           \/ Close \/ Restart \/ \E upTo : Age(upTo),
           NEW d \in Conn
    PROVE  Commits /\ (Active(conns'[d]) => Goes(d) /\ Rests(d))
  <1>1. db' = db
    BY DEF Cancel, Close, Restart, Age
  <1>2. \A q \in Room : SameRows(q)
    BY <1>1 DEF SameRows
  <1>3. ASSUME NEW c \in Conn, Cancel(c), Active(conns'[d]) PROVE Goes(d) /\ Rests(d)
    <2>1. conns' = [conns EXCEPT ![c] = [conns[c] EXCEPT !.live = FALSE]] /\ sessions' = sessions
          /\ conns[c].phase = "serving"
      BY <1>3 DEF Cancel
    <2>2. conns[c] \in Sessions
      BY <2>1, SessionShape
    <2>3. d # c
      BY <1>3, <2>1, <2>2 DEF Active, ServerInv, Sessions
    <2> QED BY <1>2, <1>3, <2>1, <2>3, OthersRest
  <1>4. Close => ~Active(conns'[d])
    <2> SUFFICES ASSUME Close PROVE ~conns'[d].live
      BY DEF Active
    <2>1. conns'[d] = [conns[d] EXCEPT !.live = FALSE]
      BY DEF Close
    <2>2. "live" \in DOMAIN conns[d]
      <3>1. conns[d] \in ConnsOf(db.last)
        BY DEF ServerInv
      <3>2. CASE conns[d] \in SessionsOf(db.last)
        BY <3>2 DEF SessionsOf, Sessions
      <3>3. CASE conns[d] \in [phase : {"reading"}, live : BOOLEAN] \/ conns[d] = Free
        BY <3>3 DEF Free
      <3>4. CASE \E live \in BOOLEAN, code \in ErrorCodes : conns[d] = Refused(live, code)
        BY <3>4 DEF Refused
      <3> QED BY <3>1, <3>2, <3>3, <3>4 DEF ConnsOf
    <2> QED BY <2>1, <2>2
  <1>5. Restart => ~Active(conns'[d])
    BY DEF Restart, Free, Active
  <1>6. ASSUME NEW upTo, Age(upTo), Active(conns'[d]) PROVE Goes(d) /\ Rests(d)
    <2>1. conns' = conns /\ sessions' = sessions
      BY <1>6 DEF Age
    <2>2. conns[d].room \in Room
      BY <1>6, <2>1, SessionShape DEF Active
    <2> QED BY <1>2, <1>6, <2>1, <2>2 DEF Goes, Rests, SameUsers, Active
  <1> QED BY <1>1, <1>3, <1>4, <1>5, <1>6 DEF Commits

\* A send: its session is told of it twice, the others of the room once.
LEMMA SendMoves ==
    ASSUME ServerInv, NEW c \in Conn, HandleSend(c, "send"), NEW d \in Conn
    PROVE  /\ Commits
           /\ Active(conns'[d]) =>
                 /\ Goes(d)
                 /\ d # c => Hears(d)
                 /\ d = c => HearsItsOwn(c) \/ HearsError(c)
  <1>0. conns[c].phase = "serving"
    BY DEF HandleSend, Handles
  <1>1. conns[c] \in SessionsOf(db.last) /\ db.last \in Nat /\ db \in Databases /\ RowsDrawn
        /\ conns[c].room \in Room /\ conns[c].owner \in Owner
    BY <1>0, InMap DEF ServerInv, SessionsOf, Sessions
  <1>2. CASE conns[c].syncing /\ Fail(c, "send")
    <2>1. "send" \in Asked
      BY DEF Asked
    <2> QED BY <1>0, <1>2, <2>1, FailMoves DEF Hears
  <1>3. CASE ~(conns[c].syncing /\ Fail(c, "send"))
    <2> DEFINE r    == conns[c].room
               o    == conns[c].owner
               m    == NewRow(db, r, o)
               n    == db.last + 1
               f    == Message("", m)
               g    == Message("send", m)
               told == Broadcast(conns, sessions, r, f, c, g)
    <2>1. /\ ~conns[c].syncing
          /\ db' = AppendChat(db, r, o)
          /\ conns' = [told EXCEPT ![c] = Enqueue(told[c], Ack("send", m))]
          /\ UNCHANGED <<horizon, closed, sessions>>
      BY <1>3 DEF HandleSend
    <2>2. m \in Row /\ m.id = n /\ m.room = r /\ n \in Nat /\ db.last <= n
      BY <1>1 DEF NewRow, Row
    <2>3. db'.rows = db.rows \cup {m}
      BY <1>1, <2>1 DEF AppendChat, Databases
    <2>4. Adds(r, m) /\ \A q \in Room : q # r => SameRows(q)
      BY <2>2, <2>3 DEF Adds, SameRows, RoomRows
    <2>5. Commits
      BY <1>1, <2>1 DEF Commits
    <2> HIDE DEF m, n
    <2>6. f \in SoundFrames(n) /\ g \in SoundFrames(n)
      <3>1. n \in Nat /\ m.id <= n /\ m \in Row
        BY <2>2
      <3> QED BY <3>1, FramesTyped
    <2> HIDE DEF f, g
    <2>7. told = [e \in Conn |-> told[e]]
      BY DEF Broadcast
    <2>8. ASSUME Active(conns'[d]), d # c PROVE Goes(d) /\ Hears(d)
      <3>1. conns'[d] = told[d]
        BY <2>1, <2>7, <2>8
      <3>2. Told(told[d], conns[d])
        <4>1. conns[d] \in ConnsOf(db.last) /\ ConnsOf(db.last) \subseteq ConnsOf(n)
              /\ (d \in Registered(sessions) => conns[d].phase = "serving")
          BY <1>1, <2>2, Grown, InMap DEF ServerInv
        <4> QED BY <2>2, <2>6, <4>1, BroadcastTyped
      <3>3. conns[d].phase = "serving"
        BY <2>8, <3>1, <3>2 DEF Active, Told, Grows
      <3>4. told[d].live
        BY <2>8, <3>1 DEF Active
      <3> HIDE DEF told
      <3>5. /\ conns[d].live
            /\ conns[d].room = r => News(told[d], conns[d], f)
            /\ conns[d].room # r => told[d] = conns[d]
        BY <2>2, <2>6, <2>8, <3>3, <3>4, LiveBroadcast DEF told
      <3>6. conns[d].room \in Room
        BY <3>3, SessionShape
      <3>7. conns[d].room # r => Rests(d)
        BY <2>1, <2>4, <3>1, <3>5, <3>6 DEF Rests, SameUsers
      <3>8. conns[d].room = r => HearsMessage(d)
        BY <2>1, <2>2, <2>4, <3>1, <3>5 DEF HearsMessage, SameUsers, f
      <3> QED BY <2>8, <3>3, <3>5, <3>7, <3>8 DEF Goes, Active, Hears
    <2>9. ASSUME Active(conns'[c]) PROVE Goes(c) /\ HearsItsOwn(c)
      <3>1. conns'[c] = Enqueue(told[c], Ack("send", m))
        BY <2>1, <2>7
      <3> HIDE DEF told
      <3>2. told[c].live /\ conns'[c] = Put(told[c], <<Ack("send", m)>>)
        BY <2>9, <3>1, LiveQueue DEF Enqueue, Active
      <3>3. /\ conns[c].live
            /\ News(told[c], conns[c], g)
        BY <1>0, <2>2, <2>6, <3>2, LiveBroadcast DEF told
      <3>4. told[c] = Put(conns[c], <<Message("send", m)>>)
        BY <2>1, <3>3 DEF News, g
      <3>5. HearsItsOwn(c)
        BY <2>1, <2>2, <2>4, <3>2, <3>4 DEF HearsItsOwn, SameUsers
      <3> QED BY <1>0, <2>9, <3>3, <3>5 DEF Goes, Active
    <2> QED BY <2>5, <2>8, <2>9
  <1> QED BY <1>2, <1>3

\* A recall: everybody in the room is told.
LEMMA RecallMoves ==
    ASSUME ServerInv, NEW c \in Conn, NEW id, HandleRecall(c, "recall", id), NEW d \in Conn
    PROVE  /\ Commits
           /\ Active(conns'[d]) => /\ Goes(d)
                                   /\ Hears(d) \/ (d = c /\ HearsError(c))
  <1>0. conns[c].phase = "serving"
    BY DEF HandleRecall, Handles
  <1>1. conns[c] \in SessionsOf(db.last) /\ db.last \in Nat /\ db \in Databases /\ RowsDrawn
    BY <1>0, InMap DEF ServerInv
  <1>2. CASE Fail(c, "recall")
    <2>1. "recall" \in Asked
      BY DEF Asked
    <2> QED BY <1>0, <1>2, <2>1, FailMoves DEF Hears
  <1>3. CASE ~Fail(c, "recall")
    <2>1. PICK m \in OwnRows(db, conns[c].room, id, conns[c].owner) :
             /\ db' = IF m.recalled THEN db ELSE RecallRow(db, m)
             /\ conns' = Broadcast(conns, sessions, m.room,
                            Recalled("", [m EXCEPT !.recalled = TRUE], InstanceID(db', m.room)), c,
                            Recalled("recall", [m EXCEPT !.recalled = TRUE], InstanceID(db', m.room)))
             /\ UNCHANGED <<horizon, closed, sessions>>
      BY <1>3 DEF HandleRecall
    <2> DEFINE r     == m.room
               shown == [m EXCEPT !.recalled = TRUE]
               inst  == InstanceID(db', r)
               f     == Recalled("", shown, inst)
               g     == Recalled("recall", shown, inst)
               told  == Broadcast(conns, sessions, r, f, c, g)
    <2>2. m \in db.rows /\ m \in Row /\ r \in Room
      BY <1>1 DEF OwnRows, RoomRows, Databases, Row
    <2>3. db' \in Databases /\ db'.rows = (db.rows \ {m}) \cup {shown}
      <3>1. CASE m.recalled
        <4>1. shown = m
          BY <2>2, <3>1 DEF Row
        <4> QED BY <1>1, <2>1, <2>2, <3>1, <4>1
      <3>2. CASE ~m.recalled
        <4>1. db' = RecallRow(db, m)
          BY <2>1, <3>2
        <4>2. db' \in Databases
          BY <1>1, <2>2, <4>1, RecallRowTyped
        <4>3. db'.rows = (db.rows \ {m}) \cup {shown}
          BY <1>1, <4>1 DEF RecallRow, Databases
        <4> QED BY <4>2, <4>3
      <3> QED BY <3>1, <3>2
    <2>4. shown \in Row /\ shown.id = m.id /\ m.id <= db.last /\ shown.room = r
      BY <1>1, <2>2 DEF Row, RowsDrawn
    <2>5. Recalls(r, m) /\ \A q \in Room : q # r => SameRows(q)
      BY <2>2, <2>3, <2>4 DEF Recalls, SameRows, RoomRows
    <2>6. Commits
      BY <2>1, <2>2 DEF Commits
    <2>7. inst \in InstanceIDs
      BY <2>2, <2>3, InstanceTyped
    <2> HIDE DEF inst, shown
    <2>8. f \in SoundFrames(db.last) /\ g \in SoundFrames(db.last)
      BY <1>1, <2>4, <2>7, FramesTyped
    <2>9. conns' = told /\ sessions' = sessions
      BY <2>1 DEF inst, shown
    <2> HIDE DEF f, g
    <2>10. ASSUME Active(conns'[d]) PROVE Goes(d) /\ Hears(d)
      <3>2. Told(told[d], conns[d])
        <4>1. conns[d] \in ConnsOf(db.last) /\ (d \in Registered(sessions) => conns[d].phase = "serving")
          BY InMap DEF ServerInv
        <4> QED BY <1>1, <2>8, <4>1, BroadcastTyped
      <3>3. conns[d].phase = "serving"
        BY <2>9, <2>10, <3>2 DEF Active, Told, Grows
      <3>4. told[d].live /\ db.last <= db.last
        BY <1>1, <2>9, <2>10 DEF Active
      <3> HIDE DEF told
      <3>5. /\ conns[d].live
            /\ conns[d].room = r => News(told[d], conns[d], IF d = c THEN g ELSE f)
            /\ conns[d].room # r => told[d] = conns[d]
        BY <1>1, <2>8, <3>3, <3>4, LiveBroadcast DEF told
      <3>6. conns[d].room \in Room
        BY <3>3, SessionShape
      <3>7. conns[d].room # r => Rests(d)
        BY <2>5, <2>9, <3>5, <3>6 DEF Rests, SameUsers
      <3>8. ASSUME conns[d].room = r PROVE HearsRecall(d)
        <4>1. \E req \in {"", "recall"} : (IF d = c THEN g ELSE f) = Recalled(req, shown, inst)
          BY DEF f, g
        <4>2. \E req \in {"", "recall"} : News(told[d], conns[d], Recalled(req, shown, inst))
          BY <3>5, <3>8, <4>1
        <4> QED BY <2>2, <2>5, <2>9, <3>8, <4>2 DEF HearsRecall, SameUsers, shown, inst
      <3> QED BY <2>10, <3>3, <3>5, <3>7, <3>8 DEF Goes, Active, Hears
    <2> QED BY <2>6, <2>10
  <1> QED BY <1>2, <1>3

\* A page of older messages.
LEMMA HistoryMoves ==
    ASSUME ServerInv, NEW c \in Conn, NEW before \in Int, HandleHistory(c, "older", before),
           NEW d \in Conn
    PROVE  /\ Commits
           /\ Active(conns'[d]) => /\ Goes(d)
                                   /\ d # c => Hears(d)
                                   /\ d = c => GetsOlder(c, before) \/ HearsError(c)
  <1>0. conns[c].phase = "serving"
    BY DEF HandleHistory, Handles
  <1>2. CASE Fail(c, "older")
    <2>1. "older" \in Asked
      BY DEF Asked
    <2> QED BY <1>0, <1>2, <2>1, FailMoves DEF Hears
  <1>3. CASE ~Fail(c, "older")
    <2> DEFINE f == PageFrame("history", "older", OlderPage(c, before))
    <2>1. /\ conns' = [conns EXCEPT ![c] = Enqueue(conns[c], f)]
          /\ UNCHANGED <<db, horizon, closed, sessions>>
          /\ ~conns[c].syncing /\ before > 0
      BY <1>3 DEF HandleHistory, OlderPage
    <2>2. \A q \in Room : SameRows(q)
      BY <2>1 DEF SameRows
    <2>3. Active(conns'[d]) /\ d # c => Goes(d) /\ Rests(d)
      BY <2>1, <2>2, OthersRest
    <2>4. ASSUME Active(conns'[c]) PROVE Goes(c) /\ GetsOlder(c, before)
      <3>1. conns'[c] = Enqueue(conns[c], f)
        BY <2>1 DEF ServerInv
      <3> HIDE DEF f
      <3>2. conns[c].live /\ conns'[c] = Put(conns[c], <<f>>)
        BY <2>4, <3>1, LiveQueue DEF Enqueue, Active
      <3>3. conns[c].room \in Room
        BY <1>0, SessionShape
      <3>4. before \in Nat \ {0}
        BY <2>1
      <3> QED BY <1>0, <2>1, <2>2, <2>4, <3>2, <3>3, <3>4 DEF GetsOlder, f, Goes, Active, SameUsers
    <2> QED BY <2>1, <2>3, <2>4 DEF Commits, Hears
  <1> QED BY <1>2, <1>3

\* The next page of the catching up, and its end.
LEMMA SyncMoves ==
    ASSUME ServerInv, NEW c \in Conn, NEW after, HandleSync(c, "next", after), NEW d \in Conn
    PROVE  /\ Commits
           /\ Active(conns'[d]) => /\ Goes(d)
                                   /\ d # c => Hears(d)
                                   /\ d = c => GetsPage(c) \/ HearsError(c)
  <1>0. conns[c].phase = "serving" /\ conns[c].syncing
    BY DEF HandleSync, Handles
  <1>2. CASE Fail(c, "next")
    <2>1. "next" \in Asked
      BY DEF Asked
    <2> QED BY <1>0, <1>2, <2>1, FailMoves DEF Hears
  <1>3. CASE ~Fail(c, "next")
    <2> DEFINE s    == conns[c]
               page == SyncPage(c)
               f    == PageFrame("sync", "next", page)
               e    == SyncSent(c)
    <2>1. /\ conns' = [conns EXCEPT ![c] = IF page.hasMore THEN e ELSE FinishSync(e)]
          /\ UNCHANGED <<db, horizon, closed, sessions>>
      BY <1>3 DEF HandleSync, SyncPage, SyncSent
    <2>2. \A q \in Room : SameRows(q)
      BY <2>1 DEF SameRows
    <2>3. Active(conns'[d]) /\ d # c => Goes(d) /\ Rests(d)
      <3> HIDE DEF page, e
      <3> QED BY <2>1, <2>2, OthersRest
    <2>4. ASSUME Active(conns'[c]) PROVE Goes(c) /\ GetsPage(c)
      <3>1. conns'[c] = IF page.hasMore THEN e ELSE FinishSync(e)
        BY <2>1 DEF ServerInv
      <3>2. /\ s \in Sessions /\ s.room \in Room /\ db.last \in Nat
            /\ e \in SessionsOf(db.last) /\ e.cursor = Advance(s.cursor, page)
            /\ e.through = s.through /\ e.deferred = s.deferred
        BY <1>0, SessionShape, SyncSentTyped
      <3>3. e.live
        BY <2>4, <3>1, <3>2, LiveFinish DEF Active
      <3>4. e = [Enqueue(s, f) EXCEPT !.cursor = Advance(@, page)]
        BY DEF SyncSent
      <3>5. f \in SoundFrames(db.last)
        <4>1. page \in Pages(db.last)
          BY <1>0, SessionShape, PageTyped DEF SyncPage, ServerInv
        <4> QED BY <3>2, <4>1, FramesTyped
      <3>6. Enqueue(s, f) \in SessionsOf(db.last)
        BY <1>0, <3>5, SessionShape, EnqueueOne
      <3> HIDE DEF f, page
      <3>7. Enqueue(s, f).live
        BY <3>3, <3>4, <3>6 DEF SessionsOf, Sessions
      <3>8. s.live /\ Enqueue(s, f) = Put(s, <<f>>)
        BY <3>7, LiveQueue DEF Enqueue
      <3>9. e = [s EXCEPT !.outgoing = s.outgoing \o <<f>>, !.cursor = Advance(s.cursor, page)]
        BY <3>2, <3>4, <3>8 DEF Put, Sessions
      <3> HIDE DEF e
      <3>10. CASE page.hasMore
        <4>1. Paged(conns'[c], s, page)
          BY <3>1, <3>9, <3>10 DEF Paged, f
        <4> QED BY <1>0, <2>1, <2>2, <2>4, <3>2, <3>8, <3>10, <4>1 DEF GetsPage, Goes, Active, SameUsers, page
      <3>11. CASE ~page.hasMore
        <4>1. conns'[c] = FinishSync(e)
          BY <3>1, <3>11
        <4>2. conns'[c] = [e EXCEPT !.outgoing = e.outgoing \o (<<SyncComplete(e.through)>> \o e.deferred),
                                    !.syncing = FALSE, !.deferred = <<>>]
          <5>1. FinishSync(e).live /\ e \in SessionsOf(db.last) /\ db.last \in Nat
            BY <2>4, <3>2, <4>1 DEF Active
          <5>2. FinishSync(e) = [e EXCEPT !.outgoing = @ \o (<<SyncComplete(e.through)>> \o e.deferred),
                                          !.syncing = FALSE, !.deferred = <<>>]
            BY <5>1, LiveFinish
          <5> QED BY <4>1, <5>2
        <4>3. e.outgoing = s.outgoing \o <<f>>
          BY <3>2, <3>9 DEF Sessions
        <4>4. conns'[c] = [s EXCEPT !.outgoing = (s.outgoing \o <<f>>) \o (<<SyncComplete(s.through)>> \o s.deferred),
                                    !.cursor = Advance(s.cursor, page),
                                    !.syncing = FALSE, !.deferred = <<>>]
          BY <3>2, <3>9, <4>2, <4>3 DEF Sessions
        <4>5. Caught(conns'[c], s, page)
          BY <4>4 DEF Caught, f
        <4> QED BY <1>0, <2>1, <2>2, <2>4, <3>2, <3>8, <3>11, <4>5 DEF GetsPage, Goes, Active, SameUsers, page
      <3> QED BY <3>10, <3>11
    <2> QED BY <2>1, <2>3, <2>4 DEF Commits, Hears
  <1> QED BY <1>2, <1>3

\* A page of the catching up that cannot be read ends the session.
LEMMA SyncErrorMoves ==
    ASSUME ServerInv, NEW c \in Conn, HandleSyncStorageError(c, "next"), NEW d \in Conn
    PROVE  Commits /\ (Active(conns'[d]) => Goes(d) /\ Hears(d))
  <1>1. ~conns'[c].live
    BY SyncErrorKeeps
  <1>2. PICK x : conns' = [conns EXCEPT ![c] = x]
    BY DEF HandleSyncStorageError
  <1>3. UNCHANGED <<db, sessions>>
    BY DEF HandleSyncStorageError
  <1>4. \A q \in Room : SameRows(q)
    BY <1>3 DEF SameRows
  <1>5. Active(conns'[d]) => d # c
    BY <1>1 DEF Active
  <1>6. Active(conns'[d]) => Goes(d) /\ Rests(d)
    BY <1>2, <1>3, <1>4, <1>5, OthersRest
  <1> QED BY <1>3, <1>6 DEF Commits, Hears

\* Somebody goes: everybody who stays hears who is present.
LEMMA LeaveMoves ==
    ASSUME ServerInv, NEW c \in Conn, Leave(c), NEW d \in Conn
    PROVE  Commits /\ (Active(conns'[d]) => d # c /\ Goes(d) /\ HearsPresence(d))
  <1> DEFINE gone == [conns EXCEPT ![c] = Free]
  <1>1. /\ ServerInv' /\ Others(c) /\ conns'[c] = Free /\ UNCHANGED db
        /\ conns[c].phase = "serving"
    BY LeaveKeeps DEF Leave
  <1>2. Commits /\ \A q \in Room : SameRows(q)
    BY <1>1 DEF Commits, SameRows
  <1> SUFFICES ASSUME Active(conns'[d]) PROVE d # c /\ Goes(d) /\ HearsPresence(d)
    BY <1>2
  <1>3. d # c
    BY <1>1 DEF Active, Free
  <1>4. gone[d] = conns[d]
    BY <1>3 DEF ServerInv
  <1>5. conns[d].phase = "serving"
    BY <1>1, <1>3 DEF Others, Told, Grows, Active
  <1>6. conns' = TellPresence(gone, sessions')
    <2>1. PICK k \in DOMAIN sessions : sessions[k] = c
      BY <1>1, InMap DEF Registered
    <2>2. k = <<k[1], k[2]>> /\ conns[c].room = k[1] /\ conns[c].name = k[2]
      BY <2>1 DEF ServerInv, SessionInv, NamesExclusive
    <2> QED BY <2>1, <2>2 DEF Leave
  <1>7. d \in Registered(sessions') /\ DOMAIN sessions' \subseteq Room \X Name
    BY <1>1 DEF Active, ServerInv, SessionInv, NamesExclusive, Serving, Registered
  <1> HIDE DEF gone
  <1>8. conns[d] \in SessionsOf(db.last) /\ db.last \in Nat /\ conns[d].room \in Room
    BY <1>5, SessionShape
  <1>9. /\ conns[d].live
        /\ News(conns'[d], conns[d], Presence(Users(sessions', conns[d].room)))
    <2>1. gone[d] \in SessionsOf(db.last) /\ TellPresence(gone, sessions')[d].live
      BY <1>4, <1>6, <1>8 DEF Active
    <2>2. /\ gone[d].live
          /\ News(TellPresence(gone, sessions')[d], gone[d], Presence(Users(sessions', gone[d].room)))
      BY <1>7, <1>8, <2>1, LivePresence
    <2> QED BY <1>4, <1>6, <2>2
  <1> QED BY <1>2, <1>3, <1>5, <1>8, <1>9 DEF Goes, Active, HearsPresence

\* Somebody joins, or is refused.
LEMMA JoinMoves ==
    ASSUME ServerInv, NEW c \in Conn, NEW r \in Room, NEW n \in Name, NEW o \in Owner,
           NEW inst, NEW after \in Int, Join(c, r, n, o, inst, after), NEW d \in Conn
    PROVE  /\ Commits
           /\ Active(conns'[d]) =>
                 /\ d # c => Goes(d) /\ Hears(d)
                 /\ d = c => Begins(c, r, n, o, inst, after)
  <1>1. /\ ServerInv' /\ Others(c) /\ db \in Databases /\ db.last \in Nat /\ RowsDrawn
        /\ DOMAIN sessions \subseteq Room \X Name
    BY JoinKeeps DEF ServerInv, Databases, SessionInv
  <1>2. Commits /\ \A q \in Room : SameRows(q)
    BY <1>1, OpenSame DEF Join
  <1>3. ASSUME NEW code, Refuse(c, code), UNCHANGED sessions, Active(conns'[d])
        PROVE  d # c /\ Goes(d) /\ Hears(d)
    <2>1. conns' = [conns EXCEPT ![c] = Refused(conns[c].live, code)]
      BY <1>3 DEF Refuse
    <2>2. d # c
      BY <1>3, <2>1 DEF Refused, Active, ServerInv
    <2> QED BY <1>2, <1>3, <2>1, <2>2, OthersRest DEF Hears
  <1>4. CASE /\ ~Taken(r, n)
             /\ ~InvalidCursor(r, inst, after)
             /\ sessions' = Register(sessions, r, n, c)
             /\ conns' = TellPresence(
                   [conns EXCEPT ![c] = NewSession(r, n, o, inst, after)], sessions')
    <2> DEFINE s  == NewSession(r, n, o, inst, after)
               cs == [conns EXCEPT ![c] = s]
    <2>1. after \in Nat
      BY <1>4 DEF InvalidCursor
    <2>2. Fresh(s, r, n, o, inst, after)
      BY <1>1, <2>1, NewSessionFresh
    <2> HIDE DEF s
    <2>3. cs[c] = s /\ \A e \in Conn \ {c} : cs[e] = conns[e]
      BY DEF ServerInv
    <2> HIDE DEF cs
    <2>4. conns' = TellPresence(cs, sessions')
      BY <1>4 DEF cs, s
    <2>5. \A e \in Conn : e \in Registered(sessions') <=> conns'[e].phase = "serving"
      BY <1>1 DEF ServerInv, SessionInv, NamesExclusive, Serving
    <2>6. DOMAIN sessions' \subseteq Room \X Name
      BY <1>1 DEF ServerInv, SessionInv
    <2>7. ASSUME Active(conns'[d]), d # c PROVE Goes(d) /\ HearsPresence(d)
      <3>1. conns[d].phase = "serving"
        BY <1>1, <2>7 DEF Others, Told, Grows, Active
      <3>2. conns[d] \in SessionsOf(db.last) /\ conns[d].room \in Room
        BY <3>1, SessionShape
      <3>3. cs[d] \in SessionsOf(db.last) /\ d \in Registered(sessions')
            /\ TellPresence(cs, sessions')[d].live
        BY <2>3, <2>4, <2>5, <2>7, <3>2 DEF Active
      <3>4. /\ cs[d].live
            /\ News(TellPresence(cs, sessions')[d], cs[d], Presence(Users(sessions', cs[d].room)))
        BY <1>1, <2>6, <3>3, LivePresence
      <3>5. conns[d].live /\ News(conns'[d], conns[d], Presence(Users(sessions', conns[d].room)))
        BY <2>3, <2>4, <2>7, <3>4
      <3> QED BY <1>2, <2>7, <3>1, <3>2, <3>5 DEF Goes, Active, HearsPresence
    <2>8. ASSUME Active(conns'[c]) PROVE Begins(c, r, n, o, inst, after)
      <3>1. s \in SessionsOf(db.last) /\ s.room = r
        BY <2>2 DEF Fresh
      <3>2. cs[c] \in SessionsOf(db.last) /\ c \in Registered(sessions')
            /\ TellPresence(cs, sessions')[c].live
        BY <2>3, <2>4, <2>5, <2>8, <3>1 DEF Active
      <3>3. /\ s.live
            /\ News(conns'[c], s, Presence(Users(sessions', r)))
        <4>1. /\ cs[c].live
              /\ News(TellPresence(cs, sessions')[c], cs[c], Presence(Users(sessions', cs[c].room)))
          BY <1>1, <2>6, <3>2, LivePresence
        <4> QED BY <2>3, <2>4, <3>1, <4>1
      <3>4. conns'[c].room = r
        <4>1. s \in Sessions
          BY <3>1 DEF SessionsOf
        <4> QED BY <3>1, <3>3, <4>1 DEF News, Put, Sessions
      <3>5. Users(sessions', r) = Users(sessions, r) \cup {n}
        <4>1. DOMAIN sessions' = DOMAIN sessions \cup {<<r, n>>}
          BY <1>4 DEF Register
        <4>2. {k \in DOMAIN sessions' : k[1] = r} = {k \in DOMAIN sessions : k[1] = r} \cup {<<r, n>>}
          BY <4>1
        <4>3. <<r, n>>[2] = n
          OBVIOUS
        <4> QED BY <4>2, <4>3 DEF Users
      <3>6. conns[c].phase = "reading"
        BY DEF Join
      <3> QED BY <1>2, <1>4, <2>1, <2>2, <3>1, <3>3, <3>4, <3>5, <3>6 DEF Begins
    <2> QED BY <1>2, <2>7, <2>8 DEF Hears
  <1>5. \/ Refuse(c, "name_taken") /\ UNCHANGED sessions
        \/ Refuse(c, "invalid_cursor") /\ UNCHANGED sessions
        \/ /\ ~Taken(r, n)
           /\ ~InvalidCursor(r, inst, after)
           /\ sessions' = Register(sessions, r, n, c)
           /\ conns' = TellPresence(
                 [conns EXCEPT ![c] = NewSession(r, n, o, inst, after)], sessions')
    BY DEF Join
  <1> QED BY <1>2, <1>3, <1>4, <1>5

\* A cleanup: everybody starts over, and hears who is present.
LEMMA ClearMoves ==
    ASSUME ServerInv, ClearHistory, NEW d \in Conn
    PROVE  Commits /\ (Active(conns'[d]) => Goes(d) /\ IsCleared(d))
  <1> DEFINE empty == [conns[d] EXCEPT !.syncing = FALSE, !.deferred = <<>>,
                                       !.cursor = 0, !.through = 0]
             f     == HistoryCleared(InstanceID(db', conns[d].room))
             told  == [e \in Conn |->
                         IF e \in Registered(sessions)
                         THEN Enqueue([conns[e] EXCEPT !.syncing = FALSE, !.deferred = <<>>,
                                                       !.cursor = 0, !.through = 0],
                                      HistoryCleared(InstanceID(db', conns[e].room)))
                         ELSE conns[e]]
  <1>1. /\ conns' = TellPresence(told, sessions) /\ db' = ClearAll(db) /\ sessions' = sessions
        /\ ServerInv' /\ db \in Databases /\ DOMAIN sessions \subseteq Room \X Name
    BY ClearKeeps DEF ClearHistory, ServerInv, SessionInv
  <1>2. Commits
    BY <1>1 DEF Commits
  <1> SUFFICES ASSUME Active(conns'[d]) PROVE Goes(d) /\ IsCleared(d)
    BY <1>2
  <1>3. conns[d].phase = "serving" /\ d \in Registered(sessions)
    <2>1. d \in Registered(sessions)
      BY <1>1 DEF ServerInv, SessionInv, NamesExclusive, Serving, Active
    <2> QED BY <2>1, InMap
  <1>4. conns[d] \in SessionsOf(db.last) /\ conns[d] \in Sessions /\ db.last \in Nat
        /\ conns[d].room \in Room /\ conns[d].outgoing \in Seq(SoundFrames(db.last))
    BY <1>3, SessionShape
  <1>5. told[d] = Enqueue(empty, f)
    BY <1>3
  <1>6. /\ empty \in SessionsOf(db.last) /\ empty.room = conns[d].room
        /\ empty.outgoing = conns[d].outgoing /\ empty.live = conns[d].live
        /\ empty.syncing = FALSE
    <2>1. <<>> \in Seq(Frames) /\ <<>> \in Seq(SoundFrames(db.last))
      BY EmptySeq
    <2>2. empty \in Sessions /\ empty.deferred = <<>> /\ empty.through = 0
          /\ empty.room = conns[d].room
          /\ empty.outgoing = conns[d].outgoing /\ empty.live = conns[d].live
          /\ empty.syncing = FALSE
      BY <1>4, <2>1 DEF Sessions
    <2> HIDE DEF empty
    <2>3. /\ empty.outgoing \in Seq(SoundFrames(db.last)) /\ empty.deferred \in Seq(SoundFrames(db.last))
          /\ empty.through <= db.last
      BY <1>4, <2>1, <2>2
    <2> HIDE DEF f, told
    <2>4. empty \in SessionsOf(db.last)
      BY <2>2, <2>3 DEF SessionsOf
    <2> QED BY <2>2, <2>4
  <1>7. f \in SoundFrames(db.last)
    <2>1. db' \in Databases
      BY <1>1 DEF ServerInv
    <2> QED BY <1>4, <2>1, InstanceTyped, FramesTyped
  <1> HIDE DEF told, f, empty
  <1>8. told[d] \in SessionsOf(db.last) /\ Grows(told[d], empty)
    <2>1. db.last \in Nat /\ empty \in SessionsOf(db.last)
      BY <1>4, <1>6
    <2>2. Enqueue(empty, f) \in SessionsOf(db.last) /\ Grows(Enqueue(empty, f), empty)
      BY <1>7, <2>1, EnqueueOne
    <2> QED BY <1>5, <2>2
  <1>9. /\ told[d].live
        /\ News(conns'[d], told[d], Presence(Users(sessions, told[d].room)))
    <2>1. TellPresence(told, sessions)[d].live
      BY <1>1 DEF Active
    <2> QED BY <1>1, <1>3, <1>4, <1>8, <2>1, LivePresence
  <1>10. empty.live /\ told[d] = Put(empty, <<f>>)
    BY <1>5, <1>9, LiveQueue DEF Enqueue
  <1> DEFINE users == Users(sessions, conns[d].room)
  <1>11. conns'[d] = Put(Put(empty, <<f>>), <<Presence(users)>>)
    BY <1>6, <1>8, <1>9, <1>10 DEF News, Grows
  <1>12. StartsOver(conns'[d], conns[d], InstanceID(db', conns[d].room), users)
    BY <1>4, <1>11 DEF StartsOver, Put, f, empty, Sessions
  <1>13. RoomRows(db', conns[d].room) = {}
    BY <1>1 DEF ClearAll, Databases, RoomRows
  <1> QED BY <1>1, <1>3, <1>6, <1>10, <1>12, <1>13 DEF IsCleared, Goes, Active, SameUsers

-----------------------------------------------------------------------------
(* Rows and pages                                                          *)

\* Ids start at one, and no two rows share one.
Numbered == \A m \in db.rows : 0 < m.id /\ \A k \in db.rows : k.id = m.id => k = m

\* Transactions give out ids in ascending order, and keep those of the rows they keep.
LEMMA CommitNumbers ==
    ASSUME db \in Databases, RowsDrawn, Numbered, Commits
    PROVE  Numbered' /\ db.last <= db'.last
  <1>1. db.last \in Nat /\ \A m \in db.rows : m \in Row /\ m.id \in Nat
    BY DEF Databases, Row
  <1>2. CASE db' = db
    BY <1>1, <1>2 DEF Numbered
  <1>3. ASSUME NEW r \in Room, db' = OpenRoom(db, r) PROVE Numbered' /\ db.last <= db'.last
    <2>1. db'.rows = db.rows /\ db'.last = db.last
      BY <1>3 DEF OpenRoom, Databases
    <2> QED BY <1>1, <2>1 DEF Numbered
  <1>4. ASSUME NEW r \in Room, NEW o \in Owner, db' = AppendChat(db, r, o)
        PROVE  Numbered' /\ db.last <= db'.last
    <2> DEFINE m == NewRow(db, r, o)
    <2>1. db'.rows = db.rows \cup {m} /\ db'.last = db.last + 1
      BY <1>4 DEF AppendChat, Databases
    <2>2. m.id = db.last + 1
      BY DEF NewRow
    <2> HIDE DEF m
    <2>3. \A k \in db.rows : k.id # m.id
      BY <1>1, <2>2 DEF RowsDrawn
    <2> QED BY <1>1, <2>1, <2>2, <2>3 DEF Numbered
  <1>5. ASSUME NEW m \in db.rows, db' = RecallRow(db, m) PROVE Numbered' /\ db.last <= db'.last
    <2> DEFINE shown == [m EXCEPT !.recalled = TRUE]
    <2>1. db'.rows = (db.rows \ {m}) \cup {shown} /\ db'.last = db.last
      BY <1>5 DEF RecallRow, Databases
    <2>2. shown.id = m.id
      BY <1>1 DEF Row
    <2> HIDE DEF shown
    <2> QED BY <1>1, <2>1, <2>2 DEF Numbered
  <1>6. CASE db' = ClearAll(db)
    <2>1. db'.rows = {} /\ db'.last = db.last
      BY <1>6 DEF ClearAll, Databases
    <2> QED BY <1>1, <2>1 DEF Numbered
  <1> QED BY <1>2, <1>3, <1>4, <1>5, <1>6 DEF Commits

\* The rows of a database are finitely many.
LEMMA FiniteRows ==
    ASSUME db \in Databases, RowsDrawn, Numbered
    PROVE  IsFiniteSet(db.rows)
  <1> DEFINE f == [m \in db.rows |-> m.id]
  <1>1. db.last \in Nat /\ \A m \in db.rows : m.id \in Nat /\ m.id <= db.last /\ 0 < m.id
    BY DEF Databases, Row, RowsDrawn, Numbered
  <1>2. f \in [db.rows -> 1 .. db.last]
    BY <1>1
  <1>3. \A m, k \in db.rows : f[m] = f[k] => m = k
    BY DEF Numbered
  <1>4. f \in Injection(db.rows, 1 .. db.last)
    BY <1>2, <1>3 DEF Injection, IsInjective
  <1>5. IsFiniteSet(1 .. db.last)
    BY <1>1, FS_Interval
  <1> QED BY <1>4, <1>5, FS_Injection

\* What a page of at least one row takes from the lower end of its range.
LEMMA LowestFacts ==
    ASSUME NEW S, IsFiniteSet(S), S \subseteq Row, NEW n \in Nat \ {0}
    PROVE  /\ Lowest(S, n) \subseteq S
           /\ \A x \in S \ Lowest(S, n) : \A y \in Lowest(S, n) : y.id < x.id
           /\ Cardinality(S) <= n => Lowest(S, n) = S
           /\ S # {} => Lowest(S, n) # {}
           /\ Cardinality(S) > n => S # {}
  <1> DEFINE below(x) == {k \in S : k.id < x.id}
  <1>0. \A x \in S : x.id \in Nat
    BY DEF Row
  <1>1. Lowest(S, n) = {m \in S : Cardinality(below(m)) < n}
    BY DEF Lowest
  <1>2. \A x \in S : IsFiniteSet(below(x)) /\ Cardinality(below(x)) \in Nat
    BY FS_Subset, FS_CardinalityType
  <1>3. Cardinality(S) \in Nat /\ Cardinality({}) = 0
    BY FS_CardinalityType, FS_EmptySet
  <1>4. ASSUME NEW x \in S \ Lowest(S, n), NEW y \in Lowest(S, n) PROVE y.id < x.id
    <2>1. ~(Cardinality(below(x)) < n) /\ Cardinality(below(y)) < n /\ y \in S
      BY <1>1
    <2>2. below(x) \subseteq below(y) => Cardinality(below(x)) <= Cardinality(below(y))
      BY <1>2, <2>1, FS_Subset
    <2>3. ~(below(x) \subseteq below(y))
      BY <1>2, <2>1, <2>2
    <2> QED BY <1>0, <2>1, <2>3
  <1>5. ASSUME Cardinality(S) <= n, NEW x \in S PROVE x \in Lowest(S, n)
    <2>1. IsFiniteSet(S \ {x}) /\ Cardinality(S \ {x}) = Cardinality(S) - 1
      BY FS_RemoveElement
    <2>2. below(x) \in SUBSET (S \ {x})
      BY <1>0
    <2>3. Cardinality(below(x)) <= Cardinality(S \ {x})
      BY <2>1, <2>2, FS_Subset
    <2>4. Cardinality(below(x)) \in Nat
      BY <1>2
    <2> HIDE DEF below
    <2>5. Cardinality(below(x)) < n
      BY <1>3, <1>5, <2>1, <2>3, <2>4
    <2> QED BY <1>1, <2>5
  <1>6. ASSUME S # {} PROVE Lowest(S, n) # {}
    <2> DEFINE T == {x.id : x \in S}
    <2>1. T \in SUBSET Nat /\ T # {}
      BY <1>0, <1>6
    <2>2. PICK i \in T : \A j \in T : i <= j
      BY <2>1, NatMin
    <2>3. PICK x \in S : x.id = i
      BY <2>2
    <2>4. below(x) = {}
      BY <1>0, <2>2, <2>3
    <2> QED BY <1>1, <1>3, <2>3, <2>4
  <1>7. Lowest(S, n) \subseteq S /\ (Cardinality(S) <= n => Lowest(S, n) = S)
    <2>1. Lowest(S, n) \subseteq S
      BY <1>1
    <2> QED BY <1>5, <2>1
  <1>8. Cardinality(S) > n => S # {}
    BY <1>3
  <1> QED BY <1>4, <1>6, <1>7, <1>8

\* And from the upper end.
LEMMA HighestFacts ==
    ASSUME NEW S, IsFiniteSet(S), S \subseteq Row, NEW n \in Nat \ {0},
           NEW bound \in Nat, \A x \in S : x.id <= bound
    PROVE  /\ Highest(S, n) \subseteq S
           /\ \A x \in S \ Highest(S, n) : \A y \in Highest(S, n) : x.id < y.id
           /\ Cardinality(S) <= n => Highest(S, n) = S
           /\ S # {} => Highest(S, n) # {}
           /\ Cardinality(S) > n => S # {}
  <1> DEFINE above(x) == {k \in S : k.id > x.id}
  <1>0. \A x \in S : x.id \in Nat
    BY DEF Row
  <1>1. Highest(S, n) = {m \in S : Cardinality(above(m)) < n}
    BY DEF Highest
  <1>2. \A x \in S : IsFiniteSet(above(x)) /\ Cardinality(above(x)) \in Nat
    BY FS_Subset, FS_CardinalityType
  <1>3. Cardinality(S) \in Nat /\ Cardinality({}) = 0
    BY FS_CardinalityType, FS_EmptySet
  <1>4. ASSUME NEW x \in S \ Highest(S, n), NEW y \in Highest(S, n) PROVE x.id < y.id
    <2>1. ~(Cardinality(above(x)) < n) /\ Cardinality(above(y)) < n /\ y \in S
      BY <1>1
    <2>2. above(x) \subseteq above(y) => Cardinality(above(x)) <= Cardinality(above(y))
      BY <1>2, <2>1, FS_Subset
    <2>3. ~(above(x) \subseteq above(y))
      BY <1>2, <2>1, <2>2
    <2> QED BY <1>0, <2>1, <2>3
  <1>5. ASSUME Cardinality(S) <= n, NEW x \in S PROVE x \in Highest(S, n)
    <2>1. IsFiniteSet(S \ {x}) /\ Cardinality(S \ {x}) = Cardinality(S) - 1
      BY FS_RemoveElement
    <2>2. above(x) \in SUBSET (S \ {x})
      BY <1>0
    <2>3. Cardinality(above(x)) <= Cardinality(S \ {x})
      BY <2>1, <2>2, FS_Subset
    <2>4. Cardinality(above(x)) \in Nat
      BY <1>2
    <2> HIDE DEF above
    <2>5. Cardinality(above(x)) < n
      BY <1>3, <1>5, <2>1, <2>3, <2>4
    <2> QED BY <1>1, <2>5
  <1>6. ASSUME S # {} PROVE Highest(S, n) # {}
    <2> DEFINE T == {x.id : x \in S}
    <2>1. T \in SUBSET Nat /\ T # {} /\ \A i \in T : i <= bound
      BY <1>0, <1>6
    <2> HIDE DEF T
    <2>2. Max(T) \in T /\ \A j \in T : j <= Max(T)
      BY <2>1, MaxOf
    <2>3. PICK x \in S : x.id = Max(T)
      BY <2>2 DEF T
    <2>4. above(x) = {}
      <3>1. \A k \in S : k.id <= x.id
        BY <2>2, <2>3 DEF T
      <3> QED BY <1>0, <3>1
    <2> QED BY <1>1, <1>3, <2>3, <2>4
  <1>7. Highest(S, n) \subseteq S /\ (Cardinality(S) <= n => Highest(S, n) = S)
    <2>1. Highest(S, n) \subseteq S
      BY <1>1
    <2> QED BY <1>5, <2>1
  <1>8. Cardinality(S) > n => S # {}
    BY <1>3
  <1> QED BY <1>4, <1>6, <1>7, <1>8

\* The next page forward from an id leaves nothing out up to where it ends.
LEMMA ForwardPage ==
    ASSUME db \in Databases, RowsDrawn, Numbered, NEW r \in Room,
           NEW after \in Nat, NEW through \in Nat, after <= through
    PROVE  LET page == Page(db, r, -1, after, through)
               end  == Advance(after, page)
           IN  /\ page \in Pages(db.last)
               /\ \A m \in page.messages : m \in RoomRows(db, r) /\ after < m.id /\ m.id <= through
               /\ end \in Nat /\ after <= end /\ end <= through
               /\ end = after \/ end \in Ids(page.messages)
               /\ \A m \in page.messages : m.id <= end
               /\ \A m \in RoomRows(db, r) : after < m.id /\ m.id <= end => m \in page.messages
               /\ ~page.hasMore => \A m \in RoomRows(db, r) :
                                      after < m.id /\ m.id <= through => m \in page.messages
  <1> DEFINE page  == Page(db, r, -1, after, through)
             end   == Advance(after, page)
             range == {m \in RoomRows(db, r) : m.id <= through /\ m.id > after}
             S     == Ids(page.messages)
  <1>1. page = [messages |-> Lowest(range, PageSize), hasMore |-> Cardinality(range) > PageSize]
    BY DEF Page
  <1>2. page \in Pages(db.last)
    BY PageTyped
  <1>3. range \subseteq Row /\ range \subseteq db.rows /\ db.last \in Nat
    BY DEF RoomRows, Databases
  <1>4. IsFiniteSet(range)
    BY <1>3, FiniteRows, FS_Subset
  <1>5. /\ Lowest(range, PageSize) \subseteq range
        /\ \A x \in range \ Lowest(range, PageSize) : \A y \in Lowest(range, PageSize) : y.id < x.id
        /\ Cardinality(range) <= PageSize => Lowest(range, PageSize) = range
        /\ range # {} => Lowest(range, PageSize) # {}
    BY <1>3, <1>4, LowestFacts, PageSizeAssumption
  <1>6. IsFiniteSet(range) /\ Cardinality(range) \in Nat /\ PageSize \in Nat
    BY <1>4, FS_CardinalityType, PageSizeAssumption
  <1>7. page.messages = Lowest(range, PageSize) /\ (~page.hasMore => page.messages = range)
    <2> HIDE DEF range
    <2>1. page.messages = Lowest(range, PageSize) /\ page.hasMore = (Cardinality(range) > PageSize)
      BY <1>1
    <2>2. ~(Cardinality(range) > PageSize) => Cardinality(range) <= PageSize
      BY <1>6
    <2> QED BY <1>5, <2>1, <2>2
  <1>8. \A m \in page.messages : m \in RoomRows(db, r) /\ after < m.id /\ m.id <= through /\ m.id \in Nat
    BY <1>3, <1>5, <1>7 DEF Row
  <1> HIDE DEF page
  <1>9. S \in SUBSET Nat /\ (\A x \in S : after < x /\ x <= through)
        /\ (S = {} <=> page.messages = {})
    BY <1>8 DEF Ids
  <1> HIDE DEF S
  <1>10. CASE S = {}
    <2>1. end = after /\ page.messages = {} /\ range = {}
      BY <1>5, <1>7, <1>9, <1>10 DEF Advance
    <2> HIDE DEF end
    <2>2. \A m \in RoomRows(db, r) : ~(after < m.id /\ m.id <= through)
      <3>1. \A m \in RoomRows(db, r) : m.id \in Nat
        BY DEF RoomRows, Databases, Row
      <3> QED BY <2>1, <3>1
    <2>3. \A m \in RoomRows(db, r) : ~(after < m.id /\ m.id <= end)
      <3>1. \A m \in RoomRows(db, r) : m.id \in Nat
        BY DEF RoomRows, Databases, Row
      <3> QED BY <2>1, <3>1
    <2>4. end \in Nat /\ after <= end /\ end <= through
      BY <2>1
    <2> QED BY <1>2, <2>1, <2>2, <2>3, <2>4 DEF page, end
  <1>11. CASE S # {}
    <2>1. end = Max(S)
      BY <1>9, <1>11 DEF Advance, S
    <2>2. Max(S) \in S /\ \A x \in S : x <= Max(S)
      BY <1>9, <1>11, MaxOf
    <2> HIDE DEF end
    <2>3. end \in Nat /\ after <= end /\ end <= through /\ end \in Ids(page.messages)
      BY <1>9, <2>1, <2>2 DEF S
    <2>4. \A m \in page.messages : m.id <= end
      BY <2>1, <2>2 DEF S, Ids
    <2>5. PICK k \in page.messages : k.id = end
      BY <2>3 DEF Ids
    <2>6. ASSUME NEW m \in RoomRows(db, r), after < m.id, m.id <= end PROVE m \in page.messages
      <3>1. m \in range /\ m.id \in Nat
        <4>1. m.id \in Nat
          BY DEF RoomRows, Databases, Row
        <4> QED BY <2>3, <2>6, <4>1
      <3> QED BY <1>5, <1>7, <2>3, <2>5, <2>6, <3>1
    <2>7. ~page.hasMore => \A m \in RoomRows(db, r) :
                              after < m.id /\ m.id <= through => m \in page.messages
      BY <1>7
    <2> QED BY <1>2, <1>8, <2>3, <2>4, <2>6, <2>7 DEF page, end
  <1> QED BY <1>10, <1>11

\* A page backward from an id, or from the end, leaves nothing out from where it
\* starts, and says whether there is anything before.
LEMMA BackwardPage ==
    ASSUME db \in Databases, RowsDrawn, Numbered, NEW r \in Room, NEW before \in Nat
    PROVE  LET page == Page(db, r, before, 0, LatestID(db, r))
           IN  /\ page \in Pages(db.last)
               /\ \A m \in page.messages : m \in RoomRows(db, r) /\ (before > 0 => m.id < before)
               /\ page.hasMore => page.messages # {}
               /\ \A m \in RoomRows(db, r) : (before > 0 => m.id < before) =>
                     \/ m \in page.messages
                     \/ page.hasMore /\ \A k \in page.messages : m.id < k.id
  <1> DEFINE through == LatestID(db, r)
             page  == Page(db, r, before, 0, through)
             range == {m \in RoomRows(db, r) : m.id <= through /\ (before > 0 => m.id < before)}
  <1>1. page = [messages |-> Highest(range, PageSize), hasMore |-> Cardinality(range) > PageSize]
    <2>1. ~(0 > 0 \/ before < 0)
      OBVIOUS
    <2>2. range = {m \in RoomRows(db, r) : /\ m.id <= through
                                           /\ before > 0 => m.id < before
                                           /\ (0 > 0 \/ before < 0) => m.id > 0}
      BY <2>1
    <2> QED BY <2>1, <2>2 DEF Page
  <1>2. page \in Pages(db.last)
    BY PageTyped
  <1>3. range \subseteq Row /\ range \subseteq db.rows /\ db.last \in Nat
        /\ \A x \in range : x.id <= db.last
    BY DEF RoomRows, Databases, RowsDrawn
  <1>4. IsFiniteSet(range)
    BY <1>3, FiniteRows, FS_Subset
  <1>5. \A m \in RoomRows(db, r) : m.id <= through
    BY LatestTyped
  <1> HIDE DEF range
  <1>6. /\ Highest(range, PageSize) \subseteq range
        /\ \A x \in range \ Highest(range, PageSize) : \A y \in Highest(range, PageSize) : x.id < y.id
        /\ Cardinality(range) <= PageSize => Highest(range, PageSize) = range
        /\ range # {} => Highest(range, PageSize) # {}
        /\ Cardinality(range) > PageSize => range # {}
    BY <1>3, <1>4, HighestFacts, PageSizeAssumption
  <1>7. Cardinality(range) \in Nat /\ PageSize \in Nat
    BY <1>4, FS_CardinalityType, PageSizeAssumption
  <1>8. /\ page.messages = Highest(range, PageSize)
        /\ ~page.hasMore => page.messages = range
        /\ page.hasMore => page.messages # {}
    <2>1. page.messages = Highest(range, PageSize) /\ page.hasMore = (Cardinality(range) > PageSize)
      BY <1>1
    <2>2. ~(Cardinality(range) > PageSize) => Cardinality(range) <= PageSize
      BY <1>7
    <2> HIDE DEF page
    <2> QED BY <1>6, <2>1, <2>2
  <1> HIDE DEF page, through
  <1>9. ASSUME NEW m \in RoomRows(db, r), before > 0 => m.id < before
        PROVE  m \in page.messages \/ (page.hasMore /\ \A k \in page.messages : m.id < k.id)
    <2>1. m \in range
      BY <1>5, <1>9 DEF range
    <2> QED BY <1>6, <1>8, <2>1
  <1>10. \A m \in page.messages : m \in RoomRows(db, r) /\ (before > 0 => m.id < before)
    BY <1>6, <1>8 DEF range
  <1> QED BY <1>2, <1>8, <1>9, <1>10 DEF page, through

-----------------------------------------------------------------------------
(* What is under way: in order, and without a hole                         *)

\* The messages of a frame that move the cursor of the client that reads it.
Carries(f) ==
    IF f.type = "sync" \/ (f.type = "history" /\ f.req = "initial") THEN f.messages
    ELSE IF f.type = "message" THEN {f.message} ELSE {}

\* The ids up to which the client has everything once it has read the frame.
Tops(f) == Ids(Carries(f)) \cup (IF f.type = "sync_complete" THEN {f.through} ELSE {})

\* The first page of a room that has older messages, too.
Starts(f) == f.type = "history" /\ f.req = "initial" /\ f.hasMore

\* After frame f its client has the message with id x, or knows that it can load it.
Reaches(f, x) ==
    \/ x \in Ids(Carries(f))
    \/ Starts(f) /\ \A m \in f.messages : x < m.id

\* No frame of the queue carries anything before where the client already is.
Rising(G) ==
    \A k, l \in DOMAIN G : (k < l /\ ~Overtaken(G, k)) =>
        \A x \in Tops(G[k]), y \in Ids(Carries(G[l])) : x < y

Above(G, b) ==
    \A l \in DOMAIN G : ~Overtaken(G, l) => \A y \in Ids(Carries(G[l])) : b < y

Reached(G, x) == \E k \in DOMAIN G : ~Overtaken(G, k) /\ Reaches(G[k], x)

\* A first page with older messages before it is no empty page.
Founded(G) == \A k \in DOMAIN G : Starts(G[k]) => G[k].messages # {}

\* Session s catches up, its client being at b: only pages have gone out, up to the
\* cursor, and what is held back is about later messages.
CatchingUp(s, b) ==
    /\ b <= s.cursor /\ s.cursor <= s.through
    /\ \A k \in DOMAIN s.outgoing :
          /\ s.outgoing[k].type \in {"welcome", "sync", "error"}
          /\ \A x \in Ids(Carries(s.outgoing[k])) : x <= s.cursor
    /\ s.cursor = b \/ \E k \in DOMAIN s.outgoing : s.cursor \in Ids(Carries(s.outgoing[k]))
    /\ Rising(s.deferred) /\ Above(s.deferred, s.through)
    /\ \A k \in DOMAIN s.deferred : s.deferred[k].type \in {"message", "recalled", "presence"}

\* What is under way for a client that is at b comes in order.
Ordered(s, b) ==
    /\ Rising(s.outgoing) /\ Above(s.outgoing, b) /\ Founded(s.outgoing)
    /\ s.syncing => CatchingUp(s, b)
    /\ ~s.syncing => s.deferred = <<>>

\* Message x is under way, or its turn in the catching up will come.
Due(s, x) ==
    \/ Reached(s.outgoing, x)
    \/ Reached(s.deferred, x)
    \/ s.syncing /\ s.cursor < x /\ x <= s.through

\* Every message of a room that comes after b is.
Owed(rows, s, b) == \A x \in Ids(rows) : b < x => Due(s, x)

\* Frames that carry no message for a client that is where it should be.
Silent(f) ==
    /\ Carries(f) = {} /\ ~Starts(f)
    /\ f.type \notin {"sync_complete", "history_cleared"}

\* What the frames are.
LEMMA Kinds ==
    /\ \A inst, through, resumed, users : Silent(Welcome(inst, through, resumed, users))
    /\ \A users : Silent(Presence(users)) /\ Presence(users).type = "presence"
    /\ \A req : Silent(Failure(req)) /\ Failure(req).type = "error"
    /\ \A req, m : Silent(Ack(req, m)) /\ Ack(req, m).type = "ack"
    /\ \A req, m, inst : Silent(Recalled(req, m, inst)) /\ Recalled(req, m, inst).type = "recalled"
    /\ \A page : Silent(PageFrame("history", "older", page))
    /\ \A req, m : /\ Carries(Message(req, m)) = {m} /\ Message(req, m).type = "message"
                   /\ ~Starts(Message(req, m))
    /\ \A req, page : /\ Carries(PageFrame("sync", req, page)) = page.messages
                      /\ PageFrame("sync", req, page).type = "sync"
                      /\ ~Starts(PageFrame("sync", req, page))
    /\ \A page : LET f == PageFrame("history", "initial", page)
                 IN  /\ Carries(f) = page.messages /\ f.type = "history"
                     /\ f.messages = page.messages
                     /\ Starts(f) <=> page.hasMore
    /\ \A through : LET f == SyncComplete(through)
                    IN  /\ Carries(f) = {} /\ f.type = "sync_complete" /\ ~Starts(f)
                        /\ Tops(f) = {through}
    /\ \A inst : LET f == HistoryCleared(inst)
                 IN  Carries(f) = {} /\ f.type = "history_cleared" /\ ~Starts(f)
  <1>1. \A inst, through, resumed, users : Silent(Welcome(inst, through, resumed, users))
    BY DEF Silent, Carries, Starts, Welcome
  <1>2. \A users : Silent(Presence(users)) /\ Presence(users).type = "presence"
    BY DEF Silent, Carries, Starts, Presence
  <1>3. \A req : Silent(Failure(req)) /\ Failure(req).type = "error"
    BY DEF Silent, Carries, Starts, Failure, Error
  <1>4. \A req, m : Silent(Ack(req, m)) /\ Ack(req, m).type = "ack"
    BY DEF Silent, Carries, Starts, Ack
  <1>5. \A req, m, inst : Silent(Recalled(req, m, inst)) /\ Recalled(req, m, inst).type = "recalled"
    BY DEF Silent, Carries, Starts, Recalled
  <1>6. \A page : Silent(PageFrame("history", "older", page))
    BY DEF Silent, Carries, Starts, PageFrame
  <1>7. \A req, m : /\ Carries(Message(req, m)) = {m} /\ Message(req, m).type = "message"
                    /\ ~Starts(Message(req, m))
    BY DEF Carries, Starts, Message
  <1>8. \A req, page : /\ Carries(PageFrame("sync", req, page)) = page.messages
                       /\ PageFrame("sync", req, page).type = "sync"
                       /\ ~Starts(PageFrame("sync", req, page))
    BY DEF Carries, Starts, PageFrame
  <1>9. ASSUME NEW page
        PROVE  LET f == PageFrame("history", "initial", page)
               IN  /\ Carries(f) = page.messages /\ f.type = "history"
                   /\ f.messages = page.messages
                   /\ Starts(f) <=> page.hasMore
    BY DEF Carries, Starts, PageFrame
  <1>10. ASSUME NEW through
         PROVE  LET f == SyncComplete(through)
                IN  /\ Carries(f) = {} /\ f.type = "sync_complete" /\ ~Starts(f)
                    /\ Tops(f) = {through}
    BY DEF Carries, Starts, SyncComplete, Tops, Ids
  <1>11. ASSUME NEW inst
         PROVE  LET f == HistoryCleared(inst)
                IN  Carries(f) = {} /\ f.type = "history_cleared" /\ ~Starts(f)
    BY DEF Carries, Starts, HistoryCleared
  <1> QED BY <1>1, <1>2, <1>3, <1>4, <1>5, <1>6, <1>7, <1>8, <1>9, <1>10, <1>11

\* The ids of the messages of a frame are numbers up to the last one given out.
LEMMA FrameIds ==
    ASSUME NEW n \in Nat, NEW f \in SoundFrames(n)
    PROVE  /\ Carries(f) \in SUBSET Row /\ Tops(f) \in SUBSET (0 .. n)
           /\ Ids(Carries(f)) \in SUBSET (0 .. n) /\ Ids(Carries(f)) \subseteq Tops(f)
           /\ Starts(f) => f.messages \in SUBSET Row /\ Carries(f) = f.messages
  <1>1. f \in Frames /\ Sound(f, n)
    BY DEF SoundFrames
  <1>2. f.type \in {"sync", "history"} => f.messages \in SUBSET Row /\ \A m \in f.messages : m.id <= n
    BY <1>1 DEF Frames, Sound
  <1>3. f.type = "message" => f.message \in Row /\ f.message.id <= n
    BY <1>1 DEF Frames, Sound
  <1>4. f.type = "sync_complete" => f.through \in 0 .. n
    <2>1. f.type = "sync_complete" => f.through \in Nat
      BY <1>1 DEF Frames
    <2>2. f.type = "sync_complete" => f.through <= n
      BY <1>1 DEF Sound
    <2> QED BY <2>1, <2>2
  <1>5. Carries(f) \in SUBSET Row /\ \A m \in Carries(f) : m.id <= n
    BY <1>2, <1>3 DEF Carries
  <1>6. Ids(Carries(f)) \in SUBSET (0 .. n)
    BY <1>5 DEF Ids, Row
  <1> QED BY <1>2, <1>4, <1>5, <1>6 DEF Tops, Starts, Carries

\* Appending frames that are no cleanup moves nothing that was there before.
LEMMA Appending ==
    ASSUME NEW S, NEW H \in Seq(S), NEW P \in Seq(S),
           \A j \in DOMAIN P : P[j].type # "history_cleared"
    PROVE  LET G == H \o P
           IN  /\ G \in Seq(S) /\ Len(H) \in Nat /\ Len(G) = Len(H) + Len(P)
               /\ DOMAIN H \subseteq DOMAIN G /\ DOMAIN H = 1 .. Len(H)
               /\ \A k \in DOMAIN H : G[k] = H[k] /\ (Overtaken(G, k) <=> Overtaken(H, k))
               /\ Overtaken(G, 0) <=> Overtaken(H, 0)
               /\ \A k \in DOMAIN G : k \notin DOMAIN H =>
                     /\ k \in Nat /\ Len(H) < k /\ ~Overtaken(G, k)
                     /\ k - Len(H) \in DOMAIN P /\ G[k] = P[k - Len(H)]
               /\ \A j \in DOMAIN P :
                     /\ j \in Nat /\ Len(H) + j \in DOMAIN G /\ Len(H) + j \notin DOMAIN H
                     /\ G[Len(H) + j] = P[j] /\ ~Overtaken(P, j)
  <1> DEFINE G == H \o P
  <1>1. /\ G \in Seq(S) /\ Len(H) \in Nat /\ Len(P) \in Nat /\ Len(G) = Len(H) + Len(P)
        /\ DOMAIN H = 1 .. Len(H) /\ DOMAIN P = 1 .. Len(P) /\ DOMAIN G = 1 .. (Len(H) + Len(P))
    BY ConcatProperties, LenProperties
  <1>2. \A k \in DOMAIN H : G[k] = H[k] /\ k \in DOMAIN G /\ k \in Nat
    BY <1>1, ConcatProperties
  <1>3. \A k \in DOMAIN G : k \notin DOMAIN H =>
           k \in Nat /\ Len(H) < k /\ k - Len(H) \in DOMAIN P /\ G[k] = P[k - Len(H)]
    BY <1>1, ConcatProperties
  <1>4. ASSUME NEW j \in DOMAIN P
        PROVE  /\ j \in Nat /\ Len(H) + j \in DOMAIN G /\ Len(H) + j \notin DOMAIN H
               /\ G[Len(H) + j] = P[j]
    <2>1. /\ j \in Nat /\ Len(H) + j \in DOMAIN G /\ Len(H) + j \notin DOMAIN H
          /\ (Len(H) + j) - Len(H) = j
      BY <1>1
    <2> QED BY <1>3, <2>1
  <1> HIDE DEF G
  <1>5. \A k \in Nat : Overtaken(G, k) <=> Overtaken(H, k)
    <2>1. \A l \in DOMAIN G : G[l].type = "history_cleared" => l \in DOMAIN H /\ H[l].type = "history_cleared"
      BY <1>2, <1>3
    <2> QED BY <1>2, <2>1 DEF Overtaken
  <1>6. \A k \in DOMAIN G : k \notin DOMAIN H => ~Overtaken(G, k)
    BY <1>1, <1>3 DEF Overtaken
  <1>7. \A j \in DOMAIN P : ~Overtaken(P, j)
    BY DEF Overtaken
  <1> QED BY <1>1, <1>2, <1>3, <1>4, <1>5, <1>6, <1>7 DEF G

\* What is appended rises if it goes on where the frames before it end.
LEMMA AppendRises ==
    ASSUME NEW S, NEW H \in Seq(S), NEW P \in Seq(S),
           \A j \in DOMAIN P : P[j].type # "history_cleared",
           Rising(H), Rising(P),
           \A k \in DOMAIN H : ~Overtaken(H, k) =>
              \A j \in DOMAIN P : \A x \in Tops(H[k]), y \in Ids(Carries(P[j])) : x < y
    PROVE  Rising(H \o P)
  <1> DEFINE G == H \o P
  <1>1. /\ Len(H) \in Nat
        /\ DOMAIN H \subseteq DOMAIN G /\ DOMAIN H = 1 .. Len(H)
        /\ \A k \in DOMAIN H : G[k] = H[k] /\ (Overtaken(G, k) <=> Overtaken(H, k))
        /\ \A k \in DOMAIN G : k \notin DOMAIN H =>
              /\ k \in Nat /\ Len(H) < k
              /\ k - Len(H) \in DOMAIN P /\ G[k] = P[k - Len(H)]
    BY Appending
  <1>1a. \A j \in DOMAIN P : j \in Nat /\ ~Overtaken(P, j)
    BY Appending
  <1> HIDE DEF G
  <1>2. ASSUME NEW k \in DOMAIN G, NEW l \in DOMAIN G, k < l, ~Overtaken(G, k),
               NEW x \in Tops(G[k]), NEW y \in Ids(Carries(G[l]))
        PROVE  x < y
    <2>1. CASE l \in DOMAIN H
      <3>1. k \in DOMAIN H
        BY <1>1, <1>2, <2>1
      <3> QED BY <1>1, <1>2, <2>1, <3>1 DEF Rising
    <2>2. CASE l \notin DOMAIN H /\ k \in DOMAIN H
      BY <1>1, <1>2, <2>2
    <2>3. CASE l \notin DOMAIN H /\ k \notin DOMAIN H
      <3>1. /\ k - Len(H) \in DOMAIN P /\ l - Len(H) \in DOMAIN P /\ k - Len(H) < l - Len(H)
            /\ G[k] = P[k - Len(H)] /\ G[l] = P[l - Len(H)] /\ ~Overtaken(P, k - Len(H))
        BY <1>1, <1>1a, <1>2, <2>3
      <3> QED BY <1>2, <3>1 DEF Rising
    <2> QED BY <2>1, <2>2, <2>3
  <1> QED BY <1>2 DEF Rising, G

\* And the other parts of what makes frames ordered and complete.
LEMMA AppendKeeps ==
    ASSUME NEW S, NEW H \in Seq(S), NEW P \in Seq(S),
           \A j \in DOMAIN P : P[j].type # "history_cleared"
    PROVE  /\ \A b : Above(H, b) /\ Above(P, b) => Above(H \o P, b)
           /\ Founded(H) /\ Founded(P) => Founded(H \o P)
           /\ \A x : Reached(H \o P, x) <=> Reached(H, x) \/ Reached(P, x)
  <1> DEFINE G == H \o P
  <1>1. /\ DOMAIN H \subseteq DOMAIN G
        /\ \A k \in DOMAIN H : G[k] = H[k] /\ (Overtaken(G, k) <=> Overtaken(H, k))
        /\ \A k \in DOMAIN G : k \notin DOMAIN H =>
              /\ ~Overtaken(G, k)
              /\ k - Len(H) \in DOMAIN P /\ G[k] = P[k - Len(H)]
        /\ \A j \in DOMAIN P :
              /\ Len(H) + j \in DOMAIN G /\ Len(H) + j \notin DOMAIN H
              /\ G[Len(H) + j] = P[j] /\ ~Overtaken(P, j)
    BY Appending
  <1> HIDE DEF G
  <1>2. \A b : Above(H, b) /\ Above(P, b) => Above(G, b)
    <2> SUFFICES ASSUME NEW b, Above(H, b), Above(P, b), NEW l \in DOMAIN G, ~Overtaken(G, l),
                        NEW y \in Ids(Carries(G[l]))
                 PROVE  b < y
      BY DEF Above
    <2>1. CASE l \in DOMAIN H
      BY <1>1, <2>1 DEF Above
    <2>2. CASE l \notin DOMAIN H
      <3>1. l - Len(H) \in DOMAIN P /\ G[l] = P[l - Len(H)] /\ ~Overtaken(P, l - Len(H))
        BY <1>1, <2>2
      <3> QED BY <3>1 DEF Above
    <2> QED BY <2>1, <2>2
  <1>3. Founded(H) /\ Founded(P) => Founded(G)
    BY <1>1 DEF Founded
  <1>4. ASSUME NEW x PROVE Reached(G, x) <=> Reached(H, x) \/ Reached(P, x)
    <2>1. Reached(H, x) => Reached(G, x)
      BY <1>1 DEF Reached
    <2>2. Reached(P, x) => Reached(G, x)
      <3> SUFFICES ASSUME NEW j \in DOMAIN P, Reaches(P[j], x) PROVE Reached(G, x)
        BY DEF Reached
      <3>1. Len(H) + j \in DOMAIN G /\ G[Len(H) + j] = P[j] /\ ~Overtaken(G, Len(H) + j)
        BY <1>1
      <3> QED BY <3>1 DEF Reached
    <2>3. Reached(G, x) => Reached(H, x) \/ Reached(P, x)
      <3> SUFFICES ASSUME NEW k \in DOMAIN G, ~Overtaken(G, k), Reaches(G[k], x)
                   PROVE  Reached(H, x) \/ Reached(P, x)
        BY DEF Reached
      <3>1. CASE k \in DOMAIN H
        BY <1>1, <3>1 DEF Reached
      <3>2. CASE k \notin DOMAIN H
        <4>1. k - Len(H) \in DOMAIN P /\ G[k] = P[k - Len(H)] /\ ~Overtaken(P, k - Len(H))
          BY <1>1, <3>2
        <4> QED BY <4>1 DEF Reached
      <3> QED BY <3>1, <3>2
    <2> QED BY <2>1, <2>2, <2>3
  <1> QED BY <1>2, <1>3, <1>4 DEF G

-----------------------------------------------------------------------------
(* What each move does to what is under way                                *)

\* One frame is a queue that rises.
LEMMA OneFrame ==
    ASSUME NEW S, NEW f \in S
    PROVE  /\ <<f>> \in Seq(S) /\ Len(<<f>>) = 1 /\ DOMAIN <<f>> = {1} /\ <<f>>[1] = f
           /\ Rising(<<f>>)
           /\ \A b : (\A y \in Ids(Carries(f)) : b < y) => Above(<<f>>, b)
           /\ (Starts(f) => f.messages # {}) => Founded(<<f>>)
           /\ \A x : Reached(<<f>>, x) <=> Reaches(f, x)
  <1>1. <<f>> \in Seq(S) /\ Len(<<f>>) = 1 /\ DOMAIN <<f>> = {1} /\ <<f>>[1] = f
    OBVIOUS
  <1>2. \A k, l \in DOMAIN <<f>> : ~(k < l) /\ ~(l > k)
    BY <1>1
  <1>3. ~Overtaken(<<f>>, 1)
    BY <1>1, <1>2 DEF Overtaken
  <1> DEFINE F == <<f>>
  <1>4. DOMAIN F = {1} /\ F[1] = f /\ ~Overtaken(F, 1) /\ \A k, l \in DOMAIN F : ~(k < l)
    BY <1>1, <1>2, <1>3
  <1> HIDE DEF F
  <1>5. Rising(F)
    BY <1>4 DEF Rising
  <1>6. \A b : (\A y \in Ids(Carries(f)) : b < y) => Above(F, b)
    BY <1>4 DEF Above
  <1>7. (Starts(f) => f.messages # {}) => Founded(F)
    BY <1>4 DEF Founded
  <1>8. \A x : Reached(F, x) <=> Reaches(f, x)
    BY <1>4 DEF Reached
  <1> QED BY <1>1, <1>5, <1>6, <1>7, <1>8 DEF F

\* What a queue holds after one more frame.
LEMMA OneMore ==
    ASSUME NEW S, NEW H \in Seq(S), NEW P \in Seq(S), NEW f, DOMAIN P = {1}, P[1] = f
    PROVE  /\ H \o P \in Seq(S)
           /\ \A k \in DOMAIN (H \o P) :
                 (k \in DOMAIN H /\ (H \o P)[k] = H[k]) \/ (H \o P)[k] = f
           /\ \A k \in DOMAIN H : k \in DOMAIN (H \o P) /\ (H \o P)[k] = H[k]
  <1>1. /\ Len(P) \in Nat /\ DOMAIN P = 1 .. Len(P) /\ Len(H) \in Nat /\ DOMAIN H = 1 .. Len(H)
    BY LenProperties
  <1>2. Len(P) = 1
    BY <1>1
  <1> QED BY <1>1, <1>2, ConcatProperties

\* A frame that carries nothing may go anywhere.
LEMMA SilentAppends ==
    ASSUME NEW S, NEW H \in Seq(S), NEW f \in S, Silent(f)
    PROVE  /\ H \o <<f>> \in Seq(S)
           /\ Rising(H) => Rising(H \o <<f>>)
           /\ \A b : Above(H, b) => Above(H \o <<f>>, b)
           /\ Founded(H) => Founded(H \o <<f>>)
           /\ \A x : Reached(H, x) => Reached(H \o <<f>>, x)
           /\ \A k \in DOMAIN (H \o <<f>>) :
                 \/ k \in DOMAIN H /\ (H \o <<f>>)[k] = H[k]
                 \/ (H \o <<f>>)[k] = f
           /\ \A k \in DOMAIN H : k \in DOMAIN (H \o <<f>>) /\ (H \o <<f>>)[k] = H[k]
  <1> DEFINE P == <<f>>
             G == H \o P
  <1>1. Carries(f) = {} /\ ~Starts(f) /\ f.type # "history_cleared" /\ Ids(Carries(f)) = {}
    BY DEF Silent, Ids
  <1>2. /\ P \in Seq(S) /\ DOMAIN P = {1} /\ P[1] = f /\ Rising(P) /\ Founded(P)
        /\ \A b : Above(P, b)
    BY <1>1, OneFrame
  <1> HIDE DEF P
  <1>3. \A j \in DOMAIN P : P[j].type # "history_cleared" /\ Ids(Carries(P[j])) = {}
    BY <1>1, <1>2
  <1>4. Rising(H) => Rising(G)
    BY <1>2, <1>3, AppendRises
  <1>5. (\A b : Above(H, b) => Above(G, b)) /\ (Founded(H) => Founded(G))
        /\ \A x : Reached(H, x) => Reached(G, x)
    BY <1>2, <1>3, AppendKeeps
  <1>6. /\ G \in Seq(S)
        /\ \A k \in DOMAIN G : (k \in DOMAIN H /\ G[k] = H[k]) \/ G[k] = f
        /\ \A k \in DOMAIN H : k \in DOMAIN G /\ G[k] = H[k]
    BY <1>2, OneMore
  <1> QED BY <1>4, <1>5, <1>6 DEF P

\* Where a frame without a message may be put.
Slips(t, s, f) ==
    \/ /\ s.syncing => f.type = "error"
       /\ t = Put(s, <<f>>)
    \/ /\ s.syncing /\ f.type \in {"recalled", "presence"}
       /\ t = [s EXCEPT !.deferred = @ \o <<f>>]

\* Such a frame leaves what is under way in order and complete.
LEMMA SilentKeeps ==
    ASSUME NEW n \in Nat, NEW s \in SessionsOf(n), NEW f \in SoundFrames(n), Silent(f),
           NEW t, Slips(t, s, f), NEW b, Ordered(s, b)
    PROVE  Ordered(t, b) /\ \A x : Due(s, x) => Due(t, x)
  <1> DEFINE G == SoundFrames(n)
             H == s.outgoing
             D == s.deferred
  <1>1. s \in Sessions /\ H \in Seq(G) /\ D \in Seq(G) /\ f \in G
    BY DEF SessionsOf
  <1>2. CASE (s.syncing => f.type = "error") /\ t = Put(s, <<f>>)
    <2>1. /\ t.outgoing = H \o <<f>> /\ t.deferred = D /\ t.syncing = s.syncing
          /\ t.cursor = s.cursor /\ t.through = s.through
      BY <1>1, <1>2 DEF Put, Sessions
    <2>2. LET E == H \o <<f>>
          IN  /\ Rising(H) => Rising(E)
              /\ \A a : Above(H, a) => Above(E, a)
              /\ Founded(H) => Founded(E)
              /\ \A x : Reached(H, x) => Reached(E, x)
              /\ \A k \in DOMAIN E : (k \in DOMAIN H /\ E[k] = H[k]) \/ E[k] = f
              /\ \A k \in DOMAIN H : k \in DOMAIN E /\ E[k] = H[k]
      BY <1>1, SilentAppends
    <2>3. ASSUME s.syncing PROVE CatchingUp(t, b)
      <3>1. CatchingUp(s, b) /\ f.type = "error" /\ Ids(Carries(f)) = {}
        BY <1>2, <2>3 DEF Ordered, Silent, Ids
      <3>2. ASSUME NEW k \in DOMAIN t.outgoing
            PROVE  /\ t.outgoing[k].type \in {"welcome", "sync", "error"}
                   /\ \A x \in Ids(Carries(t.outgoing[k])) : x <= t.cursor
        BY <2>1, <2>2, <3>1 DEF CatchingUp
      <3>3. t.cursor = b \/ \E k \in DOMAIN t.outgoing : t.cursor \in Ids(Carries(t.outgoing[k]))
        BY <2>1, <2>2, <3>1 DEF CatchingUp
      <3> QED BY <2>1, <3>1, <3>2, <3>3 DEF CatchingUp
    <2>4. Ordered(t, b)
      BY <2>1, <2>2, <2>3 DEF Ordered
    <2> QED BY <2>1, <2>2, <2>4 DEF Due
  <1>3. CASE /\ s.syncing /\ f.type \in {"recalled", "presence"}
             /\ t = [s EXCEPT !.deferred = @ \o <<f>>]
    <2>1. /\ t.outgoing = H /\ t.deferred = D \o <<f>> /\ t.syncing = s.syncing
          /\ t.cursor = s.cursor /\ t.through = s.through
      BY <1>1, <1>3 DEF Sessions
    <2>2. LET E == D \o <<f>>
          IN  /\ Rising(D) => Rising(E)
              /\ \A a : Above(D, a) => Above(E, a)
              /\ \A x : Reached(D, x) => Reached(E, x)
              /\ \A k \in DOMAIN E : (k \in DOMAIN D /\ E[k] = D[k]) \/ E[k] = f
      BY <1>1, SilentAppends
    <2>3. CatchingUp(s, b)
      BY <1>3 DEF Ordered
    <2>4. \A k \in DOMAIN t.deferred : t.deferred[k].type \in {"message", "recalled", "presence"}
      BY <1>3, <2>1, <2>2, <2>3 DEF CatchingUp
    <2>5. CatchingUp(t, b)
      BY <2>1, <2>2, <2>3, <2>4 DEF CatchingUp
    <2>6. Ordered(t, b)
      BY <1>3, <2>1, <2>5 DEF Ordered
    <2> QED BY <2>1, <2>2, <2>6 DEF Due
  <1> QED BY <1>2, <1>3 DEF Slips

\* A new message comes after everything that was sent.
LEMMA MessageKeeps ==
    ASSUME NEW n \in Nat, NEW s \in SessionsOf(n), NEW m \in Row, m.id = n + 1,
           NEW req, Message(req, m) \in SoundFrames(n + 1),
           NEW t, News(t, s, Message(req, m)), NEW b \in 0 .. n, Ordered(s, b)
    PROVE  Ordered(t, b) /\ (\A x : Due(s, x) => Due(t, x)) /\ Due(t, m.id)
  <1> DEFINE f == Message(req, m)
             G == SoundFrames(n + 1)
             H == s.outgoing
             D == s.deferred
             P == <<f>>
  <1>1. /\ s \in Sessions /\ H \in Seq(G) /\ D \in Seq(G) /\ s.through \in Nat /\ s.through <= n
        /\ H \in Seq(SoundFrames(n)) /\ D \in Seq(SoundFrames(n)) /\ s.syncing \in BOOLEAN
    <2>1. n + 1 \in Nat /\ n <= n + 1
      OBVIOUS
    <2>2. s \in SessionsOf(n + 1) /\ s \in Sessions
      BY <2>1, Grown DEF SessionsOf
    <2> QED BY <2>2 DEF SessionsOf, Sessions
  <1>2. f \in G
    OBVIOUS
  <1>3. /\ Carries(f) = {m} /\ f.type = "message" /\ ~Starts(f) /\ Ids(Carries(f)) = {m.id}
    <2>1. Carries(f) = {m} /\ f.type = "message" /\ ~Starts(f)
      BY Kinds
    <2> QED BY <2>1 DEF Ids
  <1>4. /\ P \in Seq(G) /\ DOMAIN P = {1} /\ P[1] = f /\ Rising(P) /\ Founded(P)
        /\ \A a \in 0 .. n : Above(P, a)
        /\ Reached(P, m.id)
    <2>1. \A a \in 0 .. n : \A y \in Ids(Carries(f)) : a < y
      BY <1>3
    <2>2. Reaches(f, m.id)
      BY <1>3 DEF Reaches
    <2> HIDE DEF f
    <2> QED BY <1>2, <1>3, <2>1, <2>2, OneFrame
  <1> HIDE DEF P, G
  <1>5. \A j \in DOMAIN P : P[j].type # "history_cleared" /\ Ids(Carries(P[j])) = {m.id}
    BY <1>3, <1>4
  <1>6. ASSUME NEW Q \in Seq(SoundFrames(n)), NEW k \in DOMAIN Q, NEW x \in Tops(Q[k])
        PROVE  x < m.id
    <2>1. Q[k] \in SoundFrames(n)
      BY ElementOfSeq, LenProperties
    <2>2. x \in 0 .. n
      BY <2>1, FrameIds
    <2> QED BY <2>2
  <1>7. ASSUME NEW Q \in Seq(SoundFrames(n)), Q \in Seq(G)
        PROVE  /\ Rising(Q) => Rising(Q \o P)
               /\ \A a \in 0 .. n : Above(Q, a) => Above(Q \o P, a)
               /\ Founded(Q) => Founded(Q \o P)
               /\ \A x : Reached(Q \o P, x) <=> Reached(Q, x) \/ Reached(P, x)
               /\ \A k \in DOMAIN (Q \o P) :
                     \/ k \in DOMAIN Q /\ (Q \o P)[k] = Q[k]
                     \/ (Q \o P)[k] = f
    <2>1. \A k \in DOMAIN Q : \A j \in DOMAIN P :
             \A x \in Tops(Q[k]), y \in Ids(Carries(P[j])) : x < y
      BY <1>5, <1>6, <1>7
    <2>2. Rising(Q) => Rising(Q \o P)
      BY <1>4, <1>5, <1>7, <2>1, AppendRises
    <2>3. /\ \A a : Above(Q, a) /\ Above(P, a) => Above(Q \o P, a)
          /\ Founded(Q) /\ Founded(P) => Founded(Q \o P)
          /\ \A x : Reached(Q \o P, x) <=> Reached(Q, x) \/ Reached(P, x)
      BY <1>4, <1>5, <1>7, AppendKeeps
    <2>4. \A k \in DOMAIN (Q \o P) :
             \/ k \in DOMAIN Q /\ (Q \o P)[k] = Q[k]
             \/ (Q \o P)[k] = f
      BY <1>4, <1>7, OneMore
    <2> QED BY <1>4, <2>2, <2>3, <2>4
  <1>8. CASE ~s.syncing
    <2>1. t = Put(s, P)
      BY <1>8 DEF News, P
    <2>2. t.outgoing = H \o P /\ t.deferred = D /\ t.syncing = s.syncing
      BY <1>1, <2>1 DEF Put, Sessions
    <2>3. Ordered(t, b)
      BY <1>1, <1>4, <1>7, <1>8, <2>2 DEF Ordered
    <2> QED BY <1>1, <1>4, <1>7, <1>8, <2>2, <2>3 DEF Due
  <1>9. CASE s.syncing
    <2>1. t = [s EXCEPT !.deferred = @ \o P]
      BY <1>9 DEF News, P
    <2>2. /\ t.outgoing = H /\ t.deferred = D \o P /\ t.syncing = s.syncing
          /\ t.cursor = s.cursor /\ t.through = s.through
      BY <1>1, <2>1 DEF Sessions
    <2>3. CatchingUp(s, b) /\ s.through \in 0 .. n
      BY <1>1, <1>9 DEF Ordered
    <2>4. /\ Rising(D) => Rising(D \o P)
          /\ Above(D, s.through) => Above(D \o P, s.through)
          /\ \A k \in DOMAIN (D \o P) : (k \in DOMAIN D /\ (D \o P)[k] = D[k]) \/ (D \o P)[k] = f
          /\ \A x : Reached(D \o P, x) <=> Reached(D, x) \/ Reached(P, x)
      BY <1>1, <1>7, <2>3
    <2>5. \A k \in DOMAIN t.deferred : t.deferred[k].type \in {"message", "recalled", "presence"}
      BY <1>3, <2>2, <2>3, <2>4 DEF CatchingUp
    <2>6. CatchingUp(t, b)
      BY <2>2, <2>3, <2>4, <2>5 DEF CatchingUp
    <2>7. Ordered(t, b)
      BY <1>9, <2>2, <2>6 DEF Ordered
    <2> QED BY <1>4, <2>2, <2>4, <2>7 DEF Due
  <1> QED BY <1>1, <1>8, <1>9

\* What a queue holds that was put together from two.
LEMMA EitherPart ==
    ASSUME NEW S, NEW H \in Seq(S), NEW P \in Seq(S), NEW e, DOMAIN H = {1}, H[1] = e
    PROVE  \A k \in DOMAIN (H \o P) : (H \o P)[k] = e \/ \E j \in DOMAIN P : (H \o P)[k] = P[j]
  <1>1. /\ Len(P) \in Nat /\ DOMAIN P = 1 .. Len(P) /\ Len(H) \in Nat /\ DOMAIN H = 1 .. Len(H)
    BY LenProperties
  <1>2. Len(H) = 1
    BY <1>1
  <1>3. ASSUME NEW k \in DOMAIN (H \o P), k # 1
        PROVE  k - 1 \in DOMAIN P /\ (H \o P)[k] = P[k - 1]
    <2>1. DOMAIN (H \o P) = 1 .. (1 + Len(P))
      BY <1>1, <1>2, ConcatProperties, LenProperties
    <2>2. k \in Nat /\ 1 < k /\ k <= 1 + Len(P)
      BY <1>1, <1>3, <2>1
    <2>3. k - 1 \in 1 .. Len(P) /\ ~(k <= Len(H)) /\ k \in 1 .. (Len(H) + Len(P))
      BY <1>1, <1>2, <2>2
    <2>4. (H \o P)[k] = P[k - Len(H)]
      BY <2>3, ConcatProperties
    <2> QED BY <1>1, <1>2, <2>3, <2>4
  <1>4. 1 \in DOMAIN (H \o P) => (H \o P)[1] = e
    BY <1>1, <1>2, ConcatProperties
  <1> QED BY <1>3, <1>4

\* The page for a client that catches up goes on where the last one ended; after the
\* last page comes what was held back.
LEMMA PageKeeps ==
    ASSUME NEW n \in Nat, NEW s \in SessionsOf(n), NEW page, NEW rows, Ids(rows) \subseteq Nat,
           NEW t, NEW b \in Nat,
           s.syncing, Ordered(s, b), Owed(rows, s, b),
           PageFrame("sync", "next", page) \in SoundFrames(n),
           NEW end \in Nat, end = Advance(s.cursor, page), s.cursor <= end, end <= s.through,
           \A x \in Ids(page.messages) : s.cursor < x /\ x <= end,
           end = s.cursor \/ end \in Ids(page.messages),
           \A x \in Ids(rows) : (s.cursor < x /\ x <= end) => x \in Ids(page.messages),
           \/ Paged(t, s, page)
           \/ /\ Caught(t, s, page)
              /\ \A x \in Ids(rows) : (s.cursor < x /\ x <= s.through) => x \in Ids(page.messages)
    PROVE  Ordered(t, b) /\ Owed(rows, t, b)
  <1> DEFINE G == SoundFrames(n)
             f == PageFrame("sync", "next", page)
             H == s.outgoing
             D == s.deferred
             P == <<f>>
             K == H \o P
  <1>1. /\ s \in Sessions /\ H \in Seq(G) /\ D \in Seq(G) /\ s.cursor \in Nat
        /\ s.through \in 0 .. n /\ f \in G
    BY DEF SessionsOf, Sessions
  <1>2. /\ Carries(f) = page.messages /\ f.type = "sync" /\ ~Starts(f)
        /\ Tops(f) = Ids(page.messages)
    <2>1. Carries(f) = page.messages /\ f.type = "sync" /\ ~Starts(f)
      BY Kinds
    <2> QED BY <2>1 DEF Tops
  <1>3. CatchingUp(s, b)
    BY DEF Ordered
  <1>4. ASSUME NEW k \in DOMAIN H
        PROVE  /\ H[k] \in G /\ H[k].type \in {"welcome", "sync", "error"}
               /\ Tops(H[k]) = Ids(Carries(H[k]))
               /\ \A x \in Ids(Carries(H[k])) : x \in Nat /\ x <= s.cursor
    <2>1. H[k] \in G
      BY <1>1, ElementOfSeq, LenProperties
    <2>2. H[k].type \in {"welcome", "sync", "error"} /\ \A x \in Ids(Carries(H[k])) : x <= s.cursor
      BY <1>3 DEF CatchingUp
    <2>3. Ids(Carries(H[k])) \in SUBSET (0 .. n)
      BY <2>1, FrameIds
    <2> QED BY <2>1, <2>2, <2>3 DEF Tops
  <1>5. b <= s.cursor /\ Rising(H) /\ Above(H, b) /\ Founded(H) /\ Rising(D) /\ Above(D, s.through)
    BY <1>3 DEF CatchingUp, Ordered
  <1>6. ASSUME NEW x \in Ids(page.messages)
        PROVE  x \in Nat /\ s.cursor < x /\ x <= end /\ b < x
    <2>1. x \in 0 .. n
      BY <1>2, <1>1, FrameIds
    <2>2. b <= s.cursor /\ s.cursor < x /\ x <= end
      BY <1>5
    <2> QED BY <1>1, <2>1, <2>2
  <1>7. /\ P \in Seq(G) /\ DOMAIN P = {1} /\ P[1] = f /\ Rising(P) /\ Founded(P)
        /\ Above(P, b) /\ \A x \in Ids(page.messages) : Reached(P, x)
    <2>1. \A y \in Ids(Carries(f)) : b < y
      BY <1>2, <1>6
    <2>2. \A x \in Ids(page.messages) : Reaches(f, x)
      BY <1>2 DEF Reaches
    <2> HIDE DEF f
    <2> QED BY <1>1, <1>2, <2>1, <2>2, OneFrame
  <1> HIDE DEF P, f, G
  <1>8. \A j \in DOMAIN P : P[j].type # "history_cleared"
    BY <1>2, <1>7
  <1>8a. \A j \in DOMAIN P : Ids(Carries(P[j])) = Ids(page.messages)
    BY <1>2, <1>7
  <1>9. /\ K \in Seq(G)
        /\ \A k \in DOMAIN K : (k \in DOMAIN H /\ K[k] = H[k]) \/ K[k] = f
        /\ \A k \in DOMAIN H : k \in DOMAIN K /\ K[k] = H[k]
    BY <1>1, <1>7, OneMore
  <1>10. Rising(K)
    <2>1. ASSUME NEW k \in DOMAIN H, NEW j \in DOMAIN P,
                 NEW x \in Tops(H[k]), NEW y \in Ids(Carries(P[j]))
          PROVE  x < y
      <3>1. x \in Nat /\ x <= s.cursor
        BY <1>4
      <3>2. y \in Nat /\ s.cursor < y
        BY <1>6, <1>8a
      <3> QED BY <1>1, <3>1, <3>2
    <2> QED BY <1>1, <1>5, <1>7, <1>8, <2>1, AppendRises
  <1>11. /\ Above(K, b) /\ Founded(K)
         /\ \A x : Reached(K, x) <=> Reached(H, x) \/ Reached(P, x)
    BY <1>1, <1>5, <1>7, <1>8, AppendKeeps
  <1>12. ASSUME NEW k \in DOMAIN K
         PROVE  /\ K[k].type \in {"welcome", "sync", "error"}
                /\ \A x \in Ids(Carries(K[k])) : x <= end
                /\ \A x \in Tops(K[k]) : x \in Nat /\ x <= end
    <2>1. CASE k \in DOMAIN H /\ K[k] = H[k]
      <3>1. ASSUME NEW x \in Ids(Carries(H[k])) PROVE x \in Nat /\ x <= end
        <4>1. x \in Nat /\ x <= s.cursor
          BY <1>4, <2>1
        <4> QED BY <1>1, <4>1
      <3> QED BY <1>4, <2>1, <3>1
    <2>2. CASE K[k] = f
      BY <1>2, <1>6, <2>2
    <2> QED BY <1>9, <2>1, <2>2
  <1>13. f.type = "sync" /\ \E k \in DOMAIN K : K[k] = f
    <2>1. /\ Len(P) \in Nat /\ Len(H) \in Nat /\ 1 \in 1 .. Len(P) /\ DOMAIN K = 1 .. (Len(H) + Len(P))
          /\ K[Len(H) + 1] = P[1]
      <3>1. Len(P) \in Nat /\ Len(H) \in Nat /\ DOMAIN P = 1 .. Len(P)
        BY <1>1, <1>7, LenProperties
      <3> QED BY <1>1, <1>7, <3>1, ConcatProperties
    <2>2. Len(H) + 1 \in DOMAIN K /\ K[Len(H) + 1] = f
      BY <1>7, <2>1
    <2> QED BY <1>2, <2>2
  <1>14. CASE Paged(t, s, page)
    <2>1. /\ t.outgoing = K /\ t.deferred = D /\ t.syncing = s.syncing
          /\ t.cursor = end /\ t.through = s.through
      BY <1>1, <1>14 DEF Paged, Sessions, P, f
    <2>2. t.cursor = b \/ \E k \in DOMAIN K : t.cursor \in Ids(Carries(K[k]))
      <3>1. CASE end = s.cursor
        BY <1>3, <1>9, <2>1, <3>1 DEF CatchingUp
      <3>2. CASE end \in Ids(page.messages)
        BY <1>2, <1>13, <2>1, <3>2
      <3> QED BY <3>1, <3>2
    <2>3. b <= end
      <3>1. b <= s.cursor /\ s.cursor <= end
        BY <1>5
      <3>2. CASE end = s.cursor
        BY <3>1, <3>2
      <3>3. CASE end \in Ids(page.messages)
        <4>1. b < end
          BY <1>6, <3>3
        <4>2. b <= end
          BY <4>1
        <4> QED BY <4>2
      <3> QED BY <3>2, <3>3
    <2>4. CatchingUp(t, b)
      BY <1>3, <1>12, <2>1, <2>2, <2>3 DEF CatchingUp
    <2>5. Ordered(t, b)
      BY <1>10, <1>11, <2>1, <2>4 DEF Ordered
    <2>6. ASSUME NEW x \in Ids(rows), b < x PROVE Due(t, x)
      <3>1. Due(s, x)
        BY <2>6 DEF Owed
      <3>2. CASE Reached(H, x) \/ Reached(D, x)
        BY <1>11, <2>1, <3>2 DEF Due
      <3>3. CASE s.cursor < x /\ x <= s.through
        <4>1. CASE x \in Ids(page.messages)
          BY <1>7, <1>11, <2>1, <4>1 DEF Due
        <4>2. CASE x \notin Ids(page.messages)
          <5>1. ~(x <= end)
            BY <3>3, <4>2
          <5>2. end < x
            BY <5>1
          <5> QED BY <2>1, <3>3, <5>2 DEF Due
        <4> QED BY <4>1, <4>2
      <3> QED BY <3>1, <3>2, <3>3 DEF Due
    <2> QED BY <2>5, <2>6 DEF Owed
  <1>15. CASE /\ Caught(t, s, page)
              /\ \A x \in Ids(rows) : (s.cursor < x /\ x <= s.through) => x \in Ids(page.messages)
    <2> DEFINE e == SyncComplete(s.through)
               E == <<e>>
               Q == E \o D
    <2>1. t.outgoing = K \o Q /\ t.deferred = <<>> /\ t.syncing = FALSE
      BY <1>1, <1>15 DEF Caught, Sessions, P, f
    <2>2. /\ e \in G /\ Carries(e) = {} /\ Ids(Carries(e)) = {} /\ ~Starts(e)
          /\ Tops(e) = {s.through} /\ e.type = "sync_complete"
      <3>1. e \in SoundFrames(n)
        BY <1>1, FramesTyped
      <3>2. Carries(e) = {} /\ e.type = "sync_complete" /\ ~Starts(e) /\ Tops(e) = {s.through}
        BY Kinds
      <3> QED BY <3>1, <3>2 DEF Ids, G
    <2> HIDE DEF e
    <2>3. /\ E \in Seq(G) /\ DOMAIN E = {1} /\ E[1] = e /\ Rising(E) /\ Founded(E)
          /\ \A a : Above(E, a)
      BY <2>2, OneFrame
    <2> HIDE DEF E
    <2>4. \A j \in DOMAIN D : D[j].type # "history_cleared" /\ ~Starts(D[j])
      BY <1>3 DEF CatchingUp, Starts
    <2>4a. \A j \in DOMAIN D : D[j].type # "history_cleared"
      BY <2>4
    <2>5. ASSUME NEW j \in DOMAIN D, NEW y \in Ids(Carries(D[j]))
          PROVE  y \in Nat /\ s.through < y /\ b < y
      <3>1. ~Overtaken(D, j)
        BY <2>4 DEF Overtaken
      <3>2. D[j] \in SoundFrames(n)
        BY <1>1, ElementOfSeq, LenProperties DEF G
      <3>3. y \in 0 .. n
        BY <3>2, FrameIds
      <3>4. s.through < y /\ b <= s.cursor /\ s.cursor <= s.through
        BY <1>5, <1>3, <3>1 DEF Above, CatchingUp
      <3>5. b < y
        BY <1>1, <3>3, <3>4
      <3> QED BY <3>3, <3>4, <3>5
    <2>6. Rising(Q)
      <3>1. \A k \in DOMAIN E : \A j \in DOMAIN D :
               \A x \in Tops(E[k]), y \in Ids(Carries(D[j])) : x < y
        BY <2>2, <2>3, <2>5
      <3> QED BY <1>1, <1>5, <2>3, <2>4a, <3>1, AppendRises
    <2>7. /\ Above(D, b) /\ Founded(D)
      BY <2>4, <2>5 DEF Above, Founded
    <2>8. /\ Above(Q, b) /\ Founded(Q)
          /\ \A x : Reached(Q, x) <=> Reached(E, x) \/ Reached(D, x)
      BY <1>1, <2>3, <2>4a, <2>7, AppendKeeps
    <2>9. Q \in Seq(G)
      BY <1>1, <2>3, ConcatProperties
    <2>10. \A k \in DOMAIN Q : Q[k] = e \/ \E j \in DOMAIN D : Q[k] = D[j]
      BY <1>1, <2>3, EitherPart
    <2> HIDE DEF Q
    <2>11. \A k \in DOMAIN Q : Q[k].type # "history_cleared"
      BY <2>2, <2>4, <2>10
    <2>12. Rising(K \o Q)
      <3>1. ASSUME NEW k \in DOMAIN K, NEW j \in DOMAIN Q,
                   NEW x \in Tops(K[k]), NEW y \in Ids(Carries(Q[j]))
            PROVE  x < y
        <4>1. y \in Nat /\ s.through < y
          BY <2>2, <2>5, <2>10
        <4>2. x \in Nat /\ x <= end /\ end <= s.through
          BY <1>12
        <4> QED BY <1>1, <4>1, <4>2
      <3> QED BY <1>9, <1>10, <2>6, <2>9, <2>11, <3>1, AppendRises
    <2>13. /\ Above(K \o Q, b) /\ Founded(K \o Q)
           /\ \A x : Reached(K \o Q, x) <=> Reached(K, x) \/ Reached(Q, x)
      <3>1. K \in Seq(G)
        BY <1>9
      <3> HIDE DEF K
      <3> QED BY <1>11, <2>8, <2>9, <2>11, <3>1, AppendKeeps
    <2>14. Ordered(t, b)
      BY <2>1, <2>12, <2>13 DEF Ordered
    <2>15. ASSUME NEW x \in Ids(rows), b < x PROVE Due(t, x)
      <3>1. Due(s, x)
        BY <2>15 DEF Owed
      <3>2. Reached(K, x) \/ Reached(Q, x)
        BY <1>7, <1>11, <1>15, <2>8, <3>1 DEF Due
      <3> QED BY <2>1, <2>13, <3>2 DEF Due
    <2> QED BY <2>14, <2>15 DEF Owed
  <1> QED BY <1>14, <1>15

\* Nothing that went out before a cleanup counts.
LEMMA StartKeeps ==
    ASSUME NEW n \in Nat, NEW s \in SessionsOf(n), NEW inst, NEW users, NEW t,
           StartsOver(t, s, inst, users), NEW b, Ordered(s, b),
           HistoryCleared(inst) \in SoundFrames(n), Presence(users) \in SoundFrames(n)
    PROVE  /\ Ordered(t, 0) /\ \A rows : Ids(rows) = {} => Owed(rows, t, 0)
           /\ Overtaken(t.outgoing, 0)
           /\ \A k \in DOMAIN t.outgoing :
                 \/ Overtaken(t.outgoing, k)
                 \/ t.outgoing[k].type \in {"history_cleared", "presence"}
           /\ \E k \in DOMAIN t.outgoing :
                 /\ t.outgoing[k].type = "presence" /\ t.outgoing[k].users = users
                 /\ \A l \in DOMAIN t.outgoing : ~(l > k)
           /\ \E k \in DOMAIN t.outgoing :
                 /\ t.outgoing[k].type = "history_cleared"
                 /\ \A l \in DOMAIN t.outgoing : l > k => t.outgoing[l].type = "presence"
  <1> DEFINE G == SoundFrames(n)
             H == s.outgoing
             e == HistoryCleared(inst)
             f == Presence(users)
             K == H \o <<e>>
             Q == K \o <<f>>
  <1>1. s \in Sessions /\ H \in Seq(G) /\ Founded(H)
    BY DEF SessionsOf, Ordered
  <1>2. t.outgoing = Q /\ t.deferred = <<>> /\ t.syncing = FALSE
    BY <1>1 DEF StartsOver, Sessions
  <1>3. /\ e \in G /\ f \in G /\ e.type = "history_cleared" /\ f.type = "presence"
        /\ f.users = users /\ ~Starts(e) /\ ~Starts(f) /\ Carries(f) = {} /\ Carries(e) = {}
    BY DEF HistoryCleared, Presence, Starts, Carries
  <1> HIDE DEF e, f, G
  <1>4. /\ Len(H) \in Nat /\ DOMAIN Q = 1 .. (Len(H) + 2)
        /\ \A k \in 1 .. Len(H) : Q[k] = H[k]
        /\ Q[Len(H) + 1] = e /\ Q[Len(H) + 2] = f
    BY <1>1, <1>3
  <1>4a. DOMAIN H = 1 .. Len(H)
    BY <1>1, LenProperties
  <1> HIDE DEF K, Q
  <1>5. /\ Len(H) + 1 \in DOMAIN Q /\ Len(H) + 2 \in DOMAIN Q
        /\ \A l \in DOMAIN Q : l > Len(H) + 1 => l = Len(H) + 2
        /\ \A l \in DOMAIN Q : ~(l > Len(H) + 2)
        /\ \A k \in DOMAIN Q : k \in 1 .. Len(H) \/ k = Len(H) + 1 \/ k = Len(H) + 2
    BY <1>4
  <1>6. ASSUME NEW k \in 0 .. Len(H) PROVE Overtaken(Q, k)
    <2>1. Len(H) + 1 > k
      BY <1>4
    <2> QED BY <1>3, <1>4, <1>5, <2>1 DEF Overtaken
  <1>7. \A k \in DOMAIN Q : Overtaken(Q, k) \/ Q[k] = e \/ Q[k] = f
    <2>1. \A k \in 1 .. Len(H) : k \in 0 .. Len(H)
      BY <1>4
    <2> QED BY <1>4, <1>5, <1>6, <2>1
  <1>8. \A k \in DOMAIN Q : ~Overtaken(Q, k) => Carries(Q[k]) = {} /\ Ids(Carries(Q[k])) = {}
    BY <1>3, <1>7 DEF Ids
  <1>9. Above(Q, 0)
    BY <1>8 DEF Above
  <1>10. \A k, l \in DOMAIN Q : (k < l /\ ~Overtaken(Q, k)) => ~Overtaken(Q, l)
    <2> SUFFICES ASSUME NEW k \in DOMAIN Q, NEW l \in DOMAIN Q, k < l, NEW j \in DOMAIN Q,
                        j > l, Q[j].type = "history_cleared"
                 PROVE  j > k
      BY DEF Overtaken
    <2> QED BY <1>4
  <1>11. Rising(Q)
    BY <1>8, <1>10 DEF Rising
  <1>12. Founded(Q)
    <2>1. ASSUME NEW k \in DOMAIN Q, Starts(Q[k]) PROVE Q[k].messages # {}
      <3>1. k \in DOMAIN H /\ Q[k] = H[k]
        BY <1>3, <1>4, <1>4a, <1>5, <2>1
      <3> QED BY <1>1, <2>1, <3>1 DEF Founded
    <2> QED BY <2>1 DEF Founded
  <1>13. Ordered(t, 0)
    BY <1>2, <1>9, <1>11, <1>12 DEF Ordered
  <1>14. \A rows : Ids(rows) = {} => Owed(rows, t, 0)
    BY DEF Owed
  <1>15. Overtaken(Q, 0)
    <2>1. 0 \in 0 .. Len(H)
      BY <1>4
    <2> QED BY <1>6, <2>1
  <1>16. \A k \in DOMAIN Q : Overtaken(Q, k) \/ Q[k].type \in {"history_cleared", "presence"}
    BY <1>3, <1>7
  <1>17. \E k \in DOMAIN Q : /\ Q[k].type = "presence" /\ Q[k].users = users
                            /\ \A l \in DOMAIN Q : ~(l > k)
    BY <1>3, <1>4, <1>5
  <1>18. \E k \in DOMAIN Q : /\ Q[k].type = "history_cleared"
                            /\ \A l \in DOMAIN Q : l > k => Q[l].type = "presence"
    <2>1. Q[Len(H) + 1].type = "history_cleared"
      BY <1>3, <1>4
    <2>2. \A l \in DOMAIN Q : l > Len(H) + 1 => Q[l].type = "presence"
      BY <1>3, <1>4, <1>5
    <2> QED BY <1>5, <2>1, <2>2
  <1> DEFINE O == t.outgoing
  <1>19. O = Q
    BY <1>2
  <1> HIDE DEF O
  <1>20. Overtaken(O, 0) /\ \A k \in DOMAIN O : Overtaken(O, k) \/ O[k].type \in {"history_cleared", "presence"}
    BY <1>15, <1>16, <1>19
  <1>21. \E k \in DOMAIN O : /\ O[k].type = "presence" /\ O[k].users = users
                            /\ \A l \in DOMAIN O : ~(l > k)
    BY <1>17, <1>19
  <1>22. \E k \in DOMAIN O : /\ O[k].type = "history_cleared"
                            /\ \A l \in DOMAIN O : l > k => O[l].type = "presence"
    BY <1>18, <1>19
  <1> QED BY <1>13, <1>14, <1>20, <1>21, <1>22 DEF O

\* A queue without its first frame.
LEMMA OneLess ==
    ASSUME NEW S, NEW G \in Seq(S), G # <<>>
    PROVE  LET T == Tail(G)
           IN  /\ T \in Seq(S) /\ 1 \in DOMAIN G /\ Head(G) = G[1] /\ Head(G) \in S
               /\ Len(T) = Len(G) - 1 /\ Len(T) \in Nat
               /\ \A k \in DOMAIN T : /\ k \in Nat /\ k + 1 \in DOMAIN G /\ T[k] = G[k + 1]
                                      /\ 1 < k + 1
                                      /\ Overtaken(T, k) <=> Overtaken(G, k + 1)
               /\ \A k \in DOMAIN G : k # 1 =>
                     /\ 1 < k /\ k \in Nat /\ k - 1 \in DOMAIN T /\ T[k - 1] = G[k]
                     /\ Overtaken(T, k - 1) <=> Overtaken(G, k)
               /\ Overtaken(T, 0) <=> Overtaken(G, 1)
               /\ Overtaken(G, 0) <=> Overtaken(G, 1) \/ G[1].type = "history_cleared"
  <1> DEFINE T == Tail(G)
  <1>1. /\ Len(G) \in Nat /\ Len(G) > 0 /\ DOMAIN G = 1 .. Len(G) /\ Head(G) = G[1]
        /\ T \in Seq(S) /\ Len(T) = Len(G) - 1 /\ DOMAIN T = 1 .. (Len(G) - 1)
        /\ \A k \in 1 .. (Len(G) - 1) : T[k] = G[k + 1]
    BY HeadTailProperties, LenProperties, EmptySeq
  <1> HIDE DEF T
  <1>2. 1 \in DOMAIN G /\ G[1] \in S
    <2>1. 1 \in 1 .. Len(G)
      BY <1>1
    <2> QED BY <1>1, <2>1, ElementOfSeq
  <1>3. \A k \in DOMAIN T : k \in Nat /\ k + 1 \in DOMAIN G /\ T[k] = G[k + 1] /\ 1 < k + 1
    BY <1>1
  <1>4. ASSUME NEW k \in DOMAIN G, k # 1
        PROVE  1 < k /\ k \in Nat /\ k - 1 \in DOMAIN T /\ T[k - 1] = G[k]
    <2>1. 1 < k /\ k \in Nat /\ k - 1 \in 1 .. (Len(G) - 1) /\ (k - 1) + 1 = k
      BY <1>1, <1>4
    <2> QED BY <1>1, <2>1
  <1>5. ASSUME NEW k \in Nat
        PROVE  Overtaken(T, k) <=> Overtaken(G, k + 1)
    <2>1. ASSUME NEW l \in DOMAIN T, l > k PROVE l + 1 \in DOMAIN G /\ l + 1 > k + 1 /\ G[l + 1] = T[l]
      BY <1>3, <2>1
    <2>2. ASSUME NEW l \in DOMAIN G, l > k + 1 PROVE l - 1 \in DOMAIN T /\ l - 1 > k /\ G[l] = T[l - 1]
      <3>1. l # 1 /\ l \in Nat
        BY <1>1, <2>2
      <3> QED BY <1>4, <2>2, <3>1
    <2> QED BY <2>1, <2>2 DEF Overtaken
  <1>6. \A k \in DOMAIN T : Overtaken(T, k) <=> Overtaken(G, k + 1)
    BY <1>3, <1>5
  <1>7. ASSUME NEW k \in DOMAIN G, k # 1 PROVE Overtaken(T, k - 1) <=> Overtaken(G, k)
    <2>1. k - 1 \in Nat /\ (k - 1) + 1 = k
      BY <1>4, <1>7
    <2> QED BY <1>5, <2>1
  <1>8. Overtaken(T, 0) <=> Overtaken(G, 1)
    <2>1. 0 \in Nat /\ 0 + 1 = 1
      OBVIOUS
    <2> QED BY <1>5, <2>1
  <1>9. Overtaken(G, 0) <=> Overtaken(G, 1) \/ G[1].type = "history_cleared"
    <2>1. \A l \in DOMAIN G : l > 0 <=> l > 1 \/ l = 1
      BY <1>1
    <2> QED BY <1>2, <2>1 DEF Overtaken
  <1> QED BY <1>1, <1>2, <1>3, <1>4, <1>6, <1>7, <1>8, <1>9 DEF T

\* Reading a frame moves the client to the top of what it carries, if anywhere.
LEMMA ReadKeeps ==
    ASSUME NEW n \in Nat, NEW s \in SessionsOf(n), s.outgoing # <<>>,
           NEW b \in Nat, Ordered(s, b),
           NEW t, t = [s EXCEPT !.outgoing = Tail(@)],
           NEW a \in Nat, b <= a,
           a = b \/ (~Overtaken(s.outgoing, 1) /\ a \in Tops(Head(s.outgoing))),
           ~Overtaken(s.outgoing, 1) => \A x \in Ids(Carries(Head(s.outgoing))) : x <= a
    PROVE  /\ Ordered(t, a)
           /\ \A rows : Ids(rows) \subseteq Nat /\ Owed(rows, s, b) => Owed(rows, t, a)
  <1> DEFINE S == SoundFrames(n)
             H == s.outgoing
             T == Tail(H)
             h == H[1]
  <1>1. s \in Sessions /\ H \in Seq(S) /\ s.cursor \in Nat
    BY DEF SessionsOf, Sessions
  <1>2. /\ t.outgoing = T /\ t.deferred = s.deferred /\ t.syncing = s.syncing
        /\ t.cursor = s.cursor /\ t.through = s.through
    BY <1>1 DEF Sessions
  <1>3. /\ T \in Seq(S) /\ 1 \in DOMAIN H /\ Head(H) = h /\ h \in S
        /\ \A k \in DOMAIN T : /\ k \in Nat /\ k + 1 \in DOMAIN H /\ T[k] = H[k + 1]
                               /\ 1 < k + 1
                               /\ Overtaken(T, k) <=> Overtaken(H, k + 1)
        /\ \A k \in DOMAIN H : k # 1 =>
              /\ 1 < k /\ k \in Nat /\ k - 1 \in DOMAIN T /\ T[k - 1] = H[k]
              /\ Overtaken(T, k - 1) <=> Overtaken(H, k)
    BY <1>1, OneLess
  <1> HIDE DEF T, S
  <1>4. Rising(H) /\ Above(H, b) /\ Founded(H)
    BY DEF Ordered
  <1>5. Ids(Carries(h)) \in SUBSET (0 .. n) /\ Tops(h) \in SUBSET (0 .. n)
        /\ (Starts(h) => h.messages \in SUBSET Row /\ Carries(h) = h.messages)
    BY <1>3, FrameIds DEF S
  <1>6. Rising(T)
    <2> SUFFICES ASSUME NEW k \in DOMAIN T, NEW l \in DOMAIN T, k < l, ~Overtaken(T, k),
                        NEW x \in Tops(T[k]), NEW y \in Ids(Carries(T[l]))
                 PROVE  x < y
      BY DEF Rising
    <2>1. /\ k + 1 \in DOMAIN H /\ l + 1 \in DOMAIN H /\ k + 1 < l + 1 /\ ~Overtaken(H, k + 1)
          /\ T[k] = H[k + 1] /\ T[l] = H[l + 1]
      BY <1>3
    <2> QED BY <1>4, <2>1 DEF Rising
  <1>7. Above(T, a)
    <2> SUFFICES ASSUME NEW l \in DOMAIN T, ~Overtaken(T, l), NEW y \in Ids(Carries(T[l]))
                 PROVE  a < y
      BY DEF Above
    <2>1. l + 1 \in DOMAIN H /\ 1 < l + 1 /\ ~Overtaken(H, l + 1) /\ T[l] = H[l + 1]
      BY <1>3
    <2>2. CASE a = b
      BY <1>4, <2>1, <2>2 DEF Above
    <2>3. CASE ~Overtaken(H, 1) /\ a \in Tops(h)
      BY <1>3, <1>4, <2>1, <2>3 DEF Rising
    <2> QED BY <1>3, <2>2, <2>3
  <1>8. Founded(T)
    <2>1. ASSUME NEW k \in DOMAIN T, Starts(T[k]) PROVE T[k].messages # {}
      <3>1. k + 1 \in DOMAIN H /\ T[k] = H[k + 1]
        BY <1>3
      <3> QED BY <1>4, <2>1, <3>1 DEF Founded
    <2> QED BY <2>1 DEF Founded
  <1>9. ASSUME s.syncing PROVE CatchingUp(t, a)
    <2>1. CatchingUp(s, b)
      BY <1>9 DEF Ordered
    <2>2. \A k \in DOMAIN H : H[k].type \in {"welcome", "sync", "error"}
      BY <2>1 DEF CatchingUp
    <2>3. ~Overtaken(H, 1) /\ Tops(h) = Ids(Carries(h)) /\ \A x \in Ids(Carries(h)) : x <= s.cursor
      BY <1>3, <2>1, <2>2 DEF Overtaken, Tops, CatchingUp
    <2>4. a <= s.cursor
      BY <1>3, <2>1, <2>3 DEF CatchingUp
    <2>5. \A k \in DOMAIN T :
             /\ T[k].type \in {"welcome", "sync", "error"}
             /\ \A x \in Ids(Carries(T[k])) : x <= s.cursor
      BY <1>3, <2>1 DEF CatchingUp
    <2>6. s.cursor = a \/ \E k \in DOMAIN T : s.cursor \in Ids(Carries(T[k]))
      <3>1. s.cursor = b \/ \E k \in DOMAIN H : s.cursor \in Ids(Carries(H[k]))
        BY <2>1 DEF CatchingUp
      <3>2. CASE s.cursor = b
        BY <1>1, <2>4, <3>2
      <3>3. CASE s.cursor \in Ids(Carries(h))
        <4>1. s.cursor <= a
          BY <1>3, <2>3, <3>3
        <4> QED BY <1>1, <2>4, <4>1
      <3>4. ASSUME NEW k \in DOMAIN H, k # 1, s.cursor \in Ids(Carries(H[k]))
            PROVE  \E l \in DOMAIN T : s.cursor \in Ids(Carries(T[l]))
        BY <1>3, <3>4
      <3> QED BY <3>1, <3>2, <3>3, <3>4
    <2> QED BY <1>2, <2>1, <2>4, <2>5, <2>6 DEF CatchingUp
  <1>10. Ordered(t, a)
    <2>1. ~s.syncing => s.deferred = <<>>
      BY DEF Ordered
    <2> QED BY <1>2, <1>6, <1>7, <1>8, <1>9, <2>1 DEF Ordered
  <1>11. ASSUME NEW x \in Nat, a < x, Reached(H, x) PROVE Reached(T, x)
    <2>1. PICK k \in DOMAIN H : ~Overtaken(H, k) /\ Reaches(H[k], x)
      BY <1>11 DEF Reached
    <2>2. CASE k = 1
      <3>1. x \notin Ids(Carries(h))
        <4>1. x \in Ids(Carries(h)) => x <= a
          BY <1>3, <2>1, <2>2
        <4> QED BY <1>11, <4>1
      <3>2. Starts(h) /\ \A m \in h.messages : x < m.id
        BY <2>1, <2>2, <3>1 DEF Reaches
      <3>3. PICK m \in h.messages : TRUE
        BY <1>3, <1>4, <3>2 DEF Founded
      <3>4. m.id \in Ids(Carries(h)) /\ m.id \in Nat
        BY <1>5, <3>2, <3>3 DEF Ids, Row
      <3>5. m.id <= a /\ x < m.id
        BY <1>3, <2>1, <2>2, <3>2, <3>4
      <3> QED BY <1>11, <3>4, <3>5
    <2>3. CASE k # 1
      BY <1>3, <2>1, <2>3 DEF Reached
    <2> QED BY <2>2, <2>3
  <1>12. ASSUME NEW rows, Ids(rows) \subseteq Nat, Owed(rows, s, b), NEW x \in Ids(rows), a < x
         PROVE  Due(t, x)
    <2>1. x \in Nat /\ b < x
      BY <1>12
    <2>2. Due(s, x)
      BY <1>12, <2>1 DEF Owed
    <2> QED BY <1>2, <1>11, <1>12, <2>1, <2>2 DEF Due
  <1> QED BY <1>10, <1>12 DEF Owed

\* The session of a client that was let in starts where that client is.
Start(r, inst, after) == IF inst = InstanceID(db, r) THEN after ELSE 0

\* The first frames are in order, and nothing of the room is missing from them.
LEMMA FreshKeeps ==
    ASSUME ServerInv, Numbered, NEW r \in Room, NEW n, NEW o, NEW inst, NEW after \in Nat,
           ~InvalidCursor(r, inst, after),
           NEW s, Fresh(s, r, n, o, inst, after), s.live
    PROVE  LET b == Start(r, inst, after)
           IN  /\ b \in 0 .. db.last
               /\ Ordered(s, b) /\ Owed(RoomRows(db, r), s, b)
               /\ FirstPage(r, inst, after).messages \subseteq RoomRows(db, r)
               /\ FirstPage(r, inst, after) \in Pages(db.last)
               /\ (inst # InstanceID(db, r) /\ FirstPage(r, inst, after).hasMore) =>
                     FirstPage(r, inst, after).messages # {}
  <1> DEFINE resumed == inst = InstanceID(db, r)
             latest == LatestID(db, r)
             page == FirstPage(r, inst, after)
             rows == RoomRows(db, r)
             b == Start(r, inst, after)
             g == Greeting(r, n, inst)
             f == FirstFrame(r, inst, after)
             e == SyncComplete(latest)
             G == s.outgoing
             end == Advance(after, page)
  <1>1. /\ db \in Databases /\ RowsDrawn /\ db.last \in Nat
        /\ latest \in 0 .. db.last /\ \A m \in rows : m.id <= latest /\ m.id \in Nat /\ 0 < m.id
    BY LatestTyped DEF ServerInv, Databases, RoomRows, Row, Numbered
  <1>2. s \in SessionsOf(db.last) /\ s.deferred = <<>> /\ s.syncing \in BOOLEAN
    BY DEF Fresh, SessionsOf, Sessions
  <1>3. /\ Silent(g) /\ g.type = "welcome"
    BY Kinds DEF Greeting, Welcome
  <1>4. resumed => f = PageFrame("sync", "initial", page) /\ b = after
    BY DEF FirstFrame, Start
  <1>5. ~resumed => f = PageFrame("history", "initial", page) /\ b = 0
    BY DEF FirstFrame, Start
  <1>6. resumed => /\ Carries(f) = page.messages /\ f.type = "sync" /\ ~Starts(f)
    BY <1>4, Kinds
  <1>7. ~resumed => /\ Carries(f) = page.messages /\ f.type = "history"
                    /\ f.messages = page.messages /\ (Starts(f) <=> page.hasMore)
    BY <1>5, Kinds
  <1>8. Carries(e) = {} /\ e.type = "sync_complete" /\ ~Starts(e)
    BY Kinds
  <1>9. resumed => after <= latest /\ after \in 0 .. db.last
    BY <1>1 DEF InvalidCursor
  <1>10. b \in 0 .. db.last
    BY <1>1, <1>4, <1>5, <1>9
  <1>11. resumed =>
            /\ page \in Pages(db.last)
            /\ \A m \in page.messages : m \in rows /\ after < m.id /\ m.id <= latest
            /\ end \in Nat /\ after <= end /\ end <= latest
            /\ end = after \/ end \in Ids(page.messages)
            /\ \A m \in page.messages : m.id <= end
            /\ \A m \in rows : after < m.id /\ m.id <= end => m \in page.messages
            /\ ~page.hasMore => \A m \in rows : after < m.id /\ m.id <= latest => m \in page.messages
    <2> SUFFICES ASSUME resumed PROVE
            /\ page \in Pages(db.last)
            /\ \A m \in page.messages : m \in rows /\ after < m.id /\ m.id <= latest
            /\ end \in Nat /\ after <= end /\ end <= latest
            /\ end = after \/ end \in Ids(page.messages)
            /\ \A m \in page.messages : m.id <= end
            /\ \A m \in rows : after < m.id /\ m.id <= end => m \in page.messages
            /\ ~page.hasMore => \A m \in rows : after < m.id /\ m.id <= latest => m \in page.messages
      OBVIOUS
    <2>1. page = Page(db, r, -1, after, latest)
      BY DEF FirstPage
    <2>2. latest \in Nat /\ after <= latest
      BY <1>1, <1>9
    <2> HIDE DEF page, latest
    <2> QED BY <1>1, <2>1, <2>2, ForwardPage
  <1>12. ~resumed =>
            /\ page \in Pages(db.last)
            /\ \A m \in page.messages : m \in rows
            /\ page.hasMore => page.messages # {}
            /\ \A m \in rows : \/ m \in page.messages
                               \/ page.hasMore /\ \A k \in page.messages : m.id < k.id
    <2> SUFFICES ASSUME ~resumed PROVE
            /\ page \in Pages(db.last)
            /\ \A m \in page.messages : m \in rows
            /\ page.hasMore => page.messages # {}
            /\ \A m \in rows : \/ m \in page.messages
                               \/ page.hasMore /\ \A k \in page.messages : m.id < k.id
      OBVIOUS
    <2>1. page = Page(db, r, 0, 0, latest)
      BY DEF FirstPage
    <2>2. 0 \in Nat /\ ~(0 > 0)
      OBVIOUS
    <2>3. LET pg == Page(db, r, 0, 0, LatestID(db, r))
          IN  /\ pg \in Pages(db.last)
              /\ \A m \in pg.messages : m \in RoomRows(db, r) /\ (0 > 0 => m.id < 0)
              /\ pg.hasMore => pg.messages # {}
              /\ \A m \in RoomRows(db, r) : (0 > 0 => m.id < 0) =>
                     \/ m \in pg.messages
                     \/ pg.hasMore /\ \A k \in pg.messages : m.id < k.id
      BY <1>1, <2>2, BackwardPage
    <2> QED BY <2>1, <2>2, <2>3
  <1>13. page \in Pages(db.last) /\ page.messages \subseteq rows
    BY <1>11, <1>12
  <1>14. \A y \in Ids(page.messages) : b < y /\ y \in Nat
    BY <1>1, <1>4, <1>5, <1>11, <1>12 DEF Ids
  <1>15. G = <<g, f>> \/ G = <<g, f, e>>
    BY DEF Fresh
  <1>16. s.syncing => /\ resumed /\ page.hasMore /\ G = <<g, f>>
                      /\ s.cursor = end /\ s.through = latest
    BY DEF Fresh
  <1>17. Carries(f) = page.messages /\ (Starts(f) => page.messages # {} /\ f.messages = page.messages)
         /\ f.type # "history_cleared"
    BY <1>6, <1>7, <1>12
  <1>17a. (inst # InstanceID(db, r) /\ page.hasMore) => page.messages # {}
    BY <1>12
  <1> HIDE DEF g, f, e, page, rows, latest, b, end, resumed
  <1>18. /\ 2 \in DOMAIN G /\ G[2] = f /\ DOMAIN G \in {1 .. 2, 1 .. 3}
         /\ \A k \in DOMAIN G : (k = 1 /\ G[k] = g) \/ (k = 2 /\ G[k] = f) \/ (k = 3 /\ G[k] = e)
    BY <1>15
  <1>19. \A k \in DOMAIN G : G[k].type # "history_cleared"
    BY <1>3, <1>8, <1>17, <1>18
  <1>20. \A k \in DOMAIN G : ~Overtaken(G, k)
    BY <1>19 DEF Overtaken
  <1>21. Carries(g) = {} /\ Ids(Carries(g)) = {} /\ Tops(g) = {} /\ Ids(Carries(e)) = {} /\ ~Starts(g)
    BY <1>3, <1>8 DEF Silent, Ids, Tops
  <1>22. Rising(G)
    <2> SUFFICES ASSUME NEW k \in DOMAIN G, NEW l \in DOMAIN G, k < l,
                        NEW x \in Tops(G[k]), NEW y \in Ids(Carries(G[l]))
                 PROVE  FALSE
      BY DEF Rising
    <2>1. l = 2
      BY <1>18, <1>21
    <2>2. k = 1 /\ G[k] = g
      BY <1>18, <2>1
    <2> QED BY <1>21, <2>2
  <1>23. Above(G, b)
    BY <1>14, <1>17, <1>18, <1>21 DEF Above
  <1>24. Founded(G)
    BY <1>8, <1>17, <1>18, <1>21 DEF Founded
  <1>25. ASSUME s.syncing PROVE CatchingUp(s, b)
    <2>1. b = after /\ b \in Nat /\ end \in Nat
      BY <1>4, <1>11, <1>16, <1>25
    <2>2. b <= s.cursor /\ s.cursor <= s.through
      BY <1>11, <1>16, <1>25, <2>1
    <2>3. \A k \in DOMAIN G : G[k] = g \/ G[k] = f
      BY <1>16, <1>25
    <2>4. \A x \in Ids(page.messages) : x <= end
      BY <1>11, <1>16, <1>25 DEF Ids
    <2>5. \A k \in DOMAIN G :
             /\ G[k].type \in {"welcome", "sync", "error"}
             /\ \A x \in Ids(Carries(G[k])) : x <= s.cursor
      BY <1>3, <1>6, <1>16, <1>17, <1>21, <1>25, <2>3, <2>4
    <2>6. s.cursor = b \/ \E k \in DOMAIN G : s.cursor \in Ids(Carries(G[k]))
      BY <1>11, <1>16, <1>17, <1>18, <1>25, <2>1
    <2>7. s.deferred = <<>> /\ DOMAIN s.deferred = {}
      BY <1>2
    <2>8. Rising(s.deferred) /\ Above(s.deferred, s.through)
      BY <2>7 DEF Rising, Above
    <2> QED BY <2>2, <2>5, <2>6, <2>7, <2>8 DEF CatchingUp
  <1>26. Ordered(s, b)
    BY <1>2, <1>22, <1>23, <1>24, <1>25 DEF Ordered
  <1>27. ASSUME NEW m \in rows, b < m.id PROVE Due(s, m.id)
    <2>1. CASE m \in page.messages
      <3>1. Reaches(G[2], m.id)
        BY <1>17, <1>18, <2>1 DEF Reaches, Ids
      <3> QED BY <1>18, <1>20, <3>1 DEF Reached, Due
    <2>2. CASE m \notin page.messages /\ ~resumed
      <3>1. page.hasMore /\ \A k \in page.messages : m.id < k.id
        BY <1>12, <2>2
      <3>2. Reaches(G[2], m.id)
        BY <1>7, <1>18, <2>2, <3>1 DEF Reaches
      <3> QED BY <1>18, <1>20, <3>2 DEF Reached, Due
    <2>3. CASE m \notin page.messages /\ resumed
      <3>1. after < m.id /\ m.id <= latest
        BY <1>1, <1>4, <1>27, <2>3
      <3>2. page.hasMore /\ ~(m.id <= end)
        BY <1>11, <2>3, <3>1
      <3>3. s.syncing
        BY <2>3, <3>2 DEF Fresh, resumed, page
      <3>4. s.cursor < m.id /\ m.id <= s.through
        BY <1>1, <1>11, <1>16, <2>3, <3>1, <3>2, <3>3
      <3> QED BY <3>3, <3>4 DEF Due
    <2> QED BY <2>1, <2>2, <2>3
  <1>28. Owed(rows, s, b)
    BY <1>27 DEF Owed, Ids
  <1> QED BY <1>10, <1>13, <1>17a, <1>26, <1>28 DEF page, rows, b

-----------------------------------------------------------------------------
(* The client that has read the frames so far                              *)

\* What p knows is of the right shape, and it has nothing beyond its cursor.
Peers(n) ==
    {p \in [copy : SUBSET Row, floor : Nat, cursor : 0 .. n,
            users : SUBSET Name, more : BOOLEAN] :
        \A m \in p.copy : m.id <= p.cursor}

\* Where a client is before it reads queue G: with nothing, if a cleanup follows.
At(p, G) == IF Overtaken(G, 0) THEN 0 ELSE p.cursor

\* The messages that frame f brings.
Brings(f) ==
    IF f.type \in {"sync", "history"} THEN f.messages
    ELSE IF f.type \in {"message", "ack", "recalled"} THEN {f.message} ELSE {}

\* After place k, queue G says that message x was recalled.
Replaced(x, G, k) ==
    \E j \in DOMAIN G : j > k /\ G[j].type = "recalled" /\ G[j].message.id = x.id

\* Message x is a row of the room as it is, or its recall follows.
Rightful(x, rows, s, k) ==
    x \in rows \/ Replaced(x, s.outgoing, k) \/ Replaced(x, s.deferred, 0)

\* What the client has and what it will get is the room's.
Truthful(rows, s, p) ==
    /\ ~Overtaken(s.outgoing, 0) => \A x \in p.copy : Rightful(x, rows, s, 0)
    /\ \A k \in DOMAIN s.outgoing : ~Overtaken(s.outgoing, k) =>
          \A x \in Brings(s.outgoing[k]) : Rightful(x, rows, s, k)
    /\ \A k \in DOMAIN s.deferred : \A x \in Brings(s.deferred[k]) :
          x \in rows \/ Replaced(x, s.deferred, k)

\* An answer to one of the client's own requests.
Answer(f) == f.type = "ack" \/ (f.type = "history" /\ f.req = "older")

\* What such answers bring does not move the cursor of a client that is at b.
Answers(G, b) ==
    \A k \in DOMAIN G : (~Overtaken(G, k) /\ Answer(G[k])) =>
        \A y \in Ids(Brings(G[k])) :
            \/ y <= b
            \/ \E j \in DOMAIN G : /\ j < k /\ ~Overtaken(G, j)
                                   /\ \E x \in Ids(Carries(G[j])) : y <= x

\* The client counts on all messages from the first page on; no cleanup came before it.
Floors(G, p) ==
    \A k \in DOMAIN G : (Starts(G[k]) /\ ~Overtaken(G, k)) =>
        /\ \E m \in G[k].messages : m.id <= p.floor + 1
        /\ \A l \in DOMAIN G : l < k => G[l].type # "history_cleared"

\* The client has everything up to its cursor.
Full(rows, p) == \A x \in Ids(rows) : (p.floor < x /\ x <= p.cursor) => x \in Ids(p.copy)

\* Session s feeds a client that knows p: what is under way makes its copy these rows.
Feeds(n, rows, s, p) ==
    /\ p \in Peers(n)
    /\ Ordered(s, At(p, s.outgoing))
    /\ Owed(rows, s, At(p, s.outgoing))
    /\ Truthful(rows, s, p)
    /\ Answers(s.outgoing, At(p, s.outgoing))
    /\ Floors(s.outgoing, p)
    /\ ~Overtaken(s.outgoing, 0) => Full(rows, p)

\* f is the last frame of G that is of one of these types.
LastOf(G, types, f) ==
    \E k \in DOMAIN G : /\ G[k] = f /\ f.type \in types
                        /\ \A l \in DOMAIN G : l > k => G[l].type \notin types

Without(G, types) == \A k \in DOMAIN G : G[k].type \notin types

\* The frames that say who is present, and those that say whether another page follows.
Telling == {"welcome", "presence"}
Turning == {"sync", "sync_complete", "history_cleared"}

More(f) == IF f.type = "sync" THEN f.hasMore ELSE FALSE

\* The last frame of G that says who is present says U.
Tells(G, U) == \E f : LastOf(G, Telling, f) /\ f.users = U

\* The client will have been told that U are present.
Presents(s, p, U) ==
    \/ Tells(s.deferred, U)
    \/ /\ Without(s.deferred, Telling)
       /\ Tells(s.outgoing, U) \/ (Without(s.outgoing, Telling) /\ p.users = U)

\* The client will know whether the session is catching up.
Agrees(s, p) ==
    \/ \E f : LastOf(s.outgoing, Turning, f) /\ More(f) = s.syncing
    \/ Without(s.outgoing, Turning) /\ p.more = s.syncing

\* The session keeps its client up to date with these rows and these users.
Serves(n, rows, users, s, p) ==
    Feeds(n, rows, s, p) /\ Presents(s, p, users) /\ Agrees(s, p)

\* Every live session does.
FeedInv ==
    /\ ServerInv /\ Numbered /\ peer = [c \in Conn |-> peer[c]]
    /\ \A c \in Conn : Active(conns[c]) =>
          Serves(db.last, RoomRows(db, conns[c].room), Users(sessions, conns[c].room),
                 conns[c], peer[c])

\* What reading a frame does to what the client knows.
LEMMA ApplyFacts ==
    ASSUME NEW n \in Nat, NEW p \in Peers(n), NEW f \in Frames
    PROVE  LET q == Apply(p, f)
           IN  /\ f.type \in {"sync", "history", "message", "ack"} =>
                     /\ q.copy = {m \in p.copy : m.id \notin Ids(Brings(f))} \cup Brings(f)
                     /\ q.cursor = Upto(p.cursor, Brings(f))
                     /\ q.floor = p.floor /\ q.users = p.users
                     /\ q.more = IF f.type = "sync" THEN f.hasMore ELSE p.more
               /\ f.type = "recalled" /\ f.message.id \in Ids(p.copy) =>
                     /\ q.copy = {m \in p.copy : m.id \notin Ids(Brings(f))} \cup Brings(f)
                     /\ q.cursor = Upto(p.cursor, Brings(f))
                     /\ q.floor = p.floor /\ q.users = p.users /\ q.more = p.more
               /\ f.type = "recalled" /\ f.message.id \notin Ids(p.copy) => q = p
               /\ f.type = "history_cleared" =>
                     /\ q.copy = {} /\ q.floor = 0 /\ q.cursor = 0 /\ q.more = FALSE
                     /\ q.users = p.users
               /\ f.type \in {"sync_complete", "error", "welcome", "presence"} =>
                     /\ q.copy = p.copy /\ q.floor = p.floor /\ q.cursor = p.cursor
                     /\ q.users = IF f.type \in {"welcome", "presence"} THEN f.users ELSE p.users
                     /\ q.more = IF f.type = "sync_complete" THEN FALSE ELSE p.more
               /\ q = [copy |-> q.copy, floor |-> q.floor, cursor |-> q.cursor,
                       users |-> q.users, more |-> q.more]
  <1> DEFINE q == Apply(p, f)
             M == Merge(p, Brings(f))
  <1>1. p = [copy |-> p.copy, floor |-> p.floor, cursor |-> p.cursor,
             users |-> p.users, more |-> p.more]
    BY DEF Peers
  <1>2. /\ M.copy = {m \in p.copy : m.id \notin Ids(Brings(f))} \cup Brings(f)
        /\ M.cursor = Upto(p.cursor, Brings(f))
        /\ M.floor = p.floor /\ M.users = p.users /\ M.more = p.more
        /\ M = [copy |-> M.copy, floor |-> M.floor, cursor |-> M.cursor,
                users |-> M.users, more |-> M.more]
    <2> DEFINE C == {m \in p.copy : m.id \notin Ids(Brings(f))} \cup Brings(f)
               U == Upto(p.cursor, Brings(f))
    <2>1. M = [p EXCEPT !.copy = C, !.cursor = U]
      BY DEF Merge
    <2> HIDE DEF C, U, M
    <2>2. M = [copy |-> C, floor |-> p.floor, cursor |-> U, users |-> p.users, more |-> p.more]
      BY <1>1, <2>1
    <2>3. /\ M.copy = C /\ M.cursor = U
          /\ M.floor = p.floor /\ M.users = p.users /\ M.more = p.more
      BY <2>2
    <2>4. M = [copy |-> M.copy, floor |-> M.floor, cursor |-> M.cursor,
               users |-> M.users, more |-> M.more]
      BY <2>2, <2>3
    <2> QED BY <2>3, <2>4 DEF C, U
  <1> HIDE DEF M
  <1>3. CASE f.type = "sync"
    <2>1. Brings(f) = f.messages
      BY <1>3 DEF Brings
    <2>2. q = [M EXCEPT !.more = f.hasMore]
      BY <1>3, <2>1 DEF Apply, M
    <2> HIDE DEF q
    <2> QED BY <1>2, <1>3, <2>2 DEF q
  <1>4. CASE f.type \in {"history", "message", "ack"}
    <2>1. f.type = "history" => Brings(f) = f.messages
      BY DEF Brings
    <2>2. f.type \in {"message", "ack"} => Brings(f) = {f.message}
      BY DEF Brings
    <2>3. q = M
      BY <1>4, <2>1, <2>2 DEF Apply, M
    <2> HIDE DEF q
    <2> QED BY <1>2, <1>4, <2>3 DEF q
  <1>5. CASE f.type = "recalled"
    <2>1. Brings(f) = {f.message}
      BY <1>5 DEF Brings
    <2>2. q = IF f.message.id \in Ids(p.copy) THEN M ELSE p
      BY <1>5, <2>1 DEF Apply, M
    <2> HIDE DEF q
    <2> QED BY <1>1, <1>2, <1>5, <2>2 DEF q
  <1>6. CASE f.type = "history_cleared"
    <2>1. q = [Nobody EXCEPT !.users = p.users]
      BY <1>6 DEF Apply
    <2>2. q = [copy |-> {}, floor |-> 0, cursor |-> 0, users |-> p.users, more |-> FALSE]
      BY <2>1 DEF Nobody
    <2> HIDE DEF q
    <2> QED BY <1>6, <2>2 DEF q
  <1>7. CASE f.type \in {"welcome", "presence"}
    <2>1. q = [p EXCEPT !.users = f.users]
      BY <1>7 DEF Apply
    <2> HIDE DEF q
    <2> QED BY <1>1, <1>7, <2>1 DEF q
  <1>8. CASE f.type = "sync_complete"
    <2>1. q = [p EXCEPT !.more = FALSE]
      BY <1>8 DEF Apply
    <2> HIDE DEF q
    <2> QED BY <1>1, <1>8, <2>1 DEF q
  <1>9. CASE f.type = "error"
    <2>1. q = p
      BY <1>9 DEF Apply
    <2> HIDE DEF q
    <2> QED BY <1>1, <1>9, <2>1 DEF q
  <1>10. f.type \in {"welcome", "history", "sync", "sync_complete", "message", "ack", "recalled",
                     "history_cleared", "presence", "error"}
    BY DEF Frames
  <1> HIDE DEF q
  <1> QED BY <1>3, <1>4, <1>5, <1>6, <1>7, <1>8, <1>9, <1>10 DEF q

\* What a frame brings is known to be messages that were sent.
LEMMA BringsTyped ==
    ASSUME NEW n \in Nat, NEW f \in SoundFrames(n)
    PROVE  /\ Brings(f) \in SUBSET Row /\ Ids(Brings(f)) \in SUBSET (0 .. n)
           /\ Carries(f) \subseteq Brings(f)
           /\ ~Answer(f) /\ f.type \in {"sync", "history", "message"} => Carries(f) = Brings(f)
  <1>1. f \in Frames /\ Sound(f, n)
    BY DEF SoundFrames
  <1>2. f.type \in {"sync", "history"} => f.messages \in SUBSET Row /\ \A m \in f.messages : m.id <= n
    BY <1>1 DEF Frames, Sound
  <1>3. f.type \in {"message", "ack", "recalled"} => f.message \in Row /\ f.message.id <= n
    BY <1>1 DEF Frames, Sound
  <1>4. Brings(f) \in SUBSET Row /\ \A m \in Brings(f) : m.id <= n
    BY <1>2, <1>3 DEF Brings
  <1>5. Ids(Brings(f)) \in SUBSET (0 .. n)
    BY <1>4 DEF Ids, Row
  <1>6. f.type = "history" => f.req \in {"initial", "older"}
    BY <1>1 DEF Frames
  <1>7. Carries(f) \subseteq Brings(f)
    BY DEF Carries, Brings
  <1>8. ~Answer(f) /\ f.type \in {"sync", "history", "message"} => Carries(f) = Brings(f)
    BY <1>6 DEF Carries, Brings, Answer
  <1> QED BY <1>4, <1>5, <1>7, <1>8

\* The cursor moves to the largest id, if that is further on.
LEMMA UptoFacts ==
    ASSUME NEW n \in Nat, NEW k \in 0 .. n, NEW new, Ids(new) \in SUBSET (0 .. n)
    PROVE  /\ Upto(k, new) \in 0 .. n /\ k <= Upto(k, new)
           /\ \A x \in Ids(new) : x <= Upto(k, new)
           /\ Upto(k, new) = k \/ Upto(k, new) \in Ids(new)
  <1> DEFINE S == {k} \cup Ids(new)
  <1>1. S # {} /\ S \in SUBSET Nat /\ \A x \in S : x <= n
    OBVIOUS
  <1> HIDE DEF S
  <1>2. Max(S) \in S /\ \A x \in S : x <= Max(S)
    BY <1>1, MaxOf
  <1> QED BY <1>1, <1>2 DEF Upto, S

\* t is s after frame f, in the queue or held back.
OneMoreIs(t, s, f) ==
    /\ t.syncing = s.syncing
    /\ \/ t.outgoing = s.outgoing \o <<f>> /\ t.deferred = s.deferred
       \/ t.outgoing = s.outgoing /\ t.deferred = s.deferred \o <<f>>

\* What a recalled message of a queue is replaced by stays to come.
LEMMA MoreReplaced ==
    ASSUME NEW S, NEW H \in Seq(S), NEW f \in S, f.type # "history_cleared"
    PROVE  LET G == H \o <<f>>
           IN  /\ \A x, k : Replaced(x, H, k) => Replaced(x, G, k)
               /\ \A x, k : f.type = "recalled" /\ f.message.id = x.id /\ k \in 0 .. Len(H)
                               => Replaced(x, G, k)
               /\ G \in Seq(S) /\ Len(H) \in Nat /\ DOMAIN H = 1 .. Len(H)
               /\ \A k \in DOMAIN H : /\ k \in DOMAIN G /\ G[k] = H[k]
                                      /\ Overtaken(G, k) <=> Overtaken(H, k)
               /\ \A k \in DOMAIN G : k \in DOMAIN H \/ (k = Len(H) + 1 /\ G[k] = f)
               /\ Overtaken(G, 0) <=> Overtaken(H, 0)
  <1> DEFINE P == <<f>>
             G == H \o P
  <1>1. /\ Len(H) \in Nat /\ DOMAIN H = 1 .. Len(H) /\ DOMAIN G = 1 .. (Len(H) + 1)
        /\ G[Len(H) + 1] = f
        /\ \A k \in DOMAIN H : k \in DOMAIN G /\ G[k] = H[k]
        /\ G \in Seq(S) /\ P \in Seq(S) /\ DOMAIN P = {1} /\ P[1] = f
    BY LenProperties
  <1> HIDE DEF P
  <1>2. \A j \in DOMAIN P : P[j].type # "history_cleared"
    BY <1>1
  <1>3. /\ \A k \in DOMAIN H : Overtaken(G, k) <=> Overtaken(H, k)
        /\ Overtaken(G, 0) <=> Overtaken(H, 0)
    BY <1>1, <1>2, Appending
  <1> HIDE DEF G
  <1>4. \A x, k : Replaced(x, H, k) => Replaced(x, G, k)
    BY <1>1 DEF Replaced
  <1>5. ASSUME NEW x, NEW k \in 0 .. Len(H), f.type = "recalled", f.message.id = x.id
        PROVE  Replaced(x, G, k)
    <2>1. Len(H) + 1 \in DOMAIN G /\ Len(H) + 1 > k
      BY <1>1
    <2> QED BY <1>1, <1>5, <2>1 DEF Replaced
  <1>6. \A k \in DOMAIN G : k \in DOMAIN H \/ (k = Len(H) + 1 /\ G[k] = f)
    BY <1>1
  <1> QED BY <1>1, <1>3, <1>4, <1>5, <1>6 DEF G, P

\* One more frame, with the rows it is about, keeps what is under way true to the room.
LEMMA MoreTrue ==
    ASSUME NEW n \in Nat, NEW s \in SessionsOf(n), NEW p, NEW rows, NEW new,
           NEW f \in SoundFrames(n), f.type # "history_cleared", NEW t, OneMoreIs(t, s, f),
           t.deferred = s.deferred /\ f.type = "recalled" => s.deferred = <<>>,
           \A x \in rows : x \in new \/ (f.type = "recalled" /\ f.message.id = x.id),
           Brings(f) \subseteq new,
           Truthful(rows, s, p)
    PROVE  Truthful(new, t, p)
  <1> DEFINE S == SoundFrames(n)
             H == s.outgoing
             D == s.deferred
  <1>1. H \in Seq(S) /\ D \in Seq(S)
    BY DEF SessionsOf
  <1>2. CASE t.outgoing = H \o <<f>> /\ t.deferred = D
    <2> DEFINE G == H \o <<f>>
    <2>1. /\ \A x, k : Replaced(x, H, k) => Replaced(x, G, k)
          /\ \A x, k : f.type = "recalled" /\ f.message.id = x.id /\ k \in 0 .. Len(H)
                               => Replaced(x, G, k)
          /\ Len(H) \in Nat /\ DOMAIN H = 1 .. Len(H)
          /\ \A k \in DOMAIN H : /\ G[k] = H[k]
                                 /\ Overtaken(G, k) <=> Overtaken(H, k)
          /\ \A k \in DOMAIN G : k \in DOMAIN H \/ (k = Len(H) + 1 /\ G[k] = f)
          /\ Overtaken(G, 0) <=> Overtaken(H, 0)
      BY <1>1, MoreReplaced
    <2> HIDE DEF G
    <2>2. t.outgoing = G
      BY <1>2 DEF G
    <2>3. \A k \in DOMAIN H : k \in 0 .. Len(H)
      BY <2>1
    <2>3a. 0 \in 0 .. Len(H)
      BY <2>1
    <2>4. ASSUME NEW x, NEW k \in 0 .. Len(H), Rightful(x, rows, s, k)
          PROVE  Rightful(x, new, t, k)
      <3>1. CASE x \in rows
        BY <2>1, <2>2, <3>1 DEF Rightful
      <3>2. CASE Replaced(x, H, k) \/ Replaced(x, D, 0)
        BY <1>2, <2>1, <2>2, <3>2 DEF Rightful
      <3> QED BY <2>4, <3>1, <3>2 DEF Rightful
    <2>5. ~Overtaken(G, 0) => \A x \in p.copy : Rightful(x, new, t, 0)
      BY <2>1, <2>3a, <2>4 DEF Truthful
    <2>6. ASSUME NEW k \in DOMAIN G, ~Overtaken(G, k), NEW x \in Brings(G[k])
          PROVE  Rightful(x, new, t, k)
      <3>1. CASE k \in DOMAIN H
        BY <2>1, <2>3, <2>4, <2>6, <3>1 DEF Truthful
      <3>2. CASE G[k] = f
        BY <2>6, <3>2 DEF Rightful
      <3> QED BY <2>1, <3>1, <3>2
    <2>7. ASSUME NEW k \in DOMAIN D, NEW x \in Brings(D[k])
          PROVE  x \in new \/ Replaced(x, D, k)
      <3>1. D # <<>>
        OBVIOUS
      <3>2. f.type # "recalled"
        BY <1>2, <3>1
      <3> QED BY <2>7, <3>2 DEF Truthful
    <2> QED BY <1>2, <2>2, <2>5, <2>6, <2>7 DEF Truthful
  <1>3. CASE t.outgoing = H /\ t.deferred = D \o <<f>>
    <2> DEFINE G == D \o <<f>>
    <2>1. /\ \A x, k : Replaced(x, D, k) => Replaced(x, G, k)
          /\ \A x, k : f.type = "recalled" /\ f.message.id = x.id /\ k \in 0 .. Len(D)
                               => Replaced(x, G, k)
          /\ Len(D) \in Nat /\ DOMAIN D = 1 .. Len(D)
          /\ \A k \in DOMAIN D : G[k] = D[k]
          /\ \A k \in DOMAIN G : k \in DOMAIN D \/ (k = Len(D) + 1 /\ G[k] = f)
      BY <1>1, MoreReplaced
    <2> HIDE DEF G
    <2>2. t.deferred = G
      BY <1>3 DEF G
    <2>3. \A k \in DOMAIN D : k \in 0 .. Len(D)
      BY <2>1
    <2>3a. 0 \in 0 .. Len(D)
      BY <2>1
    <2>4. ASSUME NEW x, NEW k, Rightful(x, rows, s, k)
          PROVE  Rightful(x, new, t, k)
      <3>1. CASE x \in rows
        BY <2>1, <2>2, <2>3a, <3>1 DEF Rightful
      <3>2. CASE Replaced(x, H, k) \/ Replaced(x, D, 0)
        BY <1>3, <2>1, <2>2, <3>2 DEF Rightful
      <3> QED BY <2>4, <3>1, <3>2 DEF Rightful
    <2>5. ASSUME NEW k \in DOMAIN G, NEW x \in Brings(G[k])
          PROVE  x \in new \/ Replaced(x, G, k)
      <3>1. CASE k \in DOMAIN D
        <4>1. x \in rows \/ Replaced(x, D, k)
          BY <2>1, <2>5, <3>1 DEF Truthful
        <4> QED BY <2>1, <2>3, <3>1, <4>1
      <3>2. CASE G[k] = f
        BY <2>5, <3>2
      <3> QED BY <2>1, <3>1, <3>2
    <2> QED BY <1>3, <2>2, <2>4, <2>5 DEF Truthful
  <1> QED BY <1>2, <1>3 DEF OneMoreIs

\* And the parts about the client's own requests and about the first page.
LEMMA MoreAnswers ==
    ASSUME NEW n \in Nat, NEW s \in SessionsOf(n), NEW p, NEW b,
           NEW f \in SoundFrames(n), f.type # "history_cleared", ~Starts(f),
           NEW t, OneMoreIs(t, s, f),
           Answer(f) => \A y \in Ids(Brings(f)) :
              \/ y <= b
              \/ \E j \in DOMAIN s.outgoing : /\ ~Overtaken(s.outgoing, j)
                                              /\ \E x \in Ids(Carries(s.outgoing[j])) : y <= x,
           Answers(s.outgoing, b), Floors(s.outgoing, p)
    PROVE  /\ Answers(t.outgoing, b) /\ Floors(t.outgoing, p)
           /\ Overtaken(t.outgoing, 0) <=> Overtaken(s.outgoing, 0)
  <1> DEFINE S == SoundFrames(n)
             H == s.outgoing
  <1>1. H \in Seq(S)
    BY DEF SessionsOf
  <1>2. CASE t.outgoing = H \o <<f>>
    <2> DEFINE G == H \o <<f>>
    <2>1. /\ Len(H) \in Nat /\ DOMAIN H = 1 .. Len(H)
          /\ \A k \in DOMAIN H : /\ k \in DOMAIN G /\ G[k] = H[k]
                                 /\ Overtaken(G, k) <=> Overtaken(H, k)
          /\ \A k \in DOMAIN G : k \in DOMAIN H \/ (k = Len(H) + 1 /\ G[k] = f)
          /\ Overtaken(G, 0) <=> Overtaken(H, 0)
      BY <1>1, MoreReplaced
    <2> HIDE DEF G
    <2>2. ASSUME NEW k \in DOMAIN G, ~Overtaken(G, k), Answer(G[k]), NEW y \in Ids(Brings(G[k]))
          PROVE  \/ y <= b
                 \/ \E j \in DOMAIN G : /\ j < k /\ ~Overtaken(G, j)
                                        /\ \E x \in Ids(Carries(G[j])) : y <= x
      <3>1. CASE k \in DOMAIN H
        <4>1. \/ y <= b
              \/ \E j \in DOMAIN H : /\ j < k /\ ~Overtaken(H, j)
                                     /\ \E x \in Ids(Carries(H[j])) : y <= x
          BY <2>1, <2>2, <3>1 DEF Answers
        <4> QED BY <2>1, <4>1
      <3>2. CASE k = Len(H) + 1 /\ G[k] = f
        <4>1. \/ y <= b
              \/ \E j \in DOMAIN H : /\ ~Overtaken(H, j)
                                     /\ \E x \in Ids(Carries(H[j])) : y <= x
          BY <2>2, <3>2
        <4>2. \A j \in DOMAIN H : j < k
          BY <2>1, <3>2
        <4> QED BY <2>1, <4>1, <4>2
      <3> QED BY <2>1, <3>1, <3>2
    <2>3. ASSUME NEW k \in DOMAIN G, Starts(G[k]), ~Overtaken(G, k)
          PROVE  /\ \E m \in G[k].messages : m.id <= p.floor + 1
                 /\ \A l \in DOMAIN G : l < k => G[l].type # "history_cleared"
      <3>1. k \in DOMAIN H /\ G[k] = H[k]
        BY <2>1, <2>3
      <3>2. \A l \in DOMAIN G : l < k => l \in DOMAIN H /\ G[l] = H[l]
        BY <2>1, <3>1
      <3> QED BY <2>1, <2>3, <3>1, <3>2 DEF Floors
    <2>4. Answers(G, b) /\ Floors(G, p)
      BY <2>2, <2>3 DEF Answers, Floors
    <2> QED BY <1>2, <2>1, <2>4 DEF G
  <1>3. CASE t.outgoing = H
    BY <1>3
  <1> QED BY <1>2, <1>3 DEF OneMoreIs

\* A frame without a message for the cursor, put where it belongs.
LEMMA SlipFeeds ==
    ASSUME NEW n \in Nat, NEW s \in SessionsOf(n), NEW p, NEW rows, NEW new,
           NEW f \in SoundFrames(n), Silent(f), NEW t, Slips(t, s, f),
           Ids(new) = Ids(rows),
           \A x \in rows : x \in new \/ (f.type = "recalled" /\ f.message.id = x.id),
           Brings(f) \subseteq new,
           Feeds(n, rows, s, p),
           Answer(f) => \A y \in Ids(Brings(f)) :
              \/ y <= At(p, s.outgoing)
              \/ \E j \in DOMAIN s.outgoing : /\ ~Overtaken(s.outgoing, j)
                                              /\ \E x \in Ids(Carries(s.outgoing[j])) : y <= x
    PROVE  Feeds(n, new, t, p)
  <1> DEFINE b == At(p, s.outgoing)
  <1>1. s \in Sessions /\ f.type # "history_cleared" /\ ~Starts(f)
    BY DEF SessionsOf, Silent
  <1>2. OneMoreIs(t, s, f) /\ t.room = s.room
    BY <1>1 DEF Slips, OneMoreIs, Put, Sessions
  <1>3. t.deferred = s.deferred /\ f.type = "recalled" => s.deferred = <<>>
    <2>1. CASE ~s.syncing
      BY <2>1 DEF Feeds, Ordered
    <2>2. CASE s.syncing /\ f.type # "error"
      <3>1. t.deferred = s.deferred \o <<f>> /\ s.deferred \in Seq(SoundFrames(n))
        BY <1>1, <2>2 DEF Slips, Sessions, SessionsOf
      <3>2. Len(s.deferred \o <<f>>) = Len(s.deferred) + 1 /\ Len(s.deferred) \in Nat
        BY <3>1
      <3>3. t.deferred # s.deferred
        BY <3>1, <3>2
      <3> QED BY <3>3
    <2> QED BY <2>1, <2>2
  <1>4. Ordered(t, b) /\ \A x : Due(s, x) => Due(t, x)
    BY SilentKeeps DEF Feeds
  <1>5. Owed(new, t, b)
    BY <1>4 DEF Feeds, Owed
  <1>6. Truthful(new, t, p)
    BY <1>1, <1>2, <1>3, MoreTrue DEF Feeds
  <1>7. /\ Answers(t.outgoing, b) /\ Floors(t.outgoing, p)
        /\ Overtaken(t.outgoing, 0) <=> Overtaken(s.outgoing, 0)
    BY <1>1, <1>2, MoreAnswers DEF Feeds
  <1>8. At(p, t.outgoing) = b
    BY <1>7 DEF At
  <1>9. ~Overtaken(t.outgoing, 0) => Full(new, p)
    BY <1>7 DEF Feeds, Full
  <1> QED BY <1>4, <1>5, <1>6, <1>7, <1>8, <1>9 DEF Feeds

\* A new message, for a client that is told of it.
LEMMA MessageFeeds ==
    ASSUME NEW n \in Nat, NEW s \in SessionsOf(n), NEW p, NEW rows,
           NEW m \in Row, m.id = n + 1, NEW req, Message(req, m) \in SoundFrames(n + 1),
           NEW t, News(t, s, Message(req, m)), Feeds(n, rows, s, p)
    PROVE  Feeds(n + 1, rows \cup {m}, t, p)
  <1> DEFINE b == At(p, s.outgoing)
             f == Message(req, m)
             new == rows \cup {m}
  <1>1. /\ s \in Sessions /\ f.type = "message" /\ ~Starts(f) /\ Brings(f) = {m} /\ ~Answer(f)
        /\ n + 1 \in Nat
    <2>1. f.type = "message" /\ ~Starts(f)
      BY Kinds
    <2>2. Brings(f) = {m} /\ ~Answer(f)
      BY <2>1 DEF Brings, Answer, Message
    <2> QED BY <2>1, <2>2 DEF SessionsOf
  <1>2. s \in SessionsOf(n + 1)
    <2>1. n <= n + 1
      OBVIOUS
    <2> QED BY <1>1, <2>1, Grown
  <1>3. p \in Peers(n) /\ p.cursor \in 0 .. n /\ b \in 0 .. n
    BY DEF Feeds, Peers, At
  <1>3a. p \in Peers(n + 1)
    <2>1. p.cursor \in 0 .. (n + 1)
      BY <1>3
    <2>2. /\ p \in [copy : SUBSET Row, floor : Nat, cursor : 0 .. n, users : SUBSET Name, more : BOOLEAN]
          /\ \A x \in p.copy : x.id <= p.cursor
      BY <1>3 DEF Peers
    <2>3. p \in [copy : SUBSET Row, floor : Nat, cursor : 0 .. (n + 1), users : SUBSET Name, more : BOOLEAN]
      BY <2>1, <2>2
    <2> QED BY <2>2, <2>3 DEF Peers
  <1>4. Ordered(t, b) /\ (\A x : Due(s, x) => Due(t, x)) /\ Due(t, m.id)
    BY <1>3, MessageKeeps DEF Feeds
  <1>5. Ids(new) = Ids(rows) \cup {m.id}
    BY DEF Ids
  <1>6. Owed(new, t, b)
    BY <1>4, <1>5 DEF Feeds, Owed
  <1>7. OneMoreIs(t, s, f)
    BY <1>1 DEF News, OneMoreIs, Put, Sessions
  <1> HIDE DEF f, new
  <1>8. Truthful(new, t, p)
    <2>1. (\A x \in rows : x \in new) /\ Brings(f) \subseteq new
      BY <1>1 DEF new
    <2> QED BY <1>1, <1>2, <1>7, <2>1, MoreTrue DEF Feeds, f
  <1>9. /\ Answers(t.outgoing, b) /\ Floors(t.outgoing, p)
        /\ Overtaken(t.outgoing, 0) <=> Overtaken(s.outgoing, 0)
    BY <1>1, <1>2, <1>7, MoreAnswers DEF Feeds, f
  <1>10. At(p, t.outgoing) = b
    BY <1>9 DEF At
  <1>11. ~Overtaken(t.outgoing, 0) => Full(new, p)
    <2>1. ~(m.id <= p.cursor)
      BY <1>3
    <2> QED BY <1>5, <1>9, <2>1 DEF Feeds, Full
  <1> QED BY <1>3a, <1>4, <1>6, <1>8, <1>9, <1>10, <1>11 DEF Feeds, new

\* While a session catches up, nothing of its queue is about a request or a first page.
LEMMA CatchingUpFeeds ==
    ASSUME NEW b, NEW s, CatchingUp(s, b)
    PROVE  /\ \A k \in DOMAIN s.outgoing :
                 /\ ~Answer(s.outgoing[k]) /\ ~Starts(s.outgoing[k]) /\ ~Overtaken(s.outgoing, k)
                 /\ s.outgoing[k].type # "history_cleared"
           /\ ~Overtaken(s.outgoing, 0)
           /\ \A k \in DOMAIN s.deferred :
                 /\ ~Answer(s.deferred[k]) /\ ~Starts(s.deferred[k])
                 /\ s.deferred[k].type # "history_cleared"
  <1>1. \A k \in DOMAIN s.outgoing : s.outgoing[k].type \in {"welcome", "sync", "error"}
    BY DEF CatchingUp
  <1>2. \A k \in DOMAIN s.deferred : s.deferred[k].type \in {"message", "recalled", "presence"}
    BY DEF CatchingUp
  <1> QED BY <1>1, <1>2 DEF Answer, Starts, Overtaken

\* What was held back follows in the queue: every message is replaced as before.
LEMMA JoinedTrue ==
    ASSUME NEW S, NEW K \in Seq(S), NEW e, NEW D \in Seq(S), e \in S
    PROVE  LET Q == K \o (<<e>> \o D)
           IN  /\ \A x, k : Replaced(x, K, k) => Replaced(x, Q, k)
               /\ \A x : \A k \in 0 .. Len(K) : Replaced(x, D, 0) => Replaced(x, Q, k)
               /\ \A j \in DOMAIN D : \A x : Replaced(x, D, j) => Replaced(x, Q, Len(K) + 1 + j)
               /\ Len(K) \in Nat /\ DOMAIN K = 1 .. Len(K)
               /\ \A k \in DOMAIN K : Q[k] = K[k]
               /\ \A k \in DOMAIN Q :
                     \/ k \in DOMAIN K \/ Q[k] = e
                     \/ \E j \in DOMAIN D : k = Len(K) + 1 + j /\ Q[k] = D[j]
  <1> DEFINE E == <<e>> \o D
             Q == K \o E
  <1>1. /\ Len(K) \in Nat /\ DOMAIN K = 1 .. Len(K) /\ Len(D) \in Nat /\ DOMAIN D = 1 .. Len(D)
        /\ E \in Seq(S) /\ Len(E) = 1 + Len(D) /\ E[1] = e
        /\ \A j \in 1 .. Len(D) : E[1 + j] = D[j]
    BY LenProperties
  <1> HIDE DEF E
  <1>2. /\ DOMAIN Q = 1 .. (Len(K) + (1 + Len(D)))
        /\ \A k \in 1 .. Len(K) : Q[k] = K[k]
        /\ \A k \in 1 .. (1 + Len(D)) : Q[Len(K) + k] = E[k]
    <2>1. Len(Q) = Len(K) + Len(E) /\ Q \in Seq(S)
          /\ \A i \in 1 .. Len(K) + Len(E) : Q[i] = IF i <= Len(K) THEN K[i] ELSE E[i - Len(K)]
      <3>1. K \in Seq(S) /\ E \in Seq(S)
        BY <1>1
      <3> QED BY <3>1, ConcatProperties
    <2>2. DOMAIN Q = 1 .. Len(Q)
      BY <2>1, LenProperties
    <2> HIDE DEF Q
    <2>3. \A k \in 1 .. Len(K) : Q[k] = K[k]
      BY <1>1, <2>1
    <2>4. ASSUME NEW k \in 1 .. (1 + Len(D)) PROVE Q[Len(K) + k] = E[k]
      <3>1. Len(K) + k \in 1 .. Len(K) + Len(E) /\ ~(Len(K) + k <= Len(K)) /\ (Len(K) + k) - Len(K) = k
        BY <1>1
      <3> QED BY <2>1, <3>1
    <2> QED BY <1>1, <2>1, <2>2, <2>3, <2>4
  <1> HIDE DEF Q
  <1>3. /\ Len(K) + 1 \in DOMAIN Q /\ Q[Len(K) + 1] = e
        /\ \A k \in DOMAIN K : k \in DOMAIN Q /\ Q[k] = K[k] /\ k \in Nat
    BY <1>1, <1>2
  <1>4. ASSUME NEW j \in DOMAIN D
        PROVE  Len(K) + 1 + j \in DOMAIN Q /\ Q[Len(K) + 1 + j] = D[j] /\ j \in Nat /\ j > 0
    <2>0. j \in 1 .. Len(D) /\ Len(D) \in Nat /\ Len(K) \in Nat
      BY <1>1
    <2> HIDE DEF E
    <2>1. 1 + j \in 1 .. (1 + Len(D)) /\ Len(K) + (1 + j) = Len(K) + 1 + j
      BY <2>0
    <2>2. Q[Len(K) + (1 + j)] = E[1 + j] /\ E[1 + j] = D[j]
      BY <1>1, <1>2, <2>0, <2>1
    <2>3. Len(K) + (1 + j) \in DOMAIN Q
      BY <1>1, <1>2, <2>1
    <2> QED BY <2>0, <2>1, <2>2, <2>3
  <1>5. ASSUME NEW k \in DOMAIN Q
        PROVE  \/ k \in DOMAIN K \/ Q[k] = e
               \/ \E j \in DOMAIN D : k = Len(K) + 1 + j /\ Q[k] = D[j]
    <2>1. k \in 1 .. (Len(K) + (1 + Len(D)))
      BY <1>2
    <2>2. CASE k <= Len(K)
      BY <1>1, <2>1, <2>2
    <2>3. CASE k = Len(K) + 1
      BY <1>3, <2>3
    <2>4. CASE k > Len(K) + 1
      <3>1. k - (Len(K) + 1) \in 1 .. Len(D) /\ k = Len(K) + 1 + (k - (Len(K) + 1))
        BY <1>1, <2>1, <2>4
      <3> QED BY <1>1, <1>4, <3>1
    <2> QED BY <1>1, <2>1, <2>2, <2>3, <2>4
  <1>6. \A x, k : Replaced(x, K, k) => Replaced(x, Q, k)
    BY <1>3 DEF Replaced
  <1>7. ASSUME NEW x, NEW k \in 0 .. Len(K), Replaced(x, D, 0) PROVE Replaced(x, Q, k)
    <2>1. PICK j \in DOMAIN D : D[j].type = "recalled" /\ D[j].message.id = x.id
      BY <1>7 DEF Replaced
    <2>2. Len(K) + 1 + j > k
      BY <1>1, <1>4
    <2> QED BY <1>4, <2>1, <2>2 DEF Replaced
  <1>8. ASSUME NEW i \in DOMAIN D, NEW x, Replaced(x, D, i) PROVE Replaced(x, Q, Len(K) + 1 + i)
    <2>1. PICK j \in DOMAIN D : j > i /\ D[j].type = "recalled" /\ D[j].message.id = x.id
      BY <1>8 DEF Replaced
    <2>2. Len(K) + 1 + j > Len(K) + 1 + i
      BY <1>1, <1>4, <2>1
    <2> QED BY <1>4, <2>1, <2>2 DEF Replaced
  <1> QED BY <1>1, <1>3, <1>5, <1>6, <1>7, <1>8 DEF Q, E

\* A page for a client that catches up.
LEMMA PageFeeds ==
    ASSUME NEW n \in Nat, NEW s \in SessionsOf(n), NEW p, NEW rows, rows \subseteq Row,
           NEW page, PageFrame("sync", "next", page) \in SoundFrames(n),
           page.messages \subseteq rows, NEW t, s.syncing, Feeds(n, rows, s, p),
           Paged(t, s, page) \/ Caught(t, s, page),
           Ordered(t, p.cursor), Owed(rows, t, p.cursor)
    PROVE  Feeds(n, rows, t, p)
  <1> DEFINE b == At(p, s.outgoing)
             f == PageFrame("sync", "next", page)
             H == s.outgoing
             D == s.deferred
             K == H \o <<f>>
             S == SoundFrames(n)
             u == Put(s, <<f>>)
  <1>1. s \in Sessions /\ H \in Seq(S) /\ D \in Seq(S)
    BY DEF SessionsOf
  <1>2. /\ f.type = "sync" /\ ~Starts(f) /\ ~Answer(f) /\ Brings(f) = page.messages
    <2>1. f.type = "sync" /\ ~Starts(f)
      BY Kinds
    <2> QED BY <2>1 DEF Answer, Brings, PageFrame
  <1>3. CatchingUp(s, b)
    BY DEF Feeds, Ordered
  <1>4. /\ \A k \in DOMAIN H : ~Answer(H[k]) /\ ~Starts(H[k]) /\ ~Overtaken(H, k)
                               /\ H[k].type # "history_cleared"
        /\ ~Overtaken(H, 0)
        /\ \A k \in DOMAIN D : ~Answer(D[k]) /\ ~Starts(D[k]) /\ D[k].type # "history_cleared"
    BY <1>3, CatchingUpFeeds
  <1>5. u.outgoing = K /\ u.deferred = D /\ u.syncing = s.syncing
    BY <1>1 DEF Put, Sessions
  <1>6. OneMoreIs(u, s, f)
    BY <1>5 DEF OneMoreIs
  <1>7. Truthful(rows, u, p)
    <2>1. f.type # "recalled" /\ f.type # "history_cleared"
      BY <1>2
    <2> HIDE DEF f, u
    <2> QED BY <1>2, <1>6, <2>1, MoreTrue DEF Feeds, f
  <1>8. /\ K \in Seq(S) /\ \A k \in DOMAIN K : (k \in DOMAIN H /\ K[k] = H[k]) \/ K[k] = f
    <2>1. f.type # "history_cleared"
      BY <1>2
    <2> HIDE DEF f
    <2>2. K \in Seq(S) /\ \A k \in DOMAIN H : K[k] = H[k]
      BY <1>1, <2>1, MoreReplaced DEF f
    <2>3. \A k \in DOMAIN K : k \in DOMAIN H \/ (k = Len(H) + 1 /\ K[k] = f)
      BY <1>1, <2>1, MoreReplaced DEF f
    <2> QED BY <2>2, <2>3
  <1>9. \A k \in DOMAIN K : ~Answer(K[k]) /\ ~Starts(K[k]) /\ K[k].type # "history_cleared"
    BY <1>2, <1>4, <1>8
  <1> HIDE DEF f, K
  <1>10. CASE Paged(t, s, page)
    <2>1. t.outgoing = K /\ t.deferred = D
      BY <1>1, <1>10 DEF Paged, Sessions, K, f
    <2>2. /\ \A k \in DOMAIN t.outgoing : ~Answer(t.outgoing[k]) /\ ~Starts(t.outgoing[k])
          /\ ~Overtaken(t.outgoing, 0)
      BY <1>9, <2>1 DEF Overtaken
    <2>3. Answers(t.outgoing, At(p, t.outgoing)) /\ Floors(t.outgoing, p)
      BY <2>2 DEF Answers, Floors
    <2>4. At(p, t.outgoing) = p.cursor
      BY <2>2 DEF At
    <2>5. Truthful(rows, t, p)
      BY <1>5, <1>7, <2>1 DEF Truthful, Rightful
    <2> QED BY <1>4, <2>2, <2>3, <2>4, <2>5 DEF Feeds
  <1>11. CASE Caught(t, s, page)
    <2> DEFINE e == SyncComplete(s.through)
               Q == K \o (<<e>> \o D)
    <2>1. t.outgoing = Q /\ t.deferred = <<>>
      BY <1>1, <1>11 DEF Caught, Sessions, K, f
    <2>2. e.type = "sync_complete" /\ ~Starts(e) /\ ~Answer(e) /\ Brings(e) = {} /\ e \in S
      <3>1. s.through \in 0 .. n
        BY <1>1 DEF SessionsOf, Sessions
      <3>2. e \in S
        BY <3>1, FramesTyped
      <3> QED BY <3>2 DEF SyncComplete, Starts, Answer, Brings
    <2>2a. K \in Seq(S) /\ D \in Seq(S)
      BY <1>1, <1>8
    <2> HIDE DEF e, S, D
    <2>3a. /\ \A x, k : Replaced(x, K, k) => Replaced(x, Q, k)
           /\ \A x : \A k \in 0 .. Len(K) : Replaced(x, D, 0) => Replaced(x, Q, k)
           /\ \A j \in DOMAIN D : \A x : Replaced(x, D, j) => Replaced(x, Q, Len(K) + 1 + j)
      BY <2>2, <2>2a, JoinedTrue
    <2>3. /\ Len(K) \in Nat /\ DOMAIN K = 1 .. Len(K)
          /\ \A k \in DOMAIN K : Q[k] = K[k]
      BY <2>2, <2>2a, JoinedTrue
    <2>3b. \A k \in DOMAIN Q :
              \/ k \in DOMAIN K \/ Q[k] = e
              \/ \E j \in DOMAIN D : k = Len(K) + 1 + j /\ Q[k] = D[j]
      BY <2>2, <2>2a, JoinedTrue
    <2> USE DEF D
    <2> HIDE DEF Q
    <2>4. \A k \in DOMAIN Q : ~Answer(Q[k]) /\ ~Starts(Q[k]) /\ Q[k].type # "history_cleared"
      BY <1>4, <1>9, <2>2, <2>3, <2>3b
    <2>5. ~Overtaken(Q, 0) /\ \A k \in DOMAIN K : ~Overtaken(K, k)
      BY <1>9, <2>4 DEF Overtaken
    <2>6. Answers(Q, At(p, Q)) /\ Floors(Q, p)
      BY <2>4 DEF Answers, Floors
    <2>7. At(p, Q) = p.cursor
      BY <2>5 DEF At
    <2>8. ASSUME NEW x, NEW k \in 0 .. Len(K), Rightful(x, rows, u, k)
          PROVE  Rightful(x, rows, t, k)
      BY <1>5, <2>1, <2>3a, <2>8 DEF Rightful
    <2>9. \A x \in p.copy : Rightful(x, rows, t, 0)
      <3>1. 0 \in 0 .. Len(K) /\ ~Overtaken(u.outgoing, 0)
        BY <1>5, <1>9, <2>3 DEF Overtaken
      <3> QED BY <1>7, <2>8, <3>1 DEF Truthful
    <2>10. ASSUME NEW k \in DOMAIN Q, NEW x \in Brings(Q[k])
           PROVE  Rightful(x, rows, t, k)
      <3>1. CASE k \in DOMAIN K
        <4>1. k \in 0 .. Len(K)
          BY <2>3, <3>1
        <4> QED BY <1>5, <1>7, <2>3, <2>5, <2>8, <2>10, <3>1, <4>1 DEF Truthful
      <3>2. CASE Q[k] = e
        BY <2>2, <2>10, <3>2
      <3>3. CASE \E j \in DOMAIN D : k = Len(K) + 1 + j /\ Q[k] = D[j]
        <4>1. PICK j \in DOMAIN D : k = Len(K) + 1 + j /\ Q[k] = D[j]
          BY <3>3
        <4>2. x \in rows \/ Replaced(x, D, j)
          BY <1>5, <1>7, <2>10, <4>1 DEF Truthful
        <4> QED BY <2>1, <2>3, <2>3a, <4>1, <4>2 DEF Rightful
      <3> QED BY <2>3b, <3>1, <3>2, <3>3
    <2>11. DOMAIN t.deferred = {}
      BY <2>1
    <2>12. Truthful(rows, t, p)
      BY <2>1, <2>9, <2>10, <2>11 DEF Truthful
    <2> QED BY <1>4, <2>1, <2>5, <2>6, <2>7, <2>12 DEF Feeds
  <1> QED BY <1>10, <1>11

\* A client that is told of a cleanup starts over.
LEMMA StartFeeds ==
    ASSUME NEW n \in Nat, NEW s \in SessionsOf(n), NEW p, NEW rows, NEW inst, NEW users, NEW t,
           StartsOver(t, s, inst, users), Feeds(n, rows, s, p),
           HistoryCleared(inst) \in SoundFrames(n), Presence(users) \in SoundFrames(n)
    PROVE  Feeds(n, {}, t, p)
  <1>1. /\ Ordered(t, 0) /\ \A new : Ids(new) = {} => Owed(new, t, 0)
        /\ Overtaken(t.outgoing, 0)
        /\ \A k \in DOMAIN t.outgoing :
              \/ Overtaken(t.outgoing, k)
              \/ t.outgoing[k].type \in {"history_cleared", "presence"}
    <2>1. Ordered(s, At(p, s.outgoing))
      BY DEF Feeds
    <2> QED BY <2>1, StartKeeps
  <1>2. At(p, t.outgoing) = 0 /\ Ids({}) = {}
    BY <1>1 DEF At, Ids
  <1>3. \A k \in DOMAIN t.outgoing : ~Overtaken(t.outgoing, k) =>
           Brings(t.outgoing[k]) = {} /\ ~Answer(t.outgoing[k]) /\ ~Starts(t.outgoing[k])
    BY <1>1 DEF Brings, Answer, Starts
  <1>4. Answers(t.outgoing, 0) /\ Floors(t.outgoing, p)
    BY <1>3 DEF Answers, Floors
  <1>5. t.deferred = <<>> /\ DOMAIN t.deferred = {}
    BY DEF StartsOver, SessionsOf, Sessions
  <1>6. Truthful({}, t, p)
    BY <1>1, <1>3, <1>5 DEF Truthful
  <1> QED BY <1>1, <1>2, <1>4, <1>6 DEF Feeds

\* Reading a frame moves the client as far as the messages it carries.
LEMMA ReadMoves ==
    ASSUME NEW n \in Nat, NEW s \in SessionsOf(n), s.outgoing # <<>>, NEW p, NEW rows,
           Feeds(n, rows, s, p)
    PROVE  LET h == Head(s.outgoing)
               q == Apply(p, h)
               b == At(p, s.outgoing)
               a == At(q, Tail(s.outgoing))
           IN  /\ q \in Peers(n)
               /\ a \in Nat /\ b \in Nat /\ b <= a
               /\ \/ a = b
                  \/ /\ ~Overtaken(s.outgoing, 1) /\ a \in Tops(h) /\ a \in Ids(Carries(h))
                     /\ h.type \in {"sync", "history", "message"}
               /\ ~Overtaken(s.outgoing, 1) => \A x \in Ids(Carries(h)) : x <= a
               /\ (~Overtaken(s.outgoing, 1) /\ h.type # "history_cleared") =>
                     /\ b = p.cursor /\ a = q.cursor /\ q.floor = p.floor
                     /\ \A m \in p.copy : m.id \in Ids(q.copy)
                     /\ \A x \in Ids(Carries(h)) : x \in Ids(q.copy)
                     /\ \A m \in q.copy : m \in Brings(h) \/ m \in p.copy
                     /\ h.type = "recalled" =>
                           \A m \in q.copy : m.id = h.message.id => m \in Brings(h)
  <1> DEFINE S == SoundFrames(n)
             H == s.outgoing
             h == Head(H)
             T == Tail(H)
             q == Apply(p, h)
             b == At(p, H)
             a == At(q, T)
  <1>1. H \in Seq(S) /\ p \in Peers(n)
    BY DEF SessionsOf, Feeds
  <1>2. /\ h \in S /\ h = H[1] /\ 1 \in DOMAIN H
        /\ Overtaken(T, 0) <=> Overtaken(H, 1)
        /\ Overtaken(H, 0) <=> Overtaken(H, 1) \/ h.type = "history_cleared"
    BY <1>1, OneLess
  <1>3. /\ Brings(h) \in SUBSET Row /\ Ids(Brings(h)) \in SUBSET (0 .. n)
        /\ Carries(h) \subseteq Brings(h)
        /\ ~Answer(h) /\ h.type \in {"sync", "history", "message"} => Carries(h) = Brings(h)
    BY <1>2, BringsTyped
  <1>4. /\ p.copy \in SUBSET Row /\ p.floor \in Nat /\ p.cursor \in 0 .. n
        /\ p.users \in SUBSET Name /\ p.more \in BOOLEAN /\ \A m \in p.copy : m.id <= p.cursor
    BY <1>1 DEF Peers
  <1> DEFINE U == Upto(p.cursor, Brings(h))
             N == {m \in p.copy : m.id \notin Ids(Brings(h))} \cup Brings(h)
  <1>5. /\ U \in 0 .. n /\ p.cursor <= U
        /\ \A x \in Ids(Brings(h)) : x <= U
        /\ U = p.cursor \/ U \in Ids(Brings(h))
    BY <1>3, <1>4, UptoFacts
  <1>6. h \in Frames
    BY <1>2 DEF SoundFrames
  <1>7. h.type \in {"sync", "history", "message", "ack"} =>
           /\ q.copy = N /\ q.cursor = U /\ q.floor = p.floor /\ q.users = p.users
           /\ q.more = IF h.type = "sync" THEN h.hasMore ELSE p.more
    BY <1>1, <1>6, ApplyFacts
  <1>8. h.type = "recalled" /\ h.message.id \in Ids(p.copy) =>
           /\ q.copy = N /\ q.cursor = U /\ q.floor = p.floor /\ q.users = p.users /\ q.more = p.more
    BY <1>1, <1>6, ApplyFacts
  <1>9. /\ h.type = "recalled" /\ h.message.id \notin Ids(p.copy) => q = p
        /\ h.type = "history_cleared" =>
              q.copy = {} /\ q.floor = 0 /\ q.cursor = 0 /\ q.more = FALSE /\ q.users = p.users
    BY <1>1, <1>6, ApplyFacts
  <1>10. h.type \in {"sync_complete", "error", "welcome", "presence"} =>
           /\ q.copy = p.copy /\ q.floor = p.floor /\ q.cursor = p.cursor
           /\ q.users = IF h.type \in {"welcome", "presence"} THEN h.users ELSE p.users
           /\ q.more = IF h.type = "sync_complete" THEN FALSE ELSE p.more
    BY <1>1, <1>6, ApplyFacts
  <1>11. q = [copy |-> q.copy, floor |-> q.floor, cursor |-> q.cursor,
              users |-> q.users, more |-> q.more]
    BY <1>1, <1>6, ApplyFacts
  <1>12. h.type \in {"welcome", "history", "sync", "sync_complete", "message", "ack", "recalled",
                     "history_cleared", "presence", "error"}
         /\ (h.type \in {"welcome", "presence"} => h.users \in SUBSET Name)
         /\ (h.type = "sync" => h.hasMore \in BOOLEAN)
    BY <1>6 DEF Frames
  <1> HIDE DEF q, U, N, h, H, T, S
  <1>13. /\ N \in SUBSET Row /\ \A m \in N : m.id <= U
         /\ \A m \in p.copy : m.id \in Ids(N)
         /\ \A x \in Ids(Brings(h)) : x \in Ids(N)
         /\ \A m \in N : m \in Brings(h) \/ (m \in p.copy /\ m.id \notin Ids(Brings(h)))
    <2>1. N \in SUBSET Row /\ \A m \in N : m \in Brings(h) \/ (m \in p.copy /\ m.id \notin Ids(Brings(h)))
      BY <1>3, <1>4 DEF N
    <2>2. ASSUME NEW m \in N PROVE m.id <= U
      <3>1. CASE m \in Brings(h)
        BY <1>5, <3>1 DEF Ids
      <3>2. CASE m \in p.copy
        <4>1. m.id \in Nat /\ m.id <= p.cursor
          BY <1>4, <3>2 DEF Row
        <4> QED BY <1>4, <1>5, <4>1
      <3> QED BY <2>1, <3>1, <3>2
    <2>3. \A x \in Ids(Brings(h)) : x \in Ids(N)
      BY DEF N, Ids
    <2>4. \A m \in p.copy : m.id \in Ids(N)
      BY <2>3 DEF N, Ids
    <2> QED BY <2>1, <2>2, <2>3, <2>4
  <1>14. q \in Peers(n)
    <2>1. /\ q.copy \in SUBSET Row /\ q.floor \in Nat /\ q.cursor \in 0 .. n
          /\ q.users \in SUBSET Name /\ q.more \in BOOLEAN
          /\ \A m \in q.copy : m.id <= q.cursor
      <3>1. CASE h.type \in {"sync", "history", "message", "ack"}
        BY <1>4, <1>5, <1>7, <1>12, <1>13, <3>1
      <3>2. CASE h.type = "recalled" /\ h.message.id \in Ids(p.copy)
        BY <1>4, <1>5, <1>8, <1>13, <3>2
      <3>3. CASE h.type = "recalled" /\ h.message.id \notin Ids(p.copy)
        BY <1>4, <1>9, <3>3
      <3>4. CASE h.type = "history_cleared"
        <4>1. q.copy = {} /\ q.floor = 0 /\ q.cursor = 0 /\ q.more = FALSE /\ q.users = p.users
          BY <1>9, <3>4
        <4>2. 0 \in 0 .. n /\ 0 \in Nat
          OBVIOUS
        <4> QED BY <1>4, <4>1, <4>2
      <3>5. CASE h.type \in {"sync_complete", "error", "welcome", "presence"}
        BY <1>4, <1>10, <1>12, <3>5
      <3> QED BY <1>12, <3>1, <3>2, <3>3, <3>4, <3>5
    <2> QED BY <1>11, <2>1 DEF Peers
  <1>15. a \in Nat /\ b \in Nat
    <2>1. q.cursor \in Nat /\ p.cursor \in Nat
      BY <1>4, <1>14 DEF Peers
    <2> QED BY <2>1 DEF At
  <1>16. CASE Overtaken(H, 1)
    <2>1. a = 0 /\ b = 0
      BY <1>2, <1>16 DEF At
    <2> QED BY <1>14, <1>16, <2>1 DEF h, H, T, q
  <1>17. CASE ~Overtaken(H, 1) /\ h.type = "history_cleared"
    <2>1. a = 0 /\ b = 0 /\ Carries(h) = {}
      BY <1>2, <1>9, <1>17 DEF At, Carries
    <2>2. Ids(Carries(h)) = {}
      BY <2>1 DEF Ids
    <2> QED BY <1>14, <1>17, <2>1, <2>2 DEF h, H, T, q
  <1>18. CASE ~Overtaken(H, 1) /\ h.type # "history_cleared"
    <2>1. b = p.cursor /\ a = q.cursor
      BY <1>2, <1>18 DEF At
    <2>2. CASE h.type \in {"sync", "history", "message", "ack"}
      <3>1. q.copy = N /\ a = U /\ q.floor = p.floor
        BY <1>7, <2>1, <2>2
      <3>2. \A x \in Ids(Carries(h)) : x \in Ids(Brings(h))
        BY <1>3 DEF Ids
      <3>3. CASE ~Answer(h)
        <4>1. h.type \in {"sync", "history", "message"} /\ Carries(h) = Brings(h)
          BY <1>3, <2>2, <3>3 DEF Answer
        <4>2. a = b \/ (a \in Tops(h) /\ a \in Ids(Carries(h)) /\ h.type \in {"sync", "history", "message"})
          BY <1>5, <2>1, <3>1, <4>1 DEF Tops
        <4> QED BY <1>5, <1>13, <1>14, <1>15, <1>18, <2>1, <2>2, <3>1, <3>2, <4>2 DEF h, H, T, q
      <3>4. CASE Answer(h)
        <4>1. \A y \in Ids(Brings(h)) : y <= b
          <5>1. \A j \in DOMAIN H : ~(j < 1)
            <6>1. DOMAIN H = 1 .. Len(H) /\ Len(H) \in Nat
              BY <1>1, LenProperties
            <6> QED BY <6>1
          <5>2. Answers(H, b)
            BY DEF Feeds, H
          <5> QED BY <1>2, <1>18, <3>4, <5>1, <5>2 DEF Answers
        <4>2. a = b
          BY <1>4, <1>5, <2>1, <3>1, <4>1
        <4> QED BY <1>5, <1>13, <1>14, <1>15, <1>18, <2>1, <2>2, <3>1, <3>2, <4>2 DEF h, H, T, q
      <3> QED BY <3>3, <3>4
    <2>3. CASE h.type = "recalled" /\ h.message.id \in Ids(p.copy)
      <3>1. q.copy = N /\ a = U /\ q.floor = p.floor
        BY <1>8, <2>1, <2>3
      <3>2. Brings(h) = {h.message} /\ Carries(h) = {}
        BY <2>3 DEF Brings, Carries
      <3>3. Ids(Brings(h)) = {h.message.id} /\ Ids(Carries(h)) = {}
        BY <3>2 DEF Ids
      <3>4. h.message.id <= p.cursor
        BY <1>4, <2>3 DEF Ids
      <3>5. a = b
        BY <1>4, <1>5, <2>1, <3>1, <3>3, <3>4
      <3>6. \A m \in N : m.id = h.message.id => m \in Brings(h)
        BY <1>13, <3>3
      <3> QED BY <1>13, <1>14, <1>15, <1>18, <2>1, <2>3, <3>1, <3>3, <3>5, <3>6 DEF h, H, T, q
    <2>4. CASE h.type = "recalled" /\ h.message.id \notin Ids(p.copy)
      <3>1. q = p /\ a = b
        BY <1>9, <2>1, <2>4
      <3>2. Carries(h) = {}
        BY <2>4 DEF Carries
      <3>3. Ids(Carries(h)) = {} /\ \A m \in p.copy : m.id # h.message.id /\ m.id \in Ids(p.copy)
        BY <2>4, <3>2 DEF Ids
      <3> QED BY <1>14, <1>15, <1>18, <2>1, <3>1, <3>3 DEF h, H, T, q
    <2>5. CASE h.type \in {"sync_complete", "error", "welcome", "presence"}
      <3>1. q.copy = p.copy /\ q.floor = p.floor /\ a = b
        BY <1>10, <2>1, <2>5
      <3>2. Carries(h) = {}
        BY <2>5 DEF Carries
      <3>3. Ids(Carries(h)) = {} /\ \A m \in p.copy : m.id \in Ids(p.copy)
        BY <3>2 DEF Ids
      <3> QED BY <1>14, <1>15, <1>18, <2>1, <2>5, <3>1, <3>3 DEF h, H, T, q
    <2> QED BY <1>12, <1>18, <2>2, <2>3, <2>4, <2>5
  <1> QED BY <1>16, <1>17, <1>18

\* The frame a client reads does what the queue promised.
LEMMA ReadFeeds ==
    ASSUME NEW n \in Nat, NEW s \in SessionsOf(n), s.outgoing # <<>>, NEW p, NEW rows,
           Ids(rows) \subseteq Nat, \A x \in Ids(rows) : 0 < x,
           Feeds(n, rows, s, p),
           NEW t, t = [s EXCEPT !.outgoing = Tail(@)]
    PROVE  Feeds(n, rows, t, Apply(p, Head(s.outgoing)))
  <1> DEFINE S == SoundFrames(n)
             H == s.outgoing
             D == s.deferred
             h == Head(H)
             T == Tail(H)
             q == Apply(p, h)
             b == At(p, H)
             a == At(q, T)
  <1>1. s \in Sessions /\ H \in Seq(S) /\ s.cursor \in Nat /\ p \in Peers(n)
    BY DEF SessionsOf, Sessions, Feeds
  <1>1a. p.cursor \in Nat /\ p.floor \in Nat
    BY <1>1 DEF Peers
  <1>2. /\ t.outgoing = T /\ t.deferred = D /\ t.syncing = s.syncing
        /\ t.cursor = s.cursor /\ t.through = s.through
    BY <1>1 DEF Sessions
  <1>3. /\ T \in Seq(S) /\ 1 \in DOMAIN H /\ h = H[1] /\ h \in S
        /\ \A k \in DOMAIN T : /\ k \in Nat /\ k + 1 \in DOMAIN H /\ T[k] = H[k + 1]
                               /\ 1 < k + 1
                               /\ Overtaken(T, k) <=> Overtaken(H, k + 1)
        /\ \A k \in DOMAIN H : k # 1 =>
              /\ 1 < k /\ k \in Nat /\ k - 1 \in DOMAIN T /\ T[k - 1] = H[k]
              /\ Overtaken(T, k - 1) <=> Overtaken(H, k)
        /\ Overtaken(T, 0) <=> Overtaken(H, 1)
        /\ Overtaken(H, 0) <=> Overtaken(H, 1) \/ h.type = "history_cleared"
    BY <1>1, OneLess
  <1>4. /\ q \in Peers(n) /\ a \in Nat /\ b \in Nat /\ b <= a
        /\ \/ a = b
           \/ /\ ~Overtaken(H, 1) /\ a \in Tops(h) /\ a \in Ids(Carries(h))
              /\ h.type \in {"sync", "history", "message"}
        /\ ~Overtaken(H, 1) => \A x \in Ids(Carries(h)) : x <= a
    BY ReadMoves
  <1>5. (~Overtaken(H, 1) /\ h.type # "history_cleared") =>
           /\ b = p.cursor /\ a = q.cursor /\ q.floor = p.floor
           /\ \A m \in p.copy : m.id \in Ids(q.copy)
           /\ \A x \in Ids(Carries(h)) : x \in Ids(q.copy)
           /\ \A m \in q.copy : m \in Brings(h) \/ m \in p.copy
           /\ h.type = "recalled" =>
                 \A m \in q.copy : m.id = h.message.id => m \in Brings(h)
    BY ReadMoves
  <1>6. h.type = "history_cleared" => q.copy = {} /\ q.floor = 0 /\ q.cursor = 0
    <2>1. h \in Frames /\ p \in Peers(n)
      BY <1>1, <1>3 DEF SoundFrames
    <2> HIDE DEF h, H, S
    <2>2. h.type = "history_cleared" =>
             q.copy = {} /\ q.floor = 0 /\ q.cursor = 0 /\ q.more = FALSE /\ q.users = p.users
      BY <2>1, ApplyFacts
    <2> QED BY <2>2
  <1>6a. Ordered(s, b) /\ Owed(rows, s, b) /\ Truthful(rows, s, p) /\ Answers(H, b) /\ Floors(H, p)
    BY DEF Feeds
  <1>6b. ~Overtaken(H, 0) => Full(rows, p)
    BY DEF Feeds
  <1> HIDE DEF q, h, T, S, a, b
  <1>7. Ordered(t, a) /\ Owed(rows, t, a)
    <2>1. a = b \/ (~Overtaken(s.outgoing, 1) /\ a \in Tops(Head(s.outgoing)))
      BY <1>4 DEF h
    <2>2. ~Overtaken(s.outgoing, 1) => \A x \in Ids(Carries(Head(s.outgoing))) : x <= a
      BY <1>4 DEF h
    <2>3. a \in Nat /\ b \in Nat /\ b <= a /\ Ordered(s, b) /\ Owed(rows, s, b)
      BY <1>4, <1>6a
    <2> HIDE DEF H, D
    <2>4. Ordered(t, a) /\ \A rs : Ids(rs) \subseteq Nat /\ Owed(rs, s, b) => Owed(rs, t, a)
      BY <2>1, <2>2, <2>3, ReadKeeps
    <2> QED BY <2>3, <2>4
  <1>8. ASSUME NEW x, NEW k, Replaced(x, H, k), k \in DOMAIN H \/ k = 0, k = 0 => h.type # "recalled" \/ h.message.id # x.id
        PROVE  k = 0 => Replaced(x, T, 0)
    <2> SUFFICES ASSUME k = 0 PROVE Replaced(x, T, 0)
      OBVIOUS
    <2>1. PICK j \in DOMAIN H : H[j].type = "recalled" /\ H[j].message.id = x.id
      BY <1>8 DEF Replaced
    <2>2. j # 1
      BY <1>3, <1>8, <2>1
    <2>3. j - 1 \in DOMAIN T /\ T[j - 1] = H[j] /\ j - 1 > 0
      BY <1>3, <2>2
    <2> QED BY <2>1, <2>3 DEF Replaced
  <1>9. ASSUME NEW x, NEW k \in Nat, Replaced(x, H, k + 1) PROVE Replaced(x, T, k)
    <2>1. PICK j \in DOMAIN H : j > k + 1 /\ H[j].type = "recalled" /\ H[j].message.id = x.id
      BY <1>9 DEF Replaced
    <2>2. j # 1
      BY <2>1
    <2>3. j - 1 \in DOMAIN T /\ T[j - 1] = H[j] /\ j - 1 > k
      BY <1>3, <2>1, <2>2
    <2> QED BY <2>1, <2>3 DEF Replaced
  <1>10. ASSUME NEW x, NEW k \in Nat, Rightful(x, rows, s, k + 1) PROVE Rightful(x, rows, t, k)
    BY <1>2, <1>9, <1>10 DEF Rightful
  <1>11. ASSUME ~Overtaken(T, 0), NEW x \in q.copy PROVE Rightful(x, rows, t, 0)
    <2>1. h.type # "history_cleared" /\ ~Overtaken(H, 1)
      BY <1>3, <1>6, <1>11
    <2>2. ~Overtaken(H, 0)
      BY <1>3, <2>1
    <2>3. CASE x \in Brings(h)
      <3>1. Rightful(x, rows, s, 1)
        BY <1>3, <1>6a, <2>1, <2>3 DEF Truthful
      <3>2. 0 \in Nat /\ 0 + 1 = 1
        OBVIOUS
      <3> QED BY <1>10, <3>1, <3>2
    <2>4. CASE x \in p.copy /\ x \notin Brings(h)
      <3>1. Rightful(x, rows, s, 0)
        BY <1>6a, <2>2, <2>4 DEF Truthful
      <3>2. h.type # "recalled" \/ h.message.id # x.id
        BY <1>5, <1>11, <2>1, <2>4
      <3>3. Replaced(x, H, 0) => Replaced(x, T, 0)
        BY <1>8, <3>2
      <3> QED BY <1>2, <3>1, <3>3 DEF Rightful
    <2> QED BY <1>5, <1>11, <2>1, <2>3, <2>4
  <1>12. ASSUME NEW k \in DOMAIN T, ~Overtaken(T, k), NEW x \in Brings(T[k])
         PROVE  Rightful(x, rows, t, k)
    <2>1. k \in Nat /\ k + 1 \in DOMAIN H /\ T[k] = H[k + 1] /\ ~Overtaken(H, k + 1)
      BY <1>3, <1>12
    <2>2. Rightful(x, rows, s, k + 1)
      BY <1>6a, <1>12, <2>1 DEF Truthful
    <2> QED BY <1>10, <2>1, <2>2
  <1>13. Truthful(rows, t, q)
    <2>1. \A k \in DOMAIN t.deferred : \A x \in Brings(t.deferred[k]) :
             x \in rows \/ Replaced(x, t.deferred, k)
      BY <1>2, <1>6a DEF Truthful
    <2> QED BY <1>2, <1>11, <1>12, <2>1 DEF Truthful
  <1>14. Answers(T, a)
    <2> SUFFICES ASSUME NEW k \in DOMAIN T, ~Overtaken(T, k), Answer(T[k]), NEW y \in Ids(Brings(T[k]))
                 PROVE  \/ y <= a
                        \/ \E j \in DOMAIN T : /\ j < k /\ ~Overtaken(T, j)
                                               /\ \E x \in Ids(Carries(T[j])) : y <= x
      BY DEF Answers
    <2>1. k \in Nat /\ k + 1 \in DOMAIN H /\ T[k] = H[k + 1] /\ ~Overtaken(H, k + 1)
      BY <1>3
    <2>2. \/ y <= b
          \/ \E j \in DOMAIN H : /\ j < k + 1 /\ ~Overtaken(H, j)
                                 /\ \E x \in Ids(Carries(H[j])) : y <= x
      BY <1>6a, <2>1 DEF Answers
    <2>3. y \in Nat
      <3>1. T[k] \in SoundFrames(n)
        BY <1>3, <1>1, ElementOfSeq, LenProperties DEF S
      <3>2. Ids(Brings(T[k])) \in SUBSET (0 .. n)
        BY <3>1, BringsTyped
      <3> QED BY <3>2
    <2>4. CASE y <= b
      BY <1>4, <2>3, <2>4
    <2>5. ASSUME NEW j \in DOMAIN H, j < k + 1, ~Overtaken(H, j), NEW x \in Ids(Carries(H[j])), y <= x
          PROVE  \/ y <= a
                 \/ \E i \in DOMAIN T : /\ i < k /\ ~Overtaken(T, i)
                                        /\ \E z \in Ids(Carries(T[i])) : y <= z
      <3>1. CASE j = 1
        <4>1. x <= a /\ x \in Nat
          <5>1. x \in Ids(Carries(h)) /\ ~Overtaken(H, 1)
            BY <1>3, <2>5, <3>1
          <5>2. Ids(Carries(h)) \in SUBSET (0 .. n)
            BY <1>3, FrameIds DEF S
          <5> QED BY <1>4, <5>1, <5>2
        <4> QED BY <1>4, <2>3, <2>5, <4>1
      <3>2. CASE j # 1
        <4>1. j - 1 \in DOMAIN T /\ T[j - 1] = H[j] /\ ~Overtaken(T, j - 1) /\ j - 1 < k
          BY <1>3, <2>1, <2>5, <3>2
        <4> QED BY <2>5, <4>1
      <3> QED BY <3>1, <3>2
    <2> QED BY <2>2, <2>4, <2>5
  <1>15. Floors(T, q)
    <2> SUFFICES ASSUME NEW k \in DOMAIN T, Starts(T[k]), ~Overtaken(T, k)
                 PROVE  /\ \E m \in T[k].messages : m.id <= q.floor + 1
                        /\ \A l \in DOMAIN T : l < k => T[l].type # "history_cleared"
      BY DEF Floors
    <2>1. k \in Nat /\ k + 1 \in DOMAIN H /\ T[k] = H[k + 1] /\ ~Overtaken(H, k + 1) /\ 1 < k + 1
      BY <1>3
    <2>2. /\ \E m \in H[k + 1].messages : m.id <= p.floor + 1
          /\ \A l \in DOMAIN H : l < k + 1 => H[l].type # "history_cleared"
      BY <1>6a, <2>1 DEF Floors
    <2>3. h.type # "history_cleared"
      BY <1>3, <2>1, <2>2
    <2>4. ~Overtaken(H, 1)
      <3>1. ASSUME NEW l \in DOMAIN H, l > 1, H[l].type = "history_cleared" PROVE FALSE
        <4>1. l \in Nat
          BY <1>3, <3>1
        <4>2. ~(l < k + 1) /\ ~(l > k + 1)
          BY <2>1, <2>2, <3>1 DEF Overtaken
        <4>3. l = k + 1
          BY <2>1, <4>1, <4>2
        <4> QED BY <2>1, <3>1, <4>3 DEF Starts
      <3> QED BY <3>1 DEF Overtaken
    <2>5. q.floor = p.floor
      BY <1>5, <2>3, <2>4
    <2>6. \A l \in DOMAIN T : l < k => T[l].type # "history_cleared"
      BY <1>3, <2>1, <2>2
    <2> QED BY <2>1, <2>2, <2>5, <2>6
  <1>16. ASSUME ~Overtaken(T, 0), NEW x \in Ids(rows), q.floor < x, x <= q.cursor
         PROVE  x \in Ids(q.copy)
    <2>1. ~Overtaken(H, 1) /\ x \in Nat /\ 0 < x
      BY <1>3, <1>16
    <2>2. h.type # "history_cleared"
      <3>1. h.type = "history_cleared" => q.cursor = 0
        BY <1>6
      <3>2. q.cursor = 0 => ~(x <= q.cursor)
        BY <2>1
      <3> QED BY <1>16, <3>1, <3>2
    <2>3. /\ b = p.cursor /\ a = q.cursor /\ q.floor = p.floor
          /\ \A m \in p.copy : m.id \in Ids(q.copy)
          /\ \A y \in Ids(Carries(h)) : y \in Ids(q.copy)
      BY <1>5, <2>1, <2>2
    <2>4. CASE x <= b
      <3>1. x \in Ids(p.copy)
        BY <1>3, <1>6b, <1>16, <2>1, <2>2, <2>3, <2>4 DEF Full
      <3> QED BY <2>3, <3>1 DEF Ids
    <2>5. CASE ~(x <= b)
      <3>1. b < x /\ x <= a /\ a # b
        BY <1>4, <1>16, <2>1, <2>3, <2>5
      <3>2. a \in Tops(h) /\ a \in Ids(Carries(h)) /\ h.type \in {"sync", "history", "message"}
        BY <1>4, <3>1
      <3>3. Due(s, x)
        BY <1>6a, <3>1 DEF Owed
      <3>4. CASE Reached(H, x)
        <4>1. PICK k \in DOMAIN H : ~Overtaken(H, k) /\ Reaches(H[k], x)
          BY <3>4 DEF Reached
        <4>2. CASE x \in Ids(Carries(H[k])) /\ k = 1
          BY <1>3, <2>3, <4>2
        <4>3. CASE x \in Ids(Carries(H[k])) /\ k # 1
          <5>1. a < x
            BY <1>3, <1>6a, <2>1, <3>2, <4>3 DEF Ordered, Rising
          <5> QED BY <1>4, <2>1, <3>1, <5>1
        <4>4. CASE Starts(H[k]) /\ \A m \in H[k].messages : x < m.id
          <5>1. PICK m \in H[k].messages : m.id <= p.floor + 1
            BY <1>6a, <4>1, <4>4 DEF Floors
          <5>2. x < m.id
            BY <4>4, <5>1
          <5>3. m.id \in Nat
            <6>1. H[k] \in SoundFrames(n)
              BY <1>1, ElementOfSeq, LenProperties DEF S
            <6>2. H[k].messages \in SUBSET Row
              BY <4>4, <6>1, FrameIds
            <6> QED BY <5>1, <6>2 DEF Row
          <5>4. x <= p.floor
            BY <1>1a, <2>1, <5>1, <5>2, <5>3
          <5>5. FALSE
            BY <1>1a, <1>16, <2>1, <2>3, <5>4
          <5> QED BY <5>5
        <4> QED BY <4>1, <4>2, <4>3, <4>4 DEF Reaches
      <3>5. CASE s.syncing /\ (Reached(D, x) \/ s.cursor < x)
        <4>1. CatchingUp(s, b) /\ s.through \in Nat
          BY <1>1, <1>6a, <3>5 DEF Ordered, Sessions
        <4>2. a <= s.cursor /\ s.cursor <= s.through
          BY <1>3, <3>2, <4>1 DEF CatchingUp
        <4>3. ~(s.cursor < x)
          BY <1>1, <1>4, <2>1, <3>1, <4>2
        <4>4. PICK k \in DOMAIN D : ~Overtaken(D, k) /\ Reaches(D[k], x)
          BY <3>5, <4>3 DEF Reached
        <4>5. ~Starts(D[k])
          BY <4>1, CatchingUpFeeds
        <4>6. s.through < x
          BY <4>1, <4>4, <4>5 DEF Reaches, CatchingUp, Above
        <4> QED BY <1>1, <2>1, <4>1, <4>2, <4>3, <4>6
      <3>6. ~s.syncing => D = <<>> /\ DOMAIN D = {}
        BY <1>6a DEF Ordered
      <3>7. ~s.syncing => ~Reached(D, x)
        BY <3>6 DEF Reached
      <3> QED BY <3>3, <3>4, <3>5, <3>7 DEF Due
    <2> QED BY <2>4, <2>5
  <1>17. ~Overtaken(T, 0) => Full(rows, q)
    BY <1>16 DEF Full
  <1> QED BY <1>2, <1>4, <1>7, <1>13, <1>14, <1>15, <1>17 DEF Feeds, q, h, a

-----------------------------------------------------------------------------
(* The last word on who is present, and on the catching up                 *)

\* The last word of two queues is that of the second, if it has one.
LEMMA LastAppends ==
    ASSUME NEW S, NEW H \in Seq(S), NEW P \in Seq(S), NEW types
    PROVE  LET G == H \o P
           IN  /\ \A f : LastOf(P, types, f) => LastOf(G, types, f)
               /\ \A f : Without(P, types) /\ LastOf(H, types, f) => LastOf(G, types, f)
               /\ Without(H, types) /\ Without(P, types) => Without(G, types)
  <1> DEFINE G == H \o P
             h == Len(H)
  <1>1. /\ h \in Nat /\ Len(P) \in Nat /\ Len(G) = h + Len(P)
        /\ DOMAIN H = 1 .. h /\ DOMAIN P = 1 .. Len(P) /\ DOMAIN G = 1 .. (h + Len(P))
    BY ConcatProperties, LenProperties
  <1>2. \A k \in DOMAIN G : G[k] = IF k <= h THEN H[k] ELSE P[k - h]
    BY ConcatProperties
  <1> HIDE DEF G, h
  <1>3. \A k \in DOMAIN H : k \in DOMAIN G /\ G[k] = H[k]
    BY <1>1, <1>2
  <1>4. \A j \in DOMAIN P : h + j \in DOMAIN G /\ G[h + j] = P[j]
    BY <1>1, <1>2
  <1>5. \A k \in DOMAIN G : k \in DOMAIN H \/ (k > h /\ k - h \in DOMAIN P /\ G[k] = P[k - h])
    BY <1>1, <1>2
  <1>6. ASSUME NEW f, LastOf(P, types, f) PROVE LastOf(G, types, f)
    <2>1. PICK j \in DOMAIN P : /\ P[j] = f /\ f.type \in types
                                /\ \A l \in DOMAIN P : l > j => P[l].type \notin types
      BY <1>6 DEF LastOf
    <2>2. h + j \in DOMAIN G /\ G[h + j] = f
      BY <1>4, <2>1
    <2>3. ASSUME NEW l \in DOMAIN G, l > h + j PROVE G[l].type \notin types
      <3>1. l \notin DOMAIN H
        BY <1>1, <2>3
      <3>2. l - h \in DOMAIN P /\ G[l] = P[l - h]
        BY <1>5, <3>1
      <3>3. l - h > j
        BY <1>1, <2>3
      <3> QED BY <2>1, <3>2, <3>3
    <2> QED BY <2>1, <2>2, <2>3 DEF LastOf
  <1>7. ASSUME NEW f, Without(P, types), LastOf(H, types, f) PROVE LastOf(G, types, f)
    <2>1. PICK k \in DOMAIN H : /\ H[k] = f /\ f.type \in types
                                /\ \A l \in DOMAIN H : l > k => H[l].type \notin types
      BY <1>7 DEF LastOf
    <2>2. \A l \in DOMAIN G : l > k => G[l].type \notin types
      BY <1>3, <1>5, <1>7, <2>1 DEF Without
    <2> QED BY <1>3, <2>1, <2>2 DEF LastOf
  <1>8. Without(H, types) /\ Without(P, types) => Without(G, types)
    BY <1>3, <1>5 DEF Without
  <1> QED BY <1>6, <1>7, <1>8 DEF G

\* The last word of one frame.
LEMMA LastOfOne ==
    ASSUME NEW S, NEW f \in S, NEW types
    PROVE  /\ <<f>> \in Seq(S)
           /\ f.type \in types => LastOf(<<f>>, types, f)
           /\ f.type \notin types => Without(<<f>>, types)
  <1>1. <<f>> \in Seq(S) /\ DOMAIN <<f>> = {1} /\ <<f>>[1] = f
    BY OneFrame
  <1>2. ASSUME f.type \in types PROVE LastOf(<<f>>, types, f)
    <2>1. \A l \in DOMAIN <<f>> : l > 1 => <<f>>[l].type \notin types
      BY <1>1
    <2> QED BY <1>1, <1>2, <2>1 DEF LastOf
  <1>3. f.type \notin types => Without(<<f>>, types)
    BY <1>1 DEF Without
  <1> QED BY <1>1, <1>2, <1>3

\* And of a queue without its first frame.
LEMMA LastOfRest ==
    ASSUME NEW S, NEW G \in Seq(S), G # <<>>, NEW types
    PROVE  LET T == Tail(G)
               h == Head(G)
           IN  /\ \A f : LastOf(G, types, f) => \/ LastOf(T, types, f)
                                                \/ f = h /\ h.type \in types /\ Without(T, types)
               /\ Without(G, types) => h.type \notin types /\ Without(T, types)
  <1> DEFINE T == Tail(G)
             h == Head(G)
  <1>1. /\ 1 \in DOMAIN G /\ h = G[1]
        /\ \A k \in DOMAIN T : k \in Nat /\ k + 1 \in DOMAIN G /\ T[k] = G[k + 1] /\ 1 < k + 1
        /\ \A k \in DOMAIN G : k # 1 => 1 < k /\ k \in Nat /\ k - 1 \in DOMAIN T /\ T[k - 1] = G[k]
    BY OneLess
  <1> HIDE DEF T, h
  <1>2. ASSUME NEW f, LastOf(G, types, f)
        PROVE  LastOf(T, types, f) \/ (f = h /\ h.type \in types /\ Without(T, types))
    <2>1. PICK k \in DOMAIN G : /\ G[k] = f /\ f.type \in types
                                /\ \A l \in DOMAIN G : l > k => G[l].type \notin types
      BY <1>2 DEF LastOf
    <2>2. CASE k = 1
      BY <1>1, <2>1, <2>2 DEF Without
    <2>3. CASE k # 1
      <3>1. k - 1 \in DOMAIN T /\ T[k - 1] = f /\ k \in Nat
        BY <1>1, <2>1, <2>3
      <3>2. ASSUME NEW l \in DOMAIN T, l > k - 1 PROVE T[l].type \notin types
        <4>1. l + 1 \in DOMAIN G /\ T[l] = G[l + 1] /\ l + 1 > k
          BY <1>1, <3>1, <3>2
        <4> QED BY <2>1, <4>1
      <3> QED BY <2>1, <3>1, <3>2 DEF LastOf
    <2> QED BY <2>2, <2>3
  <1>3. Without(G, types) => h.type \notin types /\ Without(T, types)
    BY <1>1 DEF Without
  <1> QED BY <1>2, <1>3 DEF T, h

\* One more frame, in the queue or held back.
LEMMA MoreTold ==
    ASSUME NEW n \in Nat, NEW s \in SessionsOf(n), NEW p, NEW f \in SoundFrames(n),
           NEW t, OneMoreIs(t, s, f)
    PROVE  /\ f.type \notin Turning /\ Agrees(s, p) => Agrees(t, p)
           /\ f.type \notin Telling => \A U : Presents(s, p, U) => Presents(t, p, U)
           /\ (f.type \in Telling /\ (t.deferred = s.deferred => s.deferred = <<>>)) =>
                 Presents(t, p, f.users)
  <1> DEFINE S == SoundFrames(n)
             H == s.outgoing
             D == s.deferred
  <1>1. H \in Seq(S) /\ D \in Seq(S) /\ t.syncing = s.syncing
    BY DEF SessionsOf, OneMoreIs
  <1> HIDE DEF S
  <1>2. f \in S
    BY DEF S
  <1>3. <<f>> \in Seq(S)
    BY <1>2, LastOfOne
  <1>4. f.type \notin Turning => Without(<<f>>, Turning)
    BY <1>2, LastOfOne
  <1>5. f.type \in Telling => LastOf(<<f>>, Telling, f)
    BY <1>2, LastOfOne
  <1>6. f.type \notin Telling => Without(<<f>>, Telling)
    BY <1>2, LastOfOne
  <1>7. ASSUME f.type \notin Turning, Agrees(s, p) PROVE Agrees(t, p)
    <2>1. /\ \A g : LastOf(H, Turning, g) => LastOf(H \o <<f>>, Turning, g)
          /\ Without(H, Turning) => Without(H \o <<f>>, Turning)
      BY <1>1, <1>3, <1>4, <1>7, LastAppends
    <2>2. t.outgoing = H \o <<f>> \/ t.outgoing = H
      BY DEF OneMoreIs
    <2> QED BY <1>1, <1>7, <2>1, <2>2 DEF Agrees
  <1>8. /\ \A g : Without(<<f>>, Telling) /\ LastOf(H, Telling, g) => LastOf(H \o <<f>>, Telling, g)
        /\ Without(H, Telling) /\ Without(<<f>>, Telling) => Without(H \o <<f>>, Telling)
        /\ \A g : LastOf(<<f>>, Telling, g) => LastOf(H \o <<f>>, Telling, g)
    BY <1>1, <1>3, LastAppends
  <1>9. /\ \A g : Without(<<f>>, Telling) /\ LastOf(D, Telling, g) => LastOf(D \o <<f>>, Telling, g)
        /\ Without(D, Telling) /\ Without(<<f>>, Telling) => Without(D \o <<f>>, Telling)
        /\ \A g : LastOf(<<f>>, Telling, g) => LastOf(D \o <<f>>, Telling, g)
    BY <1>1, <1>3, LastAppends
  <1>10. ASSUME f.type \notin Telling, NEW U, Presents(s, p, U) PROVE Presents(t, p, U)
    <2>1. CASE t.outgoing = H \o <<f>> /\ t.deferred = D
      BY <1>6, <1>8, <1>10, <2>1 DEF Presents, Tells
    <2>2. CASE t.outgoing = H /\ t.deferred = D \o <<f>>
      BY <1>6, <1>9, <1>10, <2>2 DEF Presents, Tells
    <2> QED BY <2>1, <2>2 DEF OneMoreIs
  <1>11. ASSUME f.type \in Telling, t.deferred = s.deferred => s.deferred = <<>>
         PROVE  Presents(t, p, f.users)
    <2>1. CASE t.outgoing = H \o <<f>> /\ t.deferred = D
      <3>1. Without(t.deferred, Telling)
        BY <1>11, <2>1 DEF Without
      <3>2. LastOf(t.outgoing, Telling, f)
        BY <1>5, <1>8, <1>11, <2>1
      <3> QED BY <3>1, <3>2 DEF Presents, Tells
    <2>2. CASE t.outgoing = H /\ t.deferred = D \o <<f>>
      <3>1. LastOf(t.deferred, Telling, f)
        BY <1>5, <1>9, <1>11, <2>2
      <3> QED BY <3>1 DEF Presents, Tells
    <2> QED BY <2>1, <2>2 DEF OneMoreIs
  <1> QED BY <1>7, <1>10, <1>11

\* A page of the catching up says whether another one follows.
LEMMA PageTold ==
    ASSUME NEW n \in Nat, NEW s \in SessionsOf(n), NEW p, NEW b,
           s.syncing, CatchingUp(s, b), NEW page,
           PageFrame("sync", "next", page) \in SoundFrames(n), NEW t,
           (Paged(t, s, page) /\ page.hasMore = TRUE) \/ Caught(t, s, page)
    PROVE  Agrees(t, p) /\ \A U : Presents(s, p, U) => Presents(t, p, U)
  <1> DEFINE S == SoundFrames(n)
             H == s.outgoing
             D == s.deferred
             pg == PageFrame("sync", "next", page)
             sc == SyncComplete(s.through)
  <1>1. H \in Seq(S) /\ D \in Seq(S) /\ s.syncing = TRUE /\ s \in Sessions
    BY DEF SessionsOf, Sessions
  <1>2. s.through \in 0 .. n
    BY DEF SessionsOf, Sessions
  <1>3. pg \in S /\ sc \in S
    BY <1>2, FramesTyped
  <1>4. /\ pg.type = "sync" /\ pg.hasMore = page.hasMore /\ pg.type \in Turning
        /\ pg.type \notin Telling /\ More(pg) = page.hasMore
        /\ sc.type \in Turning /\ sc.type \notin Telling /\ More(sc) = FALSE
    BY DEF PageFrame, SyncComplete, Turning, Telling, More
  <1>5. Without(D, Turning)
    BY DEF CatchingUp, Without, Turning
  <1> HIDE DEF pg, sc, S
  <1>6. <<pg>> \in Seq(S) /\ LastOf(<<pg>>, Turning, pg) /\ Without(<<pg>>, Telling)
    BY <1>3, <1>4, LastOfOne
  <1>7. <<sc>> \in Seq(S) /\ LastOf(<<sc>>, Turning, sc) /\ Without(<<sc>>, Telling)
    BY <1>3, <1>4, LastOfOne
  <1> DEFINE K == H \o <<pg>>
             E == <<sc>> \o D
  <1>8. K \in Seq(S) /\ E \in Seq(S)
    BY <1>1, <1>6, <1>7, ConcatProperties
  <1>9. LastOf(K, Turning, pg)
    BY <1>1, <1>6, LastAppends
  <1>10. /\ \A g : LastOf(H, Telling, g) => LastOf(K, Telling, g)
         /\ Without(H, Telling) => Without(K, Telling)
    BY <1>1, <1>6, LastAppends
  <1>11. LastOf(E, Turning, sc)
    BY <1>1, <1>5, <1>7, LastAppends
  <1>12. /\ \A g : LastOf(D, Telling, g) => LastOf(E, Telling, g)
         /\ Without(D, Telling) => Without(E, Telling)
    BY <1>1, <1>7, LastAppends
  <1> HIDE DEF K, E, H, D
  <1>13. CASE Paged(t, s, page) /\ page.hasMore = TRUE
    <2>1. t.outgoing = K /\ t.deferred = D /\ t.syncing = TRUE
      BY <1>1, <1>13 DEF Paged, K, H, D, pg, Sessions
    <2>2. Agrees(t, p)
      BY <1>4, <1>9, <1>13, <2>1 DEF Agrees
    <2>3. ASSUME NEW U, Presents(s, p, U) PROVE Presents(t, p, U)
      BY <1>10, <2>1, <2>3 DEF Presents, Tells, H, D
    <2> QED BY <2>2, <2>3
  <1>14. CASE Caught(t, s, page)
    <2>1. t.outgoing = K \o E /\ t.deferred = <<>> /\ t.syncing = FALSE
      BY <1>1, <1>14 DEF Caught, K, E, H, D, pg, sc, Sessions
    <2>2. LastOf(K \o E, Turning, sc)
      BY <1>8, <1>11, LastAppends
    <2>3. Agrees(t, p)
      BY <1>4, <2>1, <2>2 DEF Agrees
    <2>4. /\ \A g : LastOf(E, Telling, g) => LastOf(K \o E, Telling, g)
          /\ \A g : Without(E, Telling) /\ LastOf(K, Telling, g) => LastOf(K \o E, Telling, g)
          /\ Without(K, Telling) /\ Without(E, Telling) => Without(K \o E, Telling)
      BY <1>8, LastAppends
    <2>5. Without(t.deferred, Telling)
      BY <2>1 DEF Without
    <2>6. ASSUME NEW U, Presents(s, p, U) PROVE Presents(t, p, U)
      <3>1. CASE Tells(D, U)
        BY <1>12, <2>1, <2>4, <2>5, <3>1 DEF Presents, Tells
      <3>2. CASE Without(D, Telling) /\ Tells(H, U)
        BY <1>10, <1>12, <2>1, <2>4, <2>5, <3>2 DEF Presents, Tells
      <3>3. CASE Without(D, Telling) /\ Without(H, Telling) /\ p.users = U
        BY <1>10, <1>12, <2>1, <2>4, <2>5, <3>3 DEF Presents, Tells
      <3> QED BY <2>6, <3>1, <3>2, <3>3 DEF Presents, H, D
    <2> QED BY <2>3, <2>6
  <1> QED BY <1>13, <1>14

\* A cleanup ends the catching up, and is followed by who is present.
LEMMA StartTold ==
    ASSUME NEW n \in Nat, NEW s \in SessionsOf(n), NEW p, NEW inst, NEW users, NEW t,
           StartsOver(t, s, inst, users),
           HistoryCleared(inst) \in SoundFrames(n), Presence(users) \in SoundFrames(n)
    PROVE  Agrees(t, p) /\ Presents(t, p, users)
  <1> DEFINE S == SoundFrames(n)
             H == s.outgoing
             hc == HistoryCleared(inst)
             pr == Presence(users)
  <1>1. H \in Seq(S) /\ s \in Sessions
    BY DEF SessionsOf
  <1>2. /\ hc.type \in Turning /\ More(hc) = FALSE
        /\ pr.type \notin Turning /\ pr.type \in Telling /\ pr.users = users
    BY DEF HistoryCleared, Presence, Turning, Telling, More
  <1> HIDE DEF hc, pr, S
  <1>3. <<hc>> \in Seq(S) /\ LastOf(<<hc>>, Turning, hc)
    BY <1>2, LastOfOne DEF S, hc
  <1>4. <<pr>> \in Seq(S) /\ LastOf(<<pr>>, Telling, pr) /\ Without(<<pr>>, Turning)
    BY <1>2, LastOfOne DEF S, pr
  <1> DEFINE K == H \o <<hc>>
  <1>5. K \in Seq(S) /\ LastOf(K, Turning, hc)
    BY <1>1, <1>3, LastAppends, ConcatProperties
  <1> HIDE DEF K
  <1>6. LastOf(K \o <<pr>>, Turning, hc) /\ LastOf(K \o <<pr>>, Telling, pr)
    BY <1>4, <1>5, LastAppends
  <1>7. t.outgoing = K \o <<pr>> /\ t.deferred = <<>> /\ t.syncing = FALSE
    BY <1>1 DEF StartsOver, K, H, hc, pr, Sessions
  <1>8. Without(t.deferred, Telling)
    BY <1>7 DEF Without
  <1> QED BY <1>2, <1>6, <1>7, <1>8 DEF Agrees, Presents, Tells

\* What the client reads, it knows.
LEMMA ReadTold ==
    ASSUME NEW n \in Nat, NEW s \in SessionsOf(n), s.outgoing # <<>>, NEW p \in Peers(n),
           NEW t, t = [s EXCEPT !.outgoing = Tail(@)]
    PROVE  LET q == Apply(p, Head(s.outgoing))
           IN  /\ Agrees(s, p) => Agrees(t, q)
               /\ \A U : Presents(s, p, U) => Presents(t, q, U)
  <1> DEFINE S == SoundFrames(n)
             H == s.outgoing
             h == Head(H)
             T == Tail(H)
             q == Apply(p, h)
  <1>1. H \in Seq(S) /\ s \in Sessions
    BY DEF SessionsOf
  <1>2. t.outgoing = T /\ t.deferred = s.deferred /\ t.syncing = s.syncing
    BY <1>1 DEF Sessions
  <1>3. h \in Frames
    BY <1>1, OneLess DEF SoundFrames
  <1>4. /\ \A f : LastOf(H, Telling, f) => \/ LastOf(T, Telling, f)
                                           \/ f = h /\ h.type \in Telling /\ Without(T, Telling)
        /\ Without(H, Telling) => h.type \notin Telling /\ Without(T, Telling)
    BY <1>1, LastOfRest
  <1>5. /\ \A f : LastOf(H, Turning, f) => \/ LastOf(T, Turning, f)
                                           \/ f = h /\ h.type \in Turning /\ Without(T, Turning)
        /\ Without(H, Turning) => h.type \notin Turning /\ Without(T, Turning)
    BY <1>1, LastOfRest
  <1> HIDE DEF h, T
  <1>6. h.type \in {"sync", "history", "message", "ack"} =>
           /\ q.copy = {m \in p.copy : m.id \notin Ids(Brings(h))} \cup Brings(h)
           /\ q.cursor = Upto(p.cursor, Brings(h))
           /\ q.floor = p.floor /\ q.users = p.users
           /\ q.more = IF h.type = "sync" THEN h.hasMore ELSE p.more
    BY <1>3, ApplyFacts
  <1>7. h.type = "recalled" /\ h.message.id \in Ids(p.copy) =>
           /\ q.copy = {m \in p.copy : m.id \notin Ids(Brings(h))} \cup Brings(h)
           /\ q.cursor = Upto(p.cursor, Brings(h))
           /\ q.floor = p.floor /\ q.users = p.users /\ q.more = p.more
    BY <1>3, ApplyFacts
  <1>8. /\ h.type = "recalled" /\ h.message.id \notin Ids(p.copy) => q = p
        /\ h.type = "history_cleared" =>
              q.copy = {} /\ q.floor = 0 /\ q.cursor = 0 /\ q.more = FALSE /\ q.users = p.users
    BY <1>3, ApplyFacts
  <1>9. h.type \in {"sync_complete", "error", "welcome", "presence"} =>
           /\ q.copy = p.copy /\ q.floor = p.floor /\ q.cursor = p.cursor
           /\ q.users = IF h.type \in {"welcome", "presence"} THEN h.users ELSE p.users
           /\ q.more = IF h.type = "sync_complete" THEN FALSE ELSE p.more
    BY <1>3, ApplyFacts
  <1>10. h.type \in {"sync", "history", "message", "ack", "recalled", "history_cleared",
                     "sync_complete", "error", "welcome", "presence"}
    BY <1>3 DEF Frames
  <1> HIDE DEF q
  <1>11. q.users = IF h.type \in Telling THEN h.users ELSE p.users
    BY <1>6, <1>7, <1>8, <1>9, <1>10 DEF Telling
  <1>12. q.more = IF h.type \in Turning THEN More(h) ELSE p.more
    BY <1>6, <1>7, <1>8, <1>9, <1>10 DEF Turning, More
  <1>13. ASSUME Agrees(s, p) PROVE Agrees(t, q)
    <2>1. CASE \E f : LastOf(H, Turning, f) /\ More(f) = s.syncing
      BY <1>2, <1>5, <1>12, <2>1 DEF Agrees
    <2>2. CASE Without(H, Turning) /\ p.more = s.syncing
      BY <1>2, <1>5, <1>12, <2>2 DEF Agrees
    <2> QED BY <1>13, <2>1, <2>2 DEF Agrees
  <1>14. ASSUME NEW U, Presents(s, p, U) PROVE Presents(t, q, U)
    <2>1. CASE Tells(s.deferred, U)
      BY <1>2, <2>1 DEF Presents
    <2>2. CASE Without(s.deferred, Telling) /\ \E f : LastOf(H, Telling, f) /\ f.users = U
      BY <1>2, <1>4, <1>11, <2>2 DEF Presents, Tells
    <2>3. CASE Without(s.deferred, Telling) /\ Without(H, Telling) /\ p.users = U
      BY <1>2, <1>4, <1>11, <2>3 DEF Presents
    <2> QED BY <1>14, <2>1, <2>2, <2>3 DEF Presents, Tells
  <1> QED BY <1>13, <1>14 DEF q, h

\* The first frames say who is present, and whether the session is catching up.
LEMMA FreshTold ==
    ASSUME NEW r \in Room, NEW n, NEW o, NEW inst, NEW after \in Nat,
           FirstPage(r, inst, after).hasMore \in BOOLEAN,
           NEW s, Fresh(s, r, n, o, inst, after), s.live, NEW p
    PROVE  Agrees(s, p) /\ Presents(s, p, Users(sessions, r) \cup {n})
  <1> DEFINE page == FirstPage(r, inst, after)
             U == Users(sessions, r) \cup {n}
             g == Greeting(r, n, inst)
             f == FirstFrame(r, inst, after)
             e == SyncComplete(LatestID(db, r))
             G == s.outgoing
  <1>1. s.deferred = <<>> /\ s.syncing \in BOOLEAN
    BY DEF Fresh, SessionsOf, Sessions
  <1>2. g.type \in Telling /\ g.users = U /\ g.type \notin Turning
    BY DEF Greeting, Welcome, Telling, Turning
  <1>3. f.type \notin Telling /\ f.hasMore = page.hasMore
    BY DEF FirstFrame, PageFrame, Telling
  <1>4. inst = InstanceID(db, r) => f.type = "sync" /\ f.type \in Turning
    BY DEF FirstFrame, PageFrame, Turning
  <1>5. e.type \in Turning /\ e.type \notin Telling /\ More(e) = FALSE
    BY DEF SyncComplete, Telling, Turning, More
  <1>6. s.syncing = TRUE => /\ inst = InstanceID(db, r) /\ page.hasMore = TRUE /\ G = <<g, f>>
    BY DEF Fresh
  <1>7. s.syncing = FALSE => G = <<g, f, e>>
    BY DEF Fresh
  <1> HIDE DEF g, f, e, page, U
  <1>8. G = <<g, f>> => /\ DOMAIN G = 1 .. 2 /\ G[1] = g /\ G[2] = f
    OBVIOUS
  <1>9. G = <<g, f, e>> => /\ DOMAIN G = 1 .. 3 /\ G[1] = g /\ G[2] = f /\ G[3] = e
    OBVIOUS
  <1> HIDE DEF G
  <1>10. LastOf(G, Telling, g)
    <2>1. 1 \in DOMAIN G /\ G[1] = g /\ \A l \in DOMAIN G : l > 1 => G[l] = f \/ G[l] = e
      BY <1>1, <1>6, <1>7, <1>8, <1>9
    <2> QED BY <1>2, <1>3, <1>5, <2>1 DEF LastOf
  <1>11. Presents(s, p, U)
    BY <1>1, <1>2, <1>10 DEF Presents, Tells, Without, G
  <1>12. CASE s.syncing = TRUE
    <2>1. 2 \in DOMAIN G /\ G[2] = f /\ \A l \in DOMAIN G : ~(l > 2)
      BY <1>6, <1>8, <1>12
    <2>2. LastOf(G, Turning, f) /\ More(f) = s.syncing
      BY <1>3, <1>4, <1>6, <1>12, <2>1 DEF LastOf, More
    <2> QED BY <1>11, <2>2 DEF Agrees, U, G
  <1>13. CASE s.syncing = FALSE
    <2>1. 3 \in DOMAIN G /\ G[3] = e /\ \A l \in DOMAIN G : ~(l > 3)
      BY <1>7, <1>9, <1>13
    <2>2. LastOf(G, Turning, e) /\ More(e) = s.syncing
      BY <1>5, <1>13, <2>1 DEF LastOf
    <2> QED BY <1>11, <2>2 DEF Agrees, U, G
  <1> QED BY <1>1, <1>12, <1>13

\* What a client that is let in has, and what it will get, is the room's.
LEMMA FreshFeeds ==
    ASSUME ServerInv, Numbered, NEW r \in Room, NEW n, NEW o, NEW inst, NEW after \in Nat,
           ~InvalidCursor(r, inst, after),
           NEW s, Fresh(s, r, n, o, inst, after), s.live
    PROVE  Feeds(db.last, RoomRows(db, r), s, Joining(r, inst, after))
  <1> DEFINE resumed == inst = InstanceID(db, r)
             page == FirstPage(r, inst, after)
             rows == RoomRows(db, r)
             b == Start(r, inst, after)
             p == Joining(r, inst, after)
             g == Greeting(r, n, inst)
             f == FirstFrame(r, inst, after)
             e == SyncComplete(LatestID(db, r))
             G == s.outgoing
             M == Ids(page.messages)
  <1>1. /\ db.last \in Nat /\ rows \subseteq Row
        /\ \A m \in rows : m.id \in Nat /\ 0 < m.id /\ m.id <= db.last
    BY DEF ServerInv, Databases, RoomRows, Row, Numbered, RowsDrawn
  <1>2. /\ b \in 0 .. db.last /\ Ordered(s, b) /\ Owed(rows, s, b)
        /\ page.messages \subseteq rows /\ page \in Pages(db.last)
        /\ (~resumed /\ page.hasMore) => page.messages # {}
    BY FreshKeeps
  <1>3. s.deferred = <<>> /\ DOMAIN s.deferred = {}
    BY DEF Fresh
  <1>4. G = <<g, f>> \/ G = <<g, f, e>>
    BY DEF Fresh
  <1>5. M \subseteq Nat /\ \A x \in M : 0 < x
    BY <1>1, <1>2 DEF Ids
  <1>6. (~resumed /\ page.hasMore) => Min(M) \in M
    <2> SUFFICES ASSUME ~resumed, page.hasMore PROVE Min(M) \in M
      OBVIOUS
    <2>1. M # {}
      BY <1>2 DEF Ids
    <2> HIDE DEF M, resumed, page
    <2>2. \E x \in M : \A y \in M : x <= y
      BY <1>5, <2>1, NatMin
    <2> QED BY <2>2 DEF Min
  <1>7. resumed => p = [copy |-> {m \in rows : m.id <= after}, floor |-> 0, cursor |-> after,
                        users |-> {}, more |-> FALSE] /\ b = after
    BY DEF Joining, Nobody, Start
  <1>8. ~resumed => p = [copy |-> {}, floor |-> IF page.hasMore THEN Min(M) - 1 ELSE 0,
                         cursor |-> 0, users |-> {}, more |-> FALSE] /\ b = 0
    BY DEF Joining, Nobody, Start, FirstPage
  <1>9. g.type = "welcome" /\ e.type = "sync_complete"
    BY DEF Greeting, Welcome, SyncComplete
  <1>10. /\ resumed => f.type = "sync"
         /\ ~resumed => f.type = "history"
         /\ f.req = "initial" /\ f.messages = page.messages /\ f.hasMore = page.hasMore
    BY DEF FirstFrame, PageFrame
  <1> HIDE DEF g, f, e, page, rows, b, p, resumed, M
  <1>11. p.cursor = b /\ p.floor \in Nat /\ p.copy \subseteq rows
    BY <1>2, <1>5, <1>6, <1>7, <1>8
  <1>12. p \in Peers(db.last)
    <2>1. p.cursor \in 0 .. db.last /\ p.copy \in SUBSET Row
      BY <1>1, <1>2, <1>11
    <2>2. p.users \in SUBSET Name /\ p.more \in BOOLEAN /\ \A m \in p.copy : m.id <= p.cursor
      <3>1. p.users = {} /\ p.more = FALSE
        BY <1>7, <1>8
      <3>2. resumed => \A m \in p.copy : m.id <= p.cursor
        BY <1>7
      <3>3. ~resumed => p.copy = {}
        BY <1>8
      <3> QED BY <3>1, <3>2, <3>3
    <2>3. p = [copy |-> p.copy, floor |-> p.floor, cursor |-> p.cursor,
               users |-> p.users, more |-> p.more]
      <3>1. CASE resumed
        BY <1>7, <3>1
      <3>2. CASE ~resumed
        BY <1>8, <3>2
      <3> QED BY <3>1, <3>2
    <2> QED BY <1>11, <2>1, <2>2, <2>3 DEF Peers
  <1>13. \A k \in DOMAIN G : G[k] = g \/ G[k] = f \/ G[k] = e
    BY <1>4
  <1>14. \A k \in DOMAIN G : G[k].type # "history_cleared"
    BY <1>9, <1>10, <1>13
  <1>15. ~Overtaken(G, 0) /\ At(p, G) = b
    BY <1>11, <1>14 DEF Overtaken, At
  <1>16. Brings(g) = {} /\ Brings(e) = {} /\ Brings(f) = page.messages
    BY <1>9, <1>10 DEF Brings
  <1>17. Truthful(rows, s, p)
    <2>1. \A x \in p.copy : Rightful(x, rows, s, 0)
      BY <1>11 DEF Rightful
    <2>2. \A k \in DOMAIN G : \A x \in Brings(G[k]) : Rightful(x, rows, s, k)
      BY <1>2, <1>13, <1>16 DEF Rightful
    <2> QED BY <1>3, <2>1, <2>2 DEF Truthful
  <1>18. \A k \in DOMAIN G : ~Answer(G[k])
    BY <1>9, <1>10, <1>13 DEF Answer
  <1>19. Answers(G, b)
    BY <1>18 DEF Answers
  <1>20. Floors(G, p)
    <2> SUFFICES ASSUME NEW k \in DOMAIN G, Starts(G[k])
                 PROVE  \E m \in G[k].messages : m.id <= p.floor + 1
      BY <1>14 DEF Floors
    <2>1. G[k] = f /\ f.hasMore /\ ~resumed
      BY <1>9, <1>10, <1>13 DEF Starts
    <2>2. p.floor = Min(M) - 1 /\ Min(M) \in M /\ Min(M) \in Nat
      <3>1. page.hasMore
        BY <1>10, <2>1
      <3>2. p.floor = Min(M) - 1
        BY <1>8, <2>1, <3>1
      <3>3. Min(M) \in M
        BY <1>6, <2>1, <3>1
      <3> QED BY <1>5, <3>2, <3>3
    <2>3. PICK m \in page.messages : m.id = Min(M)
      BY <2>2 DEF M, Ids
    <2>4. m.id <= p.floor + 1
      BY <2>2, <2>3
    <2> QED BY <1>10, <2>1, <2>3, <2>4
  <1>21. Full(rows, p)
    <2> SUFFICES ASSUME NEW m \in rows, p.floor < m.id, m.id <= p.cursor
                 PROVE  m.id \in Ids(p.copy)
      BY DEF Full, Ids
    <2>1. CASE resumed
      BY <1>7, <2>1 DEF Ids
    <2>2. CASE ~resumed
      BY <1>1, <1>8, <2>2
    <2> QED BY <2>1, <2>2
  <1> QED BY <1>2, <1>12, <1>15, <1>17, <1>19, <1>20, <1>21 DEF Feeds, rows, p

-----------------------------------------------------------------------------
(* Each move keeps the client up to date                                   *)

\* A frame that moves no cursor, with the rows and the users it is about.
LEMMA SlipServes ==
    ASSUME NEW n \in Nat, NEW s \in SessionsOf(n), NEW p, NEW rows, NEW new,
           NEW users, NEW present,
           NEW f \in SoundFrames(n), Silent(f), f.type \notin Turning, NEW t, Slips(t, s, f),
           f.type \in Telling => f.type = "presence" /\ f.users = present,
           f.type \notin Telling => present = users,
           Ids(new) = Ids(rows),
           \A x \in rows : x \in new \/ (f.type = "recalled" /\ f.message.id = x.id),
           Brings(f) \subseteq new,
           Serves(n, rows, users, s, p),
           Answer(f) => \A y \in Ids(Brings(f)) :
              \/ y <= At(p, s.outgoing)
              \/ \E j \in DOMAIN s.outgoing : /\ ~Overtaken(s.outgoing, j)
                                              /\ \E x \in Ids(Carries(s.outgoing[j])) : y <= x
    PROVE  Serves(n, new, present, t, p)
  <1>1. Feeds(n, rows, s, p) /\ Presents(s, p, users) /\ Agrees(s, p)
    BY DEF Serves
  <1>2. Feeds(n, new, t, p)
    BY <1>1, SlipFeeds
  <1>3. s \in Sessions /\ s.deferred \in Seq(SoundFrames(n)) /\ s.syncing \in BOOLEAN
    BY DEF SessionsOf, Sessions
  <1>4. ~s.syncing => s.deferred = <<>>
    BY <1>1 DEF Feeds, Ordered
  <1>5. OneMoreIs(t, s, f)
    <2>1. CASE t = Put(s, <<f>>)
      BY <1>3, <2>1 DEF OneMoreIs, Put, Sessions
    <2>2. CASE t = [s EXCEPT !.deferred = @ \o <<f>>]
      BY <1>3, <2>2 DEF OneMoreIs, Sessions
    <2> QED BY <2>1, <2>2 DEF Slips
  <1>6. f.type \in Telling => (t.deferred = s.deferred => s.deferred = <<>>)
    <2> SUFFICES ASSUME f.type \in Telling, t.deferred = s.deferred PROVE s.deferred = <<>>
      OBVIOUS
    <2>1. f.type = "presence"
      OBVIOUS
    <2>2. CASE t = Put(s, <<f>>) /\ ~s.syncing
      BY <1>4, <2>2
    <2>3. CASE t = [s EXCEPT !.deferred = @ \o <<f>>]
      <3>1. t.deferred = s.deferred \o <<f>>
        BY <1>3, <2>3 DEF Sessions
      <3>2. Len(s.deferred \o <<f>>) = Len(s.deferred) + 1 /\ Len(s.deferred) \in Nat
        BY <1>3
      <3> QED BY <3>1, <3>2
    <2> QED BY <2>1, <2>2, <2>3 DEF Slips
  <1>7. /\ f.type \notin Turning /\ Agrees(s, p) => Agrees(t, p)
        /\ f.type \notin Telling => \A U : Presents(s, p, U) => Presents(t, p, U)
        /\ (f.type \in Telling /\ (t.deferred = s.deferred => s.deferred = <<>>)) =>
              Presents(t, p, f.users)
    BY <1>5, MoreTold
  <1>8. Presents(t, p, present)
    BY <1>1, <1>6, <1>7
  <1> QED BY <1>1, <1>2, <1>7, <1>8 DEF Serves

\* A new message.
LEMMA MessageServes ==
    ASSUME NEW n \in Nat, NEW s \in SessionsOf(n), NEW p, NEW rows, NEW users,
           NEW m \in Row, m.id = n + 1, NEW req, Message(req, m) \in SoundFrames(n + 1),
           NEW t, News(t, s, Message(req, m)), Serves(n, rows, users, s, p)
    PROVE  Serves(n + 1, rows \cup {m}, users, t, p)
  <1> DEFINE f == Message(req, m)
  <1>1. Feeds(n, rows, s, p) /\ Presents(s, p, users) /\ Agrees(s, p)
    BY DEF Serves
  <1>2. Feeds(n + 1, rows \cup {m}, t, p)
    BY <1>1, MessageFeeds
  <1>3. n + 1 \in Nat /\ n <= n + 1
    OBVIOUS
  <1>4. s \in SessionsOf(n + 1) /\ s \in Sessions
    BY <1>3, Grown DEF SessionsOf
  <1>5. f.type \notin Turning /\ f.type \notin Telling
    BY DEF Message, Turning, Telling
  <1> HIDE DEF f
  <1>6. OneMoreIs(t, s, f)
    <2>1. CASE t = Put(s, <<f>>)
      BY <1>4, <2>1 DEF OneMoreIs, Put, Sessions
    <2>2. CASE t = [s EXCEPT !.deferred = @ \o <<f>>]
      BY <1>4, <2>2 DEF OneMoreIs, Sessions
    <2> QED BY <2>1, <2>2 DEF News, f
  <1>7. f \in SoundFrames(n + 1)
    BY DEF f
  <1>8. /\ f.type \notin Turning /\ Agrees(s, p) => Agrees(t, p)
        /\ f.type \notin Telling => \A U : Presents(s, p, U) => Presents(t, p, U)
    BY <1>3, <1>4, <1>6, <1>7, MoreTold
  <1> QED BY <1>1, <1>2, <1>5, <1>8 DEF Serves

\* What a client knows stays possible when messages are added.
LEMMA ServesGrow ==
    ASSUME NEW n \in Nat, NEW k \in Nat, n <= k, NEW rows, NEW users, NEW s, NEW p,
           Serves(n, rows, users, s, p)
    PROVE  Serves(k, rows, users, s, p)
  <1>1. p \in Peers(n)
    BY DEF Serves, Feeds
  <1>2. p \in Peers(k)
    BY <1>1 DEF Peers
  <1> QED BY <1>2 DEF Serves, Feeds

\* What is known before a step of a session that lives on.
LEMMA Before ==
    ASSUME FeedInv, NEW c \in Conn, Active(conns[c])
    PROVE  /\ db.last \in Nat /\ conns[c] \in SessionsOf(db.last) /\ conns[c].room \in Room
           /\ conns[c] \in Sessions
           /\ RoomRows(db, conns[c].room) \subseteq Row
           /\ Ids(RoomRows(db, conns[c].room)) \subseteq Nat
           /\ \A x \in Ids(RoomRows(db, conns[c].room)) : 0 < x /\ x <= db.last
           /\ Serves(db.last, RoomRows(db, conns[c].room), Users(sessions, conns[c].room),
                     conns[c], peer[c])
           /\ db \in Databases /\ RowsDrawn /\ Numbered
  <1>1. ServerInv /\ Numbered /\ db \in Databases /\ RowsDrawn
    BY DEF FeedInv, ServerInv
  <1>2. conns[c] \in SessionsOf(db.last) /\ conns[c] \in Sessions /\ conns[c].room \in Room
    BY <1>1, SessionShape DEF Active
  <1>3. /\ RoomRows(db, conns[c].room) \subseteq Row
        /\ \A m \in RoomRows(db, conns[c].room) : m.id \in Nat /\ 0 < m.id /\ m.id <= db.last
    BY <1>1 DEF Databases, RoomRows, Row, Numbered, RowsDrawn
  <1> QED BY <1>1, <1>2, <1>3 DEF FeedInv, Ids, Databases

\* What is to be shown of it after the step.
Kept(c) ==
    Serves(db'.last, RoomRows(db', conns'[c].room), Users(sessions', conns'[c].room),
           conns'[c], peer'[c])


\* Frames that tell of others, of failures or of old messages.
LEMMA FrameKept ==
    ASSUME FeedInv, NEW c \in Conn, Active(conns[c]), db'.last \in Nat, db.last <= db'.last,
           peer'[c] = peer[c], SameRows(conns[c].room),
           NEW f \in SoundFrames(db.last), Silent(f), f.type \notin Turning,
           Slips(conns'[c], conns[c], f),
           f.type \in Telling => /\ f.type = "presence"
                                 /\ f.users = Users(sessions', conns[c].room),
           f.type \notin Telling => SameUsers(conns[c].room),
           f.type # "recalled",
           Brings(f) \subseteq RoomRows(db, conns[c].room),
           Answer(f) => \A y \in Ids(Brings(f)) :
              \/ y <= At(peer[c], conns[c].outgoing)
              \/ \E j \in DOMAIN conns[c].outgoing :
                    /\ ~Overtaken(conns[c].outgoing, j)
                    /\ \E x \in Ids(Carries(conns[c].outgoing[j])) : y <= x
    PROVE  Kept(c)
  <1> DEFINE n == db.last
             s == conns[c]
             t == conns'[c]
             p == peer[c]
             rows == RoomRows(db, s.room)
             users == Users(sessions, s.room)
             present == Users(sessions', s.room)
  <1>1. n \in Nat /\ s \in SessionsOf(n) /\ s \in Sessions /\ Serves(n, rows, users, s, p)
    BY Before
  <1>2. t.room = s.room
    BY <1>1 DEF Slips, Put, Sessions
  <1>3. RoomRows(db', t.room) = rows /\ Users(sessions', t.room) = present
    BY <1>2 DEF SameRows
  <1>4. f.type \notin Telling => present = users
    BY DEF SameUsers
  <1>5. Brings(f) \subseteq rows
    OBVIOUS
  <1> HIDE DEF rows, users, present
  <1>6. Serves(n, rows, present, t, p)
    <2>1. f.type \in Telling => f.type = "presence" /\ f.users = present
      BY DEF present
    <2>2. f \in SoundFrames(n) /\ Slips(t, s, f)
      OBVIOUS
    <2>3. Answer(f) => \A y \in Ids(Brings(f)) :
              \/ y <= At(p, s.outgoing)
              \/ \E j \in DOMAIN s.outgoing : /\ ~Overtaken(s.outgoing, j)
                                              /\ \E x \in Ids(Carries(s.outgoing[j])) : y <= x
      OBVIOUS
    <2> HIDE DEF s, t, p, n
    <2>4. \A x \in rows : x \in rows \/ (f.type = "recalled" /\ f.message.id = x.id)
      OBVIOUS
    <2>5. Ids(rows) = Ids(rows) /\ n \in Nat /\ s \in SessionsOf(n)
      BY <1>1
    <2>6. Serves(n, rows, users, s, p)
      BY <1>1
    <2> QED BY <1>4, <1>5, <2>1, <2>2, <2>3, <2>4, <2>5, <2>6, SlipServes
  <1>7. Serves(db'.last, rows, present, t, p)
    BY <1>1, <1>6, ServesGrow
  <1> QED BY <1>3, <1>7 DEF Kept

\* The session that nothing happened to.
LEMMA RestsKept ==
    ASSUME FeedInv, NEW c \in Conn, Active(conns[c]), db'.last \in Nat, db.last <= db'.last,
           peer'[c] = peer[c], Rests(c)
    PROVE  Kept(c)
  <1>1. /\ db.last \in Nat
        /\ Serves(db.last, RoomRows(db, conns[c].room), Users(sessions, conns[c].room),
                  conns[c], peer[c])
    BY Before
  <1>2. /\ conns'[c] = conns[c]
        /\ RoomRows(db', conns[c].room) = RoomRows(db, conns[c].room)
        /\ Users(sessions', conns[c].room) = Users(sessions, conns[c].room)
    BY DEF Rests, SameRows, SameUsers
  <1>3. Serves(db'.last, RoomRows(db, conns[c].room), Users(sessions, conns[c].room),
               conns[c], peer[c])
    BY <1>1, ServesGrow
  <1> QED BY <1>2, <1>3 DEF Kept

\* The session that hears who is present.
LEMMA PresenceKept ==
    ASSUME FeedInv, NEW c \in Conn, Active(conns[c]), db'.last \in Nat, db.last <= db'.last,
           peer'[c] = peer[c], DOMAIN sessions' \subseteq Room \X Name, HearsPresence(c)
    PROVE  Kept(c)
  <1> DEFINE U == Users(sessions', conns[c].room)
             f == Presence(U)
  <1>1. db.last \in Nat /\ conns[c] \in Sessions
    BY Before
  <1>2. U \in SUBSET Name
    BY UsersTyped
  <1>3. f \in SoundFrames(db.last)
    BY <1>1, <1>2, FramesTyped
  <1>4. Silent(f) /\ f.type = "presence" /\ f.users = U
    BY Kinds DEF Presence
  <1>5. News(conns'[c], conns[c], f) /\ SameRows(conns[c].room)
    BY DEF HearsPresence
  <1> HIDE DEF f
  <1>6. Slips(conns'[c], conns[c], f)
    BY <1>4, <1>5 DEF Slips, News
  <1>7. Brings(f) = {} /\ ~Answer(f) /\ f.type \notin Turning /\ f.type \in Telling
    BY <1>4 DEF Brings, Answer, Turning, Telling
  <1>8. f.users = Users(sessions', conns[c].room)
    BY <1>4
  <1>9. f.type # "recalled" /\ Brings(f) \subseteq RoomRows(db, conns[c].room)
    BY <1>4, <1>7
  <1> QED BY <1>3, <1>4, <1>5, <1>6, <1>7, <1>8, <1>9, FrameKept

\* The session whose request fails.
LEMMA ErrorKept ==
    ASSUME FeedInv, NEW c \in Conn, Active(conns[c]), db'.last \in Nat, db.last <= db'.last,
           peer'[c] = peer[c], HearsError(c)
    PROVE  Kept(c)
  <1>1. db.last \in Nat
    BY Before
  <1>2. PICK req \in Asked : conns'[c] = Put(conns[c], <<Failure(req)>>)
    BY DEF HearsError
  <1> DEFINE f == Failure(req)
  <1>3. f \in SoundFrames(db.last)
    BY <1>1, FramesTyped
  <1>4. Silent(f) /\ f.type = "error"
    BY Kinds
  <1>5. conns'[c] = Put(conns[c], <<f>>) /\ SameRows(conns[c].room) /\ SameUsers(conns[c].room)
    BY <1>2 DEF HearsError
  <1> HIDE DEF f
  <1>6. Slips(conns'[c], conns[c], f)
    BY <1>4, <1>5 DEF Slips
  <1>7. Brings(f) = {} /\ ~Answer(f) /\ f.type \notin Turning /\ f.type \notin Telling
        /\ f.type # "recalled"
    BY <1>4 DEF Brings, Answer, Turning, Telling
  <1>8. Brings(f) \subseteq RoomRows(db, conns[c].room)
    BY <1>7
  <1> QED BY <1>3, <1>4, <1>5, <1>6, <1>7, <1>8, FrameKept

\* What the room has up to the end of the queue can be answered with.
LEMMA AnsweredRows ==
    ASSUME NEW n \in Nat, NEW s \in SessionsOf(n), NEW b, NEW rows,
           Ordered(s, b), Owed(rows, s, b), ~s.syncing, b \in Nat, Ids(rows) \subseteq Nat,
           NEW y \in Ids(rows)
    PROVE  \/ y <= b
           \/ \E j \in DOMAIN s.outgoing : /\ ~Overtaken(s.outgoing, j)
                                           /\ \E x \in Ids(Carries(s.outgoing[j])) : y <= x
  <1> DEFINE H == s.outgoing
  <1> SUFFICES ASSUME ~(y <= b)
               PROVE  \E j \in DOMAIN H : ~Overtaken(H, j) /\ \E x \in Ids(Carries(H[j])) : y <= x
    OBVIOUS
  <1>1. y \in Nat /\ b < y
    OBVIOUS
  <1>2. Due(s, y) /\ s.deferred = <<>>
    BY <1>1 DEF Owed, Ordered
  <1>3. ~Reached(s.deferred, y)
    BY <1>2 DEF Reached
  <1>4. PICK j \in DOMAIN H : ~Overtaken(H, j) /\ Reaches(H[j], y)
    BY <1>2, <1>3 DEF Due, Reached
  <1>5. CASE y \in Ids(Carries(H[j]))
    BY <1>1, <1>4, <1>5
  <1>6. CASE Starts(H[j]) /\ \A m \in H[j].messages : y < m.id
    <2>1. H \in Seq(SoundFrames(n))
      BY DEF SessionsOf
    <2>2. H[j] \in SoundFrames(n)
      BY <2>1, ElementOfSeq, LenProperties
    <2>3. H[j].messages # {} /\ Carries(H[j]) = H[j].messages /\ H[j].messages \in SUBSET Row
      BY <1>6, <2>2, FrameIds DEF Ordered, Founded
    <2>4. PICK m \in H[j].messages : TRUE
      BY <2>3
    <2>5. m.id \in Ids(Carries(H[j])) /\ m.id \in Nat /\ y < m.id
      BY <1>6, <2>3, <2>4 DEF Ids, Row
    <2>6. y <= m.id
      BY <1>1, <2>5
    <2> QED BY <1>4, <2>5, <2>6
  <1> QED BY <1>4, <1>5, <1>6 DEF Reaches

\* The session that gets a page of old messages.
LEMMA OlderKept ==
    ASSUME FeedInv, NEW c \in Conn, Active(conns[c]), db'.last \in Nat, db.last <= db'.last,
           peer'[c] = peer[c], NEW before, GetsOlder(c, before)
    PROVE  Kept(c)
  <1> DEFINE n == db.last
             s == conns[c]
             p == peer[c]
             r == s.room
             rows == RoomRows(db, r)
             page == OlderPage(c, before)
             f == PageFrame("history", "older", page)
             b == At(p, s.outgoing)
  <1>1. /\ n \in Nat /\ s \in SessionsOf(n) /\ r \in Room /\ Ids(rows) \subseteq Nat
        /\ db \in Databases /\ RowsDrawn /\ Numbered
        /\ Feeds(n, rows, s, p)
    BY Before DEF Serves
  <1>2. /\ SameRows(r) /\ SameUsers(r) /\ ~s.syncing /\ before \in Nat
        /\ conns'[c] = Put(s, <<f>>)
    BY DEF GetsOlder
  <1>3. page \in Pages(n) /\ \A m \in page.messages : m \in rows
    <2> HIDE DEF rows
    <2> QED BY <1>1, <1>2, BackwardPage DEF OlderPage, rows
  <1>4. f \in SoundFrames(n)
    <2> HIDE DEF page
    <2> QED BY <1>1, <1>3, FramesTyped
  <1>5. Silent(f) /\ f.type = "history" /\ f.messages = page.messages
    BY Kinds DEF PageFrame
  <1> HIDE DEF f, page
  <1>6. Slips(conns'[c], s, f)
    BY <1>2, <1>5 DEF Slips
  <1>7. Brings(f) = page.messages /\ f.type \notin Turning /\ f.type \notin Telling
        /\ f.type # "recalled"
    BY <1>5 DEF Brings, Turning, Telling
  <1>8. Brings(f) \subseteq rows
    BY <1>3, <1>7
  <1>9. b \in Nat /\ Ordered(s, b) /\ Owed(rows, s, b)
    BY <1>1 DEF Feeds, At, Peers
  <1>10. \A y \in Ids(Brings(f)) : y \in Ids(rows)
    BY <1>8 DEF Ids
  <1> HIDE DEF b, rows
  <1>11. \A y \in Ids(Brings(f)) :
            \/ y <= b
            \/ \E j \in DOMAIN s.outgoing : /\ ~Overtaken(s.outgoing, j)
                                            /\ \E x \in Ids(Carries(s.outgoing[j])) : y <= x
    BY <1>1, <1>2, <1>9, <1>10, AnsweredRows
  <1> QED BY <1>2, <1>4, <1>5, <1>6, <1>7, <1>8, <1>11, FrameKept DEF b, rows

\* The session that hears of a new message.
LEMMA MessageKept ==
    ASSUME FeedInv, ServerInv', NEW c \in Conn, Active(conns[c]), peer'[c] = peer[c], HearsMessage(c)
    PROVE  Kept(c)
  <1> DEFINE n == db.last
             s == conns[c]
             t == conns'[c]
             p == peer[c]
             r == s.room
             rows == RoomRows(db, r)
             users == Users(sessions, r)
  <1>1. /\ n \in Nat /\ s \in SessionsOf(n) /\ s \in Sessions /\ Serves(n, rows, users, s, p)
    BY Before
  <1>2. PICK m \in Row : Adds(r, m) /\ News(t, s, Message("", m))
    BY DEF HearsMessage
  <1>3. m.id = n + 1 /\ RoomRows(db', r) = rows \cup {m}
    BY <1>2 DEF Adds
  <1>4. m.id <= n + 1 /\ n + 1 \in Nat
    BY <1>1, <1>3
  <1>5. Message("", m) \in SoundFrames(n + 1)
    BY <1>4, FramesTyped
  <1>6. db'.last \in Nat /\ n + 1 <= db'.last
    <2>1. db' \in Databases /\ RowsDrawn'
      BY DEF ServerInv
    <2>2. m \in db'.rows
      BY <1>3 DEF RoomRows
    <2> QED BY <1>3, <2>1, <2>2 DEF Databases, RowsDrawn
  <1>7. t.room = r
    BY <1>1, <1>2 DEF News, Put, Sessions
  <1>8. Users(sessions', r) = users
    BY DEF HearsMessage, SameUsers
  <1> DEFINE new == RoomRows(db', r)
  <1>9. new = rows \cup {m} /\ Kept(c) = Serves(db'.last, new, users, t, p)
    BY <1>3, <1>7, <1>8 DEF Kept
  <1> HIDE DEF n, s, t, p, rows, users, new
  <1>10. Serves(n + 1, rows \cup {m}, users, t, p)
    BY <1>1, <1>2, <1>3, <1>5, MessageServes
  <1>11. Serves(db'.last, rows \cup {m}, users, t, p)
    BY <1>4, <1>6, <1>10, ServesGrow
  <1> QED BY <1>9, <1>11

\* The session that sent it, which gets the message and then the acknowledgement.
LEMMA OwnKept ==
    ASSUME FeedInv, ServerInv', NEW c \in Conn, Active(conns[c]), peer'[c] = peer[c], HearsItsOwn(c)
    PROVE  Kept(c)
  <1> DEFINE n == db.last
             s == conns[c]
             t == conns'[c]
             p == peer[c]
             r == s.room
             rows == RoomRows(db, r)
             users == Users(sessions, r)
             G == SoundFrames(n + 1)
  <1>1. /\ n \in Nat /\ s \in SessionsOf(n) /\ s \in Sessions /\ Serves(n, rows, users, s, p)
    BY Before
  <1>2. PICK m \in Row : Adds(r, m) /\ t = Put(Put(s, <<Message("send", m)>>), <<Ack("send", m)>>)
    BY DEF HearsItsOwn
  <1> DEFINE f == Message("send", m)
             a == Ack("send", m)
             u == Put(s, <<f>>)
             new == RoomRows(db', r)
  <1>3. m.id = n + 1 /\ new = rows \cup {m} /\ m \in new
    BY <1>2 DEF Adds
  <1>4. m.id <= n + 1 /\ n + 1 \in Nat /\ n <= n + 1
    BY <1>1, <1>3
  <1>5. f \in G /\ a \in G
    BY <1>4, FramesTyped
  <1>6. db'.last \in Nat /\ n + 1 <= db'.last
    <2>1. db' \in Databases /\ RowsDrawn'
      BY DEF ServerInv
    <2>2. m \in db'.rows
      BY <1>3 DEF RoomRows
    <2> QED BY <1>3, <2>1, <2>2 DEF Databases, RowsDrawn
  <1>7. Silent(a) /\ a.type = "ack" /\ a.message = m
    BY Kinds DEF Ack
  <1>8. Carries(f) = {m} /\ f.type = "message"
    BY Kinds
  <1>9. ~s.syncing /\ s.syncing \in BOOLEAN /\ Users(sessions', r) = users
    BY <1>1 DEF HearsItsOwn, SameUsers, Sessions
  <1> HIDE DEF G, a
  <1>10. News(u, s, Message("send", m))
    BY <1>9 DEF News
  <1>11. s \in SessionsOf(n + 1) /\ s.outgoing \in Seq(G)
    BY <1>1, <1>4, Grown DEF SessionsOf, G
  <1>12. u.outgoing = s.outgoing \o <<f>> /\ u.syncing = s.syncing /\ u.room = r
    BY <1>1 DEF Put, Sessions
  <1>13. t = Put(u, <<a>>) /\ t.room = r
    BY <1>1, <1>2 DEF Put, Sessions, a
  <1>14. Kept(c) = Serves(db'.last, new, users, t, p)
    BY <1>9, <1>13 DEF Kept
  <1>15. u \in SessionsOf(n + 1)
    <2>1. s.outgoing \o <<f>> \in Seq(G)
      BY <1>5, <1>11, ConcatProperties
    <2>2. u = [s EXCEPT !.outgoing = s.outgoing \o <<f>>]
      BY DEF Put
    <2>3. G \subseteq Frames /\ s \in Sessions
      BY <1>11 DEF G, SoundFrames, SessionsOf
    <2>4. s.outgoing \o <<f>> \in Seq(Frames)
      BY <2>1, <2>3
    <2> HIDE DEF u, f, s
    <2>5. u \in Sessions
      BY <2>2, <2>3, <2>4 DEF Sessions
    <2> QED BY <1>11, <2>1, <2>2, <2>3, <2>5 DEF SessionsOf, Sessions, G
  <1>16. Serves(n + 1, rows \cup {m}, users, u, p)
    <2>1. Message("send", m) \in SoundFrames(n + 1)
      BY <1>5 DEF G
    <2> HIDE DEF n, s, p, rows, users, u, f
    <2> QED BY <1>1, <1>3, <1>10, <2>1, MessageServes
  <1>17. Serves(n + 1, new, users, u, p)
    BY <1>3, <1>16
  <1>18. \E j \in DOMAIN u.outgoing : ~Overtaken(u.outgoing, j) /\ m.id \in Ids(Carries(u.outgoing[j]))
    <2> DEFINE H == s.outgoing
               P == <<f>>
               Q == H \o P
    <2>1. P \in Seq(G) /\ 1 \in DOMAIN P /\ P[1] = f /\ DOMAIN P = {1}
      BY <1>5, OneFrame
    <2>2. m.id \in Ids(Carries(f)) /\ f.type # "history_cleared"
      BY <1>8 DEF Ids
    <2>3. H \in Seq(G) /\ u.outgoing = Q
      BY <1>11, <1>12
    <2> HIDE DEF H, P, f, u, s
    <2>4. \A j \in DOMAIN P : P[j].type # "history_cleared"
      BY <2>1, <2>2
    <2>5. /\ \A k \in DOMAIN Q : k \notin DOMAIN H =>
                     /\ k \in Nat /\ Len(H) < k /\ ~Overtaken(Q, k)
                     /\ k - Len(H) \in DOMAIN P /\ Q[k] = P[k - Len(H)]
          /\ \A j \in DOMAIN P :
                     /\ j \in Nat /\ Len(H) + j \in DOMAIN Q /\ Len(H) + j \notin DOMAIN H
                     /\ Q[Len(H) + j] = P[j] /\ ~Overtaken(P, j)
      BY <2>1, <2>3, <2>4, Appending
    <2>6. Len(H) + 1 \in DOMAIN Q /\ Len(H) + 1 \notin DOMAIN H /\ Q[Len(H) + 1] = f
      BY <2>1, <2>5
    <2>7. ~Overtaken(Q, Len(H) + 1)
      BY <2>5, <2>6
    <2> QED BY <2>2, <2>3, <2>6, <2>7
  <1>19. Brings(a) = {m} /\ a.type \notin Turning /\ a.type \notin Telling /\ a.type # "recalled"
    BY <1>7 DEF Brings, Turning, Telling
  <1>20. Slips(t, u, a)
    BY <1>9, <1>12, <1>13 DEF Slips
  <1>21. \A y \in Ids(Brings(a)) :
            \/ y <= At(p, u.outgoing)
            \/ \E j \in DOMAIN u.outgoing : /\ ~Overtaken(u.outgoing, j)
                                            /\ \E x \in Ids(Carries(u.outgoing[j])) : y <= x
    <2>1. \A y \in Ids(Brings(a)) : y = m.id /\ y <= m.id
      BY <1>3, <1>4, <1>19 DEF Ids
    <2> QED BY <1>18, <2>1
  <1> HIDE DEF n, s, t, p, u, rows, users, new, f
  <1>22. Brings(a) \subseteq new /\ Ids(new) = Ids(new)
    BY <1>3, <1>19
  <1>23. \A x \in new : x \in new \/ (a.type = "recalled" /\ a.message.id = x.id)
    OBVIOUS
  <1>24. Serves(n + 1, new, users, t, p)
    <2>1. a \in SoundFrames(n + 1)
      BY <1>5 DEF G
    <2> QED BY <1>4, <1>7, <1>15, <1>17, <1>19, <1>20, <1>21, <1>22, <1>23, <2>1, SlipServes
  <1>25. Serves(db'.last, new, users, t, p)
    BY <1>4, <1>6, <1>24, ServesGrow
  <1> QED BY <1>14, <1>25

\* The session that hears of a recall.
LEMMA RecallKept ==
    ASSUME FeedInv, ServerInv', NEW c \in Conn, Active(conns[c]), db.last <= db'.last,
           peer'[c] = peer[c], HearsRecall(c)
    PROVE  Kept(c)
  <1> DEFINE n == db.last
             s == conns[c]
             t == conns'[c]
             p == peer[c]
             r == s.room
             rows == RoomRows(db, r)
             users == Users(sessions, r)
             new == RoomRows(db', r)
  <1>1. /\ n \in Nat /\ s \in SessionsOf(n) /\ s \in Sessions /\ Serves(n, rows, users, s, p)
        /\ r \in Room /\ rows \subseteq Row /\ \A x \in Ids(rows) : x <= n
    BY Before
  <1>2. db' \in Databases /\ db'.last \in Nat /\ InstanceID(db', r) \in InstanceIDs
    BY <1>1, InstanceTyped DEF ServerInv, Databases, InstanceID, InstanceIDs
  <1>3. PICK m \in Row, req \in {"", "recall"} :
           /\ Recalls(r, m)
           /\ News(t, s, Recalled(req, [m EXCEPT !.recalled = TRUE], InstanceID(db', r)))
    BY DEF HearsRecall
  <1> DEFINE w == [m EXCEPT !.recalled = TRUE]
             f == Recalled(req, w, InstanceID(db', r))
  <1>4. w \in Row /\ w.id = m.id
    BY DEF Row
  <1>5. m \in rows /\ new = (rows \ {m}) \cup {w} /\ News(t, s, f)
    BY <1>3 DEF Recalls
  <1>6. w.id <= n
    BY <1>1, <1>4, <1>5 DEF Ids
  <1> HIDE DEF w
  <1>7. f \in SoundFrames(n)
    BY <1>1, <1>2, <1>4, <1>6, FramesTyped
  <1>8. Silent(f) /\ f.type = "recalled" /\ f.message = w
    BY Kinds DEF Recalled
  <1>9. t.room = r
    BY <1>1, <1>5 DEF News, Put, Sessions
  <1>10. Users(sessions', r) = users
    BY DEF HearsRecall, SameUsers
  <1>11. Kept(c) = Serves(db'.last, new, users, t, p)
    BY <1>9, <1>10 DEF Kept
  <1> HIDE DEF n, s, t, p, rows, users, new, f
  <1>12. Slips(t, s, f)
    BY <1>5, <1>8 DEF Slips, News
  <1>13. Brings(f) = {w} /\ ~Answer(f) /\ f.type \notin Turning /\ f.type \notin Telling
    BY <1>8 DEF Brings, Answer, Turning, Telling
  <1>14. Ids(new) = Ids(rows) /\ Brings(f) \subseteq new
    <2>1. ASSUME NEW i \in Ids(new) PROVE i \in Ids(rows)
      <3>1. PICK x \in new : i = x.id
        BY DEF Ids
      <3> QED BY <1>4, <1>5, <3>1 DEF Ids
    <2>2. ASSUME NEW i \in Ids(rows) PROVE i \in Ids(new)
      <3>1. PICK x \in rows : i = x.id
        BY DEF Ids
      <3>2. x \in new \/ x = m
        BY <1>5
      <3> QED BY <1>4, <1>5, <3>1, <3>2 DEF Ids
    <2>3. Brings(f) \subseteq new
      BY <1>5, <1>13
    <2> QED BY <2>1, <2>2, <2>3
  <1>15. \A x \in rows : x \in new \/ (f.type = "recalled" /\ f.message.id = x.id)
    BY <1>4, <1>5, <1>8
  <1>16. Serves(n, new, users, t, p)
    BY <1>1, <1>7, <1>8, <1>12, <1>13, <1>14, <1>15, SlipServes
  <1>17. n <= db'.last
    BY DEF n
  <1>18. Serves(db'.last, new, users, t, p)
    BY <1>1, <1>2, <1>16, <1>17, ServesGrow
  <1> QED BY <1>11, <1>18

\* The session that gets the next page of its catching up.
LEMMA PageKept ==
    ASSUME FeedInv, NEW c \in Conn, Active(conns[c]), db'.last \in Nat, db.last <= db'.last,
           peer'[c] = peer[c], GetsPage(c)
    PROVE  Kept(c)
  <1> DEFINE n == db.last
             s == conns[c]
             t == conns'[c]
             p == peer[c]
             r == s.room
             rows == RoomRows(db, r)
             users == Users(sessions, r)
             page == SyncPage(c)
             b == At(p, s.outgoing)
             end == Advance(s.cursor, page)
  <1>1. /\ n \in Nat /\ s \in SessionsOf(n) /\ s \in Sessions /\ r \in Room
        /\ rows \subseteq Row /\ Ids(rows) \subseteq Nat
        /\ db \in Databases /\ RowsDrawn /\ Numbered
        /\ Feeds(n, rows, s, p) /\ Presents(s, p, users) /\ Agrees(s, p)
    BY Before DEF Serves
  <1>2. s.syncing /\ s.cursor \in Nat /\ s.through \in Nat
    BY <1>1 DEF GetsPage, Sessions
  <1>3. Ordered(s, b) /\ Owed(rows, s, b) /\ b \in Nat
    BY <1>1 DEF Feeds, At, Peers
  <1>4. CatchingUp(s, b) /\ s.cursor <= s.through
    BY <1>2, <1>3 DEF Ordered, CatchingUp
  <1>5. /\ page \in Pages(n)
        /\ \A m \in page.messages : m \in rows /\ s.cursor < m.id /\ m.id <= s.through
        /\ end \in Nat /\ s.cursor <= end /\ end <= s.through
        /\ end = s.cursor \/ end \in Ids(page.messages)
        /\ \A m \in page.messages : m.id <= end
        /\ \A m \in rows : s.cursor < m.id /\ m.id <= end => m \in page.messages
        /\ ~page.hasMore => \A m \in rows : s.cursor < m.id /\ m.id <= s.through => m \in page.messages
    <2>1. page = Page(db, r, -1, s.cursor, s.through)
      BY DEF SyncPage
    <2> HIDE DEF page, r, s
    <2> QED BY <1>1, <1>2, <1>4, <2>1, ForwardPage
  <1>6. PageFrame("sync", "next", page) \in SoundFrames(n) /\ page.hasMore \in BOOLEAN
    <2> HIDE DEF page
    <2> QED BY <1>1, <1>5, FramesTyped DEF Pages
  <1>7. \/ Paged(t, s, page) /\ page.hasMore = TRUE
        \/ Caught(t, s, page) /\ ~page.hasMore
    BY <1>6 DEF GetsPage
  <1>8. t.room = r
    BY <1>1, <1>7 DEF Paged, Caught, Sessions
  <1>9. SameRows(r) /\ SameUsers(r)
    BY DEF GetsPage
  <1>10. Kept(c) = Serves(db'.last, rows, users, t, p)
    BY <1>8, <1>9 DEF Kept, SameRows, SameUsers
  <1>11. b = p.cursor
    BY <1>4, CatchingUpFeeds DEF At
  <1> HIDE DEF rows, users, page, end, s, t, p, n
  <1>12. \A x \in Ids(page.messages) : s.cursor < x /\ x <= end
    BY <1>5 DEF Ids
  <1>13. \A x \in Ids(rows) : (s.cursor < x /\ x <= end) => x \in Ids(page.messages)
    BY <1>5 DEF Ids
  <1>14. \/ Paged(t, s, page)
         \/ /\ Caught(t, s, page)
            /\ \A x \in Ids(rows) : (s.cursor < x /\ x <= s.through) => x \in Ids(page.messages)
    BY <1>5, <1>7 DEF Ids
  <1>15. Ordered(t, b) /\ Owed(rows, t, b)
    <2>1. end = Advance(s.cursor, page)
      BY DEF end
    <2> HIDE DEF b
    <2> QED BY <1>1, <1>2, <1>3, <1>5, <1>6, <1>12, <1>13, <1>14, <2>1, PageKeeps
  <1>16. Ordered(t, p.cursor) /\ Owed(rows, t, p.cursor)
    BY <1>11, <1>15
  <1>17. Feeds(n, rows, t, p)
    <2>1. Paged(t, s, page) \/ Caught(t, s, page)
      BY <1>7
    <2>2. page.messages \subseteq rows
      BY <1>5
    <2> QED BY <1>1, <1>2, <1>6, <1>16, <2>1, <2>2, PageFeeds
  <1>18. Agrees(t, p) /\ \A U : Presents(s, p, U) => Presents(t, p, U)
    <2> HIDE DEF b
    <2>1. (Paged(t, s, page) /\ page.hasMore = TRUE) \/ Caught(t, s, page)
      BY <1>7
    <2> QED BY <1>1, <1>2, <1>4, <1>6, <2>1, PageTold
  <1>19. Serves(n, rows, users, t, p)
    BY <1>1, <1>17, <1>18 DEF Serves
  <1>20. Serves(db'.last, rows, users, t, p)
    <2>1. db'.last \in Nat /\ n <= db'.last
      BY DEF n
    <2> QED BY <1>1, <1>19, <2>1, ServesGrow
  <1> QED BY <1>10, <1>20

\* The session whose room is cleared.
LEMMA ClearedKept ==
    ASSUME FeedInv, ServerInv', NEW c \in Conn, Active(conns[c]), db.last <= db'.last,
           peer'[c] = peer[c], IsCleared(c)
    PROVE  Kept(c)
  <1> DEFINE n == db.last
             s == conns[c]
             t == conns'[c]
             p == peer[c]
             r == s.room
             users == Users(sessions, r)
             inst == InstanceID(db', r)
  <1>1. /\ n \in Nat /\ s \in SessionsOf(n) /\ s \in Sessions /\ r \in Room
        /\ Feeds(n, RoomRows(db, r), s, p)
    BY Before DEF Serves
  <1>2. /\ StartsOver(t, s, inst, users)
        /\ RoomRows(db', r) = {} /\ Users(sessions', r) = users
    BY DEF IsCleared, SameUsers
  <1>3. inst \in InstanceIDs /\ db'.last \in Nat
    BY <1>1, InstanceTyped DEF ServerInv, Databases, InstanceID, InstanceIDs
  <1>4. users \in SUBSET Name
    BY UsersTyped DEF FeedInv, ServerInv, SessionInv
  <1> HIDE DEF inst, users
  <1>5. HistoryCleared(inst) \in SoundFrames(n) /\ Presence(users) \in SoundFrames(n)
    BY <1>1, <1>3, <1>4, FramesTyped
  <1>6. t.room = r
    BY <1>1, <1>2 DEF StartsOver, Sessions
  <1>7. Kept(c) = Serves(db'.last, {}, users, t, p)
    BY <1>2, <1>6 DEF Kept
  <1> DEFINE rows == RoomRows(db, r)
  <1>8. Feeds(n, rows, s, p) /\ n <= db'.last
    BY <1>1
  <1> HIDE DEF n, s, t, p, rows
  <1>9. Feeds(n, {}, t, p)
    BY <1>1, <1>2, <1>5, <1>8, StartFeeds
  <1>10. Agrees(t, p) /\ Presents(t, p, users)
    BY <1>1, <1>2, <1>5, StartTold
  <1>11. Serves(n, {}, users, t, p)
    BY <1>9, <1>10 DEF Serves
  <1> QED BY <1>1, <1>3, <1>7, <1>8, <1>11, ServesGrow

\* The session whose client reads a frame.
LEMMA ReadKept ==
    ASSUME FeedInv, NEW c \in Conn, Active(conns[c]), db'.last \in Nat, db.last <= db'.last,
           peer'[c] = Apply(peer[c], Head(conns[c].outgoing)), IsRead(c)
    PROVE  Kept(c)
  <1> DEFINE n == db.last
             s == conns[c]
             t == conns'[c]
             p == peer[c]
             r == s.room
             rows == RoomRows(db, r)
             users == Users(sessions, r)
             q == Apply(p, Head(s.outgoing))
  <1>1. /\ n \in Nat /\ s \in SessionsOf(n) /\ s \in Sessions
        /\ Ids(rows) \subseteq Nat /\ \A x \in Ids(rows) : 0 < x
        /\ Feeds(n, rows, s, p) /\ Presents(s, p, users) /\ Agrees(s, p)
    BY Before DEF Serves
  <1>2. /\ s.outgoing # <<>> /\ t = [s EXCEPT !.outgoing = Tail(@)]
        /\ RoomRows(db', r) = rows /\ Users(sessions', r) = users /\ peer'[c] = q
    BY DEF IsRead, SameRows, SameUsers
  <1>3. t.room = r /\ p \in Peers(n) /\ n <= db'.last
    BY <1>1, <1>2 DEF Sessions, Feeds
  <1>4. Kept(c) = Serves(db'.last, rows, users, t, q)
    BY <1>2, <1>3 DEF Kept
  <1> HIDE DEF n, s, t, p, rows, users
  <1>5. Feeds(n, rows, t, q)
    BY <1>1, <1>2, ReadFeeds
  <1>6. Agrees(t, q) /\ Presents(t, q, users)
    BY <1>1, <1>2, <1>3, ReadTold
  <1> HIDE DEF q
  <1>7. Serves(n, rows, users, t, q)
    BY <1>5, <1>6 DEF Serves
  <1> QED BY <1>1, <1>3, <1>4, <1>7, ServesGrow

\* The session that begins.
LEMMA BegunKept ==
    ASSUME FeedInv, NEW c \in Conn, db'.last \in Nat, db.last <= db'.last,
           DOMAIN sessions' \subseteq Room \X Name,
           NEW r \in Room, NEW n, NEW o, NEW inst, NEW after,
           Begins(c, r, n, o, inst, after), peer'[c] = Joining(r, inst, after)
    PROVE  Kept(c)
  <1> DEFINE k == db.last
             t == conns'[c]
             p == Joining(r, inst, after)
             rows == RoomRows(db, r)
             users == Users(sessions', r)
             f == Presence(users)
  <1>1. /\ SameRows(r) /\ ~InvalidCursor(r, inst, after) /\ after \in Nat
        /\ t.room = r /\ users = Users(sessions, r) \cup {n}
    BY DEF Begins
  <1>2. PICK s \in SessionsOf(k) :
           /\ s.live /\ Fresh(s, r, n, o, inst, after)
           /\ News(t, s, Presence(Users(sessions', r)))
    BY DEF Begins
  <1>3. ServerInv /\ Numbered /\ k \in Nat /\ k <= db'.last
    BY DEF FeedInv, ServerInv, Databases
  <1>4. Feeds(k, rows, s, p) /\ FirstPage(r, inst, after).hasMore \in BOOLEAN
    <2>1. FirstPage(r, inst, after) \in Pages(db.last)
      BY <1>1, <1>2, <1>3, FreshKeeps
    <2> QED BY <1>1, <1>2, <1>3, <2>1, FreshFeeds DEF Pages
  <1>5. Agrees(s, p) /\ Presents(s, p, Users(sessions, r) \cup {n})
    <2> HIDE DEF p
    <2> QED BY <1>1, <1>2, <1>4, FreshTold
  <1>6. Serves(k, rows, users, s, p)
    BY <1>1, <1>4, <1>5 DEF Serves
  <1>7. f \in SoundFrames(k)
    BY <1>3, UsersTyped, FramesTyped
  <1>8. Silent(f) /\ f.type = "presence" /\ f.users = users
    BY Kinds DEF Presence
  <1>9. Kept(c) = Serves(db'.last, rows, users, t, p)
    BY <1>1 DEF Kept, SameRows
  <1>10. News(t, s, f)
    BY <1>2
  <1> HIDE DEF f, k, t, p, rows, users
  <1>11. Slips(t, s, f)
    BY <1>8, <1>10 DEF Slips, News
  <1>12. Brings(f) = {} /\ ~Answer(f) /\ f.type \notin Turning /\ f.type \in Telling
         /\ Brings(f) \subseteq rows /\ Ids(rows) = Ids(rows)
    BY <1>8 DEF Brings, Answer, Turning, Telling
  <1>13. \A x \in rows : x \in rows \/ (f.type = "recalled" /\ f.message.id = x.id)
    OBVIOUS
  <1>14. Serves(k, rows, users, t, p)
    BY <1>2, <1>3, <1>6, <1>7, <1>8, <1>11, <1>12, <1>13, SlipServes
  <1> QED BY <1>3, <1>9, <1>14, ServesGrow

-----------------------------------------------------------------------------
(* The inductive invariant                                                 *)

\* Whatever a session that lives on was told, it keeps its client up to date.
LEMMA GoneOn ==
    ASSUME FeedInv, ServerInv', db.last <= db'.last, NEW d \in Conn, Goes(d), peer'[d] = peer[d],
           \/ Hears(d) \/ HearsError(d) \/ HearsItsOwn(d) \/ GetsPage(d) \/ IsCleared(d)
           \/ \E before : GetsOlder(d, before)
    PROVE  Kept(d)
  <1>1. Active(conns[d]) /\ db'.last \in Nat /\ DOMAIN sessions' \subseteq Room \X Name
    BY DEF Goes, ServerInv, SessionInv, Databases
  <1>2. Rests(d) => Kept(d)
    BY <1>1, RestsKept
  <1>3. HearsPresence(d) => Kept(d)
    BY <1>1, PresenceKept
  <1>4. HearsMessage(d) => Kept(d)
    BY <1>1, MessageKept
  <1>5. HearsRecall(d) => Kept(d)
    BY <1>1, RecallKept
  <1>6. HearsError(d) => Kept(d)
    BY <1>1, ErrorKept
  <1>7. HearsItsOwn(d) => Kept(d)
    BY <1>1, OwnKept
  <1>8. GetsPage(d) => Kept(d)
    BY <1>1, PageKept
  <1>9. IsCleared(d) => Kept(d)
    BY <1>1, ClearedKept
  <1>10. ASSUME NEW before, GetsOlder(d, before) PROVE Kept(d)
    BY <1>1, <1>10, OlderKept
  <1> QED BY <1>2, <1>3, <1>4, <1>5, <1>6, <1>7, <1>8, <1>9, <1>10 DEF Hears

\* If every session that is live after a step was kept, so was the invariant.
LEMMA AllKept ==
    ASSUME FeedInv, ServerInv', Numbered', peer' = [c \in Conn |-> peer'[c]],
           \A d \in Conn : Active(conns'[d]) => Kept(d)
    PROVE  FeedInv'
  <1>1. ASSUME NEW d \in Conn, Active(conns'[d])
        PROVE  Serves(db'.last, RoomRows(db', conns'[d].room), Users(sessions', conns'[d].room),
                      conns'[d], peer'[d])
    BY <1>1 DEF Kept
  <1> QED BY <1>1 DEF FeedInv

\* A request of connection c, of which the others hear, if anything.
LEMMA RequestMoves ==
    ASSUME ServerInv, NEW c \in Conn, Request(c), NEW d \in Conn
    PROVE  /\ Commits
           /\ Active(conns'[d]) =>
                 /\ Goes(d)
                 /\ \/ Hears(d) \/ HearsError(d) \/ HearsItsOwn(d) \/ GetsPage(d)
                    \/ \E before : GetsOlder(d, before)
  <1>1. CASE HandleSend(c, "send")
    BY <1>1, SendMoves
  <1>2. ASSUME NEW id, HandleRecall(c, "recall", id)
        PROVE  Commits /\ (Active(conns'[d]) => Goes(d) /\ (Hears(d) \/ HearsError(d)))
    BY <1>2, RecallMoves
  <1>3. ASSUME NEW before \in 0 .. db.last, HandleHistory(c, "older", before)
        PROVE  Commits /\ (Active(conns'[d]) =>
                              Goes(d) /\ (Hears(d) \/ HearsError(d) \/ \E b : GetsOlder(d, b)))
    <2>1. before \in Int
      BY DEF ServerInv, Databases
    <2> QED BY <1>3, <2>1, HistoryMoves
  <1>4. ASSUME NEW after, HandleSync(c, "next", after)
        PROVE  Commits /\ (Active(conns'[d]) =>
                              Goes(d) /\ (Hears(d) \/ HearsError(d) \/ GetsPage(d)))
    BY <1>4, SyncMoves
  <1>5. CASE HandleFails(c, "send")
    <2>1. "send" \in Asked /\ conns[c].phase = "serving" /\ Fail(c, "send")
      BY <1>5 DEF Asked, HandleFails, Handles
    <2>2. /\ Commits
          /\ Active(conns'[d]) => Goes(d) /\ (d # c => Rests(d)) /\ (d = c => HearsError(c))
      BY <2>1, FailMoves
    <2> QED BY <2>2 DEF Hears
  <1>6. CASE HandleSyncStorageError(c, "next")
    BY <1>6, SyncErrorMoves
  <1> QED BY <1>1, <1>2, <1>3, <1>4, <1>5, <1>6 DEF Request

\* Every step of the server keeps every live session's client up to date.
LEMMA FeedStep ==
    ASSUME FeedInv, [FNext]_fvars
    PROVE  FeedInv'
  <1>0. ServerInv /\ Numbered /\ db \in Databases /\ RowsDrawn /\ peer = [c \in Conn |-> peer[c]]
    BY DEF FeedInv, ServerInv
  <1>1. CASE UNCHANGED fvars
    <2>1. /\ db' = db /\ horizon' = horizon /\ closed' = closed /\ conns' = conns
          /\ sessions' = sessions /\ peer' = peer
      BY <1>1 DEF fvars, vars
    <2>2. ServerInv'
      BY <1>0, <2>1, ServerStep DEF vars
    <2>3. Numbered'
      BY <1>0, <2>1 DEF Numbered
    <2>4. ASSUME NEW d \in Conn, Active(conns'[d]) PROVE Kept(d)
      BY <2>1, <2>4, Before DEF Kept
    <2>5. peer' = [c \in Conn |-> peer'[c]]
      BY <1>0, <2>1
    <2> QED BY <2>2, <2>3, <2>4, <2>5, AllKept
  <1>2. ASSUME FNext PROVE [Next]_vars
    <2>1. ASSUME NEW c \in Conn, FConnect(c) PROVE Connect(c)
      BY <2>1 DEF FConnect, Connect
    <2> QED BY <1>2, <2>1 DEF FNext, Next
  <1>3. ASSUME FNext, Commits
        PROVE  ServerInv' /\ Numbered' /\ db.last <= db'.last
               /\ DOMAIN sessions' \subseteq Room \X Name /\ db'.last \in Nat
    <2>1. ServerInv'
      BY <1>0, <1>2, <1>3, ServerStep
    <2>2. Numbered' /\ db.last <= db'.last
      BY <1>0, <1>3, CommitNumbers
    <2> QED BY <2>1, <2>2 DEF ServerInv, SessionInv, Databases
  <1>4. ASSUME NEW c \in Conn, FNext, UNCHANGED peer,
               \/ Accept(c) \/ JoinTimeout(c) \/ JoinClosed(c) \/ WriteRefusal(c)
               \/ \E code \in JoinFailures : JoinInvalid(c, code)
               \/ \E r \in Room, n \in Name : JoinStorageError(c, r, n)
        PROVE  FeedInv'
    <2>1. ASSUME NEW d \in Conn PROVE Commits /\ (Active(conns'[d]) => Goes(d) /\ Rests(d))
      BY <1>0, <1>4, QuietMoves
    <2>2. ServerInv' /\ Numbered' /\ db.last <= db'.last
      BY <1>3, <1>4, <2>1
    <2>3. ASSUME NEW d \in Conn, Active(conns'[d]) PROVE Kept(d)
      BY <1>4, <2>1, <2>2, <2>3, GoneOn DEF Hears
    <2>4. peer' = [e \in Conn |-> peer'[e]]
      BY <1>0, <1>4
    <2> QED BY <2>2, <2>3, <2>4, AllKept
  <1>5. ASSUME NEW c \in Conn, FNext, NEW r \in Room, NEW n \in Name, NEW o \in Owner, NEW inst,
               NEW after \in -1 .. (db.last + 1), Join(c, r, n, o, inst, after),
               peer' = [peer EXCEPT ![c] =
                          IF conns'[c].phase = "serving" THEN Joining(r, inst, after) ELSE Nobody]
        PROVE  FeedInv'
    <2>0. after \in Int
      BY <1>0 DEF Databases
    <2>1. ASSUME NEW d \in Conn
          PROVE  /\ Commits
                 /\ Active(conns'[d]) => /\ d # c => Goes(d) /\ Hears(d)
                                         /\ d = c => Begins(c, r, n, o, inst, after)
      BY <1>0, <1>5, <2>0, JoinMoves
    <2>2. ServerInv' /\ Numbered' /\ db.last <= db'.last
          /\ DOMAIN sessions' \subseteq Room \X Name /\ db'.last \in Nat
      BY <1>3, <1>5, <2>1
    <2>3. ASSUME NEW d \in Conn, Active(conns'[d]) PROVE Kept(d)
      <3>1. CASE d # c
        <4>1. peer'[d] = peer[d]
          BY <1>0, <1>5, <3>1
        <4> QED BY <2>1, <2>2, <2>3, <3>1, <4>1, GoneOn
      <3>2. CASE d = c
        <4>1. peer'[c] = Joining(r, inst, after)
          BY <1>0, <1>5, <2>3, <3>2 DEF Active
        <4>2. Begins(c, r, n, o, inst, after)
          BY <2>1, <2>3, <3>2
        <4> QED BY <2>2, <3>2, <4>1, <4>2, BegunKept
      <3> QED BY <3>1, <3>2
    <2>4. peer' = [e \in Conn |-> peer'[e]]
      BY <1>0, <1>5
    <2> QED BY <2>2, <2>3, <2>4, AllKept
  <1>6. ASSUME NEW c \in Conn, FNext, WriteFrame(c),
               peer' = [peer EXCEPT ![c] = Apply(@, Head(conns[c].outgoing))]
        PROVE  FeedInv'
    <2>1. ASSUME NEW d \in Conn
          PROVE  /\ Commits
                 /\ Active(conns'[d]) => Goes(d) /\ (d # c => Rests(d)) /\ (d = c => IsRead(c))
      BY <1>0, <1>6, WriteMoves
    <2>2. ServerInv' /\ Numbered' /\ db.last <= db'.last /\ db'.last \in Nat
      BY <1>3, <1>6, <2>1
    <2>3. ASSUME NEW d \in Conn, Active(conns'[d]) PROVE Kept(d)
      <3>1. CASE d # c
        <4>1. peer'[d] = peer[d]
          BY <1>0, <1>6, <3>1
        <4> QED BY <2>1, <2>2, <2>3, <3>1, <4>1, GoneOn DEF Hears
      <3>2. CASE d = c
        <4>1. peer'[c] = Apply(peer[c], Head(conns[c].outgoing))
          BY <1>0, <1>6
        <4>2. IsRead(c) /\ Active(conns[c])
          BY <2>1, <2>3, <3>2 DEF Goes
        <4> QED BY <2>2, <3>2, <4>1, <4>2, ReadKept
      <3> QED BY <3>1, <3>2
    <2>4. peer' = [e \in Conn |-> peer'[e]]
      BY <1>0, <1>6
    <2> QED BY <2>2, <2>3, <2>4, AllKept
  <1>7. ASSUME NEW c \in Conn, FNext, Request(c), UNCHANGED peer PROVE FeedInv'
    <2>1. ASSUME NEW d \in Conn
          PROVE  /\ Commits
                 /\ Active(conns'[d]) =>
                       /\ Goes(d)
                       /\ \/ Hears(d) \/ HearsError(d) \/ HearsItsOwn(d) \/ GetsPage(d)
                          \/ \E before : GetsOlder(d, before)
      BY <1>0, <1>7, RequestMoves
    <2>2. ServerInv' /\ Numbered' /\ db.last <= db'.last
      BY <1>3, <1>7, <2>1
    <2>3. ASSUME NEW d \in Conn, Active(conns'[d]) PROVE Kept(d)
      <3>1. peer'[d] = peer[d]
        BY <1>7
      <3> QED BY <2>1, <2>2, <2>3, <3>1, GoneOn
    <2>4. peer' = [e \in Conn |-> peer'[e]]
      BY <1>0, <1>7
    <2> QED BY <2>2, <2>3, <2>4, AllKept
  <1>8. ASSUME NEW c \in Conn, FNext, Leave(c), peer' = [peer EXCEPT ![c] = Nobody] PROVE FeedInv'
    <2>1. ASSUME NEW d \in Conn
          PROVE  Commits /\ (Active(conns'[d]) => d # c /\ Goes(d) /\ HearsPresence(d))
      BY <1>0, <1>8, LeaveMoves
    <2>2. ServerInv' /\ Numbered' /\ db.last <= db'.last
      BY <1>3, <1>8, <2>1
    <2>3. ASSUME NEW d \in Conn, Active(conns'[d]) PROVE Kept(d)
      <3>1. d # c /\ peer'[d] = peer[d]
        BY <1>0, <1>8, <2>1, <2>3
      <3> QED BY <2>1, <2>2, <2>3, <3>1, GoneOn DEF Hears
    <2>4. peer' = [e \in Conn |-> peer'[e]]
      BY <1>0, <1>8
    <2> QED BY <2>2, <2>3, <2>4, AllKept
  <1>9. ASSUME FNext, UNCHANGED peer,
               (\E c \in Conn : Cancel(c)) \/ Close \/ \E upTo : Age(upTo)
        PROVE  FeedInv'
    <2>1. Commits
      BY <1>9 DEF Cancel, Close, Age, Commits
    <2>2. ServerInv' /\ Numbered' /\ db.last <= db'.last
      BY <1>3, <1>9, <2>1
    <2>3. ASSUME NEW d \in Conn, Active(conns'[d]) PROVE Kept(d)
      <3>1. peer'[d] = peer[d]
        BY <1>9
      <3>2. Goes(d) /\ Rests(d)
        BY <1>0, <1>9, <2>3, IdleMoves
      <3> QED BY <2>2, <2>3, <3>1, <3>2, GoneOn DEF Hears
    <2>4. peer' = [e \in Conn |-> peer'[e]]
      BY <1>0, <1>9
    <2> QED BY <2>2, <2>3, <2>4, AllKept
  <1>10. ASSUME FNext, UNCHANGED peer, ClearHistory PROVE FeedInv'
    <2>1. Commits
      BY <1>10 DEF ClearHistory, Commits
    <2>2. ServerInv' /\ Numbered' /\ db.last <= db'.last
      BY <1>3, <1>10, <2>1
    <2>3. ASSUME NEW d \in Conn, Active(conns'[d]) PROVE Kept(d)
      <3>1. peer'[d] = peer[d]
        BY <1>10
      <3>2. Goes(d) /\ IsCleared(d)
        BY <1>0, <1>10, <2>3, ClearMoves
      <3> QED BY <2>2, <2>3, <3>1, <3>2, GoneOn
    <2>4. peer' = [e \in Conn |-> peer'[e]]
      BY <1>0, <1>10
    <2> QED BY <2>2, <2>3, <2>4, AllKept
  <1>11. ASSUME FNext, Restart, peer' = [e \in Conn |-> Nobody] PROVE FeedInv'
    <2>1. Commits
      <3>1. db' = db
        BY <1>11 DEF Restart
      <3> QED BY <3>1 DEF Commits
    <2>2. ServerInv' /\ Numbered'
      BY <1>3, <1>11, <2>1
    <2>3. ASSUME NEW d \in Conn PROVE ~Active(conns'[d])
      <3>1. conns'[d] = Free
        BY <1>11 DEF Restart
      <3> QED BY <3>1 DEF Active, Free
    <2>4. peer' = [e \in Conn |-> peer'[e]]
      BY <1>11
    <2> QED BY <2>2, <2>3, <2>4, AllKept
  <1>12. ASSUME NEW c \in Conn, FNext, FConnect(c) PROVE FeedInv'
    <2>1. CASE UNCHANGED peer /\ \/ Accept(c) \/ JoinTimeout(c) \/ JoinClosed(c) \/ WriteRefusal(c)
                                 \/ \E code \in JoinFailures : JoinInvalid(c, code)
                                 \/ \E r \in Room, n \in Name : JoinStorageError(c, r, n)
      BY <1>4, <1>12, <2>1
    <2>2. ASSUME NEW r \in Room, NEW n \in Name, NEW o \in Owner,
                 NEW inst \in {NoInstance, InstanceID(db, r)}, NEW after \in -1 .. (db.last + 1),
                 Join(c, r, n, o, inst, after),
                 peer' = [peer EXCEPT ![c] =
                            IF conns'[c].phase = "serving" THEN Joining(r, inst, after)
                                                           ELSE Nobody]
          PROVE  FeedInv'
      BY <1>5, <1>12, <2>2
    <2> QED BY <1>12, <2>1, <2>2 DEF FConnect
  <1>13. CASE FNext
    <2>1. ASSUME NEW c \in Conn, Cancel(c), UNCHANGED peer PROVE FeedInv'
      BY <1>9, <1>13, <2>1
    <2>2. ASSUME ClearHistory \/ Close \/ \E upTo \in 1 .. db.last : upTo <= MaxAge /\ Age(upTo),
                 UNCHANGED peer
          PROVE  FeedInv'
      BY <1>9, <1>10, <1>13, <2>2
    <2>3. CASE Restart /\ peer' = [e \in Conn |-> Nobody]
      BY <1>11, <1>13, <2>3
    <2> QED BY <1>6, <1>7, <1>8, <1>12, <1>13, <2>1, <2>2, <2>3 DEF FNext
  <1> QED BY <1>1, <1>13

\* Nobody is connected to begin with.
LEMMA FeedInit == FInit => FeedInv
  <1> SUFFICES ASSUME FInit PROVE FeedInv
    OBVIOUS
  <1>1. ServerInv
    BY ServerInit DEF FInit
  <1>2. Numbered
    BY DEF FInit, Init, NewDb, Numbered
  <1>3. \A c \in Conn : ~Active(conns[c])
    BY DEF FInit, Init, Free, Active
  <1>4. peer = [c \in Conn |-> peer[c]]
    BY DEF FInit
  <1> QED BY <1>1, <1>2, <1>3, <1>4 DEF FeedInv

-----------------------------------------------------------------------------
(* Reading one frame after another                                         *)

\* The numbers are those that can be counted to.
LEMMA Counting ==
    ASSUME NEW S \in SUBSET Nat, 0 \in S, \A k \in S : k + 1 \in S
    PROVE  S = Nat
  <1> SUFFICES ASSUME Nat \ S # {} PROVE FALSE
    OBVIOUS
  <1> DEFINE T == Nat \ S
  <1>1. PICK x \in T : \A y \in T : x <= y
    <2>1. T \in SUBSET Nat /\ T # {}
      OBVIOUS
    <2> HIDE DEF T
    <2> QED BY <2>1, NatMin
  <1>2. x # 0 /\ x - 1 \in Nat /\ x - 1 \notin T
    BY <1>1
  <1>3. x - 1 \in S
    BY <1>2
  <1>4. (x - 1) + 1 \in S
    BY <1>3
  <1> QED BY <1>1, <1>4

\* f is what is known after each number of frames of G, up to n.
Knows(f, p, G, n) == f = [k \in 0 .. n |-> IF k = 0 THEN p ELSE Apply(f[k - 1], G[k])]

\* Which is well defined.
LEMMA KnownExists ==
    ASSUME NEW p, NEW G, NEW n \in Nat
    PROVE  \E f : Knows(f, p, G, n)
  <1> DEFINE S == {m \in Nat : \E f : Knows(f, p, G, m)}
  <1>1. 0 \in S
    <2>1. [k \in 0 .. 0 |-> p] = [k \in 0 .. 0 |-> IF k = 0 THEN p ELSE Apply([j \in 0 .. 0 |-> p][k - 1], G[k])]
      OBVIOUS
    <2>2. Knows([k \in 0 .. 0 |-> p], p, G, 0)
      BY <2>1 DEF Knows
    <2> QED BY <2>2
  <1>2. ASSUME NEW m \in S PROVE m + 1 \in S
    <2>0. PICK f : Knows(f, p, G, m)
      OBVIOUS
    <2>1. f = [k \in 0 .. m |-> IF k = 0 THEN p ELSE Apply(f[k - 1], G[k])]
      BY <2>0 DEF Knows
    <2> DEFINE g == [k \in 0 .. (m + 1) |-> IF k = m + 1 THEN Apply(f[m], G[m + 1]) ELSE f[k]]
               h == [k \in 0 .. (m + 1) |-> IF k = 0 THEN p ELSE Apply(g[k - 1], G[k])]
    <2>2. ASSUME NEW k \in 0 .. (m + 1) PROVE g[k] = h[k]
      <3>1. CASE k = m + 1
        <4>1. g[k] = Apply(f[m], G[m + 1]) /\ g[m] = f[m] /\ k # 0 /\ k - 1 = m
          BY <3>1
        <4>2. h[k] = Apply(g[k - 1], G[k])
          BY <4>1
        <4> QED BY <3>1, <4>1, <4>2
      <3>2. CASE k = 0
        <4>1. g[k] = f[k] /\ h[k] = p
          BY <3>2
        <4>2. f[k] = p
          BY <2>1, <3>2
        <4> QED BY <4>1, <4>2
      <3>3. CASE k \in 1 .. m
        <4>1. g[k] = f[k] /\ g[k - 1] = f[k - 1] /\ h[k] = Apply(g[k - 1], G[k])
          BY <3>3
        <4>2. f[k] = Apply(f[k - 1], G[k])
          BY <2>1, <3>3
        <4> QED BY <4>1, <4>2
      <3> QED BY <3>1, <3>2, <3>3
    <2>3. g = h
      BY <2>2
    <2>4. Knows(g, p, G, m + 1)
      BY <2>3 DEF Knows
    <2> QED BY <2>4
  <1> HIDE DEF S
  <1>3. S = Nat
    <2>1. S \in SUBSET Nat
      BY DEF S
    <2> QED BY <1>1, <1>2, <2>1, Counting
  <1> QED BY <1>3 DEF S

\* The client applies the frames in order.
LEMMA AppliedFacts ==
    ASSUME NEW S, NEW p, NEW G \in Seq(S)
    PROVE  /\ Applied(p, G)[0] = p
           /\ \A k \in 1 .. Len(G) : Applied(p, G)[k] = Apply(Applied(p, G)[k - 1], G[k])
  <1> DEFINE known[k \in 0 .. Len(G)] == IF k = 0 THEN p ELSE Apply(known[k - 1], G[k])
  <1>1. Applied(p, G) = known
    BY DEF Applied
  <1>2. Len(G) \in Nat
    OBVIOUS
  <1>3. known = CHOOSE f : f = [k \in 0 .. Len(G) |-> IF k = 0 THEN p ELSE Apply(f[k - 1], G[k])]
    BY DEF known
  <1>4. known = CHOOSE f : Knows(f, p, G, Len(G))
    BY <1>3 DEF Knows
  <1> HIDE DEF known
  <1>5. Knows(known, p, G, Len(G))
    BY <1>2, <1>4, KnownExists
  <1>6. known = [k \in 0 .. Len(G) |-> IF k = 0 THEN p ELSE Apply(known[k - 1], G[k])]
    BY <1>5 DEF Knows
  <1> QED BY <1>1, <1>2, <1>6

\* s with its first k frames read.
Later(s, k) == [s EXCEPT !.outgoing = SubSeq(@, k + 1, Len(@))]

\* However many frames the client has read, the rest will make it what it should be.
LEMMA ReadOn ==
    ASSUME NEW n \in Nat, NEW s \in SessionsOf(n), NEW p, NEW rows, NEW users,
           Ids(rows) \subseteq Nat, \A x \in Ids(rows) : 0 < x,
           Serves(n, rows, users, s, p)
    PROVE  \A k \in 0 .. Len(s.outgoing) :
              /\ Later(s, k) \in SessionsOf(n)
              /\ Serves(n, rows, users, Later(s, k), Applied(p, s.outgoing)[k])
  <1> DEFINE G == s.outgoing
             L == Len(G)
             F == SoundFrames(n)
             A == Applied(p, G)
             P(k) == k <= L => /\ Later(s, k) \in SessionsOf(n)
                               /\ Serves(n, rows, users, Later(s, k), A[k])
             S == {k \in Nat : P(k)}
  <1>1. G \in Seq(F) /\ L \in Nat /\ s \in Sessions
    BY DEF SessionsOf
  <1>2. A[0] = p /\ \A k \in 1 .. L : A[k] = Apply(A[k - 1], G[k])
    BY <1>1, AppliedFacts
  <1>3. F \subseteq Frames
    BY DEF SoundFrames
  <1> HIDE DEF A, F
  <1>4. ASSUME NEW k \in 0 .. L PROVE Later(s, k) \in SessionsOf(n)
    <2>1. \A i \in (k + 1) .. L : G[i] \in F
      BY <1>1
    <2> DEFINE Q == SubSeq(G, k + 1, L)
    <2>2. Q \in Seq(F)
      BY <1>1, <1>4, <2>1, SubSeqProperties
    <2>3. Q \in Seq(Frames)
      BY <1>3, <2>2
    <2>4. Later(s, k) = [s EXCEPT !.outgoing = Q]
      BY DEF Later
    <2> HIDE DEF Q
    <2>5. Later(s, k) \in Sessions
      BY <1>1, <2>3, <2>4 DEF Sessions
    <2>6. /\ Later(s, k).outgoing = Q /\ Later(s, k).deferred = s.deferred
          /\ Later(s, k).through = s.through
      BY <1>1, <2>4 DEF Sessions
    <2> QED BY <2>2, <2>5, <2>6 DEF SessionsOf, F
  <1>5. 0 \in S
    <2>1. SubSeq(G, 1, L) = G
      BY <1>1, SubSeqFull
    <2>2. Later(s, 0) = s
      BY <1>1, <2>1 DEF Later, Sessions
    <2> QED BY <1>2, <2>2
  <1>6. ASSUME NEW k \in S PROVE k + 1 \in S
    <2> SUFFICES ASSUME k + 1 <= L
                 PROVE  /\ Later(s, k + 1) \in SessionsOf(n)
                        /\ Serves(n, rows, users, Later(s, k + 1), A[k + 1])
      OBVIOUS
    <2>1. k \in Nat /\ k \in 0 .. L /\ k + 1 \in 0 .. L /\ k + 1 \in 1 .. L /\ L \in (k + 1) .. L
          /\ k <= L /\ (k + 1) - 1 = k
      BY <1>1
    <2> DEFINE t == Later(s, k)
               u == Later(s, k + 1)
    <2>2. t \in SessionsOf(n) /\ Serves(n, rows, users, t, A[k])
      BY <1>6, <2>1
    <2>3. u \in SessionsOf(n)
      BY <1>4, <2>1
    <2>4. /\ Head(SubSeq(G, k + 1, L)) = G[k + 1]
          /\ Tail(SubSeq(G, k + 1, L)) = SubSeq(G, (k + 1) + 1, L)
      BY <1>1, <2>1, HeadTailOfSubSeq
    <2>5. t.outgoing = SubSeq(G, k + 1, L)
      BY <1>1 DEF Later, Sessions
    <2>6. SubSeq(G, k + 1, L) # <<>>
      <3>1. \A i \in (k + 1) .. L : G[i] \in F
        BY <1>1, <2>1
      <3> DEFINE Q == SubSeq(G, k + 1, L)
      <3>2. Len(Q) = L - (k + 1) + 1
        BY <1>1, <2>1, <3>1, SubSeqProperties
      <3> HIDE DEF Q, L, G
      <3>3. Len(Q) # 0
        BY <1>1, <2>1, <3>2
      <3>4. Q # <<>>
        BY <3>3
      <3> QED BY <3>4 DEF Q
    <2>7. u = [t EXCEPT !.outgoing = Tail(@)]
      <3>1. t = [s EXCEPT !.outgoing = SubSeq(G, k + 1, L)]
        BY DEF Later
      <3>2. u = [s EXCEPT !.outgoing = SubSeq(G, (k + 1) + 1, L)]
        BY DEF Later
      <3>3. Tail(t.outgoing) = SubSeq(G, (k + 1) + 1, L)
        BY <2>4, <2>5
      <3> HIDE DEF t, u
      <3> QED BY <1>1, <3>1, <3>2, <3>3 DEF Sessions
    <2>8. A[k + 1] = Apply(A[k], Head(t.outgoing)) /\ t.outgoing # <<>>
      BY <1>2, <2>1, <2>4, <2>5, <2>6
    <2> HIDE DEF t, u, S, G, L
    <2>9. Feeds(n, rows, t, A[k]) /\ Agrees(t, A[k]) /\ Presents(t, A[k], users)
      BY <2>2 DEF Serves
    <2>10. A[k] \in Peers(n)
      BY <2>9 DEF Feeds
    <2>11. Feeds(n, rows, u, A[k + 1])
      BY <2>2, <2>7, <2>8, <2>9, ReadFeeds
    <2>12. Agrees(u, A[k + 1]) /\ Presents(u, A[k + 1], users)
      BY <2>2, <2>7, <2>8, <2>9, <2>10, ReadTold
    <2> QED BY <2>3, <2>11, <2>12 DEF Serves, u
  <1>7. S = Nat
    <2>1. S \in SUBSET Nat
      OBVIOUS
    <2> HIDE DEF S
    <2> QED BY <1>5, <1>6, <2>1, Counting
  <1> SUFFICES ASSUME NEW k \in 0 .. L
               PROVE  Later(s, k) \in SessionsOf(n) /\ Serves(n, rows, users, Later(s, k), A[k])
    BY DEF A
  <1>8. k \in S /\ k <= L
    BY <1>1, <1>7
  <1> QED BY <1>8

\* The client that has read its queue.
LEMMA QueueRead ==
    ASSUME NEW n \in Nat, NEW s \in SessionsOf(n), NEW p, NEW rows, NEW users,
           Ids(rows) \subseteq Nat, \A x \in Ids(rows) : 0 < x,
           Serves(n, rows, users, s, p)
    PROVE  LET q == Applied(p, s.outgoing)[Len(s.outgoing)]
               t == [s EXCEPT !.outgoing = <<>>]
           IN  t \in SessionsOf(n) /\ Serves(n, rows, users, t, q)
  <1> DEFINE L == Len(s.outgoing)
             t == [s EXCEPT !.outgoing = <<>>]
  <1>1. L \in Nat /\ s.outgoing \in Seq(SoundFrames(n))
    BY DEF SessionsOf
  <1>2. SubSeq(s.outgoing, L + 1, L) = <<>>
    BY <1>1, SubSeqEmpty
  <1>3. Later(s, L) = t
    BY <1>2 DEF Later
  <1>4. L \in 0 .. L
    BY <1>1
  <1>5. /\ Later(s, L) \in SessionsOf(n)
        /\ Serves(n, rows, users, Later(s, L), Applied(p, s.outgoing)[L])
    BY <1>4, ReadOn
  <1> QED BY <1>3, <1>5

\* What was held back is news, which the client reads like this.
HeldTypes == {"message", "recalled", "presence"}

\* One such frame: it puts its message in place of an older form of it, or says
\* who is present.
LEMMA HeldMoves ==
    ASSUME NEW n \in Nat, NEW z \in Peers(n), NEW f \in SoundFrames(n), f.type \in HeldTypes
    PROVE  LET w == Apply(z, f)
           IN  /\ w \in Peers(n) /\ w.floor = z.floor
               /\ Ids(z.copy) \subseteq Ids(w.copy)
               /\ f.type = "message" => f.message.id \in Ids(w.copy)
               /\ \A m \in w.copy : \/ m \in Brings(f)
                                    \/ /\ m \in z.copy
                                       /\ f.type = "recalled" => f.message.id # m.id
               /\ w.users = IF f.type = "presence" THEN f.users ELSE z.users
  <1> DEFINE w == Apply(z, f)
             U == Upto(z.cursor, Brings(f))
             N == {m \in z.copy : m.id \notin Ids(Brings(f))} \cup Brings(f)
  <1>1. f \in Frames /\ f.type \in {"message", "recalled", "presence"}
    BY DEF SoundFrames, HeldTypes
  <1>2. Brings(f) \in SUBSET Row /\ Ids(Brings(f)) \in SUBSET (0 .. n)
    BY BringsTyped
  <1>3. /\ z.copy \in SUBSET Row /\ z.floor \in Nat /\ z.cursor \in 0 .. n
        /\ z.users \in SUBSET Name /\ z.more \in BOOLEAN /\ \A m \in z.copy : m.id <= z.cursor
    BY DEF Peers
  <1>4. /\ U \in 0 .. n /\ z.cursor <= U
        /\ \A x \in Ids(Brings(f)) : x <= U
    BY <1>2, <1>3, UptoFacts
  <1>5. f.type \in {"sync", "history", "message", "ack"} =>
           /\ w.copy = N /\ w.cursor = U /\ w.floor = z.floor /\ w.users = z.users
           /\ w.more = IF f.type = "sync" THEN f.hasMore ELSE z.more
    BY <1>1, ApplyFacts
  <1>6. f.type = "recalled" /\ f.message.id \in Ids(z.copy) =>
           /\ w.copy = N /\ w.cursor = U /\ w.floor = z.floor /\ w.users = z.users /\ w.more = z.more
    BY <1>1, ApplyFacts
  <1>7. f.type = "recalled" /\ f.message.id \notin Ids(z.copy) => w = z
    BY <1>1, ApplyFacts
  <1>8. f.type \in {"sync_complete", "error", "welcome", "presence"} =>
           /\ w.copy = z.copy /\ w.floor = z.floor /\ w.cursor = z.cursor
           /\ w.users = IF f.type \in {"welcome", "presence"} THEN f.users ELSE z.users
           /\ w.more = IF f.type = "sync_complete" THEN FALSE ELSE z.more
    BY <1>1, ApplyFacts
  <1>9. w = [copy |-> w.copy, floor |-> w.floor, cursor |-> w.cursor,
             users |-> w.users, more |-> w.more]
    BY <1>1, ApplyFacts
  <1>10. f.type = "presence" => f.users \in SUBSET Name
    BY <1>1 DEF Frames
  <1>11. f.type \in {"message", "recalled"} => Brings(f) = {f.message}
    BY DEF Brings
  <1> HIDE DEF w, U, N
  <1>12. /\ N \in SUBSET Row /\ \A m \in N : m.id <= U
         /\ Ids(z.copy) \subseteq Ids(N) /\ \A m \in Brings(f) : m.id \in Ids(N)
         /\ \A m \in N : m \in Brings(f) \/ (m \in z.copy /\ m.id \notin Ids(Brings(f)))
    <2>1. N \in SUBSET Row /\ \A m \in N : m \in Brings(f) \/ (m \in z.copy /\ m.id \notin Ids(Brings(f)))
      BY <1>2, <1>3 DEF N
    <2>2. ASSUME NEW m \in N PROVE m.id <= U
      <3>1. CASE m \in Brings(f)
        BY <1>4, <3>1 DEF Ids
      <3>2. CASE m \in z.copy
        <4>1. m.id \in Nat /\ m.id <= z.cursor
          BY <1>3, <3>2 DEF Row
        <4> QED BY <1>3, <1>4, <4>1
      <3> QED BY <2>1, <3>1, <3>2
    <2>3. \A m \in Brings(f) : m.id \in Ids(N)
      BY DEF N, Ids
    <2>4. \A m \in z.copy : m.id \in Ids(N)
      BY DEF N, Ids
    <2> QED BY <2>1, <2>2, <2>3, <2>4 DEF Ids
  <1>13. CASE f.type = "message" \/ (f.type = "recalled" /\ f.message.id \in Ids(z.copy))
    <2>1. w.copy = N /\ w.cursor = U /\ w.floor = z.floor /\ w.users = z.users /\ w.more = z.more
      BY <1>5, <1>6, <1>13
    <2>2. w \in Peers(n)
      BY <1>3, <1>4, <1>9, <1>12, <2>1 DEF Peers
    <2>3. Brings(f) = {f.message} /\ f.message.id \in Ids(Brings(f))
      BY <1>11, <1>13 DEF Ids
    <2>4. f.message.id \in Ids(w.copy)
      BY <1>12, <2>1, <2>3
    <2>5. \A m \in w.copy : m \in Brings(f) \/ (m \in z.copy /\ f.message.id # m.id)
      BY <1>12, <2>1, <2>3
    <2>6. f.type # "presence"
      BY <1>13
    <2> QED BY <1>12, <2>1, <2>2, <2>4, <2>5, <2>6 DEF w
  <1>14. CASE f.type = "recalled" /\ f.message.id \notin Ids(z.copy)
    <2>1. w = z
      BY <1>7, <1>14
    <2>2. \A m \in z.copy : f.message.id # m.id
      BY <1>14 DEF Ids
    <2> QED BY <1>14, <2>1, <2>2 DEF w
  <1>15. CASE f.type = "presence"
    <2>1. w.copy = z.copy /\ w.floor = z.floor /\ w.cursor = z.cursor /\ w.users = f.users
          /\ w.more = z.more
      BY <1>8, <1>15
    <2>2. w \in Peers(n)
      BY <1>3, <1>9, <1>10, <1>15, <2>1 DEF Peers
    <2> QED BY <1>15, <2>1, <2>2 DEF w
  <1> QED BY <1>1, <1>13, <1>14, <1>15

\* z is what the client knows that knew q, after the first k frames of what was held back.
ReadHeld(n, rows, q, D, k, z) ==
    /\ z \in Peers(n) /\ z.floor = q.floor /\ Ids(q.copy) \subseteq Ids(z.copy)
    /\ \A j \in 1 .. k : D[j].type = "message" => D[j].message.id \in Ids(z.copy)
    /\ \A x \in z.copy : x \in rows \/ Replaced(x, D, k)
    /\ \/ \E j \in 1 .. k : /\ D[j].type = "presence" /\ D[j].users = z.users
                            /\ \A l \in 1 .. k : l > j => D[l].type # "presence"
       \/ z.users = q.users /\ \A j \in 1 .. k : D[j].type # "presence"

\* One more frame of it.
LEMMA HeldStep ==
    ASSUME NEW n \in Nat, NEW D \in Seq(SoundFrames(n)), NEW q \in Peers(n), NEW rows,
           NEW k \in Nat, k + 1 <= Len(D), D[k + 1].type \in HeldTypes,
           \A x \in Brings(D[k + 1]) : x \in rows \/ Replaced(x, D, k + 1),
           NEW z, ReadHeld(n, rows, q, D, k, z)
    PROVE  ReadHeld(n, rows, q, D, k + 1, Apply(z, D[k + 1]))
  <1> DEFINE f == D[k + 1]
             w == Apply(z, f)
  <1>1. Len(D) \in Nat /\ k + 1 \in 1 .. Len(D) /\ DOMAIN D = 1 .. Len(D)
    OBVIOUS
  <1>2. f \in SoundFrames(n)
    BY <1>1
  <1>3. f.type \in {"message", "recalled", "presence"}
    BY DEF HeldTypes
  <1>4. /\ z \in Peers(n) /\ z.floor = q.floor /\ Ids(q.copy) \subseteq Ids(z.copy)
        /\ \A j \in 1 .. k : D[j].type = "message" => D[j].message.id \in Ids(z.copy)
        /\ \A x \in z.copy : x \in rows \/ Replaced(x, D, k)
        /\ \/ \E j \in 1 .. k : /\ D[j].type = "presence" /\ D[j].users = z.users
                                /\ \A l \in 1 .. k : l > j => D[l].type # "presence"
           \/ z.users = q.users /\ \A j \in 1 .. k : D[j].type # "presence"
    BY DEF ReadHeld
  <1>5. /\ w \in Peers(n) /\ w.floor = z.floor
        /\ Ids(z.copy) \subseteq Ids(w.copy)
        /\ f.type = "message" => f.message.id \in Ids(w.copy)
        /\ \A m \in w.copy : \/ m \in Brings(f)
                             \/ /\ m \in z.copy
                                /\ f.type = "recalled" => f.message.id # m.id
        /\ w.users = IF f.type = "presence" THEN f.users ELSE z.users
    <2>1. f.type \in HeldTypes
      OBVIOUS
    <2> HIDE DEF f
    <2> QED BY <1>2, <1>4, <2>1, HeldMoves
  <1> HIDE DEF w
  <1>6. \A j \in 1 .. (k + 1) : j = k + 1 \/ j \in 1 .. k
    OBVIOUS
  <1>7. ASSUME NEW j \in 1 .. (k + 1), D[j].type = "message"
        PROVE  D[j].message.id \in Ids(w.copy)
    BY <1>4, <1>5, <1>6, <1>7
  <1>8. ASSUME NEW x \in w.copy PROVE x \in rows \/ Replaced(x, D, k + 1)
    <2>1. CASE x \in Brings(f)
      BY <2>1
    <2>2. CASE x \in z.copy /\ (f.type = "recalled" => f.message.id # x.id)
      <3>1. CASE x \in rows
        BY <3>1
      <3>2. CASE Replaced(x, D, k)
        <4>1. PICK j \in DOMAIN D : j > k /\ D[j].type = "recalled" /\ D[j].message.id = x.id
          BY <3>2 DEF Replaced
        <4>2. j # k + 1
          BY <2>2, <4>1
        <4>3. j > k + 1
          BY <1>1, <4>1, <4>2
        <4> QED BY <4>1, <4>3 DEF Replaced
      <3> QED BY <1>4, <2>2, <3>1, <3>2
    <2> QED BY <1>5, <2>1, <2>2
  <1>9. \/ \E j \in 1 .. (k + 1) : /\ D[j].type = "presence" /\ D[j].users = w.users
                                   /\ \A l \in 1 .. (k + 1) : l > j => D[l].type # "presence"
        \/ w.users = q.users /\ \A j \in 1 .. (k + 1) : D[j].type # "presence"
    <2>1. CASE f.type = "presence"
      <3>1. k + 1 \in 1 .. (k + 1) /\ \A l \in 1 .. (k + 1) : ~(l > k + 1)
        OBVIOUS
      <3>2. D[k + 1].users = w.users
        BY <1>5, <2>1
      <3> QED BY <2>1, <3>1, <3>2
    <2>2. CASE f.type # "presence"
      <3>1. w.users = z.users
        BY <1>5, <2>2
      <3>2. CASE z.users = q.users /\ \A j \in 1 .. k : D[j].type # "presence"
        BY <1>6, <2>2, <3>1, <3>2
      <3>3. ASSUME NEW j \in 1 .. k, D[j].type = "presence", D[j].users = z.users,
                   \A l \in 1 .. k : l > j => D[l].type # "presence"
            PROVE  \E i \in 1 .. (k + 1) : /\ D[i].type = "presence" /\ D[i].users = w.users
                                           /\ \A l \in 1 .. (k + 1) : l > i => D[l].type # "presence"
        <4>1. j \in 1 .. (k + 1)
          OBVIOUS
        <4>2. \A l \in 1 .. (k + 1) : l > j => D[l].type # "presence"
          BY <1>6, <2>2, <3>3
        <4> QED BY <3>1, <3>3, <4>1, <4>2
      <3> QED BY <1>4, <3>2, <3>3
    <2> QED BY <2>1, <2>2
  <1>10. w.floor = q.floor /\ Ids(q.copy) \subseteq Ids(w.copy)
    BY <1>4, <1>5
  <1> QED BY <1>5, <1>7, <1>8, <1>9, <1>10 DEF ReadHeld, w

\* All of it.
LEMMA HeldRead ==
    ASSUME NEW n \in Nat, NEW D \in Seq(SoundFrames(n)), NEW q \in Peers(n), NEW rows,
           \A k \in DOMAIN D : D[k].type \in HeldTypes,
           \A k \in DOMAIN D : \A x \in Brings(D[k]) : x \in rows \/ Replaced(x, D, k),
           \A x \in q.copy : x \in rows \/ Replaced(x, D, 0)
    PROVE  LET z == Applied(q, D)[Len(D)]
           IN  /\ z.copy \subseteq rows /\ z.floor = q.floor /\ Ids(q.copy) \subseteq Ids(z.copy)
               /\ \A j \in DOMAIN D : D[j].type = "message" => D[j].message.id \in Ids(z.copy)
               /\ \A U : Tells(D, U) => z.users = U
               /\ Without(D, Telling) => z.users = q.users
  <1> DEFINE L == Len(D)
             A == Applied(q, D)
             S == {k \in Nat : k <= L => ReadHeld(n, rows, q, D, k, A[k])}
  <1>1. L \in Nat /\ DOMAIN D = 1 .. L
    OBVIOUS
  <1>2. A[0] = q /\ \A k \in 1 .. L : A[k] = Apply(A[k - 1], D[k])
    BY AppliedFacts
  <1> HIDE DEF A
  <1>3. 0 \in S
    <2>1. ReadHeld(n, rows, q, D, 0, q)
      BY DEF ReadHeld
    <2> QED BY <1>2, <2>1
  <1>4. ASSUME NEW k \in S PROVE k + 1 \in S
    <2> SUFFICES ASSUME k + 1 <= L PROVE ReadHeld(n, rows, q, D, k + 1, A[k + 1])
      OBVIOUS
    <2>1. k \in Nat /\ k <= L /\ k + 1 \in 1 .. L /\ (k + 1) - 1 = k
      BY <1>1
    <2>2. ReadHeld(n, rows, q, D, k, A[k])
      BY <1>4, <2>1
    <2>3. A[k + 1] = Apply(A[k], D[k + 1])
      BY <1>2, <2>1
    <2>4. k + 1 \in DOMAIN D /\ k + 1 <= Len(D)
      BY <1>1, <2>1
    <2> HIDE DEF S, L
    <2> QED BY <2>1, <2>2, <2>3, <2>4, HeldStep
  <1>5. S = Nat
    <2>1. S \in SUBSET Nat
      OBVIOUS
    <2> HIDE DEF S
    <2> QED BY <1>3, <1>4, <2>1, Counting
  <1> DEFINE z == A[L]
  <1>6. ReadHeld(n, rows, q, D, L, z)
    BY <1>1, <1>5
  <1> HIDE DEF z, S
  <1>7. \A x : ~Replaced(x, D, L)
    BY <1>1 DEF Replaced
  <1>8. /\ z.copy \subseteq rows /\ z.floor = q.floor /\ Ids(q.copy) \subseteq Ids(z.copy)
        /\ \A j \in DOMAIN D : D[j].type = "message" => D[j].message.id \in Ids(z.copy)
    BY <1>1, <1>6, <1>7 DEF ReadHeld
  <1>9. \/ \E j \in DOMAIN D : /\ D[j].type = "presence" /\ D[j].users = z.users
                               /\ \A l \in DOMAIN D : l > j => D[l].type # "presence"
        \/ z.users = q.users /\ \A j \in DOMAIN D : D[j].type # "presence"
    BY <1>1, <1>6 DEF ReadHeld
  <1>10. \A j \in DOMAIN D : D[j].type \in Telling <=> D[j].type = "presence"
    BY DEF HeldTypes, Telling
  <1>11. ASSUME NEW U, Tells(D, U) PROVE z.users = U
    <2>1. PICK f : LastOf(D, Telling, f) /\ f.users = U
      BY <1>11 DEF Tells
    <2>2. PICK k \in DOMAIN D : /\ D[k] = f /\ f.type \in Telling
                                /\ \A l \in DOMAIN D : l > k => D[l].type \notin Telling
      BY <2>1 DEF LastOf
    <2>3. D[k].type = "presence" /\ \A l \in DOMAIN D : l > k => D[l].type # "presence"
      BY <1>10, <2>2
    <2>4. PICK j \in DOMAIN D : /\ D[j].type = "presence" /\ D[j].users = z.users
                                /\ \A l \in DOMAIN D : l > j => D[l].type # "presence"
      BY <1>9, <2>3
    <2>5. j = k
      <3>1. ~(j > k) /\ ~(k > j)
        BY <2>3, <2>4
      <3> QED BY <1>1, <3>1
    <2> QED BY <2>1, <2>2, <2>4, <2>5
  <1>12. Without(D, Telling) => z.users = q.users
    BY <1>9, <1>10 DEF Without
  <1> QED BY <1>8, <1>11, <1>12 DEF z, A

-----------------------------------------------------------------------------
(* The theorems                                                            *)

\* What the client of a live session knows once its queue is read (q), and once
\* it has read what was held back (z).
LEMMA WhatFollows ==
    ASSUME FeedInv, NEW c \in Conn, Active(conns[c])
    PROVE  LET s    == conns[c]
               rows == RoomRows(db, s.room)
               q    == Queued(c)
               z    == Final(c)
           IN  /\ q \in Peers(db.last) /\ Full(rows, q)
               /\ q.more = s.syncing
               /\ s.syncing => q.cursor = s.cursor
               /\ \A x \in Ids(rows) : q.cursor < x =>
                     \/ s.syncing /\ s.cursor < x /\ x <= s.through
                     \/ \E j \in DOMAIN s.deferred : /\ s.deferred[j].type = "message"
                                                     /\ s.deferred[j].message.id = x
               /\ z.copy \subseteq rows /\ z.floor = q.floor /\ Ids(q.copy) \subseteq Ids(z.copy)
               /\ \A j \in DOMAIN s.deferred : s.deferred[j].type = "message" =>
                     s.deferred[j].message.id \in Ids(z.copy)
               /\ z.users = Users(sessions, s.room)
  <1> DEFINE s     == conns[c]
             n     == db.last
             rows  == RoomRows(db, s.room)
             users == Users(sessions, s.room)
             D     == s.deferred
             q     == Queued(c)
             z     == Final(c)
             t     == [s EXCEPT !.outgoing = <<>>]
  <1>1. /\ n \in Nat /\ s \in SessionsOf(n) /\ s \in Sessions
        /\ Ids(rows) \subseteq Nat /\ \A x \in Ids(rows) : 0 < x
        /\ Serves(n, rows, users, s, peer[c])
    BY Before
  <1>2. q = Applied(peer[c], s.outgoing)[Len(s.outgoing)] /\ z = Applied(q, D)[Len(D)]
    BY DEF Queued, After, Final
  <1> HIDE DEF q, z, rows, users, n
  <1>3. t \in SessionsOf(n) /\ Serves(n, rows, users, t, q)
    BY <1>1, <1>2, QueueRead
  <1>4. /\ t.outgoing = <<>> /\ t.deferred = D /\ t.syncing = s.syncing
        /\ t.cursor = s.cursor /\ t.through = s.through
    BY <1>1 DEF Sessions
  <1> HIDE DEF t
  <1>5. D \in Seq(SoundFrames(n)) /\ s.syncing \in BOOLEAN
    BY <1>1 DEF SessionsOf, Sessions
  <1>6. /\ DOMAIN <<>> = {} /\ ~Overtaken(<<>>, 0) /\ At(q, <<>>) = q.cursor
        /\ \A x : ~Replaced(x, <<>>, 0) /\ ~Reached(<<>>, x)
        /\ \A types : ~ \E f : LastOf(<<>>, types, f)
    BY DEF Overtaken, At, Replaced, Reached, LastOf
  <1>7. /\ q \in Peers(n) /\ Full(rows, q) /\ Ordered(t, q.cursor) /\ Owed(rows, t, q.cursor)
        /\ Truthful(rows, t, q)
    BY <1>3, <1>4, <1>6 DEF Serves, Feeds
  <1>8. q.more = s.syncing
    BY <1>3, <1>4, <1>6 DEF Serves, Agrees
  <1>9. s.syncing => CatchingUp(t, q.cursor)
    BY <1>4, <1>7 DEF Ordered
  <1>10. ~s.syncing => D = <<>>
    BY <1>4, <1>7 DEF Ordered
  <1>11. s.syncing => q.cursor = s.cursor
    BY <1>4, <1>6, <1>9 DEF CatchingUp
  <1>12. \A k \in DOMAIN D : D[k].type \in HeldTypes
    <2>1. CASE s.syncing
      BY <1>4, <1>9, <2>1 DEF CatchingUp, HeldTypes
    <2>2. CASE ~s.syncing
      BY <1>6, <1>10, <2>2
    <2> QED BY <2>1, <2>2
  <1>13. /\ \A k \in DOMAIN D : \A x \in Brings(D[k]) : x \in rows \/ Replaced(x, D, k)
         /\ \A x \in q.copy : x \in rows \/ Replaced(x, D, 0)
    BY <1>4, <1>6, <1>7 DEF Truthful, Rightful
  <1>14. /\ z.copy \subseteq rows /\ z.floor = q.floor /\ Ids(q.copy) \subseteq Ids(z.copy)
         /\ \A j \in DOMAIN D : D[j].type = "message" => D[j].message.id \in Ids(z.copy)
         /\ \A U : Tells(D, U) => z.users = U
         /\ Without(D, Telling) => z.users = q.users
    <2> DEFINE w == Applied(q, D)[Len(D)]
    <2>1. z = w
      BY <1>2
    <2>2. /\ \A k \in DOMAIN D : \A x \in Brings(D[k]) : x \in rows \/ Replaced(x, D, k)
          /\ \A x \in q.copy : x \in rows \/ Replaced(x, D, 0)
          /\ n \in Nat /\ D \in Seq(SoundFrames(n)) /\ q \in Peers(n)
          /\ \A k \in DOMAIN D : D[k].type \in HeldTypes
      BY <1>1, <1>5, <1>7, <1>12, <1>13
    <2> HIDE DEF D
    <2>3. /\ w.copy \subseteq rows /\ w.floor = q.floor /\ Ids(q.copy) \subseteq Ids(w.copy)
          /\ \A j \in DOMAIN D : D[j].type = "message" => D[j].message.id \in Ids(w.copy)
          /\ \A U : Tells(D, U) => w.users = U
          /\ Without(D, Telling) => w.users = q.users
      BY <2>2, HeldRead
    <2> QED BY <2>1, <2>3
  <1>15. z.users = users
    BY <1>3, <1>4, <1>6, <1>14 DEF Serves, Presents, Tells
  <1>16. ASSUME NEW x \in Ids(rows), q.cursor < x
         PROVE  \/ s.syncing /\ s.cursor < x /\ x <= s.through
                \/ \E j \in DOMAIN D : D[j].type = "message" /\ D[j].message.id = x
    <2>1. Due(t, x)
      BY <1>7, <1>16 DEF Owed
    <2>2. CASE Reached(D, x)
      <3>1. PICK j \in DOMAIN D : Reaches(D[j], x)
        BY <2>2 DEF Reached
      <3>2. D[j].type \in {"message", "recalled", "presence"}
        BY <1>12 DEF HeldTypes
      <3>3. ~Starts(D[j])
        BY <3>2 DEF Starts
      <3>4. x \in Ids(Carries(D[j]))
        BY <3>1, <3>3 DEF Reaches
      <3>5. D[j].type = "message" /\ x = D[j].message.id
        BY <3>2, <3>4 DEF Carries, Ids
      <3> QED BY <3>5
    <2> QED BY <1>4, <1>6, <2>1, <2>2 DEF Due
  <1>17. /\ q \in Peers(n) /\ Full(rows, q)
         /\ q.more = s.syncing
         /\ s.syncing => q.cursor = s.cursor
         /\ \A x \in Ids(rows) : q.cursor < x =>
               \/ s.syncing /\ s.cursor < x /\ x <= s.through
               \/ \E j \in DOMAIN s.deferred : /\ s.deferred[j].type = "message"
                                               /\ s.deferred[j].message.id = x
         /\ z.copy \subseteq rows /\ z.floor = q.floor /\ Ids(q.copy) \subseteq Ids(z.copy)
         /\ \A j \in DOMAIN s.deferred : s.deferred[j].type = "message" =>
               s.deferred[j].message.id \in Ids(z.copy)
         /\ z.users = users
    BY <1>7, <1>8, <1>11, <1>14, <1>15, <1>16
  <1> QED BY <1>17 DEF n, rows, users, q, z

\* The sessions the properties are about.
LEMMA Listeners ==
    ASSUME FeedInv, NEW c \in Listening
    PROVE  c \in Conn /\ Active(conns[c])
  BY DEF Listening, Serving, Active

\* The frames under way and the pages still to be fetched make every live
\* client's copy equal to its room (CopyAgrees): no message of another room,
\* none missing, none in an outdated form, none that was recalled or cleared.
THEOREM CopiesAgree == FSpec => []CopyAgrees
  <1>1. ASSUME FeedInv PROVE CopyAgrees
    <2> SUFFICES ASSUME NEW c \in Listening
                 PROVE  /\ Final(c).copy \subseteq RoomRows(db, conns[c].room)
                        /\ {m \in RoomRows(db, conns[c].room) : m.id > Final(c).floor}
                              \subseteq Final(c).copy \cup Unsynced(c)
      BY DEF CopyAgrees
    <2> DEFINE s    == conns[c]
               rows == RoomRows(db, s.room)
               q    == Queued(c)
               z    == Final(c)
    <2>1. c \in Conn /\ Active(conns[c])
      BY <1>1, Listeners
    <2>2. db.last \in Nat /\ rows \subseteq Row /\ db \in Databases /\ Numbered
      BY <1>1, <2>1, Before
    <2>3. /\ q \in Peers(db.last) /\ Full(rows, q)
          /\ \A x \in Ids(rows) : q.cursor < x =>
                \/ s.syncing /\ s.cursor < x /\ x <= s.through
                \/ \E j \in DOMAIN s.deferred : /\ s.deferred[j].type = "message"
                                                /\ s.deferred[j].message.id = x
          /\ z.copy \subseteq rows /\ z.floor = q.floor /\ Ids(q.copy) \subseteq Ids(z.copy)
          /\ \A j \in DOMAIN s.deferred : s.deferred[j].type = "message" =>
                s.deferred[j].message.id \in Ids(z.copy)
      BY <1>1, <2>1, WhatFollows
    <2> HIDE DEF q, z
    <2>4. ASSUME NEW m \in rows, m.id > z.floor, m \notin Unsynced(c)
          PROVE  m \in z.copy
      <3>1. m.id \in Nat /\ m.id \in Ids(rows)
        BY <2>2 DEF Row, Ids
      <3>2. q.cursor \in Nat /\ q.floor \in Nat
        BY <2>2, <2>3 DEF Peers
      <3>3. m.id \in Ids(z.copy)
        <4>1. CASE m.id <= q.cursor
          BY <2>3, <2>4, <3>1, <3>2, <4>1 DEF Full
        <4>2. CASE q.cursor < m.id
          <5>1. ~(s.syncing /\ s.cursor < m.id /\ m.id <= s.through)
            BY <2>4 DEF Unsynced
          <5> QED BY <2>3, <3>1, <4>2, <5>1
        <4> QED BY <3>1, <3>2, <4>1, <4>2
      <3>4. PICK k \in z.copy : k.id = m.id
        BY <3>3 DEF Ids
      <3>5. k \in db.rows /\ m \in db.rows
        BY <2>3 DEF RoomRows
      <3> QED BY <2>2, <3>4, <3>5 DEF Numbered
    <2> QED BY <2>3, <2>4 DEF z
  <1> QED BY <1>1, FeedInit, FeedStep, PTL DEF FSpec

\* Every live client will have been told exactly who is in its room (UsersAgree).
THEOREM UsersAreTold == FSpec => []UsersAgree
  <1>1. ASSUME FeedInv PROVE UsersAgree
    <2> SUFFICES ASSUME NEW c \in Listening
                 PROVE  Final(c).users = Users(sessions, conns[c].room)
      BY DEF UsersAgree
    <2> QED BY <1>1, Listeners, WhatFollows
  <1> QED BY <1>1, FeedInit, FeedStep, PTL DEF FSpec

\* Server and client agree on whether another page is to be fetched, and on
\* where it starts (SyncAgrees).
THEOREM PagesAgree == FSpec => []SyncAgrees
  <1>1. ASSUME FeedInv PROVE SyncAgrees
    <2> SUFFICES ASSUME NEW c \in Listening
                 PROVE  /\ Queued(c).more = conns[c].syncing
                        /\ Queued(c).more => Queued(c).cursor = conns[c].cursor
      BY DEF SyncAgrees
    <2>1. /\ Queued(c).more = conns[c].syncing
          /\ conns[c].syncing => Queued(c).cursor = conns[c].cursor
      BY <1>1, Listeners, WhatFollows
    <2> QED BY <2>1
  <1> QED BY <1>1, FeedInit, FeedStep, PTL DEF FSpec

\* Wherever the connection breaks, the client has every message up to the
\* cursor with which it will come back (EveryCutResumes).
THEOREM CutsResume == FSpec => []EveryCutResumes
  <1>1. ASSUME FeedInv PROVE EveryCutResumes
    <2> SUFFICES ASSUME NEW c \in Listening, NEW k \in 0 .. Len(conns[c].outgoing),
                        LET later == SubSeq(conns[c].outgoing, k + 1, Len(conns[c].outgoing))
                        IN  \A j \in DOMAIN later : later[j].type # "history_cleared",
                        NEW m \in RoomRows(db, conns[c].room),
                        m.id > After(c, k).floor, m.id <= After(c, k).cursor
                 PROVE  m.id \in Ids(After(c, k).copy)
      BY DEF EveryCutResumes
    <2> DEFINE s     == conns[c]
               rows  == RoomRows(db, s.room)
               users == Users(sessions, s.room)
               p     == After(c, k)
               later == SubSeq(s.outgoing, k + 1, Len(s.outgoing))
    <2>1. c \in Conn /\ Active(conns[c])
      BY <1>1, Listeners
    <2>2. /\ db.last \in Nat /\ s \in SessionsOf(db.last) /\ s \in Sessions
          /\ Ids(rows) \subseteq Nat /\ \A x \in Ids(rows) : 0 < x
          /\ Serves(db.last, rows, users, s, peer[c])
          /\ rows \subseteq Row
      BY <1>1, <2>1, Before
    <2>3. Serves(db.last, rows, users, Later(s, k), Applied(peer[c], s.outgoing)[k])
      <3> HIDE DEF rows, users
      <3> QED BY <2>2, ReadOn
    <2>4. p = Applied(peer[c], s.outgoing)[k]
      BY DEF After
    <2>5. Later(s, k).outgoing = later
      BY <2>2 DEF Later, Sessions
    <2>6. ~Overtaken(later, 0)
      BY DEF Overtaken
    <2> HIDE DEF later, p
    <2>7. Full(rows, p) /\ p \in Peers(db.last)
      BY <2>3, <2>4, <2>5, <2>6 DEF Serves, Feeds
    <2>8. m.id \in Ids(rows) /\ m.id \in Nat /\ p.floor \in Nat /\ p.cursor \in Nat
      BY <2>2, <2>7 DEF Ids, Row, Peers
    <2>9. p.floor < m.id /\ m.id <= p.cursor
      BY <2>8 DEF p
    <2> QED BY <2>7, <2>8, <2>9 DEF Full, p
  <1> QED BY <1>1, FeedInit, FeedStep, PTL DEF FSpec

=============================================================================
