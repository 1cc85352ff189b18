-------------------------- MODULE ChatSystemProofs --------------------------
(***************************************************************************)
(* What the chat does for a client, for every number of clients, rooms,    *)
(* connections and all capacities.  It is never left waiting: what its     *)
(* user has asked for is answered or the link is known to be lost          *)
(* (RequestsAnswered), and its catching up always has a next step under    *)
(* way (CatchUpMoves).  And it is told no tales: it resumes inside the log *)
(* (CursorInLog), and shows nothing that was recalled or cleared while it  *)
(* would be resumed (ViewIsCurrent).                                       *)
(*                                                                         *)
(* The invariant relates each linked client to the one connection it uses  *)
(* (ClientOk).  A step is about one client, or one connection: the lemmas  *)
(* <Action>Keeps say what it does there, and that what it does to any      *)
(* other connection is to make it last (Lasts): frames may be queued, the  *)
(* session may end, nothing that is under way is taken back.  That is what *)
(* ChatServerProofs proves of each operation of the server (Told).         *)
(*                                                                         *)
(* The second part is about what is told.  Everything a session has yet to *)
(* tell its client is one sequence, its stream, and the invariant says     *)
(* where that leads (LiveView): a row that is stale, on the display or in  *)
(* a frame, is corrected by a recall or a cleanup further down, and until  *)
(* the client has read that it names an instance which is its room's no    *)
(* more.  So it may lose the link at any point (Base).  The lemmas         *)
(* <Action>Screens say that each action keeps this.                        *)
(*                                                                         *)
(* ChatServerProofs brings the variable peer of ChatFeed along, which no   *)
(* formula here mentions.                                                  *)
(***************************************************************************)
EXTENDS ChatSystem, ChatServerProofs

-----------------------------------------------------------------------------
(* The invariant *)

\* The requests of clients, and what their networks and displays look like.
JoinRequests == [type : {"join"}, client : Client, instance : InstanceIDs, after : Nat]

\* What clients send: the join first, then what a session may ask for.
Requests ==
    JoinRequests
    \cup [type : {"send"}] \cup [type : {"recall"}, id : Nat]
    \cup [type : {"history"}, before : Nat] \cup [type : {"sync"}, after : Nat]

\* The states of internal/client and of the display of internal/tui.
Networks ==
    [phase : {"offline", "linked", "stopped"}, conn : Conn \cup {NoConn},
     ready : BOOLEAN, welcomed : BOOLEAN, instance : InstanceIDs, cursor : Nat,
     everConnected : BOOLEAN]

Models ==
    [joined : BOOLEAN, connected : BOOLEAN, messages : SUBSET Row, hasMore : BOOLEAN,
     loading : BOOLEAN, users : SUBSET Name, pending : BOOLEAN, recalls : BOOLEAN,
     issues : SUBSET {"failed", "unknown"}]

\* f settles the requests with these ids.
Settles(f, reqs) ==
    \/ f.type = "history_cleared"
    \/ /\ f.type \in {"message", "ack", "recalled", "history", "sync", "error"}
       /\ f.req \in reqs

\* A request of this type, or what settles it, is under way, or the server has
\* given the session up.
Coming(s, u, type, reqs) ==
    \/ ~s.live
    \/ \E k \in DOMAIN u : u[k].type = type
    \/ \E k \in DOMAIN s.outgoing : Settles(s.outgoing[k], reqs)

\* What the display waits for is coming, and only a link that is ready is asked.
Waits(n, t, s, u) ==
    /\ t.pending \/ t.recalls \/ t.loading => n.ready
    /\ n.ready => n.welcomed
    /\ n.welcomed => s.phase \in {"serving", "free"}
    /\ t.pending => Coming(s, u, "send", {"send"})
    /\ t.recalls => Coming(s, u, "recall", {"recall"})
    /\ t.loading => Coming(s, u, "history", {"older"})

\* The last frame on its way is a page that is not the last of the catching up,
\* and the server's cursor is where the client's will be after it.
PageComing(n, s, k) ==
    /\ k = Len(s.outgoing)
    /\ s.outgoing[k].type = "sync" /\ s.outgoing[k].hasMore
    /\ s.cursor = Further(n.cursor, s.outgoing[k].messages)

\* Between two pages: the first page waits behind the welcome, a page is on its
\* way to the client, or the request for the next is on its way to the server.
HalfWay(n, s, u) ==
    /\ ~n.ready
    /\ \/ ~n.welcomed /\ s.outgoing[1].resumed /\ PageComing(n, s, 2) /\ u = <<>>
       \/ n.welcomed /\ PageComing(n, s, 1) /\ u = <<>>
       \/ n.welcomed /\ s.outgoing = <<>> /\ s.cursor = n.cursor
          /\ u = <<[type |-> "sync", after |-> n.cursor]>>

\* A connection that waits for its join has it coming; the welcome is first; a
\* session that catches up is between two pages; one that has caught up has
\* told its client so, or tells it of a cleanup, which ends the catching up.
CatchesUpInv(i, n, s, u) ==
    /\ s.phase = "reading" =>
          u = <<[type |-> "join", client |-> i, instance |-> n.instance, after |-> n.cursor]>>
    /\ (Active(s) /\ ~n.welcomed) => s.outgoing # <<>> /\ s.outgoing[1].type = "welcome"
    /\ (Active(s) /\ s.syncing) => HalfWay(n, s, u)
    /\ (Active(s) /\ ~s.syncing /\ ~n.ready) =>
          \E k \in DOMAIN s.outgoing : s.outgoing[k].type \in {"sync_complete", "history_cleared"}

\* A linked client i with network n and display t, session s and requests u.
ClientOk(i, n, t, s, u) == Waits(n, t, s, u) /\ CatchesUpInv(i, n, s, u)

\* A client without a link waits for nothing.
Alone(n, t) == /\ n.conn = NoConn /\ ~n.ready /\ ~n.welcomed
               /\ ~t.pending /\ ~t.recalls /\ ~t.loading

\* The inductive invariant: the server is as it should be, no two clients share
\* a connection, and every client is as it should be.
SystemInv ==
    /\ ServerInv
    /\ up \in [Conn -> Seq(Requests)]
    /\ net \in [Client -> Networks]
    /\ tui \in [Client -> Models]
    /\ \A i, j \in Client : Linked(i) /\ Linked(j) /\ i # j => net[i].conn # net[j].conn
    /\ \A i \in Client :
          /\ Linked(i) => /\ net[i].conn \in Conn
                          /\ ClientOk(i, net[i], tui[i], conns[net[i].conn], up[net[i].conn])
          /\ ~Linked(i) => Alone(net[i], tui[i])

-----------------------------------------------------------------------------
(* What a frame does to the network of a client *)

\* A cursor that moves over a page moves within the numbers.
LEMMA FurtherTyped ==
    ASSUME NEW cursor \in Nat, NEW M \in SUBSET Row, NEW n \in Nat, \A m \in M : m.id <= n
    PROVE  /\ Further(cursor, M) \in Nat
           /\ cursor <= Further(cursor, M)
           /\ \A m \in M : m.id <= Further(cursor, M)
           /\ Further(cursor, M) = cursor \/ \E m \in M : Further(cursor, M) = m.id
           /\ M = {} => Further(cursor, M) = cursor
  <1> DEFINE S == {cursor} \cup Ids(M)
             b == cursor + n
  <1>1. S \in SUBSET Nat /\ S # {} /\ b \in Nat
    BY DEF Ids, Row
  <1>2. \A x \in S : x <= b
    BY DEF Ids, Row
  <1>3. Further(cursor, M) = Max(S)
    BY DEF Further
  <1>4. \A m \in M : m.id \in S
    BY DEF Ids
  <1>5. cursor \in S
    OBVIOUS
  <1>6. \A x \in S : x = cursor \/ \E m \in M : x = m.id
    BY DEF Ids
  <1> HIDE DEF S, b
  <1>7. Max(S) \in S /\ \A x \in S : x <= Max(S)
    BY <1>1, <1>2, MaxOf
  <1> QED BY <1>1, <1>3, <1>4, <1>5, <1>6, <1>7

\* The session's cursor and the client's move alike over a page of the catching up.
LEMMA AdvanceIsFurther ==
    ASSUME NEW n \in Nat, NEW page \in Pages(n), NEW cursor \in Nat,
           \A m \in page.messages : m.id > cursor
    PROVE  Advance(cursor, page) = Further(cursor, page.messages)
  <1> DEFINE M == page.messages
             f == Further(cursor, M)
  <1>1. M \in SUBSET Row /\ \A m \in M : m.id <= n /\ m.id \in Nat
    BY DEF Pages, Row
  <1>2. /\ f \in Nat
        /\ \A m \in M : m.id <= f
        /\ f = cursor \/ \E m \in M : f = m.id
        /\ M = {} => f = cursor
    BY <1>1, FurtherTyped
  <1> HIDE DEF f
  <1>3. CASE M = {}
    BY <1>2, <1>3 DEF Advance, f
  <1>4. CASE M # {}
    <2> DEFINE S == Ids(M)
    <2>1. S \in SUBSET Nat /\ S # {} /\ \A x \in S : x <= n
      BY <1>1, <1>4 DEF Ids
    <2>2. \A m \in M : m.id \in S
      BY DEF Ids
    <2>3. \A x \in S : \E m \in M : x = m.id
      BY DEF Ids
    <2>4. Advance(cursor, page) = Max(S)
      BY <1>4 DEF Advance
    <2> HIDE DEF S
    <2>5. Max(S) \in S /\ \A x \in S : x <= Max(S)
      BY <2>1, MaxOf
    <2>6. PICK m \in M : Max(S) = m.id
      BY <2>3, <2>5
    <2>7. Max(S) <= f
      BY <1>2, <2>6
    <2>8. PICK z \in M : z.id > cursor
      BY <1>4
    <2>9. f # cursor
      BY <1>1, <1>2, <2>8
    <2>10. PICK y \in M : f = y.id
      BY <1>2, <2>9
    <2>11. f <= Max(S)
      BY <2>2, <2>5, <2>10
    <2> DEFINE x == Max(S)
    <2>13. x \in Nat /\ x <= f /\ f <= x
      BY <2>1, <2>5, <2>7, <2>11
    <2>14. Advance(cursor, page) = x
      BY <2>4
    <2> HIDE DEF x
    <2>12. Advance(cursor, page) = f
      BY <1>2, <2>13, <2>14
    <2> QED BY <2>12 DEF f
  <1> QED BY <1>3, <1>4

\* The id that older messages are asked before.
LEMMA OldestTyped ==
    ASSUME NEW t \in Models, t.messages # {}
    PROVE  Oldest(t) \in Nat
  <1> DEFINE S == Ids(t.messages)
  <1>1. S \in SUBSET Nat /\ S # {}
    BY DEF Ids, Models, Row
  <1>2. Oldest(t) = Min(S)
    BY DEF Oldest
  <1> HIDE DEF S
  <1>3. \E x \in S : \A y \in S : x <= y
    BY <1>1, NatMin
  <1> QED BY <1>1, <1>2, <1>3 DEF Min

\* The display shows rows, whatever is merged into it.
LEMMA MergeTyped ==
    ASSUME NEW old \in SUBSET Row, NEW new \in SUBSET Row
    PROVE  MergeMessages(old, new) \in SUBSET Row
  BY DEF MergeMessages

\* The client's network after it has been told frame f.
Received(n, f) == AfterEmit(BeforeEmit(n, f), f)

\* What a frame on a connection can be, by its type.
LEMMA FrameCases ==
    ASSUME NEW k \in Nat, NEW f \in SoundFrames(k)
    PROVE  /\ f.type \in {"welcome", "history", "sync", "sync_complete", "message", "ack",
                          "recalled", "history_cleared", "presence", "error"}
           /\ f.type \in {"welcome", "recalled", "history_cleared"} => f.instance \in InstanceIDs
           /\ f.type \in {"welcome", "sync_complete"} => f.through \in Nat /\ f.through <= k
           /\ f.type = "welcome" => f.resumed \in BOOLEAN
           /\ f.type \in {"welcome", "presence"} => f.users \in SUBSET Name
           /\ f.type \in {"history", "sync"} =>
                 f.messages \in SUBSET Row /\ f.hasMore \in BOOLEAN /\ \A m \in f.messages : m.id <= k
           /\ f.type \in {"message", "ack", "recalled"} => f.message \in Row /\ f.message.id <= k
           /\ f.type = "history" => f.req \in {"initial", "older"}
           /\ f.type = "sync" => f.req \in {"initial", "next"}
           /\ f.type = "message" => f.req \in {"", "send"}
           /\ f.type = "ack" => f.req \in {"send"}
           /\ f.type = "recalled" => f.req \in {"", "recall"}
           /\ f.type = "error" => f.req \in {"join", "send", "recall", "older", "next"}
  <1>1. f \in Frames /\ Sound(f, k)
    BY DEF SoundFrames
  <1>2. CASE f \in [type : {"welcome"}, instance : InstanceIDs, through : Nat,
                    resumed : BOOLEAN, users : SUBSET Name]
    BY <1>1, <1>2 DEF Sound
  <1>3. CASE f \in [type : {"history"}, req : {"initial", "older"},
                    messages : SUBSET Row, hasMore : BOOLEAN]
    BY <1>1, <1>3 DEF Sound
  <1>4. CASE f \in [type : {"sync"}, req : {"initial", "next"},
                    messages : SUBSET Row, hasMore : BOOLEAN]
    BY <1>1, <1>4 DEF Sound
  <1>5. CASE f \in [type : {"sync_complete"}, through : Nat]
    BY <1>1, <1>5 DEF Sound
  <1>6. CASE f \in [type : {"message"}, req : {"", "send"}, message : Row]
    BY <1>1, <1>6 DEF Sound
  <1>7. CASE f \in [type : {"ack"}, req : {"send"}, message : Row]
    BY <1>1, <1>7 DEF Sound
  <1>8. CASE f \in [type : {"recalled"}, req : {"", "recall"}, message : Row,
                    instance : InstanceIDs]
    BY <1>1, <1>8 DEF Sound
  <1>9. CASE f \in [type : {"history_cleared"}, instance : InstanceIDs]
    BY <1>9
  <1>10. CASE f \in [type : {"presence"}, users : SUBSET Name]
    BY <1>10
  <1>11. CASE f \in [type : {"error"}, req : {"join", "send", "recall", "older", "next"},
                     code : ErrorCodes]
    BY <1>11
  <1>12. \/ f \in [type : {"welcome"}, instance : InstanceIDs, through : Nat,
                    resumed : BOOLEAN, users : SUBSET Name]
         \/ f \in [type : {"history"}, req : {"initial", "older"},
                    messages : SUBSET Row, hasMore : BOOLEAN]
         \/ f \in [type : {"sync"}, req : {"initial", "next"},
                    messages : SUBSET Row, hasMore : BOOLEAN]
         \/ f \in [type : {"sync_complete"}, through : Nat]
         \/ f \in [type : {"message"}, req : {"", "send"}, message : Row]
         \/ f \in [type : {"ack"}, req : {"send"}, message : Row]
         \/ f \in [type : {"recalled"}, req : {"", "recall"}, message : Row,
                    instance : InstanceIDs]
         \/ f \in [type : {"history_cleared"}, instance : InstanceIDs]
         \/ f \in [type : {"presence"}, users : SUBSET Name]
         \/ f \in [type : {"error"}, req : {"join", "send", "recall", "older", "next"},
                    code : ErrorCodes]
    BY <1>1, Zenon DEF Frames
  <1> QED BY <1>2, <1>3, <1>4, <1>5, <1>6, <1>7, <1>8, <1>9, <1>10, <1>11, <1>12

\* The network keeps its shape when a frame arrives,
LEMMA BeforeTyped ==
    ASSUME NEW k \in Nat, NEW n \in Networks, NEW f \in SoundFrames(k)
    PROVE  LET b == BeforeEmit(n, f)
           IN  /\ b \in Networks
               /\ b.phase = n.phase /\ b.conn = n.conn
               /\ b.ready <=> n.ready \/ f.type \in {"sync_complete", "history_cleared"}
               /\ b.welcomed <=> n.welcomed \/ f.type = "welcome"
               /\ (f.type = "welcome" /\ f.resumed) => b.cursor = n.cursor
               /\ f.type = "sync" => b.cursor = n.cursor
  <1> SUFFICES ASSUME NEW b, b = BeforeEmit(n, f)
               PROVE  /\ b \in Networks
                      /\ b.phase = n.phase /\ b.conn = n.conn
                      /\ b.ready <=> n.ready \/ f.type \in {"sync_complete", "history_cleared"}
                      /\ b.welcomed <=> n.welcomed \/ f.type = "welcome"
                      /\ (f.type = "welcome" /\ f.resumed) => b.cursor = n.cursor
                      /\ f.type = "sync" => b.cursor = n.cursor
    OBVIOUS
  <1>0. n.cursor \in Nat /\ 0 \in Nat
    BY DEF Networks
  <1>1. /\ f.type = "welcome" => b = OnWelcome(n, f)
        /\ f.type = "history_cleared" => b = OnCleared(n, f)
        /\ f.type = "sync_complete" => b = OnSyncComplete(n, f)
        /\ f.type \notin {"welcome", "history_cleared", "sync_complete"} => b = n
    BY DEF BeforeEmit
  <1>4. f.type = "sync_complete" => Max({n.cursor, f.through}) \in Nat
    <2> SUFFICES ASSUME f.type = "sync_complete" PROVE Max({n.cursor, f.through}) \in Nat
      OBVIOUS
    <2> DEFINE S == {n.cursor, f.through}
               c == n.cursor + k
    <2>0. f.through \in Nat /\ f.through <= k
      BY FrameCases
    <2>1. S \in SUBSET Nat /\ S # {} /\ c \in Nat /\ \A x \in S : x <= c
      BY <1>0, <2>0
    <2> HIDE DEF S, c
    <2>2. Max(S) \in Nat
      BY <2>1, MaxOf
    <2> QED BY <2>2 DEF S
  <1>5. CASE f.type = "welcome"
    <2>1. b = [n EXCEPT !.cursor = IF f.resumed THEN @ ELSE 0, !.instance = f.instance,
                        !.welcomed = TRUE]
      BY <1>1, <1>5 DEF OnWelcome
    <2>2. f.instance \in InstanceIDs
      BY <1>5, FrameCases
    <2> QED BY <1>0, <1>5, <2>1, <2>2 DEF Networks
  <1>6. CASE f.type = "history_cleared"
    <2>1. b = [n EXCEPT !.instance = f.instance, !.cursor = 0,
                        !.everConnected = TRUE, !.ready = TRUE]
      BY <1>1, <1>6 DEF OnCleared
    <2>2. f.instance \in InstanceIDs
      BY <1>6, FrameCases
    <2>5. \A x \in InstanceIDs, z \in Nat, e \in BOOLEAN, r \in BOOLEAN :
             [n EXCEPT !.instance = x, !.cursor = z, !.everConnected = e, !.ready = r] \in Networks
      BY DEF Networks
    <2>3. b \in Networks
      BY <1>0, <2>1, <2>2, <2>5
    <2>4. b.ready = TRUE /\ b.phase = n.phase /\ b.conn = n.conn /\ b.welcomed = n.welcomed
      BY <1>6, <2>1 DEF Networks
    <2> QED BY <1>6, <2>3, <2>4
  <1>7. CASE f.type = "sync_complete"
    <2>1. b = [n EXCEPT !.cursor = Max({n.cursor, f.through}),
                        !.everConnected = TRUE, !.ready = TRUE]
      BY <1>1, <1>7 DEF OnSyncComplete
    <2> QED BY <1>4, <1>7, <2>1 DEF Networks
  <1>8. CASE f.type \notin {"welcome", "history_cleared", "sync_complete"}
    BY <1>1, <1>8
  <1> QED BY <1>5, <1>6, <1>7, <1>8

\* and when it has been emitted.
LEMMA ReceivedTyped ==
    ASSUME NEW k \in Nat, NEW n \in Networks, NEW f \in SoundFrames(k)
    PROVE  LET p == Received(n, f)
           IN  /\ p \in Networks
               /\ p.phase = n.phase /\ p.conn = n.conn
               /\ p.ready <=> n.ready \/ f.type \in {"sync_complete", "history_cleared"}
               /\ p.welcomed <=> n.welcomed \/ f.type = "welcome"
               /\ (f.type = "welcome" /\ f.resumed) => p.cursor = n.cursor
               /\ f.type = "sync" => p.cursor = Further(n.cursor, f.messages)
  <1> DEFINE b == BeforeEmit(n, f)
             p == Received(n, f)
  <1>2. Carried(f) \in SUBSET Row /\ \A m \in Carried(f) : m.id <= k
    BY FrameCases DEF Carried
  <1>3. /\ f.type = "sync" => Carried(f) = f.messages
        /\ f.type \in {"welcome", "history_cleared", "sync_complete", "recalled"} => Carried(f) = {}
    BY DEF Carried
  <1>5. /\ b \in Networks /\ b.phase = n.phase /\ b.conn = n.conn
        /\ b.ready <=> n.ready \/ f.type \in {"sync_complete", "history_cleared"}
        /\ b.welcomed <=> n.welcomed \/ f.type = "welcome"
        /\ (f.type = "welcome" /\ f.resumed) => b.cursor = n.cursor
        /\ f.type = "sync" => b.cursor = n.cursor
    BY BeforeTyped
  <1> DEFINE g == Further(b.cursor, Carried(f))
             inst == IF f.type = "recalled" THEN f.instance ELSE b.instance
  <1>6. p = [b EXCEPT !.cursor = g, !.instance = inst]
    BY DEF Received, AfterEmit
  <1>7. g \in Nat /\ (Carried(f) = {} => g = b.cursor)
    <2>1. b.cursor \in Nat
      BY <1>5 DEF Networks
    <2> HIDE DEF b
    <2> QED BY <1>2, <2>1, FurtherTyped
  <1>8. inst \in InstanceIDs
    BY <1>5, FrameCases DEF Networks
  <1>9. f.type = "sync" => g = Further(n.cursor, f.messages)
    BY <1>3, <1>5
  <1> HIDE DEF b, g, inst, p
  <1>10. /\ p \in Networks /\ p.cursor = g
         /\ p.phase = b.phase /\ p.conn = b.conn /\ p.ready = b.ready /\ p.welcomed = b.welcomed
    BY <1>5, <1>6, <1>7, <1>8 DEF Networks
  <1> QED BY <1>3, <1>5, <1>7, <1>9, <1>10 DEF p

-----------------------------------------------------------------------------
(* What a frame does to the display, and links that come and go *)

\* The display keeps its shape when a frame is shown, the link is lost or refused.
LEMMA ShowTyped ==
    ASSUME NEW k \in Nat, NEW t \in Models, NEW f \in SoundFrames(k)
    PROVE  LET v == Show(t, f)
           IN  /\ v \in Models
               /\ v.pending => t.pending /\ ~Settles(f, {"send"})
               /\ v.recalls => t.recalls /\ ~Settles(f, {"recall"})
               /\ v.loading => t.loading /\ ~Settles(f, {"older"})
  <1> SUFFICES ASSUME NEW v, v = Show(t, f)
               PROVE  /\ v \in Models
                      /\ v.pending => t.pending /\ ~Settles(f, {"send"})
                      /\ v.recalls => t.recalls /\ ~Settles(f, {"recall"})
                      /\ v.loading => t.loading /\ ~Settles(f, {"older"})
    OBVIOUS
  <1>0. t.messages \in SUBSET Row /\ t.issues \in SUBSET {"failed", "unknown"}
        /\ t.pending \in BOOLEAN /\ t.recalls \in BOOLEAN /\ t.loading \in BOOLEAN
    BY DEF Models
  <1>1. CASE f.type = "welcome"
    <2>1. v = ShowWelcome(t, f) /\ f.users \in SUBSET Name
      BY <1>1, FrameCases DEF Show
    <2>2. CASE f.resumed
      <3>1. v = [t EXCEPT !.users = f.users]
        BY <2>1, <2>2 DEF ShowWelcome
      <3> QED BY <1>0, <1>1, <2>1, <3>1 DEF Models, Settles
    <2>3. CASE ~f.resumed
      <3>1. v = [t EXCEPT !.users = f.users, !.issues = {}, !.pending = FALSE,
                          !.recalls = FALSE, !.messages = {}, !.hasMore = FALSE,
                          !.loading = FALSE]
        BY <2>1, <2>3 DEF ShowWelcome
      <3> QED BY <1>0, <1>1, <2>1, <3>1 DEF Models, Settles
    <2> QED BY <2>2, <2>3
  <1>2. CASE f.type = "presence"
    <2>1. v = [t EXCEPT !.users = f.users] /\ f.users \in SUBSET Name
      BY <1>2, FrameCases DEF Show
    <2> QED BY <1>0, <1>2, <2>1 DEF Models, Settles
  <1>3. CASE f.type = "history"
    <2>1. v = ShowHistory(t, f) /\ f.hasMore \in BOOLEAN /\ f.req \in {"initial", "older"}
      BY <1>3, FrameCases DEF Show
    <2>2. MergeMessages(t.messages, f.messages) \in SUBSET Row
      BY <1>0, <1>3, FrameCases, MergeTyped
    <2> QED BY <1>0, <1>3, <2>1, <2>2 DEF ShowHistory, Models, Settles
  <1>4. CASE f.type = "sync"
    <2>1. v = [t EXCEPT !.messages = MergeMessages(t.messages, f.messages)]
          /\ f.req \in {"initial", "next"}
      BY <1>4, FrameCases DEF Show
    <2>2. MergeMessages(t.messages, f.messages) \in SUBSET Row
      BY <1>0, <1>4, FrameCases, MergeTyped
    <2> QED BY <1>0, <1>4, <2>1, <2>2 DEF Models, Settles
  <1>5. CASE f.type = "sync_complete"
    <2>1. v = [t EXCEPT !.connected = TRUE]
      BY <1>5 DEF Show
    <2> QED BY <1>0, <1>5, <2>1 DEF Models, Settles
  <1>6. CASE f.type \in {"message", "ack"}
    <2>1. v = ShowMessage(t, f) /\ f.message \in Row /\ f.req \in {"", "send"}
      BY <1>6, FrameCases DEF Show
    <2>2. MergeMessages(t.messages, {f.message}) \in SUBSET Row
      BY <1>0, <2>1, MergeTyped
    <2> QED BY <1>0, <1>6, <2>1, <2>2 DEF ShowMessage, Models, Settles
  <1>7. CASE f.type = "recalled"
    <2>1. v = ShowRecalled(t, f) /\ f.message \in Row /\ f.req \in {"", "recall"}
      BY <1>7, FrameCases DEF Show
    <2>2. PICK M \in SUBSET Row, r \in BOOLEAN :
            /\ v = [t EXCEPT !.messages = M, !.recalls = r]
            /\ r => t.recalls /\ f.req # "recall"
      <3> DEFINE M == IF f.message.id \in Ids(t.messages)
                      THEN {m \in t.messages : m.id # f.message.id} \cup {f.message}
                      ELSE t.messages
                 r == t.recalls /\ f.req # "recall"
      <3>1. M \in SUBSET Row /\ r \in BOOLEAN
        BY <1>0, <2>1
      <3>2. v = [t EXCEPT !.messages = M, !.recalls = r]
        BY <2>1 DEF ShowRecalled
      <3>3. r => t.recalls /\ f.req # "recall"
        OBVIOUS
      <3> HIDE DEF M, r
      <3> QED BY <3>1, <3>2, <3>3
    <2> QED BY <1>0, <1>7, <2>1, <2>2 DEF Models, Settles
  <1>8. CASE f.type = "history_cleared"
    <2>1. v = ShowCleared(t)
      BY <1>8 DEF Show
    <2> QED BY <1>0, <1>8, <2>1 DEF ShowCleared, Models
  <1>9. CASE f.type = "error"
    <2>1. v = ShowError(t, f)
      BY <1>9 DEF Show
    <2>2. PICK p \in BOOLEAN, S \in SUBSET {"failed", "unknown"}, r \in BOOLEAN, l \in BOOLEAN :
            /\ v = [t EXCEPT !.pending = p, !.issues = S, !.recalls = r, !.loading = l]
            /\ p => t.pending /\ f.req # "send"
            /\ r => t.recalls /\ f.req # "recall"
            /\ l => t.loading /\ f.req # "older"
      <3> DEFINE p == t.pending /\ f.req # "send"
                 S == IF t.pending /\ f.req = "send" THEN t.issues \cup {"failed"} ELSE t.issues
                 r == t.recalls /\ f.req # "recall"
                 l == t.loading /\ f.req # "older"
      <3>1. p \in BOOLEAN /\ S \in SUBSET {"failed", "unknown"} /\ r \in BOOLEAN /\ l \in BOOLEAN
        BY <1>0
      <3>2. v = [t EXCEPT !.pending = p, !.issues = S, !.recalls = r, !.loading = l]
        BY <2>1 DEF ShowError
      <3>3. /\ p => t.pending /\ f.req # "send"
            /\ r => t.recalls /\ f.req # "recall"
            /\ l => t.loading /\ f.req # "older"
        OBVIOUS
      <3> HIDE DEF p, S, r, l
      <3> QED BY <3>1, <3>2, <3>3
    <2> QED BY <1>0, <1>9, <2>2 DEF Models, Settles
  <1> QED BY <1>1, <1>2, <1>3, <1>4, <1>5, <1>6, <1>7, <1>8, <1>9, FrameCases

\* A display that is told of a lost link waits for nothing any more.
LEMMA DisconnectedTyped ==
    ASSUME NEW t \in Models
    PROVE  /\ Disconnected(t) \in Models
           /\ ~Disconnected(t).pending /\ ~Disconnected(t).recalls /\ ~Disconnected(t).loading
  BY DEF Disconnected, Models

\* A display that is told that its client gave up waits for what it waited for.
LEMMA GivenUpTyped ==
    ASSUME NEW t \in Models
    PROVE  /\ GivenUp(t) \in Models
           /\ GivenUp(t).pending = t.pending /\ GivenUp(t).recalls = t.recalls
           /\ GivenUp(t).loading = t.loading
  BY DEF GivenUp, Models

\* The network keeps its shape when a link ends or is made.
LEMMA UnlinkTyped ==
    ASSUME NEW n \in Networks, NEW phase \in {"offline", "stopped"}
    PROVE  LET p == Unlink(n, phase)
           IN  /\ p \in Networks /\ p.phase = phase
               /\ p.conn = NoConn /\ ~p.ready /\ ~p.welcomed
               /\ p.instance = n.instance /\ p.cursor = n.cursor
  BY DEF Unlink, Networks

\* A new link is not ready, and the client is where it was.
LEMMA LinkTyped ==
    ASSUME NEW n \in Networks, NEW c \in Conn
    PROVE  LET p == Link(n, c)
           IN  /\ p \in Networks /\ p.phase = "linked"
               /\ p.conn = c /\ ~p.ready /\ ~p.welcomed
               /\ p.instance = n.instance /\ p.cursor = n.cursor
  BY DEF Link, Networks

-----------------------------------------------------------------------------
(* Connections that last *)

\* The frames that remain after the first one is read.
LEMMA TailFacts ==
    ASSUME NEW S, NEW q \in Seq(S), q # <<>>
    PROVE  /\ Head(q) = q[1] /\ q[1] \in S /\ 1 \in DOMAIN q
           /\ Tail(q) \in Seq(S) /\ Len(Tail(q)) = Len(q) - 1
           /\ \A k \in DOMAIN q : k = 1 \/ (k - 1 \in DOMAIN Tail(q) /\ Tail(q)[k - 1] = q[k])
  OBVIOUS

\* t is session s with frames at the end of its queue, still alive or not.
Extends(t, s) ==
    /\ t.phase = "serving" /\ s.phase = "serving"
    /\ t.live => s.live
    /\ \A k \in DOMAIN s.outgoing : k \in DOMAIN t.outgoing /\ t.outgoing[k] = s.outgoing[k]

\* What was queued first stays first.
LEMMA StaysWelcome ==
    ASSUME NEW i, NEW n, NEW s, NEW t, NEW u, CatchesUpInv(i, n, s, u),
           NEW k, s \in SessionsOf(k), Extends(t, s), Active(t), ~n.welcomed
    PROVE  t.outgoing # <<>> /\ t.outgoing[1].type = "welcome"
  <1>1. s.outgoing # <<>> /\ s.outgoing[1].type = "welcome"
    BY DEF CatchesUpInv, Active, Extends
  <1>2. s.outgoing \in Seq(Frames)
    BY DEF SessionsOf, Sessions
  <1>3. 1 \in DOMAIN s.outgoing
    BY <1>1, <1>2
  <1> QED BY <1>1, <1>3 DEF Extends

\* A session that has caught up, or has just been told so.
LEMMA CaughtUp ==
    ASSUME NEW i, NEW n, NEW s, NEW t, NEW u, NEW w, CatchesUpInv(i, n, s, u),
           NEW k, s \in SessionsOf(k), Extends(t, s), ~t.syncing,
           (t.live /\ s.syncing) => \E l \in DOMAIN t.outgoing :
                          t.outgoing[l].type \in {"sync_complete", "history_cleared"}
    PROVE  CatchesUpInv(i, n, t, w)
  <1>1. (Active(t) /\ ~n.welcomed) => t.outgoing # <<>> /\ t.outgoing[1].type = "welcome"
    BY StaysWelcome
  <1>2. t.phase # "reading"
    BY DEF Extends
  <1>3. (Active(t) /\ ~n.ready) => \E l \in DOMAIN t.outgoing :
            t.outgoing[l].type \in {"sync_complete", "history_cleared"}
    BY DEF Active, Extends, CatchesUpInv
  <1> QED BY <1>1, <1>2, <1>3 DEF CatchesUpInv

\* An answer under way stays under way while its connection lasts,
LEMMA ComingStays ==
    ASSUME NEW s, NEW t, NEW u, NEW type, NEW reqs,
           Extends(t, s), Coming(s, u, type, reqs)
    PROVE  Coming(t, u, type, reqs)
  BY DEF Coming, Extends

\* A frame that settles the requests with these ids is under way.
Settling(t, reqs) ==
    t.live => \E k \in DOMAIN t.outgoing : Settles(t.outgoing[k], reqs)

\* and when a request of another kind is handled.
LEMMA ComingServed ==
    ASSUME NEW s, NEW t, NEW u \in Seq(Requests), NEW type, NEW reqs, u # <<>>,
           Extends(t, s), Coming(s, u, type, reqs),
           Head(u).type = type => Settling(t, reqs)
    PROVE  Coming(t, Tail(u), type, reqs)
  <1>1. CASE ~s.live \/ \E k \in DOMAIN s.outgoing : Settles(s.outgoing[k], reqs)
    BY <1>1 DEF Coming, Extends
  <1>2. ASSUME NEW k \in DOMAIN u, u[k].type = type PROVE Coming(t, Tail(u), type, reqs)
    <2>1. CASE k = 1
      BY <1>2, <2>1, TailFacts DEF Coming, Settling
    <2>2. CASE k # 1
      BY <1>2, <2>2, TailFacts DEF Coming
    <2> QED BY <2>1, <2>2
  <1> QED BY <1>1, <1>2 DEF Coming

\* What becomes of a connection that its client has not read from and whose
\* requests are not handled: it is told news or of a cleanup, or it ends.
Lasts(t, s) ==
    \/ Told(t, s)
    \/ s.phase = "serving" /\ \E inst : Cleared(t, s, inst)
    \/ ~t.live /\ t.phase \in {s.phase, "free"}

\* A client whose connection lasts keeps what it had coming.
LEMMA LastingClient ==
    ASSUME NEW i, NEW n, NEW m, NEW s, NEW t, NEW u,
           ClientOk(i, n, m, s, u), Lasts(t, s),
           NEW k, s.phase = "serving" => s \in SessionsOf(k)
    PROVE  ClientOk(i, n, m, t, u)
  <1>0. Waits(n, m, s, u) /\ CatchesUpInv(i, n, s, u)
    BY DEF ClientOk
  <1>1. CASE t = s
    BY <1>1
  <1>2. CASE ~t.live /\ t.phase \in {s.phase, "free"}
    BY <1>2 DEF ClientOk, Waits, CatchesUpInv, Coming, Active
  <1>3. CASE Grows(t, s) /\ (s.syncing => t.outgoing = s.outgoing)
    <2>0. Extends(t, s) /\ s \in SessionsOf(k)
      BY <1>3 DEF Grows, Extends
    <2>1. Waits(n, m, t, u)
      BY <1>0, <2>0, ComingStays DEF Waits, Extends
    <2>2. CASE ~t.syncing
      <3>1. ~s.syncing
        BY <1>3, <2>2 DEF Grows
      <3>2. CatchesUpInv(i, n, t, u)
        BY <1>0, <2>0, <2>2, <3>1, CaughtUp
      <3> QED BY <2>1, <3>2 DEF ClientOk
    <2>3. CASE t.syncing
      <3>1. (Active(t) /\ ~n.welcomed) => t.outgoing # <<>> /\ t.outgoing[1].type = "welcome"
        BY <1>0, <2>0, StaysWelcome
      <3>2. (Active(t) /\ t.syncing) => HalfWay(n, t, u)
        BY <1>0, <1>3 DEF CatchesUpInv, Active, Grows, HalfWay, PageComing
      <3>3. t.phase # "reading"
        BY <1>3 DEF Grows
      <3>4. CatchesUpInv(i, n, t, u)
        BY <2>3, <3>1, <3>2, <3>3 DEF CatchesUpInv
      <3> QED BY <2>1, <3>4 DEF ClientOk
    <2> QED BY <2>2, <2>3
  <1>4. ASSUME NEW inst, Cleared(t, s, inst), s.phase = "serving" PROVE ClientOk(i, n, m, t, u)
    <2>0. Extends(t, s) /\ s \in SessionsOf(k) /\ ~t.syncing
      BY <1>4 DEF Cleared, Extends
    <2>1. Waits(n, m, t, u)
      BY <1>0, <2>0, ComingStays DEF Waits, Extends
    <2>2. t.live => \E l \in DOMAIN t.outgoing : t.outgoing[l].type \in {"sync_complete", "history_cleared"}
      BY <1>4 DEF Cleared, Says, HistoryCleared
    <2>3. CatchesUpInv(i, n, t, u)
      BY <1>0, <2>0, <2>2, CaughtUp
    <2> QED BY <2>1, <2>3 DEF ClientOk
  <1> QED BY <1>1, <1>2, <1>3, <1>4 DEF Lasts, Told

\* A request of a client is answered.
LEMMA ServedClient ==
    ASSUME NEW i, NEW n, NEW m, NEW s, NEW t, NEW u \in Seq(Requests), u # <<>>,
           ClientOk(i, n, m, s, u), NEW k, s \in SessionsOf(k), Extends(t, s),
           ~t.syncing,
           (t.live /\ s.syncing) => \E l \in DOMAIN t.outgoing :
                          t.outgoing[l].type \in {"sync_complete", "history_cleared"},
           Head(u).type = "send" => Settling(t, {"send"}),
           Head(u).type = "recall" => Settling(t, {"recall"}),
           Head(u).type = "history" => Settling(t, {"older"})
    PROVE  ClientOk(i, n, m, t, Tail(u))
  <1>0. Waits(n, m, s, u) /\ CatchesUpInv(i, n, s, u)
    BY DEF ClientOk
  <1>1. CatchesUpInv(i, n, t, Tail(u))
    BY <1>0, CaughtUp
  <1>2. m.pending => Coming(t, Tail(u), "send", {"send"})
    BY <1>0, ComingServed DEF Waits
  <1>3. m.recalls => Coming(t, Tail(u), "recall", {"recall"})
    BY <1>0, ComingServed DEF Waits
  <1>4. m.loading => Coming(t, Tail(u), "history", {"older"})
    BY <1>0, ComingServed DEF Waits
  <1>5. Waits(n, m, t, Tail(u))
    BY <1>0, <1>2, <1>3, <1>4 DEF Waits, Extends
  <1> QED BY <1>1, <1>5 DEF ClientOk

-----------------------------------------------------------------------------
(* A client that reads, and one that asks for a page *)

\* The client reads the first frame of its queue.
LEMMA ReadingClient ==
    ASSUME NEW i, NEW n \in Networks, NEW m \in Models, NEW u \in Seq(Requests),
           NEW k \in Nat, NEW s \in SessionsOf(k), Active(s), s.outgoing # <<>>,
           ClientOk(i, n, m, s, u),
           NEW f \in SoundFrames(k), f = s.outgoing[1], n.welcomed \/ f.type # "error"
    PROVE  ClientOk(i, Received(n, f), Show(m, f), [s EXCEPT !.outgoing = Tail(s.outgoing)],
                    IF f.type = "sync" /\ f.hasMore
                    THEN Append(u, [type |-> "sync", after |-> Received(n, f).cursor]) ELSE u)
  <1> SUFFICES ASSUME NEW t, t = [s EXCEPT !.outgoing = Tail(s.outgoing)],
                      NEW w, w = IF f.type = "sync" /\ f.hasMore
                                 THEN Append(u, [type |-> "sync", after |-> Received(n, f).cursor])
                                 ELSE u
               PROVE  ClientOk(i, Received(n, f), Show(m, f), t, w)
    OBVIOUS
  <1> DEFINE p == Received(n, f)
             v == Show(m, f)
  <1>0. Waits(n, m, s, u) /\ CatchesUpInv(i, n, s, u)
    BY DEF ClientOk
  <1>1. /\ p \in Networks
        /\ p.ready <=> n.ready \/ f.type \in {"sync_complete", "history_cleared"}
        /\ p.welcomed <=> n.welcomed \/ f.type = "welcome"
        /\ (f.type = "welcome" /\ f.resumed) => p.cursor = n.cursor
        /\ f.type = "sync" => p.cursor = Further(n.cursor, f.messages)
    BY ReceivedTyped
  <1>2. /\ v.pending => m.pending /\ ~Settles(f, {"send"})
        /\ v.recalls => m.recalls /\ ~Settles(f, {"recall"})
        /\ v.loading => m.loading /\ ~Settles(f, {"older"})
    BY ShowTyped
  <1>3. s.outgoing \in Seq(Frames) /\ s.phase = "serving" /\ s.live
    BY DEF SessionsOf, Sessions, Active
  <1>4. /\ t.phase = "serving" /\ t.live = s.live /\ t.syncing = s.syncing
        /\ t.cursor = s.cursor /\ t.outgoing = Tail(s.outgoing)
    BY <1>3 DEF SessionsOf, Sessions
  <1>5. /\ 1 \in DOMAIN s.outgoing
        /\ Tail(s.outgoing) \in Seq(Frames) /\ Len(Tail(s.outgoing)) = Len(s.outgoing) - 1
        /\ \A l \in DOMAIN s.outgoing :
              l = 1 \/ (l - 1 \in DOMAIN t.outgoing /\ t.outgoing[l - 1] = s.outgoing[l])
    BY <1>3, <1>4, TailFacts
  <1>6. \A l \in DOMAIN u : l \in DOMAIN w /\ w[l] = u[l]
    OBVIOUS
  <1>7. ~n.welcomed => f.type = "welcome"
    BY <1>0, <1>3 DEF CatchesUpInv, Active
  <1> HIDE DEF p, v
  <1>8. ASSUME NEW type, NEW reqs, Coming(s, u, type, reqs), ~Settles(f, reqs)
        PROVE  Coming(t, w, type, reqs)
    <2>1. CASE \E l \in DOMAIN u : u[l].type = type
      BY <1>6, <2>1 DEF Coming
    <2>2. ASSUME NEW l \in DOMAIN s.outgoing, Settles(s.outgoing[l], reqs)
          PROVE  Coming(t, w, type, reqs)
      BY <1>5, <1>8, <2>2 DEF Coming
    <2> QED BY <1>3, <1>8, <2>1, <2>2 DEF Coming
  <1>9. Waits(p, v, t, w)
    <2>1. v.pending => Coming(t, w, "send", {"send"})
      BY <1>0, <1>2, <1>8 DEF Waits
    <2>2. v.recalls => Coming(t, w, "recall", {"recall"})
      BY <1>0, <1>2, <1>8 DEF Waits
    <2>3. v.loading => Coming(t, w, "history", {"older"})
      BY <1>0, <1>2, <1>8 DEF Waits
    <2>4. v.pending \/ v.recalls \/ v.loading => p.ready
      BY <1>0, <1>1, <1>2 DEF Waits
    <2>5. p.ready => p.welcomed
      BY <1>0, <1>1, <1>7 DEF Waits
    <2> QED BY <1>4, <2>1, <2>2, <2>3, <2>4, <2>5 DEF Waits
  <1>10. p.welcomed
    BY <1>1, <1>7
  <1>11. CASE ~s.syncing
    <2>1. ASSUME ~p.ready
          PROVE  \E l \in DOMAIN t.outgoing : t.outgoing[l].type \in {"sync_complete", "history_cleared"}
      <3>1. ~n.ready /\ f.type \notin {"sync_complete", "history_cleared"}
        BY <1>1, <2>1
      <3>2. PICK l \in DOMAIN s.outgoing : s.outgoing[l].type \in {"sync_complete", "history_cleared"}
        BY <1>0, <1>3, <1>11, <3>1 DEF CatchesUpInv, Active
      <3> QED BY <1>5, <3>1, <3>2
    <2>2. CatchesUpInv(i, p, t, w)
      BY <1>4, <1>10, <1>11, <2>1 DEF CatchesUpInv
    <2> QED BY <1>9, <2>2 DEF ClientOk, p, v
  <1>12. CASE s.syncing
    <2>0. HalfWay(n, s, u)
      BY <1>0, <1>3, <1>12 DEF CatchesUpInv, Active
    <2>1. CASE ~n.welcomed /\ s.outgoing[1].resumed /\ PageComing(n, s, 2) /\ u = <<>>
      <3>1. /\ Len(s.outgoing) = 2 /\ s.outgoing[2].type = "sync" /\ s.outgoing[2].hasMore
            /\ s.cursor = Further(n.cursor, s.outgoing[2].messages)
        BY <2>1 DEF PageComing
      <3>2. 2 \in DOMAIN s.outgoing
        BY <1>3, <3>1
      <3>3. Len(t.outgoing) = 1 /\ t.outgoing[1] = s.outgoing[2]
        BY <1>3, <1>4, <3>1
      <3>4. p.cursor = n.cursor /\ ~p.ready /\ w = u
        BY <1>1, <1>7, <2>0, <2>1 DEF HalfWay
      <3>5. HalfWay(p, t, w)
        BY <1>4, <1>10, <2>1, <3>1, <3>3, <3>4 DEF HalfWay, PageComing
      <3>6. CatchesUpInv(i, p, t, w)
        BY <1>4, <1>10, <1>12, <3>5 DEF CatchesUpInv
      <3> QED BY <1>9, <3>6 DEF ClientOk, p, v
    <2>2. CASE n.welcomed /\ PageComing(n, s, 1) /\ u = <<>>
      <3>1. /\ Len(s.outgoing) = 1 /\ f.type = "sync" /\ f.hasMore
            /\ s.cursor = Further(n.cursor, f.messages)
        BY <2>2 DEF PageComing
      <3>2. t.outgoing = <<>>
        <4> DEFINE q == Tail(s.outgoing)
        <4>1. q \in Seq(Frames) /\ Len(q) = 0
          BY <1>5, <3>1
        <4> HIDE DEF q
        <4>2. q = <<>>
          BY <4>1, EmptySeq
        <4> QED BY <1>4, <4>2 DEF q
      <3>3. p.cursor = s.cursor /\ ~p.ready
        BY <1>1, <2>0, <3>1 DEF HalfWay
      <3>4. w = <<[type |-> "sync", after |-> p.cursor]>>
        BY <2>2, <3>1 DEF p
      <3>5. HalfWay(p, t, w)
        BY <1>4, <1>10, <3>2, <3>3, <3>4 DEF HalfWay
      <3>6. CatchesUpInv(i, p, t, w)
        BY <1>4, <1>10, <1>12, <3>5 DEF CatchesUpInv
      <3> QED BY <1>9, <3>6 DEF ClientOk, p, v
    <2> QED BY <2>0, <2>1, <2>2 DEF HalfWay
  <1> QED BY <1>11, <1>12

\* A page of the catching up is asked for and sent.
LEMMA SyncedClient ==
    ASSUME ServerInv, NEW i, NEW n \in Networks, NEW m, NEW c \in Conn, NEW u \in Seq(Requests),
           ClientOk(i, n, m, conns[c], u), u # <<>>, Active(conns[c]), conns[c].syncing,
           HandleSync(c, "next", u[1].after)
    PROVE  ClientOk(i, n, m, conns'[c], Tail(u))
  <1> DEFINE s == conns[c]
             t == conns'[c]
             f == PageFrame("sync", "next", SyncPage(c))
             e == SyncSent(c)
  <1>0. /\ Waits(n, m, s, u) /\ HalfWay(n, s, u) /\ s.phase = "serving"
        /\ CatchesUpInv(i, n, s, u)
    BY DEF ClientOk, CatchesUpInv, Active
  <1>1. /\ ~n.ready /\ n.welcomed /\ s.outgoing = <<>> /\ s.cursor = n.cursor
        /\ u = <<[type |-> "sync", after |-> n.cursor]>>
    BY <1>0 DEF HalfWay
  <1>2. u[1].after = s.cursor /\ Tail(u) = <<>>
    BY <1>1
  <1>3. ~m.pending /\ ~m.recalls /\ ~m.loading
    BY <1>0, <1>1 DEF Waits
  <1>4. t = IF SyncPage(c).hasMore THEN e ELSE FinishSync(e)
    <2>1. \/ u[1].after # conns[c].cursor
          \/ conns'[c] = IF SyncPage(c).hasMore THEN SyncSent(c) ELSE FinishSync(SyncSent(c))
      BY SyncKeeps
    <2> QED BY <1>2, <2>1
  <1>5. /\ e \in SessionsOf(db.last) /\ e.syncing
        /\ e.live => e.outgoing = s.outgoing \o <<f>>
        /\ e.cursor = Advance(s.cursor, SyncPage(c))
    BY <1>0, SyncSentTyped
  <1>6. SyncPage(c) \in Pages(db.last) /\ \A x \in SyncPage(c).messages : x.id > s.cursor
    <2>1. s \in SessionsOf(db.last) /\ db \in Databases /\ RowsDrawn
      BY <1>0, InMap DEF ServerInv
    <2>2. s.room \in Room
      BY <2>1 DEF SessionsOf, Sessions
    <2> QED BY <2>1, <2>2, PageTyped DEF SyncPage
  <1>7. db.last \in Nat /\ s.cursor \in Nat
    BY <1>1 DEF ServerInv, Databases, Networks
  <1>8. e.cursor = Further(n.cursor, SyncPage(c).messages)
    BY <1>1, <1>5, <1>6, <1>7, AdvanceIsFurther
  <1>9. e.phase = "serving"
    BY <1>5 DEF SessionsOf, Sessions
  <1>10. CASE SyncPage(c).hasMore
    <2>1. t = e
      BY <1>4, <1>10
    <2>2. Active(t) => PageComing(n, t, 1)
      <3>1. f.type = "sync" /\ f.hasMore /\ f.messages = SyncPage(c).messages
        BY <1>10 DEF PageFrame
      <3> HIDE DEF f, e, t, s
      <3>2. Active(t) => t.outgoing = <<f>>
        BY <1>1, <1>5, <2>1 DEF Active
      <3> SUFFICES ASSUME Active(t) PROVE PageComing(n, t, 1)
        OBVIOUS
      <3>5. t.outgoing = <<f>>
        BY <3>2
      <3>6. Len(<<f>>) = 1 /\ <<f>>[1] = f
        OBVIOUS
      <3>3. Len(t.outgoing) = 1 /\ t.outgoing[1] = f
        BY <3>5, <3>6
      <3>4. t.cursor = Further(n.cursor, SyncPage(c).messages)
        BY <1>8, <2>1
      <3> QED BY <3>1, <3>3, <3>4 DEF PageComing
    <2>3. Active(t) => HalfWay(n, t, Tail(u))
      BY <1>1, <1>2, <2>2 DEF HalfWay
    <2> HIDE DEF e, t
    <2>4. CatchesUpInv(i, n, t, Tail(u))
      BY <1>1, <1>5, <1>9, <2>1, <2>3 DEF CatchesUpInv
    <2>5. Waits(n, m, t, Tail(u))
      BY <1>1, <1>3, <1>9, <2>1 DEF Waits
    <2> QED BY <2>4, <2>5 DEF ClientOk, t
  <1>11. CASE ~SyncPage(c).hasMore
    <2>1. t = FinishSync(e)
      BY <1>4, <1>11
    <2>2. FinishSync(e) \in SessionsOf(db.last) /\ ~FinishSync(e).syncing
          /\ Says(FinishSync(e), SyncComplete(e.through))
      BY <1>5, <1>7, FinishTyped
    <2> HIDE DEF e, t
    <2>3. t.live => \E l \in DOMAIN t.outgoing : t.outgoing[l].type \in {"sync_complete", "history_cleared"}
      BY <2>1, <2>2 DEF Says, SyncComplete
    <2>4. t.phase = "serving" /\ ~t.syncing
      BY <2>1, <2>2 DEF SessionsOf, Sessions
    <2>5. CatchesUpInv(i, n, t, Tail(u))
      BY <1>1, <2>3, <2>4 DEF CatchesUpInv, Active
    <2>6. Waits(n, m, t, Tail(u))
      BY <1>1, <1>3, <2>4 DEF Waits
    <2> QED BY <2>5, <2>6 DEF ClientOk, t
  <1> QED BY <1>10, <1>11

-----------------------------------------------------------------------------
(* Clients that are let in or refused, ask, or have dialled *)

\* A connection that is refused owes its client the refusal, no more.
LEMMA RefusedClient ==
    ASSUME NEW i, NEW n, NEW m, NEW s, NEW u, NEW w, ClientOk(i, n, m, s, u),
           s.phase = "reading", NEW live, NEW code
    PROVE  ClientOk(i, n, m, Refused(live, code), w)
  <1>1. Refused(live, code).phase = "refused"
    BY DEF Refused
  <1> DEFINE t == Refused(live, code)
  <1> HIDE DEF t
  <1>2. ~n.ready /\ ~n.welcomed /\ ~m.pending /\ ~m.recalls /\ ~m.loading
    BY DEF ClientOk, Waits
  <1>3. t.phase = "refused"
    BY <1>1 DEF t
  <1>4. ClientOk(i, n, m, t, w)
    BY <1>2, <1>3 DEF ClientOk, Waits, CatchesUpInv, Active
  <1> QED BY <1>4 DEF t

\* A client is let in, or refused.
LEMMA JoiningClient ==
    ASSUME ServerInv, NEW i \in Client, NEW n \in Networks, NEW m, NEW c \in Conn,
           NEW u \in Seq(Requests), ClientOk(i, n, m, conns[c], u), conns[c].phase = "reading",
           NEW r \in Room, NEW nick \in Name, Join(c, r, nick, i, n.instance, n.cursor)
    PROVE  ClientOk(i, n, m, conns'[c], Tail(u))
  <1> DEFINE S == NewSession(r, nick, i, n.instance, n.cursor)
             t == conns'[c]
             P == FirstPage(r, n.instance, n.cursor)
             F == FirstFrame(r, n.instance, n.cursor)
             G == Greeting(r, nick, n.instance)
  <1>0. i \in Owner /\ n.cursor \in Int /\ n.cursor \in Nat
    BY ClientAssumption DEF Networks
  <1>1. CASE \E code \in ErrorCodes : t = Refused(conns[c].live, code)
    BY <1>1, RefusedClient
  <1>2. CASE Told(t, S)
    <2>1. db' = OpenRoom(db, r) /\ db \in Databases /\ RowsDrawn /\ DOMAIN sessions \subseteq Room \X Name
          /\ db.last \in Nat
      BY DEF Join, ServerInv, SessionInv, Databases
    <2>2. Fresh(S, r, nick, i, n.instance, n.cursor)
      BY <1>0, <2>1, NewSessionFresh
    <2>3. S \in SessionsOf(db.last)
      BY <2>2 DEF Fresh
    <2>4. /\ t.phase = "serving" /\ S.phase = "serving" /\ (t.live => S.live)
          /\ t.syncing = S.syncing /\ t.cursor = S.cursor
          /\ S.syncing => t.outgoing = S.outgoing
          /\ \A k \in DOMAIN S.outgoing : k \in DOMAIN t.outgoing /\ t.outgoing[k] = S.outgoing[k]
      <3>1. S.phase = "serving"
        BY <2>3 DEF SessionsOf, Sessions
      <3> HIDE DEF S
      <3> QED BY <1>2, <3>1 DEF Told, Grows
    <2>5. ~n.ready /\ ~n.welcomed /\ ~m.pending /\ ~m.recalls /\ ~m.loading
          /\ u = <<[type |-> "join", client |-> i, instance |-> n.instance, after |-> n.cursor]>>
      BY DEF ClientOk, Waits, CatchesUpInv
    <2>6. Tail(u) = <<>>
      BY <2>5
    <2>7. G.type = "welcome" /\ (G.resumed <=> n.instance = InstanceID(db, r))
          /\ F.messages = P.messages /\ F.hasMore = P.hasMore
          /\ (n.instance = InstanceID(db, r) => F.type = "sync")
      BY DEF Greeting, FirstFrame, Welcome, PageFrame
    <2>8. /\ S.syncing <=> (n.instance = InstanceID(db, r) /\ P.hasMore)
          /\ (S.live /\ S.syncing) => S.outgoing = <<G, F>> /\ S.cursor = Advance(n.cursor, P)
          /\ (S.live /\ ~S.syncing) => S.outgoing = <<G, F, SyncComplete(LatestID(db, r))>>
      BY <2>2 DEF Fresh
    <2>9. n.instance = InstanceID(db, r) =>
             P \in Pages(db.last) /\ \A x \in P.messages : x.id > n.cursor
      BY <2>1, PageTyped DEF FirstPage
    <2>10. n.instance = InstanceID(db, r) => Advance(n.cursor, P) = Further(n.cursor, P.messages)
      BY <1>0, <2>1, <2>9, AdvanceIsFurther
    <2>11. SyncComplete(LatestID(db, r)).type = "sync_complete"
      BY DEF SyncComplete
    <2> HIDE DEF S, t, P, F, G
    <2>12. CASE Active(t) /\ S.syncing
      <3>1. S.outgoing = <<G, F>> /\ t.outgoing = <<G, F>>
        BY <2>4, <2>8, <2>12 DEF Active
      <3>2. Len(<<G, F>>) = 2 /\ <<G, F>>[1] = G /\ <<G, F>>[2] = F /\ <<G, F>> # <<>>
        OBVIOUS
      <3>3. PageComing(n, t, 2)
        BY <2>4, <2>7, <2>8, <2>10, <2>12, <3>1, <3>2 DEF PageComing, Active
      <3>4. HalfWay(n, t, Tail(u))
        BY <2>5, <2>6, <2>7, <2>8, <2>12, <3>1, <3>2, <3>3 DEF HalfWay
      <3>5. t.outgoing # <<>> /\ t.outgoing[1].type = "welcome"
        BY <2>7, <3>1, <3>2
      <3> QED BY <2>4, <2>5, <2>12, <3>4, <3>5 DEF ClientOk, Waits, CatchesUpInv, t
    <2>13. CASE Active(t) /\ ~S.syncing
      <3> DEFINE x == SyncComplete(LatestID(db, r))
                 q == <<G, F, x>>
      <3>1. S.outgoing = q
        BY <2>4, <2>8, <2>13 DEF Active
      <3>2. 1 \in DOMAIN q /\ q[1] = G /\ 3 \in DOMAIN q /\ q[3] = x
        OBVIOUS
      <3>3. 1 \in DOMAIN t.outgoing /\ t.outgoing[1] = G /\ 3 \in DOMAIN t.outgoing /\ t.outgoing[3] = x
        BY <2>4, <3>1, <3>2
      <3>4. t.outgoing # <<>> /\ t.outgoing[1].type = "welcome"
        BY <2>7, <3>3
      <3>5. \E k \in DOMAIN t.outgoing : t.outgoing[k].type \in {"sync_complete", "history_cleared"}
        BY <2>11, <3>3
      <3> QED BY <2>4, <2>5, <2>13, <3>4, <3>5 DEF ClientOk, Waits, CatchesUpInv, t
    <2>14. CASE ~Active(t)
      BY <2>4, <2>5, <2>14 DEF ClientOk, Waits, CatchesUpInv, t
    <2> QED BY <2>12, <2>13, <2>14
  <1>3. \/ \E code \in ErrorCodes : t = Refused(conns[c].live, code)
        \/ Told(t, S)
    BY <1>0, JoinKeeps
  <1> QED BY <1>1, <1>2, <1>3

\* A user asks for something.
LEMMA AskingClient ==
    ASSUME NEW i, NEW n, NEW m, NEW v, NEW s, NEW u \in Seq(Requests), NEW x \in Requests,
           ClientOk(i, n, m, s, u), n.ready,
           v.pending => m.pending \/ x.type = "send",
           v.recalls => m.recalls \/ x.type = "recall",
           v.loading => m.loading \/ x.type = "history"
    PROVE  ClientOk(i, n, v, s, Append(u, x))
  <1> DEFINE w == Append(u, x)
  <1>1. \A k \in DOMAIN u : k \in DOMAIN w /\ w[k] = u[k]
    OBVIOUS
  <1>2. Len(u) + 1 \in DOMAIN w /\ w[Len(u) + 1] = x
    OBVIOUS
  <1> HIDE DEF w
  <1>3. ASSUME NEW type, NEW reqs, Coming(s, u, type, reqs) \/ x.type = type
        PROVE  Coming(s, w, type, reqs)
    BY <1>1, <1>2, <1>3 DEF Coming
  <1>4. Waits(n, v, s, w)
    BY <1>3 DEF ClientOk, Waits
  <1>5. CatchesUpInv(i, n, s, w)
    BY DEF ClientOk, Waits, CatchesUpInv, HalfWay
  <1> QED BY <1>4, <1>5 DEF ClientOk, w

\* A client has dialled.
LEMMA DiallingClient ==
    ASSUME NEW i, NEW n, NEW m, NEW u, ~n.ready, ~n.welcomed,
           ~m.pending, ~m.recalls, ~m.loading,
           u = <<[type |-> "join", client |-> i, instance |-> n.instance, after |-> n.cursor]>>
    PROVE  ClientOk(i, n, m, Accepted, u)
  <1>1. Accepted.phase = "reading"
    BY DEF Accepted
  <1> QED BY <1>1 DEF ClientOk, Waits, CatchesUpInv, Active

-----------------------------------------------------------------------------
(* Steps of one client or one connection *)

\* The connection of a linked client lasts, with nothing read or handled.
LEMMA Bystander ==
    ASSUME SystemInv, NEW i \in Client, Linked(i), NEW t, Lasts(t, conns[net[i].conn])
    PROVE  ClientOk(i, net[i], tui[i], t, up[net[i].conn])
  <1> DEFINE c == net[i].conn
             s == conns[c]
  <1>1. /\ c \in Conn /\ ClientOk(i, net[i], tui[i], s, up[c])
        /\ s \in ConnsOf(db.last) /\ db.last \in Nat
    BY DEF SystemInv, ServerInv, Databases
  <1>2. s.phase = "serving" => s \in SessionsOf(db.last)
    BY <1>1, Phases
  <1> HIDE DEF c, s
  <1>3. Lasts(t, s)
    BY DEF s, c
  <1>4. ClientOk(i, net[i], tui[i], t, up[c])
    BY <1>1, <1>2, <1>3, LastingClient
  <1> QED BY <1>4 DEF c

\* A step of a connection, or of the server.
LEMMA ConnectionStep ==
    ASSUME SystemInv, ServerInv', up' \in [Conn -> Seq(Requests)], UNCHANGED <<net, tui>>,
           \A i \in Client : Linked(i) =>
              ClientOk(i, net[i], tui[i], conns'[net[i].conn], up'[net[i].conn])
    PROVE  SystemInv'
  BY DEF SystemInv, Linked

\* A step of client i.
LEMMA ClientStep ==
    ASSUME SystemInv, ServerInv', up' \in [Conn -> Seq(Requests)],
           NEW i \in Client, NEW p \in Networks, NEW v \in Models,
           net' = [net EXCEPT ![i] = p], tui' = [tui EXCEPT ![i] = v],
           \A j \in Client \ {i} : Linked(j) =>
              /\ Lasts(conns'[net[j].conn], conns[net[j].conn])
              /\ up'[net[j].conn] = up[net[j].conn]
              /\ p.phase = "linked" => p.conn # net[j].conn,
           p.phase = "linked" => p.conn \in Conn /\ ClientOk(i, p, v, conns'[p.conn], up'[p.conn]),
           p.phase # "linked" => Alone(p, v)
    PROVE  SystemInv'
  <1>0. net \in [Client -> Networks] /\ tui \in [Client -> Models]
    BY DEF SystemInv
  <1>1. /\ net' \in [Client -> Networks] /\ tui' \in [Client -> Models]
        /\ net'[i] = p /\ tui'[i] = v
        /\ \A j \in Client \ {i} : net'[j] = net[j] /\ tui'[j] = tui[j]
    BY <1>0
  <1>2. ASSUME NEW j \in Client, NEW l \in Client, Linked(j)', Linked(l)', j # l
        PROVE  net'[j].conn # net'[l].conn
    BY <1>1, <1>2 DEF SystemInv, Linked
  <1>3. ASSUME NEW j \in Client
        PROVE  /\ Linked(j)' => /\ net'[j].conn \in Conn
                                /\ ClientOk(j, net'[j], tui'[j], conns'[net'[j].conn], up'[net'[j].conn])
               /\ ~Linked(j)' => Alone(net'[j], tui'[j])
    <2>1. CASE j = i
      BY <1>1, <2>1 DEF Linked
    <2>2. CASE j # i
      <3>1. net'[j] = net[j] /\ tui'[j] = tui[j]
        BY <1>1, <2>2
      <3>2. ASSUME Linked(j)
            PROVE  /\ net[j].conn \in Conn
                   /\ ClientOk(j, net[j], tui[j], conns'[net[j].conn], up'[net[j].conn])
        <4>1. Lasts(conns'[net[j].conn], conns[net[j].conn]) /\ up'[net[j].conn] = up[net[j].conn]
          BY <2>2, <3>2
        <4>2. ClientOk(j, net[j], tui[j], conns'[net[j].conn], up[net[j].conn])
          BY <3>2, <4>1, Bystander
        <4>3. net[j].conn \in Conn
          BY <3>2 DEF SystemInv
        <4> QED BY <4>1, <4>2, <4>3
      <3>3. ~Linked(j) => Alone(net[j], tui[j])
        BY DEF SystemInv
      <3> QED BY <3>1, <3>2, <3>3 DEF Linked
    <2> QED BY <2>1, <2>2
  <1> QED BY <1>1, <1>2, <1>3 DEF SystemInv

\* A connection that nothing happens to lasts, and so does one that is told news.
LEMMA Lasting ==
    ASSUME NEW s, NEW t, Told(t, s)
    PROVE  Lasts(t, s)
  BY DEF Lasts

\* A request stays a request in the queue of its connection.
LEMMA RequestTyped ==
    ASSUME NEW i \in Client, net[i] \in Networks
    PROVE  JoinRequest(i) \in Requests
  BY DEF JoinRequest, Requests, JoinRequests, Networks

\* Dialling takes a connection that no other client uses.
LEMMA DialKeeps ==
    ASSUME SystemInv, NEW i \in Client, NEW c \in Conn, Dial(i, c)
    PROVE  SystemInv'
  <1> DEFINE p == Link(net[i], c)
             v == [tui[i] EXCEPT !.connected = FALSE]
             x == JoinRequest(i)
  <1>0. /\ ServerInv /\ net[i] \in Networks /\ tui[i] \in Models /\ up \in [Conn -> Seq(Requests)]
        /\ net[i].phase = "offline" /\ c \notin Attached /\ Accept(c)
        /\ net' = [net EXCEPT ![i] = p] /\ up' = [up EXCEPT ![c] = <<x>>]
    BY DEF SystemInv, Dial
  <1>1. ServerInv' /\ Others(c)
    BY <1>0, ConnectionKeeps
  <1>2. conns'[c] = Accepted
    BY <1>0 DEF Accept, ServerInv
  <1>3. x \in Requests
    BY <1>0, RequestTyped
  <1>4. up' \in [Conn -> Seq(Requests)] /\ up'[c] = <<x>>
        /\ \A d \in Conn \ {c} : up'[d] = up[d]
    <2>1. <<x>> \in Seq(Requests)
      BY <1>3
    <2> HIDE DEF x
    <2> QED BY <1>0, <2>1
  <1>5. p \in Networks /\ p.phase = "linked" /\ p.conn = c /\ ~p.ready /\ ~p.welcomed
        /\ p.instance = net[i].instance /\ p.cursor = net[i].cursor
    BY <1>0, LinkTyped
  <1>6. v \in Models /\ tui' = [tui EXCEPT ![i] = v]
        /\ v.pending = tui[i].pending /\ v.recalls = tui[i].recalls /\ v.loading = tui[i].loading
    BY <1>0 DEF Dial, Models
  <1>7. Alone(net[i], tui[i])
    BY <1>0 DEF SystemInv, Linked
  <1>8. ASSUME NEW j \in Client \ {i}, Linked(j)
        PROVE  /\ Lasts(conns'[net[j].conn], conns[net[j].conn])
               /\ up'[net[j].conn] = up[net[j].conn]
               /\ net[j].conn # c
    <2>1. net[j].conn \in Conn \ {c}
      BY <1>0, <1>8 DEF Attached, SystemInv
    <2> QED BY <1>1, <1>4, <2>1, Lasting DEF Others
  <1>9. x = [type |-> "join", client |-> i, instance |-> p.instance, after |-> p.cursor]
    BY <1>5 DEF JoinRequest
  <1> HIDE DEF p, v, x
  <1>10. ClientOk(i, p, v, Accepted, <<x>>)
    BY <1>5, <1>6, <1>7, <1>9, DiallingClient DEF Alone
  <1>11. p.phase = "linked" => p.conn \in Conn /\ ClientOk(i, p, v, conns'[p.conn], up'[p.conn])
    BY <1>2, <1>4, <1>5, <1>10
  <1>12. \A j \in Client \ {i} : Linked(j) =>
            /\ Lasts(conns'[net[j].conn], conns[net[j].conn])
            /\ up'[net[j].conn] = up[net[j].conn]
            /\ p.phase = "linked" => p.conn # net[j].conn
    BY <1>5, <1>8
  <1>13. net' = [net EXCEPT ![i] = p] /\ tui' = [tui EXCEPT ![i] = v]
    BY <1>0, <1>6
  <1>14. p \in Networks /\ v \in Models /\ (p.phase # "linked" => Alone(p, v))
    BY <1>5, <1>6
  <1>15. ServerInv' /\ up' \in [Conn -> Seq(Requests)]
    BY <1>1, <1>4
  <1> QED BY <1>11, <1>12, <1>13, <1>14, <1>15, ClientStep

\* A client whose link breaks waits for nothing.
LEMMA BreakKeeps ==
    ASSUME SystemInv, NEW i \in Client, Break(i)
    PROVE  SystemInv'
  <1> DEFINE p == Unlink(net[i], "offline")
             v == Disconnected(tui[i])
  <1>0. /\ ServerInv /\ net[i] \in Networks /\ tui[i] \in Models /\ up \in [Conn -> Seq(Requests)]
        /\ net' = [net EXCEPT ![i] = p] /\ tui' = [tui EXCEPT ![i] = v] /\ UNCHANGED <<vars, up>>
    BY DEF SystemInv, Break, Drop
  <1>1. ServerInv'
    BY <1>0, IdleKeeps
  <1>2. p \in Networks /\ v \in Models /\ p.phase # "linked" /\ Alone(p, v)
    BY <1>0, UnlinkTyped, DisconnectedTyped DEF Alone
  <1>3. conns' = conns /\ up' = up
    BY <1>0 DEF vars
  <1>4. \A j \in Client \ {i} : Linked(j) =>
            /\ Lasts(conns'[net[j].conn], conns[net[j].conn])
            /\ up'[net[j].conn] = up[net[j].conn]
    BY <1>3 DEF Lasts, Told
  <1> HIDE DEF p, v
  <1> QED BY <1>0, <1>1, <1>2, <1>3, <1>4, ClientStep

\* The user asks for something while the link is ready.
LEMMA AskKeeps ==
    ASSUME SystemInv, NEW i \in Client, NEW x \in Requests, Ask(i, x),
           NEW v \in Models, tui' = [tui EXCEPT ![i] = v],
           v.pending => tui[i].pending \/ x.type = "send",
           v.recalls => tui[i].recalls \/ x.type = "recall",
           v.loading => tui[i].loading \/ x.type = "history"
    PROVE  SystemInv'
  <1> DEFINE n == net[i]
             c == n.conn
             w == Append(up[c], x)
  <1>0. /\ ServerInv /\ n \in Networks /\ net \in [Client -> Networks] /\ up \in [Conn -> Seq(Requests)]
        /\ Linked(i) /\ n.ready /\ c \in Conn
        /\ ClientOk(i, n, tui[i], conns[c], up[c])
        /\ up' = [up EXCEPT ![c] = w] /\ UNCHANGED <<vars, net>>
    BY DEF SystemInv, Ask
  <1>1. ServerInv' /\ conns' = conns
    BY <1>0, IdleKeeps DEF vars
  <1>2. up[c] \in Seq(Requests) /\ w \in Seq(Requests)
    BY <1>0
  <1>3. up' \in [Conn -> Seq(Requests)] /\ up'[c] = w /\ \A d \in Conn \ {c} : up'[d] = up[d]
    BY <1>0, <1>2
  <1>4. ClientOk(i, n, v, conns[c], w)
    BY <1>0, <1>2, AskingClient
  <1>5. \A j \in Client \ {i} : Linked(j) => net[j].conn \in Conn \ {c}
    BY <1>0 DEF SystemInv
  <1>6. \A j \in Client \ {i} : Linked(j) =>
            /\ Lasts(conns'[net[j].conn], conns[net[j].conn])
            /\ up'[net[j].conn] = up[net[j].conn]
            /\ net[j].conn # c
    BY <1>1, <1>3, <1>5 DEF Lasts, Told
  <1>7. net' = [net EXCEPT ![i] = n] /\ n.phase = "linked"
    BY <1>0 DEF Linked
  <1> HIDE DEF n, c, w
  <1>8. n.conn = c
    BY DEF n, c
  <1>9. c \in Conn /\ n \in Networks
    BY <1>0
  <1>10. n.conn \in Conn /\ ClientOk(i, n, v, conns'[n.conn], up'[n.conn])
    BY <1>1, <1>3, <1>4, <1>8, <1>9
  <1>11. \A j \in Client \ {i} : Linked(j) =>
            /\ Lasts(conns'[net[j].conn], conns[net[j].conn])
            /\ up'[net[j].conn] = up[net[j].conn]
            /\ n.conn # net[j].conn
    BY <1>6, <1>8
  <1> QED BY <1>1, <1>3, <1>7, <1>9, <1>10, <1>11, ClientStep

-----------------------------------------------------------------------------
(* The client reads *)

\* The first frame of its session, for a client that reads one.
LEMMA ReadFacts ==
    ASSUME SystemInv, NEW i \in Client, NEW f \in Incoming(i), Read(i),
           net[i].welcomed \/ f.type # "error"
    PROVE  LET c == net[i].conn
               s == conns[c]
           IN  /\ Linked(i) /\ c \in Conn /\ up[c] \in Seq(Requests)
               /\ ClientOk(i, net[i], tui[i], s, up[c])
               /\ s \in SessionsOf(db.last) /\ Active(s) /\ s.outgoing # <<>>
               /\ f = s.outgoing[1] /\ f \in SoundFrames(db.last)
               /\ ServerInv' /\ Others(c)
               /\ conns'[c] = [s EXCEPT !.outgoing = Tail(s.outgoing)]
               /\ UNCHANGED db
  <1> DEFINE c == net[i].conn
             s == conns[c]
  <1>1. /\ Linked(i) /\ s.phase \in {"refused", "serving"} /\ s.live /\ s.outgoing # <<>>
        /\ f = Head(s.outgoing)
    BY DEF Incoming
  <1>2. /\ ServerInv /\ c \in Conn /\ up[c] \in Seq(Requests)
        /\ ClientOk(i, net[i], tui[i], s, up[c])
        /\ s \in ConnsOf(db.last) /\ db.last \in Nat
    BY <1>1 DEF SystemInv, ServerInv, Databases
  <1>3. s.phase # "refused"
    <2> SUFFICES ASSUME s.phase = "refused" PROVE FALSE
      OBVIOUS
    <2>1. DOMAIN s.outgoing = {1} /\ s.outgoing[1].type = "error"
      BY <1>2, Phases
    <2>2. PICK live \in BOOLEAN, code \in ErrorCodes : s = Refused(live, code)
      <3>1. s \notin SessionsOf(db.last) /\ s # Free /\ s \notin [phase : {"reading"}, live : BOOLEAN]
        BY DEF SessionsOf, Sessions, Free
      <3> QED BY <1>2, <3>1 DEF ConnsOf
    <2>3. s.outgoing = <<Error("join", code)>>
      BY <2>2 DEF Refused
    <2>4. f.type = "error"
      BY <1>1, <2>3 DEF Error
    <2>5. ~net[i].welcomed
      BY <1>2 DEF ClientOk, Waits
    <2> QED BY <2>4, <2>5
  <1>4. s.phase = "serving" /\ s \in SessionsOf(db.last) /\ Active(s)
    BY <1>1, <1>2, <1>3, Phases DEF Active
  <1>5. s.outgoing \in Seq(SoundFrames(db.last))
    BY <1>4 DEF SessionsOf
  <1>6. f = s.outgoing[1] /\ f \in SoundFrames(db.last)
    BY <1>1, <1>5, TailFacts
  <1>7. WriteFrame(c)
    BY <1>4 DEF Read, WriteRefusal
  <1>8. /\ ServerInv' /\ Others(c)
        /\ conns'[c] = [conns[c] EXCEPT !.outgoing = Tail(@)]
    BY <1>2, <1>7, WriteKeeps
  <1>9. UNCHANGED db
    BY <1>7 DEF WriteFrame
  <1> QED BY <1>1, <1>2, <1>4, <1>6, <1>8, <1>9

\* What the step of another client's connection is to client j.
LEMMA OthersLast ==
    ASSUME SystemInv, NEW i \in Client, Linked(i), Others(net[i].conn),
           \A d \in Conn \ {net[i].conn} : up'[d] = up[d]
    PROVE  \A j \in Client \ {i} : Linked(j) =>
              /\ Lasts(conns'[net[j].conn], conns[net[j].conn])
              /\ up'[net[j].conn] = up[net[j].conn]
              /\ net[i].conn # net[j].conn
  <1> SUFFICES ASSUME NEW j \in Client \ {i}, Linked(j)
               PROVE  /\ Lasts(conns'[net[j].conn], conns[net[j].conn])
                      /\ up'[net[j].conn] = up[net[j].conn]
                      /\ net[i].conn # net[j].conn
    OBVIOUS
  <1>1. net[j].conn \in Conn /\ net[i].conn # net[j].conn
    BY DEF SystemInv
  <1>2. Told(conns'[net[j].conn], conns[net[j].conn])
    BY <1>1 DEF Others
  <1> QED BY <1>1, <1>2, Lasting

\* A client reads the next frame of its connection,
LEMMA ReceiveKeeps ==
    ASSUME SystemInv, NEW i \in Client, Receive(i)
    PROVE  SystemInv'
  <1>1. PICK f \in Incoming(i) :
            /\ net[i].welcomed \/ f.type # "error"
            /\ Read(i)
            /\ net' = [net EXCEPT ![i] = AfterEmit(BeforeEmit(@, f), f)]
            /\ tui' = [tui EXCEPT ![i] = Show(@, f)]
            /\ AskNext(i, f)
    BY DEF Receive
  <1> DEFINE n == net[i]
             m == tui[i]
             c == n.conn
             s == conns[c]
             p == Received(n, f)
             v == Show(m, f)
             x == [type |-> "sync", after |-> p.cursor]
             w == IF f.type = "sync" /\ f.hasMore THEN Append(up[c], x) ELSE up[c]
  <1>2. /\ Linked(i) /\ c \in Conn /\ up[c] \in Seq(Requests)
        /\ ClientOk(i, n, m, s, up[c])
        /\ s \in SessionsOf(db.last) /\ Active(s) /\ s.outgoing # <<>>
        /\ f = s.outgoing[1] /\ f \in SoundFrames(db.last)
        /\ ServerInv' /\ Others(c)
        /\ conns'[c] = [s EXCEPT !.outgoing = Tail(s.outgoing)]
    BY <1>1, ReadFacts
  <1>3. /\ n \in Networks /\ m \in Models /\ up \in [Conn -> Seq(Requests)] /\ db.last \in Nat
        /\ net \in [Client -> Networks] /\ tui \in [Client -> Models]
    BY DEF SystemInv, ServerInv, Databases
  <1>4. net' = [net EXCEPT ![i] = p] /\ tui' = [tui EXCEPT ![i] = v]
    BY <1>1 DEF Received
  <1>5. p \in Networks /\ p.phase = n.phase /\ p.conn = c
    BY <1>2, <1>3, ReceivedTyped
  <1>6. v \in Models
    BY <1>2, <1>3, ShowTyped
  <1>7. x \in Requests
    <2>1. p.cursor \in Nat
      BY <1>5 DEF Networks
    <2> HIDE DEF p
    <2> QED BY <2>1 DEF Requests
  <1>8. w \in Seq(Requests)
    BY <1>2, <1>7
  <1>9. up' = [up EXCEPT ![c] = w]
    <2>1. net'[i] = p
      BY <1>3, <1>4
    <2>2. CASE f.type = "sync" /\ f.hasMore
      BY <1>1, <2>1, <2>2 DEF AskNext
    <2>3. CASE ~(f.type = "sync" /\ f.hasMore)
      BY <1>1, <1>3, <2>3 DEF AskNext
    <2> QED BY <2>2, <2>3
  <1>10. ClientOk(i, p, v, conns'[c], w)
    <2>1. ClientOk(i, p, v, [s EXCEPT !.outgoing = Tail(s.outgoing)], w)
      BY <1>1, <1>2, <1>3, ReadingClient
    <2> HIDE DEF p, v, w
    <2> QED BY <1>2, <2>1
  <1> HIDE DEF p, v, x, w
  <1>11. up' \in [Conn -> Seq(Requests)] /\ up'[c] = w /\ \A d \in Conn \ {c} : up'[d] = up[d]
    BY <1>2, <1>3, <1>8, <1>9
  <1>12. \A j \in Client \ {i} : Linked(j) =>
              /\ Lasts(conns'[net[j].conn], conns[net[j].conn])
              /\ up'[net[j].conn] = up[net[j].conn]
              /\ net[i].conn # net[j].conn
    BY <1>2, <1>11, OthersLast
  <1>13. \A j \in Client \ {i} : Linked(j) =>
              /\ Lasts(conns'[net[j].conn], conns[net[j].conn])
              /\ up'[net[j].conn] = up[net[j].conn]
              /\ p.phase = "linked" => p.conn # net[j].conn
    BY <1>5, <1>12
  <1>14. p.phase = "linked" => p.conn \in Conn /\ ClientOk(i, p, v, conns'[p.conn], up'[p.conn])
    BY <1>2, <1>5, <1>10, <1>11
  <1>15. p.phase # "linked" => Alone(p, v)
    BY <1>2, <1>5 DEF Linked
  <1>16. ServerInv' /\ up' \in [Conn -> Seq(Requests)]
    BY <1>2, <1>11
  <1> QED BY <1>4, <1>5, <1>6, <1>13, <1>14, <1>15, <1>16, ClientStep

\* The link of a client ends in a step of its connection.
LEMMA UnlinkKeeps ==
    ASSUME SystemInv, NEW i \in Client, Linked(i), ServerInv', Others(net[i].conn),
           UNCHANGED up, NEW p \in Networks, NEW v \in Models,
           net' = [net EXCEPT ![i] = p], tui' = [tui EXCEPT ![i] = v],
           p.phase # "linked", Alone(p, v)
    PROVE  SystemInv'
  <1>1. up' \in [Conn -> Seq(Requests)] /\ \A d \in Conn \ {net[i].conn} : up'[d] = up[d]
    BY DEF SystemInv
  <1>2. \A j \in Client \ {i} : Linked(j) =>
              /\ Lasts(conns'[net[j].conn], conns[net[j].conn])
              /\ up'[net[j].conn] = up[net[j].conn]
              /\ net[i].conn # net[j].conn
    BY <1>1, OthersLast
  <1>3. \A j \in Client \ {i} : Linked(j) =>
              /\ Lasts(conns'[net[j].conn], conns[net[j].conn])
              /\ up'[net[j].conn] = up[net[j].conn]
              /\ p.phase = "linked" => p.conn # net[j].conn
    BY <1>2
  <1>4. p.phase = "linked" => p.conn \in Conn /\ ClientOk(i, p, v, conns'[p.conn], up'[p.conn])
    OBVIOUS
  <1>5. p.phase # "linked" => Alone(p, v)
    OBVIOUS
  <1> QED BY <1>1, <1>3, <1>4, <1>5, ClientStep

\* or reads it when its link is already cancelled,
LEMMA ReceiveCancelledKeeps ==
    ASSUME SystemInv, NEW i \in Client, ReceiveCancelled(i)
    PROVE  SystemInv'
  <1>1. PICK f \in Incoming(i) :
            /\ net[i].welcomed \/ f.type # "error"
            /\ Read(i)
            /\ net' = [net EXCEPT ![i] = Unlink(BeforeEmit(@, f), "offline")]
            /\ tui' = [tui EXCEPT ![i] = Disconnected(@)]
            /\ UNCHANGED up
    BY DEF ReceiveCancelled
  <1> DEFINE b == BeforeEmit(net[i], f)
             p == Unlink(b, "offline")
             v == Disconnected(tui[i])
  <1>2. /\ net[i] \in Networks /\ tui[i] \in Models /\ db.last \in Nat
        /\ net \in [Client -> Networks] /\ tui \in [Client -> Models]
    BY DEF SystemInv, ServerInv, Databases
  <1>3. Linked(i) /\ ServerInv' /\ Others(net[i].conn) /\ f \in SoundFrames(db.last)
    BY <1>1, ReadFacts
  <1>4. b \in Networks
    BY <1>2, <1>3, BeforeTyped
  <1>5. p \in Networks /\ v \in Models /\ p.phase # "linked" /\ Alone(p, v)
    BY <1>2, <1>4, UnlinkTyped, DisconnectedTyped DEF Alone
  <1>6. net' = [net EXCEPT ![i] = p] /\ tui' = [tui EXCEPT ![i] = v] /\ UNCHANGED up
    BY <1>1
  <1> HIDE DEF b, p, v
  <1> QED BY <1>3, <1>5, <1>6, UnlinkKeeps

\* or reads that it is refused.
LEMMA ReceiveRefusalKeeps ==
    ASSUME SystemInv, NEW i \in Client, ReceiveRefusal(i)
    PROVE  SystemInv'
  <1>1. PICK f \in Incoming(i) :
            /\ ~net[i].welcomed /\ f.type = "error"
            /\ Read(i)
            /\ \/ /\ net' = [net EXCEPT ![i] = Unlink(@, "stopped")]
                  /\ tui' = [tui EXCEPT ![i] = GivenUp(@)]
               \/ Drop(i)
            /\ UNCHANGED up
    BY DEF ReceiveRefusal
  <1>2. /\ ServerInv /\ net[i] \in Networks /\ tui[i] \in Models
        /\ Linked(i) /\ net[i].conn \in Conn
        /\ ClientOk(i, net[i], tui[i], conns[net[i].conn], up[net[i].conn])
    BY <1>1 DEF SystemInv, Incoming
  <1>3. ServerInv' /\ Others(net[i].conn)
    BY <1>1, <1>2, WriteKeeps, ConnectionKeeps DEF Read
  <1>4. ~tui[i].pending /\ ~tui[i].recalls /\ ~tui[i].loading
    BY <1>1, <1>2 DEF ClientOk, Waits
  <1>5. CASE Drop(i)
    <2> DEFINE p == Unlink(net[i], "offline")
               v == Disconnected(tui[i])
    <2>1. p \in Networks /\ v \in Models /\ p.phase # "linked" /\ Alone(p, v)
      BY <1>2, UnlinkTyped, DisconnectedTyped DEF Alone
    <2>2. net' = [net EXCEPT ![i] = p] /\ tui' = [tui EXCEPT ![i] = v]
      BY <1>5 DEF Drop
    <2> HIDE DEF p, v
    <2> QED BY <1>1, <1>2, <1>3, <2>1, <2>2, UnlinkKeeps
  <1>6. CASE /\ net' = [net EXCEPT ![i] = Unlink(@, "stopped")]
             /\ tui' = [tui EXCEPT ![i] = GivenUp(@)]
    <2> DEFINE p == Unlink(net[i], "stopped")
               v == GivenUp(tui[i])
    <2>1. p \in Networks /\ v \in Models /\ p.phase # "linked" /\ Alone(p, v)
      BY <1>2, <1>4, UnlinkTyped, GivenUpTyped DEF Alone
    <2>2. net' = [net EXCEPT ![i] = p] /\ tui' = [tui EXCEPT ![i] = v]
      BY <1>6
    <2> HIDE DEF p, v
    <2> QED BY <1>1, <1>2, <1>3, <2>1, <2>2, UnlinkKeeps
  <1> QED BY <1>1, <1>5, <1>6

-----------------------------------------------------------------------------
(* The server answers *)

\* The server handles the first request of connection c.
LEMMA ServeKeeps ==
    ASSUME SystemInv, NEW c \in Conn, up[c] # <<>>, up' = [up EXCEPT ![c] = Tail(@)],
           UNCHANGED <<net, tui>>, ServerInv', Others(c),
           \A i \in Client : (Linked(i) /\ net[i].conn = c) =>
              ClientOk(i, net[i], tui[i], conns'[c], Tail(up[c]))
    PROVE  SystemInv'
  <1>1. up \in [Conn -> Seq(Requests)]
    BY DEF SystemInv
  <1>2. Tail(up[c]) \in Seq(Requests)
    <2>1. up[c] \in Seq(Requests)
      BY <1>1
    <2> QED BY <2>1, TailFacts
  <1>3. up' \in [Conn -> Seq(Requests)] /\ up'[c] = Tail(up[c])
        /\ \A d \in Conn \ {c} : up'[d] = up[d]
    BY <1>1, <1>2
  <1>4. ASSUME NEW i \in Client, Linked(i)
        PROVE  ClientOk(i, net[i], tui[i], conns'[net[i].conn], up'[net[i].conn])
    <2>1. CASE net[i].conn = c
      BY <1>3, <1>4, <2>1
    <2>2. CASE net[i].conn # c
      <3>1. net[i].conn \in Conn \ {c}
        BY <1>4, <2>2 DEF SystemInv
      <3>2. Lasts(conns'[net[i].conn], conns[net[i].conn])
        BY <3>1, Lasting DEF Others
      <3>3. ClientOk(i, net[i], tui[i], conns'[net[i].conn], up[net[i].conn])
        BY <1>4, <3>2, Bystander
      <3> QED BY <1>3, <3>1, <3>3
    <2> QED BY <2>1, <2>2
  <1> QED BY <1>3, <1>4, ConnectionStep

\* The request that is handled was the first on its way.
LEMMA ServeFacts ==
    ASSUME SystemInv, NEW c \in Conn, up[c] # <<>>
    PROVE  /\ ServerInv /\ db.last \in Nat /\ conns[c] \in ConnsOf(db.last)
           /\ up[c] \in Seq(Requests) /\ Head(up[c]) = up[c][1] /\ up[c][1] \in Requests
           /\ \A i \in Client : (Linked(i) /\ net[i].conn = c) =>
                 net[i] \in Networks /\ ClientOk(i, net[i], tui[i], conns[c], up[c])
  <1>1. ServerInv /\ up[c] \in Seq(Requests)
    BY DEF SystemInv
  <1>2. Head(up[c]) = up[c][1] /\ up[c][1] \in Requests
    BY <1>1, TailFacts
  <1>3. db.last \in Nat /\ conns[c] \in ConnsOf(db.last)
    BY <1>1 DEF ServerInv, Databases
  <1>4. \A i \in Client : (Linked(i) /\ net[i].conn = c) =>
           net[i] \in Networks /\ ClientOk(i, net[i], tui[i], conns[c], up[c])
    BY DEF SystemInv
  <1> QED BY <1>1, <1>2, <1>3, <1>4

\* A refused join leaves the error for the client.
LEMMA RefusalServed ==
    ASSUME SystemInv, NEW c \in Conn, up[c] # <<>>, up' = [up EXCEPT ![c] = Tail(@)],
           UNCHANGED <<net, tui>>, ServerInv', Others(c), conns[c].phase = "reading",
           NEW live, NEW code, conns'[c] = Refused(live, code)
    PROVE  SystemInv'
  <1>1. \A i \in Client : (Linked(i) /\ net[i].conn = c) =>
              ClientOk(i, net[i], tui[i], conns'[c], Tail(up[c]))
    BY ServeFacts, RefusedClient
  <1> QED BY <1>1, ServeKeeps

\* The server handles a join, the first request of any connection.
LEMMA ServeJoinKeeps ==
    ASSUME SystemInv, NEW c \in Conn, ServeJoin(c) \/ ServeJoinInvalid(c)
    PROVE  SystemInv'
  <1>0. /\ Requested(c, "join") /\ up[c] # <<>>
        /\ up' = [up EXCEPT ![c] = Tail(@)] /\ UNCHANGED <<net, tui>>
    BY DEF ServeJoin, ServeJoinInvalid, Serve
  <1> DEFINE q == Head(up[c])
             r == RoomOf[q.client]
             nick == NickOf[q.client]
  <1>1. q \in JoinRequests
    <2>1. q \in Requests /\ q.type = "join"
      BY <1>0, ServeFacts DEF Requested
    <2> HIDE DEF q
    <2> QED BY <2>1 DEF Requests
  <1>2. q.client \in Client /\ q.client \in Owner /\ q.after \in Nat /\ q.after \in Int
        /\ r \in Room /\ nick \in Name
    <2>1. q.client \in Client /\ q.after \in Nat
      BY <1>1 DEF JoinRequests
    <2> HIDE DEF q
    <2> QED BY <2>1, ClientAssumption
  <1>3. \/ Join(c, r, nick, q.client, q.instance, q.after)
        \/ JoinClosed(c)
        \/ JoinStorageError(c, r, nick)
        \/ JoinInvalid(c, "unauthorized")
    BY DEF ServeJoin, ServeJoinInvalid, Serve
  <1> HIDE DEF q, r, nick
  <1>4. ServerInv
    BY DEF SystemInv
  <1>5. CASE Join(c, r, nick, q.client, q.instance, q.after)
    <2>1. ServerInv' /\ Others(c) /\ conns[c].phase = "reading"
      BY <1>2, <1>4, <1>5, JoinKeeps DEF Join
    <2>2. ASSUME NEW i \in Client, Linked(i), net[i].conn = c
          PROVE  ClientOk(i, net[i], tui[i], conns'[c], Tail(up[c]))
      <3>1. net[i] \in Networks /\ ClientOk(i, net[i], tui[i], conns[c], up[c])
            /\ up[c] \in Seq(Requests)
        BY <1>0, <2>2, ServeFacts
      <3>2. up[c] = <<[type |-> "join", client |-> i, instance |-> net[i].instance,
                       after |-> net[i].cursor]>>
        BY <2>1, <3>1 DEF ClientOk, CatchesUpInv
      <3>3. q.client = i /\ q.instance = net[i].instance /\ q.after = net[i].cursor
        BY <3>2 DEF q
      <3>4. Join(c, r, nick, i, net[i].instance, net[i].cursor)
        BY <1>5, <3>3
      <3> QED BY <1>2, <1>4, <2>1, <3>1, <3>4, JoiningClient
    <2> QED BY <1>0, <2>1, <2>2, ServeKeeps
  <1>6. CASE JoinClosed(c) \/ JoinStorageError(c, r, nick) \/ JoinInvalid(c, "unauthorized")
    <2>1. ServerInv' /\ Others(c)
      <3>1. JoinInvalid(c, "unauthorized") => \E code \in JoinFailures : JoinInvalid(c, code)
        BY DEF JoinFailures
      <3> QED BY <1>2, <1>4, <1>6, <3>1, ConnectionKeeps
    <2>2. conns[c].phase = "reading" /\ \E code : Refuse(c, code)
      BY <1>6 DEF JoinClosed, JoinStorageError, JoinInvalid
    <2>3. \E code : conns'[c] = Refused(conns[c].live, code)
      <3>1. PICK code : Refuse(c, code)
        BY <2>2
      <3>2. conns'[c] = Refused(conns[c].live, code)
        BY <1>4, <3>1 DEF Refuse, ServerInv
      <3> QED BY <3>2
    <2> QED BY <1>0, <2>1, <2>2, <2>3, RefusalServed
  <1> QED BY <1>3, <1>5, <1>6

\* A request of a session that has caught up is answered.
LEMMA AnswerKeeps ==
    ASSUME SystemInv, NEW c \in Conn, up[c] # <<>>, up' = [up EXCEPT ![c] = Tail(@)],
           UNCHANGED <<net, tui>>, ServerInv', Others(c), Handles(c),
           Grows(conns'[c], conns[c]), Head(up[c]).type # "sync",
           Head(up[c]).type = "send" => Settling(conns'[c], {"send"}),
           Head(up[c]).type = "recall" => Settling(conns'[c], {"recall"}),
           Head(up[c]).type = "history" => Settling(conns'[c], {"older"})
    PROVE  SystemInv'
  <1> DEFINE s == conns[c]
             t == conns'[c]
             u == up[c]
  <1>1. /\ db.last \in Nat /\ s \in ConnsOf(db.last) /\ u \in Seq(Requests) /\ Head(u) = u[1]
        /\ \A i \in Client : (Linked(i) /\ net[i].conn = c) =>
              net[i] \in Networks /\ ClientOk(i, net[i], tui[i], s, u)
    BY ServeFacts
  <1>2. Active(s) /\ s \in SessionsOf(db.last)
    BY <1>1, Phases DEF Handles, Active
  <1>3. Extends(t, s) /\ t.syncing = s.syncing
    BY DEF Grows, Extends
  <1>4. ASSUME NEW i \in Client, Linked(i), net[i].conn = c
        PROVE  ClientOk(i, net[i], tui[i], t, Tail(u))
    <2>1. ClientOk(i, net[i], tui[i], s, u)
      BY <1>1, <1>4
    <2>2. ~s.syncing
      <3> SUFFICES ASSUME s.syncing PROVE FALSE
        OBVIOUS
      <3>1. HalfWay(net[i], s, u)
        BY <1>2, <2>1 DEF ClientOk, CatchesUpInv
      <3>2. u = <<[type |-> "sync", after |-> net[i].cursor]>>
        BY <3>1 DEF HalfWay
      <3>3. u[1].type = "sync"
        BY <3>2
      <3> QED BY <1>1, <3>3
    <2>3. ~t.syncing
      BY <1>3, <2>2
    <2> HIDE DEF s, t, u
    <2>4. u # <<>>
      BY DEF u
    <2>5. /\ Head(u).type = "send" => Settling(t, {"send"})
          /\ Head(u).type = "recall" => Settling(t, {"recall"})
          /\ Head(u).type = "history" => Settling(t, {"older"})
      BY DEF u, t
    <2> QED BY <1>1, <1>2, <1>3, <2>1, <2>2, <2>3, <2>4, <2>5, ServedClient
  <1> QED BY <1>4, ServeKeeps

\* A store that fails is told to who asked.
LEMMA FailureSettles ==
    ASSUME NEW s, NEW req, Says(s, Failure(req))
    PROVE  Settling(s, {req})
  <1>1. Settles(Failure(req), {req})
    BY DEF Settles, Failure, Error
  <1> QED BY <1>1 DEF Says, Settling

\* The same, for a request of a session.
LEMMA FailServed ==
    ASSUME SystemInv, NEW c \in Conn, up[c] # <<>>, up' = [up EXCEPT ![c] = Tail(@)],
           UNCHANGED <<net, tui>>, NEW req \in {"send", "recall", "older"}, HandleFails(c, req),
           req = "send" <=> Head(up[c]).type = "send",
           req = "recall" <=> Head(up[c]).type = "recall",
           req = "older" <=> Head(up[c]).type = "history"
    PROVE  SystemInv'
  <1>1. ServerInv /\ req \in Asked
    BY DEF SystemInv, Asked
  <1>2. Handles(c) /\ conns[c].phase = "serving" /\ Fail(c, req)
    BY DEF HandleFails, Handles
  <1>3. /\ ServerInv' /\ Others(c)
        /\ Grows(conns'[c], conns[c]) /\ Says(conns'[c], Failure(req))
    BY <1>1, <1>2, FailKeeps
  <1>4. Settling(conns'[c], {req})
    BY <1>3, FailureSettles
  <1>5. Head(up[c]).type # "sync"
    OBVIOUS
  <1> QED BY <1>2, <1>3, <1>4, <1>5, AnswerKeeps

\* The server handles a send, a recall, a request for older messages.
LEMMA ServeSendKeeps ==
    ASSUME SystemInv, NEW c \in Conn, ServeSend(c)
    PROVE  SystemInv'
  <1>0. /\ up[c] # <<>> /\ Head(up[c]).type = "send"
        /\ up' = [up EXCEPT ![c] = Tail(@)] /\ UNCHANGED <<net, tui>>
        /\ HandleSend(c, "send") \/ HandleFails(c, "send")
    BY DEF ServeSend, Serve, Requested
  <1>1. CASE HandleSend(c, "send")
    <2>1. /\ ServerInv' /\ Others(c) /\ Grows(conns'[c], conns[c])
          /\ \/ Says(conns'[c], Failure("send"))
             \/ Says(conns'[c], Ack("send", NewRow(db, conns[c].room, conns[c].owner)))
      BY <1>1, SendKeeps DEF SystemInv
    <2>2. Settling(conns'[c], {"send"})
      <3>1. CASE Says(conns'[c], Failure("send"))
        BY <3>1, FailureSettles
      <3>2. CASE Says(conns'[c], Ack("send", NewRow(db, conns[c].room, conns[c].owner)))
        <4>1. \A m : Settles(Ack("send", m), {"send"})
          BY DEF Settles, Ack
        <4> QED BY <3>2, <4>1 DEF Says, Settling
      <3> QED BY <2>1, <3>1, <3>2
    <2>3. Handles(c)
      BY <1>1 DEF HandleSend
    <2> QED BY <1>0, <2>1, <2>2, <2>3, AnswerKeeps
  <1>2. CASE HandleFails(c, "send")
    BY <1>0, <1>2, FailServed
  <1> QED BY <1>0, <1>1, <1>2

\* A recall is answered, rejected, or ends the session that asked for it.
LEMMA ServeRecallKeeps ==
    ASSUME SystemInv, NEW c \in Conn, ServeRecall(c)
    PROVE  SystemInv'
  <1>0. /\ up[c] # <<>> /\ Head(up[c]).type = "recall"
        /\ up' = [up EXCEPT ![c] = Tail(@)] /\ UNCHANGED <<net, tui>>
        /\ HandleRecall(c, "recall", Head(up[c]).id) \/ HandleFails(c, "recall")
    BY DEF ServeRecall, Serve, Requested
  <1>1. CASE HandleRecall(c, "recall", Head(up[c]).id)
    <2>1. /\ ServerInv' /\ Others(c) /\ Grows(conns'[c], conns[c])
          /\ \/ Says(conns'[c], Failure("recall"))
             \/ \E m, inst : Says(conns'[c], Recalled("recall", m, inst))
      BY <1>1, RecallKeeps DEF SystemInv
    <2>2. Settling(conns'[c], {"recall"})
      <3>1. CASE Says(conns'[c], Failure("recall"))
        BY <3>1, FailureSettles
      <3>2. CASE \E m, inst : Says(conns'[c], Recalled("recall", m, inst))
        <4>1. \A m, inst : Settles(Recalled("recall", m, inst), {"recall"})
          BY DEF Settles, Recalled
        <4> QED BY <3>2, <4>1 DEF Says, Settling
      <3> QED BY <2>1, <3>1, <3>2
    <2>3. Handles(c)
      BY <1>1 DEF HandleRecall
    <2> QED BY <1>0, <2>1, <2>2, <2>3, AnswerKeeps
  <1>2. CASE HandleFails(c, "recall")
    BY <1>0, <1>2, FailServed
  <1> QED BY <1>0, <1>1, <1>2

\* So is a request for an older page.
LEMMA ServeHistoryKeeps ==
    ASSUME SystemInv, NEW c \in Conn, ServeHistory(c)
    PROVE  SystemInv'
  <1>0. /\ up[c] # <<>> /\ Head(up[c]).type = "history"
        /\ up' = [up EXCEPT ![c] = Tail(@)] /\ UNCHANGED <<net, tui>>
        /\ HandleHistory(c, "older", Head(up[c]).before) \/ HandleFails(c, "older")
    BY DEF ServeHistory, Serve, Requested
  <1>1. CASE HandleHistory(c, "older", Head(up[c]).before)
    <2>1. /\ ServerInv' /\ Others(c) /\ Grows(conns'[c], conns[c])
          /\ \/ Says(conns'[c], Failure("older"))
             \/ \E page : Says(conns'[c], PageFrame("history", "older", page))
      BY <1>1, HistoryKeeps DEF SystemInv
    <2>2. Settling(conns'[c], {"older"})
      <3>1. CASE Says(conns'[c], Failure("older"))
        BY <3>1, FailureSettles
      <3>2. CASE \E page : Says(conns'[c], PageFrame("history", "older", page))
        <4>1. \A page : Settles(PageFrame("history", "older", page), {"older"})
          BY DEF Settles, PageFrame
        <4> QED BY <3>2, <4>1 DEF Says, Settling
      <3> QED BY <2>1, <3>1, <3>2
    <2>3. Handles(c)
      BY <1>1 DEF HandleHistory
    <2> QED BY <1>0, <2>1, <2>2, <2>3, AnswerKeeps
  <1>2. CASE HandleFails(c, "older")
    BY <1>0, <1>2, FailServed
  <1> QED BY <1>0, <1>1, <1>2

-----------------------------------------------------------------------------
(* Every step *)

\* The connection of a client has ended on the server's side.
LEMMA DeadClient ==
    ASSUME NEW i, NEW n, NEW m, NEW s, NEW t, NEW u, NEW w, ClientOk(i, n, m, s, u),
           ~t.live, t.phase = "free" \/ (t.phase = s.phase /\ s.phase # "reading")
    PROVE  ClientOk(i, n, m, t, w)
  BY DEF ClientOk, Waits, CatchesUpInv, Coming, Active

\* The server handles a request for the next page of the catching up.
LEMMA ServeSyncKeeps ==
    ASSUME SystemInv, NEW c \in Conn, ServeSync(c)
    PROVE  SystemInv'
  <1>0. /\ up[c] # <<>> /\ Head(up[c]).type = "sync"
        /\ up' = [up EXCEPT ![c] = Tail(@)] /\ UNCHANGED <<net, tui>>
        /\ \/ HandleSync(c, "next", Head(up[c]).after)
           \/ HandleSyncStorageError(c, "next")
           \/ Handles(c) /\ ~conns[c].syncing /\ UNCHANGED vars
    BY DEF ServeSync, Serve, Requested
  <1>1. /\ ServerInv /\ db.last \in Nat /\ conns[c] \in ConnsOf(db.last)
        /\ up[c] \in Seq(Requests) /\ Head(up[c]) = up[c][1]
        /\ \A i \in Client : (Linked(i) /\ net[i].conn = c) =>
              net[i] \in Networks /\ ClientOk(i, net[i], tui[i], conns[c], up[c])
    BY <1>0, ServeFacts
  <1>2. CASE HandleSync(c, "next", Head(up[c]).after)
    <2>1. ServerInv' /\ Others(c) /\ conns[c].syncing
      BY <1>1, <1>2, SyncKeeps
    <2>2. Active(conns[c])
      BY <1>2 DEF HandleSync, Handles, Active
    <2>3. ASSUME NEW i \in Client, Linked(i), net[i].conn = c
          PROVE  ClientOk(i, net[i], tui[i], conns'[c], Tail(up[c]))
      <3>1. net[i] \in Networks /\ ClientOk(i, net[i], tui[i], conns[c], up[c])
        BY <1>1, <2>3
      <3>2. HandleSync(c, "next", up[c][1].after)
        BY <1>1, <1>2
      <3> QED BY <1>0, <1>1, <2>1, <2>2, <3>1, <3>2, SyncedClient
    <2> QED BY <1>0, <2>1, <2>3, ServeKeeps
  <1>3. CASE HandleSyncStorageError(c, "next")
    <2>1. ServerInv' /\ Others(c) /\ ~conns'[c].live /\ conns'[c].phase = "serving"
      BY <1>1, <1>3, SyncErrorKeeps
    <2>2. conns[c].phase = "serving"
      BY <1>3 DEF HandleSyncStorageError, Handles
    <2>3. \A i \in Client : (Linked(i) /\ net[i].conn = c) =>
              ClientOk(i, net[i], tui[i], conns'[c], Tail(up[c]))
      BY <1>1, <2>1, <2>2, DeadClient
    <2> QED BY <1>0, <2>1, <2>3, ServeKeeps
  <1>4. CASE Handles(c) /\ ~conns[c].syncing /\ UNCHANGED vars
    <2>1. ServerInv' /\ conns' = conns
      BY <1>1, <1>4, IdleKeeps DEF vars
    <2>2. Others(c)
      BY <2>1 DEF Others, Told
    <2>3. conns[c] \in SessionsOf(db.last) /\ Extends(conns[c], conns[c])
      BY <1>1, <1>4, Phases DEF Handles, Extends
    <2>4. ASSUME NEW i \in Client, Linked(i), net[i].conn = c
          PROVE  ClientOk(i, net[i], tui[i], conns[c], Tail(up[c]))
      BY <1>0, <1>1, <1>4, <2>3, <2>4, ServedClient
    <2> QED BY <1>0, <2>1, <2>2, <2>4, ServeKeeps
  <1> QED BY <1>0, <1>2, <1>3, <1>4

\* A connection ends; its client is told when it notices.
LEMMA EndsKeeps ==
    ASSUME SystemInv, NEW c \in Conn, Ends(c)
    PROVE  SystemInv'
  <1>0. /\ ServerInv /\ up \in [Conn -> Seq(Requests)] /\ up' = [up EXCEPT ![c] = <<>>]
        /\ UNCHANGED <<net, tui>> /\ conns \in [Conn -> ConnsOf(db.last)]
    BY DEF SystemInv, ServerInv, Ends
  <1>1. ServerInv' /\ Others(c)
    BY <1>0, ConnectionKeeps, LeaveKeeps DEF Ends
  <1>2. up' \in [Conn -> Seq(Requests)] /\ \A d \in Conn \ {c} : up'[d] = up[d]
    BY <1>0, EmptySeq
  <1>3. c \notin Attached \/ conns'[c] = Free
    BY <1>0, LeaveKeeps DEF Ends, JoinTimeout
  <1>4. ASSUME NEW i \in Client, Linked(i)
        PROVE  ClientOk(i, net[i], tui[i], conns'[net[i].conn], up'[net[i].conn])
    <2>0. net[i].conn \in Conn /\ ClientOk(i, net[i], tui[i], conns[net[i].conn], up[net[i].conn])
      BY <1>4 DEF SystemInv
    <2>1. CASE net[i].conn = c
      <3>1. conns'[c] = Free
        BY <1>3, <2>1 DEF Attached
      <3>2. ~conns'[c].live /\ conns'[c].phase = "free"
        BY <3>1 DEF Free
      <3>3. ClientOk(i, net[i], tui[i], conns'[c], up'[c])
        BY <2>0, <2>1, <3>2, DeadClient
      <3> QED BY <2>1, <3>3
    <2>2. CASE net[i].conn # c
      <3>1. Lasts(conns'[net[i].conn], conns[net[i].conn])
        BY <1>1, <2>0, <2>2, Lasting DEF Others
      <3>2. ClientOk(i, net[i], tui[i], conns'[net[i].conn], up[net[i].conn])
        BY <1>4, <3>1, Bystander
      <3> QED BY <1>2, <2>0, <2>2, <3>2
    <2> QED BY <2>1, <2>2
  <1> QED BY <1>0, <1>1, <1>2, <1>4, ConnectionStep

\* Steps of the server that concern no one client.
LEMMA QuietlyKeeps ==
    ASSUME SystemInv, Quietly
    PROVE  SystemInv'
  <1>0. ServerInv /\ db.last \in Nat /\ UNCHANGED <<up, net, tui>> /\ up' \in [Conn -> Seq(Requests)]
    BY DEF SystemInv, ServerInv, Databases, Quietly, cvars
  <1>1. ServerInv' /\ \A d \in Conn : d \in Attached => Lasts(conns'[d], conns[d])
    <2>1. ASSUME NEW c \in Conn, Cancel(c) PROVE ServerInv' /\ \A d \in Conn : Lasts(conns'[d], conns[d])
      <3>1. ServerInv' /\ Others(c) /\ conns'[c].phase = "serving" /\ ~conns'[c].live
        BY <1>0, <2>1, CancelKeeps
      <3>2. conns[c].phase = "serving"
        BY <2>1 DEF Cancel
      <3> QED BY <3>1, <3>2 DEF Others, Lasts
    <2>2. ASSUME NEW c \in Conn \ Attached, WriteFrame(c)
          PROVE  ServerInv' /\ \A d \in Conn : d \in Attached => Lasts(conns'[d], conns[d])
      <3>1. ServerInv' /\ Others(c)
        BY <1>0, <2>2, WriteKeeps
      <3> QED BY <3>1, Lasting DEF Others
    <2>3. CASE ClearHistory
      <3>1. /\ ServerInv'
            /\ \A c \in Conn : conns[c].phase # "serving" => conns'[c] = conns[c]
            /\ \A c \in Conn : conns[c].phase = "serving" =>
                  Cleared(conns'[c], conns[c], InstanceID(db', conns[c].room))
        BY <1>0, <2>3, ClearKeeps
      <3> QED BY <3>1 DEF Lasts, Told
    <2>4. CASE Close
      <3>1. ServerInv' /\ \A c \in Conn : conns'[c].phase = conns[c].phase /\ ~conns'[c].live
        BY <1>0, <2>4, CloseKeeps
      <3> QED BY <3>1 DEF Lasts
    <2>5. ASSUME NEW upTo \in 1 .. db.last, Age(upTo)
          PROVE  ServerInv' /\ \A d \in Conn : Lasts(conns'[d], conns[d])
      <3>1. upTo \in Nat
        BY <1>0
      <3>2. ServerInv' /\ conns' = conns
        BY <1>0, <2>5, <3>1, AgeKeeps
      <3> QED BY <3>2 DEF Lasts, Told
    <2> QED BY <2>1, <2>2, <2>3, <2>4, <2>5 DEF Quietly
  <1>2. ASSUME NEW i \in Client, Linked(i)
        PROVE  ClientOk(i, net[i], tui[i], conns'[net[i].conn], up'[net[i].conn])
    <2>1. net[i].conn \in Conn /\ net[i].conn \in Attached
      BY <1>2 DEF SystemInv, Attached
    <2>2. ClientOk(i, net[i], tui[i], conns'[net[i].conn], up[net[i].conn])
      BY <1>1, <1>2, <2>1, Bystander
    <2> QED BY <1>0, <2>2
  <1> QED BY <1>0, <1>1, <1>2, ConnectionStep

\* The server restarts: every connection ends.
LEMMA SRestartKeeps ==
    ASSUME SystemInv, SRestart
    PROVE  SystemInv'
  <1>1. ServerInv' /\ \A c \in Conn : conns'[c] = Free
    BY RestartKeeps DEF SystemInv, SRestart
  <1>2. up' \in [Conn -> Seq(Requests)] /\ UNCHANGED <<net, tui>>
    BY EmptySeq DEF SRestart
  <1>3. ASSUME NEW i \in Client, Linked(i)
        PROVE  ClientOk(i, net[i], tui[i], conns'[net[i].conn], up'[net[i].conn])
    <2>1. net[i].conn \in Conn /\ ClientOk(i, net[i], tui[i], conns[net[i].conn], up[net[i].conn])
      BY <1>3 DEF SystemInv
    <2>2. ~conns'[net[i].conn].live /\ conns'[net[i].conn].phase = "free"
      BY <1>1, <2>1 DEF Free
    <2> QED BY <2>1, <2>2, DeadClient
  <1> QED BY <1>1, <1>2, <1>3, ConnectionStep

\* The user sends, recalls or loads older messages.
LEMMA UserKeeps ==
    ASSUME SystemInv, NEW i \in Client, UserSend(i) \/ UserRecall(i) \/ LoadOlder(i)
    PROVE  SystemInv'
  <1>0. tui[i] \in Models /\ tui \in [Client -> Models]
    BY DEF SystemInv
  <1>1. CASE UserSend(i)
    <2> DEFINE v == [tui[i] EXCEPT !.pending = TRUE]
    <2>1. v \in Models /\ v.recalls = tui[i].recalls /\ v.loading = tui[i].loading
      BY <1>0 DEF Models
    <2>2. Ask(i, [type |-> "send"]) /\ tui' = [tui EXCEPT ![i] = v]
      BY <1>1 DEF UserSend
    <2>3. [type |-> "send"] \in Requests
      BY DEF Requests
    <2> HIDE DEF v
    <2> QED BY <2>1, <2>2, <2>3, AskKeeps
  <1>2. CASE UserRecall(i)
    <2> DEFINE v == [tui[i] EXCEPT !.recalls = TRUE]
    <2>1. v \in Models /\ v.pending = tui[i].pending /\ v.loading = tui[i].loading
      BY <1>0 DEF Models
    <2>2. PICK m \in tui[i].messages : Ask(i, [type |-> "recall", id |-> m.id])
      BY <1>2 DEF UserRecall
    <2>3. m.id \in Nat
      BY <1>0, <2>2 DEF Models, Row
    <2>4. [type |-> "recall", id |-> m.id] \in Requests
      BY <2>3 DEF Requests
    <2>5. tui' = [tui EXCEPT ![i] = v]
      BY <1>2 DEF UserRecall
    <2> HIDE DEF v
    <2> QED BY <2>1, <2>2, <2>4, <2>5, AskKeeps
  <1>3. CASE LoadOlder(i)
    <2> DEFINE v == [tui[i] EXCEPT !.loading = TRUE]
    <2>1. v \in Models /\ v.pending = tui[i].pending /\ v.recalls = tui[i].recalls
      BY <1>0 DEF Models
    <2>2. Ask(i, [type |-> "history", before |-> Oldest(tui[i])]) /\ tui[i].messages # {}
          /\ tui' = [tui EXCEPT ![i] = v]
      BY <1>3 DEF LoadOlder
    <2>3. Oldest(tui[i]) \in Nat
      BY <1>0, <2>2, OldestTyped
    <2>4. [type |-> "history", before |-> Oldest(tui[i])] \in Requests
      BY <2>3 DEF Requests
    <2> HIDE DEF v
    <2> QED BY <2>1, <2>2, <2>4, AskKeeps
  <1> QED BY <1>1, <1>2, <1>3

\* The invariant is kept by every step, and holds from the start.
LEMMA SystemStep ==
    ASSUME SystemInv, [SNext]_svars
    PROVE  SystemInv'
  <1>1. CASE UNCHANGED svars
    <2>1. UNCHANGED <<vars, up, net, tui>>
      BY <1>1 DEF svars, cvars
    <2>2. ServerInv' /\ conns' = conns
      BY <2>1, IdleKeeps DEF SystemInv, vars
    <2> QED BY <2>1, <2>2, ConnectionStep DEF SystemInv
  <1>2. ASSUME NEW i \in Client,
               \/ \E c \in Conn : Dial(i, c)
               \/ Break(i) \/ ReceiveRefusal(i) \/ Receive(i) \/ ReceiveCancelled(i)
               \/ UserSend(i) \/ UserRecall(i) \/ LoadOlder(i)
        PROVE  SystemInv'
    BY <1>2, DialKeeps, BreakKeeps, ReceiveRefusalKeeps, ReceiveKeeps, ReceiveCancelledKeeps, UserKeeps
  <1>3. ASSUME NEW c \in Conn,
               \/ ServeJoin(c) \/ ServeJoinInvalid(c) \/ ServeSend(c) \/ ServeRecall(c)
               \/ ServeHistory(c) \/ ServeSync(c) \/ Ends(c)
        PROVE  SystemInv'
    BY <1>3, ServeJoinKeeps, ServeSendKeeps, ServeRecallKeeps, ServeHistoryKeeps, ServeSyncKeeps, EndsKeeps
  <1>4. CASE Quietly \/ SRestart
    BY <1>4, QuietlyKeeps, SRestartKeeps
  <1> QED BY <1>1, <1>2, <1>3, <1>4 DEF SNext

\* At the start no client has a link, and none waits.
LEMMA SystemInit == SInit => SystemInv
  <1> SUFFICES ASSUME SInit PROVE SystemInv
    OBVIOUS
  <1>1. ServerInv
    BY ServerInit DEF SInit
  <1>2. NewNetwork \in Networks /\ NewNetwork.phase # "linked"
    <2>1. NoInstance \in InstanceIDs
      BY DEF NoInstance, InstanceIDs
    <2> QED BY <2>1 DEF NewNetwork, Networks
  <1>3. NewModel \in Models
    BY DEF NewModel, Models
  <1>4. Alone(NewNetwork, NewModel)
    BY DEF Alone, NewNetwork, NewModel
  <1>5. up \in [Conn -> Seq(Requests)]
    BY EmptySeq DEF SInit
  <1> QED BY <1>1, <1>2, <1>3, <1>4, <1>5 DEF SInit, SystemInv, Linked

\* The invariant holds of every behaviour.
LEMMA SystemInvariant == SSpec => []SystemInv
  BY SystemInit, SystemStep, PTL DEF SSpec

\* Nothing a user asks for is dropped in silence: while the display shows a send
\* as "sending", waits for a recall or for older messages, the client is linked
\* and the request, its answer or a cleanup is under way on its connection, or
\* the server has given the connection up, which the client will notice. This
\* holds although sessions are cancelled when their queue is full, histories
\* are cleared between a request and its answer, and the server restarts.
THEOREM RequestsAreAnswered == SSpec => []RequestsAnswered
  <1>1. SystemInv => RequestsAnswered
    <2> SUFFICES ASSUME SystemInv, NEW i \in Client
                 PROVE  /\ tui[i].pending => Linked(i) /\ UnderWay(i, "send", {"send"})
                        /\ tui[i].recalls => Linked(i) /\ UnderWay(i, "recall", {"recall"})
                        /\ tui[i].loading => Linked(i) /\ UnderWay(i, "history", {"older"})
      BY DEF RequestsAnswered
    <2>1. ~Linked(i) => ~tui[i].pending /\ ~tui[i].recalls /\ ~tui[i].loading
      BY DEF SystemInv, Alone
    <2>2. Linked(i) => Waits(net[i], tui[i], conns[net[i].conn], up[net[i].conn])
      BY DEF SystemInv, ClientOk
    <2>3. \A type, reqs : Coming(conns[net[i].conn], up[net[i].conn], type, reqs) => UnderWay(i, type, reqs)
      BY DEF Coming, Settles, UnderWay, Dead
    <2> QED BY <2>1, <2>2, <2>3 DEF Waits
  <1> QED BY <1>1, SystemInvariant, PTL

\* A client that was let in and is not ready has a reason to go on: a page or the
\* end of the catching up is on its way to it, or its request for the next page
\* is on its way to the server, or the server has given the connection up.
THEOREM CatchUpNeverStuck == SSpec => []CatchUpMoves
  <1>1. SystemInv => CatchUpMoves
    <2> SUFFICES ASSUME SystemInv, NEW i \in Client, Linked(i), net[i].welcomed, ~net[i].ready
                 PROVE  \/ UnderWay(i, "sync", {"initial", "next"})
                        \/ \E k \in DOMAIN conns[net[i].conn].outgoing :
                              conns[net[i].conn].outgoing[k].type = "sync_complete"
      BY DEF CatchUpMoves
    <2> DEFINE n == net[i]
               c == n.conn
               s == conns[c]
               u == up[c]
    <2>1. /\ c \in Conn /\ Waits(n, tui[i], s, u) /\ CatchesUpInv(i, n, s, u)
          /\ s \in ConnsOf(db.last) /\ db.last \in Nat
      BY DEF SystemInv, ClientOk, ServerInv, Databases
    <2>2. CASE ~s.live
      BY <2>2 DEF UnderWay, Dead
    <2>3. CASE s.live
      <3>1. s.phase = "serving" /\ s \in SessionsOf(db.last) /\ Active(s)
        <4>1. s.phase # "free"
          BY <2>1, <2>3, Phases DEF Free
        <4> QED BY <2>1, <2>3, <4>1, Phases DEF Waits, Active
      <3>2. CASE ~s.syncing
        <4>1. PICK k \in DOMAIN s.outgoing : s.outgoing[k].type \in {"sync_complete", "history_cleared"}
          BY <2>1, <3>1, <3>2 DEF CatchesUpInv
        <4> QED BY <4>1 DEF UnderWay
      <3>3. CASE s.syncing
        <4>1. HalfWay(n, s, u)
          BY <2>1, <3>1, <3>3 DEF CatchesUpInv
        <4>2. CASE PageComing(n, s, 1)
          <5>1. s.outgoing[1].type = "sync" /\ Len(s.outgoing) = 1
            BY <4>2 DEF PageComing
          <5>2. s.outgoing \in Seq(SoundFrames(db.last))
            BY <3>1 DEF SessionsOf
          <5>3. 1 \in DOMAIN s.outgoing /\ s.outgoing[1] \in SoundFrames(db.last)
            BY <5>1, <5>2
          <5>4. s.outgoing[1].req \in {"initial", "next"}
            BY <2>1, <5>1, <5>3, FrameCases
          <5> QED BY <5>1, <5>3, <5>4 DEF UnderWay
        <4>3. CASE u = <<[type |-> "sync", after |-> n.cursor]>>
          <5>1. 1 \in DOMAIN u /\ u[1].type = "sync"
            BY <4>3
          <5> QED BY <5>1 DEF UnderWay
        <4> QED BY <4>1, <4>2, <4>3 DEF HalfWay
      <3> QED BY <3>2, <3>3
    <2> QED BY <2>1, <2>2, <2>3, Phases
  <1> QED BY <1>1, SystemInvariant, PTL

-----------------------------------------------------------------------------
(* What is on the screen: the invariant *)

\* What a client of room r can come to know of database d: the rows, the last id,
\* the two parts of the instance, and how many instances were ever drawn.
Log(d, r) == [rows |-> RoomRows(d, r), latest |-> LatestID(d, r),
              instance |-> d.instance, epoch |-> d.epoch[r], drawn |-> d.drawn]

\* The shape of such a log.
Logs == [rows : SUBSET Row, latest : Nat, instance : Nat, epoch : Nat, drawn : Nat]

\* What a session has yet to tell its client, in order: news held back last.
Stream(s) == s.outgoing \o s.deferred

\* Frames that name an instance, which the client takes over.
Dated(f) == f.type \in {"welcome", "recalled", "history_cleared"}

\* The rows a frame brings to the display.
Brought(f) ==
    IF f.type \in {"history", "sync"} THEN f.messages
    ELSE IF f.type \in {"message", "ack", "recalled"} THEN {f.message} ELSE {}

\* Row m, stale, is replaced by a recall that follows place j; the recall's instance
\* is newer than any the client will have known until it reads it.
Mended(n, G, j, m) ==
    \E k \in DOMAIN G :
        /\ k > j /\ G[k].type = "recalled" /\ G[k].message.id = m.id
        /\ n.instance[2] < G[k].instance[2]
        /\ \A l \in DOMAIN G :
              (l < k /\ Dated(G[l])) => G[l].instance[2] < G[k].instance[2]

\* Row m, brought at place j, is in the log, or what follows will correct it.
Genuine(v, n, G, j, m) ==
    \/ Overtaken(G, j)
    \/ m.id <= v.latest /\ (m \in v.rows \/ Mended(n, G, j, m))

\* Instances in a stream were drawn already; only the log's own survive in it.
DatesOk(v, G) ==
    \A j \in DOMAIN G : Dated(G[j]) =>
        /\ G[j].instance[1] <= v.drawn /\ G[j].instance[2] <= v.drawn
        /\ Overtaken(G, j) => G[j].instance[1] # v.instance
        /\ ~Overtaken(G, j) => G[j].instance[1] = v.instance /\ G[j].instance[2] <= v.epoch

\* Every row that a stream brings is genuine.
RowsOk(v, n, G) ==
    \A j \in DOMAIN G : \A m \in Brought(G[j]) : Genuine(v, n, G, j, m)

\* No catching up ends beyond the log.
EndsOk(v, G) ==
    \A j \in DOMAIN G :
        G[j].type = "sync_complete" => Overtaken(G, j) \/ G[j].through <= v.latest

\* The welcome is first, and says whether the client stays where it was.
StartOk(v, n, G) ==
    /\ \A j \in DOMAIN G : G[j].type = "welcome" => j = 1 /\ ~n.welcomed
    /\ ~n.welcomed =>
          /\ G # <<>> /\ G[1].type = "welcome"
          /\ G[1].resumed => n.instance = G[1].instance
          /\ ~G[1].resumed => n.instance # <<v.instance, v.epoch>>

\* The client keeps what it has, rather than start over.
Keeps(n, G) == n.welcomed \/ G[1].resumed

\* What the client knows and shows is of the log, or the stream will correct it.
\* Where a frame may be lost between its arrival and its display (LateCancel),
\* this is true of the instance and the cursor only.
Sees(v, n, t, G) ==
    /\ Overtaken(G, 0) => n.instance[1] # v.instance
    /\ ~Overtaken(G, 0) =>
          n.instance[1] = v.instance /\ n.instance[2] <= v.epoch /\ n.cursor <= v.latest
    /\ ~LateCancel => \A m \in t.messages : Genuine(v, n, G, 0, m)

\* Stream G leads a client with network n and display t to log v.
LiveView(v, n, t, G) ==
    /\ DatesOk(v, G) /\ RowsOk(v, n, G) /\ EndsOk(v, G)
    /\ StartOk(v, n, G) /\ (Keeps(n, G) => Sees(v, n, t, G))

\* Session s serves its client room r as log v has it.
Faithful(r, v, n, t, s) ==
    Active(s) =>
        /\ s.room = r
        /\ s.syncing => s.through <= v.latest
        /\ ~s.syncing => s.deferred = <<>>
        /\ ~n.welcomed => s.outgoing # <<>>
        /\ LiveView(v, n, t, Stream(s))

\* A client that names the current instance has nothing beyond the log and, unless
\* frames may be lost, nothing stale: what it does without the server being asked.
Base(v, n, t) ==
    /\ n.instance[1] <= v.drawn /\ n.instance[2] <= v.drawn
    /\ n.instance = <<v.instance, v.epoch>> =>
          n.cursor <= v.latest /\ (~LateCancel => t.messages \subseteq v.rows)

\* Instances and epochs are drawn from one counter.
DrawnIn(d) == d.instance <= d.drawn /\ \A r \in Room : d.epoch[r] <= d.drawn

\* The inductive invariant: a client that has no link, or whose link ends, is safe by
\* Base alone; one with a live session is led to the log by what the session has
\* yet to tell.
ScreenInv ==
    /\ SystemInv
    /\ DrawnIn(db)
    /\ \A i \in Client : Base(Log(db, RoomOf[i]), net[i], tui[i])
    /\ \A i \in Client : Linked(i) =>
          Faithful(RoomOf[i], Log(db, RoomOf[i]), net[i], tui[i], conns[net[i].conn])

-----------------------------------------------------------------------------
(* Frames that may be told at any time *)

\* The parts of a frame that matter here, typed.
LEMMA FrameTyped ==
    ASSUME NEW f \in Frames
    PROVE  /\ Dated(f) => f.instance \in InstanceIDs /\ f.instance[1] \in Nat /\ f.instance[2] \in Nat
           /\ Brought(f) \in SUBSET Row
           /\ f.type = "sync_complete" => f.through \in Nat
           /\ f.type = "welcome" => f.resumed \in BOOLEAN
  <1>1. Dated(f) => f.instance \in InstanceIDs
    BY DEF Dated, Frames
  <1>2. f.type \in {"history", "sync"} => f.messages \in SUBSET Row
    BY DEF Frames
  <1>3. f.type \in {"message", "ack", "recalled"} => f.message \in Row
    BY DEF Frames
  <1>4. f.type = "sync_complete" => f.through \in Nat
    BY DEF Frames
  <1>5. f.type = "welcome" => f.resumed \in BOOLEAN
    BY DEF Frames
  <1>6. \A x \in InstanceIDs : x[1] \in Nat /\ x[2] \in Nat
    BY DEF InstanceIDs
  <1>7. Brought(f) \in SUBSET Row
    BY <1>2, <1>3 DEF Brought
  <1> QED BY <1>1, <1>4, <1>5, <1>6, <1>7

\* Frames that may be told at any time: they carry rows as they are.
Plain(v) ==
    {f \in Frames : /\ ~Dated(f)
                    /\ \A m \in Brought(f) : m \in v.rows /\ m.id <= v.latest
                    /\ f.type = "sync_complete" => f.through <= v.latest}

\* H is G with frames of P in between, with the first one in its place if w.
Woven(H, G, P, w) ==
    \E e \in [DOMAIN G -> DOMAIN H] :
        /\ \A k, l \in DOMAIN G : k < l => e[k] < e[l]
        /\ \A k \in DOMAIN G : H[e[k]] = G[k]
        /\ \A k \in DOMAIN H : H[k] \in P \/ \E l \in DOMAIN G : e[l] = k
        /\ w => 1 \in DOMAIN G /\ e[1] = 1

\* Frames that say how things are may be put anywhere behind the welcome.
LEMMA WovenKeeps ==
    ASSUME NEW v \in Logs, NEW n \in Networks, NEW t \in Models,
           NEW G \in Seq(Frames), NEW H \in Seq(Frames),
           Woven(H, G, Plain(v), ~n.welcomed), LiveView(v, n, t, G)
    PROVE  LiveView(v, n, t, H)
  <1>1. PICK e \in [DOMAIN G -> DOMAIN H] :
          /\ \A k, l \in DOMAIN G : k < l => e[k] < e[l]
          /\ \A k \in DOMAIN G : H[e[k]] = G[k]
          /\ \A k \in DOMAIN H : H[k] \in Plain(v) \/ \E l \in DOMAIN G : e[l] = k
          /\ ~n.welcomed => 1 \in DOMAIN G /\ e[1] = 1
    BY DEF Woven
  <1>2. /\ \A k \in DOMAIN G : k \in Nat /\ k > 0 /\ e[k] \in DOMAIN H /\ G[k] \in Frames
        /\ \A k \in DOMAIN H : k \in Nat /\ k > 0 /\ H[k] \in Frames
    OBVIOUS
  <1>3. \A k, l \in DOMAIN G : e[k] < e[l] => k < l
    <2> SUFFICES ASSUME NEW k \in DOMAIN G, NEW l \in DOMAIN G, e[k] < e[l], ~(k < l)
                 PROVE  FALSE
      OBVIOUS
    <2>1. k = l \/ l < k
      BY <1>2
    <2>2. e[k] \in Nat /\ e[l] \in Nat
      BY <1>2
    <2> QED BY <1>1, <2>1, <2>2
  <1>4. \A k \in DOMAIN H : Dated(H[k]) => \E l \in DOMAIN G : e[l] = k /\ G[l] = H[k]
    BY <1>1 DEF Plain
  <1>5. \A j \in DOMAIN G : Overtaken(G, j) <=> Overtaken(H, e[j])
    <2> SUFFICES ASSUME NEW j \in DOMAIN G PROVE Overtaken(G, j) <=> Overtaken(H, e[j])
      OBVIOUS
    <2>1. Overtaken(G, j) => Overtaken(H, e[j])
      BY <1>1, <1>2 DEF Overtaken
    <2>2. Overtaken(H, e[j]) => Overtaken(G, j)
      BY <1>1, <1>2, <1>3, <1>4 DEF Overtaken, Dated
    <2> QED BY <2>1, <2>2
  <1>6. Overtaken(G, 0) <=> Overtaken(H, 0)
    BY <1>1, <1>2, <1>4 DEF Overtaken, Dated
  <1>7. \A k \in DOMAIN G :
           (\A l \in DOMAIN G : (l < k /\ Dated(G[l])) => G[l].instance[2] < G[k].instance[2])
           => \A l \in DOMAIN H : (l < e[k] /\ Dated(H[l])) => H[l].instance[2] < H[e[k]].instance[2]
    BY <1>1, <1>2, <1>3, <1>4
  <1>8. \A j \in DOMAIN G, m \in Row : Mended(n, G, j, m) => Mended(n, H, e[j], m)
    <2> SUFFICES ASSUME NEW j \in DOMAIN G, NEW m \in Row, Mended(n, G, j, m)
                 PROVE  Mended(n, H, e[j], m)
      OBVIOUS
    <2>1. PICK k \in DOMAIN G :
            /\ k > j /\ G[k].type = "recalled" /\ G[k].message.id = m.id
            /\ n.instance[2] < G[k].instance[2]
            /\ \A l \in DOMAIN G :
                  (l < k /\ Dated(G[l])) => G[l].instance[2] < G[k].instance[2]
      BY DEF Mended
    <2>2. e[k] \in DOMAIN H /\ e[k] > e[j] /\ H[e[k]] = G[k]
      BY <1>1, <1>2, <2>1
    <2>3. \A l \in DOMAIN H : (l < e[k] /\ Dated(H[l])) => H[l].instance[2] < H[e[k]].instance[2]
      BY <1>7, <2>1
    <2> QED BY <2>1, <2>2, <2>3 DEF Mended
  <1>9. \A m \in Row : Mended(n, G, 0, m) => Mended(n, H, 0, m)
    <2> SUFFICES ASSUME NEW m \in Row, Mended(n, G, 0, m)
                 PROVE  Mended(n, H, 0, m)
      OBVIOUS
    <2>1. PICK k \in DOMAIN G :
            /\ k > 0 /\ G[k].type = "recalled" /\ G[k].message.id = m.id
            /\ n.instance[2] < G[k].instance[2]
            /\ \A l \in DOMAIN G :
                  (l < k /\ Dated(G[l])) => G[l].instance[2] < G[k].instance[2]
      BY DEF Mended
    <2>2. e[k] \in DOMAIN H /\ e[k] > 0 /\ H[e[k]] = G[k]
      BY <1>1, <1>2, <2>1
    <2>3. \A l \in DOMAIN H : (l < e[k] /\ Dated(H[l])) => H[l].instance[2] < H[e[k]].instance[2]
      BY <1>7, <2>1
    <2> QED BY <2>1, <2>2, <2>3 DEF Mended
  <1>10. DatesOk(v, H)
    BY <1>1, <1>2, <1>4, <1>5 DEF LiveView, DatesOk
  <1>11. RowsOk(v, n, H)
    <2> SUFFICES ASSUME NEW j \in DOMAIN H, NEW m \in Brought(H[j])
                 PROVE  Genuine(v, n, H, j, m)
      BY DEF RowsOk
    <2>1. CASE H[j] \in Plain(v)
      BY <2>1 DEF Plain, Genuine
    <2>2. CASE \E l \in DOMAIN G : e[l] = j
      <3>1. PICK l \in DOMAIN G : e[l] = j
        BY <2>2
      <3>2. m \in Brought(G[l]) /\ m \in Row
        BY <1>1, <1>2, <3>1, FrameTyped
      <3>3. Genuine(v, n, G, l, m)
        BY <3>2 DEF LiveView, RowsOk
      <3> QED BY <1>5, <1>8, <3>1, <3>2, <3>3 DEF Genuine
    <2> QED BY <1>1, <2>1, <2>2
  <1>12. EndsOk(v, H)
    <2> SUFFICES ASSUME NEW j \in DOMAIN H, H[j].type = "sync_complete"
                 PROVE  Overtaken(H, j) \/ H[j].through <= v.latest
      BY DEF EndsOk
    <2>1. CASE H[j] \in Plain(v)
      BY <2>1 DEF Plain
    <2>2. CASE \E l \in DOMAIN G : e[l] = j
      BY <1>1, <1>5, <2>2 DEF LiveView, EndsOk
    <2> QED BY <1>1, <2>1, <2>2
  <1>13. StartOk(v, n, H) /\ (Keeps(n, H) <=> Keeps(n, G))
    <2>1. \A j \in DOMAIN H : H[j].type = "welcome" => j = 1 /\ ~n.welcomed
      <3> SUFFICES ASSUME NEW j \in DOMAIN H, H[j].type = "welcome" PROVE j = 1 /\ ~n.welcomed
        OBVIOUS
      <3>1. PICK l \in DOMAIN G : e[l] = j /\ G[l] = H[j]
        BY <1>4 DEF Dated
      <3>2. l = 1 /\ ~n.welcomed
        BY <3>1 DEF LiveView, StartOk
      <3> QED BY <1>1, <3>1, <3>2
    <2>2. ~n.welcomed => H[1] = G[1] /\ 1 \in DOMAIN H /\ H # <<>>
      BY <1>1, <1>2
    <2> QED BY <2>1, <2>2 DEF LiveView, StartOk, Keeps
  <1>14. Keeps(n, H) => Sees(v, n, t, H)
    <2> SUFFICES ASSUME Sees(v, n, t, G) PROVE Sees(v, n, t, H)
      BY <1>13 DEF LiveView
    <2>1. ~LateCancel => \A m \in t.messages : Genuine(v, n, H, 0, m)
      <3> SUFFICES ASSUME NEW m \in t.messages, Genuine(v, n, G, 0, m)
                   PROVE  Genuine(v, n, H, 0, m)
        BY DEF Sees
      <3>1. m \in Row
        BY DEF Models
      <3> QED BY <1>6, <1>9, <3>1 DEF Genuine
    <2> QED BY <1>6, <2>1 DEF Sees
  <1> QED BY <1>10, <1>11, <1>12, <1>13, <1>14 DEF LiveView

-----------------------------------------------------------------------------
(* Messages, recalls and cleanups are told to a session *)

\* The log of a room may grow, and instances be drawn for other rooms.
LEMMA GrowKeeps ==
    ASSUME NEW v \in Logs, NEW w \in Logs, NEW n \in Networks, NEW t \in Models,
           NEW G \in Seq(Frames), LiveView(v, n, t, G),
           v.rows \subseteq w.rows, v.latest <= w.latest, v.drawn <= w.drawn,
           w.instance = v.instance, w.epoch = v.epoch
    PROVE  LiveView(w, n, t, G)
  <1>1. /\ v.latest \in Nat /\ w.latest \in Nat /\ v.drawn \in Nat /\ w.drawn \in Nat
    BY DEF Logs
  <1>2. \A j \in DOMAIN G : G[j] \in Frames
    OBVIOUS
  <1>3. \A j \in Nat, m \in Row : Genuine(v, n, G, j, m) => Genuine(w, n, G, j, m)
    BY <1>1 DEF Genuine, Row
  <1>4. DatesOk(w, G)
    <2> SUFFICES ASSUME NEW j \in DOMAIN G, Dated(G[j])
                 PROVE  /\ G[j].instance[1] <= w.drawn /\ G[j].instance[2] <= w.drawn
                        /\ Overtaken(G, j) => G[j].instance[1] # w.instance
                        /\ ~Overtaken(G, j) => G[j].instance[1] = w.instance
                                               /\ G[j].instance[2] <= w.epoch
      BY DEF DatesOk
    <2>1. G[j].instance[1] \in Nat /\ G[j].instance[2] \in Nat
      BY <1>2, FrameTyped
    <2>2. /\ G[j].instance[1] <= v.drawn /\ G[j].instance[2] <= v.drawn
          /\ Overtaken(G, j) => G[j].instance[1] # v.instance
          /\ ~Overtaken(G, j) => G[j].instance[1] = v.instance /\ G[j].instance[2] <= v.epoch
      BY DEF LiveView, DatesOk
    <2> QED BY <1>1, <2>1, <2>2
  <1>5. RowsOk(w, n, G)
    <2> SUFFICES ASSUME NEW j \in DOMAIN G, NEW m \in Brought(G[j])
                 PROVE  Genuine(w, n, G, j, m)
      BY DEF RowsOk
    <2>1. m \in Row /\ j \in Nat
      BY <1>2, FrameTyped
    <2> QED BY <1>3, <2>1 DEF LiveView, RowsOk
  <1>6. EndsOk(w, G)
    <2> SUFFICES ASSUME NEW j \in DOMAIN G, G[j].type = "sync_complete"
                 PROVE  Overtaken(G, j) \/ G[j].through <= w.latest
      BY DEF EndsOk
    <2>1. G[j].through \in Nat
      BY <1>2, FrameTyped
    <2> QED BY <1>1, <2>1 DEF LiveView, EndsOk
  <1>7. Sees(v, n, t, G) => Sees(w, n, t, G)
    <2>1. n.cursor \in Nat /\ \A m \in t.messages : m \in Row
      BY DEF Networks, Models
    <2> QED BY <1>1, <1>3, <2>1 DEF Sees
  <1>8. StartOk(w, n, G)
    BY DEF LiveView, StartOk
  <1> QED BY <1>4, <1>5, <1>6, <1>7, <1>8 DEF LiveView

\* A recall is told to a session, one that replaces a row or one repeated.
LEMMA RecallTold ==
    ASSUME NEW v \in Logs, NEW w \in Logs, NEW n \in Networks, NEW t \in Models,
           NEW G \in Seq(Frames), NEW f \in Frames, LiveView(v, n, t, G), Base(v, n, t),
           f.type = "recalled", f.message \in w.rows, f.message.id <= w.latest,
           f.instance[1] = w.instance, f.instance[2] = w.epoch,
           w.instance = v.instance, w.latest = v.latest,
           w.instance <= w.drawn, w.epoch <= w.drawn, v.epoch <= v.drawn, v.drawn <= w.drawn,
           w = v \/ w.epoch > v.drawn,
           \A m \in v.rows : m \in w.rows \/ (w # v /\ m.id = f.message.id)
    PROVE  LiveView(w, n, t, Append(G, f))
  <1> DEFINE H == Append(G, f)
             z == Len(G) + 1
  <1>1. /\ Len(G) \in Nat /\ DOMAIN G = 1 .. Len(G) /\ DOMAIN H = 1 .. z /\ H[z] = f
        /\ H \in Seq(Frames)
        /\ \A k \in DOMAIN G : k \in Nat /\ k > 0 /\ k < z /\ k \in DOMAIN H /\ H[k] = G[k]
                               /\ G[k] \in Frames
    BY AppendProperties
  <1>2. \A k \in DOMAIN H : k = z \/ k \in DOMAIN G
    BY <1>1
  <1>3. z \in DOMAIN H /\ z \in Nat /\ z > 0
    BY <1>1
  <1>4. f.instance[1] \in Nat /\ f.instance[2] \in Nat
    BY FrameTyped DEF Dated
  <1>5. /\ v.latest \in Nat /\ v.drawn \in Nat /\ w.drawn \in Nat /\ v.epoch \in Nat /\ w.epoch \in Nat
        /\ v.instance \in Nat /\ w.instance \in Nat
    BY DEF Logs
  <1>6. n.instance[1] \in Nat /\ n.instance[2] \in Nat
    BY DEF Networks, InstanceIDs
  <1> HIDE DEF H, z
  <1>7. \A j \in Nat : j < z => (Overtaken(G, j) <=> Overtaken(H, j))
    BY <1>1, <1>2 DEF Overtaken
  <1>8. ~Overtaken(H, z)
    <2>1. \A k \in DOMAIN H : ~(k > z)
      BY <1>1, <1>3
    <2> QED BY <2>1 DEF Overtaken
  <1>9. \A j \in Nat, m \in Row : Mended(n, G, j, m) => Mended(n, H, j, m)
    <2> SUFFICES ASSUME NEW j \in Nat, NEW m \in Row, Mended(n, G, j, m)
                 PROVE  Mended(n, H, j, m)
      OBVIOUS
    <2>1. PICK k \in DOMAIN G :
            /\ k > j /\ G[k].type = "recalled" /\ G[k].message.id = m.id
            /\ n.instance[2] < G[k].instance[2]
            /\ \A l \in DOMAIN G :
                  (l < k /\ Dated(G[l])) => G[l].instance[2] < G[k].instance[2]
      BY DEF Mended
    <2>2. \A l \in DOMAIN H : l < k => l \in DOMAIN G /\ H[l] = G[l]
      BY <1>1, <1>2
    <2>3. k \in DOMAIN H /\ H[k] = G[k]
      BY <1>1
    <2> QED BY <2>1, <2>2, <2>3 DEF Mended
  <1>10. \A j \in DOMAIN G : Dated(G[j]) =>
            /\ G[j].instance[1] \in Nat /\ G[j].instance[2] \in Nat
            /\ G[j].instance[1] <= v.drawn /\ G[j].instance[2] <= v.drawn
            /\ Overtaken(G, j) => G[j].instance[1] # v.instance
            /\ ~Overtaken(G, j) => G[j].instance[1] = v.instance /\ G[j].instance[2] <= v.epoch
    BY <1>1, FrameTyped DEF LiveView, DatesOk
  <1>11. \A j \in Nat, m \in Row :
            (w # v /\ j < z /\ m.id = f.message.id) => Mended(n, H, j, m)
    <2> SUFFICES ASSUME NEW j \in Nat, NEW m \in Row, w # v, j < z, m.id = f.message.id
                 PROVE  Mended(n, H, j, m)
      OBVIOUS
    <2>1. f.instance[2] > v.drawn
      BY <1>4, <1>5
    <2>2. n.instance[2] < f.instance[2]
      BY <1>4, <1>5, <1>6, <2>1 DEF Base
    <2>3. \A l \in DOMAIN H : (l < z /\ Dated(H[l])) => H[l].instance[2] < f.instance[2]
      <3> SUFFICES ASSUME NEW l \in DOMAIN H, l < z, Dated(H[l])
                   PROVE  H[l].instance[2] < f.instance[2]
        OBVIOUS
      <3>1. l \in DOMAIN G /\ H[l] = G[l]
        BY <1>1, <1>2
      <3> QED BY <1>4, <1>5, <1>10, <2>1, <3>1
    <2> QED BY <1>1, <1>3, <2>2, <2>3 DEF Mended
  <1>12. \A j \in Nat, m \in Row : (j < z /\ Genuine(v, n, G, j, m)) => Genuine(w, n, H, j, m)
    BY <1>7, <1>9, <1>11 DEF Genuine
  <1>13. DatesOk(w, H)
    <2> SUFFICES ASSUME NEW j \in DOMAIN H, Dated(H[j])
                 PROVE  /\ H[j].instance[1] <= w.drawn /\ H[j].instance[2] <= w.drawn
                        /\ Overtaken(H, j) => H[j].instance[1] # w.instance
                        /\ ~Overtaken(H, j) => H[j].instance[1] = w.instance
                                               /\ H[j].instance[2] <= w.epoch
      BY DEF DatesOk
    <2>1. CASE j = z
      BY <1>1, <1>4, <1>5, <1>8, <2>1
    <2>2. CASE j \in DOMAIN G
      <3>1. H[j] = G[j] /\ j \in Nat /\ j < z
        BY <1>1, <2>2
      <3>2. Overtaken(G, j) <=> Overtaken(H, j)
        BY <1>7, <3>1
      <3>3. w = v \/ w.epoch > v.epoch
        BY <1>5
      <3> QED BY <1>5, <1>10, <2>2, <3>1, <3>2, <3>3
    <2> QED BY <1>2, <2>1, <2>2
  <1>14. RowsOk(w, n, H)
    <2> SUFFICES ASSUME NEW j \in DOMAIN H, NEW m \in Brought(H[j])
                 PROVE  Genuine(w, n, H, j, m)
      BY DEF RowsOk
    <2>1. CASE j = z
      BY <1>1, <2>1 DEF Brought, Genuine
    <2>2. CASE j \in DOMAIN G
      <3>1. H[j] = G[j] /\ j \in Nat /\ j < z /\ m \in Row
        BY <1>1, <2>2, FrameTyped
      <3> QED BY <1>12, <2>2, <3>1 DEF LiveView, RowsOk
    <2> QED BY <1>2, <2>1, <2>2
  <1>15. EndsOk(w, H)
    <2> SUFFICES ASSUME NEW j \in DOMAIN H, H[j].type = "sync_complete"
                 PROVE  Overtaken(H, j) \/ H[j].through <= w.latest
      BY DEF EndsOk
    <2>1. j \in DOMAIN G /\ H[j] = G[j] /\ j \in Nat /\ j < z
      BY <1>1, <1>2
    <2> QED BY <1>7, <2>1 DEF LiveView, EndsOk
  <1>16. ~n.welcomed => H[1] = G[1] /\ 1 \in DOMAIN G /\ H # <<>>
    <2> SUFFICES ASSUME ~n.welcomed PROVE H[1] = G[1] /\ 1 \in DOMAIN G /\ H # <<>>
      OBVIOUS
    <2>1. G # <<>>
      BY DEF LiveView, StartOk
    <2>2. 1 \in DOMAIN G
      BY <1>1, <2>1, EmptySeq
    <2>3. H # <<>>
      BY <1>3, EmptySeq
    <2> QED BY <1>1, <2>2, <2>3
  <1>17. StartOk(w, n, H) /\ (Keeps(n, H) <=> Keeps(n, G))
    <2>1. \A j \in DOMAIN H : H[j].type = "welcome" => j = 1 /\ ~n.welcomed
      BY <1>1, <1>2 DEF LiveView, StartOk
    <2>2. n.instance # <<v.instance, v.epoch>> => n.instance # <<w.instance, w.epoch>>
      BY <1>5, <1>6 DEF Base
    <2> QED BY <1>16, <2>1, <2>2 DEF LiveView, StartOk, Keeps
  <1>18. Sees(v, n, t, G) => Sees(w, n, t, H)
    <2> SUFFICES ASSUME Sees(v, n, t, G) PROVE Sees(w, n, t, H)
      OBVIOUS
    <2>1. Overtaken(G, 0) <=> Overtaken(H, 0)
      BY <1>3, <1>7
    <2>2. \A m \in t.messages : Genuine(v, n, G, 0, m) => Genuine(w, n, H, 0, m)
      BY <1>3, <1>12 DEF Models
    <2>3. n.instance[2] <= v.epoch => n.instance[2] <= w.epoch
      BY <1>5, <1>6
    <2> QED BY <2>1, <2>2, <2>3 DEF Sees
  <1>19. LiveView(w, n, t, H)
    BY <1>13, <1>14, <1>15, <1>17, <1>18 DEF LiveView
  <1> QED BY <1>19 DEF H

\* A cleanup is told to a session; what was held back for it is dropped.
LEMMA ClearTold ==
    ASSUME NEW v \in Logs, NEW w \in Logs, NEW n \in Networks, NEW t \in Models,
           NEW G \in Seq(Frames), NEW A \in Seq(Frames), NEW f \in Frames,
           LiveView(v, n, t, G), Base(v, n, t),
           Len(A) <= Len(G), \A k \in DOMAIN A : A[k] = G[k], ~n.welcomed => A # <<>>,
           f.type = "history_cleared", f.instance[1] = w.instance, f.instance[2] = w.epoch,
           v.drawn < w.instance, w.instance <= w.drawn, w.epoch <= w.drawn
    PROVE  LiveView(w, n, t, Append(A, f))
  <1> DEFINE H == Append(A, f)
             z == Len(A) + 1
  <1>1. /\ Len(A) \in Nat /\ DOMAIN A = 1 .. Len(A) /\ DOMAIN H = 1 .. z /\ H[z] = f
        /\ H \in Seq(Frames)
        /\ \A k \in DOMAIN A : k \in Nat /\ k > 0 /\ k < z /\ k \in DOMAIN H /\ H[k] = G[k]
                               /\ k \in DOMAIN G /\ G[k] \in Frames
    BY AppendProperties
  <1>2. \A k \in DOMAIN H : k = z \/ k \in DOMAIN A
    BY <1>1
  <1>3. z \in DOMAIN H /\ z \in Nat /\ z > 0
    BY <1>1
  <1>4. f.instance[1] \in Nat /\ f.instance[2] \in Nat
    BY FrameTyped DEF Dated
  <1>5. /\ v.drawn \in Nat /\ w.drawn \in Nat /\ w.epoch \in Nat /\ w.instance \in Nat
    BY DEF Logs
  <1>6. n.instance[1] \in Nat /\ n.instance[2] \in Nat
    BY DEF Networks, InstanceIDs
  <1> HIDE DEF H, z
  <1>7. \A j \in Nat : j < z => Overtaken(H, j)
    BY <1>1, <1>3 DEF Overtaken
  <1>8. ~Overtaken(H, z)
    <2>1. \A k \in DOMAIN H : ~(k > z)
      BY <1>1, <1>3
    <2> QED BY <2>1 DEF Overtaken
  <1>9. \A j \in DOMAIN A : Dated(G[j]) =>
            /\ G[j].instance[1] \in Nat /\ G[j].instance[2] \in Nat
            /\ G[j].instance[1] <= v.drawn /\ G[j].instance[2] <= v.drawn
    BY <1>1, FrameTyped DEF LiveView, DatesOk
  <1>10. DatesOk(w, H)
    <2> SUFFICES ASSUME NEW j \in DOMAIN H, Dated(H[j])
                 PROVE  /\ H[j].instance[1] <= w.drawn /\ H[j].instance[2] <= w.drawn
                        /\ Overtaken(H, j) => H[j].instance[1] # w.instance
                        /\ ~Overtaken(H, j) => H[j].instance[1] = w.instance
                                               /\ H[j].instance[2] <= w.epoch
      BY DEF DatesOk
    <2>1. CASE j = z
      BY <1>1, <1>4, <1>5, <1>8, <2>1
    <2>2. CASE j \in DOMAIN A
      BY <1>1, <1>5, <1>7, <1>9, <2>2
    <2> QED BY <1>2, <2>1, <2>2
  <1>11. RowsOk(w, n, H)
    <2> SUFFICES ASSUME NEW j \in DOMAIN H, NEW m \in Brought(H[j])
                 PROVE  Genuine(w, n, H, j, m)
      BY DEF RowsOk
    <2>1. j # z
      BY <1>1 DEF Brought
    <2> QED BY <1>1, <1>2, <1>7, <2>1 DEF Genuine
  <1>12. EndsOk(w, H)
    BY <1>1, <1>2, <1>7 DEF EndsOk
  <1>13. ~n.welcomed => H[1] = G[1] /\ 1 \in DOMAIN G /\ H # <<>>
    <2> SUFFICES ASSUME ~n.welcomed PROVE H[1] = G[1] /\ 1 \in DOMAIN G /\ H # <<>>
      OBVIOUS
    <2>1. 1 \in DOMAIN A
      BY <1>1, EmptySeq
    <2>2. H # <<>>
      BY <1>3, EmptySeq
    <2> QED BY <1>1, <2>1, <2>2
  <1>14. n.instance[1] # w.instance /\ n.instance # <<w.instance, w.epoch>>
    BY <1>5, <1>6 DEF Base
  <1>15. StartOk(w, n, H)
    <2>1. \A j \in DOMAIN H : H[j].type = "welcome" => j = 1 /\ ~n.welcomed
      BY <1>1, <1>2 DEF LiveView, StartOk
    <2> QED BY <1>13, <1>14, <2>1 DEF LiveView, StartOk
  <1>16. Sees(w, n, t, H)
    BY <1>3, <1>7, <1>14 DEF Sees, Genuine
  <1>17. LiveView(w, n, t, H)
    BY <1>10, <1>11, <1>12, <1>15, <1>16 DEF LiveView
  <1> QED BY <1>17 DEF H

-----------------------------------------------------------------------------
(* What a frame changes in what a client shows and knows *)

\* What is on the display after a frame was on it before, or came with the frame.
LEMMA ShownBy ==
    ASSUME NEW k \in Nat, NEW t \in Models, NEW f \in SoundFrames(k)
    PROVE  /\ (f.type = "welcome" /\ ~f.resumed) => Show(t, f).messages = {}
           /\ f.type = "history_cleared" => Show(t, f).messages = {}
           /\ \A m \in Show(t, f).messages :
                 \/ m \in t.messages /\ (f.type = "recalled" => m.id # f.message.id)
                 \/ m \in Brought(f)
  <1> DEFINE Old == {m \in t.messages : f.type = "recalled" => m.id # f.message.id}
  <1> SUFFICES ASSUME NEW v, v = Show(t, f)
               PROVE  /\ (f.type = "welcome" /\ ~f.resumed) => v.messages = {}
                      /\ f.type = "history_cleared" => v.messages = {}
                      /\ v.messages \subseteq Old \cup Brought(f)
    OBVIOUS
  <1>1. \A old, new : MergeMessages(old, new) \subseteq old \cup new
    BY DEF MergeMessages
  <1>2. "messages" \in DOMAIN t
    BY DEF Models
  <1>3. CASE f.type = "welcome"
    <2>1. v = ShowWelcome(t, f)
      BY <1>3 DEF Show
    <2>2. CASE f.resumed
      <3>1. v = [t EXCEPT !.users = f.users]
        BY <2>1, <2>2 DEF ShowWelcome
      <3>2. v.messages = t.messages
        BY <3>1 DEF Models
      <3> QED BY <1>3, <2>2, <3>2
    <2>3. CASE ~f.resumed
      <3>1. v = [t EXCEPT !.users = f.users, !.issues = {}, !.pending = FALSE,
                          !.recalls = FALSE, !.messages = {}, !.hasMore = FALSE,
                          !.loading = FALSE]
        BY <2>1, <2>3 DEF ShowWelcome
      <3>2. v.messages = {}
        BY <3>1 DEF Models
      <3> QED BY <1>3, <3>2
    <2> QED BY <2>2, <2>3
  <1>4. CASE f.type \in {"presence", "sync_complete", "error"}
    <2>1. v.messages = t.messages
      BY <1>4 DEF Show, ShowError, Models
    <2> QED BY <1>4, <2>1
  <1>5. CASE f.type \in {"history", "sync"}
    <2>1. v.messages = MergeMessages(t.messages, f.messages)
      BY <1>5 DEF Show, ShowHistory, Models
    <2> QED BY <1>1, <1>5, <2>1 DEF Brought
  <1>6. CASE f.type \in {"message", "ack"}
    <2>1. v.messages = MergeMessages(t.messages, {f.message})
      BY <1>6 DEF Show, ShowMessage, Models
    <2> QED BY <1>1, <1>6, <2>1 DEF Brought
  <1>7. CASE f.type = "recalled"
    <2>1. v.messages = IF f.message.id \in Ids(t.messages)
                       THEN {m \in t.messages : m.id # f.message.id} \cup {f.message}
                       ELSE t.messages
      BY <1>7 DEF Show, ShowRecalled, Models
    <2>2. \A m \in t.messages : m.id \in Ids(t.messages)
      BY DEF Ids
    <2>3. Brought(f) = {f.message}
      BY <1>7 DEF Brought
    <2> QED BY <1>7, <2>1, <2>2, <2>3
  <1>8. CASE f.type = "history_cleared"
    <2>1. v.messages = {}
      BY <1>8 DEF Show, ShowCleared, Models
    <2> QED BY <1>8, <2>1
  <1> QED BY <1>3, <1>4, <1>5, <1>6, <1>7, <1>8, FrameCases

\* The instance and the cursor a client has before a frame is handed on ...
LEMMA KnownBefore ==
    ASSUME NEW k \in Nat, NEW n \in Networks, NEW f \in SoundFrames(k)
    PROVE  /\ f.type \in {"welcome", "history_cleared"} => BeforeEmit(n, f).instance = f.instance
           /\ f.type \notin {"welcome", "history_cleared"} => BeforeEmit(n, f).instance = n.instance
           /\ f.type = "welcome" /\ ~f.resumed => BeforeEmit(n, f).cursor = 0
           /\ f.type = "history_cleared" => BeforeEmit(n, f).cursor = 0
           /\ BeforeEmit(n, f).cursor \in Nat
           /\ f.type # "sync_complete" => BeforeEmit(n, f).cursor \in {0, n.cursor}
           /\ f.type = "sync_complete" => BeforeEmit(n, f).cursor \in {n.cursor, f.through}
           /\ f.type \notin {"welcome", "history_cleared", "sync_complete"} =>
                 BeforeEmit(n, f) = n
  <1> SUFFICES ASSUME NEW b, b = BeforeEmit(n, f)
               PROVE  /\ f.type \in {"welcome", "history_cleared"} => b.instance = f.instance
                      /\ f.type \notin {"welcome", "history_cleared"} => b.instance = n.instance
                      /\ f.type = "welcome" /\ ~f.resumed => b.cursor = 0
                      /\ f.type = "history_cleared" => b.cursor = 0
                      /\ b.cursor \in Nat
                      /\ f.type # "sync_complete" => b.cursor \in {0, n.cursor}
                      /\ f.type = "sync_complete" => b.cursor \in {n.cursor, f.through}
                      /\ f.type \notin {"welcome", "history_cleared", "sync_complete"} => b = n
    OBVIOUS
  <1>1. n.cursor \in Nat
    BY DEF Networks
  <1>2. CASE f.type = "welcome"
    <2>1. b = OnWelcome(n, f)
      BY <1>2 DEF BeforeEmit
    <2>2. b.instance = f.instance /\ b.cursor = IF f.resumed THEN n.cursor ELSE 0
      BY <2>1 DEF OnWelcome, Networks
    <2> QED BY <1>1, <1>2, <2>2
  <1>3. CASE f.type = "history_cleared"
    <2>1. b = OnCleared(n, f)
      BY <1>3 DEF BeforeEmit
    <2>2. b.instance = f.instance /\ b.cursor = 0
      BY <2>1 DEF OnCleared, Networks
    <2> QED BY <1>3, <2>2
  <1>4. CASE f.type = "sync_complete"
    <2>1. b = OnSyncComplete(n, f)
      BY <1>4 DEF BeforeEmit
    <2>2. b.instance = n.instance /\ b.cursor = Max({n.cursor, f.through})
      BY <2>1 DEF OnSyncComplete, Networks
    <2>3. f.through \in Nat
      BY <1>4, FrameCases
    <2> DEFINE S == {n.cursor, f.through}
               z == n.cursor + f.through
    <2>4. S \in SUBSET Nat /\ S # {} /\ z \in Nat /\ \A x \in S : x <= z
      BY <1>1, <2>3
    <2> HIDE DEF S, z
    <2>5. Max(S) \in S
      BY <2>4, MaxOf
    <2> QED BY <1>1, <1>4, <2>2, <2>3, <2>5 DEF S
  <1>5. CASE f.type \notin {"welcome", "history_cleared", "sync_complete"}
    <2>1. b = n
      BY <1>5 DEF BeforeEmit
    <2> QED BY <1>1, <1>5, <2>1
  <1> QED BY <1>2, <1>3, <1>4, <1>5

\* ... and after.
LEMMA KnownAfter ==
    ASSUME NEW k \in Nat, NEW n \in Networks, NEW f \in SoundFrames(k)
    PROVE  /\ Dated(f) => Received(n, f).instance = f.instance
           /\ ~Dated(f) => Received(n, f).instance = n.instance
           /\ f.type = "welcome" /\ ~f.resumed => Received(n, f).cursor = 0
           /\ f.type = "history_cleared" => Received(n, f).cursor = 0
           /\ \/ Received(n, f).cursor \in {0, n.cursor}
              \/ f.type = "sync_complete" /\ (Received(n, f).cursor = f.through)
              \/ \E m \in Brought(f) : Received(n, f).cursor = m.id
  <1> DEFINE b == BeforeEmit(n, f)
             M == Carried(f)
  <1> SUFFICES ASSUME NEW p, p = AfterEmit(b, f)
               PROVE  /\ Dated(f) => p.instance = f.instance
                      /\ ~Dated(f) => p.instance = n.instance
                      /\ f.type = "welcome" /\ ~f.resumed => p.cursor = 0
                      /\ f.type = "history_cleared" => p.cursor = 0
                      /\ \/ p.cursor \in {0, n.cursor}
                         \/ f.type = "sync_complete" /\ p.cursor = f.through
                         \/ \E m \in Brought(f) : p.cursor = m.id
    BY DEF Received
  <1>1. b \in Networks
    BY BeforeTyped
  <1>2. /\ f.type \in {"welcome", "history_cleared"} => b.instance = f.instance
        /\ f.type \notin {"welcome", "history_cleared"} => b.instance = n.instance
        /\ f.type = "welcome" /\ ~f.resumed => b.cursor = 0
        /\ f.type = "history_cleared" => b.cursor = 0
        /\ b.cursor \in Nat
        /\ f.type # "sync_complete" => b.cursor \in {0, n.cursor}
        /\ f.type = "sync_complete" => b.cursor \in {n.cursor, f.through}
    BY KnownBefore
  <1>3. M \in SUBSET Row /\ (\A m \in M : m.id <= k) /\ M \subseteq Brought(f)
    BY FrameCases DEF Carried, Brought
  <1>4. f.type \in {"welcome", "history_cleared", "sync_complete"} => M = {}
    BY DEF Carried
  <1> HIDE DEF b, M
  <1>5. p.instance = (IF f.type = "recalled" THEN f.instance ELSE b.instance)
        /\ p.cursor = Further(b.cursor, M)
    BY <1>1 DEF AfterEmit, Networks, M
  <1>6. /\ p.cursor = b.cursor \/ \E m \in M : p.cursor = m.id
        /\ M = {} => p.cursor = b.cursor
    BY <1>2, <1>3, <1>5, FurtherTyped
  <1>7. Dated(f) => p.instance = f.instance
    BY <1>2, <1>5 DEF Dated
  <1>8. ~Dated(f) => p.instance = n.instance
    BY <1>2, <1>5 DEF Dated
  <1> QED BY <1>2, <1>3, <1>4, <1>6, <1>7, <1>8

-----------------------------------------------------------------------------
(* The stream of a session is read *)

\* A client reads the next frame of its stream.
LEMMA ReadView ==
    ASSUME NEW k \in Nat, NEW v \in Logs, NEW n \in Networks, NEW t \in Models,
           NEW G \in Seq(SoundFrames(k)), G # <<>>, LiveView(v, n, t, G),
           NEW p \in Networks, p = Received(n, G[1]), NEW q, q = Show(t, G[1])
    PROVE  LiveView(v, p, q, Tail(G))
  <1> DEFINE H == Tail(G)
             f == G[1]
  <1>1. /\ Len(G) \in Nat /\ DOMAIN G = 1 .. Len(G) /\ 1 \in DOMAIN G
        /\ H \in Seq(SoundFrames(k)) /\ Len(H) = Len(G) - 1 /\ DOMAIN H = 1 .. Len(H)
        /\ \A j \in DOMAIN H : H[j] = G[j + 1]
    BY EmptySeq, HeadTailProperties
  <1>2. /\ \A j \in DOMAIN G : j \in Nat /\ j > 0 /\ G[j] \in SoundFrames(k)
        /\ \A j \in DOMAIN H : j \in Nat /\ j > 0 /\ j + 1 \in DOMAIN G /\ H[j] = G[j + 1]
        /\ \A j \in DOMAIN G : j > 1 => j - 1 \in DOMAIN H /\ H[j - 1] = G[j]
    BY <1>1
  <1>3. f \in SoundFrames(k) /\ \A j \in DOMAIN G : G[j] \in Frames
    BY <1>1, <1>2 DEF SoundFrames
  <1> HIDE DEF H, f
  <1>4. \A j \in Nat : Overtaken(H, j) <=> Overtaken(G, j + 1)
    <2> SUFFICES ASSUME NEW j \in Nat PROVE Overtaken(H, j) <=> Overtaken(G, j + 1)
      OBVIOUS
    <2>1. Overtaken(H, j) => Overtaken(G, j + 1)
      BY <1>2 DEF Overtaken
    <2>2. Overtaken(G, j + 1) => Overtaken(H, j)
      <3> SUFFICES ASSUME NEW l \in DOMAIN G, l > j + 1, G[l].type = "history_cleared"
                   PROVE  Overtaken(H, j)
        BY DEF Overtaken
      <3>1. l - 1 \in DOMAIN H /\ H[l - 1] = G[l] /\ l - 1 > j
        BY <1>2
      <3> QED BY <3>1 DEF Overtaken
    <2> QED BY <2>1, <2>2
  <1>5. /\ Dated(f) => p.instance = f.instance
        /\ ~Dated(f) => p.instance = n.instance
        /\ f.type = "welcome" /\ ~f.resumed => p.cursor = 0
        /\ f.type = "history_cleared" => p.cursor = 0
        /\ \/ p.cursor \in {0, n.cursor}
           \/ f.type = "sync_complete" /\ (p.cursor = f.through)
           \/ \E m \in Brought(f) : p.cursor = m.id
    BY <1>3, KnownAfter DEF f
  <1>6. p.welcomed <=> n.welcomed \/ f.type = "welcome"
    BY <1>3, ReceivedTyped DEF f
  <1>7. /\ (f.type = "welcome" /\ ~f.resumed) => q.messages = {}
        /\ f.type = "history_cleared" => q.messages = {}
        /\ \A m \in q.messages :
              \/ m \in t.messages /\ (f.type = "recalled" => m.id # f.message.id)
              \/ m \in Brought(f)
    BY <1>3, ShownBy DEF f
  <1>8. p.welcomed /\ (~n.welcomed => f.type = "welcome") /\ (Keeps(n, G) <=> n.welcomed \/ f.resumed)
    BY <1>6 DEF LiveView, StartOk, Keeps, f
  <1>9. \A j \in Nat, m \in Row : Mended(n, G, j + 1, m) => Mended(p, H, j, m)
    <2> SUFFICES ASSUME NEW j \in Nat, NEW m \in Row, Mended(n, G, j + 1, m)
                 PROVE  Mended(p, H, j, m)
      OBVIOUS
    <2>1. PICK l \in DOMAIN G :
            /\ l > j + 1 /\ G[l].type = "recalled" /\ G[l].message.id = m.id
            /\ n.instance[2] < G[l].instance[2]
            /\ \A o \in DOMAIN G :
                  (o < l /\ Dated(G[o])) => G[o].instance[2] < G[l].instance[2]
      BY DEF Mended
    <2>2. l - 1 \in DOMAIN H /\ H[l - 1] = G[l] /\ l - 1 > j
      BY <1>2, <2>1
    <2>3. p.instance[2] < G[l].instance[2]
      <3>1. CASE Dated(f)
        <4>1. 1 < l
          BY <1>2, <2>1
        <4> QED BY <1>1, <1>5, <2>1, <3>1, <4>1 DEF f
      <3>2. CASE ~Dated(f)
        BY <1>5, <2>1, <3>2
      <3> QED BY <3>1, <3>2
    <2>4. \A o \in DOMAIN H :
             (o < l - 1 /\ Dated(H[o])) => H[o].instance[2] < G[l].instance[2]
      BY <1>2, <2>1
    <2> DEFINE z == l - 1
    <2>5. /\ z \in DOMAIN H /\ z > j /\ H[z].type = "recalled" /\ H[z].message.id = m.id
          /\ p.instance[2] < H[z].instance[2]
          /\ \A o \in DOMAIN H : (o < z /\ Dated(H[o])) => H[o].instance[2] < H[z].instance[2]
      BY <2>1, <2>2, <2>3, <2>4
    <2> HIDE DEF z
    <2> QED BY <2>5 DEF Mended
  <1>10. \A j \in Nat, m \in Row : Genuine(v, n, G, j + 1, m) => Genuine(v, p, H, j, m)
    BY <1>4, <1>9 DEF Genuine
  <1>21. \A m \in Row : Genuine(v, n, G, 1, m) => Genuine(v, p, H, 0, m)
    <2>1. 0 \in Nat /\ 0 + 1 = 1
      OBVIOUS
    <2>2. \A m \in Row : Genuine(v, n, G, 0 + 1, m) => Genuine(v, p, H, 0, m)
      BY <1>10, <2>1
    <2> QED BY <2>1, <2>2
  <1>11. DatesOk(v, H)
    <2> SUFFICES ASSUME NEW j \in DOMAIN H, Dated(H[j])
                 PROVE  /\ H[j].instance[1] <= v.drawn /\ H[j].instance[2] <= v.drawn
                        /\ Overtaken(H, j) => H[j].instance[1] # v.instance
                        /\ ~Overtaken(H, j) => H[j].instance[1] = v.instance
                                               /\ H[j].instance[2] <= v.epoch
      BY DEF DatesOk
    <2>1. j \in Nat /\ j + 1 \in DOMAIN G /\ H[j] = G[j + 1]
      BY <1>2
    <2>2. Overtaken(H, j) <=> Overtaken(G, j + 1)
      BY <1>4, <2>1
    <2> QED BY <2>1, <2>2 DEF LiveView, DatesOk
  <1>12. RowsOk(v, p, H)
    <2> SUFFICES ASSUME NEW j \in DOMAIN H, NEW m \in Brought(H[j])
                 PROVE  Genuine(v, p, H, j, m)
      BY DEF RowsOk
    <2>1. j \in Nat /\ j + 1 \in DOMAIN G /\ H[j] = G[j + 1] /\ m \in Row
      BY <1>2, <1>3, FrameTyped
    <2> QED BY <1>10, <2>1 DEF LiveView, RowsOk
  <1>13. EndsOk(v, H)
    BY <1>2, <1>4 DEF LiveView, EndsOk
  <1>14. StartOk(v, p, H)
    <2> SUFFICES ASSUME NEW j \in DOMAIN H, H[j].type = "welcome" PROVE FALSE
      BY <1>8 DEF StartOk
    <2>1. j + 1 = 1
      BY <1>2 DEF LiveView, StartOk
    <2> QED BY <1>2, <2>1
  <1>15. ~(f.type = "history_cleared" \/ (f.type = "welcome" /\ ~f.resumed)) =>
            Sees(v, n, t, G) /\ (Overtaken(G, 0) <=> Overtaken(G, 1))
    <2> SUFFICES ASSUME ~(f.type = "history_cleared" \/ (f.type = "welcome" /\ ~f.resumed))
                 PROVE  Sees(v, n, t, G) /\ (Overtaken(G, 0) <=> Overtaken(G, 1))
      OBVIOUS
    <2>1. Keeps(n, G)
      BY <1>8
    <2>2. Overtaken(G, 1) => Overtaken(G, 0)
      BY <1>2 DEF Overtaken
    <2>3. Overtaken(G, 0) => Overtaken(G, 1)
      <3> SUFFICES ASSUME NEW l \in DOMAIN G, l > 0, G[l].type = "history_cleared"
                   PROVE  Overtaken(G, 1)
        BY DEF Overtaken
      <3>1. l # 1 /\ l \in Nat
        BY <1>2 DEF f
      <3>2. l > 1
        BY <3>1
      <3> QED BY <3>2 DEF Overtaken
    <2> QED BY <2>1, <2>2, <2>3 DEF LiveView
  <1>16. Overtaken(H, 0) <=> Overtaken(G, 1)
    BY <1>4
  <1>17. /\ Overtaken(H, 0) => p.instance[1] # v.instance
         /\ ~Overtaken(H, 0) => p.instance[1] = v.instance /\ p.instance[2] <= v.epoch
    <2>1. CASE Dated(f)
      BY <1>1, <1>5, <1>16, <2>1 DEF LiveView, DatesOk, f
    <2>2. CASE ~Dated(f)
      <3>1. Sees(v, n, t, G) /\ (Overtaken(G, 0) <=> Overtaken(G, 1))
        BY <1>15, <2>2 DEF Dated
      <3> QED BY <1>5, <1>16, <2>2, <3>1 DEF Sees
    <2> QED BY <2>1, <2>2
  <1>18. ~Overtaken(H, 0) => p.cursor <= v.latest
    <2> SUFFICES ASSUME ~Overtaken(G, 1) PROVE p.cursor <= v.latest
      BY <1>16
    <2>0. v.latest \in Nat /\ 0 <= v.latest
      BY DEF Logs
    <2>1. CASE f.type = "sync_complete" /\ (p.cursor = f.through)
      BY <1>1, <2>1 DEF LiveView, EndsOk, f
    <2>2. CASE \E m \in Brought(f) : p.cursor = m.id
      BY <1>1, <2>2 DEF LiveView, RowsOk, Genuine, f
    <2>3. CASE p.cursor \in {0, n.cursor}
      <3>1. CASE f.type = "history_cleared" \/ (f.type = "welcome" /\ ~f.resumed)
        BY <1>5, <2>0, <3>1
      <3>2. CASE ~(f.type = "history_cleared" \/ (f.type = "welcome" /\ ~f.resumed))
        BY <1>15, <2>0, <2>3, <3>2 DEF Sees
      <3> QED BY <3>1, <3>2
    <2> QED BY <1>5, <2>1, <2>2, <2>3
  <1>19. ~LateCancel => \A m \in q.messages : Genuine(v, p, H, 0, m)
    <2> SUFFICES ASSUME ~LateCancel, NEW m \in q.messages PROVE Genuine(v, p, H, 0, m)
      OBVIOUS
    <2>1. CASE m \in Brought(f)
      <3>1. Genuine(v, n, G, 1, m) /\ m \in Row
        BY <1>1, <1>3, <2>1, FrameTyped DEF LiveView, RowsOk, f
      <3> QED BY <1>21, <3>1
    <2>2. CASE m \in t.messages /\ (f.type = "recalled" => m.id # f.message.id)
      <3>1. Sees(v, n, t, G) /\ (Overtaken(G, 0) <=> Overtaken(G, 1)) /\ m \in Row
        BY <1>7, <1>15, <2>2 DEF Models
      <3>2. Genuine(v, n, G, 0, m)
        BY <2>2, <3>1 DEF Sees
      <3>3. Mended(n, G, 0, m) => Mended(n, G, 1, m)
        <4> SUFFICES ASSUME Mended(n, G, 0, m) PROVE Mended(n, G, 1, m)
          OBVIOUS
        <4>1. PICK l \in DOMAIN G :
                /\ l > 0 /\ G[l].type = "recalled" /\ G[l].message.id = m.id
                /\ n.instance[2] < G[l].instance[2]
                /\ \A o \in DOMAIN G :
                      (o < l /\ Dated(G[o])) => G[o].instance[2] < G[l].instance[2]
          BY DEF Mended
        <4>2. l # 1
          BY <2>2, <4>1 DEF f
        <4>3. l > 1
          BY <1>2, <4>1, <4>2
        <4> QED BY <4>1, <4>3 DEF Mended
      <3>4. Genuine(v, n, G, 1, m)
        BY <3>1, <3>2, <3>3 DEF Genuine
      <3> QED BY <1>21, <3>1, <3>4
    <2> QED BY <1>7, <2>1, <2>2
  <1>20. LiveView(v, p, q, H)
    BY <1>11, <1>12, <1>13, <1>14, <1>17, <1>18, <1>19 DEF LiveView, Sees
  <1> QED BY <1>20 DEF H

\* What a live session has yet to tell makes up for all that is stale, so a
\* client of the current instance has nothing stale.
LEMMA LiveBase ==
    ASSUME NEW v \in Logs, NEW n \in Networks, NEW t \in Models,
           NEW G \in Seq(Frames), LiveView(v, n, t, G), v.instance <= v.drawn, v.epoch <= v.drawn
    PROVE  n.instance = <<v.instance, v.epoch>> =>
              n.cursor <= v.latest /\ (~LateCancel => t.messages \subseteq v.rows)
  <1> SUFFICES ASSUME n.instance = <<v.instance, v.epoch>>
               PROVE  n.cursor <= v.latest /\ (~LateCancel => t.messages \subseteq v.rows)
    OBVIOUS
  <1>1. n.instance[1] = v.instance /\ n.instance[2] = v.epoch /\ v.epoch \in Nat
    BY DEF Logs
  <1>2. Keeps(n, G)
    BY DEF LiveView, StartOk, Keeps
  <1>3. Sees(v, n, t, G)
    BY <1>2 DEF LiveView
  <1>4. ~Overtaken(G, 0)
    BY <1>1, <1>3 DEF Sees
  <1>5. \A m : ~Mended(n, G, 0, m)
    <2> SUFFICES ASSUME NEW l \in DOMAIN G, G[l].type = "recalled",
                        n.instance[2] < G[l].instance[2]
                 PROVE  FALSE
      BY DEF Mended
    <2>1. l > 0 /\ l \in Nat /\ G[l] \in Frames
      OBVIOUS
    <2>2. ~Overtaken(G, l)
      BY <1>4, <2>1 DEF Overtaken
    <2>3. G[l].instance[2] <= v.epoch /\ G[l].instance[2] \in Nat
      BY <2>1, <2>2, FrameTyped DEF LiveView, DatesOk, Dated
    <2> QED BY <1>1, <2>3
  <1> QED BY <1>3, <1>4, <1>5 DEF Sees, Genuine

-----------------------------------------------------------------------------
(* Streams of sessions *)

\* Frames of P are put into a stream behind A.
LEMMA WovenInto ==
    ASSUME NEW S, NEW A \in Seq(S), NEW N \in Seq(S), NEW D \in Seq(S), NEW P, NEW w,
           \A k \in DOMAIN N : N[k] \in P, w => A # <<>>
    PROVE  Woven((A \o N) \o D, A \o D, P, w)
  <1> DEFINE G == A \o D
             H == (A \o N) \o D
             a == Len(A)
             b == Len(N)
             c == Len(D)
             e == [k \in DOMAIN G |-> IF k <= a THEN k ELSE k + b]
  <1>1. a \in Nat /\ b \in Nat /\ c \in Nat
    BY LenProperties
  <1>2. /\ DOMAIN G = 1 .. a + c
        /\ \A k \in 1 .. a + c : G[k] = IF k <= a THEN A[k] ELSE D[k - a]
    OBVIOUS
  <1>3. A \o N \in Seq(S) /\ Len(A \o N) = a + b
        /\ \A k \in 1 .. a + b : (A \o N)[k] = IF k <= a THEN A[k] ELSE N[k - a]
    OBVIOUS
  <1>4. /\ DOMAIN H = 1 .. (a + b) + c
        /\ \A k \in 1 .. (a + b) + c : H[k] = IF k <= a + b THEN (A \o N)[k] ELSE D[k - (a + b)]
    BY <1>3
  <1>5. DOMAIN N = 1 .. b
    OBVIOUS
  <1>6. w => a > 0
    <2>1. A # <<>> => Len(A) \in Nat \ {0}
      BY EmptySeq
    <2> QED BY <2>1
  <1> HIDE DEF G, H, a, b, c
  <1>7. \A k \in DOMAIN G : e[k] = IF k <= a THEN k ELSE k + b
    OBVIOUS
  <1>8. e \in [DOMAIN G -> DOMAIN H]
    <2>1. \A k \in DOMAIN G : (IF k <= a THEN k ELSE k + b) \in DOMAIN H
      BY <1>1, <1>2, <1>4
    <2> QED BY <2>1
  <1> HIDE DEF e
  <1>9. \A k, l \in DOMAIN G : k < l => e[k] < e[l]
    BY <1>1, <1>2, <1>7
  <1>10. \A k \in DOMAIN G : H[e[k]] = G[k]
    <2> SUFFICES ASSUME NEW k \in DOMAIN G PROVE H[e[k]] = G[k]
      OBVIOUS
    <2>1. k \in Nat /\ k > 0 /\ k <= a + c
      BY <1>1, <1>2
    <2>2. CASE k <= a
      <3>1. e[k] = k /\ k \in 1 .. (a + b) + c /\ k \in 1 .. a + b /\ k <= a + b
        BY <1>1, <1>7, <2>1, <2>2
      <3>2. H[k] = A[k]
        BY <1>3, <1>4, <2>2, <3>1
      <3> QED BY <1>2, <2>2, <3>1, <3>2
    <2>3. CASE ~(k <= a)
      <3>1. e[k] = k + b /\ k + b \in 1 .. (a + b) + c /\ ~(k + b <= a + b)
            /\ (k + b) - (a + b) = k - a
        BY <1>1, <1>7, <2>1, <2>3
      <3>2. H[k + b] = D[k - a]
        BY <1>4, <3>1
      <3> QED BY <1>2, <2>3, <3>1, <3>2
    <2> QED BY <2>2, <2>3
  <1>11. \A k \in DOMAIN H : H[k] \in P \/ \E l \in DOMAIN G : e[l] = k
    <2> SUFFICES ASSUME NEW k \in DOMAIN H PROVE H[k] \in P \/ \E l \in DOMAIN G : e[l] = k
      OBVIOUS
    <2>1. k \in Nat /\ k > 0 /\ k <= (a + b) + c
      BY <1>1, <1>4
    <2>2. CASE k <= a
      <3>1. k \in DOMAIN G
        BY <1>1, <1>2, <2>1, <2>2
      <3> QED BY <1>7, <2>2, <3>1
    <2>3. CASE ~(k <= a) /\ k <= a + b
      <3>1. k \in 1 .. a + b /\ k - a \in DOMAIN N
        BY <1>1, <1>5, <2>1, <2>3
      <3>2. H[k] = N[k - a]
        BY <1>3, <1>4, <2>3, <3>1
      <3> QED BY <3>1, <3>2
    <2>4. CASE ~(k <= a + b)
      <3>1. k - b \in DOMAIN G /\ ~(k - b <= a) /\ (k - b) + b = k
        BY <1>1, <1>2, <2>1, <2>4
      <3>2. e[k - b] = k
        BY <1>7, <3>1
      <3> QED BY <3>1, <3>2
    <2> QED BY <2>2, <2>3, <2>4
  <1>12. w => 1 \in DOMAIN G /\ e[1] = 1
    <2> SUFFICES ASSUME w PROVE 1 \in DOMAIN G /\ e[1] = 1
      OBVIOUS
    <2>1. 1 \in DOMAIN G /\ 1 <= a
      BY <1>1, <1>2, <1>6
    <2> QED BY <1>7, <2>1
  <1>13. Woven(H, G, P, w)
    BY <1>8, <1>9, <1>10, <1>11, <1>12 DEF Woven
  <1> QED BY <1>13 DEF G, H

\* A stream is a sequence of frames,
LEMMA StreamTyped ==
    ASSUME NEW k \in Nat, NEW s \in SessionsOf(k)
    PROVE  /\ s.outgoing \in Seq(Frames) /\ s.deferred \in Seq(Frames) /\ Stream(s) \in Seq(Frames)
           /\ Stream(s) \in Seq(SoundFrames(k))
           /\ s.outgoing \in Seq(SoundFrames(k)) /\ s.deferred \in Seq(SoundFrames(k))
           /\ s.deferred = <<>> => Stream(s) = s.outgoing
  <1>1. s.outgoing \in Seq(SoundFrames(k)) /\ s.deferred \in Seq(SoundFrames(k))
    BY DEF SessionsOf
  <1>2. s.outgoing \in Seq(Frames) /\ s.deferred \in Seq(Frames)
    BY DEF SessionsOf, Sessions
  <1>3. s.deferred = <<>> => Stream(s) = s.outgoing
    BY <1>1, ConcatEmptySeq DEF Stream
  <1> QED BY <1>1, <1>2, <1>3, ConcatProperties DEF Stream

\* What a session that lives on has in its stream after a frame was queued for it.
LEMMA EnqueueStream ==
    ASSUME NEW k \in Nat, NEW s \in SessionsOf(k), NEW f \in SoundFrames(k),
           NEW x, x = Enqueue(s, f)
    PROVE  /\ x \in SessionsOf(k)
           /\ Active(x) => Active(s)
           /\ x.room = s.room /\ x.syncing = s.syncing /\ x.through = s.through
           /\ x.deferred = s.deferred
           /\ Active(x) => x.outgoing = s.outgoing \o <<f>>
  <1>1. /\ x \in SessionsOf(k) /\ Grows(x, s) /\ x.deferred = s.deferred
        /\ x.live => x.outgoing = s.outgoing \o <<f>>
    BY EnqueueOne
  <1> QED BY <1>1 DEF Grows, Active

\* The same for news, which waits during the catching up.
LEMMA DeliverStream ==
    ASSUME NEW k \in Nat, NEW s \in SessionsOf(k), NEW f \in SoundFrames(k),
           NEW x, x = Deliver(s, f)
    PROVE  /\ x \in SessionsOf(k)
           /\ Active(x) => Active(s)
           /\ x.room = s.room /\ x.syncing = s.syncing /\ x.through = s.through
           /\ s.syncing => x.outgoing = s.outgoing
           /\ (Active(x) /\ s.syncing) => x.deferred = Append(s.deferred, f)
           /\ ~s.syncing => x.deferred = s.deferred
           /\ (Active(x) /\ ~s.syncing) => x.outgoing = s.outgoing \o <<f>>
  <1>1. x \in SessionsOf(k)
    BY DeliverTyped
  <1>2. CASE ~s.syncing
    <2>1. x = Enqueue(s, f)
      BY <1>2 DEF Deliver
    <2> QED BY <1>2, <2>1, EnqueueStream
  <1>3. CASE s.syncing
    <2>1. /\ s.phase = "serving" /\ s \in Sessions
          /\ "live" \in DOMAIN s /\ "deferred" \in DOMAIN s
      BY DEF SessionsOf, Sessions
    <2>2. CASE Len(s.deferred) >= DeferCap
      <3>1. x = [s EXCEPT !.live = FALSE]
        BY <1>3, <2>2 DEF Deliver
      <3>2. /\ x.live = FALSE /\ x.room = s.room /\ x.syncing = s.syncing /\ x.through = s.through
            /\ x.outgoing = s.outgoing
        BY <2>1, <3>1 DEF Sessions
      <3> QED BY <1>1, <1>3, <3>2 DEF Active
    <2>3. CASE ~(Len(s.deferred) >= DeferCap)
      <3>1. x = [s EXCEPT !.deferred = Append(s.deferred, f)]
        BY <1>3, <2>3 DEF Deliver
      <3>2. /\ x.live = s.live /\ x.room = s.room /\ x.syncing = s.syncing /\ x.through = s.through
            /\ x.outgoing = s.outgoing /\ x.phase = s.phase
            /\ x.deferred = Append(s.deferred, f)
        BY <2>1, <3>1 DEF Sessions
      <3> QED BY <1>1, <1>3, <3>2 DEF Active
    <2> QED BY <2>2, <2>3
  <1> QED BY <1>2, <1>3

-----------------------------------------------------------------------------
(* A session is told how things are *)

\* A frame that says how things are is put at the end of a stream,
LEMMA PlainAppended ==
    ASSUME NEW v \in Logs, NEW n \in Networks, NEW t \in Models,
           NEW G \in Seq(Frames), NEW f \in Plain(v), LiveView(v, n, t, G)
    PROVE  LiveView(v, n, t, Append(G, f))
  <1>1. f \in Frames /\ <<>> \in Seq(Frames) /\ <<f>> \in Seq(Frames)
    BY EmptySeq DEF Plain
  <1>2. ~n.welcomed => G # <<>>
    BY DEF LiveView, StartOk
  <1>3. \A k \in DOMAIN <<f>> : <<f>>[k] \in Plain(v)
    OBVIOUS
  <1>4. Woven((G \o <<f>>) \o <<>>, G \o <<>>, Plain(v), ~n.welcomed)
    <2> DEFINE w == ~n.welcomed
               P == Plain(v)
    <2>1. \A k \in DOMAIN <<f>> : <<f>>[k] \in P
      BY <1>3
    <2>2. w => G # <<>>
      BY <1>2
    <2> HIDE DEF w, P
    <2>3. Woven((G \o <<f>>) \o <<>>, G \o <<>>, P, w)
      BY <1>1, <2>1, <2>2, WovenInto
    <2> QED BY <2>3 DEF w, P
  <1>5. G \o <<f>> = Append(G, f) /\ Append(G, f) \in Seq(Frames)
    BY <1>1, AppendIsConcat, AppendProperties
  <1>6. (G \o <<f>>) \o <<>> = Append(G, f) /\ G \o <<>> = G
    BY <1>5, ConcatEmptySeq
  <1>7. Woven(Append(G, f), G, Plain(v), ~n.welcomed)
    BY <1>4, <1>6
  <1> QED BY <1>5, <1>7, WovenKeeps

\* or in front of the news held back,
LEMMA EnqueuePlain ==
    ASSUME NEW k \in Nat, NEW r, NEW v \in Logs, NEW n \in Networks, NEW t \in Models,
           NEW s \in SessionsOf(k), Faithful(r, v, n, t, s),
           NEW f \in SoundFrames(k), Active(s) => f \in Plain(v),
           NEW x, x = Enqueue(s, f)
    PROVE  Faithful(r, v, n, t, x)
  <1> SUFFICES ASSUME Active(x) PROVE Faithful(r, v, n, t, x)
    BY DEF Faithful
  <1>1. /\ x \in SessionsOf(k) /\ Active(s)
        /\ x.room = s.room /\ x.syncing = s.syncing /\ x.through = s.through
        /\ x.deferred = s.deferred /\ x.outgoing = s.outgoing \o <<f>>
    BY EnqueueStream
  <1>2. s.outgoing \in Seq(Frames) /\ s.deferred \in Seq(Frames) /\ Stream(s) \in Seq(Frames)
    BY StreamTyped
  <1>3. f \in Plain(v) /\ f \in Frames
    BY <1>1 DEF SoundFrames
  <1>4. <<f>> \in Seq(Frames)
    BY <1>3
  <1>5. /\ s.room = r /\ (s.syncing => s.through <= v.latest) /\ (~s.syncing => s.deferred = <<>>)
        /\ (~n.welcomed => s.outgoing # <<>>) /\ LiveView(v, n, t, Stream(s))
    BY <1>1 DEF Faithful
  <1>6. Woven(Stream(x), Stream(s), Plain(v), ~n.welcomed)
    <2> DEFINE w == ~n.welcomed
               P == Plain(v)
               A == s.outgoing
               D == s.deferred
               N == <<f>>
    <2>1. \A l \in DOMAIN N : N[l] \in P
      BY <1>3
    <2>2. (w => A # <<>>) /\ A \in Seq(Frames) /\ D \in Seq(Frames) /\ N \in Seq(Frames)
      BY <1>2, <1>4, <1>5
    <2>3. Stream(x) = (A \o N) \o D /\ Stream(s) = A \o D
      BY <1>1 DEF Stream
    <2> HIDE DEF w, P, A, D, N
    <2>4. Woven((A \o N) \o D, A \o D, P, w)
      BY <2>1, <2>2, WovenInto
    <2> QED BY <2>3, <2>4 DEF w, P
  <1>7. Stream(x) \in Seq(Frames)
    BY <1>1, StreamTyped
  <1>8. LiveView(v, n, t, Stream(x))
    BY <1>2, <1>5, <1>6, <1>7, WovenKeeps
  <1>9. x.outgoing # <<>>
    <2>1. s.outgoing \o <<f>> = Append(s.outgoing, f)
      BY <1>2, <1>3, AppendIsConcat
    <2>2. Append(s.outgoing, f) # <<>>
      BY <1>2, <1>3, AppendProperties
    <2> QED BY <1>1, <2>1, <2>2
  <1> QED BY <1>1, <1>5, <1>8, <1>9 DEF Faithful

\* News held back is put at the end of the stream.
LEMMA DeferredStream ==
    ASSUME NEW A \in Seq(Frames), NEW D \in Seq(Frames), NEW f \in Frames
    PROVE  A \o Append(D, f) = Append(A \o D, f)
  <1>1. Append(D, f) = D \o <<f>> /\ <<f>> \in Seq(Frames)
    BY AppendIsConcat
  <1>2. A \o D \in Seq(Frames)
    BY ConcatProperties
  <1>3. Append(A \o D, f) = (A \o D) \o <<f>>
    BY <1>2, AppendIsConcat
  <1> QED BY <1>1, <1>3, ConcatAssociative

\* News is the last that a session has to tell, whether it is held back or not.
LEMMA DeliverAppends ==
    ASSUME NEW k \in Nat, NEW s \in SessionsOf(k), NEW f \in SoundFrames(k),
           ~s.syncing => s.deferred = <<>>, NEW x, x = Deliver(s, f), Active(x)
    PROVE  /\ x \in SessionsOf(k) /\ Active(s)
           /\ x.room = s.room /\ x.syncing = s.syncing /\ x.through = s.through
           /\ ~x.syncing => x.deferred = <<>>
           /\ s.outgoing # <<>> => x.outgoing # <<>>
           /\ Stream(x) = Append(Stream(s), f)
  <1>1. /\ x \in SessionsOf(k) /\ Active(s)
        /\ x.room = s.room /\ x.syncing = s.syncing /\ x.through = s.through
        /\ s.syncing => x.outgoing = s.outgoing
        /\ s.syncing => x.deferred = Append(s.deferred, f)
        /\ ~s.syncing => x.deferred = s.deferred
        /\ ~s.syncing => x.outgoing = s.outgoing \o <<f>>
    BY DeliverStream
  <1>2. s.outgoing \in Seq(Frames) /\ s.deferred \in Seq(Frames) /\ f \in Frames
    BY StreamTyped DEF SoundFrames
  <1>4. CASE s.syncing
    <2>1. Stream(x) = Append(Stream(s), f)
      <3>1. x.outgoing = s.outgoing /\ x.deferred = Append(s.deferred, f)
        BY <1>1, <1>4
      <3>2. s.outgoing \o Append(s.deferred, f) = Append(s.outgoing \o s.deferred, f)
        BY <1>2, DeferredStream
      <3> QED BY <3>1, <3>2 DEF Stream
    <2> QED BY <1>1, <1>4, <2>1
  <1>5. CASE ~s.syncing
    <2>1. s.outgoing \o <<f>> = Append(s.outgoing, f) /\ Append(s.outgoing, f) # <<>>
          /\ Append(s.outgoing, f) \in Seq(Frames)
      BY <1>2, AppendIsConcat, AppendProperties
    <2>2. Stream(s) = s.outgoing /\ Stream(x) = x.outgoing
      <3>1. x.deferred = <<>> /\ s.deferred = <<>>
        BY <1>1, <1>5
      <3> QED BY <1>1, <3>1, StreamTyped
    <2> QED BY <1>1, <1>5, <2>1, <2>2
  <1> QED BY <1>4, <1>5

\* News that says how things are leaves a session faithful,
LEMMA DeliverPlain ==
    ASSUME NEW k \in Nat, NEW r, NEW v \in Logs, NEW n \in Networks, NEW t \in Models,
           NEW s \in SessionsOf(k), Faithful(r, v, n, t, s),
           NEW f \in SoundFrames(k), Active(s) => f \in Plain(v),
           NEW x, x = Deliver(s, f)
    PROVE  Faithful(r, v, n, t, x)
  <1> SUFFICES ASSUME Active(x) PROVE Faithful(r, v, n, t, x)
    BY DEF Faithful
  <1>0. Active(s) /\ (~s.syncing => s.deferred = <<>>) /\ (~n.welcomed => s.outgoing # <<>>)
    BY DeliverStream DEF Faithful
  <1>1. /\ x \in SessionsOf(k) /\ Active(s)
        /\ x.room = s.room /\ x.syncing = s.syncing /\ x.through = s.through
        /\ ~x.syncing => x.deferred = <<>>
        /\ s.outgoing # <<>> => x.outgoing # <<>>
        /\ Stream(x) = Append(Stream(s), f)
    BY <1>0, DeliverAppends
  <1>2. Stream(s) \in Seq(Frames)
    BY StreamTyped
  <1>3. f \in Plain(v) /\ LiveView(v, n, t, Stream(s)) /\ s.room = r
        /\ (s.syncing => s.through <= v.latest)
    BY <1>1 DEF Faithful
  <1>4. LiveView(v, n, t, Stream(x))
    BY <1>1, <1>2, <1>3, PlainAppended
  <1> QED BY <1>0, <1>1, <1>3, <1>4 DEF Faithful

\* and so does the end of its catching up.
LEMMA FinishPlain ==
    ASSUME NEW k \in Nat, NEW r, NEW v \in Logs, NEW n \in Networks, NEW t \in Models,
           NEW s \in SessionsOf(k), Faithful(r, v, n, t, s), s.syncing,
           NEW x, x = FinishSync(s)
    PROVE  Faithful(r, v, n, t, x)
  <1> SUFFICES ASSUME Active(x) PROVE Faithful(r, v, n, t, x)
    BY DEF Faithful
  <1> DEFINE f == SyncComplete(s.through)
  <1>1. /\ x \in SessionsOf(k) /\ ~x.syncing /\ x.deferred = <<>> /\ s.live /\ x.room = s.room
        /\ x.outgoing = s.outgoing \o (<<f>> \o s.deferred)
    BY FinishTyped DEF Active
  <1>2. Active(s)
    BY <1>1 DEF Active, SessionsOf, Sessions
  <1>3. /\ s.room = r /\ s.through <= v.latest
        /\ (~n.welcomed => s.outgoing # <<>>) /\ LiveView(v, n, t, Stream(s))
    BY <1>2 DEF Faithful
  <1>4. s.outgoing \in Seq(Frames) /\ s.deferred \in Seq(Frames) /\ Stream(s) \in Seq(Frames)
    BY StreamTyped
  <1>5. f \in Frames
    <2>1. s.through \in 0 .. k
      <3>1. s.through \in Nat /\ s.through <= k
        BY DEF SessionsOf, Sessions
      <3> QED BY <3>1
    <2>2. f \in SoundFrames(k)
      BY <2>1, FramesTyped
    <2> QED BY <2>2 DEF SoundFrames
  <1>6. f \in Plain(v)
    <2>1. f.type = "sync_complete" /\ f.through = s.through
      BY DEF SyncComplete
    <2>2. ~Dated(f) /\ Brought(f) = {}
      BY <2>1 DEF Dated, Brought
    <2> HIDE DEF f
    <2> QED BY <1>3, <1>5, <2>1, <2>2 DEF Plain
  <1> HIDE DEF f
  <1>7. Woven(Stream(x), Stream(s), Plain(v), ~n.welcomed)
    <2> DEFINE w == ~n.welcomed
               P == Plain(v)
               A == s.outgoing
               D == s.deferred
               N == <<f>>
    <2>1. \A l \in DOMAIN N : N[l] \in P
      BY <1>6
    <2>2. (w => A # <<>>) /\ A \in Seq(Frames) /\ D \in Seq(Frames) /\ N \in Seq(Frames)
      BY <1>3, <1>4, <1>5
    <2>3. x.outgoing = A \o (N \o D) /\ Stream(s) = A \o D /\ Stream(x) = x.outgoing
      BY <1>1, StreamTyped DEF Stream
    <2> HIDE DEF w, P, A, D, N
    <2>4. Woven((A \o N) \o D, A \o D, P, w)
      BY <2>1, <2>2, WovenInto
    <2>5. (A \o N) \o D = A \o (N \o D)
      BY <2>2, ConcatAssociative
    <2> QED BY <2>3, <2>4, <2>5 DEF w, P
  <1>8. Stream(x) \in Seq(Frames)
    BY <1>1, StreamTyped
  <1>9. LiveView(v, n, t, Stream(x))
    BY <1>3, <1>4, <1>7, <1>8, WovenKeeps
  <1>10. ~n.welcomed => x.outgoing # <<>>
    <2> SUFFICES ASSUME ~n.welcomed PROVE x.outgoing # <<>>
      OBVIOUS
    <2>1. <<f>> \o s.deferred \in Seq(Frames)
      BY <1>4, <1>5, ConcatProperties
    <2> QED BY <1>1, <1>3, <1>4, <2>1, ConcatEqualIffEmpty
  <1> QED BY <1>1, <1>3, <1>9, <1>10 DEF Faithful

-----------------------------------------------------------------------------
(* A session sees its log grow, recalled from and cleared *)

\* The log grows before the session is told.
LEMMA GrowSession ==
    ASSUME NEW k \in Nat, NEW r, NEW v \in Logs, NEW w \in Logs, NEW n \in Networks,
           NEW t \in Models, NEW s \in SessionsOf(k), Faithful(r, v, n, t, s),
           v.rows \subseteq w.rows, v.latest <= w.latest, v.drawn <= w.drawn,
           w.instance = v.instance, w.epoch = v.epoch
    PROVE  Faithful(r, w, n, t, s)
  <1> SUFFICES ASSUME Active(s) PROVE Faithful(r, w, n, t, s)
    BY DEF Faithful
  <1>1. Stream(s) \in Seq(Frames) /\ LiveView(v, n, t, Stream(s))
    BY StreamTyped DEF Faithful
  <1>2. LiveView(w, n, t, Stream(s))
    BY <1>1, GrowKeeps
  <1>3. s.syncing => s.through <= w.latest
    <2>1. s.through \in Nat /\ v.latest \in Nat /\ w.latest \in Nat
      BY DEF SessionsOf, Sessions, Logs
    <2> QED BY <2>1 DEF Faithful
  <1> QED BY <1>2, <1>3 DEF Faithful

\* A session is told of a recall as it happens,
LEMMA DeliverRecall ==
    ASSUME NEW k \in Nat, NEW r, NEW v \in Logs, NEW w \in Logs, NEW n \in Networks,
           NEW t \in Models, NEW s \in SessionsOf(k), Faithful(r, v, n, t, s), Base(v, n, t),
           NEW f \in SoundFrames(k),
           f.type = "recalled", f.message \in w.rows, f.message.id <= w.latest,
           f.instance[1] = w.instance, f.instance[2] = w.epoch,
           w.instance = v.instance, w.latest = v.latest,
           w.instance <= w.drawn, w.epoch <= w.drawn, v.epoch <= v.drawn, v.drawn <= w.drawn,
           w = v \/ w.epoch > v.drawn,
           \A m \in v.rows : m \in w.rows \/ (w # v /\ m.id = f.message.id),
           NEW x, x = Deliver(s, f)
    PROVE  Faithful(r, w, n, t, x)
  <1> SUFFICES ASSUME Active(x) PROVE Faithful(r, w, n, t, x)
    BY DEF Faithful
  <1>0. Active(s) /\ (~s.syncing => s.deferred = <<>>) /\ (~n.welcomed => s.outgoing # <<>>)
        /\ s.room = r /\ (s.syncing => s.through <= v.latest) /\ LiveView(v, n, t, Stream(s))
    BY DeliverStream DEF Faithful
  <1>1. /\ x \in SessionsOf(k) /\ Active(s)
        /\ x.room = s.room /\ x.syncing = s.syncing /\ x.through = s.through
        /\ ~x.syncing => x.deferred = <<>>
        /\ s.outgoing # <<>> => x.outgoing # <<>>
        /\ Stream(x) = Append(Stream(s), f)
    BY <1>0, DeliverAppends
  <1>2. Stream(s) \in Seq(Frames) /\ f \in Frames
    BY StreamTyped DEF SoundFrames
  <1> DEFINE G == Stream(s)
  <1>3. G \in Seq(Frames) /\ LiveView(v, n, t, G)
    BY <1>0, <1>2
  <1> HIDE DEF G
  <1>4. LiveView(w, n, t, Append(G, f))
    BY <1>2, <1>3, RecallTold
  <1>5. LiveView(w, n, t, Stream(x))
    BY <1>1, <1>4 DEF G
  <1> QED BY <1>0, <1>1, <1>5 DEF Faithful

\* What a cleanup leaves of a session.
StartedOver(s) ==
    [s EXCEPT !.syncing = FALSE, !.deferred = <<>>, !.cursor = 0, !.through = 0]

\* or of a cleanup, which drops what was held back.
LEMMA ClearSession ==
    ASSUME NEW k \in Nat, NEW r, NEW v \in Logs, NEW w \in Logs, NEW n \in Networks,
           NEW t \in Models, NEW s \in SessionsOf(k), Faithful(r, v, n, t, s), Base(v, n, t),
           NEW f \in SoundFrames(k),
           f.type = "history_cleared", f.instance[1] = w.instance, f.instance[2] = w.epoch,
           v.drawn < w.instance, w.instance <= w.drawn, w.epoch <= w.drawn,
           NEW x, x = Enqueue(StartedOver(s), f)
    PROVE  x \in SessionsOf(k) /\ Faithful(r, w, n, t, x)
  <1> DEFINE u == StartedOver(s)
  <1>1. /\ u \in SessionsOf(k) /\ ~u.syncing /\ u.deferred = <<>> /\ u.outgoing = s.outgoing
        /\ u.live = s.live /\ u.phase = s.phase /\ u.room = s.room
    <2>1. <<>> \in Seq(Frames) /\ <<>> \in Seq(SoundFrames(k))
      BY EmptySeq
    <2>2. s \in Sessions /\ s.outgoing \in Seq(SoundFrames(k))
      BY DEF SessionsOf
    <2>3. /\ u.syncing = FALSE /\ u.deferred = <<>> /\ u.outgoing = s.outgoing
          /\ u.live = s.live /\ u.phase = s.phase /\ u.room = s.room /\ u.through = 0
      BY <2>2 DEF Sessions, StartedOver
    <2>4. u \in Sessions
      BY <2>1, <2>2 DEF Sessions, StartedOver
    <2> HIDE DEF u
    <2>5. u.outgoing \in Seq(SoundFrames(k)) /\ u.deferred \in Seq(SoundFrames(k)) /\ u.through <= k
      BY <2>1, <2>2, <2>3
    <2>6. u \in SessionsOf(k)
      BY <2>4, <2>5 DEF SessionsOf
    <2> QED BY <2>3, <2>6
  <1>2. x = Enqueue(u, f)
    OBVIOUS
  <1> HIDE DEF u
  <1>3. /\ x \in SessionsOf(k)
        /\ Active(x) => Active(u)
        /\ x.room = u.room /\ x.syncing = u.syncing /\ x.deferred = u.deferred
        /\ Active(x) => x.outgoing = u.outgoing \o <<f>>
    <2>1. u \in SessionsOf(k) /\ f \in SoundFrames(k)
      BY <1>1
    <2> QED BY <2>1, <1>2, EnqueueStream
  <1> SUFFICES ASSUME Active(x) PROVE Faithful(r, w, n, t, x)
    BY <1>3 DEF Faithful
  <1>4. Active(s)
    BY <1>1, <1>3 DEF Active
  <1>5. s.room = r /\ (~n.welcomed => s.outgoing # <<>>) /\ LiveView(v, n, t, Stream(s))
    BY <1>4 DEF Faithful
  <1>6. s.outgoing \in Seq(Frames) /\ s.deferred \in Seq(Frames) /\ Stream(s) \in Seq(Frames)
        /\ f \in Frames
    BY StreamTyped DEF SoundFrames
  <1> DEFINE A == s.outgoing
             G == Stream(s)
  <1>7. Len(A) <= Len(G) /\ \A l \in DOMAIN A : A[l] = G[l]
    <2> DEFINE a == Len(s.outgoing)
               b == Len(s.deferred)
    <2>1. Len(G) = a + b /\ \A l \in 1 .. a + b : l <= a => G[l] = A[l]
      BY <1>6, ConcatProperties DEF Stream
    <2>2. a \in Nat /\ b \in Nat /\ DOMAIN A = 1 .. a /\ Len(A) = a
      BY <1>6, LenProperties
    <2> HIDE DEF A, G, a, b
    <2>3. \A l \in DOMAIN A : l \in 1 .. a + b /\ l <= a
      BY <2>2
    <2> QED BY <2>1, <2>2, <2>3
  <1>8. A \in Seq(Frames) /\ G \in Seq(Frames) /\ LiveView(v, n, t, G) /\ (~n.welcomed => A # <<>>)
    BY <1>5, <1>6
  <1>9. x.outgoing = Append(A, f)
    BY <1>1, <1>3, <1>6, AppendIsConcat
  <1> HIDE DEF A, G
  <1>10. LiveView(w, n, t, Append(A, f))
    BY <1>6, <1>7, <1>8, ClearTold
  <1>11. Stream(x) = x.outgoing
    BY <1>1, <1>3, StreamTyped
  <1>12. x.outgoing # <<>>
    BY <1>6, <1>8, <1>9, AppendProperties
  <1> QED BY <1>1, <1>3, <1>5, <1>9, <1>10, <1>11, <1>12 DEF Faithful

\* Its client reads the first frame.
LEMMA ReadSession ==
    ASSUME NEW k \in Nat, NEW r, NEW v \in Logs, NEW n \in Networks, NEW t \in Models,
           NEW s \in SessionsOf(k), Faithful(r, v, n, t, s), Active(s), s.outgoing # <<>>,
           NEW f, f = s.outgoing[1], NEW x, x = [s EXCEPT !.outgoing = Tail(s.outgoing)]
    PROVE  Faithful(r, v, Received(n, f), Show(t, f), x)
  <1> DEFINE G == Stream(s)
             p == Received(n, f)
             q == Show(t, f)
  <1>1. /\ s.outgoing \in Seq(SoundFrames(k)) /\ s.deferred \in Seq(SoundFrames(k))
        /\ G \in Seq(SoundFrames(k)) /\ G \in Seq(Frames)
    BY StreamTyped
  <1>2. f \in SoundFrames(k) /\ Len(s.outgoing) > 0 /\ Len(s.outgoing) \in Nat
    <2>1. Len(s.outgoing) \in Nat \ {0}
      BY <1>1, EmptySeq
    <2> QED BY <1>1, <2>1, TailFacts
  <1>5. G[1] = f /\ G # <<>>
    <2> DEFINE a == Len(s.outgoing)
               b == Len(s.deferred)
    <2>1. Len(G) = a + b /\ \A l \in 1 .. a + b : l <= a => G[l] = s.outgoing[l]
      BY <1>1, ConcatProperties DEF Stream
    <2>2. a \in Nat /\ b \in Nat /\ a > 0
      BY <1>1, <1>2, LenProperties
    <2> HIDE DEF a, b, G
    <2>3. 1 \in 1 .. a + b /\ 1 <= a /\ Len(G) # 0
      BY <2>1, <2>2
    <2> QED BY <1>1, <2>1, <2>3, EmptySeq
  <1>6. Tail(G) = Tail(s.outgoing) \o s.deferred
    <2> DEFINE A == s.outgoing
               D == s.deferred
    <2>1. A \in Seq(SoundFrames(k)) /\ D \in Seq(SoundFrames(k)) /\ A # <<>> /\ G = A \o D
      BY <1>1 DEF Stream
    <2> HIDE DEF A, D, G
    <2>2. Tail(A \o D) = Tail(A) \o D
      BY <2>1
    <2> QED BY <2>1, <2>2 DEF A, D
  <1>7. LiveView(v, n, t, G)
    BY DEF Faithful
  <1>8. p \in Networks /\ (p.welcomed <=> n.welcomed \/ f.type = "welcome")
    BY <1>2, ReceivedTyped
  <1>9. p = Received(n, G[1]) /\ q = Show(t, G[1])
    BY <1>5
  <1> HIDE DEF G, p, q
  <1>10. LiveView(v, p, q, Tail(G))
    BY <1>1, <1>5, <1>7, <1>8, <1>9, ReadView
  <1>11. p.welcomed
    BY <1>5, <1>7, <1>8 DEF LiveView, StartOk
  <1>12. /\ x.outgoing = Tail(s.outgoing) /\ x.deferred = s.deferred /\ x.room = s.room
         /\ x.syncing = s.syncing /\ x.through = s.through
    BY DEF SessionsOf, Sessions
  <1>13. Stream(x) = Tail(G)
    BY <1>6, <1>12 DEF Stream
  <1>14. Faithful(r, v, p, q, x)
    BY <1>10, <1>11, <1>12, <1>13 DEF Faithful
  <1> QED BY <1>14 DEF p, q

\* Only the instance, the cursor, the messages and the welcome matter of a client.
LEMMA SameFaithful ==
    ASSUME NEW r, NEW v, NEW n, NEW p, NEW t, NEW q, NEW s, Faithful(r, v, n, t, s),
           p.welcomed = n.welcomed, p.instance = n.instance, p.cursor = n.cursor,
           q.messages = t.messages
    PROVE  Faithful(r, v, p, q, s)
  <1> SUFFICES ASSUME Active(s) PROVE Faithful(r, v, p, q, s)
    BY DEF Faithful
  <1> DEFINE G == Stream(s)
  <1>1. LiveView(v, n, t, G)
    BY DEF Faithful
  <1> HIDE DEF G
  <1>2. \A j, m : Mended(n, G, j, m) <=> Mended(p, G, j, m)
    BY DEF Mended
  <1>3. \A j, m : Genuine(v, n, G, j, m) <=> Genuine(v, p, G, j, m)
    BY <1>2 DEF Genuine
  <1>4. DatesOk(v, G) /\ EndsOk(v, G) /\ RowsOk(v, p, G)
    BY <1>1, <1>3 DEF LiveView, RowsOk
  <1>5. StartOk(v, p, G)
    BY <1>1 DEF LiveView, StartOk
  <1>6. Keeps(n, G) <=> Keeps(p, G)
    BY DEF Keeps
  <1>7. Sees(v, n, t, G) => Sees(v, p, q, G)
    BY <1>3 DEF Sees
  <1>8. LiveView(v, p, q, G)
    BY <1>1, <1>4, <1>5, <1>6, <1>7 DEF LiveView
  <1> QED BY <1>8 DEF G, Faithful

-----------------------------------------------------------------------------
(* The log of a room *)

\* The rows of d have ids that were given out.
Counted(d) == d \in Databases /\ \A m \in d.rows : m.id <= d.last

\* A log has its shape, and its last id is that of its last row.
LEMMA LogTyped ==
    ASSUME NEW d, Counted(d), NEW r \in Room
    PROVE  /\ Log(d, r) \in Logs
           /\ \A m \in Log(d, r).rows : m.id <= Log(d, r).latest
           /\ Log(d, r).latest <= d.last
           /\ Log(d, r).rows = {} => Log(d, r).latest = 0
           /\ Log(d, r).rows # {} => \E m \in Log(d, r).rows : Log(d, r).latest = m.id
  <1> DEFINE S == Ids(RoomRows(d, r))
  <1>1. S \in SUBSET Nat /\ \A x \in S : x <= d.last
    BY DEF Ids, RoomRows, Databases, Row, Counted
  <1>2. d.last \in Nat /\ (S # {} <=> RoomRows(d, r) # {}) /\ RoomRows(d, r) \in SUBSET Row
    BY DEF Databases, Ids, Counted, RoomRows
  <1>3. \A m \in RoomRows(d, r) : m.id \in S
    BY DEF Ids
  <1>4. \A x \in S : \E m \in RoomRows(d, r) : x = m.id
    BY DEF Ids
  <1>5. LatestID(d, r) \in Nat /\ LatestID(d, r) <= d.last
        /\ (\A m \in RoomRows(d, r) : m.id <= LatestID(d, r))
        /\ (RoomRows(d, r) = {} => LatestID(d, r) = 0)
        /\ (RoomRows(d, r) # {} => \E m \in RoomRows(d, r) : LatestID(d, r) = m.id)
    <2>1. CASE S = {}
      <3>1. LatestID(d, r) = 0
        BY <1>2, <2>1 DEF LatestID
      <3> QED BY <1>2, <1>3, <2>1, <3>1
    <2>2. CASE S # {}
      <3>1. LatestID(d, r) = Max(S)
        BY <1>2, <2>2 DEF LatestID
      <3> HIDE DEF S
      <3>2. Max(S) \in S /\ \A x \in S : x <= Max(S)
        BY <1>1, <1>2, <2>2, MaxOf
      <3> QED BY <1>1, <1>2, <1>3, <1>4, <2>2, <3>1, <3>2
    <2> QED BY <2>1, <2>2
  <1>6. d.instance \in Nat /\ d.epoch[r] \in Nat /\ d.drawn \in Nat
    BY DEF Counted, Databases
  <1> HIDE DEF S
  <1>7. Log(d, r) \in Logs
    BY <1>2, <1>5, <1>6 DEF Log, Logs
  <1> QED BY <1>5, <1>7 DEF Log

\* The log grows, and keeps its instance.
Grew(v, w) ==
    /\ v.rows \subseteq w.rows /\ v.latest <= w.latest /\ v.drawn <= w.drawn
    /\ w.instance = v.instance /\ w.epoch = v.epoch

\* The log gets an instance that was never there before.
Renewed(v, w) == v.drawn <= w.drawn /\ (w.instance > v.drawn \/ w.epoch > v.drawn)

\* A client stays safe while the log grows or gets another instance.
LEMMA BaseKept ==
    ASSUME NEW v \in Logs, NEW w \in Logs, NEW n \in Networks, NEW t \in Models,
           Base(v, n, t), Grew(v, w) \/ Renewed(v, w)
    PROVE  Base(w, n, t)
  <1>1. /\ v.latest \in Nat /\ w.latest \in Nat /\ v.drawn \in Nat /\ w.drawn \in Nat
        /\ w.instance \in Nat /\ w.epoch \in Nat /\ n.cursor \in Nat
    BY DEF Logs, Networks
  <1>2. n.instance[1] \in Nat /\ n.instance[2] \in Nat
    BY DEF Networks, InstanceIDs
  <1>3. v.drawn <= w.drawn
    BY DEF Grew, Renewed
  <1>4. n.instance[1] <= w.drawn /\ n.instance[2] <= w.drawn
    BY <1>1, <1>2, <1>3 DEF Base
  <1>5. CASE Grew(v, w)
    BY <1>1, <1>4, <1>5 DEF Base, Grew
  <1>6. CASE Renewed(v, w)
    <2>1. n.instance # <<w.instance, w.epoch>>
      BY <1>1, <1>2, <1>6 DEF Base, Renewed
    <2> QED BY <1>4, <2>1 DEF Base
  <1> QED BY <1>5, <1>6

\* A room that is opened changes no log,
LEMMA OpenLog ==
    ASSUME NEW d, Counted(d), NEW r \in Room, NEW q \in Room
    PROVE  /\ Log(OpenRoom(d, r), q) = Log(d, q) /\ Counted(OpenRoom(d, r))
           /\ DrawnIn(d) => DrawnIn(OpenRoom(d, r))
  <1> DEFINE e == OpenRoom(d, r)
  <1>1. /\ e \in Databases /\ e.rows = d.rows /\ e.last = d.last /\ e.instance = d.instance
        /\ e.epoch = d.epoch /\ e.drawn = d.drawn
    BY DEF OpenRoom, Databases, Counted
  <1> HIDE DEF e
  <1>2. RoomRows(e, q) = RoomRows(d, q) /\ LatestID(e, q) = LatestID(d, q)
    BY <1>1 DEF RoomRows, LatestID
  <1>3. Log(e, q) = Log(d, q) /\ Counted(e) /\ (DrawnIn(d) => DrawnIn(e))
    BY <1>1, <1>2 DEF Log, Counted, DrawnIn
  <1> QED BY <1>3 DEF e

\* a message makes the log of its room grow,
LEMMA AppendLog ==
    ASSUME NEW d, Counted(d), NEW r \in Room, NEW o \in Owner, NEW q \in Room,
           NEW e, e = AppendChat(d, r, o)
    PROVE  /\ Counted(e) /\ (DrawnIn(d) => DrawnIn(e))
           /\ Grew(Log(d, q), Log(e, q))
           /\ NewRow(d, r, o) \in Log(e, r).rows /\ NewRow(d, r, o) \in Row
           /\ NewRow(d, r, o).id <= e.last
           /\ e.last = d.last + 1
  <1> DEFINE x == NewRow(d, r, o)
  <1>1. x \in Row /\ x.id = d.last + 1 /\ x.room = r /\ d.last \in Nat
    BY DEF NewRow, Row, Counted, Databases
  <1> HIDE DEF x
  <1>2. /\ e \in Databases /\ e.rows = d.rows \cup {x} /\ e.last = d.last + 1
        /\ e.instance = d.instance /\ e.epoch = d.epoch /\ e.drawn = d.drawn
    <2>1. d \in Databases /\ d.last + 1 \in Nat
      BY <1>1 DEF Counted
    <2>2. e = [d EXCEPT !.rooms = d.rooms \cup {r}, !.rows = d.rows \cup {x}, !.last = d.last + 1]
      BY <2>1 DEF AppendChat, Databases, x
    <2>3. d.rows \cup {x} \in SUBSET Row /\ d.rooms \cup {r} \in SUBSET Room
      BY <1>1, <2>1 DEF Databases
    <2>4. e \in Databases
      BY <2>1, <2>2, <2>3 DEF Databases
    <2>5. e.rows = d.rows \cup {x} /\ e.last = d.last + 1
      BY <2>1, <2>2 DEF Databases
    <2>6. e.instance = d.instance /\ e.epoch = d.epoch /\ e.drawn = d.drawn
      BY <2>1, <2>2 DEF Databases
    <2> QED BY <2>4, <2>5, <2>6
  <1>3. Counted(e) /\ (DrawnIn(d) => DrawnIn(e))
    <2>1. \A m \in d.rows : m.id \in Nat
      BY DEF Counted, Databases, Row
    <2> QED BY <1>1, <1>2, <2>1 DEF Counted, DrawnIn
  <1>4. RoomRows(d, q) \subseteq RoomRows(e, q) /\ x \in RoomRows(e, r)
    BY <1>1, <1>2 DEF RoomRows
  <1>5. LatestID(d, q) <= LatestID(e, q)
    <2> DEFINE v == Log(d, q)
               w == Log(e, q)
    <2>1. /\ v \in Logs /\ w \in Logs
          /\ \A m \in w.rows : m.id <= w.latest
          /\ v.rows = {} => v.latest = 0
          /\ v.rows # {} => \E m \in v.rows : v.latest = m.id
      BY <1>3, LogTyped
    <2>2. v.rows \subseteq w.rows /\ v.latest = LatestID(d, q) /\ w.latest = LatestID(e, q)
      BY <1>4 DEF Log
    <2> HIDE DEF v, w
    <2>3. v.latest <= w.latest
      BY <2>1, <2>2 DEF Logs
    <2> QED BY <2>2, <2>3
  <1>6. Grew(Log(d, q), Log(e, q)) /\ x \in Log(e, r).rows
    <2>1. d.drawn \in Nat
      BY DEF Counted, Databases
    <2> QED BY <1>2, <1>4, <1>5, <2>1 DEF Grew, Log
  <1> QED BY <1>1, <1>2, <1>3, <1>6 DEF x

\* a recall draws a new epoch for its room,
LEMMA RecallLog ==
    ASSUME NEW d, Counted(d), DrawnIn(d), NEW m \in d.rows, NEW q \in Room,
           NEW e, e = RecallRow(d, m), NEW v, v = Log(d, q), NEW w, w = Log(e, q),
           NEW shown, shown = [m EXCEPT !.recalled = TRUE]
    PROVE  /\ Counted(e) /\ DrawnIn(e) /\ e.last = d.last
           /\ shown \in Row /\ shown.id = m.id
           /\ q # m.room => Grew(v, w)
           /\ q = m.room =>
                 /\ Renewed(v, w) /\ w.epoch > v.drawn
                 /\ w.instance = v.instance /\ w.latest = v.latest
                 /\ shown \in w.rows
                 /\ \A x \in v.rows : x \in w.rows \/ x.id = m.id
  <1>1. /\ m \in Row /\ shown \in Row /\ shown.id = m.id /\ shown.room = m.room
        /\ m.room \in Room
    BY DEF Counted, Databases, Row
  <1>2. /\ e \in Databases /\ e.rows = (d.rows \ {m}) \cup {shown} /\ e.last = d.last
        /\ e.instance = d.instance /\ e.drawn = d.drawn + 1
        /\ e.epoch = [d.epoch EXCEPT ![m.room] = d.drawn + 1]
    <2>1. d \in Databases /\ d.drawn + 1 \in Nat
      BY DEF Counted, Databases
    <2> DEFINE ep == [d.epoch EXCEPT ![m.room] = d.drawn + 1]
    <2>2. ep \in [Room -> Nat]
      BY <1>1, <2>1 DEF Databases
    <2>3. e = [d EXCEPT !.rows = (d.rows \ {m}) \cup {shown}, !.epoch = ep, !.drawn = d.drawn + 1]
      BY <2>1 DEF RecallRow, Databases
    <2> HIDE DEF ep
    <2>4. (d.rows \ {m}) \cup {shown} \in SUBSET Row
      BY <1>1, <2>1 DEF Databases
    <2>5. e \in Databases
      BY <2>1, <2>2, <2>3, <2>4 DEF Databases
    <2>6. e.rows = (d.rows \ {m}) \cup {shown} /\ e.last = d.last /\ e.instance = d.instance
      BY <2>1, <2>3 DEF Databases
    <2>7. e.drawn = d.drawn + 1 /\ e.epoch = ep
      BY <2>1, <2>3 DEF Databases
    <2> QED BY <2>5, <2>6, <2>7 DEF ep
  <1>3. /\ d.drawn \in Nat /\ d.epoch \in [Room -> Nat] /\ d.instance \in Nat
    BY DEF Counted, Databases
  <1>4. Counted(e)
    BY <1>1, <1>2 DEF Counted
  <1>5. \A p \in Room : e.epoch[p] = IF p = m.room THEN d.drawn + 1 ELSE d.epoch[p]
    BY <1>2, <1>3
  <1>6. DrawnIn(e)
    BY <1>2, <1>3, <1>5 DEF DrawnIn
  <1>7. q # m.room => RoomRows(e, q) = RoomRows(d, q)
    BY <1>1, <1>2 DEF RoomRows
  <1>8. q = m.room => RoomRows(e, q) = (RoomRows(d, q) \ {m}) \cup {shown} /\ m \in RoomRows(d, q)
    BY <1>1, <1>2 DEF RoomRows
  <1>9. Ids(RoomRows(e, q)) = Ids(RoomRows(d, q))
    BY <1>1, <1>7, <1>8 DEF Ids
  <1>10. LatestID(e, q) = LatestID(d, q)
    <2>1. RoomRows(e, q) = {} <=> RoomRows(d, q) = {}
      BY <1>7, <1>8
    <2> QED BY <1>9, <2>1 DEF LatestID
  <1>11. /\ v.rows = RoomRows(d, q) /\ w.rows = RoomRows(e, q) /\ v.latest = LatestID(d, q)
         /\ w.latest = LatestID(e, q) /\ v.instance = d.instance /\ w.instance = e.instance
         /\ v.epoch = d.epoch[q] /\ w.epoch = e.epoch[q] /\ v.drawn = d.drawn /\ w.drawn = e.drawn
    BY DEF Log
  <1>12. v.latest \in Nat
    BY LogTyped DEF Logs
  <1>13. q # m.room => Grew(v, w)
    BY <1>2, <1>3, <1>5, <1>7, <1>10, <1>11, <1>12 DEF Grew
  <1>14. q = m.room => Renewed(v, w) /\ w.epoch > v.drawn
    BY <1>2, <1>3, <1>5, <1>11 DEF Renewed
  <1>15. q = m.room => shown \in w.rows /\ \A x \in v.rows : x \in w.rows \/ x.id = m.id
    BY <1>8, <1>11
  <1> QED BY <1>1, <1>2, <1>4, <1>6, <1>10, <1>11, <1>13, <1>14, <1>15

\* and a cleanup a new instance for all.
LEMMA ClearLog ==
    ASSUME NEW d, Counted(d), DrawnIn(d), NEW q \in Room,
           NEW e, e = ClearAll(d), NEW v, v = Log(d, q), NEW w, w = Log(e, q)
    PROVE  /\ Counted(e) /\ DrawnIn(e) /\ e.last = d.last
           /\ Renewed(v, w) /\ v.drawn < w.instance /\ w.instance <= w.drawn /\ w.epoch <= w.drawn
  <1>1. d.drawn \in Nat /\ [r \in Room |-> 0] \in [Room -> Nat]
    BY DEF Counted, Databases
  <1>2. /\ e \in Databases /\ e.rows = {} /\ e.last = d.last /\ e.instance = d.drawn + 1
        /\ e.drawn = d.drawn + 1 /\ e.epoch = [r \in Room |-> 0]
    <2>1. d \in Databases /\ d.drawn + 1 \in Nat
      BY <1>1 DEF Counted
    <2> QED BY <1>1, <2>1 DEF ClearAll, Databases
  <1>3. /\ w.instance = e.instance /\ w.epoch = e.epoch[q] /\ v.drawn = d.drawn /\ w.drawn = e.drawn
    BY DEF Log
  <1>4. Counted(e) /\ DrawnIn(e)
    BY <1>1, <1>2 DEF Counted, DrawnIn
  <1> QED BY <1>1, <1>2, <1>3, <1>4 DEF Renewed

-----------------------------------------------------------------------------
(* A session that has just joined *)

\* Frames of these kinds say how things are.
LEMMA PlainFrames ==
    ASSUME NEW v, NEW f \in Frames, \A m \in v.rows : m.id <= v.latest,
           \/ f.type \in {"presence", "error"}
           \/ f.type \in {"history", "sync"} /\ f.messages \subseteq v.rows
           \/ f.type \in {"message", "ack"} /\ f.message \in v.rows
           \/ f.type = "sync_complete" /\ f.through <= v.latest
    PROVE  f \in Plain(v)
  <1>1. ~Dated(f)
    BY DEF Dated
  <1>2. \A m \in Brought(f) : m \in v.rows /\ m.id <= v.latest
    BY DEF Brought
  <1>3. f.type = "sync_complete" => f.through <= v.latest
    OBVIOUS
  <1> QED BY <1>1, <1>2, <1>3 DEF Plain

\* Presence is told to whom it concerns.
LEMMA TellFaithful ==
    ASSUME NEW k \in Nat, NEW cs, NEW map, DOMAIN map \subseteq Room \X Name,
           NEW c \in Conn, cs[c] \in ConnsOf(k),
           c \in Registered(map) => cs[c].phase = "serving",
           NEW r, NEW v \in Logs, NEW n \in Networks, NEW t \in Models,
           \A m \in v.rows : m.id <= v.latest, Faithful(r, v, n, t, cs[c])
    PROVE  Faithful(r, v, n, t, TellPresence(cs, map)[c])
  <1> DEFINE f == Presence(Users(map, cs[c].room))
             x == TellPresence(cs, map)[c]
  <1>1. f \in SoundFrames(k) /\ f.type = "presence"
    BY UsersTyped, FramesTyped DEF Presence
  <1>2. CASE c \in Registered(map)
    <2>1. x = Deliver(cs[c], f)
      BY <1>2 DEF TellPresence
    <2>2. cs[c] \in SessionsOf(k)
      BY <1>2, Phases
    <2> HIDE DEF f, x
    <2>3. f \in Plain(v)
      <3>1. f \in Frames
        BY <1>1 DEF SoundFrames
      <3> QED BY <1>1, <3>1, PlainFrames
    <2>4. Faithful(r, v, n, t, x)
      BY <1>1, <2>1, <2>2, <2>3, DeliverPlain
    <2> QED BY <2>4 DEF x
  <1>3. CASE c \notin Registered(map)
    <2>1. x = cs[c]
      BY <1>3 DEF TellPresence
    <2> QED BY <2>1
  <1> QED BY <1>2, <1>3

\* Sequences of two and three.
LEMMA Appended ==
    ASSUME NEW S, NEW a \in S, NEW b \in S, NEW c \in S
    PROVE  Append(<<a>>, b) = <<a, b>> /\ Append(<<a, b>>, c) = <<a, b, c>>
  <1>1. <<a>> \in Seq(S) /\ <<a, b>> \in Seq(S) /\ <<a, b, c>> \in Seq(S) /\ <<c>> \in Seq(S)
        /\ <<b>> \in Seq(S)
    OBVIOUS
  <1>2. Append(<<a, b>>, c) = <<a, b, c>>
    BY <1>1, AppendIsConcat, ThreeFrames
  <1>3. Len(<<a>>) = 1 /\ <<a>>[1] = a /\ Len(<<a, b>>) = 2 /\ <<a, b>>[1] = a /\ <<a, b>>[2] = b
    OBVIOUS
  <1> DEFINE A == Append(<<a>>, b)
             B == <<a, b>>
             D == <<a>>
  <1>4. /\ A \in Seq(S) /\ Len(A) = Len(D) + 1 /\ (\A i \in 1 .. Len(D) : A[i] = D[i])
        /\ A[Len(D) + 1] = b
    BY <1>1, AppendProperties
  <1>5. Len(D) = 1 /\ D[1] = a /\ B \in Seq(S) /\ Len(B) = 2 /\ B[1] = a /\ B[2] = b
    BY <1>1, <1>3
  <1> HIDE DEF A, B, D
  <1>6. Len(A) = 2 /\ A[1] = a /\ A[2] = b
    BY <1>4, <1>5
  <1>7. A = B
    <2>1. \A i \in 1 .. Len(A) : A[i] = B[i]
      BY <1>5, <1>6
    <2> QED BY <1>4, <1>5, <1>6, <2>1, SeqEqual
  <1> QED BY <1>2, <1>7 DEF A, B

\* A client that has just joined will have what the log has.
LEMMA FreshFaithful ==
    ASSUME ServerInv, DrawnIn(db), NEW r \in Room, NEW nick \in Name, NEW o \in Owner,
           NEW n \in Networks, NEW t \in Models, Base(Log(db, r), n, t), ~n.welcomed,
           NEW s, Fresh(s, r, nick, o, n.instance, n.cursor)
    PROVE  Faithful(r, Log(db, r), n, t, s)
  <1> DEFINE v == Log(db, r)
             W == Greeting(r, nick, n.instance)
             F == FirstFrame(r, n.instance, n.cursor)
             E == SyncComplete(LatestID(db, r))
             page == FirstPage(r, n.instance, n.cursor)
  <1>0. db \in Databases /\ RowsDrawn /\ db.last \in Nat /\ Counted(db)
        /\ DOMAIN sessions \subseteq Room \X Name
    BY DEF ServerInv, RowsDrawn, Counted, Databases, SessionInv
  <1>1. v \in Logs /\ (\A m \in v.rows : m.id <= v.latest)
    BY <1>0, LogTyped
  <1>2. /\ v.rows = RoomRows(db, r) /\ v.latest = LatestID(db, r) /\ v.instance = db.instance
        /\ v.epoch = db.epoch[r] /\ v.drawn = db.drawn
        /\ InstanceID(db, r) = <<v.instance, v.epoch>>
    BY DEF Log, InstanceID
  <1>3. v.instance <= v.drawn /\ v.epoch <= v.drawn
    BY <1>2 DEF DrawnIn
  <1>4. /\ W.type = "welcome" /\ W.instance = <<v.instance, v.epoch>>
        /\ (W.resumed <=> n.instance = <<v.instance, v.epoch>>) /\ W.resumed \in BOOLEAN
        /\ W \in Frames
    <2>1. LatestID(db, r) \in Nat /\ InstanceID(db, r) \in InstanceIDs
      BY <1>0, LatestTyped, InstanceTyped
    <2>2. (Users(sessions, r) \cup {nick}) \in SUBSET Name
      BY <1>0, UsersTyped
    <2>3. (n.instance = InstanceID(db, r)) \in BOOLEAN
      OBVIOUS
    <2>4. W.resumed = (n.instance = InstanceID(db, r))
      BY DEF Greeting, Welcome
    <2>5. W.type = "welcome" /\ W.instance = InstanceID(db, r)
      BY DEF Greeting, Welcome
    <2>6. W \in Frames
      BY <2>1, <2>2, <2>3 DEF Greeting, Welcome, Frames
    <2> QED BY <1>2, <2>3, <2>4, <2>5, <2>6
  <1>5. F \in Plain(v)
    <2>1. page \in Pages(db.last) /\ page.messages \subseteq RoomRows(db, r)
      BY <1>0, PageTyped DEF FirstPage
    <2>2. F.type \in {"history", "sync"} /\ F.messages = page.messages
      BY DEF FirstFrame, PageFrame
    <2>3. F \in Frames
      <3> HIDE DEF page
      <3>1. page.messages \in SUBSET Row /\ page.hasMore \in BOOLEAN
        BY <2>1 DEF Pages
      <3> QED BY <3>1 DEF FirstFrame, PageFrame, Frames, page
    <2> HIDE DEF F, page, v
    <2> QED BY <1>1, <1>2, <2>1, <2>2, <2>3, PlainFrames
  <1>6. E \in Plain(v)
    <2>1. LatestID(db, r) \in Nat
      BY <1>0, LatestTyped
    <2>2. E.type = "sync_complete" /\ E.through = v.latest /\ E \in Frames
      BY <1>2, <2>1 DEF SyncComplete, Frames
    <2>3. E.through <= v.latest
      BY <1>2, <2>1, <2>2
    <2> HIDE DEF E, v
    <2> QED BY <1>1, <2>2, <2>3, PlainFrames
  <1>7. n.instance \in InstanceIDs /\ n.instance = <<n.instance[1], n.instance[2]>>
        /\ v.epoch \in Nat /\ v.instance \in Nat
    BY <1>1 DEF Networks, InstanceIDs, Logs
  <1> HIDE DEF v, W, F, E, page
  <1> DEFINE G == <<W>>
  <1>8. G \in Seq(Frames) /\ DOMAIN G = {1} /\ G[1] = W /\ G # <<>>
    <2>1. G \in Seq(Frames) /\ Len(G) = 1 /\ G[1] = W
      BY <1>4
    <2>2. G # <<>>
      BY <2>1, EmptySeq
    <2> QED BY <2>1, <2>2
  <1> HIDE DEF G
  <1>9. LiveView(v, n, t, G)
    <2>1. \A j : ~Overtaken(G, j)
      BY <1>4, <1>8 DEF Overtaken
    <2>2. DatesOk(v, G)
      BY <1>3, <1>4, <1>7, <1>8, <2>1 DEF DatesOk
    <2>3. RowsOk(v, n, G)
      BY <1>4, <1>8 DEF RowsOk, Brought
    <2>4. EndsOk(v, G)
      BY <1>4, <1>8 DEF EndsOk
    <2>5. StartOk(v, n, G)
      BY <1>4, <1>8 DEF StartOk
    <2>6. Keeps(n, G) => n.instance = <<v.instance, v.epoch>>
      BY <1>4, <1>8 DEF Keeps
    <2>7. n.instance = <<v.instance, v.epoch>> => Sees(v, n, t, G)
      BY <1>1, <1>7, <2>1 DEF Base, Sees, Genuine, v
    <2> QED BY <2>2, <2>3, <2>4, <2>5, <2>6, <2>7 DEF LiveView
  <1>10. /\ LiveView(v, n, t, Append(G, F)) /\ Append(G, F) \in Seq(Frames)
    <2>1. F \in Frames
      BY <1>5 DEF Plain
    <2> QED BY <1>1, <1>5, <1>8, <1>9, <2>1, PlainAppended, AppendProperties
  <1>11. LiveView(v, n, t, Append(Append(G, F), E))
    BY <1>1, <1>6, <1>10, PlainAppended
  <1> SUFFICES ASSUME Active(s) PROVE Faithful(r, v, n, t, s)
    BY DEF v, Faithful
  <1>12. s.live /\ s \in SessionsOf(db.last) /\ s.room = r /\ s.deferred = <<>>
    BY DEF Active, Fresh
  <1>13. Stream(s) = s.outgoing
    BY <1>0, <1>12, StreamTyped
  <1>14. Append(G, F) = <<W, F>> /\ Append(Append(G, F), E) = <<W, F, E>>
    <2>1. F \in Frames /\ E \in Frames
      BY <1>5, <1>6 DEF Plain
    <2>2. Append(<<W>>, F) = <<W, F>> /\ Append(<<W, F>>, E) = <<W, F, E>>
      BY <1>4, <2>1, Appended
    <2> QED BY <2>2 DEF G
  <1>15. <<W, F>> # <<>> /\ <<W, F, E>> # <<>>
    OBVIOUS
  <1>16. CASE s.syncing
    <2>1. s.outgoing = <<W, F>> /\ s.through = v.latest
      BY <1>2, <1>12, <1>16 DEF Fresh, W, F
    <2>2. s.through <= v.latest
      BY <1>1, <2>1 DEF Logs
    <2> QED BY <1>10, <1>12, <1>13, <1>14, <1>15, <1>16, <2>1, <2>2 DEF Faithful
  <1>17. CASE ~s.syncing
    <2>1. s.outgoing = <<W, F, E>>
      BY <1>12, <1>17 DEF Fresh, W, F, E
    <2> QED BY <1>11, <1>12, <1>13, <1>14, <1>15, <1>17, <2>1 DEF Faithful
  <1> QED BY <1>16, <1>17

-----------------------------------------------------------------------------
(* Steps of the clients *)

\* What holds of a client and of its connection.
LEMMA Seen ==
    ASSUME ScreenInv, NEW i \in Client
    PROVE  /\ SystemInv /\ ServerInv /\ Counted(db) /\ DrawnIn(db) /\ db.last \in Nat
           /\ net[i] \in Networks /\ tui[i] \in Models /\ RoomOf[i] \in Room
           /\ Log(db, RoomOf[i]) \in Logs
           /\ \A m \in Log(db, RoomOf[i]).rows : m.id <= Log(db, RoomOf[i]).latest
           /\ Base(Log(db, RoomOf[i]), net[i], tui[i])
           /\ Linked(i) =>
                 /\ net[i].conn \in Conn
                 /\ conns[net[i].conn] \in ConnsOf(db.last)
                 /\ Faithful(RoomOf[i], Log(db, RoomOf[i]), net[i], tui[i], conns[net[i].conn])
                 /\ ClientOk(i, net[i], tui[i], conns[net[i].conn], up[net[i].conn])
  <1>1. SystemInv /\ DrawnIn(db) /\ Base(Log(db, RoomOf[i]), net[i], tui[i])
        /\ (Linked(i) => Faithful(RoomOf[i], Log(db, RoomOf[i]), net[i], tui[i],
                                  conns[net[i].conn]))
    BY DEF ScreenInv
  <1>2. ServerInv /\ net[i] \in Networks /\ tui[i] \in Models
    BY <1>1 DEF SystemInv
  <1>3. Counted(db) /\ db.last \in Nat /\ conns \in [Conn -> ConnsOf(db.last)]
    BY <1>2 DEF ServerInv, RowsDrawn, Counted, Databases
  <1>4. RoomOf[i] \in Room
    BY ClientAssumption
  <1>5. Log(db, RoomOf[i]) \in Logs
        /\ \A m \in Log(db, RoomOf[i]).rows : m.id <= Log(db, RoomOf[i]).latest
    BY <1>3, <1>4, LogTyped
  <1>6. Linked(i) => /\ net[i].conn \in Conn
                     /\ ClientOk(i, net[i], tui[i], conns[net[i].conn], up[net[i].conn])
    BY <1>1 DEF SystemInv
  <1> QED BY <1>1, <1>2, <1>3, <1>4, <1>5, <1>6

\* A step of the server.
LEMMA ServerScreens ==
    ASSUME ScreenInv, SystemInv', DrawnIn(db)', UNCHANGED <<net, tui>>,
           \A i \in Client : Grew(Log(db, RoomOf[i]), Log(db', RoomOf[i]))
                             \/ Renewed(Log(db, RoomOf[i]), Log(db', RoomOf[i])),
           \A i \in Client : Linked(i) =>
              Faithful(RoomOf[i], Log(db', RoomOf[i]), net[i], tui[i], conns'[net[i].conn])
    PROVE  ScreenInv'
  <1>1. Counted(db')
    BY DEF SystemInv, ServerInv, RowsDrawn, Counted
  <1>2. ASSUME NEW i \in Client
        PROVE  Base(Log(db', RoomOf[i]), net'[i], tui'[i])
    <2>1. /\ net[i] \in Networks /\ tui[i] \in Models /\ RoomOf[i] \in Room
          /\ Log(db, RoomOf[i]) \in Logs /\ Base(Log(db, RoomOf[i]), net[i], tui[i])
      BY Seen
    <2>2. Log(db', RoomOf[i]) \in Logs
      BY <1>1, <2>1, LogTyped
    <2>3. Base(Log(db', RoomOf[i]), net[i], tui[i])
      <3> DEFINE v == Log(db, RoomOf[i])
                 w == Log(db', RoomOf[i])
      <3>1. Grew(v, w) \/ Renewed(v, w)
        OBVIOUS
      <3> HIDE DEF v, w
      <3>2. v \in Logs /\ w \in Logs /\ Base(v, net[i], tui[i])
        BY <2>1, <2>2 DEF v, w
      <3>3. Base(w, net[i], tui[i])
        BY <2>1, <3>1, <3>2, BaseKept
      <3> QED BY <3>3 DEF w
    <2> QED BY <2>3
  <1>3. ASSUME NEW i \in Client, Linked(i)'
        PROVE  Faithful(RoomOf[i], Log(db', RoomOf[i]), net'[i], tui'[i], conns'[net'[i].conn])
    BY <1>3 DEF Linked
  <1> QED BY <1>2, <1>3 DEF ScreenInv

\* A step of client i.
LEMMA ClientScreens ==
    ASSUME ScreenInv, SystemInv', UNCHANGED db, NEW i \in Client,
           NEW p, NEW q, net' = [net EXCEPT ![i] = p], tui' = [tui EXCEPT ![i] = q],
           Base(Log(db, RoomOf[i]), p, q),
           p.phase = "linked" => Faithful(RoomOf[i], Log(db, RoomOf[i]), p, q, conns'[p.conn]),
           \A j \in Client \ {i} : Linked(j) => conns'[net[j].conn] = conns[net[j].conn]
    PROVE  ScreenInv'
  <1>1. net \in [Client -> Networks] /\ tui \in [Client -> Models] /\ DrawnIn(db)
    BY DEF ScreenInv, SystemInv
  <1>2. net'[i] = p /\ tui'[i] = q /\ \A j \in Client \ {i} : net'[j] = net[j] /\ tui'[j] = tui[j]
    BY <1>1
  <1>3. DrawnIn(db)'
    BY <1>1 DEF DrawnIn
  <1>4. ASSUME NEW j \in Client
        PROVE  /\ Base(Log(db', RoomOf[j]), net'[j], tui'[j])
               /\ Linked(j)' => Faithful(RoomOf[j], Log(db', RoomOf[j]), net'[j], tui'[j],
                                         conns'[net'[j].conn])
    <2>1. CASE j = i
      <3>1. Linked(j)' => p.phase = "linked"
        BY <1>2, <2>1 DEF Linked
      <3> QED BY <1>2, <2>1, <3>1
    <2>2. CASE j # i
      <3>1. net'[j] = net[j] /\ tui'[j] = tui[j] /\ (Linked(j)' <=> Linked(j))
        BY <1>2, <2>2 DEF Linked
      <3>2. Base(Log(db, RoomOf[j]), net[j], tui[j])
        BY Seen
      <3>3. Linked(j) => Faithful(RoomOf[j], Log(db, RoomOf[j]), net[j], tui[j],
                                  conns[net[j].conn])
        BY Seen
      <3>4. Linked(j) => conns'[net[j].conn] = conns[net[j].conn]
        BY <2>2
      <3> QED BY <3>1, <3>2, <3>3, <3>4
    <2> QED BY <2>1, <2>2
  <1> QED BY <1>3, <1>4 DEF ScreenInv

\* What matters of network and display is the instance, the cursor, the messages.
LEMMA SameBase ==
    ASSUME NEW v, NEW n, NEW p, NEW t, NEW q, Base(v, n, t),
           p.instance = n.instance, p.cursor = n.cursor, q.messages = t.messages
    PROVE  Base(v, p, q)
  BY DEF Base

\* A client dials, and has shown nothing that it would not show without a link.
LEMMA DialScreens ==
    ASSUME ScreenInv, SystemInv', NEW i \in Client, NEW c \in Conn, Dial(i, c)
    PROVE  ScreenInv'
  <1>1. /\ net[i] \in Networks /\ tui[i] \in Models /\ Base(Log(db, RoomOf[i]), net[i], tui[i])
        /\ SystemInv
    BY Seen
  <1>2. /\ c \notin Attached /\ Accept(c) /\ net' = [net EXCEPT ![i] = Link(@, c)]
        /\ tui' = [tui EXCEPT ![i].connected = FALSE]
    BY DEF Dial
  <1> DEFINE p == Link(net[i], c)
             q == [tui[i] EXCEPT !.connected = FALSE]
  <1>3. net' = [net EXCEPT ![i] = p] /\ tui' = [tui EXCEPT ![i] = q]
    BY <1>1, <1>2 DEF SystemInv
  <1>4. p.instance = net[i].instance /\ p.cursor = net[i].cursor /\ p.conn = c
    BY <1>1, LinkTyped
  <1>5. q.messages = tui[i].messages
    BY <1>1 DEF Models
  <1>6. conns' = [conns EXCEPT ![c] = Accepted] /\ UNCHANGED db
    BY <1>2 DEF Accept
  <1>7. conns'[c] = Accepted
    <2>1. conns \in [Conn -> ConnsOf(db.last)]
      BY <1>1 DEF SystemInv, ServerInv
    <2> QED BY <1>6, <2>1
  <1> HIDE DEF p, q
  <1>8. Base(Log(db, RoomOf[i]), p, q)
    BY <1>1, <1>4, <1>5, SameBase
  <1>9. Faithful(RoomOf[i], Log(db, RoomOf[i]), p, q, conns'[p.conn])
    BY <1>4, <1>7 DEF Faithful, Active, Accepted
  <1>10. \A j \in Client \ {i} : Linked(j) => conns'[net[j].conn] = conns[net[j].conn]
    <2> SUFFICES ASSUME NEW j \in Client \ {i}, Linked(j)
                 PROVE  conns'[net[j].conn] = conns[net[j].conn]
      OBVIOUS
    <2>1. net[j].conn # c
      BY <1>2 DEF Attached
    <2>2. net[j].conn \in Conn /\ conns \in [Conn -> ConnsOf(db.last)]
      BY <1>1, Seen DEF SystemInv, ServerInv
    <2> QED BY <1>6, <2>1, <2>2
  <1> QED BY <1>3, <1>6, <1>8, <1>9, <1>10, ClientScreens

\* A link breaks: what its session had yet to tell is lost.
LEMMA BreakScreens ==
    ASSUME ScreenInv, SystemInv', NEW i \in Client, Break(i)
    PROVE  ScreenInv'
  <1>1. /\ net[i] \in Networks /\ tui[i] \in Models /\ Base(Log(db, RoomOf[i]), net[i], tui[i])
        /\ SystemInv
    BY Seen
  <1> DEFINE p == Unlink(net[i], "offline")
             q == Disconnected(tui[i])
  <1>2. net' = [net EXCEPT ![i] = p] /\ tui' = [tui EXCEPT ![i] = q] /\ UNCHANGED <<db, conns>>
    BY DEF Break, Drop, vars
  <1>3. p.instance = net[i].instance /\ p.cursor = net[i].cursor /\ p.phase = "offline"
    BY <1>1, UnlinkTyped
  <1>4. q.messages = tui[i].messages
    BY <1>1 DEF Models, Disconnected
  <1> HIDE DEF p, q
  <1>5. Base(Log(db, RoomOf[i]), p, q)
    BY <1>1, <1>3, <1>4, SameBase
  <1>6. p.phase # "linked"
    BY <1>3
  <1> QED BY <1>2, <1>5, <1>6, ClientScreens

\* What a client asks for changes nothing that it shows.
LEMMA AskScreens ==
    ASSUME ScreenInv, SystemInv', NEW i \in Client, NEW q, tui' = [tui EXCEPT ![i] = q],
           q.messages = tui[i].messages, UNCHANGED <<vars, net>>
    PROVE  ScreenInv'
  <1> DEFINE p == net[i]
  <1>1. /\ net[i] \in Networks /\ tui[i] \in Models /\ Base(Log(db, RoomOf[i]), net[i], tui[i])
        /\ SystemInv
    BY Seen
  <1>2. net' = [net EXCEPT ![i] = p] /\ UNCHANGED <<db, conns>>
    BY <1>1 DEF SystemInv, vars
  <1>3. Base(Log(db, RoomOf[i]), p, q)
    BY <1>1, SameBase
  <1>4. p.phase = "linked" => Faithful(RoomOf[i], Log(db, RoomOf[i]), p, q, conns'[p.conn])
    <2> SUFFICES ASSUME p.phase = "linked"
                 PROVE  Faithful(RoomOf[i], Log(db, RoomOf[i]), p, q, conns'[p.conn])
      OBVIOUS
    <2>1. Faithful(RoomOf[i], Log(db, RoomOf[i]), net[i], tui[i], conns[net[i].conn])
      BY Seen DEF Linked
    <2>2. Faithful(RoomOf[i], Log(db, RoomOf[i]), p, q, conns[net[i].conn])
      BY <2>1, SameFaithful
    <2> QED BY <1>2, <2>2
  <1> HIDE DEF p
  <1> QED BY <1>2, <1>3, <1>4, ClientScreens

\* What the user asks for changes nothing on the display.
LEMMA UserScreens ==
    ASSUME ScreenInv, SystemInv', NEW i \in Client, UserSend(i) \/ UserRecall(i) \/ LoadOlder(i)
    PROVE  ScreenInv'
  <1>1. tui[i] \in Models /\ tui \in [Client -> Models]
    BY Seen DEF SystemInv
  <1>2. CASE UserSend(i)
    <2> DEFINE q == [tui[i] EXCEPT !.pending = TRUE]
    <2>1. tui' = [tui EXCEPT ![i] = q] /\ UNCHANGED <<vars, net>>
      BY <1>1, <1>2 DEF UserSend, Ask
    <2>2. q.messages = tui[i].messages
      BY <1>1 DEF Models
    <2> HIDE DEF q
    <2> QED BY <2>1, <2>2, AskScreens
  <1>3. CASE UserRecall(i)
    <2> DEFINE q == [tui[i] EXCEPT !.recalls = TRUE]
    <2>1. tui' = [tui EXCEPT ![i] = q] /\ UNCHANGED <<vars, net>>
      BY <1>1, <1>3 DEF UserRecall, Ask
    <2>2. q.messages = tui[i].messages
      BY <1>1 DEF Models
    <2> HIDE DEF q
    <2> QED BY <2>1, <2>2, AskScreens
  <1>4. CASE LoadOlder(i)
    <2> DEFINE q == [tui[i] EXCEPT !.loading = TRUE]
    <2>1. tui' = [tui EXCEPT ![i] = q] /\ UNCHANGED <<vars, net>>
      BY <1>1, <1>4 DEF LoadOlder, Ask
    <2>2. q.messages = tui[i].messages
      BY <1>1 DEF Models
    <2> HIDE DEF q
    <2> QED BY <2>1, <2>2, AskScreens
  <1> QED BY <1>2, <1>3, <1>4

-----------------------------------------------------------------------------
(* The clients read *)

\* The first frame of a stream.
LEMMA StreamStarts ==
    ASSUME NEW k \in Nat, NEW s \in SessionsOf(k), s.outgoing # <<>>
    PROVE  1 \in DOMAIN Stream(s) /\ Stream(s)[1] = s.outgoing[1] /\ Stream(s) \in Seq(Frames)
  <1> DEFINE G == Stream(s)
             a == Len(s.outgoing)
             b == Len(s.deferred)
  <1>1. s.outgoing \in Seq(Frames) /\ s.deferred \in Seq(Frames) /\ G \in Seq(Frames)
    BY StreamTyped
  <1>2. Len(G) = a + b /\ \A l \in 1 .. a + b : l <= a => G[l] = s.outgoing[l]
    BY <1>1, ConcatProperties DEF Stream
  <1>3. a \in Nat \ {0} /\ b \in Nat
    BY <1>1, EmptySeq, LenProperties
  <1>4. DOMAIN G = 1 .. Len(G)
    BY <1>1
  <1> HIDE DEF G, a, b
  <1>5. 1 \in 1 .. a + b /\ 1 <= a
    BY <1>3
  <1>6. 1 \in DOMAIN G /\ G[1] = s.outgoing[1] /\ G \in Seq(Frames)
    BY <1>1, <1>2, <1>4, <1>5
  <1> QED BY <1>6 DEF G

\* A client that reads leaves the connections of the others alone.
LEMMA ReadsItsOwn ==
    ASSUME SystemInv, NEW i \in Client, Linked(i), Read(i)
    PROVE  /\ UNCHANGED db
           /\ \A j \in Client \ {i} : Linked(j) => conns'[net[j].conn] = conns[net[j].conn]
  <1> DEFINE c == net[i].conn
  <1>1. conns \in [Conn -> ConnsOf(db.last)] /\ c \in Conn
    BY DEF SystemInv, ServerInv
  <1>2. UNCHANGED db /\ \E x : conns' = [conns EXCEPT ![c] = x]
    <2>1. CASE WriteRefusal(c)
      BY <2>1 DEF WriteRefusal
    <2>2. CASE WriteFrame(c)
      <3>1. UNCHANGED db /\ conns' = [conns EXCEPT ![c].outgoing = Tail(@)]
        BY <2>2 DEF WriteFrame
      <3>2. conns' = [conns EXCEPT ![c] = [conns[c] EXCEPT !.outgoing = Tail(@)]]
        BY <1>1, <3>1
      <3> QED BY <3>1, <3>2
    <2> QED BY <2>1, <2>2 DEF Read
  <1> HIDE DEF c
  <1>3. \A d \in Conn \ {c} : conns'[d] = conns[d]
    BY <1>1, <1>2
  <1>4. \A j \in Client \ {i} : Linked(j) => net[j].conn \in Conn \ {c}
    BY DEF SystemInv, c
  <1> QED BY <1>2, <1>3, <1>4

\* A client reads and shows a frame,
LEMMA ReceiveScreens ==
    ASSUME ScreenInv, SystemInv', NEW i \in Client, Receive(i)
    PROVE  ScreenInv'
  <1>1. PICK f \in Incoming(i) :
            /\ net[i].welcomed \/ f.type # "error"
            /\ Read(i)
            /\ net' = [net EXCEPT ![i] = AfterEmit(BeforeEmit(@, f), f)]
            /\ tui' = [tui EXCEPT ![i] = Show(@, f)]
    BY DEF Receive
  <1> DEFINE c == net[i].conn
             s == conns[c]
             v == Log(db, RoomOf[i])
             p == Received(net[i], f)
             q == Show(tui[i], f)
             x == [s EXCEPT !.outgoing = Tail(s.outgoing)]
  <1>2. /\ SystemInv /\ db.last \in Nat /\ net[i] \in Networks /\ tui[i] \in Models
        /\ v \in Logs /\ DrawnIn(db) /\ RoomOf[i] \in Room
    BY Seen
  <1>3. /\ Linked(i) /\ s \in SessionsOf(db.last) /\ Active(s) /\ s.outgoing # <<>>
        /\ f = s.outgoing[1] /\ f \in SoundFrames(db.last) /\ conns'[c] = x
    BY <1>1, <1>2, ReadFacts
  <1>4. Faithful(RoomOf[i], v, net[i], tui[i], s)
    BY <1>3, Seen
  <1>5. net' = [net EXCEPT ![i] = p] /\ tui' = [tui EXCEPT ![i] = q]
    BY <1>1 DEF Received
  <1>6. p \in Networks /\ p.conn = c /\ q \in Models
    BY <1>2, <1>3, ReceivedTyped, ShowTyped
  <1>7. UNCHANGED db /\ \A j \in Client \ {i} : Linked(j) => conns'[net[j].conn] = conns[net[j].conn]
    BY <1>1, <1>2, <1>3, ReadsItsOwn
  <1>8. v.instance <= v.drawn /\ v.epoch <= v.drawn
    BY <1>2 DEF DrawnIn, Log
  <1> HIDE DEF c, s, v, p, q, x
  <1>9. Faithful(RoomOf[i], v, p, q, x)
    <2>1. Faithful(RoomOf[i], v, Received(net[i], f), Show(tui[i], f), x)
      BY <1>2, <1>3, <1>4, ReadSession DEF x
    <2> QED BY <2>1 DEF p, q
  <1>10. /\ x \in SessionsOf(db.last) /\ Active(x)
    <2>1. s.outgoing \in Seq(Frames) /\ s.outgoing \in Seq(SoundFrames(db.last)) /\ s \in Sessions
      BY <1>3 DEF SessionsOf, Sessions
    <2>2. Tail(s.outgoing) \in Seq(Frames) /\ Tail(s.outgoing) \in Seq(SoundFrames(db.last))
      BY <1>3, <2>1, TailFacts
    <2>3. x \in Sessions /\ x.outgoing = Tail(s.outgoing) /\ x.deferred = s.deferred
          /\ x.through = s.through
      BY <2>1, <2>2 DEF x, Sessions
    <2>4. x \in SessionsOf(db.last)
      BY <1>3, <2>2, <2>3 DEF SessionsOf
    <2>5. x.live = s.live /\ x.phase = s.phase
      BY <2>1 DEF x, Sessions
    <2> QED BY <1>3, <2>4, <2>5 DEF Active
  <1>11. Stream(x) \in Seq(Frames) /\ LiveView(v, p, q, Stream(x))
    BY <1>2, <1>9, <1>10, StreamTyped DEF Faithful
  <1>12. Base(v, p, q)
    <2>1. p.instance[1] \in Nat /\ p.instance[2] \in Nat /\ net[i].instance[1] \in Nat
          /\ net[i].instance[2] \in Nat
      BY <1>2, <1>6 DEF Networks, InstanceIDs
    <2>2. p.instance[1] <= v.drawn /\ p.instance[2] <= v.drawn
      <3>1. Base(v, net[i], tui[i])
        BY Seen DEF v
      <3>2. CASE Dated(f)
        <4> DEFINE G == Stream(s)
        <4>1. DatesOk(v, G) /\ G[1] = f /\ 1 \in DOMAIN G
          <5>1. DatesOk(v, G)
            BY <1>3, <1>4 DEF Faithful, LiveView
          <5> QED BY <1>2, <1>3, <5>1, StreamStarts
        <4>2. p.instance = f.instance
          BY <1>2, <1>3, <3>2, KnownAfter DEF p
        <4> HIDE DEF G
        <4> QED BY <3>2, <4>1, <4>2 DEF DatesOk
      <3>3. CASE ~Dated(f)
        <4>1. p.instance = net[i].instance
          BY <1>2, <1>3, <3>3, KnownAfter DEF p
        <4> QED BY <3>1, <4>1 DEF Base
      <3> QED BY <3>2, <3>3
    <2>3. p.instance = <<v.instance, v.epoch>> =>
              p.cursor <= v.latest /\ (~LateCancel => q.messages \subseteq v.rows)
      BY <1>2, <1>6, <1>8, <1>11, LiveBase
    <2> QED BY <2>2, <2>3 DEF Base
  <1>13. p.phase = "linked" => Faithful(RoomOf[i], Log(db, RoomOf[i]), p, q, conns'[p.conn])
    BY <1>3, <1>6, <1>9 DEF v
  <1>14. Base(Log(db, RoomOf[i]), p, q)
    BY <1>12 DEF v
  <1> QED BY <1>5, <1>7, <1>13, <1>14, ClientScreens

\* reads that it is refused,
LEMMA RefusalScreens ==
    ASSUME ScreenInv, SystemInv', NEW i \in Client, ReceiveRefusal(i)
    PROVE  ScreenInv'
  <1>1. PICK f \in Incoming(i) :
            /\ Read(i)
            /\ \/ /\ net' = [net EXCEPT ![i] = Unlink(@, "stopped")]
                  /\ tui' = [tui EXCEPT ![i] = GivenUp(@)]
               \/ Drop(i)
    BY DEF ReceiveRefusal
  <1>2. /\ net[i] \in Networks /\ tui[i] \in Models /\ Base(Log(db, RoomOf[i]), net[i], tui[i])
        /\ SystemInv
    BY Seen
  <1>3. Linked(i)
    BY <1>1 DEF Incoming
  <1>4. UNCHANGED db /\ \A j \in Client \ {i} : Linked(j) => conns'[net[j].conn] = conns[net[j].conn]
    BY <1>1, <1>2, <1>3, ReadsItsOwn
  <1>5. PICK phase \in {"offline", "stopped"}, q \in Models :
           /\ net' = [net EXCEPT ![i] = Unlink(net[i], phase)] /\ tui' = [tui EXCEPT ![i] = q]
           /\ q.messages = tui[i].messages
    <2>1. Disconnected(tui[i]).messages = tui[i].messages /\ GivenUp(tui[i]).messages = tui[i].messages
      BY <1>2 DEF Models, Disconnected, GivenUp
    <2>4. Disconnected(tui[i]) \in Models /\ GivenUp(tui[i]) \in Models
      BY <1>2, DisconnectedTyped, GivenUpTyped
    <2>2. CASE Drop(i)
      <3>1. net' = [net EXCEPT ![i] = Unlink(net[i], "offline")]
            /\ tui' = [tui EXCEPT ![i] = Disconnected(tui[i])]
        BY <2>2 DEF Drop
      <3> QED BY <2>1, <2>4, <3>1
    <2>3. CASE /\ net' = [net EXCEPT ![i] = Unlink(@, "stopped")]
               /\ tui' = [tui EXCEPT ![i] = GivenUp(@)]
      <3>1. net' = [net EXCEPT ![i] = Unlink(net[i], "stopped")]
            /\ tui' = [tui EXCEPT ![i] = GivenUp(tui[i])]
        BY <2>3
      <3> QED BY <2>1, <2>4, <3>1
    <2> QED BY <1>1, <2>2, <2>3
  <1> DEFINE p == Unlink(net[i], phase)
  <1>6. p.instance = net[i].instance /\ p.cursor = net[i].cursor /\ p.phase = phase
    BY <1>2, UnlinkTyped
  <1>7. net' = [net EXCEPT ![i] = p]
    BY <1>5
  <1> HIDE DEF p
  <1>8. Base(Log(db, RoomOf[i]), p, q) /\ p.phase # "linked"
    BY <1>2, <1>5, <1>6, SameBase
  <1> QED BY <1>4, <1>5, <1>7, <1>8, ClientScreens

\* or reads a frame that it does not show.
LEMMA CancelledScreens ==
    ASSUME ScreenInv, SystemInv', NEW i \in Client, ReceiveCancelled(i)
    PROVE  ScreenInv'
  <1>1. PICK f \in Incoming(i) :
            /\ net[i].welcomed \/ f.type # "error"
            /\ Read(i)
            /\ net' = [net EXCEPT ![i] = Unlink(BeforeEmit(@, f), "offline")]
            /\ tui' = [tui EXCEPT ![i] = Disconnected(@)]
    BY DEF ReceiveCancelled
  <1> DEFINE n == net[i]
             s == conns[n.conn]
             v == Log(db, RoomOf[i])
             b == BeforeEmit(n, f)
             p == Unlink(b, "offline")
             q == Disconnected(tui[i])
             G == Stream(s)
  <1>2. /\ SystemInv /\ db.last \in Nat /\ n \in Networks /\ tui[i] \in Models
        /\ v \in Logs /\ DrawnIn(db) /\ RoomOf[i] \in Room /\ Base(v, n, tui[i])
    BY Seen
  <1>3. /\ Linked(i) /\ s \in SessionsOf(db.last) /\ Active(s) /\ s.outgoing # <<>>
        /\ f = s.outgoing[1] /\ f \in SoundFrames(db.last)
    BY <1>1, <1>2, ReadFacts
  <1>4. Faithful(RoomOf[i], v, n, tui[i], s)
    BY <1>3, Seen
  <1>5. UNCHANGED db /\ \A j \in Client \ {i} : Linked(j) => conns'[net[j].conn] = conns[net[j].conn]
    BY <1>1, <1>2, <1>3, ReadsItsOwn
  <1>6. net' = [net EXCEPT ![i] = p] /\ tui' = [tui EXCEPT ![i] = q] /\ LateCancel
    BY <1>1 DEF ReceiveCancelled
  <1>7. b \in Networks
    BY <1>2, <1>3, BeforeTyped
  <1>8. p.instance = b.instance /\ p.cursor = b.cursor /\ p.phase = "offline"
    BY <1>7, UnlinkTyped
  <1>9. v.latest \in Nat /\ v.drawn \in Nat /\ b.cursor \in Nat /\ n.cursor \in Nat
    BY <1>2, <1>7 DEF Logs, Networks
  <1> HIDE DEF n, s, v, b, p, q
  <1>10. G[1] = f /\ 1 \in DOMAIN G /\ G \in Seq(Frames)
    BY <1>2, <1>3, StreamStarts
  <1>11. LiveView(v, n, tui[i], G)
    BY <1>3, <1>4 DEF Faithful
  <1> HIDE DEF G
  <1>12. b.instance[1] <= v.drawn /\ b.instance[2] <= v.drawn
    <2>1. CASE f.type \in {"welcome", "history_cleared"}
      <3>1. b.instance = f.instance
        BY <1>2, <1>3, <2>1, KnownBefore DEF b
      <3> QED BY <1>10, <1>11, <2>1, <3>1 DEF LiveView, DatesOk, Dated
    <2>2. CASE f.type \notin {"welcome", "history_cleared"}
      <3>1. b.instance = n.instance
        BY <1>2, <1>3, <2>2, KnownBefore DEF b
      <3> QED BY <1>2, <3>1 DEF Base
    <2> QED BY <2>1, <2>2
  <1>13. b.instance = <<v.instance, v.epoch>> => b.cursor <= v.latest
    <2> SUFFICES ASSUME b.instance = <<v.instance, v.epoch>> PROVE b.cursor <= v.latest
      OBVIOUS
    <2>1. CASE f.type = "history_cleared" \/ (f.type = "welcome" /\ ~f.resumed)
      <3>1. b.cursor = 0
        BY <1>2, <1>3, <2>1, KnownBefore DEF b
      <3> QED BY <1>9, <3>1
    <2>2. CASE f.type = "welcome" /\ f.resumed
      <3>1. b.instance = f.instance /\ b.cursor \in {0, n.cursor}
        BY <1>2, <1>3, <2>2, KnownBefore DEF b
      <3>2. n.instance = f.instance
        BY <1>10, <1>11, <2>2 DEF LiveView, StartOk
      <3>3. n.cursor <= v.latest
        BY <1>2, <3>1, <3>2 DEF Base
      <3> QED BY <1>9, <3>1, <3>3
    <2>3. CASE f.type = "sync_complete"
      <3>1. b.instance = n.instance /\ b.cursor \in {n.cursor, f.through}
        BY <1>2, <1>3, <2>3, KnownBefore DEF b
      <3>2. n.cursor <= v.latest
        BY <1>2, <3>1 DEF Base
      <3>3. f.through <= v.latest
        <4>1. Keeps(n, G)
          BY <1>10, <1>11, <2>3 DEF LiveView, StartOk, Keeps
        <4>2. ~Overtaken(G, 0)
          BY <1>2, <1>11, <3>1, <4>1 DEF LiveView, Sees
        <4>3. ~Overtaken(G, 1)
          BY <1>10, <4>2 DEF Overtaken
        <4> QED BY <1>10, <1>11, <2>3, <4>3 DEF LiveView, EndsOk
      <3> QED BY <3>1, <3>2, <3>3
    <2>4. CASE f.type \notin {"welcome", "history_cleared", "sync_complete"}
      <3>1. b = n
        BY <1>2, <1>3, <2>4, KnownBefore DEF b
      <3> QED BY <1>2, <3>1 DEF Base
    <2>5. f.type = "welcome" => f.resumed \in BOOLEAN
      BY <1>2, <1>3, FrameCases
    <2> QED BY <2>1, <2>2, <2>3, <2>4, <2>5
  <1>14. Base(Log(db, RoomOf[i]), p, q)
    BY <1>6, <1>8, <1>12, <1>13 DEF Base, v
  <1>15. p.phase # "linked"
    BY <1>8
  <1> QED BY <1>5, <1>6, <1>14, <1>15, ClientScreens

-----------------------------------------------------------------------------
(* The server answers one session *)

\* The log of a database whose rows and values stay.
LEMMA SameLog ==
    ASSUME NEW d, Counted(d), NEW r \in Room, NEW e, Log(e, r) = Log(d, r)
    PROVE  Grew(Log(d, r), Log(e, r))
  <1> DEFINE v == Log(d, r)
  <1>1. v.latest \in Nat /\ v.drawn \in Nat
    BY LogTyped DEF Logs
  <1>2. Grew(v, v)
    BY <1>1 DEF Grew
  <1> QED BY <1>2

\* A step of connection c that is no news for the others.
LEMMA OneScreens ==
    ASSUME ScreenInv, SystemInv', UNCHANGED <<net, tui>>, NEW c \in Conn,
           DrawnIn(db'), \A r \in Room : Log(db', r) = Log(db, r),
           \A d \in Conn \ {c} : conns'[d] = conns[d],
           \A i \in Client : (Linked(i) /\ net[i].conn = c) =>
              Faithful(RoomOf[i], Log(db, RoomOf[i]), net[i], tui[i], conns'[c])
    PROVE  ScreenInv'
  <1>1. \A i \in Client : Grew(Log(db, RoomOf[i]), Log(db', RoomOf[i]))
                          \/ Renewed(Log(db, RoomOf[i]), Log(db', RoomOf[i]))
    <2> SUFFICES ASSUME NEW i \in Client PROVE Grew(Log(db, RoomOf[i]), Log(db', RoomOf[i]))
      OBVIOUS
    <2> QED BY Seen, SameLog
  <1>2. \A i \in Client : Linked(i) =>
           Faithful(RoomOf[i], Log(db', RoomOf[i]), net[i], tui[i], conns'[net[i].conn])
    <2> SUFFICES ASSUME NEW i \in Client, Linked(i)
                 PROVE  Faithful(RoomOf[i], Log(db', RoomOf[i]), net[i], tui[i], conns'[net[i].conn])
      OBVIOUS
    <2>1. /\ Faithful(RoomOf[i], Log(db, RoomOf[i]), net[i], tui[i], conns[net[i].conn])
          /\ net[i].conn \in Conn /\ RoomOf[i] \in Room
      BY Seen
    <2> QED BY <2>1
  <1>3. DrawnIn(db)'
    BY DEF DrawnIn
  <1> QED BY <1>1, <1>2, <1>3, ServerScreens

\* A connection without a live session owes its client nothing.
LEMMA Inactive ==
    ASSUME NEW r, NEW v, NEW n, NEW t, NEW s, ~s.live \/ s.phase # "serving"
    PROVE  Faithful(r, v, n, t, s)
  BY DEF Faithful, Active

\* A connection that ends, or whose join is refused.
LEMMA SilentScreens ==
    ASSUME ScreenInv, SystemInv', UNCHANGED <<net, tui>>, NEW c \in Conn,
           DrawnIn(db'), \A r \in Room : Log(db', r) = Log(db, r),
           NEW x, conns' = [conns EXCEPT ![c] = x], ~x.live \/ x.phase # "serving"
    PROVE  ScreenInv'
  <1>1. conns \in [Conn -> ConnsOf(db.last)]
    BY DEF ScreenInv, SystemInv, ServerInv
  <1>2. conns'[c] = x /\ \A d \in Conn \ {c} : conns'[d] = conns[d]
    BY <1>1
  <1>3. \A i \in Client : (Linked(i) /\ net[i].conn = c) =>
              Faithful(RoomOf[i], Log(db, RoomOf[i]), net[i], tui[i], conns'[c])
    BY <1>2, Inactive
  <1> QED BY <1>2, <1>3, OneScreens

\* A session that is told a frame that says how things are.
LEMMA PlainScreens ==
    ASSUME ScreenInv, SystemInv', UNCHANGED <<net, tui, db>>, NEW c \in Conn,
           conns[c].phase = "serving", NEW f \in SoundFrames(db.last),
           \A i \in Client : (Active(conns[c]) /\ conns[c].room = RoomOf[i])
              => f \in Plain(Log(db, RoomOf[i])),
           conns' = [conns EXCEPT ![c] = Enqueue(@, f)]
    PROVE  ScreenInv'
  <1>1. conns \in [Conn -> ConnsOf(db.last)] /\ DrawnIn(db)
    BY DEF ScreenInv, SystemInv, ServerInv
  <1>2. conns'[c] = Enqueue(conns[c], f) /\ \A d \in Conn \ {c} : conns'[d] = conns[d]
    BY <1>1
  <1>3. \A i \in Client : (Linked(i) /\ net[i].conn = c) =>
              Faithful(RoomOf[i], Log(db, RoomOf[i]), net[i], tui[i], conns'[c])
    <2> SUFFICES ASSUME NEW i \in Client, Linked(i), net[i].conn = c
                 PROVE  Faithful(RoomOf[i], Log(db, RoomOf[i]), net[i], tui[i], conns'[c])
      OBVIOUS
    <2> DEFINE v == Log(db, RoomOf[i])
    <2>1. /\ db.last \in Nat /\ net[i] \in Networks /\ tui[i] \in Models /\ v \in Logs
          /\ Faithful(RoomOf[i], v, net[i], tui[i], conns[c])
      BY Seen
    <2>2. conns[c] \in SessionsOf(db.last)
      BY <1>1, <2>1, Phases
    <2>3. Active(conns[c]) => f \in Plain(v)
      BY <2>1 DEF Faithful
    <2> HIDE DEF v
    <2>4. Faithful(RoomOf[i], v, net[i], tui[i], conns'[c])
      BY <1>2, <2>1, <2>2, <2>3, EnqueuePlain
    <2> QED BY <2>4 DEF v
  <1>4. DrawnIn(db') /\ \A r \in Room : Log(db', r) = Log(db, r)
    BY <1>1
  <1> QED BY <1>2, <1>3, <1>4, OneScreens

\* An answer that something failed.
LEMMA FailScreens ==
    ASSUME ScreenInv, SystemInv', UNCHANGED <<net, tui>>, NEW c \in Conn,
           conns[c].phase = "serving", NEW req \in Asked, Fail(c, req)
    PROVE  ScreenInv'
  <1> DEFINE f == Failure(req)
  <1>1. db.last \in Nat
    BY DEF ScreenInv, SystemInv, ServerInv, Databases
  <1>2. f \in SoundFrames(db.last) /\ f.type = "error"
    BY <1>1, FramesTyped DEF Failure, Error
  <1>3. conns' = [conns EXCEPT ![c] = Enqueue(@, f)] /\ UNCHANGED db
    BY DEF Fail
  <1> HIDE DEF f
  <1>4. \A i \in Client : (Active(conns[c]) /\ conns[c].room = RoomOf[i])
              => f \in Plain(Log(db, RoomOf[i]))
    <2> SUFFICES ASSUME NEW i \in Client PROVE f \in Plain(Log(db, RoomOf[i]))
      OBVIOUS
    <2> DEFINE v == Log(db, RoomOf[i])
    <2>1. f \in Frames /\ \A m \in v.rows : m.id <= v.latest
      BY <1>2, Seen DEF SoundFrames
    <2> HIDE DEF v
    <2>2. f \in Plain(v)
      BY <1>2, <2>1, PlainFrames
    <2> QED BY <2>2 DEF v
  <1> QED BY <1>2, <1>3, <1>4, PlainScreens

\* The server answers with older messages,
LEMMA ServeHistoryScreens ==
    ASSUME ScreenInv, SystemInv', NEW c \in Conn, ServeHistory(c)
    PROVE  ScreenInv'
  <1> DEFINE before == Head(up[c]).before
  <1>1. /\ UNCHANGED <<net, tui>>
        /\ HandleHistory(c, "older", before) \/ HandleFails(c, "older")
    BY DEF ServeHistory, Serve
  <1> HIDE DEF before
  <1>2. conns[c].phase = "serving" /\ "older" \in Asked
    BY <1>1 DEF HandleHistory, HandleFails, Handles, Asked
  <1>3. CASE Fail(c, "older")
    BY <1>1, <1>2, <1>3, FailScreens
  <1>4. CASE ~Fail(c, "older")
    <2> DEFINE page == Page(db, conns[c].room, before, 0, LatestID(db, conns[c].room))
               f == PageFrame("history", "older", page)
    <2>1. conns' = [conns EXCEPT ![c] = Enqueue(@, f)] /\ UNCHANGED db
      BY <1>1, <1>4 DEF HandleHistory, HandleFails
    <2>2. ServerInv /\ db.last \in Nat /\ db \in Databases /\ RowsDrawn
      BY DEF ScreenInv, SystemInv, ServerInv, Databases
    <2>3. conns[c].room \in Room
      BY <1>2, <2>2, InMap DEF SessionsOf, Sessions, ServerInv
    <2>4. page \in Pages(db.last) /\ page.messages \subseteq RoomRows(db, conns[c].room)
      BY <2>2, <2>3, PageTyped
    <2>5. f.type = "history" /\ f.messages = page.messages
      BY DEF PageFrame
    <2> HIDE DEF page
    <2>6. f \in SoundFrames(db.last)
      BY <2>2, <2>4, FramesTyped
    <2> HIDE DEF f
    <2>7. \A i \in Client : (Active(conns[c]) /\ conns[c].room = RoomOf[i])
              => f \in Plain(Log(db, RoomOf[i]))
      <3> SUFFICES ASSUME NEW i \in Client, conns[c].room = RoomOf[i]
                   PROVE  f \in Plain(Log(db, RoomOf[i]))
        OBVIOUS
      <3> DEFINE v == Log(db, RoomOf[i])
      <3>1. f \in Frames /\ (\A m \in v.rows : m.id <= v.latest) /\ v.rows = RoomRows(db, RoomOf[i])
        BY <2>6, Seen DEF SoundFrames, Log
      <3>2. f.messages \subseteq v.rows
        BY <2>4, <2>5, <3>1
      <3> HIDE DEF v
      <3>3. f \in Plain(v)
        BY <2>5, <3>1, <3>2, PlainFrames
      <3> QED BY <3>3 DEF v
    <2> QED BY <1>1, <1>2, <2>1, <2>6, <2>7, PlainScreens
  <1> QED BY <1>3, <1>4

\* or with the next page of the catching up.
LEMMA ServeSyncScreens ==
    ASSUME ScreenInv, SystemInv', NEW c \in Conn, ServeSync(c)
    PROVE  ScreenInv'
  <1> DEFINE after == Head(up[c]).after
  <1>1. /\ UNCHANGED <<net, tui>>
        /\ \/ HandleSync(c, "next", after)
           \/ HandleSyncStorageError(c, "next")
           \/ UNCHANGED vars
    BY DEF ServeSync, Serve
  <1> HIDE DEF after
  <1>2. ServerInv /\ db.last \in Nat /\ db \in Databases /\ RowsDrawn
        /\ conns \in [Conn -> ConnsOf(db.last)] /\ DrawnIn(db)
    BY DEF ScreenInv, SystemInv, ServerInv, Databases
  <1>3. CASE UNCHANGED vars
    <2>1. UNCHANGED <<db, conns>>
      BY <1>3 DEF vars
    <2>2. conns'[c] = conns[c] /\ DrawnIn(db') /\ \A r \in Room : Log(db', r) = Log(db, r)
      BY <1>2, <2>1
    <2>3. \A i \in Client : (Linked(i) /\ net[i].conn = c) =>
              Faithful(RoomOf[i], Log(db, RoomOf[i]), net[i], tui[i], conns'[c])
      BY <2>2, Seen
    <2> QED BY <1>1, <2>1, <2>2, <2>3, OneScreens
  <1>4. CASE HandleSyncStorageError(c, "next")
    <2>1. /\ ~conns'[c].live /\ UNCHANGED db
      BY <1>2, <1>4, SyncErrorKeeps
    <2>2. \A d \in Conn \ {c} : conns'[d] = conns[d]
      BY <1>2, <1>4 DEF HandleSyncStorageError
    <2>3. DrawnIn(db') /\ \A r \in Room : Log(db', r) = Log(db, r)
      BY <1>2, <2>1
    <2>4. \A i \in Client : (Linked(i) /\ net[i].conn = c) =>
              Faithful(RoomOf[i], Log(db, RoomOf[i]), net[i], tui[i], conns'[c])
      BY <2>1, Inactive
    <2> QED BY <1>1, <2>2, <2>3, <2>4, OneScreens
  <1>5. CASE HandleSync(c, "next", after)
    <2>1. conns[c].phase = "serving" /\ "next" \in Asked /\ conns[c].syncing /\ conns[c].live
      BY <1>5 DEF HandleSync, Handles, Asked
    <2>2. CASE Fail(c, "next")
      BY <1>1, <2>1, <2>2, FailScreens
    <2>3. CASE ~Fail(c, "next")
      <3> DEFINE s == conns[c]
                 page == SyncPage(c)
                 f == PageFrame("sync", "next", page)
                 e == Enqueue(s, f)
                 u == SyncSent(c)
                 x == IF page.hasMore THEN u ELSE FinishSync(u)
      <3>1. s \in SessionsOf(db.last) /\ s.room \in Room
        BY <1>2, <2>1, InMap DEF SessionsOf, Sessions
      <3>2. conns' = [conns EXCEPT ![c] = x] /\ UNCHANGED db
        BY <1>5, <2>3 DEF HandleSync, SyncSent, SyncPage
      <3>3. conns'[c] = x /\ \A d \in Conn \ {c} : conns'[d] = conns[d]
        BY <1>2, <3>2
      <3>4. page \in Pages(db.last) /\ page.messages \subseteq RoomRows(db, s.room)
        BY <1>2, <3>1, PageTyped DEF SyncPage
      <3>5. f.type = "sync" /\ f.messages = page.messages
        BY DEF PageFrame
      <3>6. f \in SoundFrames(db.last)
        <4> HIDE DEF page
        <4> QED BY <1>2, <3>4, FramesTyped
      <3>7. u = [e EXCEPT !.cursor = Advance(e.cursor, page)]
        BY DEF SyncSent
      <3>8. /\ u \in SessionsOf(db.last) /\ u.syncing = s.syncing
        BY <1>2, <2>1, SyncSentTyped
      <3> HIDE DEF s, page, f, e, u
      <3>9. ASSUME NEW i \in Client, Linked(i), net[i].conn = c
            PROVE  Faithful(RoomOf[i], Log(db, RoomOf[i]), net[i], tui[i], conns'[c])
        <4> DEFINE v == Log(db, RoomOf[i])
        <4>1. /\ net[i] \in Networks /\ tui[i] \in Models /\ v \in Logs
              /\ \A m \in v.rows : m.id <= v.latest
              /\ Faithful(RoomOf[i], v, net[i], tui[i], s)
              /\ v.rows = RoomRows(db, RoomOf[i])
          BY <3>9, Seen DEF Log, s
        <4>2. Active(s) => f \in Plain(v)
          <5> SUFFICES ASSUME Active(s) PROVE f \in Plain(v)
            OBVIOUS
          <5>1. s.room = RoomOf[i] /\ f \in Frames
            BY <3>6, <4>1 DEF Faithful, SoundFrames
          <5>2. f.messages \subseteq v.rows
            BY <3>4, <3>5, <4>1, <5>1
          <5> HIDE DEF v
          <5> QED BY <3>5, <4>1, <5>1, <5>2, PlainFrames
        <4> HIDE DEF v
        <4>3. Faithful(RoomOf[i], v, net[i], tui[i], e)
          BY <1>2, <3>1, <3>6, <4>1, <4>2, EnqueuePlain DEF e
        <4>4. e \in SessionsOf(db.last) /\ e \in Sessions
          BY <1>2, <3>1, <3>6, EnqueueStream DEF e, SessionsOf
        <4>5. /\ u.live = e.live /\ u.phase = e.phase /\ u.room = e.room /\ u.syncing = e.syncing
              /\ u.through = e.through /\ u.deferred = e.deferred /\ u.outgoing = e.outgoing
          BY <3>7, <4>4 DEF Sessions
        <4>6. Faithful(RoomOf[i], v, net[i], tui[i], u)
          BY <4>3, <4>5 DEF Faithful, Active, Stream
        <4>7. u.syncing
          BY <2>1, <3>8 DEF s
        <4>8. Faithful(RoomOf[i], v, net[i], tui[i], x)
          BY <1>2, <3>8, <4>1, <4>6, <4>7, FinishPlain
        <4> QED BY <3>3, <4>8 DEF v
      <3>10. DrawnIn(db') /\ \A r \in Room : Log(db', r) = Log(db, r)
        BY <1>2, <3>2
      <3> QED BY <1>1, <3>3, <3>9, <3>10, OneScreens
    <2> QED BY <2>2, <2>3
  <1> QED BY <1>1, <1>3, <1>4, <1>5

-----------------------------------------------------------------------------
(* Joins *)

\* A join that is refused is an answer to a client that is not linked to a session.
LEMMA RefuseScreens ==
    ASSUME ScreenInv, SystemInv', UNCHANGED <<net, tui>>, NEW c \in Conn, NEW code,
           NEW r \in Room, Refuse(c, code), db' \in {db, OpenRoom(db, r)}
    PROVE  ScreenInv'
  <1> DEFINE x == Refused(conns[c].live, code)
  <1>1. conns' = [conns EXCEPT ![c] = x] /\ x.phase # "serving"
    BY DEF Refuse, Refused
  <1>2. Counted(db) /\ DrawnIn(db)
    BY DEF ScreenInv, SystemInv, ServerInv, RowsDrawn, Counted
  <1>3. DrawnIn(db') /\ \A p \in Room : Log(db', p) = Log(db, p)
    BY <1>2, OpenLog
  <1> HIDE DEF x
  <1> QED BY <1>1, <1>3, SilentScreens

\* A join that is let in.
LEMMA JoinedScreens ==
    ASSUME ScreenInv, SystemInv', UNCHANGED <<net, tui>>, NEW c \in Conn,
           NEW r \in Room, NEW nick \in Name, NEW o \in Owner, NEW inst, NEW after \in Nat,
           conns[c].phase = "reading", ~InvalidCursor(r, inst, after),
           db' = OpenRoom(db, r), sessions' = Register(sessions, r, nick, c),
           conns' = TellPresence([conns EXCEPT ![c] = NewSession(r, nick, o, inst, after)],
                                 sessions'),
           \A i \in Client : (Linked(i) /\ net[i].conn = c) =>
              r = RoomOf[i] /\ inst = net[i].instance /\ after = net[i].cursor
    PROVE  ScreenInv'
  <1> DEFINE s  == NewSession(r, nick, o, inst, after)
             cs == [conns EXCEPT ![c] = s]
  <1>1. /\ db \in Databases /\ db.last \in Nat /\ RowsDrawn /\ ServerInv
        /\ SessionInv /\ DOMAIN sessions \subseteq Room \X Name
        /\ Counted(db) /\ DrawnIn(db) /\ conns \in [Conn -> ConnsOf(db.last)]
    BY DEF ScreenInv, SystemInv, ServerInv, Databases, SessionInv, RowsDrawn, Counted
  <1>2. DrawnIn(db') /\ \A p \in Room : Log(db', p) = Log(db, p)
    BY <1>1, OpenLog
  <1>3. Fresh(s, r, nick, o, inst, after)
    BY <1>1, NewSessionFresh
  <1>4. conns' = TellPresence(cs, sessions')
    OBVIOUS
  <1> HIDE DEF s
  <1>5. cs[c] = s /\ \A d \in Conn \ {c} : cs[d] = conns[d]
    BY <1>1
  <1> HIDE DEF cs
  <1>6. s \in SessionsOf(db.last) /\ s.phase = "serving"
    BY <1>3 DEF Fresh, SessionsOf, Sessions
  <1>7. \A d \in Conn : cs[d] \in ConnsOf(db.last)
    BY <1>1, <1>5, <1>6 DEF ConnsOf
  <1>8. /\ DOMAIN sessions' = DOMAIN sessions \cup {<<r, nick>>}
        /\ \A key \in DOMAIN sessions' : key = <<r, nick>> \/ sessions'[key] = sessions[key]
        /\ sessions'[<<r, nick>>] = c
    BY DEF Register
  <1>9. \A d \in Conn : d \in Registered(sessions') => cs[d].phase = "serving"
    <2> SUFFICES ASSUME NEW d \in Conn, d \in Registered(sessions') PROVE cs[d].phase = "serving"
      OBVIOUS
    <2>1. d = c \/ d \in Registered(sessions)
      BY <1>8 DEF Registered
    <2> QED BY <1>1, <1>5, <1>6, <2>1, InMap
  <1>10. DOMAIN sessions' \subseteq Room \X Name
    BY <1>1, <1>8
  <1>11. \A i \in Client : Linked(i) =>
           Faithful(RoomOf[i], Log(db', RoomOf[i]), net[i], tui[i], conns'[net[i].conn])
    <2> SUFFICES ASSUME NEW i \in Client, Linked(i)
                 PROVE  Faithful(RoomOf[i], Log(db', RoomOf[i]), net[i], tui[i], conns'[net[i].conn])
      OBVIOUS
    <2> DEFINE v == Log(db, RoomOf[i])
               d == net[i].conn
    <2>1. /\ net[i] \in Networks /\ tui[i] \in Models /\ RoomOf[i] \in Room /\ v \in Logs
          /\ \A m \in v.rows : m.id <= v.latest
          /\ Base(v, net[i], tui[i]) /\ d \in Conn
          /\ Faithful(RoomOf[i], v, net[i], tui[i], conns[d])
          /\ ClientOk(i, net[i], tui[i], conns[d], up[d])
      BY Seen
    <2>2. Log(db', RoomOf[i]) = v
      BY <1>2, <2>1
    <2>3. Faithful(RoomOf[i], v, net[i], tui[i], cs[d])
      <3>1. CASE d # c
        BY <1>5, <2>1, <3>1
      <3>2. CASE d = c
        <4>1. ~net[i].welcomed
          BY <2>1, <3>2 DEF ClientOk, Waits
        <4>2. r = RoomOf[i] /\ Fresh(s, RoomOf[i], nick, o, net[i].instance, net[i].cursor)
          BY <1>3, <3>2
        <4>3. Faithful(RoomOf[i], Log(db, RoomOf[i]), net[i], tui[i], s)
          BY <1>1, <2>1, <4>1, <4>2, FreshFaithful
        <4> QED BY <1>5, <3>2, <4>3
      <3> QED BY <3>1, <3>2
    <2> HIDE DEF v, d
    <2>4. Faithful(RoomOf[i], v, net[i], tui[i], TellPresence(cs, sessions')[d])
      BY <1>1, <1>7, <1>9, <1>10, <2>1, <2>3, TellFaithful
    <2> QED BY <1>4, <2>2, <2>4 DEF d
  <1>12. \A i \in Client : Grew(Log(db, RoomOf[i]), Log(db', RoomOf[i]))
                          \/ Renewed(Log(db, RoomOf[i]), Log(db', RoomOf[i]))
    <2> SUFFICES ASSUME NEW i \in Client PROVE Grew(Log(db, RoomOf[i]), Log(db', RoomOf[i]))
      OBVIOUS
    <2> QED BY <1>1, <1>2, Seen, SameLog
  <1>13. DrawnIn(db)'
    BY <1>2 DEF DrawnIn
  <1> QED BY <1>11, <1>12, <1>13, ServerScreens

\* The server handles a join.
LEMMA ServeJoinScreens ==
    ASSUME ScreenInv, SystemInv', NEW c \in Conn, ServeJoin(c) \/ ServeJoinInvalid(c)
    PROVE  ScreenInv'
  <1>0. /\ Requested(c, "join") /\ up[c] # <<>> /\ UNCHANGED <<net, tui>> /\ SystemInv
    BY DEF ServeJoin, ServeJoinInvalid, Serve, ScreenInv
  <1> DEFINE q == Head(up[c])
             r == RoomOf[q.client]
             nick == NickOf[q.client]
  <1>1. q \in JoinRequests
    <2>1. q \in Requests /\ q.type = "join"
      BY <1>0, ServeFacts DEF Requested
    <2> HIDE DEF q
    <2> QED BY <2>1 DEF Requests
  <1>2. q.client \in Client /\ q.client \in Owner /\ q.after \in Nat
        /\ r \in Room /\ nick \in Name
    <2>1. q.client \in Client /\ q.after \in Nat
      BY <1>1 DEF JoinRequests
    <2> HIDE DEF q
    <2> QED BY <2>1, ClientAssumption
  <1>3. \/ Join(c, r, nick, q.client, q.instance, q.after)
        \/ JoinClosed(c)
        \/ JoinStorageError(c, r, nick)
        \/ JoinInvalid(c, "unauthorized")
    BY DEF ServeJoin, ServeJoinInvalid, Serve
  <1> HIDE DEF q, r, nick
  <1>4. CASE JoinClosed(c) \/ JoinStorageError(c, r, nick) \/ JoinInvalid(c, "unauthorized")
    <2>1. (\E code : Refuse(c, code)) /\ db' \in {db, OpenRoom(db, r)}
      BY <1>4 DEF JoinClosed, JoinStorageError, JoinInvalid
    <2> QED BY <1>0, <1>2, <2>1, RefuseScreens
  <1>5. CASE Join(c, r, nick, q.client, q.instance, q.after)
    <2>1. conns[c].phase = "reading" /\ db' = OpenRoom(db, r)
      BY <1>5 DEF Join
    <2>2. \A i \in Client : (Linked(i) /\ net[i].conn = c) =>
              r = RoomOf[i] /\ q.instance = net[i].instance /\ q.after = net[i].cursor
      <3> SUFFICES ASSUME NEW i \in Client, Linked(i), net[i].conn = c
                   PROVE  r = RoomOf[i] /\ q.instance = net[i].instance /\ q.after = net[i].cursor
        OBVIOUS
      <3>1. ClientOk(i, net[i], tui[i], conns[c], up[c])
        BY <1>0, ServeFacts
      <3>2. up[c] = <<[type |-> "join", client |-> i, instance |-> net[i].instance,
                       after |-> net[i].cursor]>>
        BY <2>1, <3>1 DEF ClientOk, CatchesUpInv
      <3>3. q.client = i /\ q.instance = net[i].instance /\ q.after = net[i].cursor
        BY <3>2 DEF q
      <3> QED BY <3>3 DEF r
    <2>3. CASE \E code : Refuse(c, code)
      BY <1>0, <1>2, <2>1, <2>3, RefuseScreens
    <2>4. CASE /\ ~InvalidCursor(r, q.instance, q.after)
               /\ sessions' = Register(sessions, r, nick, c)
               /\ conns' = TellPresence(
                     [conns EXCEPT ![c] = NewSession(r, nick, q.client, q.instance, q.after)],
                     sessions')
      BY <1>0, <1>2, <2>1, <2>2, <2>4, JoinedScreens
    <2> QED BY <1>5, <2>3, <2>4 DEF Join
  <1> QED BY <1>3, <1>4, <1>5

-----------------------------------------------------------------------------
(* Messages that are sent *)

\* News of a room that says how things are.
LEMMA BroadcastFaithful ==
    ASSUME NEW k \in Nat, NEW d \in Conn, conns[d] \in ConnsOf(k),
           d \in Registered(sessions) => conns[d].phase = "serving",
           NEW p, NEW asker, NEW frame \in SoundFrames(k), NEW answer \in SoundFrames(k),
           NEW r, NEW v \in Logs, NEW n \in Networks, NEW t \in Models,
           Faithful(r, v, n, t, conns[d]),
           r = p => frame \in Plain(v) /\ answer \in Plain(v)
    PROVE  Faithful(r, v, n, t, Broadcast(conns, sessions, p, frame, asker, answer)[d])
  <1> DEFINE f == IF d = asker THEN answer ELSE frame
             x == Broadcast(conns, sessions, p, frame, asker, answer)[d]
  <1>1. CASE d \notin InRoom(conns, sessions, p)
    <2>1. x = conns[d]
      BY <1>1 DEF Broadcast
    <2> QED BY <2>1
  <1>2. CASE d \in InRoom(conns, sessions, p)
    <2>1. x = Deliver(conns[d], f)
      BY <1>2 DEF Broadcast
    <2>2. conns[d] \in SessionsOf(k) /\ conns[d].room = p
      BY <1>2, Phases DEF InRoom
    <2>3. f \in SoundFrames(k) /\ (r = p => f \in Plain(v))
      OBVIOUS
    <2>4. Active(conns[d]) => f \in Plain(v)
      BY <2>2, <2>3 DEF Faithful
    <2> HIDE DEF f, x
    <2>5. Faithful(r, v, n, t, x)
      BY <2>1, <2>2, <2>3, <2>4, DeliverPlain
    <2> QED BY <2>5 DEF x
  <1> QED BY <1>1, <1>2

\* A message that is sent.
LEMMA SentScreens ==
    ASSUME ScreenInv, SystemInv', UNCHANGED <<net, tui>>, NEW c \in Conn,
           HandleSend(c, "send"), ~Fail(c, "send")
    PROVE  ScreenInv'
  <1> DEFINE r == conns[c].room
             o == conns[c].owner
             m == NewRow(db, r, o)
             told == Broadcast(conns, sessions, r, Message("", m), c, Message("send", m))
             k == db.last + 1
             a == Message("", m)
             b == Message("send", m)
             e == Ack("send", m)
  <1>1. /\ db.last \in Nat /\ ServerInv /\ Counted(db) /\ DrawnIn(db)
        /\ conns[c].phase = "serving"
    BY DEF ScreenInv, SystemInv, ServerInv, Databases, RowsDrawn, Counted, HandleSend, Handles
  <1>0. k \in Nat /\ db.last <= k
    BY <1>1
  <1>19. /\ db' = AppendChat(db, r, o)
         /\ conns' = [told EXCEPT ![c] = Enqueue(@, e)]
    BY DEF HandleSend
  <1>2. conns[c] \in SessionsOf(db.last)
    BY <1>1, InMap
  <1>3. r \in Room /\ o \in Owner
    BY <1>2 DEF SessionsOf, Sessions
  <1>4. /\ DrawnIn(db') /\ m \in Log(db', r).rows /\ m \in Row /\ m.id <= k /\ db'.last = k
        /\ \A q \in Room : Grew(Log(db, q), Log(db', q)) /\ Counted(db')
    <2>1. ASSUME NEW q \in Room
          PROVE  /\ Counted(db') /\ (DrawnIn(db) => DrawnIn(db'))
                 /\ Grew(Log(db, q), Log(db', q))
                 /\ NewRow(db, r, o) \in Log(db', r).rows /\ NewRow(db, r, o) \in Row
                 /\ NewRow(db, r, o).id <= db'.last
                 /\ db'.last = db.last + 1
      <3> HIDE DEF k, a, b, e, r, o, m, told
      <3> QED BY <1>1, <1>3, <1>19, AppendLog
    <2> QED BY <1>1, <1>3, <2>1
  <1>5. /\ ConnsOf(db.last) \subseteq ConnsOf(k)
        /\ SessionsOf(db.last) \subseteq SessionsOf(k)
    BY <1>0, <1>1, Grown
  <1>6. \A d \in Conn : /\ conns[d] \in ConnsOf(k)
                        /\ d \in Registered(sessions) => conns[d].phase = "serving"
    BY <1>1, <1>5, InMap DEF ServerInv
  <1> HIDE DEF k, m, r, o
  <1>7. a \in SoundFrames(k) /\ b \in SoundFrames(k) /\ e \in SoundFrames(k)
    BY <1>0, <1>4, FramesTyped
  <1>8. /\ a.type = "message" /\ a.message = m /\ b.type = "message" /\ b.message = m
        /\ e.type = "ack" /\ e.message = m
    BY DEF Message, Ack
  <1>9. told = Broadcast(conns, sessions, r, a, c, b)
    OBVIOUS
  <1> HIDE DEF a, b, e, told
  <1>10. a \in Frames /\ b \in Frames /\ e \in Frames
    BY <1>7 DEF SoundFrames
  <1>11. told = [d \in Conn |-> told[d]]
    BY <1>9 DEF Broadcast
  <1>12. conns'[c] = Enqueue(told[c], e) /\ \A d \in Conn \ {c} : conns'[d] = told[d]
    BY <1>11, <1>19
  <1>13. told[c] \in ConnsOf(k) /\ Told(told[c], conns[c])
    <2> DEFINE x == Broadcast(conns, sessions, r, a, c, b)
    <2>1. /\ x[c] \in ConnsOf(k) /\ Told(x[c], conns[c])
          /\ (c = c /\ c \in Registered(sessions) /\ conns[c].room = r /\ ~conns[c].syncing)
             => Says(x[c], b)
      BY <1>0, <1>6, <1>7, BroadcastTyped
    <2> QED BY <1>9, <2>1
  <1>14. told[c].phase = "serving" /\ told[c].room = r
    BY <1>1, <1>13 DEF Told, Grows, r
  <1>15. told[c] \in SessionsOf(k)
    BY <1>0, <1>13, <1>14, Phases
  <1>16. \A i \in Client : Linked(i) =>
           Faithful(RoomOf[i], Log(db', RoomOf[i]), net[i], tui[i], conns'[net[i].conn])
    <2> SUFFICES ASSUME NEW i \in Client, Linked(i)
                 PROVE  Faithful(RoomOf[i], Log(db', RoomOf[i]), net[i], tui[i], conns'[net[i].conn])
      OBVIOUS
    <2> DEFINE q == RoomOf[i]
               v == Log(db, q)
               w == Log(db', q)
               d == net[i].conn
    <2>1. /\ net[i] \in Networks /\ tui[i] \in Models /\ q \in Room /\ v \in Logs
          /\ d \in Conn /\ conns[d] \in ConnsOf(db.last)
          /\ Faithful(q, v, net[i], tui[i], conns[d])
      BY Seen
    <2>2. Grew(v, w) /\ w \in Logs /\ \A x \in w.rows : x.id <= w.latest
      BY <1>4, <2>1, LogTyped
    <2>3. q = r => m \in w.rows
      BY <1>4
    <2> HIDE DEF q, v, w, d
    <2>4. q = r => a \in Plain(w) /\ b \in Plain(w) /\ e \in Plain(w)
      BY <1>8, <1>10, <2>2, <2>3, PlainFrames
    <2>5. Faithful(q, w, net[i], tui[i], conns[d])
      <3>1. CASE conns[d].phase # "serving"
        BY <3>1, Inactive
      <3>2. CASE conns[d].phase = "serving"
        <4>1. conns[d] \in SessionsOf(db.last)
          BY <1>1, <2>1, <3>2, Phases
        <4>2. /\ v.rows \subseteq w.rows /\ v.latest <= w.latest /\ v.drawn <= w.drawn
              /\ w.instance = v.instance /\ w.epoch = v.epoch
          BY <2>2 DEF Grew
        <4> QED BY <1>1, <2>1, <2>2, <4>1, <4>2, GrowSession
      <3> QED BY <3>1, <3>2
    <2>6. conns[d] \in ConnsOf(k) /\ (d \in Registered(sessions) => conns[d].phase = "serving")
      BY <1>6, <2>1
    <2>7. Faithful(q, w, net[i], tui[i], told[d])
      <3>1. Faithful(q, w, net[i], tui[i], Broadcast(conns, sessions, r, a, c, b)[d])
        BY <1>0, <1>7, <2>1, <2>2, <2>4, <2>5, <2>6, BroadcastFaithful
      <3> QED BY <1>9, <3>1
    <2>8. CASE d # c
      BY <1>12, <2>1, <2>7, <2>8 DEF q, w, d
    <2>9. CASE d = c
      <3>1. Active(told[c]) => e \in Plain(w)
        BY <1>14, <2>4, <2>7, <2>9 DEF Faithful
      <3>2. Faithful(q, w, net[i], tui[i], told[c])
        BY <2>7, <2>9
      <3> DEFINE s == told[c]
                 x == Enqueue(s, e)
      <3>3. s \in SessionsOf(k) /\ Faithful(q, w, net[i], tui[i], s)
            /\ (Active(s) => e \in Plain(w))
        BY <1>15, <3>1, <3>2
      <3> HIDE DEF s
      <3>4. Faithful(q, w, net[i], tui[i], x)
        BY <1>0, <1>7, <2>1, <2>2, <3>3, EnqueuePlain
      <3>5. conns'[d] = x
        BY <1>12, <2>9 DEF s
      <3> QED BY <3>4, <3>5 DEF q, w, d
    <2> QED BY <2>8, <2>9
  <1>17. \A i \in Client : Grew(Log(db, RoomOf[i]), Log(db', RoomOf[i]))
                          \/ Renewed(Log(db, RoomOf[i]), Log(db', RoomOf[i]))
    BY <1>4, Seen
  <1>18. DrawnIn(db)'
    BY <1>4 DEF DrawnIn
  <1> QED BY <1>16, <1>17, <1>18, ServerScreens

\* The server handles a send.
LEMMA ServeSendScreens ==
    ASSUME ScreenInv, SystemInv', NEW c \in Conn, ServeSend(c)
    PROVE  ScreenInv'
  <1>1. /\ UNCHANGED <<net, tui>>
        /\ HandleSend(c, "send") \/ HandleFails(c, "send")
    BY DEF ServeSend, Serve
  <1>2. conns[c].phase = "serving" /\ "send" \in Asked
    BY <1>1 DEF HandleSend, HandleFails, Handles, Asked
  <1>3. CASE Fail(c, "send")
    BY <1>1, <1>2, <1>3, FailScreens
  <1>4. CASE HandleSend(c, "send") /\ ~Fail(c, "send")
    BY <1>1, <1>4, SentScreens
  <1> QED BY <1>1, <1>3, <1>4 DEF HandleFails

-----------------------------------------------------------------------------
(* Messages that are recalled *)

\* What a recall, or its repetition, makes of the log of a room.
RecalledLog(v, w, shown) ==
    /\ shown \in w.rows /\ w.instance = v.instance /\ w.latest = v.latest
    /\ w = v \/ (Renewed(v, w) /\ w.epoch > v.drawn)
    /\ v.drawn <= w.drawn
    /\ \A x \in v.rows : x \in w.rows \/ (w # v /\ x.id = shown.id)

\* A recall replaces the row, a repeated one finds it replaced.
LEMMA RecalledLogs ==
    ASSUME NEW d, Counted(d), DrawnIn(d), NEW m \in d.rows, NEW q \in Room,
           NEW e, e = IF m.recalled THEN d ELSE RecallRow(d, m),
           NEW shown, shown = [m EXCEPT !.recalled = TRUE]
    PROVE  /\ Counted(e) /\ DrawnIn(e) /\ e.last = d.last
           /\ shown \in Row /\ shown.id = m.id
           /\ q # m.room => Grew(Log(d, q), Log(e, q))
           /\ q = m.room => RecalledLog(Log(d, q), Log(e, q), shown)
  <1> DEFINE v == Log(d, q)
             w == Log(e, q)
  <1>1. m \in Row /\ v.drawn \in Nat
    BY LogTyped DEF Counted, Databases, Logs
  <1>2. CASE ~m.recalled
    <2>1. e = RecallRow(d, m)
      BY <1>2
    <2> HIDE DEF v, w
    <2>2. /\ Counted(e) /\ DrawnIn(e) /\ e.last = d.last
          /\ shown \in Row /\ shown.id = m.id
          /\ q # m.room => Grew(v, w)
          /\ q = m.room =>
                /\ Renewed(v, w) /\ w.epoch > v.drawn
                /\ w.instance = v.instance /\ w.latest = v.latest
                /\ shown \in w.rows
                /\ \A x \in v.rows : x \in w.rows \/ x.id = m.id
      BY <2>1, RecallLog DEF v, w
    <2>3. ASSUME q = m.room PROVE RecalledLog(v, w, shown)
      <3>1. w # v
        <4>1. v.epoch <= v.drawn /\ v.epoch \in Nat
          BY LogTyped DEF v, DrawnIn, Log, Logs
        <4> QED BY <1>1, <2>2, <2>3, <4>1 DEF v
      <3>2. v.drawn <= w.drawn
        BY <2>2, <2>3 DEF Renewed
      <3> QED BY <2>2, <2>3, <3>1, <3>2 DEF RecalledLog
    <2> QED BY <2>2, <2>3 DEF v, w
  <1>3. CASE m.recalled
    <2>1. e = d /\ w = v
      BY <1>3
    <2>2. shown = m
      BY <1>1, <1>3 DEF Row
    <2>3. q = m.room => m \in v.rows
      BY DEF Log, RoomRows
    <2>4. v.drawn <= v.drawn
      BY <1>1
    <2> HIDE DEF v, w
    <2>5. Grew(v, w)
      BY <2>1, SameLog DEF v, w
    <2>6. q = m.room => RecalledLog(v, w, shown)
      BY <2>1, <2>2, <2>3, <2>4 DEF RecalledLog
    <2> QED BY <1>1, <2>1, <2>2, <2>5, <2>6 DEF v, w
  <1> QED BY <1>2, <1>3

\* The sessions of the room are told of a recall, those of others are not.
LEMMA RecallFaithful ==
    ASSUME NEW k \in Nat, NEW d \in Conn, conns[d] \in ConnsOf(k),
           d \in Registered(sessions) <=> conns[d].phase = "serving",
           NEW p, NEW asker, NEW frame \in SoundFrames(k), NEW answer \in SoundFrames(k),
           NEW r, NEW v \in Logs, NEW w \in Logs, NEW n \in Networks, NEW t \in Models,
           Faithful(r, v, n, t, conns[d]), Base(v, n, t),
           NEW shown, frame.type = "recalled", answer.type = "recalled",
           frame.message = shown, answer.message = shown,
           r = p => /\ frame.instance[1] = w.instance /\ frame.instance[2] = w.epoch
                    /\ answer.instance[1] = w.instance /\ answer.instance[2] = w.epoch
                    /\ RecalledLog(v, w, shown),
           r # p => Grew(v, w),
           \A m \in w.rows : m.id <= w.latest,
           w.instance <= w.drawn, w.epoch <= w.drawn, v.epoch <= v.drawn
    PROVE  Faithful(r, w, n, t, Broadcast(conns, sessions, p, frame, asker, answer)[d])
  <1> DEFINE f == IF d = asker THEN answer ELSE frame
             s == conns[d]
             x == Broadcast(conns, sessions, p, frame, asker, answer)[d]
  <1>1. f \in SoundFrames(k) /\ f.type = "recalled" /\ f.message = shown
        /\ (r = p => f.instance[1] = w.instance /\ f.instance[2] = w.epoch)
    OBVIOUS
  <1>2. /\ d \notin InRoom(conns, sessions, p) => x = s
        /\ d \in InRoom(conns, sessions, p) => x = Deliver(s, f)
    BY DEF Broadcast
  <1>3. d \in InRoom(conns, sessions, p) <=> (s.phase = "serving" /\ s.room = p)
    BY DEF InRoom
  <1>4. (s.phase = "serving" <=> s \in SessionsOf(k)) /\ s \in ConnsOf(k)
    BY Phases
  <1> HIDE DEF f, x, s
  <1>5. Faithful(r, v, n, t, s)
    BY DEF s
  <1>6. CASE ~Active(s)
    <2>1. Faithful(r, w, n, t, s)
      BY <1>6 DEF Faithful
    <2>2. CASE d \notin InRoom(conns, sessions, p)
      BY <1>2, <2>1, <2>2 DEF x
    <2>3. CASE d \in InRoom(conns, sessions, p)
      <3>1. s \in SessionsOf(k) /\ x = Deliver(s, f)
        BY <1>2, <1>3, <1>4, <2>3
      <3>2. Faithful(r, w, n, t, x)
        BY <1>1, <1>6, <2>1, <3>1, DeliverPlain
      <3> QED BY <3>2 DEF x
    <2> QED BY <2>2, <2>3 DEF x
  <1>7. CASE Active(s)
    <2>1. s.room = r /\ s \in SessionsOf(k) /\ s.phase = "serving"
      BY <1>4, <1>5, <1>7 DEF Faithful, Active
    <2>2. CASE r # p
      <3>1. x = s
        BY <1>2, <1>3, <2>1, <2>2
      <3>2. /\ v.rows \subseteq w.rows /\ v.latest <= w.latest /\ v.drawn <= w.drawn
            /\ w.instance = v.instance /\ w.epoch = v.epoch
        BY <2>2 DEF Grew
      <3>3. Faithful(r, w, n, t, s)
        BY <1>5, <2>1, <3>2, GrowSession
      <3> QED BY <3>1, <3>3 DEF x
    <2>3. CASE r = p
      <3>1. x = Deliver(s, f)
        BY <1>2, <1>3, <2>1, <2>3
      <3>2. /\ f.message \in w.rows /\ f.message.id <= w.latest
            /\ f.instance[1] = w.instance /\ f.instance[2] = w.epoch
            /\ w.instance = v.instance /\ w.latest = v.latest
            /\ v.drawn <= w.drawn
            /\ w = v \/ w.epoch > v.drawn
            /\ \A m \in v.rows : m \in w.rows \/ (w # v /\ m.id = f.message.id)
        BY <1>1, <2>3 DEF RecalledLog
      <3>3. Faithful(r, w, n, t, x)
        BY <1>1, <1>5, <2>1, <3>1, <3>2, DeliverRecall
      <3> QED BY <3>3 DEF x
    <2> QED BY <2>2, <2>3
  <1> QED BY <1>6, <1>7

\* A recall, or its repetition, is announced.
LEMMA RecalledScreens ==
    ASSUME ScreenInv, SystemInv', UNCHANGED <<net, tui>>, NEW c \in Conn, NEW id,
           HandleRecall(c, "recall", id), ~Fail(c, "recall")
    PROVE  ScreenInv'
  <1>1. /\ db.last \in Nat /\ ServerInv /\ Counted(db) /\ DrawnIn(db)
        /\ conns[c].phase = "serving"
    BY DEF ScreenInv, SystemInv, ServerInv, Databases, RowsDrawn, Counted, HandleRecall, Handles
  <1>2. PICK m \in OwnRows(db, conns[c].room, id, conns[c].owner) :
           /\ db' = IF m.recalled THEN db ELSE RecallRow(db, m)
           /\ conns' = Broadcast(conns, sessions, m.room,
                          Recalled("", [m EXCEPT !.recalled = TRUE], InstanceID(db', m.room)), c,
                          Recalled("recall", [m EXCEPT !.recalled = TRUE], InstanceID(db', m.room)))
    BY DEF HandleRecall
  <1> DEFINE p     == m.room
             shown == [m EXCEPT !.recalled = TRUE]
             inst  == InstanceID(db', p)
             f     == Recalled("", shown, inst)
             g     == Recalled("recall", shown, inst)
  <1>3. m \in db.rows /\ m \in Row /\ p \in Room /\ m.id <= db.last
    BY <1>1 DEF OwnRows, RoomRows, Counted, Databases, Row
  <1>4. conns' = Broadcast(conns, sessions, p, f, c, g)
    BY <1>2
  <1> HIDE DEF shown
  <1>5. \A q \in Room :
           /\ Counted(db') /\ DrawnIn(db') /\ db'.last = db.last
           /\ shown \in Row /\ shown.id = m.id
           /\ q # p => Grew(Log(db, q), Log(db', q))
           /\ q = p => RecalledLog(Log(db, q), Log(db', q), shown)
    BY <1>1, <1>2, <1>3, RecalledLogs DEF shown
  <1>6. shown \in Row /\ shown.id <= db.last /\ Counted(db') /\ DrawnIn(db')
    BY <1>3, <1>5
  <1>7. inst \in InstanceIDs
    BY <1>3, <1>6, InstanceTyped DEF Counted
  <1>8. inst[1] = db'.instance /\ inst[2] = db'.epoch[p]
    BY DEF InstanceID
  <1> HIDE DEF inst, p
  <1>9. f \in SoundFrames(db.last) /\ g \in SoundFrames(db.last)
    BY <1>1, <1>6, <1>7, FramesTyped
  <1>10. /\ f.type = "recalled" /\ f.message = shown /\ f.instance = inst
         /\ g.type = "recalled" /\ g.message = shown /\ g.instance = inst
    BY DEF Recalled
  <1> HIDE DEF f, g
  <1>11. \A i \in Client : Linked(i) =>
           Faithful(RoomOf[i], Log(db', RoomOf[i]), net[i], tui[i], conns'[net[i].conn])
    <2> SUFFICES ASSUME NEW i \in Client, Linked(i)
                 PROVE  Faithful(RoomOf[i], Log(db', RoomOf[i]), net[i], tui[i], conns'[net[i].conn])
      OBVIOUS
    <2> DEFINE q == RoomOf[i]
               v == Log(db, q)
               w == Log(db', q)
               d == net[i].conn
    <2>1. /\ net[i] \in Networks /\ tui[i] \in Models /\ q \in Room /\ v \in Logs
          /\ d \in Conn /\ conns[d] \in ConnsOf(db.last)
          /\ Base(v, net[i], tui[i])
          /\ Faithful(q, v, net[i], tui[i], conns[d])
      BY Seen
    <2>2. w \in Logs /\ \A x \in w.rows : x.id <= w.latest
      BY <1>6, <2>1, LogTyped
    <2>3. w.instance <= w.drawn /\ w.epoch <= w.drawn /\ v.epoch <= v.drawn
          /\ w.instance = db'.instance /\ w.epoch = db'.epoch[q]
      BY <1>1, <1>6, <2>1 DEF Log, DrawnIn
    <2>4. q # p => Grew(v, w)
      BY <1>5, <2>1
    <2>5. q = p => /\ f.instance[1] = w.instance /\ f.instance[2] = w.epoch
                   /\ g.instance[1] = w.instance /\ g.instance[2] = w.epoch
                   /\ RecalledLog(v, w, shown)
      BY <1>5, <1>8, <1>10, <2>1, <2>3
    <2>6. d \in Registered(sessions) <=> conns[d].phase = "serving"
      BY <1>1, <2>1, InMap
    <2> HIDE DEF q, v, w, d
    <2>7. Faithful(q, w, net[i], tui[i], Broadcast(conns, sessions, p, f, c, g)[d])
      BY <1>1, <1>9, <1>10, <2>1, <2>2, <2>3, <2>4, <2>5, <2>6, RecallFaithful
    <2> QED BY <1>4, <2>7 DEF q, w, d
  <1>12. \A i \in Client : Grew(Log(db, RoomOf[i]), Log(db', RoomOf[i]))
                          \/ Renewed(Log(db, RoomOf[i]), Log(db', RoomOf[i]))
    <2> SUFFICES ASSUME NEW i \in Client
                 PROVE  Grew(Log(db, RoomOf[i]), Log(db', RoomOf[i]))
                        \/ Renewed(Log(db, RoomOf[i]), Log(db', RoomOf[i]))
      OBVIOUS
    <2> DEFINE v == Log(db, RoomOf[i])
               w == Log(db', RoomOf[i])
    <2>1. Grew(v, w) \/ RecalledLog(v, w, shown)
      BY <1>5, Seen
    <2>2. Grew(v, v)
      BY <1>1, Seen, SameLog
    <2> HIDE DEF v, w
    <2>3. Grew(v, w) \/ Renewed(v, w)
      BY <2>1, <2>2 DEF RecalledLog
    <2> QED BY <2>3 DEF v, w
  <1>13. DrawnIn(db)'
    BY <1>6 DEF DrawnIn
  <1> QED BY <1>11, <1>12, <1>13, ServerScreens

\* The server handles a recall.
LEMMA ServeRecallScreens ==
    ASSUME ScreenInv, SystemInv', NEW c \in Conn, ServeRecall(c)
    PROVE  ScreenInv'
  <1> DEFINE id == Head(up[c]).id
  <1>1. /\ UNCHANGED <<net, tui>>
        /\ HandleRecall(c, "recall", id) \/ HandleFails(c, "recall")
    BY DEF ServeRecall, Serve
  <1> HIDE DEF id
  <1>2. conns[c].phase = "serving" /\ "recall" \in Asked
    BY <1>1 DEF HandleRecall, HandleFails, Handles, Asked
  <1>3. CASE Fail(c, "recall")
    BY <1>1, <1>2, <1>3, FailScreens
  <1>4. CASE HandleRecall(c, "recall", id) /\ ~Fail(c, "recall")
    BY <1>1, <1>4, RecalledScreens
  <1> QED BY <1>1, <1>3, <1>4 DEF HandleFails

-----------------------------------------------------------------------------
(* Sessions that end, and cleanups *)

\* A step that no log and no connection takes part in.
LEMMA IdleScreens ==
    ASSUME ScreenInv, SystemInv', UNCHANGED <<net, tui, db, conns>>
    PROVE  ScreenInv'
  <1>1. \A i \in Client : Grew(Log(db, RoomOf[i]), Log(db', RoomOf[i]))
                          \/ Renewed(Log(db, RoomOf[i]), Log(db', RoomOf[i]))
    <2> SUFFICES ASSUME NEW i \in Client PROVE Grew(Log(db, RoomOf[i]), Log(db', RoomOf[i]))
      OBVIOUS
    <2> QED BY Seen, SameLog
  <1>2. \A i \in Client : Linked(i) =>
           Faithful(RoomOf[i], Log(db', RoomOf[i]), net[i], tui[i], conns'[net[i].conn])
    BY Seen
  <1>3. DrawnIn(db)'
    BY DEF ScreenInv, DrawnIn
  <1> QED BY <1>1, <1>2, <1>3, ServerScreens

\* A session is left.
LEMMA LeaveScreens ==
    ASSUME ScreenInv, SystemInv', UNCHANGED <<net, tui>>, NEW c \in Conn, Leave(c)
    PROVE  ScreenInv'
  <1> DEFINE gone == [conns EXCEPT ![c] = Free]
             mine == <<conns[c].room, conns[c].name>> \in DOMAIN sessions
                     /\ sessions[<<conns[c].room, conns[c].name>>] = c
  <1>1. /\ db.last \in Nat /\ ServerInv /\ DrawnIn(db) /\ DOMAIN sessions \subseteq Room \X Name
        /\ conns \in [Conn -> ConnsOf(db.last)]
    BY DEF ScreenInv, SystemInv, ServerInv, SessionInv, Databases
  <1>2. conns'[c] = Free /\ UNCHANGED db
    BY <1>1, LeaveKeeps
  <1>3. gone[c] = Free /\ \A d \in Conn \ {c} : gone[d] = conns[d]
    BY <1>1
  <1>4. conns' = gone \/ conns' = TellPresence(gone, sessions')
    BY DEF Leave
  <1>5. /\ DOMAIN sessions' \subseteq DOMAIN sessions
        /\ \A key \in DOMAIN sessions' : sessions'[key] = sessions[key]
    BY DEF Leave, Unregister
  <1> HIDE DEF gone
  <1>6. DOMAIN sessions' \subseteq Room \X Name /\ Registered(sessions') \subseteq Registered(sessions)
    BY <1>1, <1>5 DEF Registered
  <1>7. ASSUME NEW i \in Client, Linked(i)
        PROVE  Faithful(RoomOf[i], Log(db, RoomOf[i]), net[i], tui[i], conns'[net[i].conn])
    <2> DEFINE v == Log(db, RoomOf[i])
               d == net[i].conn
    <2>1. /\ net[i] \in Networks /\ tui[i] \in Models /\ v \in Logs
          /\ \A m \in v.rows : m.id <= v.latest
          /\ d \in Conn /\ Faithful(RoomOf[i], v, net[i], tui[i], conns[d])
      BY <1>7, Seen
    <2> HIDE DEF v, d
    <2>2. CASE d = c
      <3>1. ~conns'[d].live
        BY <1>2, <2>2 DEF Free
      <3> QED BY <3>1, Inactive DEF v, d
    <2>3. CASE d # c
      <3>1. gone[d] = conns[d] /\ gone[d] \in ConnsOf(db.last)
        BY <1>1, <1>3, <2>1, <2>3
      <3>2. d \in Registered(sessions') => gone[d].phase = "serving"
        BY <1>1, <1>6, <2>1, <3>1, InMap
      <3>3. Faithful(RoomOf[i], v, net[i], tui[i], gone[d])
        BY <2>1, <3>1
      <3>4. Faithful(RoomOf[i], v, net[i], tui[i], TellPresence(gone, sessions')[d])
        BY <1>1, <1>6, <2>1, <3>1, <3>2, <3>3, TellFaithful
      <3> QED BY <1>4, <3>3, <3>4 DEF v, d
    <2> QED BY <2>2, <2>3
  <1>8. \A i \in Client : Grew(Log(db, RoomOf[i]), Log(db', RoomOf[i]))
                          \/ Renewed(Log(db, RoomOf[i]), Log(db', RoomOf[i]))
    <2> SUFFICES ASSUME NEW i \in Client PROVE Grew(Log(db, RoomOf[i]), Log(db', RoomOf[i]))
      OBVIOUS
    <2> QED BY <1>2, Seen, SameLog
  <1>9. DrawnIn(db)'
    BY <1>1, <1>2 DEF DrawnIn
  <1>10. \A i \in Client : Linked(i) =>
           Faithful(RoomOf[i], Log(db', RoomOf[i]), net[i], tui[i], conns'[net[i].conn])
    BY <1>2, <1>7
  <1> QED BY <1>8, <1>9, <1>10, ServerScreens

\* A connection ends.
LEMMA EndsScreens ==
    ASSUME ScreenInv, SystemInv', NEW c \in Conn, Ends(c)
    PROVE  ScreenInv'
  <1>1. UNCHANGED <<net, tui>> /\ (JoinTimeout(c) \/ Leave(c) \/ WriteRefusal(c))
    BY DEF Ends
  <1>2. CASE JoinTimeout(c) \/ WriteRefusal(c)
    <2>1. conns' = [conns EXCEPT ![c] = Free] /\ UNCHANGED db
      BY <1>2 DEF JoinTimeout, WriteRefusal
    <2>2. ~Free.live
      BY DEF Free
    <2>3. DrawnIn(db') /\ \A r \in Room : Log(db', r) = Log(db, r)
      BY <2>1 DEF ScreenInv
    <2> QED BY <1>1, <2>1, <2>2, <2>3, SilentScreens
  <1> QED BY <1>1, <1>2, LeaveScreens

\* A cleanup starts every session over with an empty room.
LEMMA ClearScreens ==
    ASSUME ScreenInv, SystemInv', UNCHANGED <<net, tui>>, ClearHistory
    PROVE  ScreenInv'
  <1> DEFINE empty(d) == [conns[d] EXCEPT !.syncing = FALSE, !.deferred = <<>>,
                                          !.cursor = 0, !.through = 0]
             f(d) == HistoryCleared(InstanceID(db', conns[d].room))
             told == [d \in Conn |-> IF d \in Registered(sessions)
                                     THEN Enqueue(empty(d), f(d)) ELSE conns[d]]
  <1>1. conns' = TellPresence(told, sessions) /\ db' = ClearAll(db)
    BY DEF ClearHistory
  <1>2. /\ db.last \in Nat /\ ServerInv /\ DrawnIn(db) /\ Counted(db)
        /\ DOMAIN sessions \subseteq Room \X Name /\ conns \in [Conn -> ConnsOf(db.last)]
    BY DEF ScreenInv, SystemInv, ServerInv, SessionInv, Databases, RowsDrawn, Counted
  <1>3. ASSUME NEW q \in Room
        PROVE  /\ Counted(db') /\ DrawnIn(db') /\ db'.last = db.last
               /\ Renewed(Log(db, q), Log(db', q)) /\ Log(db, q).drawn < Log(db', q).instance
               /\ Log(db', q).instance <= Log(db', q).drawn
               /\ Log(db', q).epoch <= Log(db', q).drawn
    BY <1>1, <1>2, ClearLog
  <1>4. \A q \in Room : InstanceID(db', q) = <<Log(db', q).instance, Log(db', q).epoch>>
    BY DEF InstanceID, Log
  <1>5. \A i \in Client : Linked(i) =>
           Faithful(RoomOf[i], Log(db', RoomOf[i]), net[i], tui[i], conns'[net[i].conn])
    <2> SUFFICES ASSUME NEW i \in Client, Linked(i)
                 PROVE  Faithful(RoomOf[i], Log(db', RoomOf[i]), net[i], tui[i], conns'[net[i].conn])
      OBVIOUS
    <2> DEFINE q == RoomOf[i]
               v == Log(db, q)
               w == Log(db', q)
               d == net[i].conn
    <2>1. /\ net[i] \in Networks /\ tui[i] \in Models /\ q \in Room /\ v \in Logs
          /\ d \in Conn /\ conns[d] \in ConnsOf(db.last)
          /\ Base(v, net[i], tui[i])
          /\ Faithful(q, v, net[i], tui[i], conns[d])
      BY Seen
    <2>2. /\ w \in Logs /\ \A x \in w.rows : x.id <= w.latest
          /\ v.drawn < w.instance /\ w.instance <= w.drawn /\ w.epoch <= w.drawn
      BY <1>3, <2>1, LogTyped
    <2>3. told[d] = IF d \in Registered(sessions) THEN Enqueue(empty(d), f(d)) ELSE conns[d]
      BY <2>1
    <2> HIDE DEF told
    <2>4. /\ told[d] \in ConnsOf(db.last) /\ Faithful(q, w, net[i], tui[i], told[d])
          /\ d \in Registered(sessions) => told[d].phase = "serving"
      <3>1. CASE d \notin Registered(sessions)
        <4>1. told[d] = conns[d] /\ conns[d].phase # "serving"
          BY <1>2, <2>1, <2>3, <3>1, InMap
        <4> QED BY <2>1, <3>1, <4>1, Inactive
      <3>2. CASE d \in Registered(sessions)
        <4> DEFINE s == conns[d]
                   g == f(d)
                   x == Enqueue(StartedOver(s), g)
        <4>1. s \in SessionsOf(db.last) /\ s.room \in Room
          BY <1>2, <2>1, <3>2, InMap DEF SessionsOf, Sessions
        <4>2. InstanceID(db', s.room) \in InstanceIDs
          BY <1>3, <4>1, InstanceTyped DEF Counted
        <4>3. g \in SoundFrames(db.last)
          BY <1>2, <4>2, FramesTyped
        <4>4. /\ g.type = "history_cleared" /\ g.instance = InstanceID(db', s.room)
          BY DEF HistoryCleared
        <4>5. g.instance[1] = w.instance /\ g.instance[2] = w.epoch
          <5>1. db'.epoch = [r \in Room |-> 0]
            BY <1>1, <1>2 DEF ClearAll, Counted, Databases
          <5>2. db'.epoch[s.room] = db'.epoch[q]
            BY <2>1, <4>1, <5>1
          <5> QED BY <4>4, <5>2 DEF InstanceID, Log
        <4>6. told[d] = x
          BY <2>3, <3>2 DEF StartedOver
        <4>7. x = Enqueue(StartedOver(s), g)
          OBVIOUS
        <4> HIDE DEF g, s, x, q, v, w, d
        <4>8. Faithful(q, v, net[i], tui[i], s)
          BY <2>1 DEF s
        <4>9. x \in SessionsOf(db.last) /\ Faithful(q, w, net[i], tui[i], x)
          <5>1. /\ db.last \in Nat /\ v \in Logs /\ w \in Logs /\ s \in SessionsOf(db.last)
                /\ net[i] \in Networks /\ tui[i] \in Models
                /\ Base(v, net[i], tui[i]) /\ Faithful(q, v, net[i], tui[i], s)
            BY <1>2, <2>1, <2>2, <4>1, <4>8
          <5>2. /\ g \in SoundFrames(db.last) /\ g.type = "history_cleared"
                /\ g.instance[1] = w.instance /\ g.instance[2] = w.epoch
                /\ v.drawn < w.instance /\ w.instance <= w.drawn /\ w.epoch <= w.drawn
            BY <2>2, <4>3, <4>4, <4>5
          <5> QED BY <4>7, <5>1, <5>2, ClearSession
        <4>10. x \in ConnsOf(db.last) /\ x.phase = "serving"
          BY <4>9 DEF ConnsOf, SessionsOf, Sessions
        <4> QED BY <4>6, <4>9, <4>10
      <3> QED BY <3>1, <3>2
    <2> HIDE DEF q, v, w, d
    <2>5. Faithful(q, w, net[i], tui[i], TellPresence(told, sessions)[d])
      BY <1>2, <2>1, <2>2, <2>4, TellFaithful
    <2> QED BY <1>1, <2>5 DEF q, w, d
  <1>6. \A i \in Client : Grew(Log(db, RoomOf[i]), Log(db', RoomOf[i]))
                          \/ Renewed(Log(db, RoomOf[i]), Log(db', RoomOf[i]))
    BY <1>3, Seen
  <1>7. DrawnIn(db)'
    <2>1. DrawnIn(ClearAll(db))
      <3>1. db.drawn \in Nat
        BY <1>2 DEF Counted, Databases
      <3>2. ClearAll(db).epoch = [r \in Room |-> 0] /\ ClearAll(db).instance = db.drawn + 1
            /\ ClearAll(db).drawn = db.drawn + 1
        BY <1>2 DEF Counted, Databases, ClearAll
      <3> QED BY <3>1, <3>2 DEF DrawnIn
    <2> QED BY <1>1, <2>1 DEF DrawnIn
  <1> QED BY <1>5, <1>6, <1>7, ServerScreens

-----------------------------------------------------------------------------
(* Every step, and what follows for the screen *)

\* Steps of the server that concern no one client.
LEMMA QuietlyScreens ==
    ASSUME ScreenInv, SystemInv', Quietly
    PROVE  ScreenInv'
  <1>0. UNCHANGED <<net, tui>> /\ DrawnIn(db) /\ conns \in [Conn -> ConnsOf(db.last)]
    BY DEF Quietly, cvars, ScreenInv, SystemInv, ServerInv
  <1>1. ASSUME NEW c \in Conn, Cancel(c) PROVE ScreenInv'
    <2> DEFINE x == [conns[c] EXCEPT !.live = FALSE]
    <2>1. conns' = [conns EXCEPT ![c] = x] /\ UNCHANGED db
      BY <1>1 DEF Cancel
    <2>2. conns[c] \in SessionsOf(db.last)
      BY <1>1, InMap DEF Cancel, ScreenInv, SystemInv
    <2>3. ~x.live
      BY <2>2 DEF SessionsOf, Sessions
    <2> HIDE DEF x
    <2>4. DrawnIn(db') /\ \A r \in Room : Log(db', r) = Log(db, r)
      BY <1>0, <2>1
    <2> QED BY <1>0, <2>1, <2>3, <2>4, SilentScreens
  <1>2. ASSUME NEW c \in Conn \ Attached, WriteFrame(c) PROVE ScreenInv'
    <2>1. conns' = [conns EXCEPT ![c].outgoing = Tail(@)] /\ UNCHANGED db
      BY <1>2 DEF WriteFrame
    <2>2. \A d \in Conn \ {c} : conns'[d] = conns[d]
      BY <1>0, <2>1
    <2>3. \A i \in Client : net[i].conn # c
      BY <1>2 DEF Attached
    <2>4. DrawnIn(db') /\ \A r \in Room : Log(db', r) = Log(db, r)
      BY <1>0, <2>1
    <2> QED BY <1>0, <2>2, <2>3, <2>4, OneScreens
  <1>3. CASE ClearHistory
    BY <1>0, <1>3, ClearScreens
  <1>4. CASE Close
    <2>1. UNCHANGED db /\ \A c \in Conn : ~conns'[c].live
      BY <1>4, CloseKeeps DEF ScreenInv, SystemInv
    <2>2. \A i \in Client : Linked(i) =>
             Faithful(RoomOf[i], Log(db', RoomOf[i]), net[i], tui[i], conns'[net[i].conn])
      BY <2>1, Seen, Inactive
    <2>3. \A i \in Client : Grew(Log(db, RoomOf[i]), Log(db', RoomOf[i]))
                            \/ Renewed(Log(db, RoomOf[i]), Log(db', RoomOf[i]))
      <3> SUFFICES ASSUME NEW i \in Client PROVE Grew(Log(db, RoomOf[i]), Log(db', RoomOf[i]))
        OBVIOUS
      <3> QED BY <2>1, Seen, SameLog
    <2>4. DrawnIn(db)'
      BY <1>0, <2>1 DEF DrawnIn
    <2> QED BY <1>0, <2>2, <2>3, <2>4, ServerScreens
  <1>5. ASSUME NEW upTo, Age(upTo) PROVE ScreenInv'
    BY <1>0, <1>5, IdleScreens DEF Age
  <1> QED BY <1>1, <1>2, <1>3, <1>4, <1>5 DEF Quietly

\* The server restarts: every session ends.
LEMMA SRestartScreens ==
    ASSUME ScreenInv, SystemInv', SRestart
    PROVE  ScreenInv'
  <1>1. /\ UNCHANGED <<net, tui, db>> /\ DrawnIn(db)
        /\ conns' = [c \in Conn |-> Free]
    BY DEF SRestart, Restart, ScreenInv
  <1>2. \A i \in Client : Linked(i) =>
           Faithful(RoomOf[i], Log(db', RoomOf[i]), net[i], tui[i], conns'[net[i].conn])
    <2> SUFFICES ASSUME NEW i \in Client, Linked(i)
                 PROVE  Faithful(RoomOf[i], Log(db', RoomOf[i]), net[i], tui[i], conns'[net[i].conn])
      OBVIOUS
    <2>1. ~conns'[net[i].conn].live
      BY <1>1, Seen DEF Free
    <2> QED BY <2>1, Inactive
  <1>3. \A i \in Client : Grew(Log(db, RoomOf[i]), Log(db', RoomOf[i]))
                          \/ Renewed(Log(db, RoomOf[i]), Log(db', RoomOf[i]))
    <2> SUFFICES ASSUME NEW i \in Client PROVE Grew(Log(db, RoomOf[i]), Log(db', RoomOf[i]))
      OBVIOUS
    <2> QED BY <1>1, Seen, SameLog
  <1>4. DrawnIn(db)'
    BY <1>1 DEF DrawnIn
  <1> QED BY <1>1, <1>2, <1>3, <1>4, ServerScreens

\* The invariant is kept by every step, and holds from the start.
LEMMA ScreenStep ==
    ASSUME ScreenInv, [SNext]_svars
    PROVE  ScreenInv'
  <1>0. SystemInv'
    BY SystemStep DEF ScreenInv
  <1>1. CASE UNCHANGED svars
    <2>1. UNCHANGED <<net, tui, db, conns>>
      BY <1>1 DEF svars, cvars, vars
    <2> QED BY <1>0, <2>1, IdleScreens
  <1>2. ASSUME NEW i \in Client,
               \/ \E c \in Conn : Dial(i, c)
               \/ Break(i) \/ ReceiveRefusal(i) \/ Receive(i) \/ ReceiveCancelled(i)
               \/ UserSend(i) \/ UserRecall(i) \/ LoadOlder(i)
        PROVE  ScreenInv'
    BY <1>0, <1>2, DialScreens, BreakScreens, RefusalScreens, ReceiveScreens, CancelledScreens,
       UserScreens
  <1>3. ASSUME NEW c \in Conn,
               \/ ServeJoin(c) \/ ServeJoinInvalid(c) \/ ServeSend(c) \/ ServeRecall(c)
               \/ ServeHistory(c) \/ ServeSync(c) \/ Ends(c)
        PROVE  ScreenInv'
    BY <1>0, <1>3, ServeJoinScreens, ServeSendScreens, ServeRecallScreens, ServeHistoryScreens,
       ServeSyncScreens, EndsScreens
  <1>4. CASE Quietly \/ SRestart
    BY <1>0, <1>4, QuietlyScreens, SRestartScreens
  <1> QED BY <1>1, <1>2, <1>3, <1>4 DEF SNext

\* A new client was in no instance.
LEMMA ScreenInit == SInit => ScreenInv
  <1> SUFFICES ASSUME SInit PROVE ScreenInv
    OBVIOUS
  <1>1. SystemInv
    BY SystemInit
  <1>2. db = NewDb /\ net = [i \in Client |-> NewNetwork] /\ tui = [i \in Client |-> NewModel]
    BY DEF SInit, Init
  <1>3. DrawnIn(db)
    BY <1>2 DEF DrawnIn, NewDb
  <1>4. \A i \in Client : Base(Log(db, RoomOf[i]), net[i], tui[i]) /\ ~Linked(i)
    <2> SUFFICES ASSUME NEW i \in Client
                 PROVE  Base(Log(db, RoomOf[i]), net[i], tui[i]) /\ ~Linked(i)
      OBVIOUS
    <2>1. net[i] = NewNetwork /\ tui[i] = NewModel
      BY <1>2
    <2>2. net[i].instance = <<0, 0>> /\ net[i].phase = "offline"
      BY <2>1 DEF NewNetwork, NoInstance
    <2> DEFINE v == Log(db, RoomOf[i])
    <2>3. v.instance = 1 /\ v.drawn = 1
      BY <1>2 DEF Log, NewDb
    <2> HIDE DEF v
    <2>4. net[i].instance # <<v.instance, v.epoch>>
      BY <2>2, <2>3
    <2>5. Base(v, net[i], tui[i])
      BY <2>2, <2>3, <2>4 DEF Base
    <2> QED BY <2>2, <2>5 DEF v, Linked
  <1> QED BY <1>1, <1>3, <1>4 DEF ScreenInv

\* The invariant holds of every behaviour.
LEMMA ScreenInvariant == SSpec => []ScreenInv
  BY ScreenInit, ScreenStep, PTL DEF SSpec

\* A client resumes inside the log: while the instance it would name is its
\* room's, its cursor is not beyond the last message, so join never answers it
\* with invalid_cursor, which it would retry for ever. Pages, acks, news and
\* cleanups may wait in its queue meanwhile, and a link's context may be cancelled
\* between the frame's arrival and its display.
THEOREM CursorStaysInLog == SSpec => []CursorInLog
  <1>1. ScreenInv => CursorInLog
    <2> SUFFICES ASSUME ScreenInv, NEW i \in Client, Current(i)
                 PROVE  net[i].cursor <= LatestID(db, RoomOf[i])
      BY DEF CursorInLog
    <2> DEFINE v == Log(db, RoomOf[i])
    <2>1. Base(v, net[i], tui[i])
      BY Seen
    <2>2. v.latest = LatestID(db, RoomOf[i]) /\ InstanceID(db, RoomOf[i]) = <<v.instance, v.epoch>>
      BY DEF Log, InstanceID
    <2> HIDE DEF v
    <2> QED BY <2>1, <2>2 DEF Base, Current
  <1> QED BY <1>1, ScreenInvariant, PTL

\* While a client would be resumed, everything on its display is in its room in
\* that very form: what was recalled or cleared is shown no more, or the client's
\* instance is not its room's and it starts over when it joins next. This is so
\* when no link's context is cancelled between the arrival of a frame and its
\* display; where that happens, a cleanup can be missed (LateCancel).
THEOREM ScreenIsCurrent ==
    ASSUME ~LateCancel PROVE SSpec => []ViewIsCurrent
  <1>1. ScreenInv => ViewIsCurrent
    <2> SUFFICES ASSUME ScreenInv, NEW i \in Client, Current(i)
                 PROVE  tui[i].messages \subseteq Rows(i)
      BY DEF ViewIsCurrent
    <2> DEFINE v == Log(db, RoomOf[i])
    <2>1. Base(v, net[i], tui[i])
      BY Seen
    <2>2. v.rows = Rows(i) /\ InstanceID(db, RoomOf[i]) = <<v.instance, v.epoch>>
      BY DEF Log, InstanceID, Rows
    <2> HIDE DEF v
    <2> QED BY <2>1, <2>2 DEF Base, Current
  <1> QED BY <1>1, ScreenInvariant, PTL

=============================================================================
