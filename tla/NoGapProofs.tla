---------------------------- MODULE NoGapProofs ----------------------------
(***************************************************************************)
(* That the screen has no holes (NoGap of ChatSystem), for every number of *)
(* clients, rooms, connections and messages and all capacities.            *)
(*                                                                         *)
(* The invariant relates five things: the rows of a room, what its client  *)
(* shows, where the client's cursor is, the frames the session has yet to  *)
(* tell it, and the requests the client has yet to be answered (Tracks).   *)
(* What is shown up to the cursor has no hole now (Unbroken), and reading  *)
(* the queue, frame by frame, makes none: the pages and messages are in    *)
(* order and nothing between them is left out (Ordered and Owed, which     *)
(* ChatFeedProofs proves of the bare sessions); a message is acknowledged  *)
(* after it was told (Acknowledged); the first page comes to a client that *)
(* shows nothing (FirstPages); and a page of older messages goes on from   *)
(* one that is shown, though it was asked for long before it arrives       *)
(* (Connected), or brings nothing because a cleanup came between           *)
(* (Restarted).                                                            *)
(*                                                                         *)
(* The parts say in turn what one frame does to a client (ReadTracks),     *)
(* what each move of a session does to what its client has yet to read     *)
(* (GoesOnTrack; the moves are those of ChatFeedProofs), what a new        *)
(* session begins with (BegunTracks), and what each action of ChatSystem   *)
(* does to the clients it is about (<Action>Gap).                          *)
(***************************************************************************)
EXTENDS ChatSystemProofs, ChatFeedProofs

-----------------------------------------------------------------------------
(* The invariant *)

\* The message with id x is shown, or is older than all that is and can be loaded. Of a
\* page: it brings that message, or says that there are older ones than it brings.
Accounted(t, x) ==
    \/ x \in Ids(t.messages)
    \/ t.hasMore /\ \A y \in Ids(t.messages) : x < y

\* Where a client is before it reads queue G: at the start, if it starts over in it.
Place(n, G) == IF Overtaken(G, 0) \/ ~Keeps(n, G) THEN 0 ELSE n.cursor

\* Everything up to the client's cursor is accounted for.
Unbroken(rows, n, t) == \A x \in Ids(rows) : x <= n.cursor => Accounted(t, x)

\* The first page of a room, and one that the user asked for.
Initial(f) == f.type = "history" /\ f.req = "initial"
Older(f)   == f.type = "history" /\ f.req = "older"

\* Page f goes on from a message that is shown.
GoesOn(rows, t, f) ==
    \E y \in Ids(t.messages) : \A x \in Ids(rows) : x < y => Accounted(f, x)

\* Pages of older messages go on from what is shown.
Connected(rows, t, G, u) ==
    /\ ~Overtaken(G, 0)
    /\ \A k \in DOMAIN G : Older(G[k]) => GoesOn(rows, t, G[k])
    /\ \A k \in DOMAIN u : u[k].type = "history" => u[k].before \in Ids(t.messages)

\* After a cleanup they bring nothing: what they go on from was before all there is.
Restarted(rows, t, G, u) ==
    /\ Overtaken(G, 0) \/ ~t.hasMore
    /\ \A k \in DOMAIN G : (G[k].type = "history" /\ ~Overtaken(G, k)) =>
          Ids(G[k].messages) = {} /\ ~G[k].hasMore
    /\ \A k \in DOMAIN u : u[k].type = "history" => \A x \in Ids(rows) : u[k].before <= x
    /\ Overtaken(G, 0) => \A x \in Ids(rows) :
          /\ \A y \in Ids(t.messages) : y < x
          /\ \A k \in DOMAIN G : Overtaken(G, k) => \A y \in Ids(Brings(G[k])) : y < x

\* A message is acknowledged after the client got it.
Acknowledged(t, G) ==
    \A k \in DOMAIN G : (G[k].type = "ack" /\ ~Overtaken(G, k)) =>
        \/ \E j \in DOMAIN G : /\ j < k /\ ~Overtaken(G, j)
                               /\ G[k].message.id \in Ids(Carries(G[j]))
        \/ ~Overtaken(G, 0) /\ G[k].message.id \in Ids(t.messages)

\* The first page comes right after the welcome, to a client that has nothing.
FirstPages(n, t, G) ==
    \A k \in DOMAIN G : (Initial(G[k]) /\ ~Overtaken(G, k)) =>
        \/ k = 1 /\ n.welcomed /\ Ids(t.messages) = {} /\ n.cursor = 0
        \/ k = 2 /\ ~n.welcomed /\ ~G[1].resumed

\* The welcome is the first frame, of a client that was not let in yet and has asked
\* for nothing.
Greeted(n, G, u) ==
    /\ \A k \in DOMAIN G : G[k].type = "welcome" => k = 1 /\ ~n.welcomed
    /\ ~n.welcomed =>
          /\ 1 \in DOMAIN G /\ G[1].type = "welcome"
          /\ \A k \in DOMAIN u : u[k].type \notin {"send", "history"}
          /\ \A k \in DOMAIN G : G[k].type # "ack" /\ ~Older(G[k])

\* What is shown has no hole that the frames on their way would leave.
Settled(last, rows, n, t, G, u) ==
    /\ (~Overtaken(G, 0) /\ Keeps(n, G)) => n.cursor <= last /\ Unbroken(rows, n, t)
    /\ \A y \in Ids(t.messages) : y <= last
    /\ \A k \in DOMAIN u : u[k].type = "history" => u[k].before <= last
    /\ Connected(rows, t, G, u) \/ Restarted(rows, t, G, u)
    /\ Acknowledged(t, G) /\ FirstPages(n, t, G) /\ Greeted(n, G, u)

\* Session s leads its client, with network n, display t and requests u, to these rows.
Tracks(last, rows, n, t, s, u) ==
    /\ Ordered(s, Place(n, s.outgoing)) /\ Owed(rows, s, Place(n, s.outgoing))
    /\ Settled(last, rows, n, t, s.outgoing, u)

\* Client i has a session that is alive.
Served(i) == Linked(i) /\ Active(conns[net[i].conn])

\* The inductive invariant.
GapInv ==
    /\ ScreenInv /\ Numbered
    /\ \A i \in Client :
          /\ \A y \in Ids(tui[i].messages) : y <= db.last
          /\ Current(i) => Unbroken(Rows(i), net[i], tui[i])
          /\ Served(i) => Tracks(db.last, Rows(i), net[i], tui[i],
                                 conns[net[i].conn], up[net[i].conn])

-----------------------------------------------------------------------------
(* What a frame does to the client that reads it *)

\* The ids on a display that a page is merged into.
LEMMA MergedIds ==
    ASSUME NEW old, NEW new
    PROVE  Ids(MergeMessages(old, new)) = Ids(old) \cup Ids(new)
  <1> DEFINE final == {m \in old : m.recalled \/ m.id \notin Ids(new)}
             rest  == {m \in new : m.id \notin Ids(final)}
  <1>1. MergeMessages(old, new) = final \cup rest
    BY DEF MergeMessages
  <1>2. Ids(final) \subseteq Ids(old) /\ \A m \in old : m.id \in Ids(final) \/ m.id \in Ids(new)
    BY DEF Ids
  <1>3. \A m \in new : m.id \in Ids(final) \/ m \in rest
    OBVIOUS
  <1>4. rest \subseteq new
    OBVIOUS
  <1> HIDE DEF final, rest
  <1> QED BY <1>1, <1>2, <1>3, <1>4 DEF Ids

\* What the display shows of the frames, and whether it knows of older messages.
ShownOf(t, f, v) ==
    CASE f.type \in {"sync", "history", "message", "ack"} ->
            /\ Ids(v.messages) = Ids(t.messages) \cup Ids(Brings(f))
            /\ v.hasMore = IF f.type = "history" THEN f.hasMore ELSE t.hasMore
      [] f.type = "history_cleared" \/ (f.type = "welcome" /\ ~f.resumed) ->
            Ids(v.messages) = {} /\ v.hasMore = FALSE
      [] OTHER -> Ids(v.messages) = Ids(t.messages) /\ v.hasMore = t.hasMore

\* That is what Show does with a frame, by its ids.
LEMMA ShownIds ==
    ASSUME NEW k \in Nat, NEW t \in Models, NEW f \in SoundFrames(k)
    PROVE  ShownOf(t, f, Show(t, f))
  <1> SUFFICES ASSUME NEW v, v = Show(t, f)
               PROVE  ShownOf(t, f, v)
    OBVIOUS
  <1>0. Ids({}) = {}
    BY DEF Ids
  <1>1. CASE f.type = "welcome"
    <2>1. v = ShowWelcome(t, f)
      BY <1>1 DEF Show
    <2>2. f.resumed => v.messages = t.messages /\ v.hasMore = t.hasMore
      BY <2>1 DEF ShowWelcome, Models
    <2>3. ~f.resumed => v.messages = {} /\ v.hasMore = FALSE
      BY <2>1 DEF ShowWelcome, Models
    <2> QED BY <1>0, <1>1, <2>2, <2>3 DEF ShownOf
  <1>2. CASE f.type \in {"presence", "sync_complete", "error"}
    <2>1. /\ f.type = "presence" => v = [t EXCEPT !.users = f.users]
          /\ f.type = "sync_complete" => v = [t EXCEPT !.connected = TRUE]
          /\ f.type = "error" => v = ShowError(t, f)
      BY DEF Show
    <2>2. v.messages = t.messages /\ v.hasMore = t.hasMore
      BY <1>2, <2>1 DEF ShowError, Models
    <2> QED BY <1>2, <2>2 DEF ShownOf
  <1>3. CASE f.type = "history"
    <2>1. v = ShowHistory(t, f) /\ Brings(f) = f.messages
      BY <1>3 DEF Show, Brings
    <2>2. v.messages = MergeMessages(t.messages, f.messages) /\ v.hasMore = f.hasMore
      BY <2>1 DEF ShowHistory, Models
    <2> QED BY <1>3, <2>1, <2>2, MergedIds DEF ShownOf
  <1>4. CASE f.type = "sync"
    <2>1. v = [t EXCEPT !.messages = MergeMessages(@, f.messages)] /\ Brings(f) = f.messages
      BY <1>4 DEF Show, Brings
    <2>2. v.messages = MergeMessages(t.messages, f.messages) /\ v.hasMore = t.hasMore
      BY <2>1 DEF Models
    <2> QED BY <1>4, <2>1, <2>2, MergedIds DEF ShownOf
  <1>5. CASE f.type \in {"message", "ack"}
    <2>1. v = ShowMessage(t, f) /\ Brings(f) = {f.message}
      BY <1>5 DEF Show, Brings
    <2>2. v.messages = MergeMessages(t.messages, {f.message}) /\ v.hasMore = t.hasMore
      BY <2>1 DEF ShowMessage, Models
    <2> QED BY <1>5, <2>1, <2>2, MergedIds DEF ShownOf
  <1>6. CASE f.type = "recalled"
    <2>1. v = ShowRecalled(t, f)
      BY <1>6 DEF Show
    <2>2. v.hasMore = t.hasMore
      BY <2>1 DEF ShowRecalled, Models
    <2>3. v.messages = IF f.message.id \in Ids(t.messages)
                       THEN {m \in t.messages : m.id # f.message.id} \cup {f.message}
                       ELSE t.messages
      BY <2>1 DEF ShowRecalled, Models
    <2>4. CASE f.message.id \notin Ids(t.messages)
      BY <1>6, <2>2, <2>3, <2>4 DEF ShownOf
    <2>5. CASE f.message.id \in Ids(t.messages)
      <3>1. v.messages = {m \in t.messages : m.id # f.message.id} \cup {f.message}
        BY <2>3, <2>5
      <3>2. \A y \in Ids(t.messages) : y \in Ids(v.messages)
        <4> SUFFICES ASSUME NEW y \in Ids(t.messages) PROVE y \in Ids(v.messages)
          OBVIOUS
        <4>1. PICK m \in t.messages : m.id = y
          BY DEF Ids
        <4>2. m \in v.messages \/ (f.message \in v.messages /\ f.message.id = y)
          BY <3>1, <4>1
        <4> QED BY <4>1, <4>2 DEF Ids
      <3>3. \A y \in Ids(v.messages) : y \in Ids(t.messages)
        <4> SUFFICES ASSUME NEW y \in Ids(v.messages) PROVE y \in Ids(t.messages)
          OBVIOUS
        <4>1. PICK m \in v.messages : m.id = y
          BY DEF Ids
        <4>2. m \in t.messages \/ m = f.message
          BY <3>1, <4>1
        <4> QED BY <2>5, <4>1, <4>2 DEF Ids
      <3>4. Ids(v.messages) = Ids(t.messages)
        BY <3>2, <3>3
      <3> QED BY <1>6, <2>2, <3>4 DEF ShownOf
    <2> QED BY <2>4, <2>5
  <1>7. CASE f.type = "history_cleared"
    <2>1. v = ShowCleared(t)
      BY <1>7 DEF Show
    <2>2. v.messages = {} /\ v.hasMore = FALSE
      BY <2>1 DEF ShowCleared, Models
    <2> QED BY <1>0, <1>7, <2>2 DEF ShownOf
  <1> QED BY <1>1, <1>2, <1>3, <1>4, <1>5, <1>6, <1>7, FrameCases

\* Where the cursor goes.
LEMMA CursorMoves ==
    ASSUME NEW k \in Nat, NEW n \in Networks, NEW f \in SoundFrames(k)
    PROVE  LET p == Received(n, f)
           IN  /\ p.cursor \in Nat
               /\ f.type = "history_cleared" \/ (f.type = "welcome" /\ ~f.resumed) => p.cursor = 0
               /\ ~(f.type = "history_cleared" \/ (f.type = "welcome" /\ ~f.resumed)) =>
                     /\ n.cursor <= p.cursor
                     /\ p.cursor = n.cursor \/ p.cursor \in Tops(f)
                     /\ \A x \in Ids(Carries(f)) : x <= p.cursor
               /\ f.type \in {"ack", "recalled", "presence", "error"} \/ Older(f) =>
                     p.cursor = n.cursor
  <1> SUFFICES ASSUME NEW p, p = Received(n, f)
               PROVE  /\ p.cursor \in Nat
                      /\ f.type = "history_cleared" \/ (f.type = "welcome" /\ ~f.resumed) => p.cursor = 0
                      /\ ~(f.type = "history_cleared" \/ (f.type = "welcome" /\ ~f.resumed)) =>
                            /\ n.cursor <= p.cursor
                            /\ p.cursor = n.cursor \/ p.cursor \in Tops(f)
                            /\ \A x \in Ids(Carries(f)) : x <= p.cursor
                      /\ f.type \in {"ack", "recalled", "presence", "error"} \/ Older(f) =>
                            p.cursor = n.cursor
    OBVIOUS
  <1> DEFINE b == BeforeEmit(n, f)
             M == Carries(f)
  <1>0. /\ b \in Networks /\ b.cursor \in Nat /\ n.cursor \in Nat
        /\ M \in SUBSET Row /\ \A m \in M : m.id <= k
    <2>1. b \in Networks
      BY BeforeTyped
    <2>2. M \in SUBSET Row /\ Ids(M) \in SUBSET (0 .. k)
      BY FrameIds
    <2> QED BY <2>1, <2>2 DEF Networks, Ids
  <1>1. M = Carried(f)
    BY DEF Carries, Carried
  <1>2. p.cursor = Further(b.cursor, M)
    <2>1. p = [b EXCEPT !.cursor = Further(@, Carried(f)),
                        !.instance = IF f.type = "recalled" THEN f.instance ELSE @]
      BY DEF Received, AfterEmit
    <2> HIDE DEF b, M
    <2> QED BY <1>0, <1>1, <2>1 DEF Networks
  <1>3. /\ p.cursor \in Nat /\ b.cursor <= p.cursor
        /\ \A m \in M : m.id <= p.cursor
        /\ p.cursor = b.cursor \/ \E m \in M : p.cursor = m.id
        /\ M = {} => p.cursor = b.cursor
    <2> HIDE DEF b, M
    <2> QED BY <1>0, <1>2, FurtherTyped
  <1>4. p.cursor \in Ids(M) \/ p.cursor = b.cursor
    BY <1>3 DEF Ids
  <1>5. \A x \in Ids(M) : x <= p.cursor
    BY <1>3 DEF Ids
  <1>6. /\ f.type = "welcome" => b = OnWelcome(n, f)
        /\ f.type = "history_cleared" => b = OnCleared(n, f)
        /\ f.type = "sync_complete" => b = OnSyncComplete(n, f)
        /\ f.type \notin {"welcome", "history_cleared", "sync_complete"} => b = n
    BY DEF BeforeEmit
  <1>7. f.type \in {"welcome", "history_cleared", "sync_complete", "ack", "recalled", "presence",
                    "error"} \/ Older(f) => M = {}
    BY DEF Carries, Older
  <1>8. CASE f.type = "history_cleared" \/ (f.type = "welcome" /\ ~f.resumed)
    <2>1. b.cursor = 0
      BY <1>6, <1>8 DEF OnWelcome, OnCleared, Networks
    <2>2. p.cursor = 0
      BY <1>3, <1>7, <1>8, <2>1
    <2> QED BY <1>3, <1>8, <2>2 DEF Older
  <1>9. CASE f.type = "welcome" /\ f.resumed
    <2>1. b.cursor = n.cursor
      BY <1>6, <1>9 DEF OnWelcome, Networks
    <2> QED BY <1>0, <1>3, <1>5, <1>7, <1>9, <2>1 DEF Older
  <1>10. CASE f.type = "sync_complete"
    <2>1. b.cursor = Max({n.cursor, f.through})
      BY <1>6, <1>10 DEF OnSyncComplete, Networks
    <2>2. f.through \in Nat
      BY <1>10, FrameCases
    <2>3. n.cursor <= b.cursor /\ (b.cursor = n.cursor \/ b.cursor = f.through)
      <3> DEFINE S == {n.cursor, f.through}
                 z == n.cursor + f.through
      <3>1. S \in SUBSET Nat /\ S # {} /\ z \in Nat /\ \A x \in S : x <= z
        BY <1>0, <2>2
      <3>2. n.cursor \in S /\ \A x \in S : x = n.cursor \/ x = f.through
        OBVIOUS
      <3>3. b.cursor = Max(S)
        BY <2>1
      <3> HIDE DEF S, z, b
      <3>4. Max(S) \in S /\ \A x \in S : x <= Max(S)
        BY <3>1, MaxOf
      <3> QED BY <3>2, <3>3, <3>4
    <2>4. p.cursor = b.cursor
      BY <1>3, <1>7, <1>10
    <2>5. f.through \in Tops(f)
      BY <1>10 DEF Tops
    <2> QED BY <1>3, <1>5, <1>10, <2>3, <2>4, <2>5 DEF Older
  <1>11. CASE f.type \notin {"welcome", "history_cleared", "sync_complete"}
    <2>1. b = n
      BY <1>6, <1>11
    <2>2. Ids(M) \subseteq Tops(f) /\ M = Carries(f)
      BY DEF Tops
    <2>3. f.type \in {"ack", "recalled", "presence", "error"} \/ Older(f) => p.cursor = n.cursor
      BY <1>3, <1>7, <2>1
    <2> HIDE DEF b, M
    <2>4. /\ p.cursor \in Nat /\ n.cursor <= p.cursor /\ \A x \in Ids(Carries(f)) : x <= p.cursor
          /\ p.cursor = n.cursor \/ p.cursor \in Tops(f)
      BY <1>3, <1>4, <1>5, <2>1, <2>2
    <2> QED BY <1>11, <2>3, <2>4
  <1> QED BY <1>8, <1>9, <1>10, <1>11

\* A message up to where the first frame leads is in that frame, or older than it.
LEMMA NextReached ==
    ASSUME NEW k \in Nat, NEW s \in SessionsOf(k), NEW G \in Seq(SoundFrames(k)), G = s.outgoing,
           1 \in DOMAIN G, NEW b \in Nat, Ordered(s, b), ~Overtaken(G, 1),
           NEW a \in Tops(G[1]), NEW x \in Nat, b < x, x <= a, Due(s, x),
           \A l \in DOMAIN G : (l # 1 /\ ~Overtaken(G, l)) => ~Starts(G[l])
    PROVE  Reaches(G[1], x)
  <1>0. s.deferred \in Seq(SoundFrames(k)) /\ s.cursor \in Nat /\ s.through \in Nat
    BY DEF SessionsOf, Sessions
  <1>1. \A l \in DOMAIN G : G[l] \in SoundFrames(k) /\ l \in Nat /\ 1 <= l
    OBVIOUS
  <1>2. a \in Nat /\ \A l \in DOMAIN G : Ids(Carries(G[l])) \subseteq Nat
    BY <1>1, FrameIds
  <1>3. CASE Reached(G, x)
    <2>1. PICK l \in DOMAIN G : ~Overtaken(G, l) /\ Reaches(G[l], x)
      BY <1>3 DEF Reached
    <2>2. CASE l = 1
      BY <2>1, <2>2
    <2>3. CASE l # 1
      <3>1. x \in Ids(Carries(G[l])) /\ 1 < l
        BY <1>1, <2>1, <2>3 DEF Reaches
      <3>2. a < x
        BY <3>1 DEF Ordered, Rising
      <3> QED BY <1>2, <3>2
    <2> QED BY <2>2, <2>3
  <1>4. CASE ~Reached(G, x) /\ s.syncing
    <2>1. CatchingUp(s, b)
      BY <1>4 DEF Ordered
    <2>2. G[1].type \in {"welcome", "sync", "error"} /\ \A y \in Ids(Carries(G[1])) : y <= s.cursor
      BY <2>1 DEF CatchingUp
    <2>3. a <= s.cursor /\ s.cursor <= s.through
      BY <2>1, <2>2 DEF CatchingUp, Tops
    <2>4. Reached(s.deferred, x)
      BY <1>0, <1>2, <1>4, <2>3 DEF Due
    <2>5. PICK l \in DOMAIN s.deferred : ~Overtaken(s.deferred, l) /\ Reaches(s.deferred[l], x)
      BY <2>4 DEF Reached
    <2>6. s.deferred[l].type \in {"message", "recalled", "presence"} /\ Above(s.deferred, s.through)
      BY <2>1 DEF CatchingUp
    <2>7. x \in Ids(Carries(s.deferred[l]))
      BY <2>5, <2>6 DEF Reaches, Starts
    <2>8. s.through < x
      BY <2>5, <2>6, <2>7 DEF Above
    <2> QED BY <1>0, <1>2, <2>3, <2>8
  <1>5. CASE ~Reached(G, x) /\ ~s.syncing
    <2>1. s.deferred = <<>>
      BY <1>5 DEF Ordered
    <2>2. ~Reached(s.deferred, x)
      BY <2>1 DEF Reached
    <2> QED BY <1>5, <2>2 DEF Due
  <1> QED BY <1>3, <1>4, <1>5

\* Frame h starts the client over.
Resets(h) == h.type = "history_cleared" \/ (h.type = "welcome" /\ ~h.resumed)

\* Reading the first frame of G takes a client with network n, now p, from b to a.
Along(n, G, p, b, a) ==
    /\ a \in Nat /\ b \in Nat /\ b <= a
    /\ a = b \/ (~Overtaken(G, 1) /\ a \in Tops(G[1]))
    /\ ~Overtaken(G, 1) => \A x \in Ids(Carries(G[1])) : x <= a
    /\ p.welcomed
    /\ ~Overtaken(G, 1) /\ ~Resets(G[1]) => ~Overtaken(G, 0) /\ Keeps(n, G)
    /\ ~Overtaken(G, 1) => a = p.cursor
    /\ Resets(G[1]) /\ G[1].type # "history_cleared" => ~n.welcomed

\* The client moves along the queue that it reads.
LEMMA ReadPlace ==
    ASSUME NEW k \in Nat, NEW n \in Networks, NEW G \in Seq(SoundFrames(k)), G # <<>>, NEW u,
           Greeted(n, G, u), NEW p, p = Received(n, G[1]), NEW T, T = Tail(G)
    PROVE  Along(n, G, p, Place(n, G), Place(p, T))
  <1> SUFFICES /\ Place(p, T) \in Nat /\ Place(n, G) \in Nat /\ Place(n, G) <= Place(p, T)
               /\ \/ Place(p, T) = Place(n, G)
                  \/ ~Overtaken(G, 1) /\ Place(p, T) \in Tops(G[1])
               /\ ~Overtaken(G, 1) => \A x \in Ids(Carries(G[1])) : x <= Place(p, T)
               /\ p.welcomed
               /\ ~Overtaken(G, 1) /\ ~Resets(G[1]) => ~Overtaken(G, 0) /\ Keeps(n, G)
               /\ ~Overtaken(G, 1) => Place(p, T) = p.cursor
               /\ Resets(G[1]) /\ G[1].type # "history_cleared" => ~n.welcomed
    BY DEF Along
  <1>1. /\ 1 \in DOMAIN G /\ G[1] \in SoundFrames(k)
        /\ Overtaken(T, 0) <=> Overtaken(G, 1)
        /\ Overtaken(G, 0) <=> Overtaken(G, 1) \/ G[1].type = "history_cleared"
    <2>1. Head(G) = G[1] /\ Head(G) \in SoundFrames(k) /\ 1 \in DOMAIN G
      BY OneLess
    <2>2. /\ Overtaken(T, 0) <=> Overtaken(G, 1)
          /\ Overtaken(G, 0) <=> Overtaken(G, 1) \/ G[1].type = "history_cleared"
      BY OneLess
    <2> QED BY <2>1, <2>2
  <1>2. /\ p.welcomed <=> n.welcomed \/ G[1].type = "welcome"
        /\ G[1].type = "welcome" => G[1].resumed \in BOOLEAN
    BY <1>1, ReceivedTyped, FrameCases
  <1>3. /\ p.welcomed /\ (G[1].type = "welcome" <=> ~n.welcomed)
    BY <1>1, <1>2 DEF Greeted
  <1>4. n.cursor \in Nat
    BY DEF Networks
  <1>5. /\ p.cursor \in Nat
        /\ Resets(G[1]) => p.cursor = 0
        /\ ~Resets(G[1]) => /\ n.cursor <= p.cursor
                            /\ p.cursor = n.cursor \/ p.cursor \in Tops(G[1])
                            /\ \A x \in Ids(Carries(G[1])) : x <= p.cursor
    BY <1>1, CursorMoves DEF Resets
  <1>6. Place(p, T) = IF Overtaken(G, 1) THEN 0 ELSE p.cursor
    BY <1>1, <1>3 DEF Place, Keeps
  <1>7. CASE Overtaken(G, 1)
    <2>1. Place(n, G) = 0
      BY <1>1, <1>7 DEF Place
    <2> QED BY <1>3, <1>6, <1>7, <2>1 DEF Resets
  <1>8. CASE ~Overtaken(G, 1) /\ Resets(G[1])
    <2>1. Place(n, G) = 0
      BY <1>1, <1>3, <1>8 DEF Place, Keeps, Resets
    <2>2. Carries(G[1]) = {}
      BY <1>8 DEF Resets, Carries
    <2>3. Ids(Carries(G[1])) = {}
      BY <2>2 DEF Ids
    <2> QED BY <1>3, <1>5, <1>6, <1>8, <2>1, <2>3 DEF Resets
  <1>9. CASE ~Overtaken(G, 1) /\ ~Resets(G[1])
    <2>1. ~Overtaken(G, 0) /\ Keeps(n, G)
      BY <1>1, <1>2, <1>3, <1>9 DEF Resets, Keeps
    <2>2. Place(n, G) = n.cursor
      BY <2>1 DEF Place
    <2> QED BY <1>3, <1>4, <1>5, <1>6, <1>9, <2>1, <2>2
  <1> QED BY <1>7, <1>8, <1>9

\* What the reader of a frame is shown up to its cursor is accounted for.
LEMMA ReadUnbroken ==
    ASSUME NEW k \in Nat, NEW s \in SessionsOf(k), NEW G \in Seq(SoundFrames(k)), G = s.outgoing,
           G # <<>>, NEW n \in Networks, NEW t \in Models, NEW u, NEW rows,
           Ids(rows) \subseteq Nat, \A x \in Ids(rows) : 0 < x,
           Tracks(k, rows, n, t, s, u), ~Overtaken(G, 1),
           NEW p, p = Received(n, G[1]), NEW v, v = Show(t, G[1])
    PROVE  p.cursor <= k /\ Unbroken(rows, p, v)
  <1> DEFINE h == G[1]
             T == Tail(G)
  <1>1. 1 \in DOMAIN G /\ h \in SoundFrames(k)
    BY OneLess
  <1>2. /\ Ordered(s, Place(n, G)) /\ Owed(rows, s, Place(n, G))
        /\ Settled(k, rows, n, t, G, u)
    BY DEF Tracks
  <1>3. /\ Greeted(n, G, u) /\ FirstPages(n, t, G) /\ Acknowledged(t, G)
        /\ Connected(rows, t, G, u) \/ Restarted(rows, t, G, u)
        /\ (~Overtaken(G, 0) /\ Keeps(n, G)) => n.cursor <= k /\ Unbroken(rows, n, t)
    BY <1>2 DEF Settled
  <1>4. ~Resets(h) => ~Overtaken(G, 0) /\ Keeps(n, G)
    <2>1. Along(n, G, Received(n, G[1]), Place(n, G), Place(Received(n, G[1]), Tail(G)))
      BY <1>3, ReadPlace
    <2>2. Resets(G[1]) /\ G[1].type # "history_cleared" => ~n.welcomed
      BY <2>1 DEF Along
    <2> QED BY <2>1 DEF Along
  <1>5. /\ p.cursor \in Nat
        /\ Resets(h) => p.cursor = 0
        /\ ~Resets(h) => /\ n.cursor <= p.cursor
                         /\ p.cursor = n.cursor \/ p.cursor \in Tops(h)
                         /\ \A x \in Ids(Carries(h)) : x <= p.cursor
    BY <1>1, CursorMoves DEF Resets
  <1>6. n.cursor \in Nat /\ Tops(h) \in SUBSET (0 .. k)
    BY <1>1, FrameIds DEF Networks
  <1>7. p.cursor <= k
    <2> HIDE DEF h
    <2>1. CASE Resets(h)
      BY <1>5, <2>1
    <2>2. CASE ~Resets(h)
      <3>1. n.cursor <= k
        BY <1>3, <1>4, <2>2
      <3>2. p.cursor = n.cursor \/ p.cursor \in 0 .. k
        BY <1>5, <1>6, <2>2
      <3> QED BY <3>1, <3>2
    <2> QED BY <2>1, <2>2
  <1>8. ShownOf(t, h, v)
    <2>1. v = Show(t, h)
      OBVIOUS
    <2> HIDE DEF h
    <2> QED BY <1>1, <2>1, ShownIds
  <1>9. SUFFICES ASSUME NEW x \in Ids(rows), x <= p.cursor, ~Resets(h)
                 PROVE  Accounted(v, x)
    BY <1>5, <1>7 DEF Unbroken
  <1>10. /\ x \in Nat /\ 0 < x /\ ~Overtaken(G, 0) /\ Keeps(n, G) /\ Place(n, G) = n.cursor
    BY <1>4, <1>9 DEF Place
  <1>11. /\ Initial(h) => Ids(t.messages) = {} /\ n.cursor = 0
         /\ \A l \in DOMAIN G : (l # 1 /\ ~Overtaken(G, l)) => ~Starts(G[l])
    BY <1>1, <1>3, <1>10 DEF FirstPages, Keeps, Starts, Initial
  <1>12. /\ Brings(h) = IF h.type \in {"sync", "history"} THEN h.messages
                        ELSE IF h.type \in {"message", "ack", "recalled"} THEN {h.message} ELSE {}
         /\ Carries(h) = IF h.type = "sync" \/ Initial(h) THEN h.messages
                         ELSE IF h.type = "message" THEN {h.message} ELSE {}
    BY DEF Brings, Carries, Initial
  <1> HIDE DEF h
  <1>13. CASE x <= n.cursor
    <2>1. Accounted(t, x)
      BY <1>3, <1>10, <1>13 DEF Unbroken
    <2>2. CASE h.type \in {"recalled", "sync_complete", "presence", "error", "welcome"}
      BY <1>8, <1>9, <2>1, <2>2 DEF Accounted, Resets, ShownOf
    <2>3. CASE h.type \in {"sync", "message"}
      <3>1. \A y \in Ids(Brings(h)) : n.cursor < y
        <4>1. Brings(h) = Carries(h)
          BY <2>3 DEF Brings, Carries
        <4>2. Above(G, n.cursor)
          BY <1>2, <1>10 DEF Ordered
        <4> QED BY <1>1, <4>1, <4>2 DEF Above, h
      <3>2. \A y \in Ids(Brings(h)) : x < y
        <4>1. Ids(Brings(h)) \subseteq Nat
          BY <1>1, BringsTyped
        <4> QED BY <1>6, <1>10, <1>13, <3>1, <4>1
      <3>3. Ids(v.messages) = Ids(t.messages) \cup Ids(Brings(h)) /\ v.hasMore = t.hasMore
        BY <1>8, <2>3 DEF ShownOf
      <3> QED BY <2>1, <3>2, <3>3 DEF Accounted
    <2>4. CASE h.type = "ack"
      <3>1. h.message.id \in Ids(t.messages)
        <4>1. \A l \in DOMAIN G : ~(l < 1)
          OBVIOUS
        <4> QED BY <1>1, <1>3, <2>4, <4>1 DEF Acknowledged, h
      <3>2. Ids(Brings(h)) = {h.message.id}
        BY <1>12, <2>4 DEF Ids
      <3>3. Ids(v.messages) = Ids(t.messages) /\ v.hasMore = t.hasMore
        BY <1>8, <2>4, <3>1, <3>2 DEF ShownOf
      <3> QED BY <2>1, <3>3 DEF Accounted
    <2>5. CASE Initial(h)
      BY <1>10, <1>11, <1>13, <2>5
    <2>6. CASE Older(h)
      <3>0. h.type = "history" /\ Brings(h) = h.messages
        BY <1>12, <2>6 DEF Older
      <3>1. Ids(v.messages) = Ids(t.messages) \cup Ids(h.messages) /\ v.hasMore = h.hasMore
        BY <1>8, <3>0 DEF ShownOf
      <3>2. CASE Connected(rows, t, G, u)
        <4>1. PICK y \in Ids(t.messages) : \A z \in Ids(rows) : z < y => Accounted(h, z)
          BY <1>1, <2>6, <3>2 DEF Connected, GoesOn, h
        <4>2. x \in Ids(t.messages) \/ (x < y /\ \A z \in Ids(t.messages) : x < z)
          BY <2>1 DEF Accounted
        <4>3. CASE x \in Ids(t.messages)
          BY <3>1, <4>3 DEF Accounted
        <4>4. CASE x < y /\ \A z \in Ids(t.messages) : x < z
          <5>1. Accounted(h, x)
            BY <1>9, <4>1, <4>4
          <5> QED BY <3>1, <4>4, <5>1 DEF Accounted
        <4> QED BY <4>2, <4>3, <4>4
      <3>3. CASE Restarted(rows, t, G, u)
        <4>1. x \in Ids(t.messages)
          BY <1>10, <2>1, <3>3 DEF Restarted, Accounted
        <4> QED BY <3>1, <4>1 DEF Accounted
      <3> QED BY <1>3, <3>2, <3>3
    <2> QED BY <1>1, <1>9, <2>2, <2>3, <2>4, <2>5, <2>6, FrameCases DEF Initial, Older, Resets
  <1>14. CASE n.cursor < x
    <2>1. p.cursor \in Tops(h)
      BY <1>5, <1>6, <1>9, <1>10, <1>14
    <2>2. Due(s, x)
      BY <1>2, <1>9, <1>10, <1>14 DEF Owed
    <2>3. Reaches(h, x)
      <3>1. Ordered(s, n.cursor)
        BY <1>2, <1>10
      <3> QED BY <1>1, <1>6, <1>9, <1>10, <1>11, <1>14, <2>1, <2>2, <3>1, NextReached DEF h
    <2>4. CASE x \in Ids(Carries(h))
      <3>1. Carries(h) # {}
        BY <2>4 DEF Ids
      <3>2. h.type \in {"sync", "history", "message"} /\ Carries(h) = Brings(h)
        BY <1>12, <3>1 DEF Initial
      <3> QED BY <1>8, <2>4, <3>2 DEF Accounted, ShownOf
    <2>5. CASE Starts(h) /\ \A m \in h.messages : x < m.id
      <3>1. Initial(h) /\ h.type = "history" /\ h.hasMore
        BY <2>5 DEF Starts, Initial
      <3>2. Ids(v.messages) = Ids(h.messages) /\ v.hasMore = h.hasMore
        BY <1>8, <1>11, <1>12, <3>1 DEF ShownOf
      <3>3. \A y \in Ids(h.messages) : x < y
        BY <2>5 DEF Ids
      <3> QED BY <3>1, <3>2, <3>3 DEF Accounted
    <2> QED BY <2>3, <2>4, <2>5 DEF Reaches
  <1> QED BY <1>6, <1>10, <1>13, <1>14

\* What is on a display stays there, unless the client starts over.
LEMMA ShownStays ==
    ASSUME NEW k \in Nat, NEW t \in Models, NEW f \in SoundFrames(k), NEW v, v = Show(t, f)
    PROVE  /\ ~Resets(f) => Ids(t.messages) \subseteq Ids(v.messages)
           /\ Resets(f) => Ids(v.messages) = {} /\ ~v.hasMore
           /\ Ids(v.messages) \subseteq Ids(t.messages) \cup Ids(Brings(f))
           /\ Ids(Carries(f)) \subseteq Ids(v.messages)
           /\ ~t.hasMore /\ (f.type = "history" => ~f.hasMore) => ~v.hasMore
  <1>1. ShownOf(t, f, v)
    BY ShownIds
  <1>2. CASE f.type \in {"sync", "history", "message", "ack"}
    <2>1. Carries(f) \subseteq Brings(f)
      BY BringsTyped
    <2>2. Ids(v.messages) = Ids(t.messages) \cup Ids(Brings(f))
          /\ v.hasMore = IF f.type = "history" THEN f.hasMore ELSE t.hasMore
      BY <1>1, <1>2 DEF ShownOf
    <2>3. Ids(Carries(f)) \subseteq Ids(Brings(f)) /\ ~Resets(f)
      BY <1>2, <2>1 DEF Ids, Resets
    <2>4. ~t.hasMore /\ (f.type = "history" => ~f.hasMore) => ~v.hasMore
      BY <2>2
    <2> QED BY <2>2, <2>3, <2>4
  <1>3. CASE f.type \notin {"sync", "history", "message", "ack"}
    <2>1. Ids(Carries(f)) = {}
      BY <1>3 DEF Carries, Ids
    <2>2. CASE Resets(f)
      <3>1. Ids(v.messages) = {} /\ v.hasMore = FALSE
        BY <1>1, <1>3, <2>2 DEF ShownOf, Resets
      <3> QED BY <2>1, <2>2, <3>1
    <2>3. CASE ~Resets(f)
      <3>1. Ids(v.messages) = Ids(t.messages) /\ v.hasMore = t.hasMore
        BY <1>1, <1>3, <2>3 DEF ShownOf, Resets
      <3> QED BY <2>1, <2>3, <3>1
    <2> QED BY <2>2, <2>3
  <1> QED BY <1>2, <1>3

\* Requests that are no sends and ask for no older messages.
Fewer(w, u) ==
    \A j \in DOMAIN w : w[j].type \in {"send", "history"} => \E l \in DOMAIN u : u[l] = w[j]

\* Pages stay connected to what is shown when the first frame is read,
LEMMA ReadConnected ==
    ASSUME NEW k \in Nat, NEW G \in Seq(SoundFrames(k)), G # <<>>, NEW n \in Networks,
           NEW t \in Models, NEW u, NEW w, Fewer(w, u), NEW rows,
           Greeted(n, G, u), Connected(rows, t, G, u),
           NEW v, v = Show(t, G[1]), NEW T, T = Tail(G)
    PROVE  Connected(rows, v, T, w)
  <1>1. /\ 1 \in DOMAIN G /\ G[1] \in SoundFrames(k)
        /\ Overtaken(T, 0) <=> Overtaken(G, 1)
        /\ Overtaken(G, 0) <=> Overtaken(G, 1) \/ G[1].type = "history_cleared"
        /\ \A l \in DOMAIN T : l + 1 \in DOMAIN G /\ T[l] = G[l + 1]
    <2>1. /\ Overtaken(T, 0) <=> Overtaken(G, 1)
          /\ Overtaken(G, 0) <=> Overtaken(G, 1) \/ G[1].type = "history_cleared"
      BY OneLess
    <2>2. /\ 1 \in DOMAIN G /\ \A l \in DOMAIN T : l + 1 \in DOMAIN G /\ T[l] = G[l + 1]
      BY OneLess
    <2> QED BY <2>1, <2>2
  <1>2. ~Overtaken(T, 0) /\ G[1].type # "history_cleared"
    BY <1>1 DEF Connected
  <1>3. /\ ~Resets(G[1]) => Ids(t.messages) \subseteq Ids(v.messages)
        /\ Resets(G[1]) => ~n.welcomed
    BY <1>1, <1>2, ShownStays DEF Resets, Greeted
  <1>4. ASSUME NEW l \in DOMAIN T, Older(T[l])
        PROVE  GoesOn(rows, v, T[l])
    <2>1. GoesOn(rows, t, T[l]) /\ n.welcomed
      BY <1>1, <1>4 DEF Connected, Greeted
    <2> QED BY <1>3, <2>1 DEF GoesOn
  <1>5. ASSUME NEW l \in DOMAIN w, w[l].type = "history"
        PROVE  w[l].before \in Ids(v.messages)
    <2>1. PICK j \in DOMAIN u : u[j] = w[l]
      BY <1>5 DEF Fewer
    <2>2. w[l].before \in Ids(t.messages) /\ n.welcomed
      BY <1>5, <2>1 DEF Connected, Greeted
    <2> QED BY <1>3, <2>2
  <1> QED BY <1>2, <1>4, <1>5 DEF Connected

\* and stay without effect after a cleanup.
LEMMA ReadRestarted ==
    ASSUME NEW k \in Nat, NEW G \in Seq(SoundFrames(k)), G # <<>>, NEW n \in Networks,
           NEW t \in Models, NEW u, NEW w, Fewer(w, u), NEW rows,
           Restarted(rows, t, G, u),
           NEW v, v = Show(t, G[1]), NEW T, T = Tail(G)
    PROVE  Restarted(rows, v, T, w)
  <1>1. /\ 1 \in DOMAIN G /\ G[1] \in SoundFrames(k)
        /\ Overtaken(T, 0) <=> Overtaken(G, 1)
        /\ Overtaken(G, 0) <=> Overtaken(G, 1) \/ G[1].type = "history_cleared"
        /\ \A l \in DOMAIN T : /\ l + 1 \in DOMAIN G /\ T[l] = G[l + 1]
                               /\ Overtaken(T, l) <=> Overtaken(G, l + 1)
    <2>1. /\ Overtaken(T, 0) <=> Overtaken(G, 1)
          /\ Overtaken(G, 0) <=> Overtaken(G, 1) \/ G[1].type = "history_cleared"
      BY OneLess
    <2>2. /\ 1 \in DOMAIN G
          /\ \A l \in DOMAIN T : /\ l + 1 \in DOMAIN G /\ T[l] = G[l + 1]
                                 /\ Overtaken(T, l) <=> Overtaken(G, l + 1)
      BY OneLess
    <2> QED BY <2>1, <2>2
  <1>2. /\ Resets(G[1]) => ~v.hasMore
        /\ Ids(v.messages) \subseteq Ids(t.messages) \cup Ids(Brings(G[1]))
        /\ ~t.hasMore /\ (G[1].type = "history" => ~G[1].hasMore) => ~v.hasMore
    BY <1>1, ShownStays
  <1>3. Overtaken(T, 0) \/ ~v.hasMore
    <2>1. SUFFICES ASSUME ~Overtaken(G, 1), G[1].type # "history_cleared" PROVE ~v.hasMore
      BY <1>1, <1>2 DEF Resets
    <2>2. ~Overtaken(G, 0)
      BY <1>1, <2>1
    <2>3. ~t.hasMore /\ (G[1].type = "history" => ~G[1].hasMore)
      BY <1>1, <2>1, <2>2 DEF Restarted
    <2> QED BY <1>2, <2>3
  <1>4. \A l \in DOMAIN T : (T[l].type = "history" /\ ~Overtaken(T, l)) =>
           Ids(T[l].messages) = {} /\ ~T[l].hasMore
    BY <1>1 DEF Restarted
  <1>5. \A l \in DOMAIN w : w[l].type = "history" => \A x \in Ids(rows) : w[l].before <= x
    BY DEF Restarted, Fewer
  <1>6. ASSUME Overtaken(T, 0), NEW x \in Ids(rows)
        PROVE  /\ \A y \in Ids(v.messages) : y < x
               /\ \A l \in DOMAIN T : Overtaken(T, l) => \A y \in Ids(Brings(T[l])) : y < x
    <2>1. /\ Overtaken(G, 0) /\ Overtaken(G, 1)
      BY <1>1, <1>6
    <2>2. /\ \A y \in Ids(t.messages) : y < x
          /\ \A l \in DOMAIN G : Overtaken(G, l) => \A y \in Ids(Brings(G[l])) : y < x
      BY <1>6, <2>1 DEF Restarted
    <2> QED BY <1>1, <1>2, <2>1, <2>2
  <1> QED BY <1>3, <1>4, <1>5, <1>6 DEF Restarted

\* What is shown has no hole once the first frame is read.
LEMMA ReadSettled ==
    ASSUME NEW k \in Nat, NEW s \in SessionsOf(k), NEW G \in Seq(SoundFrames(k)), G = s.outgoing,
           G # <<>>, NEW n \in Networks, NEW t \in Models, NEW u, NEW w, Fewer(w, u), NEW rows,
           Ids(rows) \subseteq Nat, \A x \in Ids(rows) : 0 < x,
           Tracks(k, rows, n, t, s, u),
           NEW p, p = Received(n, G[1]), NEW v, v = Show(t, G[1]), NEW T, T = Tail(G)
    PROVE  Settled(k, rows, p, v, T, w)
  <1>1. /\ 1 \in DOMAIN G /\ G[1] \in SoundFrames(k)
        /\ Overtaken(T, 0) <=> Overtaken(G, 1)
        /\ Overtaken(G, 0) <=> Overtaken(G, 1) \/ G[1].type = "history_cleared"
    <2>1. /\ Overtaken(T, 0) <=> Overtaken(G, 1)
          /\ Overtaken(G, 0) <=> Overtaken(G, 1) \/ G[1].type = "history_cleared"
      BY OneLess
    <2>2. 1 \in DOMAIN G
      BY OneLess
    <2> QED BY <2>1, <2>2
  <1>2. /\ \A l \in DOMAIN T : /\ l \in Nat /\ l + 1 \in DOMAIN G /\ T[l] = G[l + 1] /\ 1 < l + 1
                               /\ Overtaken(T, l) <=> Overtaken(G, l + 1)
        /\ \A l \in DOMAIN G : l # 1 => /\ l \in Nat /\ l - 1 \in DOMAIN T /\ T[l - 1] = G[l]
                                        /\ Overtaken(T, l - 1) <=> Overtaken(G, l)
    <2>1. \A l \in DOMAIN T : /\ l \in Nat /\ l + 1 \in DOMAIN G /\ T[l] = G[l + 1] /\ 1 < l + 1
                              /\ Overtaken(T, l) <=> Overtaken(G, l + 1)
      BY OneLess
    <2>2. \A l \in DOMAIN G : l # 1 => /\ l \in Nat /\ l - 1 \in DOMAIN T /\ T[l - 1] = G[l]
                                       /\ Overtaken(T, l - 1) <=> Overtaken(G, l)
      BY OneLess
    <2> QED BY <2>1, <2>2
  <1>3. Settled(k, rows, n, t, G, u)
    BY DEF Tracks
  <1>4. Greeted(n, G, u)
    BY <1>3 DEF Settled
  <1>5. /\ p.welcomed
        /\ Resets(G[1]) /\ G[1].type # "history_cleared" => ~n.welcomed
    <2>1. Along(n, G, p, Place(n, G), Place(p, T))
      BY <1>4, ReadPlace
    <2> QED BY <2>1 DEF Along
  <1>6. /\ ~Resets(G[1]) => Ids(t.messages) \subseteq Ids(v.messages)
        /\ Resets(G[1]) => Ids(v.messages) = {}
        /\ Ids(v.messages) \subseteq Ids(t.messages) \cup Ids(Brings(G[1]))
        /\ Ids(Carries(G[1])) \subseteq Ids(v.messages)
    <2> DEFINE h == G[1]
    <2>1. h \in SoundFrames(k) /\ v = Show(t, h)
      BY <1>1
    <2> HIDE DEF h
    <2>2. /\ ~Resets(h) => Ids(t.messages) \subseteq Ids(v.messages)
          /\ Resets(h) => Ids(v.messages) = {} /\ ~v.hasMore
          /\ Ids(v.messages) \subseteq Ids(t.messages) \cup Ids(Brings(h))
          /\ Ids(Carries(h)) \subseteq Ids(v.messages)
      BY <2>1, ShownStays
    <2> QED BY <2>2 DEF h
  <1>7. (~Overtaken(T, 0) /\ Keeps(p, T)) => p.cursor <= k /\ Unbroken(rows, p, v)
    BY <1>1, ReadUnbroken
  <1>8. \A y \in Ids(v.messages) : y <= k
    <2>1. Ids(Brings(G[1])) \in SUBSET (0 .. k)
      BY <1>1, BringsTyped
    <2> QED BY <1>3, <1>6, <2>1 DEF Settled
  <1>9. \A l \in DOMAIN w : w[l].type = "history" => w[l].before <= k
    BY <1>3 DEF Settled, Fewer
  <1>10. Connected(rows, v, T, w) \/ Restarted(rows, v, T, w)
    <2>1. CASE Connected(rows, t, G, u)
      BY <1>4, <2>1, ReadConnected
    <2>2. CASE Restarted(rows, t, G, u)
      BY <2>2, ReadRestarted
    <2> QED BY <1>3, <2>1, <2>2 DEF Settled
  <1>11. Acknowledged(v, T)
    <2>1. SUFFICES ASSUME NEW l \in DOMAIN T, T[l].type = "ack", ~Overtaken(T, l)
                   PROVE  \/ \E j \in DOMAIN T : /\ j < l /\ ~Overtaken(T, j)
                                                 /\ T[l].message.id \in Ids(Carries(T[j]))
                          \/ ~Overtaken(T, 0) /\ T[l].message.id \in Ids(v.messages)
      BY DEF Acknowledged
    <2>2. /\ l + 1 \in DOMAIN G /\ T[l] = G[l + 1] /\ ~Overtaken(G, l + 1) /\ l \in Nat
      BY <1>2, <2>1
    <2>3. n.welcomed
      BY <1>4, <2>1, <2>2 DEF Greeted
    <2>4. CASE ~Overtaken(G, 0) /\ G[l + 1].message.id \in Ids(t.messages)
      <3>1. ~Resets(G[1])
        BY <1>1, <1>5, <2>3, <2>4
      <3> QED BY <1>1, <1>6, <2>2, <2>4, <3>1
    <2>5. CASE \E j \in DOMAIN G : /\ j < l + 1 /\ ~Overtaken(G, j)
                                   /\ G[l + 1].message.id \in Ids(Carries(G[j]))
      <3>1. PICK j \in DOMAIN G : /\ j < l + 1 /\ ~Overtaken(G, j)
                                  /\ G[l + 1].message.id \in Ids(Carries(G[j]))
        BY <2>5
      <3>2. CASE j = 1
        BY <1>1, <1>6, <2>2, <3>1, <3>2
      <3>3. CASE j # 1
        <4>1. /\ j - 1 \in DOMAIN T /\ T[j - 1] = G[j] /\ ~Overtaken(T, j - 1) /\ j \in Nat
          BY <1>2, <3>1, <3>3
        <4>2. j - 1 < l
          BY <2>2, <3>1, <4>1
        <4> QED BY <2>2, <3>1, <4>1, <4>2
      <3> QED BY <3>2, <3>3
    <2>6. Acknowledged(t, G)
      BY <1>3 DEF Settled
    <2> QED BY <2>1, <2>2, <2>4, <2>5, <2>6 DEF Acknowledged
  <1>12. FirstPages(p, v, T)
    <2>1. SUFFICES ASSUME NEW l \in DOMAIN T, Initial(T[l]), ~Overtaken(T, l)
                   PROVE  l = 1 /\ p.welcomed /\ Ids(v.messages) = {} /\ p.cursor = 0
      BY DEF FirstPages
    <2>2. /\ l + 1 \in DOMAIN G /\ T[l] = G[l + 1] /\ ~Overtaken(G, l + 1) /\ l \in Nat /\ 1 < l + 1
      BY <1>2, <2>1
    <2>3. l + 1 = 2 /\ ~n.welcomed /\ ~G[1].resumed
      BY <1>3, <2>1, <2>2 DEF Settled, FirstPages
    <2>4. Resets(G[1])
      BY <1>4, <2>3 DEF Greeted, Resets
    <2>5. p.cursor = 0
      BY <1>1, <2>4, CursorMoves DEF Resets
    <2> QED BY <1>5, <1>6, <2>2, <2>3, <2>4, <2>5
  <1>13. Greeted(p, T, w)
    <2>1. \A l \in DOMAIN T : T[l].type # "welcome"
      BY <1>2, <1>4 DEF Greeted
    <2> QED BY <1>5, <2>1 DEF Greeted
  <1> QED BY <1>7, <1>8, <1>9, <1>10, <1>11, <1>12, <1>13 DEF Settled

\* What is under way stays in order and complete for the reader of a frame.
LEMMA ReadOrder ==
    ASSUME NEW k \in Nat, NEW s \in SessionsOf(k), s.outgoing # <<>>, NEW n, NEW p, NEW a, NEW b,
           Along(n, s.outgoing, p, b, a), NEW rows, Ids(rows) \subseteq Nat,
           Ordered(s, b), Owed(rows, s, b), NEW e, e = [s EXCEPT !.outgoing = Tail(@)]
    PROVE  Ordered(e, a) /\ Owed(rows, e, a)
  <1>1. Head(s.outgoing) = s.outgoing[1]
    BY DEF SessionsOf, Sessions
  <1>2. a = b \/ (~Overtaken(s.outgoing, 1) /\ a \in Tops(Head(s.outgoing)))
    BY <1>1 DEF Along
  <1>3. ~Overtaken(s.outgoing, 1) => \A x \in Ids(Carries(Head(s.outgoing))) : x <= a
    BY <1>1 DEF Along
  <1>4. a \in Nat /\ b \in Nat /\ b <= a
    BY DEF Along
  <1>5. Ordered(e, a) /\ \A r : Ids(r) \subseteq Nat /\ Owed(r, s, b) => Owed(r, e, a)
    BY <1>2, <1>3, <1>4, ReadKeeps
  <1> QED BY <1>5

\* Reading a frame keeps the client on its way.
LEMMA ReadTracks ==
    ASSUME NEW k \in Nat, NEW s \in SessionsOf(k), NEW G \in Seq(SoundFrames(k)), G = s.outgoing,
           G # <<>>, NEW n \in Networks, NEW t \in Models, NEW u, NEW w, Fewer(w, u), NEW rows,
           Ids(rows) \subseteq Nat, \A x \in Ids(rows) : 0 < x,
           Tracks(k, rows, n, t, s, u),
           NEW p, p = Received(n, G[1]), NEW v, v = Show(t, G[1]), NEW T, T = Tail(G)
    PROVE  Tracks(k, rows, p, v, [s EXCEPT !.outgoing = Tail(@)], w)
  <1>1. Settled(k, rows, p, v, T, w)
    BY ReadSettled
  <1>2. Greeted(n, G, u)
    BY DEF Tracks, Settled
  <1> DEFINE a == Place(p, T)
             b == Place(n, G)
             e == [s EXCEPT !.outgoing = Tail(@)]
  <1>3. Along(n, s.outgoing, p, b, a)
    BY <1>2, ReadPlace
  <1>4. Ordered(s, b) /\ Owed(rows, s, b)
    BY DEF Tracks
  <1>5. e.outgoing = T
    BY DEF SessionsOf, Sessions
  <1>6. Ordered(e, a) /\ Owed(rows, e, a)
    <2>1. e = [s EXCEPT !.outgoing = Tail(@)] /\ s.outgoing # <<>>
      OBVIOUS
    <2> HIDE DEF e, a, b
    <2> QED BY <1>3, <1>4, <2>1, ReadOrder
  <1> HIDE DEF e
  <1>7. Tracks(k, rows, p, v, e, w)
    BY <1>1, <1>5, <1>6 DEF Tracks
  <1> QED BY <1>7 DEF e

-----------------------------------------------------------------------------
(* What the server adds to a queue *)

\* Frame f, put behind queue H, leaves no hole in what is shown: neither a welcome, nor a
\* cleanup, nor a first page, an acknowledgement of what is under way, an older page that
\* goes on from what is shown.
Harmless(rows, new, n, t, H, u, f) ==
    /\ f.type \notin {"welcome", "history_cleared"} /\ ~Initial(f)
    /\ f.type = "ack" =>
          n.welcomed /\ \E i \in DOMAIN H : /\ ~Overtaken(H, i)
                                            /\ f.message.id \in Ids(Carries(H[i]))
    /\ Older(f) =>
          /\ n.welcomed
          /\ Connected(rows, t, H, u) => GoesOn(new, t, f)
          /\ Restarted(rows, t, H, u) => Ids(f.messages) = {} /\ ~f.hasMore

\* Pages behind which such frames are put stay connected,
LEMMA MoreConnected ==
    ASSUME NEW k \in Nat, NEW S, NEW H \in Seq(S), NEW P \in Seq(S), NEW n, NEW t \in Models,
           NEW u, NEW w, Fewer(w, u), NEW rows, NEW new, Ids(new) \subseteq Nat,
           \A x \in Ids(new) : x \in Ids(rows) \/ x > k,
           \A y \in Ids(t.messages) : y \in Nat /\ y <= k,
           \A j \in DOMAIN P : Harmless(rows, new, n, t, H, u, P[j]),
           Connected(rows, t, H, u)
    PROVE  Connected(new, t, H \o P, w)
  <1> DEFINE G == H \o P
  <1>1. \A j \in DOMAIN P : P[j].type # "history_cleared"
    BY DEF Harmless
  <1>2. /\ Overtaken(G, 0) <=> Overtaken(H, 0)
        /\ \A j \in DOMAIN H : G[j] = H[j]
        /\ \A j \in DOMAIN G : j \notin DOMAIN H => j - Len(H) \in DOMAIN P /\ G[j] = P[j - Len(H)]
    BY <1>1, Appending
  <1> HIDE DEF G
  <1>3. ASSUME NEW j \in DOMAIN G, Older(G[j])
        PROVE  GoesOn(new, t, G[j])
    <2>1. CASE j \in DOMAIN H
      <3>1. PICK y \in Ids(t.messages) : \A x \in Ids(rows) : x < y => Accounted(G[j], x)
        BY <1>2, <1>3, <2>1 DEF Connected, GoesOn
      <3>2. \A x \in Ids(new) : x < y => x \in Ids(rows)
        OBVIOUS
      <3> QED BY <3>1, <3>2 DEF GoesOn
    <2>2. CASE j \notin DOMAIN H
      <3>1. Harmless(rows, new, n, t, H, u, G[j])
        BY <1>2, <2>2
      <3> QED BY <1>3, <3>1 DEF Harmless
    <2> QED BY <2>1, <2>2
  <1>4. \A j \in DOMAIN w : w[j].type = "history" => w[j].before \in Ids(t.messages)
    BY DEF Connected, Fewer
  <1>5. ~Overtaken(G, 0)
    BY <1>2 DEF Connected
  <1>6. Connected(new, t, G, w)
    BY <1>3, <1>4, <1>5 DEF Connected
  <1> QED BY <1>6 DEF G

\* or without effect.
LEMMA MoreRestarted ==
    ASSUME NEW k \in Nat, NEW last \in Nat, k <= last,
           NEW H \in Seq(SoundFrames(k)), NEW P \in Seq(SoundFrames(last)),
           NEW S, H \in Seq(S), P \in Seq(S), NEW n, NEW t \in Models,
           NEW u, NEW w, Fewer(w, u), NEW rows, NEW new, Ids(new) \subseteq Nat,
           \A x \in Ids(new) : x \in Ids(rows) \/ x > k,
           \A y \in Ids(t.messages) : y \in Nat /\ y <= k,
           \A j \in DOMAIN u : u[j].type = "history" => u[j].before \in Nat /\ u[j].before <= k,
           \A j \in DOMAIN P : Harmless(rows, new, n, t, H, u, P[j]),
           Restarted(rows, t, H, u)
    PROVE  Restarted(new, t, H \o P, w)
  <1> DEFINE G == H \o P
  <1>1. \A j \in DOMAIN P : P[j].type # "history_cleared"
    BY DEF Harmless
  <1>2. /\ Overtaken(G, 0) <=> Overtaken(H, 0)
        /\ \A j \in DOMAIN H : G[j] = H[j] /\ (Overtaken(G, j) <=> Overtaken(H, j))
        /\ \A j \in DOMAIN G : j \notin DOMAIN H =>
              j - Len(H) \in DOMAIN P /\ G[j] = P[j - Len(H)] /\ ~Overtaken(G, j)
    BY <1>1, Appending
  <1> HIDE DEF G
  <1>3. Overtaken(G, 0) \/ ~t.hasMore
    BY <1>2 DEF Restarted
  <1>4. ASSUME NEW j \in DOMAIN G, G[j].type = "history", ~Overtaken(G, j)
        PROVE  Ids(G[j].messages) = {} /\ ~G[j].hasMore
    <2>1. CASE j \in DOMAIN H
      BY <1>2, <1>4, <2>1 DEF Restarted
    <2>2. CASE j \notin DOMAIN H
      <3>1. Harmless(rows, new, n, t, H, u, G[j]) /\ G[j] \in SoundFrames(last)
        BY <1>2, <2>2
      <3>2. Older(G[j])
        BY <1>4, <3>1, FrameCases DEF Harmless, Initial, Older
      <3> QED BY <3>1, <3>2 DEF Harmless
    <2> QED BY <2>1, <2>2
  <1>5. ASSUME NEW j \in DOMAIN w, w[j].type = "history", NEW x \in Ids(new)
        PROVE  w[j].before <= x
    <2>1. PICK l \in DOMAIN u : u[l] = w[j]
      BY <1>5 DEF Fewer
    <2>2. /\ u[l].before \in Nat /\ u[l].before <= k
          /\ x \in Ids(rows) => u[l].before <= x
      BY <1>5, <2>1 DEF Restarted
    <2>3. x \in Nat /\ (x \in Ids(rows) \/ x > k)
      BY <1>5
    <2> HIDE DEF Fewer
    <2>4. u[l].before <= x
      BY <2>2, <2>3
    <2> QED BY <2>1, <2>4
  <1>6. ASSUME Overtaken(G, 0), NEW x \in Ids(new)
        PROVE  /\ \A y \in Ids(t.messages) : y < x
               /\ \A j \in DOMAIN G : Overtaken(G, j) => \A y \in Ids(Brings(G[j])) : y < x
    <2>1. x \in Nat /\ (x \in Ids(rows) \/ x > k)
      BY <1>6
    <2>2. x \in Ids(rows) => \A y \in Ids(t.messages) : y < x
      BY <1>2, <1>6 DEF Restarted
    <2>3. \A y \in Ids(t.messages) : y < x
      BY <2>1, <2>2
    <2>4. ASSUME NEW j \in DOMAIN G, Overtaken(G, j), NEW y \in Ids(Brings(G[j]))
          PROVE  y < x
      <3>1. j \in DOMAIN H /\ G[j] = H[j] /\ Overtaken(H, j) /\ H[j] \in SoundFrames(k)
        BY <1>2, <2>4
      <3>2. Ids(Brings(H[j])) \in SUBSET (0 .. k)
        BY <3>1, BringsTyped
      <3>3. y \in Nat /\ y <= k
        BY <2>4, <3>1, <3>2
      <3>4. x \in Ids(rows) => y < x
        BY <1>2, <1>6, <2>4, <3>1 DEF Restarted
      <3> QED BY <2>1, <3>3, <3>4
    <2> QED BY <2>3, <2>4
  <1>7. Restarted(new, t, G, w)
    BY <1>3, <1>4, <1>5, <1>6 DEF Restarted
  <1> QED BY <1>7 DEF G

\* Acknowledgements, first pages and the welcome stay where they are.
LEMMA MoreGreeted ==
    ASSUME NEW k \in Nat, NEW last \in Nat, k <= last,
           NEW H \in Seq(SoundFrames(k)), NEW P \in Seq(SoundFrames(last)),
           NEW S, H \in Seq(S), P \in Seq(S), NEW n, NEW t,
           NEW u, NEW w, Fewer(w, u), NEW rows, NEW new,
           \A j \in DOMAIN P : Harmless(rows, new, n, t, H, u, P[j]),
           Acknowledged(t, H), FirstPages(n, t, H), Greeted(n, H, u)
    PROVE  /\ Acknowledged(t, H \o P) /\ FirstPages(n, t, H \o P) /\ Greeted(n, H \o P, w)
           /\ Overtaken(H \o P, 0) <=> Overtaken(H, 0)
           /\ Keeps(n, H \o P) <=> Keeps(n, H)
           /\ Place(n, H \o P) = Place(n, H)
  <1> DEFINE G == H \o P
  <1>1. \A j \in DOMAIN P : P[j].type # "history_cleared"
    BY DEF Harmless
  <1>2. /\ Overtaken(G, 0) <=> Overtaken(H, 0)
        /\ DOMAIN H \subseteq DOMAIN G /\ DOMAIN H = 1 .. Len(H) /\ Len(H) \in Nat
        /\ \A j \in DOMAIN H : j \in DOMAIN G /\ G[j] = H[j] /\ (Overtaken(G, j) <=> Overtaken(H, j))
        /\ \A j \in DOMAIN G : j \notin DOMAIN H =>
              /\ j - Len(H) \in DOMAIN P /\ G[j] = P[j - Len(H)] /\ ~Overtaken(G, j)
              /\ j \in Nat /\ Len(H) < j
    BY <1>1, Appending
  <1> HIDE DEF G
  <1>3. \A j \in DOMAIN G : j \notin DOMAIN H => Harmless(rows, new, n, t, H, u, G[j])
    BY <1>2
  <1>4. ~n.welcomed => 1 \in DOMAIN H /\ G[1] = H[1]
    BY <1>2 DEF Greeted
  <1>5. Acknowledged(t, G)
    <2>1. SUFFICES ASSUME NEW j \in DOMAIN G, G[j].type = "ack", ~Overtaken(G, j)
                   PROVE  \/ \E i \in DOMAIN G : /\ i < j /\ ~Overtaken(G, i)
                                                 /\ G[j].message.id \in Ids(Carries(G[i]))
                          \/ ~Overtaken(G, 0) /\ G[j].message.id \in Ids(t.messages)
      BY DEF Acknowledged
    <2>2. CASE j \in DOMAIN H
      <3>1. H[j].type = "ack" /\ ~Overtaken(H, j) /\ G[j] = H[j]
        BY <1>2, <2>1, <2>2
      <3>2. \/ \E i \in DOMAIN H : /\ i < j /\ ~Overtaken(H, i)
                                   /\ H[j].message.id \in Ids(Carries(H[i]))
            \/ ~Overtaken(H, 0) /\ H[j].message.id \in Ids(t.messages)
        BY <2>2, <3>1 DEF Acknowledged
      <3> QED BY <1>2, <3>1, <3>2
    <2>3. CASE j \notin DOMAIN H
      <3>1. PICK i \in DOMAIN H : ~Overtaken(H, i) /\ G[j].message.id \in Ids(Carries(H[i]))
        BY <1>3, <2>1, <2>3 DEF Harmless
      <3>2. i < j
        BY <1>2, <2>3
      <3> QED BY <1>2, <3>1, <3>2
    <2> QED BY <2>2, <2>3
  <1>6. FirstPages(n, t, G)
    <2>1. SUFFICES ASSUME NEW j \in DOMAIN G, Initial(G[j]), ~Overtaken(G, j)
                   PROVE  \/ j = 1 /\ n.welcomed /\ Ids(t.messages) = {} /\ n.cursor = 0
                          \/ j = 2 /\ ~n.welcomed /\ ~G[1].resumed
      BY DEF FirstPages
    <2>2. j \in DOMAIN H
      BY <1>3, <2>1 DEF Harmless
    <2>3. H[j] = G[j] /\ ~Overtaken(H, j)
      BY <1>2, <2>1, <2>2
    <2> QED BY <1>4, <2>1, <2>2, <2>3 DEF FirstPages
  <1>7. Greeted(n, G, w)
    <2>1. ASSUME NEW j \in DOMAIN G, G[j].type = "welcome"
          PROVE  j = 1 /\ ~n.welcomed
      <3>1. j \in DOMAIN H
        BY <1>3, <2>1 DEF Harmless
      <3> QED BY <1>2, <2>1, <3>1 DEF Greeted
    <2>2. ASSUME ~n.welcomed
          PROVE  /\ 1 \in DOMAIN G /\ G[1].type = "welcome"
                 /\ \A j \in DOMAIN w : w[j].type \notin {"send", "history"}
                 /\ \A j \in DOMAIN G : G[j].type # "ack" /\ ~Older(G[j])
      <3>1. 1 \in DOMAIN G /\ G[1].type = "welcome"
        BY <1>2, <1>4, <2>2 DEF Greeted
      <3>2. \A j \in DOMAIN w : w[j].type \notin {"send", "history"}
        BY <2>2 DEF Greeted, Fewer
      <3>3. \A j \in DOMAIN H : H[j].type # "ack" /\ ~Older(H[j])
        BY <2>2 DEF Greeted
      <3>4. \A j \in DOMAIN G : G[j].type # "ack" /\ ~Older(G[j])
        BY <1>2, <1>3, <2>2, <3>3 DEF Harmless
      <3> QED BY <3>1, <3>2, <3>4
    <2> QED BY <2>1, <2>2 DEF Greeted
  <1>8. Keeps(n, G) <=> Keeps(n, H)
    BY <1>4 DEF Keeps
  <1>9. Place(n, G) = Place(n, H)
    BY <1>2, <1>8 DEF Place
  <1> QED BY <1>2, <1>5, <1>6, <1>7, <1>8, <1>9 DEF G

\* The numbers that requests for older messages name.
Befores(u) == \A j \in DOMAIN u : u[j].type = "history" => u[j].before \in Nat

\* The rows new are those of rows, or later than all up to k.
NewAbove(k, rows, new) == Ids(new) \subseteq Nat /\ \A x \in Ids(new) : x \in Ids(rows) \/ x > k

\* Nothing that the server adds to the queue, with the rows it is about, leaves a hole.
LEMMA MoreSettled ==
    ASSUME NEW k \in Nat, NEW last \in Nat, k <= last,
           NEW H \in Seq(SoundFrames(k)), NEW P \in Seq(SoundFrames(last)),
           NEW n \in Networks, NEW t \in Models,
           NEW u, NEW w, Fewer(w, u),
           Befores(u), NEW rows, NEW new, NewAbove(k, rows, new),
           \A j \in DOMAIN P : Harmless(rows, new, n, t, H, u, P[j]),
           Settled(k, rows, n, t, H, u)
    PROVE  /\ Settled(last, new, n, t, H \o P, w)
           /\ Place(n, H \o P) = Place(n, H)
  <1> DEFINE G == H \o P
             S == SoundFrames(last)
  <1>0. /\ Ids(new) \subseteq Nat /\ \A x \in Ids(new) : x \in Ids(rows) \/ x > k
        /\ \A j \in DOMAIN u : u[j].type = "history" => u[j].before \in Nat
    BY DEF NewAbove, Befores
  <1>1. H \in Seq(S) /\ P \in Seq(S)
    BY Grown, SeqMonotonic
  <1> HIDE DEF S
  <1>2. /\ Acknowledged(t, G) /\ FirstPages(n, t, G) /\ Greeted(n, G, w)
        /\ Overtaken(G, 0) <=> Overtaken(H, 0)
        /\ Keeps(n, G) <=> Keeps(n, H)
        /\ Place(n, G) = Place(n, H)
    BY <1>1, MoreGreeted DEF Settled
  <1>3. \A y \in Ids(t.messages) : y \in Nat /\ y <= k
    <2>1. t.messages \in SUBSET Row
      BY DEF Models
    <2>2. \A y \in Ids(t.messages) : y \in Nat
      BY <2>1 DEF Ids, Row
    <2> QED BY <2>2 DEF Settled
  <1>4. \A j \in DOMAIN u : u[j].type = "history" => u[j].before \in Nat /\ u[j].before <= k
    BY <1>0 DEF Settled
  <1>5. Connected(new, t, G, w) \/ Restarted(new, t, G, w)
    <2>1. CASE Connected(rows, t, H, u)
      BY <1>0, <1>1, <1>3, <2>1, MoreConnected
    <2>2. CASE Restarted(rows, t, H, u)
      BY <1>0, <1>1, <1>3, <1>4, <2>2, MoreRestarted
    <2> QED BY <2>1, <2>2 DEF Settled
  <1> HIDE DEF G
  <1>6. ASSUME ~Overtaken(G, 0), Keeps(n, G)
        PROVE  n.cursor <= last /\ Unbroken(new, n, t)
    <2>1. n.cursor <= k /\ Unbroken(rows, n, t) /\ n.cursor \in Nat
      BY <1>2, <1>6 DEF Settled, Networks
    <2>2. \A x \in Ids(new) : x <= n.cursor => x \in Ids(rows)
      BY <1>0, <2>1
    <2> QED BY <2>1, <2>2 DEF Unbroken
  <1>7. \A y \in Ids(t.messages) : y <= last
    BY <1>3
  <1>8. ASSUME NEW j \in DOMAIN w, w[j].type = "history"
        PROVE  w[j].before <= last
    <2>1. PICK l \in DOMAIN u : u[l] = w[j]
      BY <1>8 DEF Fewer
    <2>2. u[l].before \in Nat /\ u[l].before <= k
      BY <1>4, <1>8, <2>1
    <2>3. u[l].before <= last
      BY <2>2
    <2> QED BY <2>1, <2>3
  <1>9. Settled(last, new, n, t, G, w)
    BY <1>2, <1>5, <1>6, <1>7, <1>8 DEF Settled
  <1> QED BY <1>2, <1>9 DEF G

\* Frames put behind a queue, in order and complete, leave the client on its way.
LEMMA MoreTracks ==
    ASSUME NEW k \in Nat, NEW last \in Nat, k <= last, NEW s \in SessionsOf(k),
           NEW P \in Seq(SoundFrames(last)), NEW n \in Networks, NEW t \in Models,
           NEW u, NEW w, Fewer(w, u), Befores(u), NEW rows, NEW new, NewAbove(k, rows, new),
           Tracks(k, rows, n, t, s, u),
           \A j \in DOMAIN P : Harmless(rows, new, n, t, s.outgoing, u, P[j]),
           NEW e, e.outgoing = s.outgoing \o P,
           Ordered(e, Place(n, s.outgoing)), Owed(new, e, Place(n, s.outgoing))
    PROVE  Tracks(last, new, n, t, e, w)
  <1> DEFINE H == s.outgoing
  <1>1. H \in Seq(SoundFrames(k)) /\ Settled(k, rows, n, t, H, u)
    BY DEF SessionsOf, Tracks
  <1> HIDE DEF H
  <1>4. \A j \in DOMAIN P : Harmless(rows, new, n, t, H, u, P[j])
    BY DEF H
  <1>5. /\ Settled(last, new, n, t, H \o P, w)
        /\ Place(n, H \o P) = Place(n, H)
    BY <1>1, <1>4, MoreSettled
  <1> QED BY <1>5 DEF H, Tracks

\* A client is within the log.
LEMMA PlaceTyped ==
    ASSUME NEW k \in Nat, NEW n \in Networks, NEW rows, NEW t, NEW G, NEW u,
           Settled(k, rows, n, t, G, u)
    PROVE  Place(n, G) \in 0 .. k
  <1>1. n.cursor \in Nat
    BY DEF Networks
  <1> QED BY <1>1 DEF Settled, Place

\* Nothing happens to a session, but other requests may be handled and the log may grow.
LEMMA RestsTracks ==
    ASSUME NEW k \in Nat, NEW last \in Nat, k <= last, NEW s \in SessionsOf(k),
           NEW n \in Networks, NEW t \in Models,
           NEW u, NEW w, Fewer(w, u), Befores(u), NEW rows, NEW new,
           Ids(rows) \subseteq Nat, Ids(new) = Ids(rows),
           Tracks(k, rows, n, t, s, u)
    PROVE  Tracks(last, new, n, t, s, w)
  <1> DEFINE P == <<>>
  <1>1. P \in Seq(SoundFrames(last)) /\ DOMAIN P = {}
    OBVIOUS
  <1>2. s.outgoing \in Seq(SoundFrames(k))
    BY DEF SessionsOf
  <1>3. s.outgoing = s.outgoing \o P
    BY <1>2
  <1>4. NewAbove(k, rows, new)
    BY DEF NewAbove
  <1>5. Ordered(s, Place(n, s.outgoing)) /\ Owed(new, s, Place(n, s.outgoing))
    BY DEF Tracks, Owed
  <1> HIDE DEF P
  <1> QED BY <1>1, <1>3, <1>4, <1>5, MoreTracks

\* A frame that carries nothing is put where it belongs.
LEMMA SlipTracks ==
    ASSUME NEW k \in Nat, NEW last \in Nat, k <= last, NEW s \in SessionsOf(k),
           NEW n \in Networks, NEW t \in Models,
           NEW u, NEW w, Fewer(w, u), Befores(u), NEW rows, NEW new,
           Ids(rows) \subseteq Nat, Ids(new) = Ids(rows),
           Tracks(k, rows, n, t, s, u),
           NEW f \in SoundFrames(k), Silent(f), Harmless(rows, new, n, t, s.outgoing, u, f),
           NEW e, Slips(e, s, f)
    PROVE  Tracks(last, new, n, t, e, w)
  <1> DEFINE b == Place(n, s.outgoing)
  <1>1. Ordered(s, b) /\ Owed(rows, s, b)
    BY DEF Tracks
  <1>2. Ordered(e, b) /\ Owed(new, e, b)
    <2>1. Ordered(e, b) /\ \A x : Due(s, x) => Due(e, x)
      BY <1>1, SilentKeeps
    <2> QED BY <1>1, <2>1 DEF Owed
  <1>3. NewAbove(k, rows, new)
    BY DEF NewAbove
  <1>4. f \in SoundFrames(last) /\ s \in Sessions /\ s.outgoing \in Seq(SoundFrames(k))
    BY Grown DEF SessionsOf
  <1>5. CASE e = Put(s, <<f>>)
    <2> DEFINE P == <<f>>
    <2>1. P \in Seq(SoundFrames(last)) /\ \A j \in DOMAIN P : P[j] = f
      BY <1>4, OneFrame
    <2>2. e.outgoing = s.outgoing \o P
      BY <1>4, <1>5 DEF Put, Sessions
    <2> HIDE DEF P, b
    <2>3. \A j \in DOMAIN P : Harmless(rows, new, n, t, s.outgoing, u, P[j])
      BY <2>1
    <2>4. Ordered(e, Place(n, s.outgoing)) /\ Owed(new, e, Place(n, s.outgoing))
      BY <1>2 DEF b
    <2> QED BY <1>3, <2>1, <2>2, <2>3, <2>4, MoreTracks
  <1>6. CASE e = [s EXCEPT !.deferred = @ \o <<f>>]
    <2> DEFINE P == <<>>
    <2>1. P \in Seq(SoundFrames(last)) /\ DOMAIN P = {}
      OBVIOUS
    <2>2. e.outgoing = s.outgoing /\ s.outgoing = s.outgoing \o P
      BY <1>4, <1>6 DEF Sessions
    <2> HIDE DEF P, b
    <2>3. Ordered(e, Place(n, s.outgoing)) /\ Owed(new, e, Place(n, s.outgoing))
      BY <1>2 DEF b
    <2> QED BY <1>3, <2>1, <2>2, <2>3, MoreTracks
  <1> QED BY <1>5, <1>6 DEF Slips

\* A new message.
LEMMA MessageTracks ==
    ASSUME NEW k \in Nat, NEW last \in Nat, k + 1 <= last, NEW s \in SessionsOf(k),
           NEW n \in Networks, NEW t \in Models,
           NEW u, NEW w, Fewer(w, u), Befores(u), NEW rows, NEW new, Ids(rows) \subseteq Nat,
           NEW m \in Row, m.id = k + 1, Ids(new) = Ids(rows) \cup {m.id},
           NEW req, Message(req, m) \in SoundFrames(k + 1),
           Tracks(k, rows, n, t, s, u), NEW e, News(e, s, Message(req, m))
    PROVE  Tracks(last, new, n, t, e, w)
  <1> DEFINE b == Place(n, s.outgoing)
             f == Message(req, m)
  <1>1. Ordered(s, b) /\ Owed(rows, s, b) /\ b \in 0 .. k
    BY PlaceTyped DEF Tracks
  <1>2. Ordered(e, b) /\ Owed(new, e, b)
    <2>1. Ordered(e, b) /\ (\A x : Due(s, x) => Due(e, x)) /\ Due(e, m.id)
      <3> HIDE DEF b
      <3> QED BY <1>1, MessageKeeps
    <2> QED BY <1>1, <2>1 DEF Owed
  <1>3. NewAbove(k, rows, new) /\ k <= last
    BY DEF NewAbove
  <1>4. f \in SoundFrames(last) /\ s \in Sessions /\ s.outgoing \in Seq(SoundFrames(k))
    BY Grown DEF SessionsOf
  <1>5. f.type = "message"
    BY DEF Message
  <1>6. Harmless(rows, new, n, t, s.outgoing, u, f)
    BY <1>5 DEF Harmless, Initial, Older
  <1>7. CASE e = Put(s, <<f>>)
    <2> DEFINE P == <<f>>
    <2>1. P \in Seq(SoundFrames(last)) /\ \A j \in DOMAIN P : P[j] = f
      BY <1>4, OneFrame
    <2>2. e.outgoing = s.outgoing \o P
      BY <1>4, <1>7 DEF Put, Sessions
    <2> HIDE DEF P, b, f
    <2>3. \A j \in DOMAIN P : Harmless(rows, new, n, t, s.outgoing, u, P[j])
      BY <1>6, <2>1
    <2>4. Ordered(e, Place(n, s.outgoing)) /\ Owed(new, e, Place(n, s.outgoing))
      BY <1>2 DEF b
    <2> QED BY <1>3, <2>1, <2>2, <2>3, <2>4, MoreTracks
  <1>8. CASE e = [s EXCEPT !.deferred = @ \o <<f>>]
    <2> DEFINE P == <<>>
    <2>1. P \in Seq(SoundFrames(last)) /\ DOMAIN P = {}
      OBVIOUS
    <2>2. e.outgoing = s.outgoing /\ s.outgoing = s.outgoing \o P
      BY <1>4, <1>8 DEF Sessions
    <2> HIDE DEF P, b, f
    <2>3. Ordered(e, Place(n, s.outgoing)) /\ Owed(new, e, Place(n, s.outgoing))
      BY <1>2 DEF b
    <2> QED BY <1>3, <2>1, <2>2, <2>3, MoreTracks
  <1> QED BY <1>7, <1>8 DEF News

\* Requests that were asked before.
LEMMA FewerOfThese ==
    ASSUME NEW u, NEW w, Fewer(w, u), Befores(u)
    PROVE  Fewer(w, w) /\ Befores(w)
  <1>1. Fewer(w, w)
    BY DEF Fewer
  <1>2. Befores(w)
    BY DEF Fewer, Befores
  <1> QED BY <1>1, <1>2

\* The sender gets its message, and then the acknowledgement.
LEMMA OwnTracks ==
    ASSUME NEW k \in Nat, NEW last \in Nat, k + 1 <= last, NEW s \in SessionsOf(k), ~s.syncing,
           NEW n \in Networks, n.welcomed, NEW t \in Models,
           NEW u, NEW w, Fewer(w, u), Befores(u), NEW rows, NEW new, Ids(rows) \subseteq Nat,
           NEW m \in Row, m.id = k + 1, Ids(new) = Ids(rows) \cup {m.id},
           Tracks(k, rows, n, t, s, u),
           NEW e, e = Put(Put(s, <<Message("send", m)>>), <<Ack("send", m)>>)
    PROVE  Tracks(last, new, n, t, e, w)
  <1> DEFINE f == Message("send", m)
             a == Ack("send", m)
             v == Put(s, <<f>>)
             l == k + 1
             G == SoundFrames(l)
  <1>1. l \in Nat /\ k <= l /\ l <= last /\ m.id <= l
    OBVIOUS
  <1>2. f \in G /\ a \in G
    BY <1>1, FramesTyped
  <1>3. Silent(a) /\ a.type = "ack" /\ a.message = m
    BY Kinds DEF Ack
  <1>4. Carries(f) = {m} /\ f.type = "message"
    BY Kinds
  <1>5. s \in Sessions /\ s \in SessionsOf(l) /\ s.outgoing \in Seq(G)
    BY <1>1, Grown DEF SessionsOf
  <1>6. v.outgoing = s.outgoing \o <<f>> /\ ~v.syncing
    BY <1>5 DEF Put, Sessions
  <1>7. v \in SessionsOf(l)
    <2>1. s.outgoing \o <<f>> \in Seq(G)
      BY <1>2, <1>5, ConcatProperties
    <2>2. v = [s EXCEPT !.outgoing = s.outgoing \o <<f>>]
      BY DEF Put
    <2>3. G \subseteq Frames
      BY DEF SoundFrames
    <2>4. s.outgoing \o <<f>> \in Seq(Frames)
      BY <2>1, <2>3
    <2> HIDE DEF v, f, G, a, l
    <2>5. v \in Sessions
      BY <1>5, <2>2, <2>4 DEF Sessions
    <2> QED BY <1>5, <2>1, <2>2, <2>5 DEF SessionsOf, Sessions, G
  <1>8. News(v, s, Message("send", m))
    BY DEF News
  <1>9. Fewer(w, w) /\ Befores(w)
    BY FewerOfThese
  <1>10. l = k + 1 /\ Message("send", m) \in SoundFrames(k + 1)
    BY <1>2
  <1>11. Ids(new) \subseteq Nat
    BY <1>1
  <1> HIDE DEF v, l
  <1>12. Tracks(l, new, n, t, v, w)
    BY <1>1, <1>8, <1>10, MessageTracks
  <1>13. \E j \in DOMAIN v.outgoing : ~Overtaken(v.outgoing, j) /\ m.id \in Ids(Carries(v.outgoing[j]))
    <2> DEFINE H == s.outgoing
               P == <<f>>
               Q == H \o P
    <2>1. P \in Seq(G) /\ 1 \in DOMAIN P /\ P[1] = f /\ DOMAIN P = {1}
      BY <1>2, OneFrame
    <2>2. m.id \in Ids(Carries(f)) /\ f.type # "history_cleared"
      BY <1>4 DEF Ids
    <2>3. H \in Seq(G) /\ v.outgoing = Q
      BY <1>5, <1>6
    <2>4. \A j \in DOMAIN P : P[j] = f
      BY <2>1
    <2> HIDE DEF P, f, Q, H
    <2>5. \A j \in DOMAIN P : P[j].type # "history_cleared"
      BY <2>2, <2>4
    <2>6. /\ Len(H) + 1 \in DOMAIN Q /\ Len(H) + 1 \notin DOMAIN H /\ Q[Len(H) + 1] = f
          /\ \A j \in DOMAIN Q : j \notin DOMAIN H => ~Overtaken(Q, j)
      BY <2>1, <2>3, <2>5, Appending DEF Q
    <2> QED BY <2>2, <2>3, <2>6
  <1>14. Harmless(new, new, n, t, v.outgoing, w, a)
    BY <1>3, <1>13 DEF Harmless, Initial, Older
  <1>15. Slips(e, v, a)
    BY <1>6 DEF Slips, v
  <1> HIDE DEF a
  <1>16. a \in SoundFrames(l)
    BY <1>2
  <1> QED BY <1>1, <1>3, <1>7, <1>9, <1>11, <1>12, <1>14, <1>15, <1>16, SlipTracks

\* The page of older messages that was asked for.
LEMMA OlderTracks ==
    ASSUME NEW k \in Nat, NEW last \in Nat, k <= last, NEW s \in SessionsOf(k), ~s.syncing,
           NEW n \in Networks, n.welcomed, NEW t \in Models,
           NEW u, NEW w, Fewer(w, u), Befores(u), NEW rows, NEW new,
           Ids(rows) \subseteq Nat, Ids(new) = Ids(rows),
           Tracks(k, rows, n, t, s, u),
           1 \in DOMAIN u, u[1].type = "history", NEW before \in Nat, u[1].before = before,
           NEW page \in Pages(k),
           \A x \in Ids(page.messages) : x \in Ids(rows) /\ x < before,
           page.hasMore => Ids(page.messages) # {},
           \A x \in Ids(rows) : x < before => Accounted(page, x),
           NEW e, e = Put(s, <<PageFrame("history", "older", page)>>)
    PROVE  Tracks(last, new, n, t, e, w)
  <1> DEFINE f == PageFrame("history", "older", page)
  <1>1. f \in SoundFrames(k) /\ Silent(f)
    BY FramesTyped, Kinds
  <1>2. f.type = "history" /\ f.req = "older" /\ f.messages = page.messages /\ f.hasMore = page.hasMore
    BY DEF PageFrame
  <1>3. Slips(e, s, f)
    BY DEF Slips
  <1> HIDE DEF f
  <1>4. Harmless(rows, new, n, t, s.outgoing, u, f)
    <2>1. ASSUME Connected(rows, t, s.outgoing, u)
          PROVE  GoesOn(new, t, f)
      <3>1. before \in Ids(t.messages)
        BY <2>1 DEF Connected
      <3>2. \A x \in Ids(new) : x < before => Accounted(f, x)
        BY <1>2 DEF Accounted
      <3> QED BY <3>1, <3>2 DEF GoesOn
    <2>2. ASSUME Restarted(rows, t, s.outgoing, u)
          PROVE  Ids(f.messages) = {} /\ ~f.hasMore
      <3>1. \A x \in Ids(rows) : before <= x
        BY <2>2 DEF Restarted
      <3>2. \A x \in Ids(page.messages) : x \in Nat /\ before <= x /\ x < before
        BY <3>1
      <3>3. Ids(page.messages) = {}
        BY <3>2
      <3> QED BY <1>2, <3>3
    <2> QED BY <1>2, <2>1, <2>2 DEF Harmless, Initial, Older
  <1> QED BY <1>1, <1>3, <1>4, SlipTracks

\* Frames of these types can always be added.
LEMMA HarmlessTypes ==
    ASSUME NEW rows, NEW new, NEW n, NEW t, NEW H, NEW u, NEW f,
           f.type \in {"sync", "sync_complete", "message", "recalled", "presence", "error"}
    PROVE  Harmless(rows, new, n, t, H, u, f)
  BY DEF Harmless, Initial, Older

\* The next page of the catching up, or the last one and what was held back.
LEMMA PageTracks ==
    ASSUME NEW k \in Nat, NEW last \in Nat, k <= last, NEW s \in SessionsOf(k), s.syncing,
           NEW n \in Networks, NEW t \in Models,
           NEW u, NEW w, Fewer(w, u), Befores(u), NEW rows, NEW new,
           Ids(rows) \subseteq Nat, Ids(new) = Ids(rows),
           Tracks(k, rows, n, t, s, u),
           NEW page, PageFrame("sync", "next", page) \in SoundFrames(k),
           NEW e, Paged(e, s, page) \/ Caught(e, s, page),
           Ordered(e, Place(n, s.outgoing)), Owed(rows, e, Place(n, s.outgoing))
    PROVE  Tracks(last, new, n, t, e, w)
  <1> DEFINE f == PageFrame("sync", "next", page)
             c == SyncComplete(s.through)
             S == SoundFrames(last)
  <1>1. s \in Sessions /\ s.outgoing \in Seq(SoundFrames(k)) /\ s.deferred \in Seq(SoundFrames(k))
    BY DEF SessionsOf
  <1>2. s.outgoing \in Seq(S) /\ s.deferred \in Seq(S) /\ f \in S
    BY <1>1, Grown, SeqMonotonic
  <1>3. c \in SoundFrames(k)
    <2>1. s.through \in 0 .. k
      BY <1>1 DEF SessionsOf, Sessions
    <2> QED BY <2>1, FramesTyped
  <1>4. c \in S
    BY <1>3, Grown
  <1>5. f.type = "sync" /\ c.type = "sync_complete"
    BY DEF PageFrame, SyncComplete
  <1>6. \A j \in DOMAIN s.deferred : s.deferred[j].type \in {"message", "recalled", "presence"}
    BY DEF Tracks, Ordered, CatchingUp
  <1>7. NewAbove(k, rows, new)
    BY DEF NewAbove
  <1>8. Owed(new, e, Place(n, s.outgoing))
    BY DEF Owed
  <1>9. CASE Paged(e, s, page)
    <2> DEFINE P == <<f>>
    <2>1. P \in Seq(S) /\ \A j \in DOMAIN P : P[j] = f
      BY <1>2, OneFrame
    <2>2. e.outgoing = s.outgoing \o P
      BY <1>1, <1>9 DEF Paged, Sessions
    <2> HIDE DEF P, f
    <2>3. \A j \in DOMAIN P : Harmless(rows, new, n, t, s.outgoing, u, P[j])
      BY <1>5, <2>1, HarmlessTypes
    <2> QED BY <1>7, <1>8, <2>1, <2>2, <2>3, MoreTracks
  <1>10. CASE Caught(e, s, page)
    <2> DEFINE A == <<f>>
               B == <<c>>
               D == s.deferred
               C == B \o D
               P == A \o C
               H == s.outgoing
    <2>1. A \in Seq(S) /\ B \in Seq(S) /\ DOMAIN A = {1} /\ A[1] = f /\ DOMAIN B = {1} /\ B[1] = c
      BY <1>2, <1>4, OneFrame
    <2>2. e.outgoing = (H \o A) \o C /\ D \in Seq(S) /\ H \in Seq(S)
      BY <1>1, <1>2, <1>10 DEF Caught, Sessions
    <2>3. \A j \in DOMAIN D : D[j].type \in {"message", "recalled", "presence"}
      BY <1>6
    <2> HIDE DEF A, B, D, H, f, c
    <2>4. C \in Seq(S)
      BY <2>1, <2>2, ConcatProperties
    <2>5. \A j \in DOMAIN C : C[j] = c \/ \E i \in DOMAIN D : C[j] = D[i]
      <3>1. B \in Seq(S) /\ DOMAIN B = {1} /\ B[1] = c /\ D \in Seq(S)
        BY <2>1, <2>2
      <3> HIDE DEF S
      <3> QED BY <3>1, EitherPart
    <2> HIDE DEF C
    <2>6. P \in Seq(S)
      BY <2>1, <2>4, ConcatProperties
    <2>7. \A j \in DOMAIN P : P[j] = f \/ \E i \in DOMAIN C : P[j] = C[i]
      <3>1. A \in Seq(S) /\ DOMAIN A = {1} /\ A[1] = f /\ C \in Seq(S)
        BY <2>1, <2>4
      <3> HIDE DEF S
      <3> QED BY <3>1, EitherPart
    <2>8. e.outgoing = H \o P
      BY <2>1, <2>2, <2>4
    <2> HIDE DEF P
    <2>9. \A j \in DOMAIN P : P[j].type \in {"sync", "sync_complete", "message", "recalled", "presence", "error"}
      BY <1>5, <2>3, <2>5, <2>7
    <2>10. \A j \in DOMAIN P : Harmless(rows, new, n, t, s.outgoing, u, P[j])
      BY <2>9, HarmlessTypes
    <2> QED BY <1>7, <1>8, <2>6, <2>8, <2>10, MoreTracks DEF H
  <1> QED BY <1>9, <1>10

\* A cleanup: the client starts over, with nothing.
LEMMA StartTracks ==
    ASSUME NEW k \in Nat, NEW last \in Nat, k <= last, NEW s \in SessionsOf(k),
           NEW n \in Networks, NEW t \in Models,
           NEW u, NEW w, Fewer(w, u), Befores(u), NEW rows, NEW new, Ids(new) = {},
           Tracks(k, rows, n, t, s, u), NEW inst, NEW users,
           HistoryCleared(inst) \in SoundFrames(k), Presence(users) \in SoundFrames(k),
           NEW e, StartsOver(e, s, inst, users)
    PROVE  Tracks(last, new, n, t, e, w)
  <1> DEFINE H == s.outgoing
             G == e.outgoing
             S == SoundFrames(k)
             f == HistoryCleared(inst)
             g == Presence(users)
             A == <<f>>
             B == <<g>>
  <1>1. s \in Sessions /\ H \in Seq(S)
    BY DEF SessionsOf
  <1>2. A \in Seq(S) /\ B \in Seq(S) /\ DOMAIN A = {1} /\ A[1] = f /\ DOMAIN B = {1} /\ B[1] = g
    BY OneFrame
  <1>3. G = (H \o A) \o B
    BY <1>1 DEF StartsOver, Sessions
  <1>4. f.type = "history_cleared" /\ g.type = "presence"
    BY Kinds
  <1>5. Ordered(s, Place(n, H)) /\ Settled(k, rows, n, t, H, u)
    BY DEF Tracks
  <1>6. /\ Ordered(e, 0) /\ Owed(new, e, 0)
        /\ Overtaken(G, 0)
        /\ \A j \in DOMAIN G : Overtaken(G, j) \/ G[j].type \in {"history_cleared", "presence"}
    <2>1. /\ Ordered(e, 0) /\ \A r : Ids(r) = {} => Owed(r, e, 0)
          /\ Overtaken(e.outgoing, 0)
          /\ \A j \in DOMAIN e.outgoing :
                 \/ Overtaken(e.outgoing, j)
                 \/ e.outgoing[j].type \in {"history_cleared", "presence"}
      <3> DEFINE b == Place(n, H)
      <3>1. Ordered(s, b)
        BY <1>5
      <3> HIDE DEF b
      <3> QED BY <3>1, StartKeeps
    <2> QED BY <2>1
  <1> HIDE DEF G, H, A, B, f, g, S
  <1>7. /\ \A j \in DOMAIN G : (j \in DOMAIN H /\ G[j] = H[j]) \/ G[j] = f \/ G[j] = g
        /\ \A j \in DOMAIN H : j \in DOMAIN G /\ G[j] = H[j]
    <2> DEFINE J == H \o A
    <2>1. /\ J \in Seq(S)
          /\ \A j \in DOMAIN J : (j \in DOMAIN H /\ J[j] = H[j]) \/ J[j] = f
          /\ \A j \in DOMAIN H : j \in DOMAIN J /\ J[j] = H[j]
      BY <1>1, <1>2, OneMore
    <2> HIDE DEF J
    <2>2. /\ \A j \in DOMAIN (J \o B) : (j \in DOMAIN J /\ (J \o B)[j] = J[j]) \/ (J \o B)[j] = g
          /\ \A j \in DOMAIN J : j \in DOMAIN (J \o B) /\ (J \o B)[j] = J[j]
      BY <1>2, <2>1, OneMore
    <2>3. G = J \o B
      BY <1>3 DEF J
    <2> QED BY <2>1, <2>2, <2>3
  <1>8. \A y \in Ids(t.messages) : y \in Nat /\ y <= k
    <2>1. t.messages \in SUBSET Row
      BY DEF Models
    <2>2. \A y \in Ids(t.messages) : y \in Nat
      BY <2>1 DEF Ids, Row
    <2> QED BY <1>5, <2>2 DEF Settled
  <1>9. ASSUME NEW j \in DOMAIN w, w[j].type = "history"
        PROVE  w[j].before <= last
    <2>1. PICK l \in DOMAIN u : u[l] = w[j]
      BY <1>9 DEF Fewer
    <2>2. u[l].before \in Nat /\ u[l].before <= k
      BY <1>5, <1>9, <2>1 DEF Befores, Settled
    <2>3. u[l].before <= last
      BY <2>2
    <2> QED BY <2>1, <2>3
  <1>10. Restarted(new, t, G, w)
    BY <1>6 DEF Restarted
  <1>11. Acknowledged(t, G) /\ FirstPages(n, t, G)
    BY <1>6 DEF Acknowledged, FirstPages, Initial
  <1>12. Greeted(n, G, w)
    <2>1. \A j \in DOMAIN G : G[j].type = "welcome" => j = 1 /\ ~n.welcomed
      BY <1>4, <1>5, <1>7 DEF Settled, Greeted
    <2>2. ASSUME ~n.welcomed
          PROVE  /\ 1 \in DOMAIN G /\ G[1].type = "welcome"
                 /\ \A j \in DOMAIN w : w[j].type \notin {"send", "history"}
                 /\ \A j \in DOMAIN G : G[j].type # "ack" /\ ~Older(G[j])
      <3>1. 1 \in DOMAIN G /\ G[1].type = "welcome"
        BY <1>5, <1>7, <2>2 DEF Settled, Greeted
      <3>2. \A j \in DOMAIN w : w[j].type \notin {"send", "history"}
        BY <1>5, <2>2 DEF Settled, Greeted, Fewer
      <3>3. \A j \in DOMAIN H : H[j].type # "ack" /\ ~Older(H[j])
        BY <1>5, <2>2 DEF Settled, Greeted
      <3>4. \A j \in DOMAIN G : G[j].type # "ack" /\ ~Older(G[j])
        BY <1>4, <1>7, <3>3 DEF Older
      <3> QED BY <3>1, <3>2, <3>4
    <2> QED BY <2>1, <2>2 DEF Greeted
  <1>13. \A y \in Ids(t.messages) : y <= last
    BY <1>8
  <1>14. Settled(last, new, n, t, G, w)
    BY <1>6, <1>9, <1>10, <1>11, <1>12, <1>13 DEF Settled
  <1>15. Place(n, G) = 0
    BY <1>6 DEF Place
  <1> QED BY <1>6, <1>14, <1>15 DEF Tracks, G

\* The first frames of a session lead its client on from where it was.
LEMMA FreshTracks ==
    ASSUME ServerInv, Numbered, NEW r \in Room, NEW nick, NEW o, NEW inst,
           NEW n \in Networks, ~n.welcomed, ~InvalidCursor(r, inst, n.cursor),
           NEW s, Fresh(s, r, nick, o, inst, n.cursor), s.live,
           NEW t \in Models, \A y \in Ids(t.messages) : y <= db.last,
           inst = InstanceID(db, r) => Unbroken(RoomRows(db, r), n, t),
           NEW u, \A k \in DOMAIN u : u[k].type \notin {"send", "history"}
    PROVE  Tracks(db.last, RoomRows(db, r), n, t, s, u)
  <1> DEFINE resumed == inst = InstanceID(db, r)
             rows == RoomRows(db, r)
             g == Greeting(r, nick, inst)
             f == FirstFrame(r, inst, n.cursor)
             e == SyncComplete(LatestID(db, r))
             G == s.outgoing
  <1>1. n.cursor \in Nat
    BY DEF Networks
  <1>2. LET b == Start(r, inst, n.cursor)
        IN  b \in 0 .. db.last /\ Ordered(s, b) /\ Owed(RoomRows(db, r), s, b)
    BY <1>1, FreshKeeps
  <1>3. g.type = "welcome" /\ g.resumed = resumed
    BY DEF Greeting, Welcome
  <1>4. f.type \in {"sync", "history"} /\ f.req = "initial"
    BY DEF FirstFrame, PageFrame
  <1>5. e.type = "sync_complete"
    BY DEF SyncComplete
  <1>6. s.syncing \in BOOLEAN
    BY DEF Fresh, SessionsOf, Sessions
  <1>7. G = <<g, f>> \/ G = <<g, f, e>>
    BY <1>6 DEF Fresh
  <1>8. Start(r, inst, n.cursor) = IF resumed THEN n.cursor ELSE 0
    BY DEF Start
  <1> HIDE DEF g, f, e, resumed
  <1>9. G = <<g, f>> => /\ DOMAIN G = 1 .. 2 /\ G[1] = g /\ G[2] = f
    OBVIOUS
  <1>10. G = <<g, f, e>> => /\ DOMAIN G = 1 .. 3 /\ G[1] = g /\ G[2] = f /\ G[3] = e
    OBVIOUS
  <1> HIDE DEF G
  <1>11. /\ 1 \in DOMAIN G /\ G[1] = g
         /\ \A k \in DOMAIN G : (k = 1 /\ G[k] = g) \/ (k = 2 /\ G[k] = f) \/ (k = 3 /\ G[k] = e)
    BY <1>7, <1>9, <1>10
  <1>12. \A k \in DOMAIN G : G[k].type # "history_cleared" /\ G[k].type # "ack" /\ ~Older(G[k])
    BY <1>3, <1>4, <1>5, <1>11 DEF Older
  <1>13. ~Overtaken(G, 0) /\ \A k \in DOMAIN G : ~Overtaken(G, k)
    BY <1>12 DEF Overtaken
  <1>14. Keeps(n, G) <=> resumed
    BY <1>3, <1>11 DEF Keeps
  <1>15. Place(n, G) = Start(r, inst, n.cursor)
    BY <1>8, <1>13, <1>14 DEF Place
  <1>16. resumed => n.cursor <= db.last /\ Unbroken(rows, n, t)
    <2>1. resumed => n.cursor \in 0 .. db.last
      BY <1>2, <1>8
    <2>2. resumed => Unbroken(rows, n, t)
      BY DEF resumed
    <2>3. db.last \in Nat
      BY DEF ServerInv, Databases
    <2> QED BY <2>1, <2>2, <2>3
  <1>17. Connected(rows, t, G, u)
    BY <1>12, <1>13 DEF Connected
  <1>18. Acknowledged(t, G)
    BY <1>12 DEF Acknowledged
  <1>19. FirstPages(n, t, G)
    <2> SUFFICES ASSUME NEW k \in DOMAIN G, Initial(G[k])
                 PROVE  k = 2 /\ ~n.welcomed /\ ~G[1].resumed
      BY DEF FirstPages
    <2>1. k = 2 /\ G[k] = f /\ f.type = "history"
      BY <1>3, <1>5, <1>11 DEF Initial
    <2>2. ~resumed
      BY <2>1 DEF f, resumed, FirstFrame, PageFrame
    <2> QED BY <1>3, <1>11, <2>1, <2>2
  <1>20. Greeted(n, G, u)
    BY <1>3, <1>4, <1>5, <1>11, <1>12 DEF Greeted
  <1>21. Settled(db.last, rows, n, t, G, u)
    BY <1>14, <1>16, <1>17, <1>18, <1>19, <1>20 DEF Settled
  <1> QED BY <1>2, <1>15, <1>21 DEF Tracks, G

\* A client that was let in is on its way to what the room has.
LEMMA BegunTracks ==
    ASSUME ServerInv, Numbered, NEW c \in Conn, NEW last \in Nat, db.last <= last,
           DOMAIN sessions' \subseteq Room \X Name,
           NEW r \in Room, NEW nick, NEW o, NEW inst,
           NEW n \in Networks, ~n.welcomed, Begins(c, r, nick, o, inst, n.cursor),
           NEW t \in Models, \A y \in Ids(t.messages) : y <= db.last,
           inst = InstanceID(db, r) => Unbroken(RoomRows(db, r), n, t),
           NEW u, \A k \in DOMAIN u : u[k].type \notin {"send", "history"}
    PROVE  Tracks(last, RoomRows(db', r), n, t, conns'[c], u)
  <1> DEFINE k == db.last
             e == conns'[c]
             rows == RoomRows(db, r)
             users == Users(sessions', r)
             f == Presence(users)
  <1>1. RoomRows(db', r) = rows /\ ~InvalidCursor(r, inst, n.cursor)
    BY DEF Begins, SameRows
  <1>2. PICK s \in SessionsOf(k) :
           /\ s.live /\ Fresh(s, r, nick, o, inst, n.cursor)
           /\ News(e, s, Presence(Users(sessions', r)))
    BY DEF Begins
  <1>3. k \in Nat /\ k <= last /\ rows \subseteq Row
    BY DEF ServerInv, Databases, RoomRows
  <1>4. Tracks(db.last, RoomRows(db, r), n, t, s, u)
    BY <1>1, <1>2, FreshTracks
  <1>5. f \in SoundFrames(k)
    BY <1>3, UsersTyped, FramesTyped
  <1>6. Silent(f) /\ f.type = "presence"
    BY Kinds DEF Presence
  <1>7. Ids(rows) \subseteq Nat
    BY <1>3 DEF Ids, Row
  <1>8. Fewer(u, u) /\ Befores(u)
    BY DEF Fewer, Befores
  <1> HIDE DEF f
  <1>9. Slips(e, s, f)
    BY <1>2, <1>6 DEF Slips, News, f
  <1> HIDE DEF k, e, rows, users
  <1>10. Harmless(rows, rows, n, t, s.outgoing, u, f)
    BY <1>6, HarmlessTypes
  <1>11. Tracks(k, rows, n, t, s, u)
    BY <1>4 DEF k, rows
  <1>12. Tracks(last, rows, n, t, e, u)
    BY <1>2, <1>3, <1>5, <1>6, <1>7, <1>8, <1>9, <1>10, <1>11, SlipTracks
  <1> QED BY <1>1, <1>12 DEF e

\* Requests of the user go on from what is shown.
LEMMA AskTracks ==
    ASSUME NEW k \in Nat, NEW s, NEW n \in Networks, n.welcomed,
           NEW t \in Models, NEW v \in Models, v.messages = t.messages, v.hasMore = t.hasMore,
           NEW u \in Seq(Requests), NEW x \in Requests,
           x.type = "history" => t.hasMore /\ x.before \in Ids(t.messages),
           NEW rows, Ids(rows) \subseteq Nat, Tracks(k, rows, n, t, s, u)
    PROVE  Tracks(k, rows, n, v, s, Append(u, x))
  <1> DEFINE G == s.outgoing
             w == Append(u, x)
  <1>1. /\ Ordered(s, Place(n, G)) /\ Owed(rows, s, Place(n, G))
        /\ Settled(k, rows, n, t, G, u)
    BY DEF Tracks
  <1>2. \A j \in DOMAIN w : w[j] = x \/ (j \in DOMAIN u /\ w[j] = u[j])
    OBVIOUS
  <1>3. Ids(v.messages) = Ids(t.messages) /\ \A y \in Ids(t.messages) : y \in Nat
    <2>1. t.messages \in SUBSET Row
      BY DEF Models
    <2> QED BY <2>1 DEF Ids, Row
  <1> HIDE DEF G, w
  <1>4. (~Overtaken(G, 0) /\ Keeps(n, G)) => n.cursor <= k /\ Unbroken(rows, n, v)
    BY <1>1 DEF Settled, Unbroken, Accounted
  <1>5. \A y \in Ids(v.messages) : y <= k
    BY <1>1, <1>3 DEF Settled
  <1>6. \A j \in DOMAIN w : w[j].type = "history" => w[j].before <= k
    BY <1>1, <1>2, <1>3 DEF Settled
  <1>7. Acknowledged(v, G) /\ FirstPages(n, v, G)
    BY <1>1, <1>3 DEF Settled, Acknowledged, FirstPages
  <1>8. Greeted(n, G, w)
    BY <1>1 DEF Settled, Greeted
  <1>9. ASSUME Connected(rows, t, G, u) PROVE Connected(rows, v, G, w)
    <2>1. \A j \in DOMAIN G : Older(G[j]) => GoesOn(rows, v, G[j])
      BY <1>3, <1>9 DEF Connected, GoesOn
    <2>2. \A j \in DOMAIN w : w[j].type = "history" => w[j].before \in Ids(v.messages)
      BY <1>2, <1>3, <1>9 DEF Connected
    <2> QED BY <1>9, <2>1, <2>2 DEF Connected
  <1>10. ASSUME Restarted(rows, t, G, u) PROVE Restarted(rows, v, G, w)
    <2>1. ASSUME x.type = "history", NEW y \in Ids(rows) PROVE x.before <= y
      <3>1. Overtaken(G, 0)
        BY <1>10, <2>1 DEF Restarted
      <3>2. x.before < y
        BY <1>10, <2>1, <3>1 DEF Restarted
      <3>3. x.before \in Nat /\ y \in Nat
        BY <1>3, <2>1
      <3> QED BY <3>2, <3>3
    <2>2. \A j \in DOMAIN w : w[j].type = "history" => \A y \in Ids(rows) : w[j].before <= y
      BY <1>2, <1>10, <2>1 DEF Restarted
    <2> QED BY <1>3, <1>10, <2>2 DEF Restarted
  <1>11. Connected(rows, v, G, w) \/ Restarted(rows, v, G, w)
    BY <1>1, <1>9, <1>10 DEF Settled
  <1>12. Settled(k, rows, n, v, G, w)
    BY <1>4, <1>5, <1>6, <1>7, <1>8, <1>11 DEF Settled
  <1> QED BY <1>1, <1>12 DEF Tracks, G, w

-----------------------------------------------------------------------------
(* A step, and the clients that it is about *)

\* What is known of a client.
LEMMA GapSeen ==
    ASSUME GapInv, NEW i \in Client
    PROVE  /\ ScreenInv /\ SystemInv /\ ServerInv /\ Counted(db) /\ DrawnIn(db) /\ Numbered
           /\ db.last \in Nat /\ net[i] \in Networks /\ tui[i] \in Models /\ RoomOf[i] \in Room
           /\ \A y \in Ids(tui[i].messages) : y \in Nat /\ y <= db.last
           /\ \A x \in Ids(Rows(i)) : x \in Nat /\ 0 < x /\ x <= db.last
           /\ Current(i) => /\ Unbroken(Rows(i), net[i], tui[i])
                            /\ net[i].cursor \in Nat /\ net[i].cursor <= db.last
           /\ net[i].instance[1] <= db.drawn /\ net[i].instance[2] <= db.drawn
           /\ Linked(i) => /\ net[i].conn \in Conn /\ up[net[i].conn] \in Seq(Requests)
                           /\ conns[net[i].conn] \in ConnsOf(db.last)
                           /\ Befores(up[net[i].conn])
                           /\ ClientOk(i, net[i], tui[i], conns[net[i].conn], up[net[i].conn])
           /\ Served(i) => /\ conns[net[i].conn] \in SessionsOf(db.last)
                           /\ conns[net[i].conn].room = RoomOf[i]
                           /\ Tracks(db.last, Rows(i), net[i], tui[i],
                                     conns[net[i].conn], up[net[i].conn])
  <1>1. ScreenInv /\ Numbered
    BY DEF GapInv
  <1>2. /\ SystemInv /\ ServerInv /\ Counted(db) /\ DrawnIn(db) /\ db.last \in Nat
        /\ net[i] \in Networks /\ tui[i] \in Models /\ RoomOf[i] \in Room
        /\ Log(db, RoomOf[i]) \in Logs
        /\ Base(Log(db, RoomOf[i]), net[i], tui[i])
        /\ Linked(i) =>
                 /\ net[i].conn \in Conn
                 /\ conns[net[i].conn] \in ConnsOf(db.last)
                 /\ Faithful(RoomOf[i], Log(db, RoomOf[i]), net[i], tui[i], conns[net[i].conn])
                 /\ ClientOk(i, net[i], tui[i], conns[net[i].conn], up[net[i].conn])
    BY <1>1, Seen
  <1>3. \A y \in Ids(tui[i].messages) : y \in Nat /\ y <= db.last
    <2>1. tui[i].messages \in SUBSET Row
      BY <1>2 DEF Models
    <2> QED BY <2>1 DEF GapInv, Ids, Row
  <1>4. \A x \in Ids(Rows(i)) : x \in Nat /\ 0 < x /\ x <= db.last
    <2>1. \A m \in db.rows : m.id \in Nat /\ 0 < m.id /\ m.id <= db.last
      BY <1>1, <1>2 DEF Counted, Databases, Row, Numbered
    <2> QED BY <2>1 DEF Rows, RoomRows, Ids
  <1>5. Current(i) => /\ Unbroken(Rows(i), net[i], tui[i])
                      /\ net[i].cursor \in Nat /\ net[i].cursor <= db.last
    <2>1. Current(i) => Unbroken(Rows(i), net[i], tui[i])
      BY DEF GapInv
    <2>2. Current(i) => net[i].cursor <= LatestID(db, RoomOf[i])
      BY <1>2 DEF Current, Base, Log, InstanceID
    <2>3. LatestID(db, RoomOf[i]) \in 0 .. db.last
      BY <1>2, LatestTyped DEF ServerInv
    <2>4. net[i].cursor \in Nat
      BY <1>2 DEF Networks
    <2> QED BY <1>2, <2>1, <2>2, <2>3, <2>4
  <1>6. net[i].instance[1] <= db.drawn /\ net[i].instance[2] <= db.drawn
    BY <1>2 DEF Base, Log
  <1>7. Linked(i) => up[net[i].conn] \in Seq(Requests) /\ Befores(up[net[i].conn])
    <2> SUFFICES ASSUME Linked(i) PROVE up[net[i].conn] \in Seq(Requests) /\ Befores(up[net[i].conn])
      OBVIOUS
    <2> DEFINE u == up[net[i].conn]
    <2>1. u \in Seq(Requests)
      BY <1>2 DEF SystemInv
    <2> HIDE DEF u
    <2>2. \A j \in DOMAIN u : u[j] \in Requests
      BY <2>1
    <2>3. \A x \in Requests : x.type = "history" => x.before \in Nat
      BY DEF Requests, JoinRequests
    <2>4. Befores(u)
      BY <2>2, <2>3 DEF Befores
    <2> QED BY <2>1, <2>4 DEF u
  <1>8. Served(i) => /\ conns[net[i].conn] \in SessionsOf(db.last)
                     /\ conns[net[i].conn].room = RoomOf[i]
                     /\ Tracks(db.last, Rows(i), net[i], tui[i],
                               conns[net[i].conn], up[net[i].conn])
    BY <1>2, Phases DEF GapInv, Served, Active, Faithful
  <1> QED BY <1>1, <1>2, <1>3, <1>4, <1>5, <1>6, <1>7, <1>8

\* A transaction gives a room a new instance, or rows with new ids only.
LEMMA CommitRooms ==
    ASSUME Counted(db), DrawnIn(db), Commits, NEW r \in Room
    PROVE  /\ db.last <= db'.last
           /\ \/ Renewed(Log(db, r), Log(db', r))
              \/ /\ InstanceID(db', r) = InstanceID(db, r)
                 /\ \A x \in Ids(RoomRows(db', r)) : x \in Ids(RoomRows(db, r)) \/ x > db.last
  <1>1. db \in Databases /\ db.last \in Nat
    BY DEF Counted, Databases
  <1>2. CASE db' = db
    BY <1>1, <1>2
  <1>3. ASSUME NEW q \in Room, db' = OpenRoom(db, q)
        PROVE  db'.last = db.last /\ db'.rows = db.rows /\ InstanceID(db', r) = InstanceID(db, r)
    BY <1>1, <1>3 DEF OpenRoom, Databases, InstanceID
  <1>4. ASSUME NEW q \in Room, NEW o \in Owner, db' = AppendChat(db, q, o)
        PROVE  /\ db.last <= db'.last /\ InstanceID(db', r) = InstanceID(db, r)
               /\ \A x \in Ids(RoomRows(db', r)) : x \in Ids(RoomRows(db, r)) \/ x > db.last
    <2>1. Grew(Log(db, r), Log(db', r)) /\ db'.last = db.last + 1
      BY <1>4, AppendLog
    <2>2. InstanceID(db', r) = InstanceID(db, r)
      BY <2>1 DEF Grew, Log, InstanceID
    <2>3. db'.rows = db.rows \cup {NewRow(db, q, o)}
      BY <1>1, <1>4 DEF AppendChat, Databases
    <2>4. NewRow(db, q, o).id > db.last
      BY <1>1 DEF NewRow
    <2>5. \A m \in RoomRows(db', r) : m \in RoomRows(db, r) \/ m.id > db.last
      BY <2>3, <2>4 DEF RoomRows
    <2> QED BY <1>1, <2>1, <2>2, <2>5 DEF Ids
  <1>5. ASSUME NEW m \in db.rows, db' = RecallRow(db, m)
        PROVE  /\ db.last <= db'.last
               /\ \/ Renewed(Log(db, r), Log(db', r))
                  \/ /\ InstanceID(db', r) = InstanceID(db, r)
                     /\ \A x \in Ids(RoomRows(db', r)) : x \in Ids(RoomRows(db, r)) \/ x > db.last
    <2> DEFINE shown == [m EXCEPT !.recalled = TRUE]
    <2>1. /\ db'.last = db.last /\ shown.id = m.id
          /\ r # m.room => Grew(Log(db, r), Log(db', r))
          /\ r = m.room => Renewed(Log(db, r), Log(db', r))
      <3> DEFINE v == Log(db, r)
                 w == Log(db', r)
                 e == db'
                 d == db
      <3>1. /\ Counted(d) /\ DrawnIn(d) /\ m \in d.rows /\ r \in Room /\ e = RecallRow(d, m)
            /\ v = Log(d, r) /\ w = Log(e, r) /\ shown = [m EXCEPT !.recalled = TRUE]
        BY <1>5
      <3> HIDE DEF v, w, e, d, shown
      <3>2. /\ e.last = d.last /\ shown.id = m.id
            /\ r # m.room => Grew(v, w)
            /\ r = m.room => Renewed(v, w)
        BY <3>1, RecallLog
      <3> QED BY <3>2 DEF v, w, e, d
    <2>2. CASE r # m.room
      <3>1. InstanceID(db', r) = InstanceID(db, r)
        BY <2>1, <2>2 DEF Grew, Log, InstanceID
      <3>2. db'.rows = (db.rows \ {m}) \cup {shown} /\ shown.room = m.room
        BY <1>1, <1>5 DEF RecallRow, Databases, Row
      <3>3. RoomRows(db', r) = RoomRows(db, r)
        BY <2>2, <3>2 DEF RoomRows
      <3> QED BY <1>1, <2>1, <3>1, <3>3
    <2>3. CASE r = m.room
      BY <1>1, <2>1, <2>3
    <2> QED BY <2>2, <2>3
  <1>6. CASE db' = ClearAll(db)
    <2>1. db'.last = db.last /\ Renewed(Log(db, r), Log(db', r))
      BY <1>6, ClearLog
    <2> QED BY <1>1, <2>1
  <1>7. \A q \in Room : db' = OpenRoom(db, q) =>
           db.last <= db'.last /\ RoomRows(db', r) = RoomRows(db, r)
           /\ InstanceID(db', r) = InstanceID(db, r)
    BY <1>1, <1>3 DEF RoomRows
  <1> QED BY <1>2, <1>4, <1>5, <1>6, <1>7 DEF Commits

\* A step of the server: whoever is served is still led on, and for the others new rows
\* come later than all they have.
LEMMA ServerGap ==
    ASSUME GapInv, ScreenInv', UNCHANGED <<net, tui>>, Commits,
           \A i \in Client : (Linked(i) /\ Active(conns'[net[i].conn])) =>
              Tracks(db'.last, RoomRows(db', RoomOf[i]), net[i], tui[i],
                     conns'[net[i].conn], up'[net[i].conn])
    PROVE  GapInv'
  <1>1. Numbered'
    BY CommitNumbers DEF GapInv, ScreenInv, SystemInv, ServerInv
  <1>2. ASSUME NEW i \in Client
        PROVE  /\ \A y \in Ids(tui'[i].messages) : y <= db'.last
               /\ Current(i)' => Unbroken(RoomRows(db', RoomOf[i]), net'[i], tui'[i])
               /\ Served(i)' => Tracks(db'.last, RoomRows(db', RoomOf[i]), net'[i], tui'[i],
                                       conns'[net'[i].conn], up'[net'[i].conn])
    <2> DEFINE n == net[i]
               t == tui[i]
               r == RoomOf[i]
               rows == RoomRows(db, r)
               new == RoomRows(db', r)
    <2>1. /\ Counted(db) /\ DrawnIn(db) /\ db.last \in Nat /\ n \in Networks /\ r \in Room
          /\ \A y \in Ids(t.messages) : y \in Nat /\ y <= db.last
          /\ Current(i) => Unbroken(rows, n, t) /\ n.cursor \in Nat /\ n.cursor <= db.last
          /\ n.instance[1] <= db.drawn /\ n.instance[2] <= db.drawn
      BY GapSeen DEF Rows
    <2>2. /\ db.last <= db'.last
          /\ \/ Renewed(Log(db, r), Log(db', r))
             \/ /\ InstanceID(db', r) = InstanceID(db, r)
                /\ \A x \in Ids(new) : x \in Ids(rows) \/ x > db.last
      BY <2>1, CommitRooms
    <2>3. db'.last \in Nat /\ Ids(new) \subseteq Nat /\ db' \in Databases
      BY DEF ScreenInv, SystemInv, ServerInv, Databases, RoomRows, Row, Ids
    <2>4. /\ net'[i] = n /\ tui'[i] = t
          /\ Current(i)' <=> n.instance = InstanceID(db', r)
          /\ Served(i)' <=> Linked(i) /\ Active(conns'[n.conn])
      BY DEF Current, Served, Linked
    <2>5. \A y \in Ids(t.messages) : y <= db'.last
      BY <2>1, <2>2, <2>3
    <2>6. ASSUME n.instance = InstanceID(db', r)
          PROVE  Unbroken(new, n, t)
      <3>1. ~Renewed(Log(db, r), Log(db', r))
        <4>1. /\ n.instance[1] = db'.instance /\ n.instance[2] = db'.epoch[r]
          BY <2>6 DEF InstanceID
        <4>2. db.drawn \in Nat /\ db'.instance \in Nat /\ db'.epoch[r] \in Nat
          BY <2>1, <2>3 DEF Counted, Databases
        <4>3. ~(db'.instance > db.drawn) /\ ~(db'.epoch[r] > db.drawn)
          BY <2>1, <4>1, <4>2
        <4> QED BY <4>3 DEF Renewed, Log
      <3>2. /\ Current(i)
            /\ \A x \in Ids(new) : x \in Ids(rows) \/ x > db.last
        BY <2>2, <2>6, <3>1 DEF Current
      <3>3. /\ Unbroken(rows, n, t) /\ n.cursor \in Nat /\ n.cursor <= db.last
        BY <2>1, <3>2
      <3>4. \A x \in Ids(new) : x <= n.cursor => x \in Ids(rows)
        BY <2>1, <2>3, <3>2, <3>3
      <3> QED BY <3>3, <3>4 DEF Unbroken
    <2>7. (Linked(i) /\ Active(conns'[n.conn])) =>
              Tracks(db'.last, new, n, t, conns'[n.conn], up'[n.conn])
      OBVIOUS
    <2> HIDE DEF n, t, r, rows, new
    <2> QED BY <2>4, <2>5, <2>6, <2>7 DEF r, new
  <1> QED BY <1>1, <1>2 DEF GapInv, Rows

\* A step of client i.
LEMMA ClientGap ==
    ASSUME GapInv, ScreenInv', UNCHANGED db, NEW i \in Client, NEW p, NEW q,
           net' = [net EXCEPT ![i] = p], tui' = [tui EXCEPT ![i] = q],
           \A j \in Client \ {i} : Linked(j) => /\ conns'[net[j].conn] = conns[net[j].conn]
                                                /\ up'[net[j].conn] = up[net[j].conn],
           \A y \in Ids(q.messages) : y <= db.last,
           p.instance = InstanceID(db, RoomOf[i]) => Unbroken(Rows(i), p, q),
           (p.phase = "linked" /\ Active(conns'[p.conn])) =>
              Tracks(db.last, Rows(i), p, q, conns'[p.conn], up'[p.conn])
    PROVE  GapInv'
  <1>1. net \in [Client -> Networks] /\ tui \in [Client -> Models] /\ Numbered
    BY DEF GapInv, ScreenInv, SystemInv
  <1>2. net'[i] = p /\ tui'[i] = q /\ \A j \in Client \ {i} : net'[j] = net[j] /\ tui'[j] = tui[j]
    BY <1>1
  <1>3. Numbered'
    BY <1>1 DEF Numbered
  <1>4. ASSUME NEW j \in Client
        PROVE  /\ \A y \in Ids(tui'[j].messages) : y <= db'.last
               /\ Current(j)' => Unbroken(Rows(j)', net'[j], tui'[j])
               /\ Served(j)' => Tracks(db'.last, Rows(j)', net'[j], tui'[j],
                                       conns'[net'[j].conn], up'[net'[j].conn])
    <2>1. Rows(j)' = Rows(j) /\ db'.last = db.last
      BY DEF Rows
    <2>2. CASE j = i
      <3>1. /\ Current(j)' <=> p.instance = InstanceID(db, RoomOf[i])
            /\ Served(j)' <=> p.phase = "linked" /\ Active(conns'[p.conn])
        BY <1>2, <2>2 DEF Current, Served, Linked
      <3> QED BY <1>2, <2>1, <2>2, <3>1
    <2>3. CASE j # i
      <3>1. net'[j] = net[j] /\ tui'[j] = tui[j]
        BY <1>2, <2>3
      <3>2. (Current(j)' <=> Current(j)) /\ (Linked(j)' <=> Linked(j))
        BY <3>1 DEF Current, Linked
      <3>3. Linked(j) => /\ conns'[net[j].conn] = conns[net[j].conn]
                         /\ up'[net[j].conn] = up[net[j].conn]
        BY <2>3
      <3>4. Served(j)' => Served(j) /\ Linked(j)
        BY <3>1, <3>2, <3>3 DEF Served
      <3>5. /\ \A y \in Ids(tui[j].messages) : y <= db.last
            /\ Current(j) => Unbroken(Rows(j), net[j], tui[j])
            /\ Served(j) => Tracks(db.last, Rows(j), net[j], tui[j],
                                   conns[net[j].conn], up[net[j].conn])
        BY DEF GapInv
      <3>6. Served(j)' => Tracks(db'.last, Rows(j)', net'[j], tui'[j],
                                 conns'[net'[j].conn], up'[net'[j].conn])
        <4> SUFFICES ASSUME Served(j)'
                     PROVE  Tracks(db'.last, Rows(j)', net'[j], tui'[j],
                                   conns'[net'[j].conn], up'[net'[j].conn])
          OBVIOUS
        <4>1. /\ conns'[net[j].conn] = conns[net[j].conn] /\ up'[net[j].conn] = up[net[j].conn]
              /\ Served(j)
          BY <3>3, <3>4
        <4> QED BY <2>1, <3>1, <3>5, <4>1
      <3> QED BY <2>1, <3>1, <3>2, <3>5, <3>6
    <2> QED BY <2>2, <2>3
  <1> QED BY <1>3, <1>4 DEF GapInv

\* Client i is on its way, with the requests w left, after a step of the server.
OnTrack(i, w) ==
    Tracks(db'.last, RoomRows(db', RoomOf[i]), net[i], tui[i], conns'[net[i].conn], w)

\* What is known of a client that is served.
LEMMA ServedFacts ==
    ASSUME GapInv, NEW i \in Client, Served(i)
    PROVE  LET c == net[i].conn
           IN  /\ db.last \in Nat /\ db \in Databases /\ RowsDrawn /\ Numbered
               /\ net[i] \in Networks /\ tui[i] \in Models /\ RoomOf[i] \in Room /\ c \in Conn
               /\ conns[c] \in SessionsOf(db.last) /\ conns[c] \in Sessions
               /\ conns[c].room = RoomOf[i] /\ Befores(up[c])
               /\ Ids(RoomRows(db, RoomOf[i])) \subseteq Nat
               /\ Tracks(db.last, RoomRows(db, RoomOf[i]), net[i], tui[i], conns[c], up[c])
  <1>1. /\ db.last \in Nat /\ ServerInv /\ Counted(db) /\ Numbered
        /\ net[i] \in Networks /\ tui[i] \in Models /\ RoomOf[i] \in Room
        /\ \A x \in Ids(Rows(i)) : x \in Nat /\ 0 < x /\ x <= db.last
        /\ Linked(i) => net[i].conn \in Conn /\ Befores(up[net[i].conn])
        /\ Served(i) => /\ conns[net[i].conn] \in SessionsOf(db.last)
                        /\ conns[net[i].conn].room = RoomOf[i]
                        /\ Tracks(db.last, Rows(i), net[i], tui[i],
                                  conns[net[i].conn], up[net[i].conn])
    BY GapSeen
  <1>2. Linked(i)
    BY DEF Served
  <1>3. conns[net[i].conn] \in Sessions
    BY <1>1 DEF SessionsOf
  <1> QED BY <1>1, <1>2, <1>3 DEF Rows, ServerInv, Counted

\* Nothing happens to its session,
LEMMA RestsOn ==
    ASSUME GapInv, NEW i \in Client, Served(i), db'.last \in Nat, db.last <= db'.last,
           NEW w, Fewer(w, up[net[i].conn]), Rests(net[i].conn)
    PROVE  OnTrack(i, w)
  <1> DEFINE c == net[i].conn
             s == conns[c]
             rows == RoomRows(db, RoomOf[i])
  <1>1. /\ db.last \in Nat /\ net[i] \in Networks /\ tui[i] \in Models /\ s \in SessionsOf(db.last)
        /\ s.room = RoomOf[i] /\ Befores(up[c]) /\ Ids(rows) \subseteq Nat
        /\ Tracks(db.last, rows, net[i], tui[i], s, up[c])
    BY ServedFacts
  <1>2. conns'[c] = s /\ RoomRows(db', RoomOf[i]) = rows
    BY <1>1 DEF Rests, SameRows
  <1> HIDE DEF s, rows
  <1>3. Tracks(db'.last, rows, net[i], tui[i], s, w)
    BY <1>1, RestsTracks
  <1> QED BY <1>2, <1>3 DEF OnTrack

\* it hears of something that brings no message,
LEMMA SlipsOn ==
    ASSUME GapInv, NEW i \in Client, Served(i), db'.last \in Nat, db.last <= db'.last,
           NEW w, Fewer(w, up[net[i].conn]),
           Ids(RoomRows(db', RoomOf[i])) = Ids(RoomRows(db, RoomOf[i])),
           NEW f \in SoundFrames(db.last), Silent(f),
           f.type \in {"presence", "error", "recalled"},
           Slips(conns'[net[i].conn], conns[net[i].conn], f)
    PROVE  OnTrack(i, w)
  <1> DEFINE c == net[i].conn
             s == conns[c]
             rows == RoomRows(db, RoomOf[i])
             new == RoomRows(db', RoomOf[i])
  <1>1. /\ db.last \in Nat /\ net[i] \in Networks /\ tui[i] \in Models /\ s \in SessionsOf(db.last)
        /\ Befores(up[c]) /\ Ids(rows) \subseteq Nat
        /\ Tracks(db.last, rows, net[i], tui[i], s, up[c])
    BY ServedFacts
  <1>2. Ids(new) = Ids(rows) /\ Slips(conns'[c], s, f)
    OBVIOUS
  <1>3. OnTrack(i, w) <=> Tracks(db'.last, new, net[i], tui[i], conns'[c], w)
    BY DEF OnTrack
  <1> HIDE DEF s, rows, new, OnTrack
  <1>4. Harmless(rows, new, net[i], tui[i], s.outgoing, up[c], f)
    BY HarmlessTypes
  <1>5. Tracks(db'.last, new, net[i], tui[i], conns'[c], w)
    BY <1>1, <1>2, <1>4, SlipTracks
  <1> QED BY <1>3, <1>5

\* of who is present,
LEMMA PresenceOn ==
    ASSUME GapInv, NEW i \in Client, Served(i), db'.last \in Nat, db.last <= db'.last,
           DOMAIN sessions' \subseteq Room \X Name,
           NEW w, Fewer(w, up[net[i].conn]), HearsPresence(net[i].conn)
    PROVE  OnTrack(i, w)
  <1> DEFINE c == net[i].conn
             U == Users(sessions', conns[c].room)
             f == Presence(U)
  <1>1. db.last \in Nat /\ conns[c].room = RoomOf[i]
    BY ServedFacts
  <1>2. U \in SUBSET Name
    BY UsersTyped
  <1>3. f \in SoundFrames(db.last) /\ Silent(f) /\ f.type = "presence"
    BY <1>1, <1>2, FramesTyped, Kinds DEF Presence
  <1>4. News(conns'[c], conns[c], f) /\ RoomRows(db', RoomOf[i]) = RoomRows(db, RoomOf[i])
    BY <1>1 DEF HearsPresence, SameRows
  <1> HIDE DEF f
  <1>5. Slips(conns'[c], conns[c], f)
    BY <1>3, <1>4 DEF Slips, News
  <1> QED BY <1>3, <1>4, <1>5, SlipsOn

\* of a failure,
LEMMA ErrorOn ==
    ASSUME GapInv, NEW i \in Client, Served(i), db'.last \in Nat, db.last <= db'.last,
           NEW w, Fewer(w, up[net[i].conn]), HearsError(net[i].conn)
    PROVE  OnTrack(i, w)
  <1> DEFINE c == net[i].conn
  <1>1. db.last \in Nat /\ conns[c].room = RoomOf[i]
    BY ServedFacts
  <1>2. PICK req \in Asked : conns'[c] = Put(conns[c], <<Failure(req)>>)
    BY DEF HearsError
  <1> DEFINE f == Failure(req)
  <1>3. f \in SoundFrames(db.last) /\ Silent(f) /\ f.type = "error"
    BY <1>1, FramesTyped, Kinds
  <1>4. conns'[c] = Put(conns[c], <<f>>) /\ RoomRows(db', RoomOf[i]) = RoomRows(db, RoomOf[i])
    BY <1>1, <1>2 DEF HearsError, SameRows
  <1> HIDE DEF f
  <1>5. Slips(conns'[c], conns[c], f)
    BY <1>3, <1>4 DEF Slips
  <1> QED BY <1>3, <1>4, <1>5, SlipsOn

\* of a recall,
LEMMA RecallOn ==
    ASSUME GapInv, ServerInv', NEW i \in Client, Served(i), db.last <= db'.last,
           NEW w, Fewer(w, up[net[i].conn]), HearsRecall(net[i].conn)
    PROVE  OnTrack(i, w)
  <1> DEFINE c == net[i].conn
             r == RoomOf[i]
             rows == RoomRows(db, r)
             new == RoomRows(db', r)
  <1>1. /\ db.last \in Nat /\ conns[c].room = RoomOf[i] /\ r \in Room
        /\ db \in Databases /\ RowsDrawn
    BY ServedFacts
  <1>2. db' \in Databases /\ db'.last \in Nat /\ InstanceID(db', r) \in InstanceIDs
    BY <1>1, InstanceTyped DEF ServerInv, Databases, InstanceID, InstanceIDs
  <1>3. PICK m \in Row, req \in {"", "recall"} :
           /\ Recalls(r, m)
           /\ News(conns'[c], conns[c],
                   Recalled(req, [m EXCEPT !.recalled = TRUE], InstanceID(db', r)))
    BY <1>1 DEF HearsRecall
  <1> DEFINE x == [m EXCEPT !.recalled = TRUE]
             f == Recalled(req, x, InstanceID(db', r))
  <1>4. x \in Row /\ x.id = m.id
    BY DEF Row
  <1>5. m \in rows /\ new = (rows \ {m}) \cup {x} /\ News(conns'[c], conns[c], f)
    BY <1>3 DEF Recalls
  <1>6. x.id <= db.last
    BY <1>1, <1>4, <1>5 DEF RoomRows, RowsDrawn
  <1> HIDE DEF x
  <1>7. f \in SoundFrames(db.last)
    BY <1>1, <1>2, <1>4, <1>6, FramesTyped
  <1>8. Silent(f) /\ f.type = "recalled"
    BY Kinds DEF Recalled
  <1> HIDE DEF f, rows, new
  <1>9. Slips(conns'[c], conns[c], f)
    BY <1>5, <1>8 DEF Slips, News
  <1>10. Ids(new) = Ids(rows)
    <2>1. ASSUME NEW j \in Ids(new) PROVE j \in Ids(rows)
      <3>1. PICK y \in new : j = y.id
        BY DEF Ids
      <3> QED BY <1>4, <1>5, <3>1 DEF Ids
    <2>2. ASSUME NEW j \in Ids(rows) PROVE j \in Ids(new)
      <3>1. PICK y \in rows : j = y.id
        BY DEF Ids
      <3>2. y \in new \/ y = m
        BY <1>5
      <3> QED BY <1>4, <1>5, <3>1, <3>2 DEF Ids
    <2> QED BY <2>1, <2>2
  <1> QED BY <1>2, <1>7, <1>8, <1>9, <1>10, SlipsOn DEF rows, new

\* of a new message,
LEMMA MessageOn ==
    ASSUME GapInv, ServerInv', NEW i \in Client, Served(i),
           NEW w, Fewer(w, up[net[i].conn]), HearsMessage(net[i].conn)
    PROVE  OnTrack(i, w)
  <1> DEFINE c == net[i].conn
             s == conns[c]
             r == RoomOf[i]
             k == db.last
             rows == RoomRows(db, r)
             new == RoomRows(db', r)
  <1>1. /\ k \in Nat /\ net[i] \in Networks /\ tui[i] \in Models /\ s \in SessionsOf(k)
        /\ s.room = r /\ Befores(up[c]) /\ Ids(rows) \subseteq Nat
        /\ Tracks(k, rows, net[i], tui[i], s, up[c])
    BY ServedFacts
  <1>2. PICK m \in Row : Adds(r, m) /\ News(conns'[c], s, Message("", m))
    BY <1>1 DEF HearsMessage
  <1>3. m.id = k + 1 /\ new = rows \cup {m}
    BY <1>2 DEF Adds
  <1>4. Message("", m) \in SoundFrames(k + 1)
    <2>1. m.id <= k + 1 /\ k + 1 \in Nat
      BY <1>1, <1>3
    <2> QED BY <2>1, FramesTyped
  <1>5. db'.last \in Nat /\ k + 1 <= db'.last
    <2>1. db' \in Databases /\ RowsDrawn'
      BY DEF ServerInv
    <2>2. m \in db'.rows
      BY <1>3 DEF RoomRows
    <2> QED BY <1>3, <2>1, <2>2 DEF Databases, RowsDrawn
  <1>6. Ids(new) = Ids(rows) \cup {m.id}
    BY <1>3 DEF Ids
  <1>7. OnTrack(i, w) <=> Tracks(db'.last, new, net[i], tui[i], conns'[c], w)
    BY DEF OnTrack
  <1> DEFINE n == net[i]
             t == tui[i]
             u == up[c]
             e == conns'[c]
             last == db'.last
  <1>8. /\ last \in Nat /\ k + 1 <= last /\ n \in Networks /\ t \in Models
        /\ s \in SessionsOf(k) /\ Befores(u) /\ Ids(rows) \subseteq Nat /\ Fewer(w, u)
        /\ Tracks(k, rows, n, t, s, u) /\ News(e, s, Message("", m))
    BY <1>1, <1>2, <1>5
  <1> HIDE DEF s, rows, new, OnTrack, k, n, t, u, e, last, c, r
  <1>9. k \in Nat
    BY <1>1
  <1>10. Tracks(last, new, n, t, e, w)
    BY <1>3, <1>4, <1>6, <1>8, <1>9, MessageTracks
  <1> QED BY <1>7, <1>10 DEF last, n, t, e

\* of its own message,
LEMMA OwnOn ==
    ASSUME GapInv, ServerInv', NEW i \in Client, Served(i),
           NEW w, Fewer(w, up[net[i].conn]), HearsItsOwn(net[i].conn),
           1 \in DOMAIN up[net[i].conn], up[net[i].conn][1].type = "send"
    PROVE  OnTrack(i, w)
  <1> DEFINE c == net[i].conn
             s == conns[c]
             r == RoomOf[i]
             k == db.last
             rows == RoomRows(db, r)
             new == RoomRows(db', r)
             n == net[i]
             t == tui[i]
             u == up[c]
             e == conns'[c]
             last == db'.last
  <1>1. /\ k \in Nat /\ n \in Networks /\ t \in Models /\ s \in SessionsOf(k)
        /\ s.room = r /\ Befores(u) /\ Ids(rows) \subseteq Nat
        /\ Tracks(k, rows, n, t, s, u)
    BY ServedFacts
  <1>2. PICK m \in Row :
           Adds(r, m) /\ e = Put(Put(s, <<Message("send", m)>>), <<Ack("send", m)>>)
    BY <1>1 DEF HearsItsOwn
  <1>3. m.id = k + 1 /\ new = rows \cup {m} /\ ~s.syncing
    BY <1>2 DEF Adds, HearsItsOwn
  <1>4. last \in Nat /\ k + 1 <= last
    <2>1. db' \in Databases /\ RowsDrawn'
      BY DEF ServerInv
    <2>2. m \in db'.rows
      BY <1>3 DEF RoomRows
    <2> QED BY <1>3, <2>1, <2>2 DEF Databases, RowsDrawn
  <1>5. Ids(new) = Ids(rows) \cup {m.id}
    BY <1>3 DEF Ids
  <1>6. OnTrack(i, w) <=> Tracks(last, new, n, t, e, w)
    BY DEF OnTrack
  <1>7. Fewer(w, u) /\ 1 \in DOMAIN u /\ u[1].type = "send"
    OBVIOUS
  <1> HIDE DEF s, rows, new, OnTrack, k, n, t, u, e, last, c, r
  <1>8. n.welcomed
    BY <1>1, <1>7 DEF Tracks, Settled, Greeted
  <1>9. k \in Nat /\ last \in Nat
    BY <1>1, <1>4
  <1>10. Tracks(last, new, n, t, e, w)
    <2>1. /\ k + 1 <= last /\ ~s.syncing /\ m \in Row /\ m.id = k + 1
          /\ Ids(new) = Ids(rows) \cup {m.id}
          /\ e = Put(Put(s, <<Message("send", m)>>), <<Ack("send", m)>>)
      BY <1>2, <1>3, <1>4, <1>5
    <2> QED BY <1>1, <1>7, <1>8, <1>9, <2>1, OwnTracks
  <1> QED BY <1>6, <1>10

\* gets older messages that it asked for,
LEMMA OlderOn ==
    ASSUME GapInv, NEW i \in Client, Served(i), db'.last \in Nat, db.last <= db'.last,
           NEW w, Fewer(w, up[net[i].conn]), NEW before, GetsOlder(net[i].conn, before),
           1 \in DOMAIN up[net[i].conn], up[net[i].conn][1].type = "history",
           up[net[i].conn][1].before = before
    PROVE  OnTrack(i, w)
  <1> DEFINE c == net[i].conn
             s == conns[c]
             r == RoomOf[i]
             k == db.last
             rows == RoomRows(db, r)
             new == RoomRows(db', r)
             n == net[i]
             t == tui[i]
             u == up[c]
             e == conns'[c]
             last == db'.last
             page == OlderPage(c, before)
  <1>1. /\ k \in Nat /\ n \in Networks /\ t \in Models /\ s \in SessionsOf(k)
        /\ s.room = r /\ Befores(u) /\ Ids(rows) \subseteq Nat /\ r \in Room
        /\ Tracks(k, rows, n, t, s, u)
        /\ db \in Databases /\ RowsDrawn /\ Numbered
    BY ServedFacts
  <1>2. /\ new = rows /\ ~s.syncing /\ before \in Nat /\ before > 0
        /\ e = Put(s, <<PageFrame("history", "older", page)>>)
    BY <1>1 DEF GetsOlder, SameRows
  <1>3. /\ page \in Pages(k)
        /\ \A m \in page.messages : m \in rows /\ m.id < before
        /\ page.hasMore => page.messages # {}
        /\ \A m \in rows : m.id < before =>
               \/ m \in page.messages
               \/ page.hasMore /\ \A y \in page.messages : m.id < y.id
    <2>1. page = Page(db, r, before, 0, LatestID(db, r))
      BY <1>1 DEF OlderPage
    <2> HIDE DEF r
    <2>2. LET pg == Page(db, r, before, 0, LatestID(db, r))
          IN  /\ pg \in Pages(db.last)
              /\ \A m \in pg.messages : m \in RoomRows(db, r) /\ (before > 0 => m.id < before)
              /\ pg.hasMore => pg.messages # {}
              /\ \A m \in RoomRows(db, r) : (before > 0 => m.id < before) =>
                     \/ m \in pg.messages
                     \/ pg.hasMore /\ \A y \in pg.messages : m.id < y.id
      BY <1>1, <1>2, BackwardPage
    <2> QED BY <1>2, <2>1, <2>2
  <1>4. OnTrack(i, w) <=> Tracks(last, new, n, t, e, w)
    BY DEF OnTrack
  <1>5. /\ Fewer(w, u) /\ 1 \in DOMAIN u /\ u[1].type = "history" /\ u[1].before = before
        /\ last \in Nat /\ k <= last
    OBVIOUS
  <1> HIDE DEF s, rows, new, OnTrack, k, n, t, u, e, last, c, r, page
  <1>6. \A x \in Ids(page.messages) : x \in Ids(rows) /\ x < before
    BY <1>3 DEF Ids
  <1>7. page.hasMore => Ids(page.messages) # {}
    BY <1>3 DEF Ids
  <1>8. \A x \in Ids(rows) : x < before => Accounted(page, x)
    BY <1>3 DEF Ids, Accounted
  <1>9. n.welcomed
    BY <1>1, <1>5 DEF Tracks, Settled, Greeted
  <1>10. Tracks(last, new, n, t, e, w)
    BY <1>1, <1>2, <1>3, <1>5, <1>6, <1>7, <1>8, <1>9, OlderTracks
  <1> QED BY <1>4, <1>10

\* gets the next page of the catching up,
LEMMA PageOn ==
    ASSUME GapInv, NEW i \in Client, Served(i), db'.last \in Nat, db.last <= db'.last,
           NEW w, Fewer(w, up[net[i].conn]), GetsPage(net[i].conn)
    PROVE  OnTrack(i, w)
  <1> DEFINE c == net[i].conn
             s == conns[c]
             r == RoomOf[i]
             k == db.last
             rows == RoomRows(db, r)
             new == RoomRows(db', r)
             n == net[i]
             t == tui[i]
             u == up[c]
             e == conns'[c]
             last == db'.last
             page == SyncPage(c)
             b == Place(n, s.outgoing)
             end == Advance(s.cursor, page)
  <1>1. /\ k \in Nat /\ n \in Networks /\ t \in Models /\ s \in SessionsOf(k) /\ s \in Sessions
        /\ s.room = r /\ Befores(u) /\ Ids(rows) \subseteq Nat /\ r \in Room
        /\ Tracks(k, rows, n, t, s, u)
        /\ db \in Databases /\ RowsDrawn /\ Numbered
    BY ServedFacts
  <1>2. s.syncing /\ s.cursor \in Nat /\ s.through \in Nat /\ new = rows
    BY <1>1 DEF GetsPage, Sessions, SameRows
  <1>3. Ordered(s, b) /\ Owed(rows, s, b) /\ b \in Nat
    <2>1. Settled(k, rows, n, t, s.outgoing, u) /\ Ordered(s, b) /\ Owed(rows, s, b)
      BY <1>1 DEF Tracks
    <2>2. b \in 0 .. k
      BY <1>1, <2>1, PlaceTyped
    <2> QED BY <2>1, <2>2
  <1>4. CatchingUp(s, b) /\ s.cursor <= s.through
    BY <1>2, <1>3 DEF Ordered, CatchingUp
  <1>5. /\ page \in Pages(k)
        /\ \A m \in page.messages : m \in rows /\ s.cursor < m.id /\ m.id <= s.through
        /\ end \in Nat /\ s.cursor <= end /\ end <= s.through
        /\ end = s.cursor \/ end \in Ids(page.messages)
        /\ \A m \in page.messages : m.id <= end
        /\ \A m \in rows : s.cursor < m.id /\ m.id <= end => m \in page.messages
        /\ ~page.hasMore => \A m \in rows : s.cursor < m.id /\ m.id <= s.through => m \in page.messages
    <2>1. page = Page(db, r, -1, s.cursor, s.through)
      BY <1>1 DEF SyncPage
    <2> HIDE DEF page, r, s
    <2> QED BY <1>1, <1>2, <1>4, <2>1, ForwardPage
  <1>6. PageFrame("sync", "next", page) \in SoundFrames(k) /\ page.hasMore \in BOOLEAN
    <2> HIDE DEF page
    <2> QED BY <1>1, <1>5, FramesTyped DEF Pages
  <1>7. \/ Paged(e, s, page) /\ page.hasMore = TRUE
        \/ Caught(e, s, page) /\ ~page.hasMore
    BY <1>6 DEF GetsPage
  <1>8. OnTrack(i, w) <=> Tracks(last, new, n, t, e, w)
    BY DEF OnTrack
  <1>9. Fewer(w, u) /\ last \in Nat /\ k <= last
    OBVIOUS
  <1> HIDE DEF rows, page, end, s, e, n, k, OnTrack, t, u, last, c, r, new
  <1>12. \A x \in Ids(page.messages) : s.cursor < x /\ x <= end
    BY <1>5 DEF Ids
  <1>13. \A x \in Ids(rows) : (s.cursor < x /\ x <= end) => x \in Ids(page.messages)
    BY <1>5 DEF Ids
  <1>14. \/ Paged(e, s, page)
         \/ /\ Caught(e, s, page)
            /\ \A x \in Ids(rows) : (s.cursor < x /\ x <= s.through) => x \in Ids(page.messages)
    BY <1>5, <1>7 DEF Ids
  <1>15. Ordered(e, b) /\ Owed(rows, e, b)
    <2>1. end = Advance(s.cursor, page)
      BY DEF end
    <2> HIDE DEF b
    <2> QED BY <1>1, <1>2, <1>3, <1>5, <1>6, <1>12, <1>13, <1>14, <2>1, PageKeeps
  <1>16. Paged(e, s, page) \/ Caught(e, s, page)
    BY <1>7
  <1>17. Tracks(last, rows, n, t, e, w)
    BY <1>1, <1>2, <1>6, <1>9, <1>15, <1>16, PageTracks
  <1> QED BY <1>2, <1>8, <1>17

\* or is told of a cleanup.
LEMMA ClearedOn ==
    ASSUME GapInv, ServerInv', NEW i \in Client, Served(i), db.last <= db'.last,
           NEW w, Fewer(w, up[net[i].conn]), IsCleared(net[i].conn)
    PROVE  OnTrack(i, w)
  <1> DEFINE c == net[i].conn
             s == conns[c]
             r == RoomOf[i]
             k == db.last
             rows == RoomRows(db, r)
             new == RoomRows(db', r)
             n == net[i]
             t == tui[i]
             u == up[c]
             e == conns'[c]
             last == db'.last
             users == Users(sessions, r)
             inst == InstanceID(db', r)
  <1>1. /\ k \in Nat /\ n \in Networks /\ t \in Models /\ s \in SessionsOf(k)
        /\ s.room = r /\ Befores(u) /\ r \in Room
        /\ Tracks(k, rows, n, t, s, u)
    BY ServedFacts
  <1>2. StartsOver(e, s, inst, users) /\ new = {}
    BY <1>1 DEF IsCleared
  <1>3. inst \in InstanceIDs /\ last \in Nat
    BY <1>1, InstanceTyped DEF ServerInv, Databases, InstanceID, InstanceIDs
  <1>4. users \in SUBSET Name
    <2>1. ServerInv
      BY GapSeen
    <2> QED BY <2>1, UsersTyped DEF ServerInv, SessionInv
  <1> HIDE DEF inst, users
  <1>5. HistoryCleared(inst) \in SoundFrames(k) /\ Presence(users) \in SoundFrames(k)
    BY <1>1, <1>3, <1>4, FramesTyped
  <1>6. OnTrack(i, w) <=> Tracks(last, new, n, t, e, w)
    BY DEF OnTrack
  <1>7. Fewer(w, u) /\ k <= last /\ Ids(new) = {}
    BY <1>2 DEF Ids
  <1> HIDE DEF rows, s, e, n, k, OnTrack, t, u, last, c, r, new
  <1>8. Tracks(last, new, n, t, e, w)
    BY <1>1, <1>2, <1>3, <1>5, <1>7, StartTracks
  <1> QED BY <1>6, <1>8

\* Whatever the server does to the session of a client, it leads it on.
LEMMA GoesOnTrack ==
    ASSUME GapInv, ServerInv', NEW i \in Client, Linked(i), Goes(net[i].conn),
           db.last <= db'.last, NEW w, Fewer(w, up[net[i].conn]),
           \/ Hears(net[i].conn) \/ HearsError(net[i].conn) \/ GetsPage(net[i].conn)
           \/ IsCleared(net[i].conn)
           \/ /\ HearsItsOwn(net[i].conn)
              /\ 1 \in DOMAIN up[net[i].conn] /\ up[net[i].conn][1].type = "send"
           \/ /\ 1 \in DOMAIN up[net[i].conn] /\ up[net[i].conn][1].type = "history"
              /\ GetsOlder(net[i].conn, up[net[i].conn][1].before)
    PROVE  OnTrack(i, w)
  <1> DEFINE d == net[i].conn
  <1>1. Served(i) /\ db'.last \in Nat /\ DOMAIN sessions' \subseteq Room \X Name
    BY DEF Goes, ServerInv, SessionInv, Databases, Served
  <1>2. Rests(d) => OnTrack(i, w)
    BY <1>1, RestsOn
  <1>3. HearsPresence(d) => OnTrack(i, w)
    BY <1>1, PresenceOn
  <1>4. HearsMessage(d) => OnTrack(i, w)
    BY <1>1, MessageOn
  <1>5. HearsRecall(d) => OnTrack(i, w)
    BY <1>1, RecallOn
  <1>6. HearsError(d) => OnTrack(i, w)
    BY <1>1, ErrorOn
  <1>7. (HearsItsOwn(d) /\ 1 \in DOMAIN up[d] /\ up[d][1].type = "send") => OnTrack(i, w)
    BY <1>1, OwnOn
  <1>8. GetsPage(d) => OnTrack(i, w)
    BY <1>1, PageOn
  <1>9. IsCleared(d) => OnTrack(i, w)
    BY <1>1, ClearedOn
  <1>10. (/\ 1 \in DOMAIN up[d] /\ up[d][1].type = "history"
          /\ GetsOlder(d, up[d][1].before)) => OnTrack(i, w)
    BY <1>1, OlderOn
  <1> QED BY <1>2, <1>3, <1>4, <1>5, <1>6, <1>7, <1>8, <1>9, <1>10 DEF Hears

-----------------------------------------------------------------------------
(* What each action of the server leaves its clients with *)

\* The session of c does one of the things that lead its client on.
Follows(c) ==
    \/ Hears(c) \/ HearsError(c) \/ GetsPage(c) \/ IsCleared(c)
    \/ /\ HearsItsOwn(c)
       /\ 1 \in DOMAIN up[c] /\ up[c][1].type = "send"
    \/ /\ 1 \in DOMAIN up[c] /\ up[c][1].type = "history"
       /\ GetsOlder(c, up[c][1].before)

\* A step of the server is sound if it leads on every session that lasts.
LEMMA LedOn ==
    ASSUME GapInv, ScreenInv', UNCHANGED <<net, tui>>, Commits,
           \A d \in Conn : (Active(conns'[d]) /\ d \in Attached) =>
              Goes(d) /\ Follows(d) /\ Fewer(up'[d], up[d])
    PROVE  GapInv'
  <1>1. /\ db \in Databases /\ RowsDrawn /\ Numbered /\ SystemInv /\ ServerInv'
    BY DEF GapInv, ScreenInv, SystemInv, ServerInv
  <1>2. db.last <= db'.last
    BY <1>1, CommitNumbers
  <1>3. ASSUME NEW i \in Client, Linked(i), Active(conns'[net[i].conn])
        PROVE  OnTrack(i, up'[net[i].conn])
    <2>1. net[i].conn \in Conn /\ net[i].conn \in Attached
      BY <1>1, <1>3 DEF SystemInv, Attached
    <2>2. /\ Goes(net[i].conn) /\ Follows(net[i].conn)
          /\ Fewer(up'[net[i].conn], up[net[i].conn])
      BY <1>3, <2>1
    <2> QED BY <1>1, <1>2, <1>3, <2>2, GoesOnTrack DEF Follows
  <1>4. ASSUME NEW i \in Client, Linked(i), Active(conns'[net[i].conn])
        PROVE  Tracks(db'.last, RoomRows(db', RoomOf[i]), net[i], tui[i],
                      conns'[net[i].conn], up'[net[i].conn])
    BY <1>3, <1>4 DEF OnTrack
  <1> QED BY <1>4, ServerGap

\* The requests that are left, if any, were asked before.
LEMMA FewerLeft ==
    ASSUME NEW S, NEW u \in Seq(S)
    PROVE  Fewer(u, u) /\ Fewer(<<>>, u) /\ (u # <<>> => Fewer(Tail(u), u))
  <1>1. Fewer(u, u) /\ Fewer(<<>>, u)
    BY DEF Fewer
  <1>2. ASSUME u # <<>> PROVE Fewer(Tail(u), u)
    <2>1. \A j \in DOMAIN Tail(u) : j + 1 \in DOMAIN u /\ Tail(u)[j] = u[j + 1]
      BY <1>2
    <2> QED BY <2>1 DEF Fewer
  <1> QED BY <1>1, <1>2

\* A request is answered.
LEMMA AnswerGap ==
    ASSUME GapInv, ScreenInv', NEW c \in Conn, up[c] # <<>>, up' = [up EXCEPT ![c] = Tail(@)],
           UNCHANGED <<net, tui>>, Commits,
           \A d \in Conn : Active(conns'[d]) => Goes(d) /\ Follows(d)
    PROVE  GapInv'
  <1>1. up \in [Conn -> Seq(Requests)]
    BY DEF GapInv, ScreenInv, SystemInv
  <1>2. ASSUME NEW d \in Conn PROVE Fewer(up'[d], up[d])
    <2>1. up[d] \in Seq(Requests)
      BY <1>1
    <2>2. up'[d] = up[d] \/ (d = c /\ up'[d] = Tail(up[d]))
      BY <1>1
    <2> QED BY <2>1, <2>2, FewerLeft
  <1> QED BY <1>2, LedOn

\* The server handles a request of a session: a message,
LEMMA ServeSendGap ==
    ASSUME GapInv, ScreenInv', NEW c \in Conn, ServeSend(c)
    PROVE  GapInv'
  <1>1. /\ up[c] # <<>> /\ up' = [up EXCEPT ![c] = Tail(@)] /\ UNCHANGED <<net, tui>>
        /\ SystemInv
    BY DEF ServeSend, Serve, Requested, GapInv, ScreenInv
  <1>2. ServerInv /\ Head(up[c]) = up[c][1] /\ up[c] \in Seq(Requests)
    BY <1>1, ServeFacts
  <1>3. up[c][1].type = "send" /\ 1 \in DOMAIN up[c]
    BY <1>1, <1>2 DEF ServeSend, Requested
  <1>4. ASSUME NEW d \in Conn
        PROVE  Commits /\ (Active(conns'[d]) => Goes(d) /\ Follows(d))
    <2>1. CASE HandleSend(c, "send")
      BY <1>2, <1>3, <2>1, SendMoves DEF Follows
    <2>2. CASE HandleFails(c, "send")
      <3>1. conns[c].phase = "serving" /\ Fail(c, "send") /\ "send" \in Asked
        BY <2>2 DEF HandleFails, Handles, Asked
      <3> QED BY <1>2, <3>1, FailMoves DEF Follows, Hears
    <2> QED BY <2>1, <2>2 DEF ServeSend, Serve
  <1>5. Commits
    BY <1>4
  <1> QED BY <1>1, <1>4, <1>5, AnswerGap

\* a recall, whose answer all get,
LEMMA ServeRecallGap ==
    ASSUME GapInv, ScreenInv', NEW c \in Conn, ServeRecall(c)
    PROVE  GapInv'
  <1>1. /\ up[c] # <<>> /\ up' = [up EXCEPT ![c] = Tail(@)] /\ UNCHANGED <<net, tui>>
        /\ SystemInv
    BY DEF ServeRecall, Serve, Requested, GapInv, ScreenInv
  <1>2. ServerInv
    BY <1>1, ServeFacts
  <1>4. ASSUME NEW d \in Conn
        PROVE  Commits /\ (Active(conns'[d]) => Goes(d) /\ Follows(d))
    <2>1. CASE HandleRecall(c, "recall", Head(up[c]).id)
      BY <1>2, <2>1, RecallMoves DEF Follows
    <2>2. CASE HandleFails(c, "recall")
      <3>1. conns[c].phase = "serving" /\ Fail(c, "recall") /\ "recall" \in Asked
        BY <2>2 DEF HandleFails, Handles, Asked
      <3> QED BY <1>2, <3>1, FailMoves DEF Follows, Hears
    <2> QED BY <2>1, <2>2 DEF ServeRecall, Serve
  <1>5. Commits
    BY <1>4
  <1> QED BY <1>1, <1>4, <1>5, AnswerGap

\* for older messages,
LEMMA ServeHistoryGap ==
    ASSUME GapInv, ScreenInv', NEW c \in Conn, ServeHistory(c)
    PROVE  GapInv'
  <1>1. /\ up[c] # <<>> /\ up' = [up EXCEPT ![c] = Tail(@)] /\ UNCHANGED <<net, tui>>
        /\ SystemInv
    BY DEF ServeHistory, Serve, Requested, GapInv, ScreenInv
  <1>2. ServerInv /\ Head(up[c]) = up[c][1] /\ up[c] \in Seq(Requests) /\ up[c][1] \in Requests
    BY <1>1, ServeFacts
  <1>3. up[c][1].type = "history" /\ 1 \in DOMAIN up[c]
    BY <1>1, <1>2 DEF ServeHistory, Requested
  <1> DEFINE before == up[c][1].before
  <1>6. before \in Int
    <2>1. \A x \in Requests : x.type = "history" => x.before \in Nat
      BY DEF Requests, JoinRequests
    <2> QED BY <1>2, <1>3, <2>1
  <1>4. ASSUME NEW d \in Conn
        PROVE  Commits /\ (Active(conns'[d]) => Goes(d) /\ Follows(d))
    <2>1. CASE HandleHistory(c, "older", before)
      <3> HIDE DEF before
      <3>1. /\ Commits
            /\ Active(conns'[d]) => /\ Goes(d)
                                    /\ d # c => Hears(d)
                                    /\ d = c => GetsOlder(c, before) \/ HearsError(c)
        BY <1>2, <1>6, <2>1, HistoryMoves
      <3> QED BY <1>3, <3>1 DEF Follows, before
    <2>2. CASE HandleFails(c, "older")
      <3>1. conns[c].phase = "serving" /\ Fail(c, "older") /\ "older" \in Asked
        BY <2>2 DEF HandleFails, Handles, Asked
      <3> QED BY <1>2, <3>1, FailMoves DEF Follows, Hears
    <2> QED BY <1>2, <2>1, <2>2 DEF ServeHistory, Serve
  <1>5. Commits
    BY <1>4
  <1> QED BY <1>1, <1>4, <1>5, AnswerGap

\* for the next page of the catching up,
LEMMA ServeSyncGap ==
    ASSUME GapInv, ScreenInv', NEW c \in Conn, ServeSync(c)
    PROVE  GapInv'
  <1>1. /\ up[c] # <<>> /\ up' = [up EXCEPT ![c] = Tail(@)] /\ UNCHANGED <<net, tui>>
        /\ SystemInv
    BY DEF ServeSync, Serve, Requested, GapInv, ScreenInv
  <1>2. ServerInv
    BY <1>1, ServeFacts
  <1>4. ASSUME NEW d \in Conn
        PROVE  Commits /\ (Active(conns'[d]) => Goes(d) /\ Follows(d))
    <2>1. CASE HandleSync(c, "next", Head(up[c]).after)
      BY <1>2, <2>1, SyncMoves DEF Follows
    <2>2. CASE HandleSyncStorageError(c, "next")
      BY <1>2, <2>2, SyncErrorMoves DEF Follows
    <2>3. CASE UNCHANGED vars
      <3>1. UNCHANGED <<db, conns, sessions>>
        BY <2>3 DEF vars
      <3> QED BY <3>1 DEF Commits, Goes, Follows, Hears, Rests, SameRows, SameUsers
    <2> QED BY <2>1, <2>2, <2>3 DEF ServeSync, Serve
  <1>5. Commits
    BY <1>4
  <1> QED BY <1>1, <1>4, <1>5, AnswerGap

\* lets a client in or refuses it,
LEMMA ServeJoinGap ==
    ASSUME GapInv, ScreenInv', NEW c \in Conn, ServeJoin(c) \/ ServeJoinInvalid(c)
    PROVE  GapInv'
  <1>0. /\ Requested(c, "join") /\ up[c] # <<>>
        /\ up' = [up EXCEPT ![c] = Tail(@)] /\ UNCHANGED <<net, tui>>
        /\ SystemInv /\ ServerInv'
    BY DEF ServeJoin, ServeJoinInvalid, Serve, GapInv, ScreenInv, SystemInv
  <1> DEFINE q == Head(up[c])
             r == RoomOf[q.client]
             nick == NickOf[q.client]
  <1>1. q \in JoinRequests
    <2>1. q \in Requests /\ q.type = "join"
      BY <1>0, ServeFacts DEF Requested
    <2> HIDE DEF q
    <2> QED BY <2>1 DEF Requests
  <1>2. q.client \in Client /\ q.client \in Owner /\ q.after \in Nat /\ q.after \in Int
        /\ r \in Room /\ nick \in Name
    <2>1. q.client \in Client /\ q.after \in Nat
      BY <1>1 DEF JoinRequests
    <2> HIDE DEF q
    <2> QED BY <2>1, ClientAssumption
  <1>3. \/ Join(c, r, nick, q.client, q.instance, q.after)
        \/ JoinClosed(c)
        \/ JoinStorageError(c, r, nick)
        \/ JoinInvalid(c, "unauthorized")
    BY DEF ServeJoin, ServeJoinInvalid, Serve
  <1> HIDE DEF q, r, nick
  <1>4. ServerInv /\ db \in Databases /\ RowsDrawn /\ Numbered /\ up \in [Conn -> Seq(Requests)]
    BY <1>0 DEF SystemInv, GapInv, ServerInv
  <1>5. CASE Join(c, r, nick, q.client, q.instance, q.after)
    <2>0. ASSUME NEW d \in Conn
          PROVE  /\ Commits
                 /\ Active(conns'[d]) =>
                       /\ d # c => Goes(d) /\ Hears(d)
                       /\ d = c => Begins(c, r, nick, q.client, q.instance, q.after)
      BY <1>2, <1>4, <1>5, JoinMoves
    <2>1. Commits /\ db.last <= db'.last
      <3>1. Commits
        BY <2>0
      <3> QED BY <1>4, <3>1, CommitNumbers
    <2>2. ASSUME NEW i \in Client, Linked(i), Active(conns'[net[i].conn])
          PROVE  OnTrack(i, up'[net[i].conn])
      <3>0. net[i].conn \in Conn
        BY <1>0, <2>2 DEF SystemInv
      <3>1. CASE net[i].conn # c
        <4>1. Goes(net[i].conn) /\ Hears(net[i].conn) /\ up'[net[i].conn] = up[net[i].conn]
          BY <1>0, <1>4, <2>0, <2>2, <3>0, <3>1
        <4>2. Fewer(up[net[i].conn], up[net[i].conn])
          BY <1>4, <3>0, FewerLeft
        <4> QED BY <1>0, <2>1, <2>2, <4>1, <4>2, GoesOnTrack
      <3>2. CASE net[i].conn = c
        <4> DEFINE n == net[i]
                   t == tui[i]
                   o == q.client
                   inst == q.instance
                   last == db'.last
                   rm == RoomOf[i]
                   w == Tail(up[c])
        <4>1. Begins(c, r, nick, o, inst, q.after)
          BY <2>0, <2>2, <3>2
        <4>2. /\ n \in Networks /\ ClientOk(i, n, t, conns[c], up[c])
              /\ up[c] \in Seq(Requests)
          BY <1>0, <2>2, <3>2, ServeFacts
        <4>3. up[c] = <<[type |-> "join", client |-> i, instance |-> n.instance,
                         after |-> n.cursor]>>
          BY <4>1, <4>2 DEF ClientOk, CatchesUpInv, Begins
        <4>4. o = i /\ inst = n.instance /\ q.after = n.cursor /\ r = rm
          BY <4>3 DEF q, r
        <4>5. \A k \in DOMAIN w : w[k].type \notin {"send", "history"}
          BY <4>3
        <4>6. ~n.welcomed
          BY <4>1, <4>2 DEF ClientOk, Waits, Begins
        <4>7. /\ t \in Models /\ rm \in Room /\ \A y \in Ids(t.messages) : y <= db.last
              /\ inst = InstanceID(db, rm) => Unbroken(RoomRows(db, rm), n, t)
          BY <4>4, GapSeen DEF Current, Rows
        <4>8. last \in Nat /\ DOMAIN sessions' \subseteq Room \X Name
          BY <1>0 DEF ServerInv, Databases, SessionInv
        <4>9. Begins(c, rm, nick, o, inst, n.cursor)
          BY <4>1, <4>4
        <4> HIDE DEF n, t, o, inst, last, rm, w
        <4>10. Tracks(last, RoomRows(db', rm), n, t, conns'[c], w)
          BY <1>4, <2>1, <4>2, <4>5, <4>6, <4>7, <4>8, <4>9, BegunTracks DEF last
        <4>11. up'[c] = w
          BY <1>0, <1>4 DEF w
        <4> QED BY <3>2, <4>10, <4>11 DEF OnTrack, n, t, last, rm
      <3> QED BY <3>1, <3>2
    <2>3. ASSUME NEW i \in Client, Linked(i), Active(conns'[net[i].conn])
          PROVE  Tracks(db'.last, RoomRows(db', RoomOf[i]), net[i], tui[i],
                        conns'[net[i].conn], up'[net[i].conn])
      BY <2>2, <2>3 DEF OnTrack
    <2> QED BY <1>0, <2>1, <2>3, ServerGap
  <1>6. CASE JoinClosed(c) \/ JoinStorageError(c, r, nick) \/ JoinInvalid(c, "unauthorized")
    <2>1. "unauthorized" \in JoinFailures
      BY DEF JoinFailures
    <2>2. ASSUME NEW d \in Conn
          PROVE  Commits /\ (Active(conns'[d]) => Goes(d) /\ Follows(d))
      <3>1. Commits /\ (Active(conns'[d]) => d # c /\ Goes(d) /\ Rests(d))
        BY <1>2, <1>4, <1>6, <2>1, QuietMoves
      <3> QED BY <3>1 DEF Follows, Hears
    <2>3. Commits
      BY <2>2
    <2> QED BY <1>0, <2>2, <2>3, AnswerGap
  <1> QED BY <1>3, <1>5, <1>6

\* ends its end of a connection,
LEMMA EndsGap ==
    ASSUME GapInv, ScreenInv', NEW c \in Conn, Ends(c)
    PROVE  GapInv'
  <1>1. /\ ServerInv /\ up \in [Conn -> Seq(Requests)] /\ UNCHANGED <<net, tui>>
        /\ up' = [up EXCEPT ![c] = <<>>]
    BY DEF GapInv, ScreenInv, SystemInv, Ends
  <1>2. ASSUME NEW d \in Conn
        PROVE  Commits /\ (Active(conns'[d]) => Goes(d) /\ Follows(d))
    <2>1. CASE JoinTimeout(c) \/ WriteRefusal(c)
      BY <1>1, <2>1, QuietMoves DEF Follows, Hears
    <2>2. CASE Leave(c)
      BY <1>1, <2>2, LeaveMoves DEF Follows, Hears
    <2> QED BY <2>1, <2>2 DEF Ends
  <1>3. Commits
    BY <1>2
  <1>4. ASSUME NEW d \in Conn PROVE Fewer(up'[d], up[d])
    <2>1. up[d] \in Seq(Requests)
      BY <1>1
    <2>2. up'[d] = up[d] \/ up'[d] = <<>>
      BY <1>1
    <2> QED BY <2>1, <2>2, FewerLeft
  <1> QED BY <1>1, <1>2, <1>3, <1>4, LedOn

\* does what no one client sees, or restarts.
LEMMA QuietlyGap ==
    ASSUME GapInv, ScreenInv', Quietly \/ SRestart
    PROVE  GapInv'
  <1>1. /\ ServerInv /\ up \in [Conn -> Seq(Requests)] /\ UNCHANGED <<net, tui>>
    BY DEF GapInv, ScreenInv, SystemInv, Quietly, SRestart, cvars
  <1>2. ASSUME NEW d \in Conn
        PROVE  /\ Commits
               /\ (Active(conns'[d]) /\ d \in Attached) => Goes(d) /\ Follows(d)
    <2>1. CASE \/ \E c \in Conn : Cancel(c)
               \/ Close \/ Restart \/ \E upTo : Age(upTo)
      BY <1>1, <2>1, IdleMoves DEF Follows, Hears
    <2>2. ASSUME NEW c \in Conn \ Attached, WriteFrame(c)
          PROVE  /\ Commits
                 /\ (Active(conns'[d]) /\ d \in Attached) => Goes(d) /\ Follows(d)
      BY <1>1, <2>2, WriteMoves DEF Follows, Hears
    <2>3. CASE ClearHistory
      BY <1>1, <2>3, ClearMoves DEF Follows
    <2> QED BY <2>1, <2>2, <2>3 DEF Quietly, SRestart
  <1>3. ASSUME NEW d \in Conn, Quietly PROVE Fewer(up'[d], up[d])
    <2>1. up[d] \in Seq(Requests)
      BY <1>1
    <2>2. up'[d] = up[d]
      BY <1>3 DEF Quietly, cvars
    <2> QED BY <2>1, <2>2, FewerLeft
  <1>4. ASSUME NEW d \in Conn, SRestart PROVE Fewer(up'[d], up[d])
    <2>1. up[d] \in Seq(Requests)
      BY <1>1
    <2>2. up'[d] = <<>>
      BY <1>4 DEF SRestart
    <2> QED BY <2>1, <2>2, FewerLeft
  <1>5. Commits
    <2>1. CASE Conn # {}
      BY <1>2, <2>1
    <2>2. CASE Conn = {}
      <3>1. CASE ClearHistory
        BY <3>1 DEF ClearHistory, Commits
      <3>2. CASE ~ClearHistory
        BY <2>2, <3>2 DEF Quietly, SRestart, Close, Restart, Age, Commits
      <3> QED BY <3>1, <3>2
    <2> QED BY <2>1, <2>2
  <1> QED BY <1>1, <1>2, <1>3, <1>4, <1>5, LedOn

-----------------------------------------------------------------------------
(* What each action of a client leaves it with *)

\* What matters is the cursor, the messages, and whether there are older ones.
LEMMA SameUnbroken ==
    ASSUME NEW rows, NEW n, NEW p, NEW t, NEW q, Unbroken(rows, n, t),
           p.cursor = n.cursor, q.messages = t.messages, q.hasMore = t.hasMore
    PROVE  Unbroken(rows, p, q)
  BY DEF Unbroken, Accounted

\* A client whose screen stays has no session that is alive, or the same one.
LEMMA StillGap ==
    ASSUME GapInv, ScreenInv', UNCHANGED db, NEW i \in Client, NEW p, NEW q,
           net' = [net EXCEPT ![i] = p], tui' = [tui EXCEPT ![i] = q],
           \A j \in Client \ {i} : Linked(j) => /\ conns'[net[j].conn] = conns[net[j].conn]
                                                /\ up'[net[j].conn] = up[net[j].conn],
           p.instance = net[i].instance, p.cursor = net[i].cursor,
           q.messages = tui[i].messages, q.hasMore = tui[i].hasMore,
           (p.phase = "linked" /\ Active(conns'[p.conn])) =>
              Tracks(db.last, Rows(i), p, q, conns'[p.conn], up'[p.conn])
    PROVE  GapInv'
  <1>1. /\ \A y \in Ids(tui[i].messages) : y <= db.last
        /\ net[i].instance = InstanceID(db, RoomOf[i]) => Unbroken(Rows(i), net[i], tui[i])
    BY GapSeen DEF Current
  <1>2. p.instance = InstanceID(db, RoomOf[i]) => Unbroken(Rows(i), p, q)
    BY <1>1, SameUnbroken
  <1>3. \A y \in Ids(q.messages) : y <= db.last
    BY <1>1
  <1> QED BY <1>2, <1>3, ClientGap

\* A client dials: its session is not there yet.
LEMMA DialGap ==
    ASSUME GapInv, ScreenInv', NEW i \in Client, NEW c \in Conn, Dial(i, c)
    PROVE  GapInv'
  <1>1. /\ net[i] \in Networks /\ tui[i] \in Models /\ SystemInv
    BY GapSeen
  <1>2. /\ c \notin Attached /\ Accept(c) /\ net' = [net EXCEPT ![i] = Link(@, c)]
        /\ tui' = [tui EXCEPT ![i].connected = FALSE]
        /\ up' = [up EXCEPT ![c] = <<JoinRequest(i)>>]
    BY DEF Dial
  <1> DEFINE p == Link(net[i], c)
             q == [tui[i] EXCEPT !.connected = FALSE]
  <1>3. net' = [net EXCEPT ![i] = p] /\ tui' = [tui EXCEPT ![i] = q]
    BY <1>1, <1>2 DEF SystemInv
  <1>4. p.instance = net[i].instance /\ p.cursor = net[i].cursor /\ p.conn = c
    BY <1>1, LinkTyped
  <1>5. q.messages = tui[i].messages /\ q.hasMore = tui[i].hasMore
    BY <1>1 DEF Models
  <1>6. conns' = [conns EXCEPT ![c] = Accepted] /\ UNCHANGED db
    BY <1>2 DEF Accept
  <1>7. conns \in [Conn -> ConnsOf(db.last)] /\ up \in [Conn -> Seq(Requests)]
    BY <1>1 DEF SystemInv, ServerInv
  <1>8. ~Active(conns'[p.conn])
    BY <1>4, <1>6, <1>7 DEF Active, Accepted
  <1> HIDE DEF p, q
  <1>9. \A j \in Client \ {i} : Linked(j) => /\ conns'[net[j].conn] = conns[net[j].conn]
                                             /\ up'[net[j].conn] = up[net[j].conn]
    <2> SUFFICES ASSUME NEW j \in Client \ {i}, Linked(j)
                 PROVE  /\ conns'[net[j].conn] = conns[net[j].conn]
                        /\ up'[net[j].conn] = up[net[j].conn]
      OBVIOUS
    <2>1. net[j].conn # c
      BY <1>2 DEF Attached
    <2>2. net[j].conn \in Conn
      BY <1>1 DEF SystemInv
    <2> QED BY <1>2, <1>6, <1>7, <2>1, <2>2
  <1> QED BY <1>3, <1>4, <1>5, <1>6, <1>8, <1>9, StillGap

\* A link breaks.
LEMMA BreakGap ==
    ASSUME GapInv, ScreenInv', NEW i \in Client, Break(i)
    PROVE  GapInv'
  <1>1. /\ net[i] \in Networks /\ tui[i] \in Models /\ SystemInv
    BY GapSeen
  <1> DEFINE p == Unlink(net[i], "offline")
             q == Disconnected(tui[i])
  <1>2. /\ net' = [net EXCEPT ![i] = p] /\ tui' = [tui EXCEPT ![i] = q]
        /\ UNCHANGED <<db, conns, up>>
    BY DEF Break, Drop, vars
  <1>3. p.instance = net[i].instance /\ p.cursor = net[i].cursor /\ p.phase = "offline"
    BY <1>1, UnlinkTyped
  <1>4. q.messages = tui[i].messages /\ q.hasMore = tui[i].hasMore
    BY <1>1 DEF Models, Disconnected
  <1> HIDE DEF p, q
  <1>5. p.phase # "linked"
    BY <1>3
  <1> QED BY <1>2, <1>3, <1>4, <1>5, StillGap

\* A client is refused.
LEMMA RefusalGap ==
    ASSUME GapInv, ScreenInv', NEW i \in Client, ReceiveRefusal(i)
    PROVE  GapInv'
  <1>1. PICK f \in Incoming(i) :
            /\ Read(i)
            /\ \/ /\ net' = [net EXCEPT ![i] = Unlink(@, "stopped")]
                  /\ tui' = [tui EXCEPT ![i] = GivenUp(@)]
               \/ Drop(i)
    BY DEF ReceiveRefusal
  <1>2. /\ net[i] \in Networks /\ tui[i] \in Models /\ SystemInv
    BY GapSeen
  <1>3. Linked(i) /\ UNCHANGED up
    BY <1>1 DEF Incoming, ReceiveRefusal
  <1>4. UNCHANGED db /\ \A j \in Client \ {i} : Linked(j) => conns'[net[j].conn] = conns[net[j].conn]
    BY <1>1, <1>2, <1>3, ReadsItsOwn
  <1>5. PICK phase \in {"offline", "stopped"}, q \in Models :
           /\ net' = [net EXCEPT ![i] = Unlink(net[i], phase)] /\ tui' = [tui EXCEPT ![i] = q]
           /\ q.messages = tui[i].messages /\ q.hasMore = tui[i].hasMore
    <2>1. /\ Disconnected(tui[i]).messages = tui[i].messages
          /\ Disconnected(tui[i]).hasMore = tui[i].hasMore
      BY <1>2 DEF Models, Disconnected
    <2>2. /\ GivenUp(tui[i]).messages = tui[i].messages
          /\ GivenUp(tui[i]).hasMore = tui[i].hasMore
      BY <1>2 DEF Models, GivenUp
    <2>5. Disconnected(tui[i]) \in Models /\ GivenUp(tui[i]) \in Models
      BY <1>2, DisconnectedTyped, GivenUpTyped
    <2>3. CASE Drop(i)
      <3>1. net' = [net EXCEPT ![i] = Unlink(net[i], "offline")]
            /\ tui' = [tui EXCEPT ![i] = Disconnected(tui[i])]
        BY <2>3 DEF Drop
      <3> QED BY <2>1, <2>5, <3>1
    <2>4. CASE /\ net' = [net EXCEPT ![i] = Unlink(@, "stopped")]
               /\ tui' = [tui EXCEPT ![i] = GivenUp(@)]
      <3>1. net' = [net EXCEPT ![i] = Unlink(net[i], "stopped")]
            /\ tui' = [tui EXCEPT ![i] = GivenUp(tui[i])]
        BY <2>4
      <3> QED BY <2>2, <2>5, <3>1
    <2> QED BY <1>1, <2>3, <2>4
  <1> DEFINE p == Unlink(net[i], phase)
  <1>6. p.instance = net[i].instance /\ p.cursor = net[i].cursor /\ p.phase = phase
    BY <1>2, UnlinkTyped
  <1>7. net' = [net EXCEPT ![i] = p]
    BY <1>5
  <1> HIDE DEF p
  <1>8. p.phase # "linked"
    BY <1>5, <1>6
  <1>9. /\ \A j \in Client \ {i} : Linked(j) => /\ conns'[net[j].conn] = conns[net[j].conn]
                                                /\ up'[net[j].conn] = up[net[j].conn]
        /\ UNCHANGED db
    BY <1>3, <1>4
  <1>10. tui' = [tui EXCEPT ![i] = q] /\ q.messages = tui[i].messages /\ q.hasMore = tui[i].hasMore
    BY <1>5
  <1>11. /\ p.instance = net[i].instance /\ p.cursor = net[i].cursor
         /\ (p.phase = "linked" /\ Active(conns'[p.conn])) =>
              Tracks(db.last, Rows(i), p, q, conns'[p.conn], up'[p.conn])
    BY <1>6, <1>8
  <1> QED BY <1>7, <1>9, <1>10, <1>11, StillGap

\* The user asks for something: what is waited for is connected to what is shown.
LEMMA AskGap ==
    ASSUME GapInv, ScreenInv', NEW i \in Client, NEW x \in Requests, Ask(i, x),
           NEW q, tui' = [tui EXCEPT ![i] = q], q \in Models,
           q.messages = tui[i].messages, q.hasMore = tui[i].hasMore,
           x.type = "history" => tui[i].hasMore /\ x.before \in Ids(tui[i].messages)
    PROVE  GapInv'
  <1> DEFINE n == net[i]
             t == tui[i]
             c == n.conn
             s == conns[c]
             u == up[c]
             k == db.last
             rows == Rows(i)
  <1>1. /\ n \in Networks /\ t \in Models /\ SystemInv /\ ServerInv /\ k \in Nat
        /\ \A y \in Ids(rows) : y \in Nat
    BY GapSeen
  <1>2. /\ Linked(i) /\ n.ready /\ up' = [up EXCEPT ![c] = Append(@, x)]
        /\ UNCHANGED <<db, conns, net>>
    BY DEF Ask, vars
  <1>3. /\ c \in Conn /\ u \in Seq(Requests) /\ ClientOk(i, n, t, s, u)
        /\ Active(s) => Tracks(k, rows, n, t, s, u)
    BY <1>2, GapSeen DEF Served
  <1>4. n.welcomed
    BY <1>2, <1>3 DEF ClientOk, Waits
  <1>5. up \in [Conn -> Seq(Requests)] /\ net \in [Client -> Networks]
    BY <1>1 DEF SystemInv
  <1>6. up'[c] = Append(u, x) /\ \A d \in Conn \ {c} : up'[d] = up[d]
    BY <1>2, <1>3, <1>5
  <1>7. net' = [net EXCEPT ![i] = n]
    BY <1>2, <1>5
  <1>8. \A j \in Client \ {i} : Linked(j) => /\ conns'[net[j].conn] = conns[net[j].conn]
                                             /\ up'[net[j].conn] = up[net[j].conn]
    BY <1>1, <1>2, <1>6 DEF SystemInv
  <1>9. Active(conns'[c]) => Tracks(k, rows, n, q, conns'[c], up'[c])
    <2> SUFFICES ASSUME Active(s) PROVE Tracks(k, rows, n, q, s, Append(u, x))
      BY <1>2, <1>6
    <2>1. Ids(rows) \subseteq Nat /\ Tracks(k, rows, n, t, s, u) /\ q.messages = t.messages
          /\ q.hasMore = t.hasMore
          /\ k \in Nat /\ n \in Networks /\ n.welcomed /\ t \in Models /\ u \in Seq(Requests)
      BY <1>1, <1>3, <1>4
    <2>2. x.type = "history" => t.hasMore /\ x.before \in Ids(t.messages)
      OBVIOUS
    <2> HIDE DEF n, t, c, s, u, k, rows
    <2> QED BY <2>1, <2>2, AskTracks
  <1> QED BY <1>2, <1>7, <1>8, <1>9, StillGap

\* The oldest message shown is shown.
LEMMA OldestShown ==
    ASSUME NEW t \in Models, t.messages # {}
    PROVE  Oldest(t) \in Ids(t.messages) /\ Oldest(t) \in Nat
  <1> DEFINE S == Ids(t.messages)
  <1>1. S \in SUBSET Nat /\ S # {}
    BY DEF Ids, Models, Row
  <1>2. Oldest(t) = Min(S)
    BY DEF Oldest
  <1> HIDE DEF S
  <1>3. \E x \in S : \A y \in S : x <= y
    BY <1>1, NatMin
  <1>4. Oldest(t) \in S
    BY <1>2, <1>3 DEF Min
  <1> QED BY <1>1, <1>4 DEF S

\* The user sends, recalls, or loads what is before the oldest message shown.
LEMMA UserGap ==
    ASSUME GapInv, ScreenInv', NEW i \in Client, UserSend(i) \/ UserRecall(i) \/ LoadOlder(i)
    PROVE  GapInv'
  <1>0. tui[i] \in Models /\ tui \in [Client -> Models]
    BY GapSeen DEF SystemInv
  <1>1. CASE UserSend(i)
    <2> DEFINE q == [tui[i] EXCEPT !.pending = TRUE]
    <2>1. q \in Models /\ q.messages = tui[i].messages /\ q.hasMore = tui[i].hasMore
      BY <1>0 DEF Models
    <2>2. Ask(i, [type |-> "send"]) /\ tui' = [tui EXCEPT ![i] = q]
      BY <1>1 DEF UserSend
    <2>3. [type |-> "send"] \in Requests
      BY DEF Requests
    <2> HIDE DEF q
    <2> QED BY <2>1, <2>2, <2>3, AskGap
  <1>2. CASE UserRecall(i)
    <2> DEFINE q == [tui[i] EXCEPT !.recalls = TRUE]
    <2>1. q \in Models /\ q.messages = tui[i].messages /\ q.hasMore = tui[i].hasMore
      BY <1>0 DEF Models
    <2>2. PICK m \in tui[i].messages : Ask(i, [type |-> "recall", id |-> m.id])
      BY <1>2 DEF UserRecall
    <2>3. m.id \in Nat
      BY <1>0 DEF Models, Row
    <2>4. [type |-> "recall", id |-> m.id] \in Requests
      BY <2>3 DEF Requests
    <2>5. tui' = [tui EXCEPT ![i] = q]
      BY <1>2 DEF UserRecall
    <2> HIDE DEF q
    <2> QED BY <2>1, <2>2, <2>4, <2>5, AskGap
  <1>3. CASE LoadOlder(i)
    <2> DEFINE q == [tui[i] EXCEPT !.loading = TRUE]
               x == [type |-> "history", before |-> Oldest(tui[i])]
    <2>1. q \in Models /\ q.messages = tui[i].messages /\ q.hasMore = tui[i].hasMore
      BY <1>0 DEF Models
    <2>2. Ask(i, x) /\ tui' = [tui EXCEPT ![i] = q] /\ tui[i].hasMore /\ tui[i].messages # {}
      BY <1>3 DEF LoadOlder
    <2>3. Oldest(tui[i]) \in Ids(tui[i].messages) /\ Oldest(tui[i]) \in Nat
      BY <1>0, <2>2, OldestShown
    <2>4. x \in Requests /\ x.before = Oldest(tui[i])
      BY <2>3 DEF Requests
    <2> HIDE DEF q, x
    <2> QED BY <2>1, <2>2, <2>3, <2>4, AskGap
  <1> QED BY <1>1, <1>2, <1>3

\* A client that names its room's instance has everything up to its cursor, whatever
\* is on its way to it.
LEMMA SeesUnbroken ==
    ASSUME NEW k \in Nat, NEW r, NEW v, NEW n, NEW t, NEW s \in SessionsOf(k), Active(s),
           Faithful(r, v, n, t, s), n.instance = <<v.instance, v.epoch>>,
           NEW rows, NEW u, Tracks(k, rows, n, t, s, u)
    PROVE  ~Overtaken(s.outgoing, 0) /\ n.cursor <= k /\ Unbroken(rows, n, t)
  <1> DEFINE G == s.outgoing
             H == Stream(s)
  <1>1. StartOk(v, n, H) /\ (Keeps(n, H) => Sees(v, n, t, H)) /\ (~n.welcomed => G # <<>>)
    BY DEF Faithful, LiveView
  <1>2. Keeps(n, H)
    BY <1>1 DEF StartOk, Keeps
  <1>3. n.instance[1] = v.instance
    OBVIOUS
  <1>4. ~Overtaken(H, 0)
    BY <1>1, <1>2, <1>3 DEF Sees
  <1>5. G \in Seq(Frames) /\ s.deferred \in Seq(Frames) /\ H \in Seq(Frames)
    BY StreamTyped
  <1>6. \A j \in DOMAIN G : j \in DOMAIN H /\ H[j] = G[j]
    <2>1. Len(H) = Len(G) + Len(s.deferred) /\ Len(G) \in Nat /\ Len(s.deferred) \in Nat
          /\ \A l \in 1 .. Len(G) + Len(s.deferred) : l <= Len(G) => H[l] = G[l]
      BY <1>5, ConcatProperties, LenProperties DEF Stream
    <2>2. DOMAIN G = 1 .. Len(G) /\ DOMAIN H = 1 .. Len(H)
      BY <1>5
    <2> HIDE DEF G, H
    <2> QED BY <2>1, <2>2
  <1>7. ~Overtaken(G, 0)
    BY <1>4, <1>6 DEF Overtaken
  <1>8. Keeps(n, G)
    <2>1. CASE n.welcomed
      BY <2>1 DEF Keeps
    <2>2. CASE ~n.welcomed
      <3>1. 1 \in DOMAIN G
        BY <1>1, <1>5, <2>2
      <3>2. H[1] = G[1]
        BY <1>6, <3>1
      <3> QED BY <1>2, <2>2, <3>2 DEF Keeps
    <2> QED BY <2>1, <2>2
  <1>9. Settled(k, rows, n, t, G, u)
    BY DEF Tracks
  <1> HIDE DEF G, H
  <1>10. n.cursor <= k /\ Unbroken(rows, n, t)
    BY <1>7, <1>8, <1>9 DEF Settled
  <1> QED BY <1>7, <1>10 DEF G

\* A frame is read and shown.
LEMMA ReceiveGap ==
    ASSUME GapInv, ScreenInv', NEW i \in Client, Receive(i)
    PROVE  GapInv'
  <1>1. PICK f \in Incoming(i) :
            /\ net[i].welcomed \/ f.type # "error"
            /\ Read(i)
            /\ net' = [net EXCEPT ![i] = AfterEmit(BeforeEmit(@, f), f)]
            /\ tui' = [tui EXCEPT ![i] = Show(@, f)]
            /\ AskNext(i, f)
    BY DEF Receive
  <1> DEFINE n == net[i]
             t == tui[i]
             c == n.conn
             s == conns[c]
             u == up[c]
             k == db.last
             rows == Rows(i)
             p == Received(n, f)
             q == Show(t, f)
             G == s.outgoing
             x == [s EXCEPT !.outgoing = Tail(@)]
             r == RoomOf[i]
             v == Log(db, r)
             w == up'[c]
  <1>2. /\ SystemInv /\ ServerInv /\ k \in Nat /\ n \in Networks /\ t \in Models
        /\ \A y \in Ids(rows) : y \in Nat /\ 0 < y
        /\ up \in [Conn -> Seq(Requests)] /\ net \in [Client -> Networks]
        /\ tui \in [Client -> Models]
    BY GapSeen DEF SystemInv
  <1>3. /\ Linked(i) /\ s \in SessionsOf(k) /\ Active(s) /\ G # <<>> /\ c \in Conn
        /\ u \in Seq(Requests) /\ f = G[1] /\ f \in SoundFrames(k) /\ conns'[c] = x
    BY <1>1, <1>2, ReadFacts
  <1>4. Tracks(k, rows, n, t, s, u)
    BY <1>3, GapSeen DEF Served
  <1>5. net' = [net EXCEPT ![i] = p] /\ tui' = [tui EXCEPT ![i] = q]
    BY <1>1 DEF Received
  <1>6. p \in Networks /\ p.conn = c /\ p.phase = n.phase /\ q \in Models
    BY <1>2, <1>3, ReceivedTyped, ShowTyped
  <1>7. UNCHANGED db /\ \A j \in Client \ {i} : Linked(j) => conns'[net[j].conn] = conns[net[j].conn]
    BY <1>1, <1>2, <1>3, ReadsItsOwn
  <1>8. /\ Fewer(w, u) /\ \A d \in Conn \ {c} : up'[d] = up[d]
    <2>1. CASE UNCHANGED up
      BY <1>3, <2>1, FewerLeft
    <2>2. ASSUME NEW z, z.type = "sync", up' = [up EXCEPT ![c] = Append(@, z)]
          PROVE  Fewer(w, u) /\ \A d \in Conn \ {c} : up'[d] = up[d]
      <3>1. w = Append(u, z) /\ \A d \in Conn \ {c} : up'[d] = up[d]
        BY <1>2, <1>3, <2>2
      <3> HIDE DEF w, u
      <3>2. \A j \in DOMAIN Append(u, z) : Append(u, z)[j] = z \/ (j \in DOMAIN u /\ Append(u, z)[j] = u[j])
        BY <1>3
      <3>3. Fewer(w, u)
        BY <2>2, <3>1, <3>2 DEF Fewer
      <3> QED BY <3>1, <3>3
    <2>3. [type |-> "sync", after |-> net'[i].cursor].type = "sync"
      OBVIOUS
    <2> QED BY <1>1, <2>1, <2>2, <2>3 DEF AskNext
  <1>9. Tracks(k, rows, p, q, x, w)
    <2> DEFINE T == Tail(G)
    <2>1. /\ G = s.outgoing /\ p = Received(n, G[1]) /\ q = Show(t, G[1]) /\ T = Tail(G)
          /\ x = [s EXCEPT !.outgoing = Tail(@)]
          /\ G \in Seq(SoundFrames(k)) /\ Ids(rows) \subseteq Nat /\ \A y \in Ids(rows) : 0 < y
      BY <1>2, <1>3 DEF SessionsOf
    <2> HIDE DEF n, t, c, s, u, k, rows, p, q, G, x, r, v, w, T
    <2>2. Tracks(k, rows, p, q, [s EXCEPT !.outgoing = Tail(@)], w)
      BY <1>2, <1>3, <1>4, <1>8, <2>1, ReadTracks
    <2> QED BY <2>1, <2>2
  <1>10. /\ Active(x) /\ x \in SessionsOf(k)
    <2>1. s.outgoing \in Seq(Frames) /\ s.outgoing \in Seq(SoundFrames(k)) /\ s \in Sessions
      BY <1>3 DEF SessionsOf, Sessions
    <2>2. Tail(s.outgoing) \in Seq(Frames) /\ Tail(s.outgoing) \in Seq(SoundFrames(k))
      BY <1>3, <2>1, TailFacts
    <2>3. x \in Sessions /\ x.outgoing = Tail(s.outgoing) /\ x.deferred = s.deferred
          /\ x.through = s.through /\ x.live = s.live /\ x.phase = s.phase
      BY <2>1, <2>2 DEF Sessions
    <2> HIDE DEF x, s
    <2>4. x \in SessionsOf(k)
      BY <1>3, <2>2, <2>3 DEF SessionsOf
    <2> QED BY <1>3, <2>3, <2>4 DEF Active
  <1>11. Faithful(r, v, p, q, x)
    <2>1. net'[i] = p /\ tui'[i] = q /\ p.phase = "linked" /\ Log(db', r) = v
      BY <1>2, <1>3, <1>5, <1>6, <1>7 DEF Linked
    <2>2. Linked(i)'
      BY <2>1 DEF Linked
    <2>3. Linked(i)' => Faithful(RoomOf[i], Log(db', RoomOf[i]), net'[i], tui'[i],
                                 conns'[net'[i].conn])
      BY DEF ScreenInv
    <2> QED BY <1>3, <1>6, <2>1, <2>2, <2>3
  <1>12. p.instance = InstanceID(db, RoomOf[i]) => Unbroken(rows, p, q)
    <2> SUFFICES ASSUME p.instance = InstanceID(db, RoomOf[i]) PROVE Unbroken(rows, p, q)
      OBVIOUS
    <2>1. p.instance = <<v.instance, v.epoch>>
      BY DEF Log, InstanceID
    <2> HIDE DEF n, t, c, s, u, k, rows, p, q, G, x, r, v, w
    <2> QED BY <1>2, <1>9, <1>10, <1>11, <2>1, SeesUnbroken
  <1>13. \A y \in Ids(q.messages) : y <= k
    BY <1>9 DEF Tracks, Settled
  <1>14. \A j \in Client \ {i} : Linked(j) => /\ conns'[net[j].conn] = conns[net[j].conn]
                                              /\ up'[net[j].conn] = up[net[j].conn]
    BY <1>2, <1>3, <1>7, <1>8 DEF SystemInv
  <1>15. (p.phase = "linked" /\ Active(conns'[p.conn])) =>
            Tracks(db.last, Rows(i), p, q, conns'[p.conn], up'[p.conn])
    BY <1>3, <1>6, <1>9
  <1>16. UNCHANGED db
    BY <1>7
  <1>17. \A y \in Ids(q.messages) : y <= db.last
    BY <1>13
  <1>18. p.instance = InstanceID(db, RoomOf[i]) => Unbroken(Rows(i), p, q)
    BY <1>12
  <1> HIDE DEF n, t, c, s, u, k, rows, p, q, G, x, r, v, w
  <1> QED BY <1>5, <1>14, <1>15, <1>16, <1>17, <1>18, ClientGap

\* The end of the catching up moves the cursor, and changes nothing that is shown.
LEMMA CaughtUpRead ==
    ASSUME NEW k \in Nat, NEW n \in Networks, NEW t \in Models, NEW f \in SoundFrames(k),
           f.type = "sync_complete"
    PROVE  /\ Received(n, f).cursor = BeforeEmit(n, f).cursor
           /\ Show(t, f).messages = t.messages /\ Show(t, f).hasMore = t.hasMore
  <1> DEFINE b == BeforeEmit(n, f)
             g == Further(b.cursor, Carried(f))
  <1>1. b \in Networks /\ b.cursor \in Nat
    BY BeforeTyped DEF Networks
  <1>2. Carried(f) = {}
    BY DEF Carried
  <1>3. Received(n, f).cursor = g
    <2>1. Received(n, f) = [b EXCEPT !.cursor = g, !.instance = b.instance]
      BY DEF Received, AfterEmit
    <2> HIDE DEF b, g
    <2> QED BY <1>1, <2>1 DEF Networks
  <1> HIDE DEF b
  <1>4. g = b.cursor
    <2>1. {} \in SUBSET Row /\ \A m \in {} : m.id <= 0
      OBVIOUS
    <2> QED BY <1>1, <1>2, <2>1, FurtherTyped
  <1>5. Show(t, f) = [t EXCEPT !.connected = TRUE]
    BY DEF Show
  <1>6. Show(t, f).messages = t.messages /\ Show(t, f).hasMore = t.hasMore
    BY <1>5 DEF Models
  <1> QED BY <1>3, <1>4, <1>6 DEF b

\* A frame is read and not shown, and the link ends.
LEMMA CancelledGap ==
    ASSUME GapInv, ScreenInv', NEW i \in Client, ReceiveCancelled(i)
    PROVE  GapInv'
  <1>1. PICK f \in Incoming(i) :
            /\ net[i].welcomed \/ f.type # "error"
            /\ Read(i)
            /\ net' = [net EXCEPT ![i] = Unlink(BeforeEmit(@, f), "offline")]
            /\ tui' = [tui EXCEPT ![i] = Disconnected(@)]
            /\ UNCHANGED up
    BY DEF ReceiveCancelled
  <1> DEFINE n == net[i]
             t == tui[i]
             s == conns[n.conn]
             u == up[n.conn]
             k == db.last
             r == RoomOf[i]
             v == Log(db, r)
             rows == Rows(i)
             b == BeforeEmit(n, f)
             p == Unlink(b, "offline")
             q == Disconnected(t)
             H == Stream(s)
  <1>2. /\ SystemInv /\ k \in Nat /\ n \in Networks /\ t \in Models
        /\ \A y \in Ids(rows) : y \in Nat /\ 0 < y
        /\ \A y \in Ids(t.messages) : y <= k
        /\ Current(i) => Unbroken(rows, n, t)
    BY GapSeen
  <1>3. /\ Linked(i) /\ s \in SessionsOf(k) /\ Active(s) /\ s.outgoing # <<>>
        /\ f = s.outgoing[1] /\ f \in SoundFrames(k)
    BY <1>1, <1>2, ReadFacts
  <1>4. Faithful(r, v, n, t, s)
    BY <1>2, <1>3, GapSeen, Seen
  <1>5. Tracks(k, rows, n, t, s, u)
    BY <1>3, GapSeen DEF Served
  <1>6. UNCHANGED db /\ \A j \in Client \ {i} : Linked(j) => conns'[net[j].conn] = conns[net[j].conn]
    BY <1>1, <1>2, <1>3, ReadsItsOwn
  <1>7. net' = [net EXCEPT ![i] = p] /\ tui' = [tui EXCEPT ![i] = q]
    BY <1>1
  <1>8. b \in Networks
    BY <1>2, <1>3, BeforeTyped
  <1>9. p.instance = b.instance /\ p.cursor = b.cursor /\ p.phase = "offline"
    BY <1>8, UnlinkTyped
  <1>10. q.messages = t.messages /\ q.hasMore = t.hasMore
    BY <1>2 DEF Models, Disconnected
  <1>11. Current(i) <=> n.instance = <<v.instance, v.epoch>>
    BY DEF Current, Log, InstanceID
  <1>12. b.cursor \in Nat /\ n.cursor \in Nat
    BY <1>2, <1>8 DEF Networks
  <1> HIDE DEF n, s, u, v, b, p, q, t, k, rows, r
  <1>13. H[1] = f /\ 1 \in DOMAIN H /\ H \in Seq(Frames)
    BY <1>2, <1>3, StreamStarts
  <1>14. LiveView(v, n, t, H)
    BY <1>3, <1>4 DEF Faithful
  <1>15. n.instance = <<v.instance, v.epoch>> => Unbroken(rows, n, t) /\ ~Overtaken(s.outgoing, 0)
    <2> SUFFICES ASSUME n.instance = <<v.instance, v.epoch>>
                 PROVE  Unbroken(rows, n, t) /\ ~Overtaken(s.outgoing, 0)
      OBVIOUS
    <2> QED BY <1>2, <1>3, <1>4, <1>5, SeesUnbroken
  <1> HIDE DEF H
  <1>16. b.instance = <<v.instance, v.epoch>> => Unbroken(rows, b, t)
    <2> SUFFICES ASSUME b.instance = <<v.instance, v.epoch>> PROVE Unbroken(rows, b, t)
      OBVIOUS
    <2>0. f.type = "welcome" => f.resumed \in BOOLEAN
      BY <1>2, <1>3, FrameCases
    <2>1. ASSUME b.cursor = 0 PROVE Unbroken(rows, b, t)
      <3>1. \A y \in Ids(rows) : ~(y <= b.cursor)
        BY <1>2, <2>1
      <3> QED BY <3>1 DEF Unbroken
    <2>2. ASSUME n.instance = b.instance, b.cursor = n.cursor PROVE Unbroken(rows, b, t)
      BY <1>15, <2>2 DEF Unbroken
    <2>3. CASE f.type = "history_cleared" \/ (f.type = "welcome" /\ ~f.resumed)
      <3>1. b.cursor = 0
        BY <1>2, <1>3, <2>3, KnownBefore DEF b
      <3> QED BY <2>1, <3>1
    <2>4. CASE f.type = "welcome" /\ f.resumed
      <3>1. b.instance = f.instance /\ b.cursor \in {0, n.cursor}
        BY <1>2, <1>3, <2>4, KnownBefore DEF b
      <3>2. n.instance = f.instance
        BY <1>13, <1>14, <2>4 DEF LiveView, StartOk
      <3> QED BY <2>1, <2>2, <3>1, <3>2
    <2>5. CASE f.type = "sync_complete"
      <3>1. b.instance = n.instance
        BY <1>2, <1>3, <2>5, KnownBefore DEF b
      <3>2. ~Overtaken(s.outgoing, 1)
        <4>1. ~Overtaken(s.outgoing, 0)
          BY <1>15, <3>1
        <4>2. 1 \in Nat /\ \A j \in DOMAIN s.outgoing : j > 1 => j > 0
          BY <1>3 DEF SessionsOf
        <4> QED BY <4>1, <4>2 DEF Overtaken
      <3> DEFINE G == s.outgoing
                 a == Received(n, f)
                 w == Show(t, f)
      <3>3. /\ G \in Seq(SoundFrames(k)) /\ G # <<>> /\ ~Overtaken(G, 1) /\ G = s.outgoing
            /\ Ids(rows) \subseteq Nat /\ \A y \in Ids(rows) : 0 < y
            /\ a = Received(n, G[1]) /\ w = Show(t, G[1])
        BY <1>2, <1>3, <3>2 DEF SessionsOf
      <3>4. a.cursor = b.cursor /\ w.messages = t.messages /\ w.hasMore = t.hasMore
        BY <1>2, <1>3, <2>5, CaughtUpRead DEF b
      <3> HIDE DEF G, a, w
      <3>5. Unbroken(rows, a, w)
        BY <1>2, <1>3, <1>5, <3>3, ReadUnbroken
      <3> QED BY <3>4, <3>5, SameUnbroken
    <2>6. CASE f.type \notin {"welcome", "history_cleared", "sync_complete"}
      <3>1. b = n
        BY <1>2, <1>3, <2>6, KnownBefore DEF b
      <3> QED BY <2>2, <3>1
    <2> QED BY <2>0, <2>3, <2>4, <2>5, <2>6
  <1>17. p.instance = InstanceID(db, RoomOf[i]) => Unbroken(Rows(i), p, q)
    <2>1. InstanceID(db, RoomOf[i]) = <<v.instance, v.epoch>>
      BY DEF v, r, Log, InstanceID
    <2>2. p.instance = InstanceID(db, RoomOf[i]) => Unbroken(rows, b, t)
      BY <1>9, <1>16, <2>1
    <2>3. p.instance = InstanceID(db, RoomOf[i]) => Unbroken(rows, p, q)
      BY <1>9, <1>10, <2>2, SameUnbroken
    <2> QED BY <2>3 DEF rows
  <1>18. \A y \in Ids(q.messages) : y <= db.last
    BY <1>2, <1>10 DEF k
  <1>19. p.phase # "linked" /\ UNCHANGED <<db, up>>
    BY <1>1, <1>6, <1>9
  <1>20. \A j \in Client \ {i} : Linked(j) => /\ conns'[net[j].conn] = conns[net[j].conn]
                                              /\ up'[net[j].conn] = up[net[j].conn]
    BY <1>6, <1>19
  <1> QED BY <1>7, <1>17, <1>18, <1>19, <1>20, ClientGap

-----------------------------------------------------------------------------
(* The invariant, and that nothing is missing *)

\* The invariant is kept by every step, and holds from the start.
LEMMA GapStep ==
    ASSUME GapInv, [SNext]_svars
    PROVE  GapInv'
  <1>0. ScreenInv'
    BY ScreenStep DEF GapInv
  <1>1. CASE UNCHANGED svars
    <2>1. UNCHANGED <<db, conns, sessions, up, net, tui>>
      BY <1>1 DEF svars, cvars, vars
    <2>2. up \in [Conn -> Seq(Requests)]
      BY DEF GapInv, ScreenInv, SystemInv
    <2>3. ASSUME NEW d \in Conn, Active(conns'[d])
          PROVE  Goes(d) /\ Follows(d) /\ Fewer(up'[d], up[d])
      <3>1. Goes(d) /\ Follows(d)
        BY <2>1, <2>3 DEF Goes, Follows, Hears, Rests, SameRows, SameUsers
      <3>2. up[d] \in Seq(Requests) /\ up'[d] = up[d]
        BY <2>1, <2>2
      <3> QED BY <3>1, <3>2, FewerLeft
    <2>4. Commits
      BY <2>1 DEF Commits
    <2> QED BY <1>0, <2>1, <2>3, <2>4, LedOn
  <1>2. ASSUME NEW i \in Client,
               \/ \E c \in Conn : Dial(i, c)
               \/ Break(i) \/ ReceiveRefusal(i) \/ Receive(i) \/ ReceiveCancelled(i)
               \/ UserSend(i) \/ UserRecall(i) \/ LoadOlder(i)
        PROVE  GapInv'
    BY <1>0, <1>2, DialGap, BreakGap, RefusalGap, ReceiveGap, CancelledGap, UserGap
  <1>3. ASSUME NEW c \in Conn,
               \/ ServeJoin(c) \/ ServeJoinInvalid(c) \/ ServeSend(c) \/ ServeRecall(c)
               \/ ServeHistory(c) \/ ServeSync(c) \/ Ends(c)
        PROVE  GapInv'
    BY <1>0, <1>3, ServeJoinGap, ServeSendGap, ServeRecallGap, ServeHistoryGap, ServeSyncGap, EndsGap
  <1>4. CASE Quietly \/ SRestart
    BY <1>0, <1>4, QuietlyGap
  <1> QED BY <1>1, <1>2, <1>3, <1>4 DEF SNext

\* At the start there are no messages.
LEMMA GapInit == SInit => GapInv
  <1> SUFFICES ASSUME SInit PROVE GapInv
    OBVIOUS
  <1>1. ScreenInv
    BY ScreenInit
  <1>2. db = NewDb /\ net = [i \in Client |-> NewNetwork] /\ tui = [i \in Client |-> NewModel]
    BY DEF SInit, Init
  <1>3. db.rows = {}
    BY <1>2 DEF NewDb
  <1>4. Numbered
    BY <1>3 DEF Numbered
  <1>5. ASSUME NEW i \in Client
        PROVE  /\ Ids(tui[i].messages) = {} /\ Ids(Rows(i)) = {} /\ ~Served(i)
    <2>1. net[i] = NewNetwork /\ tui[i] = NewModel
      BY <1>2
    <2>2. tui[i].messages = {} /\ ~Served(i)
      BY <2>1 DEF NewNetwork, NewModel, Served, Linked
    <2> QED BY <1>3, <2>2 DEF Ids, Rows, RoomRows
  <1>6. ASSUME NEW i \in Client
        PROVE  Unbroken(Rows(i), net[i], tui[i])
    BY <1>5 DEF Unbroken
  <1> QED BY <1>1, <1>4, <1>5, <1>6 DEF GapInv

\* The invariant holds of every behaviour.
LEMMA GapInvariant == SSpec => []GapInv
  BY GapInit, GapStep, PTL DEF SSpec

\* The screen has no holes: while a client would be resumed, every message of its
\* room up to its cursor is on display, but for those that are older than all it
\* shows, and of these it knows that it can load them. No page, message, recall or
\* cleanup that is on its way when another arrives, no lost link and no frame that
\* was read and not shown leaves a message out for good.
THEOREM NothingMissing == SSpec => []NoGap
  <1>1. GapInv => NoGap
    <2> SUFFICES ASSUME GapInv, NEW i \in Client, Current(i), NEW m \in Rows(i),
                        m.id <= net[i].cursor,
                        tui[i].hasMore => \E k \in tui[i].messages : k.id <= m.id
                 PROVE  m.id \in Ids(tui[i].messages)
      BY DEF NoGap
    <2>1. Unbroken(Rows(i), net[i], tui[i]) /\ m.id \in Ids(Rows(i))
      BY GapSeen DEF Ids
    <2>2. Accounted(tui[i], m.id) /\ m.id \in Nat
      BY <2>1, GapSeen DEF Unbroken
    <2>3. ~(tui[i].hasMore /\ \A y \in Ids(tui[i].messages) : m.id < y)
      <3> SUFFICES ASSUME tui[i].hasMore, \A y \in Ids(tui[i].messages) : m.id < y PROVE FALSE
        OBVIOUS
      <3>1. PICK k \in tui[i].messages : k.id <= m.id
        OBVIOUS
      <3>2. k.id \in Ids(tui[i].messages)
        BY DEF Ids
      <3>3. k.id \in Nat /\ m.id < k.id
        BY <3>2, GapSeen
      <3> QED BY <2>2, <3>1, <3>3
    <2> QED BY <2>2, <2>3 DEF Accounted
  <1> QED BY <1>1, GapInvariant, PTL

=============================================================================
