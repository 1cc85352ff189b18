-------------------------- MODULE ChatServerProofs --------------------------
(***************************************************************************)
(* That the session map and the connections that serve agree, and that     *)
(* every variable keeps its shape, for every number of rooms, nicknames    *)
(* and connections and all capacities.  ChatFeed's observer adds nothing   *)
(* to the server, so this holds there too.                                 *)
(*                                                                         *)
(* Every operation has a lemma that says what it does to the connections:  *)
(* it keeps ServerInv, and what it does to the connections it is not about *)
(* is to tell them news (Told).  ChatSystemProofs builds on these lemmas.  *)
(***************************************************************************)
EXTENDS ChatFeed, SequenceTheorems, WellFoundedInduction, TLAPS

\* A connection has a phase, and one that serves has a room and a name.
Formed(s) == /\ "phase" \in DOMAIN s
             /\ s.phase = "serving" => {"room", "name"} \subseteq DOMAIN s

\* t is s after frames have been queued, or the session has been cancelled or
\* has moved on in its catching up.
Alike(t, s) == /\ Formed(t)
               /\ t.phase = s.phase
               /\ s.phase = "serving" => t.room = s.room /\ t.name = s.name

\* A session is in the map under its own room and name as long as it serves.
SessionInv ==
    /\ conns = [c \in Conn |-> conns[c]]
    /\ \A c \in Conn : Formed(conns[c])
    /\ DOMAIN sessions \subseteq Room \X Name
    /\ NamesExclusive

LEMMA OneKey ==
    ASSUME SessionInv, NEW k \in DOMAIN sessions, NEW l \in DOMAIN sessions,
           sessions[k] = sessions[l]
    PROVE  k = l
  <1>1. k = <<k[1], k[2]>> /\ l = <<l[1], l[2]>>
    BY DEF SessionInv
  <1>2. k[1] = l[1] /\ k[2] = l[2]
    BY DEF SessionInv, NamesExclusive
  <1> QED BY <1>1, <1>2

LEMMA Stays ==
    ASSUME SessionInv, sessions' = sessions, conns' = [c \in Conn |-> conns'[c]],
           \A c \in Conn :
              /\ Formed(conns'[c])
              /\ conns'[c].phase = "serving" <=> conns[c].phase = "serving"
              /\ conns[c].phase = "serving" =>
                    conns'[c].room = conns[c].room /\ conns'[c].name = conns[c].name
    PROVE  SessionInv'
  <1>1. Serving' = Serving /\ Registered(sessions)' = Registered(sessions)
    BY DEF Serving, Registered
  <1>2. \A key \in DOMAIN sessions : sessions[key] \in Serving
    BY DEF SessionInv, NamesExclusive, Registered
  <1>3. \A c \in Conn : Formed(conns'[c])
    OBVIOUS
  <1>4. NamesExclusive'
    BY <1>1, <1>2 DEF SessionInv, NamesExclusive, Serving
  <1> QED BY <1>3, <1>4 DEF SessionInv

LEMMA Joins ==
    ASSUME SessionInv, NEW c \in Conn, NEW r \in Room, NEW n \in Name,
           conns[c].phase # "serving", ~Taken(r, n),
           sessions' = Register(sessions, r, n, c), conns' = [d \in Conn |-> conns'[d]],
           \A d \in Conn \ {c} : Alike(conns'[d], conns[d]),
           Formed(conns'[c]), conns'[c].phase = "serving",
           conns'[c].room = r, conns'[c].name = n
    PROVE  SessionInv'
  <1> DEFINE new == <<r, n>>
  <1>1. /\ DOMAIN sessions' = DOMAIN sessions \cup {new}
        /\ new \notin DOMAIN sessions
        /\ sessions'[new] = c
        /\ \A key \in DOMAIN sessions : sessions'[key] = sessions[key]
    BY DEF Register, Taken
  <1>2. \A key \in DOMAIN sessions : sessions[key] \in Conn \ {c}
    BY DEF SessionInv, NamesExclusive, Registered, Serving
  <1>3. Registered(sessions)' = Registered(sessions) \cup {c}
    BY <1>1 DEF Registered
  <1>4. Serving' = Serving \cup {c}
    BY DEF Serving, Alike
  <1>5. \A key \in DOMAIN sessions :
            conns'[sessions[key]].room = key[1] /\ conns'[sessions[key]].name = key[2]
    <2> SUFFICES ASSUME NEW key \in DOMAIN sessions
                 PROVE  /\ conns'[sessions[key]].room = key[1]
                        /\ conns'[sessions[key]].name = key[2]
      OBVIOUS
    <2>1. conns[sessions[key]].room = key[1] /\ conns[sessions[key]].name = key[2]
          /\ conns[sessions[key]].phase = "serving"
      BY DEF SessionInv, NamesExclusive, Registered, Serving
    <2> QED BY <1>2, <2>1 DEF Alike
  <1>6. \A d \in Conn : Formed(conns'[d])
    BY DEF Alike
  <1>7. NamesExclusive'
    BY <1>1, <1>3, <1>4, <1>5 DEF NamesExclusive, SessionInv
  <1> QED BY <1>1, <1>6, <1>7 DEF SessionInv

LEMMA Leaves ==
    ASSUME SessionInv, NEW c \in Conn, conns[c].phase = "serving",
           sessions' = Unregister(sessions, conns[c].room, conns[c].name),
           conns' = [d \in Conn |-> conns'[d]],
           \A d \in Conn \ {c} : Alike(conns'[d], conns[d]),
           Formed(conns'[c]), conns'[c].phase # "serving"
    PROVE  SessionInv'
  <1>1. PICK key \in DOMAIN sessions : sessions[key] = c
    BY DEF SessionInv, NamesExclusive, Registered, Serving
  <1>2. key = <<conns[c].room, conns[c].name>>
    BY <1>1 DEF SessionInv, NamesExclusive
  <1>3. /\ DOMAIN sessions' = DOMAIN sessions \ {key}
        /\ \A k \in DOMAIN sessions \ {key} : sessions'[k] = sessions[k] /\ sessions[k] # c
    BY <1>1, <1>2, OneKey DEF Unregister
  <1>4. \A k \in DOMAIN sessions :
            /\ sessions[k] \in Conn /\ conns[sessions[k]].phase = "serving"
            /\ conns[sessions[k]].room = k[1] /\ conns[sessions[k]].name = k[2]
    BY DEF SessionInv, NamesExclusive, Registered, Serving
  <1>5. Registered(sessions)' = Registered(sessions) \ {c}
    BY <1>1, <1>3 DEF Registered
  <1>6. Serving' = Serving \ {c}
    BY DEF Serving, Alike
  <1>7. \A k \in DOMAIN sessions' :
            conns'[sessions'[k]].room = k[1] /\ conns'[sessions'[k]].name = k[2]
    BY <1>3, <1>4 DEF Alike
  <1>8. \A d \in Conn : Formed(conns'[d])
    BY DEF Alike
  <1>9. NamesExclusive'
    BY <1>5, <1>6, <1>7 DEF NamesExclusive, SessionInv
  <1> QED BY <1>3, <1>8, <1>9 DEF SessionInv

LEMMA AlikeKeeps ==
    ASSUME SessionInv, sessions' = sessions, conns' = [c \in Conn |-> conns'[c]],
           \A c \in Conn : Alike(conns'[c], conns[c])
    PROVE  SessionInv'
  BY Stays DEF Alike

-----------------------------------------------------------------------------
(* What the operations on frames and sessions return                      *)

LEMMA NatMin ==
    ASSUME NEW T \in SUBSET Nat, T # {}
    PROVE  \E x \in T : \A y \in T : x <= y
  <1> DEFINE R == OpToRel(<, Nat)
  <1>1. IsWellFoundedOn(R, Nat)
    BY NatLessThanWellFounded
  <1>2. \A x, y \in Nat : y < x => <<y, x>> \in R
    BY DEF OpToRel
  <1> HIDE DEF R
  <1>3. PICK x \in T : \A y \in T : ~ (<<y, x>> \in R)
    BY <1>1, WFMin
  <1>4. ASSUME NEW y \in T PROVE x <= y
    <2>1. x \in Nat /\ y \in Nat /\ <<y, x>> \notin R
      BY <1>3
    <2> QED BY <1>2, <2>1
  <1> QED BY <1>4

LEMMA MaxOf ==
    ASSUME NEW S \in SUBSET Nat, S # {}, NEW n \in Nat, \A x \in S : x <= n
    PROVE  /\ Max(S) \in S
           /\ \A x \in S : x <= Max(S)
  <1> DEFINE T == {k \in Nat : n - k \in S}
  <1>1. T \in SUBSET Nat /\ T # {}
    <2>1. PICK x \in S : TRUE
      OBVIOUS
    <2>2. x \in Nat /\ x <= n
      BY <2>1
    <2>3. n - x \in Nat /\ n - (n - x) = x
      BY <2>2
    <2>4. n - x \in T
      BY <2>1, <2>3
    <2> QED BY <2>4
  <1>2. PICK t \in T : \A u \in T : t <= u
    BY <1>1, NatMin
  <1>3. ASSUME NEW y \in S PROVE n - t >= y
    <2>1. y \in Nat /\ y <= n
      OBVIOUS
    <2>2. n - y \in Nat /\ n - (n - y) = y
      BY <2>1
    <2>3. n - y \in T
      BY <2>2
    <2>4. t <= n - y /\ t \in Nat
      BY <1>2, <2>3
    <2> QED BY <2>1, <2>4
  <1>4. \E x \in S : \A y \in S : x >= y
    BY <1>2, <1>3
  <1> QED BY <1>4 DEF Max

\* What a frame says is about messages that were sent; n is how many.
Sound(f, n) ==
    /\ f.type \in {"welcome", "sync_complete"} => f.through <= n
    /\ f.type \in {"sync", "history"} => \A m \in f.messages : m.id <= n
    /\ f.type \in {"message", "ack", "recalled"} => f.message.id <= n

SoundFrames(n) == {f \in Frames : Sound(f, n)}

SessionsOf(n) ==
    {s \in Sessions : /\ s.outgoing \in Seq(SoundFrames(n))
                      /\ s.deferred \in Seq(SoundFrames(n))
                      /\ s.through <= n}

ConnsOf(n) ==
    {Free} \cup [phase : {"reading"}, live : BOOLEAN]
    \cup {Refused(live, code) : live \in BOOLEAN, code \in ErrorCodes}
    \cup SessionsOf(n)

\* t is session s after frames were queued for it.
Grows(t, s) ==
    /\ t.phase = "serving" /\ s.phase = "serving"
    /\ t.live => s.live
    /\ t.room = s.room /\ t.name = s.name /\ t.owner = s.owner
    /\ t.syncing = s.syncing /\ t.through = s.through /\ t.cursor = s.cursor
    /\ \A k \in DOMAIN s.outgoing : k \in DOMAIN t.outgoing /\ t.outgoing[k] = s.outgoing[k]

\* t is connection s after it was told news: nothing happens to it, or its
\* session gets the news, at the end of its catching up if it is in one.
Told(t, s) ==
    \/ t = s
    \/ Grows(t, s) /\ (s.syncing => t.outgoing = s.outgoing)

\* Frame f was queued for session s, unless it was cancelled.
Says(s, f) == s.live => \E k \in DOMAIN s.outgoing : s.outgoing[k] = f

\* The requests that are answered by an error.
Asked == {"join", "send", "recall", "older", "next"}

Pages(n) == {page \in [messages : SUBSET Row, hasMore : BOOLEAN] :
                \A m \in page.messages : m.id <= n}

LEMMA FramesTyped ==
    ASSUME NEW n \in Nat
    PROVE  /\ \A inst \in InstanceIDs, through \in 0..n, resumed \in BOOLEAN, users \in SUBSET Name :
                 Welcome(inst, through, resumed, users) \in SoundFrames(n)
           /\ \A req \in {"initial", "older"}, page \in Pages(n) :
                 PageFrame("history", req, page) \in SoundFrames(n)
           /\ \A req \in {"initial", "next"}, page \in Pages(n) :
                 PageFrame("sync", req, page) \in SoundFrames(n)
           /\ \A through \in 0..n : SyncComplete(through) \in SoundFrames(n)
           /\ \A req \in {"", "send"}, m \in Row :
                 m.id <= n => Message(req, m) \in SoundFrames(n)
           /\ \A m \in Row : m.id <= n => Ack("send", m) \in SoundFrames(n)
           /\ \A req \in {"", "recall"}, m \in Row, inst \in InstanceIDs :
                 m.id <= n => Recalled(req, m, inst) \in SoundFrames(n)
           /\ \A inst \in InstanceIDs : HistoryCleared(inst) \in SoundFrames(n)
           /\ \A users \in SUBSET Name : Presence(users) \in SoundFrames(n)
           /\ \A req \in Asked, code \in ErrorCodes : Error(req, code) \in SoundFrames(n)
           /\ \A req \in Asked : Failure(req) \in SoundFrames(n)
  <1>0. /\ [type : {"welcome"}, instance : InstanceIDs, through : Nat,
            resumed : BOOLEAN, users : SUBSET Name] \subseteq Frames
        /\ [type : {"history"}, req : {"initial", "older"}, messages : SUBSET Row,
            hasMore : BOOLEAN] \subseteq Frames
        /\ [type : {"sync"}, req : {"initial", "next"}, messages : SUBSET Row,
            hasMore : BOOLEAN] \subseteq Frames
        /\ [type : {"sync_complete"}, through : Nat] \subseteq Frames
        /\ [type : {"message"}, req : {"", "send"}, message : Row] \subseteq Frames
        /\ [type : {"ack"}, req : {"send"}, message : Row] \subseteq Frames
        /\ [type : {"recalled"}, req : {"", "recall"}, message : Row, instance : InstanceIDs] \subseteq Frames
        /\ [type : {"history_cleared"}, instance : InstanceIDs] \subseteq Frames
        /\ [type : {"presence"}, users : SUBSET Name] \subseteq Frames
        /\ [type : {"error"}, req : {"join", "send", "recall", "older", "next"}, code : ErrorCodes] \subseteq Frames
    BY ZenonT(60) DEF Frames
  <1>1. ASSUME NEW inst \in InstanceIDs, NEW through \in 0..n, NEW resumed \in BOOLEAN,
               NEW users \in SUBSET Name
        PROVE  Welcome(inst, through, resumed, users) \in SoundFrames(n)
    <2> DEFINE f == Welcome(inst, through, resumed, users)
    <2>1. f \in [type : {"welcome"}, instance : InstanceIDs, through : Nat,
                  resumed : BOOLEAN, users : SUBSET Name]
      BY DEF Welcome
    <2>2. f.type = "welcome" /\ f.through = through
      BY DEF Welcome
    <2> HIDE DEF f
    <2>3. f \in Frames
      BY <1>0, <2>1
    <2>4. Sound(f, n)
      BY <1>1, <2>2 DEF Sound
    <2> QED BY <2>3, <2>4 DEF f, SoundFrames
  <1>2. ASSUME NEW req \in {"initial", "older"}, NEW page \in Pages(n)
        PROVE  PageFrame("history", req, page) \in SoundFrames(n)
    <2> DEFINE f == PageFrame("history", req, page)
    <2>0. page.messages \in SUBSET Row /\ page.hasMore \in BOOLEAN
      BY DEF Pages
    <2>1. f \in [type : {"history"}, req : {"initial", "older"}, messages : SUBSET Row,
                  hasMore : BOOLEAN]
      BY <2>0 DEF PageFrame
    <2>2. f.type = "history" /\ f.messages = page.messages
      BY DEF PageFrame
    <2> HIDE DEF f
    <2>3. f \in Frames
      BY <1>0, <2>1
    <2>4. Sound(f, n)
      BY <2>2 DEF Sound, Pages
    <2> QED BY <2>3, <2>4 DEF f, SoundFrames
  <1>3. ASSUME NEW req \in {"initial", "next"}, NEW page \in Pages(n)
        PROVE  PageFrame("sync", req, page) \in SoundFrames(n)
    <2> DEFINE f == PageFrame("sync", req, page)
    <2>0. page.messages \in SUBSET Row /\ page.hasMore \in BOOLEAN
      BY DEF Pages
    <2>1. f \in [type : {"sync"}, req : {"initial", "next"}, messages : SUBSET Row,
                  hasMore : BOOLEAN]
      BY <2>0 DEF PageFrame
    <2>2. f.type = "sync" /\ f.messages = page.messages
      BY DEF PageFrame
    <2> HIDE DEF f
    <2>3. f \in Frames
      BY <1>0, <2>1
    <2>4. Sound(f, n)
      BY <2>2 DEF Sound, Pages
    <2> QED BY <2>3, <2>4 DEF f, SoundFrames
  <1>4. ASSUME NEW through \in 0..n
        PROVE  SyncComplete(through) \in SoundFrames(n)
    <2> DEFINE f == SyncComplete(through)
    <2>1. f \in [type : {"sync_complete"}, through : Nat]
      BY DEF SyncComplete
    <2>2. f.type = "sync_complete" /\ f.through = through
      BY DEF SyncComplete
    <2> HIDE DEF f
    <2>3. f \in Frames
      BY <1>0, <2>1
    <2>4. Sound(f, n)
      BY <1>4, <2>2 DEF Sound
    <2> QED BY <2>3, <2>4 DEF f, SoundFrames
  <1>5. ASSUME NEW req \in {"", "send"}, NEW m \in Row, m.id <= n
        PROVE  Message(req, m) \in SoundFrames(n)
    <2> DEFINE f == Message(req, m)
    <2>1. f \in [type : {"message"}, req : {"", "send"}, message : Row]
      BY DEF Message
    <2>2. f.type = "message" /\ f.message = m
      BY DEF Message
    <2> HIDE DEF f
    <2>3. f \in Frames
      BY <1>0, <2>1
    <2>4. Sound(f, n)
      BY <1>5, <2>2 DEF Sound
    <2> QED BY <2>3, <2>4 DEF f, SoundFrames
  <1>6. ASSUME NEW m \in Row, m.id <= n
        PROVE  Ack("send", m) \in SoundFrames(n)
    <2> DEFINE f == Ack("send", m)
    <2>1. f \in [type : {"ack"}, req : {"send"}, message : Row]
      BY DEF Ack
    <2>2. f.type = "ack" /\ f.message = m
      BY DEF Ack
    <2> HIDE DEF f
    <2>3. f \in Frames
      BY <1>0, <2>1
    <2>4. Sound(f, n)
      BY <1>6, <2>2 DEF Sound
    <2> QED BY <2>3, <2>4 DEF f, SoundFrames
  <1>7. ASSUME NEW req \in {"", "recall"}, NEW m \in Row, m.id <= n, NEW inst \in InstanceIDs
        PROVE  Recalled(req, m, inst) \in SoundFrames(n)
    <2> DEFINE f == Recalled(req, m, inst)
    <2>1. f \in [type : {"recalled"}, req : {"", "recall"}, message : Row, instance : InstanceIDs]
      BY DEF Recalled
    <2>2. f.type = "recalled" /\ f.message = m
      BY DEF Recalled
    <2> HIDE DEF f
    <2>3. f \in Frames
      BY <1>0, <2>1
    <2>4. Sound(f, n)
      BY <1>7, <2>2 DEF Sound
    <2> QED BY <2>3, <2>4 DEF f, SoundFrames
  <1>8. ASSUME NEW inst \in InstanceIDs
        PROVE  HistoryCleared(inst) \in SoundFrames(n)
    <2> DEFINE f == HistoryCleared(inst)
    <2>1. f \in [type : {"history_cleared"}, instance : InstanceIDs]
      BY DEF HistoryCleared
    <2>2. f.type = "history_cleared"
      BY DEF HistoryCleared
    <2> HIDE DEF f
    <2>3. f \in Frames
      BY <1>0, <2>1
    <2>4. Sound(f, n)
      BY <1>8, <2>2 DEF Sound
    <2> QED BY <2>3, <2>4 DEF f, SoundFrames
  <1>9. ASSUME NEW users \in SUBSET Name
        PROVE  Presence(users) \in SoundFrames(n)
    <2> DEFINE f == Presence(users)
    <2>1. f \in [type : {"presence"}, users : SUBSET Name]
      BY DEF Presence
    <2>2. f.type = "presence"
      BY DEF Presence
    <2> HIDE DEF f
    <2>3. f \in Frames
      BY <1>0, <2>1
    <2>4. Sound(f, n)
      BY <1>9, <2>2 DEF Sound
    <2> QED BY <2>3, <2>4 DEF f, SoundFrames
  <1>10. ASSUME NEW req \in Asked, NEW code \in ErrorCodes
        PROVE  Error(req, code) \in SoundFrames(n)
    <2> DEFINE f == Error(req, code)
    <2>1. f \in [type : {"error"}, req : {"join", "send", "recall", "older", "next"}, code : ErrorCodes]
      BY DEF Error, Asked
    <2>2. f.type = "error"
      BY DEF Error, Asked
    <2> HIDE DEF f
    <2>3. f \in Frames
      BY <1>0, <2>1
    <2>4. Sound(f, n)
      BY <1>10, <2>2 DEF Sound
    <2> QED BY <2>3, <2>4 DEF f, SoundFrames
  <1>11. \A req \in Asked : Failure(req) \in SoundFrames(n)
    BY <1>10 DEF Failure, ErrorCodes
  <1> QED BY <1>1, <1>2, <1>3, <1>4, <1>5, <1>6, <1>7, <1>8, <1>9, <1>10, <1>11

\* t is session s with frames new at the end of its queue, cancelled or not.
Fed(t, s, new) ==
    /\ t.live \in BOOLEAN
    /\ t.live => s.live
    /\ t = [s EXCEPT !.outgoing = s.outgoing \o new, !.live = t.live]

LEMMA FedTyped ==
    ASSUME NEW n \in Nat, NEW s \in SessionsOf(n), NEW new \in Seq(SoundFrames(n)),
           NEW t, Fed(t, s, new)
    PROVE  /\ t \in SessionsOf(n) /\ Grows(t, s) /\ t.deferred = s.deferred
           /\ t.outgoing = s.outgoing \o new
           /\ \A k \in DOMAIN t.outgoing : k \notin DOMAIN s.outgoing
                 => \E l \in DOMAIN new : t.outgoing[k] = new[l]
  <1> DEFINE G   == SoundFrames(n)
             all == s.outgoing \o new
  <1>1. /\ s \in Sessions /\ s.phase = "serving" /\ s.outgoing \in Seq(G) /\ s.deferred \in Seq(G)
        /\ s.through <= n /\ G \subseteq Frames /\ new \in Seq(G)
    BY DEF SessionsOf, Sessions, SoundFrames
  <1> HIDE DEF G
  <1>2. all \in Seq(G) /\ all \in Seq(Frames)
    BY <1>1, SeqMonotonic, ConcatProperties
  <1>3. /\ DOMAIN all = 1 .. (Len(s.outgoing) + Len(new))
        /\ DOMAIN s.outgoing = 1 .. Len(s.outgoing) /\ DOMAIN new = 1 .. Len(new)
        /\ Len(s.outgoing) \in Nat /\ Len(new) \in Nat
    BY <1>1, <1>2, ConcatProperties, LenProperties
  <1>4. \A k \in DOMAIN s.outgoing : k \in DOMAIN all /\ all[k] = s.outgoing[k]
    BY <1>1, <1>3, ConcatProperties
  <1>5. ASSUME NEW k \in DOMAIN all, k \notin DOMAIN s.outgoing
        PROVE  \E l \in DOMAIN new : all[k] = new[l]
    <2>1. k - Len(s.outgoing) \in DOMAIN new
      BY <1>3, <1>5
    <2>2. all[k] = new[k - Len(s.outgoing)]
      BY <1>1, <1>3, <1>5, ConcatProperties
    <2> QED BY <2>1, <2>2
  <1> HIDE DEF all
  <1>6. t = [s EXCEPT !.outgoing = all, !.live = t.live]
    BY DEF Fed, all
  <1>7. /\ t.phase = s.phase /\ t.room = s.room /\ t.name = s.name
        /\ t.owner = s.owner /\ t.syncing = s.syncing /\ t.through = s.through
        /\ t.cursor = s.cursor /\ t.deferred = s.deferred /\ t.outgoing = all
    BY <1>1, <1>6 DEF Sessions
  <1>8. t \in Sessions
    BY <1>1, <1>2, <1>6 DEF Sessions, Fed
  <1>9. t \in SessionsOf(n)
    BY <1>1, <1>2, <1>7, <1>8 DEF SessionsOf, G
  <1>10. Grows(t, s)
    BY <1>1, <1>4, <1>7 DEF Grows, Fed
  <1> QED BY <1>5, <1>7, <1>9, <1>10 DEF all

LEMMA EnqueueTyped ==
    ASSUME NEW n \in Nat, NEW s \in SessionsOf(n), NEW frames \in Seq(SoundFrames(n))
    PROVE  LET t == EnqueueAll(s, frames)
           IN  /\ t \in SessionsOf(n) /\ Grows(t, s) /\ t.deferred = s.deferred
               /\ t.live => t.outgoing = s.outgoing \o frames
               /\ \A k \in DOMAIN t.outgoing : k \notin DOMAIN s.outgoing
                     => \E l \in DOMAIN frames : t.outgoing[k] = frames[l]
  <1> DEFINE G     == SoundFrames(n)
             space == QueueCap - Len(s.outgoing)
             part  == SubSeq(frames, 1, space)
             t     == EnqueueAll(s, frames)
  <1>1. s \in Sessions /\ s.outgoing \in Seq(G) /\ s.phase = "serving" /\ s.live \in BOOLEAN
    BY DEF SessionsOf, Sessions
  <1> HIDE DEF G
  <1>2. space \in Int /\ Len(frames) \in Nat
    BY <1>1, CapAssumption DEF G
  <1> HIDE DEF space
  <1>3. CASE ~s.live
    <2>1. t = s
      BY <1>3 DEF EnqueueAll
    <2>2. Grows(s, s)
      BY <1>1 DEF Grows
    <2> HIDE DEF t
    <2>3. t \in SessionsOf(n) /\ Grows(t, s) /\ t.deferred = s.deferred /\ ~t.live
      BY <1>3, <2>1, <2>2
    <2>4. \A k \in DOMAIN t.outgoing : k \in DOMAIN s.outgoing
      BY <2>1
    <2> QED BY <2>3, <2>4 DEF t
  <1>4. CASE s.live /\ Len(frames) <= space
    <2>1. t = [s EXCEPT !.outgoing = s.outgoing \o frames]
      BY <1>4 DEF EnqueueAll, space
    <2> HIDE DEF t
    <2>2. Fed(t, s, frames)
      BY <1>1, <1>4, <2>1 DEF Sessions, Fed
    <2> QED BY <2>2, FedTyped DEF t
  <1>5. CASE s.live /\ ~(Len(frames) <= space)
    <2>1. t = [s EXCEPT !.outgoing = s.outgoing \o part, !.live = FALSE]
      BY <1>5 DEF EnqueueAll, space
    <2> HIDE DEF t
    <2>2. \A i \in 1 .. space : i \in 1 .. Len(frames) /\ frames[i] \in G
      BY <1>2, <1>5, ElementOfSeq DEF G
    <2>3. part \in Seq(G) /\ \A l \in DOMAIN part : l \in DOMAIN frames /\ part[l] = frames[l]
      <3>1. part \in Seq(G) /\ Len(part) = IF 1 <= space THEN space - 1 + 1 ELSE 0
        BY <1>2, <2>2, SubSeqProperties
      <3>2. DOMAIN part \subseteq 1 .. space
        BY <1>2, <3>1, LenProperties
      <3>3. \A l \in 1 .. space : part[l] = frames[l]
        BY <1>2, <1>5, <2>2
      <3>4. DOMAIN frames = 1 .. Len(frames)
        BY LenProperties DEF G
      <3> QED BY <2>2, <3>1, <3>2, <3>3, <3>4
    <2> HIDE DEF part
    <2>4. Fed(t, s, part) /\ ~t.live
      BY <1>1, <2>1 DEF Sessions, Fed
    <2>5. /\ t \in SessionsOf(n) /\ Grows(t, s) /\ t.deferred = s.deferred
          /\ \A k \in DOMAIN t.outgoing : k \notin DOMAIN s.outgoing
                => \E l \in DOMAIN part : t.outgoing[k] = part[l]
      BY <2>3, <2>4, FedTyped DEF G
    <2>6. \A k \in DOMAIN t.outgoing : k \notin DOMAIN s.outgoing
             => \E l \in DOMAIN frames : t.outgoing[k] = frames[l]
      BY <2>3, <2>5
    <2> QED BY <2>4, <2>5, <2>6 DEF t
  <1> QED BY <1>1, <1>3, <1>4, <1>5
LEMMA EnqueueOne ==
    ASSUME NEW n \in Nat, NEW s \in SessionsOf(n), NEW f \in SoundFrames(n)
    PROVE  LET t == Enqueue(s, f)
           IN  /\ t \in SessionsOf(n) /\ Grows(t, s) /\ t.deferred = s.deferred
               /\ t.live => t.outgoing = s.outgoing \o <<f>>
               /\ Says(t, f)
               /\ \A k \in DOMAIN t.outgoing : k \notin DOMAIN s.outgoing => t.outgoing[k] = f
  <1> DEFINE G == SoundFrames(n)
             t == Enqueue(s, f)
  <1>1. <<f>> \in Seq(G) /\ DOMAIN <<f>> = {1} /\ <<f>>[1] = f /\ Len(<<f>>) = 1
    OBVIOUS
  <1>2. s.outgoing \in Seq(G)
    BY DEF SessionsOf
  <1>3. /\ t \in SessionsOf(n) /\ Grows(t, s) /\ t.deferred = s.deferred
        /\ t.live => t.outgoing = s.outgoing \o <<f>>
        /\ \A k \in DOMAIN t.outgoing : k \notin DOMAIN s.outgoing
              => \E l \in DOMAIN <<f>> : t.outgoing[k] = <<f>>[l]
    BY <1>1, EnqueueTyped DEF Enqueue
  <1> HIDE DEF G, t
  <1>4. /\ Len(s.outgoing) \in Nat
        /\ Len(s.outgoing) + 1 \in DOMAIN (s.outgoing \o <<f>>)
        /\ (s.outgoing \o <<f>>)[Len(s.outgoing) + 1] = f
    BY <1>1, <1>2, ConcatProperties, LenProperties
  <1>5. Says(t, f)
    BY <1>3, <1>4 DEF Says
  <1>6. \A k \in DOMAIN t.outgoing : k \notin DOMAIN s.outgoing => t.outgoing[k] = f
    BY <1>1, <1>3
  <1> QED BY <1>3, <1>5, <1>6 DEF t

LEMMA DeliverTyped ==
    ASSUME NEW n \in Nat, NEW s \in SessionsOf(n), NEW f \in SoundFrames(n)
    PROVE  LET t == Deliver(s, f)
           IN  /\ t \in SessionsOf(n) /\ Told(t, s)
               /\ ~s.syncing => t = Enqueue(s, f)
  <1> DEFINE t == Deliver(s, f)
  <1>1. /\ s \in Sessions /\ s.phase = "serving" /\ s.deferred \in Seq(SoundFrames(n))
        /\ s.outgoing \in Seq(SoundFrames(n)) /\ s.through <= n
    BY DEF SessionsOf, Sessions
  <1>2. CASE ~s.syncing
    <2>1. t = Enqueue(s, f)
      BY <1>2 DEF Deliver
    <2>2. t \in SessionsOf(n) /\ Grows(t, s)
      BY ZenonT(30), <2>1, EnqueueOne
    <2> QED BY <1>2, <2>1, <2>2 DEF Told
  <1>3. CASE s.syncing
    <2>1. PICK v \in BOOLEAN, d \in Seq(SoundFrames(n)) :
            (v => s.live) /\ t = [s EXCEPT !.live = v, !.deferred = d]
      <3>1. CASE Len(s.deferred) >= DeferCap
        <4>1. t = [s EXCEPT !.live = FALSE, !.deferred = s.deferred]
          BY <1>1, <1>3, <3>1 DEF Deliver, Sessions
        <4> QED BY <1>1, <4>1
      <3>2. CASE ~(Len(s.deferred) >= DeferCap)
        <4>1. t = [s EXCEPT !.live = s.live, !.deferred = Append(s.deferred, f)]
          BY <1>1, <1>3, <3>2 DEF Deliver, Sessions
        <4>2. Append(s.deferred, f) \in Seq(SoundFrames(n)) /\ s.live \in BOOLEAN
          BY <1>1, AppendProperties DEF Sessions
        <4> QED BY <4>1, <4>2
      <3> QED BY <3>1, <3>2
    <2> HIDE DEF t
    <2>2. /\ t.phase = s.phase /\ t.room = s.room /\ t.name = s.name
          /\ t.owner = s.owner /\ t.syncing = s.syncing /\ t.through = s.through
          /\ t.cursor = s.cursor /\ t.live = v /\ t.deferred = d /\ t.outgoing = s.outgoing
      BY <1>1, <2>1 DEF Sessions
    <2>3. d \in Seq(Frames)
      BY SeqMonotonic DEF SoundFrames
    <2>4. t \in Sessions
      BY <1>1, <2>1, <2>3 DEF Sessions
    <2>5. t \in SessionsOf(n)
      BY <1>1, <2>2, <2>4 DEF SessionsOf
    <2>6. Told(t, s)
      BY <1>1, <2>1, <2>2 DEF Told, Grows
    <2> QED BY <1>3, <2>5, <2>6 DEF t
  <1> QED BY <1>1, <1>2, <1>3 DEF Sessions

LEMMA FinishTyped ==
    ASSUME NEW n \in Nat, NEW s \in SessionsOf(n)
    PROVE  LET t == FinishSync(s)
           IN  /\ t \in SessionsOf(n)
               /\ ~t.syncing /\ t.deferred = <<>>
               /\ t.live => s.live
               /\ t.room = s.room /\ t.name = s.name /\ t.owner = s.owner
               /\ t.through = s.through /\ t.cursor = s.cursor
               /\ \A k \in DOMAIN s.outgoing : k \in DOMAIN t.outgoing /\ t.outgoing[k] = s.outgoing[k]
               /\ t.live => t.outgoing = s.outgoing \o (<<SyncComplete(s.through)>> \o s.deferred)
               /\ Says(t, SyncComplete(s.through))
  <1> DEFINE G == SoundFrames(n)
             f == SyncComplete(s.through)
             new == <<f>> \o s.deferred
             e == EnqueueAll(s, new)
             t == FinishSync(s)
  <1>1. /\ s \in Sessions /\ s.phase = "serving" /\ s.deferred \in Seq(G)
        /\ s.outgoing \in Seq(G) /\ s.through \in 0 .. n
    BY DEF SessionsOf, Sessions
  <1>2. f \in G
    BY <1>1, FramesTyped
  <1> HIDE DEF f, G
  <1>3. <<f>> \in Seq(G) /\ DOMAIN <<f>> = {1} /\ <<f>>[1] = f /\ Len(<<f>>) = 1
    BY <1>2
  <1>4. new \in Seq(G) /\ 1 \in DOMAIN new /\ new[1] = f
    BY <1>1, <1>3, ConcatProperties, LenProperties
  <1>5. t = [e EXCEPT !.syncing = FALSE, !.deferred = <<>>]
    BY DEF FinishSync, f
  <1> HIDE DEF new
  <1>6. /\ e \in SessionsOf(n) /\ Grows(e, s) /\ (e.live => e.outgoing = s.outgoing \o new)
    BY <1>4, EnqueueTyped DEF G
  <1> HIDE DEF e, t
  <1>7. /\ t.phase = e.phase /\ t.room = e.room /\ t.name = e.name /\ t.owner = e.owner
        /\ t.syncing = FALSE /\ t.through = e.through /\ t.cursor = e.cursor
        /\ t.live = e.live /\ t.deferred = <<>> /\ t.outgoing = e.outgoing
    BY <1>5, <1>6 DEF SessionsOf, Sessions
  <1>e. <<>> \in Seq(Frames) /\ <<>> \in Seq(G)
    BY EmptySeq
  <1>8. t \in Sessions
    BY <1>5, <1>6, <1>e DEF SessionsOf, Sessions
  <1>9. t \in SessionsOf(n)
    BY <1>6, <1>7, <1>8, <1>e DEF SessionsOf, G
  <1>10. s.outgoing \o new \in Seq(G) /\ Len(s.outgoing) + 1 \in DOMAIN (s.outgoing \o new)
         /\ (s.outgoing \o new)[Len(s.outgoing) + 1] = f
    BY <1>1, <1>4, ConcatProperties, LenProperties
  <1>11. Says(t, f)
    BY <1>6, <1>7, <1>10 DEF Says
  <1> QED BY <1>6, <1>7, <1>9, <1>11 DEF Grows, t, f, new
\* Ids are handed out in ascending order.
RowsDrawn == \A m \in db.rows : m.id <= db.last

LEMMA InstanceTyped ==
    ASSUME NEW d \in Databases, NEW r \in Room
    PROVE  InstanceID(d, r) \in InstanceIDs
  BY DEF InstanceID, InstanceIDs, Databases

LEMMA LatestTyped ==
    ASSUME db \in Databases, RowsDrawn, NEW r \in Room
    PROVE  /\ LatestID(db, r) \in 0 .. db.last
           /\ \A m \in RoomRows(db, r) : m.id <= LatestID(db, r)
  <1> DEFINE S == Ids(RoomRows(db, r))
  <1>1. S \in SUBSET Nat /\ \A x \in S : x <= db.last
    BY DEF Ids, RoomRows, Databases, Row, RowsDrawn
  <1>2. db.last \in Nat /\ (S # {} <=> RoomRows(db, r) # {})
    BY DEF Databases, Ids
  <1>3. \A m \in RoomRows(db, r) : m.id \in S
    BY DEF Ids
  <1>4. CASE S = {}
    <2>1. LatestID(db, r) = 0
      BY <1>2, <1>4 DEF LatestID
    <2> QED BY <1>2, <1>3, <1>4, <2>1
  <1>5. CASE S # {}
    <2>1. LatestID(db, r) = Max(S)
      BY <1>2, <1>5 DEF LatestID
    <2> HIDE DEF S
    <2>2. Max(S) \in S /\ \A x \in S : x <= Max(S)
      BY <1>1, <1>2, <1>5, MaxOf
    <2>3. Max(S) \in Nat /\ Max(S) <= db.last
      BY <1>1, <2>2
    <2>4. LatestID(db, r) \in 0 .. db.last
      BY <1>2, <2>1, <2>3
    <2>5. \A m \in RoomRows(db, r) : m.id <= LatestID(db, r)
      BY <1>3, <2>1, <2>2
    <2> QED BY <2>4, <2>5
  <1> QED BY <1>4, <1>5

LEMMA PageTyped ==
    ASSUME db \in Databases, RowsDrawn, NEW r \in Room,
           NEW before, NEW after, NEW through
    PROVE  LET page == Page(db, r, before, after, through)
           IN  /\ page \in Pages(db.last)
               /\ page.messages \subseteq RoomRows(db, r)
               /\ \A m \in page.messages :
                     /\ m.id <= through
                     /\ before > 0 => m.id < before
                     /\ (after > 0 \/ before < 0) => m.id > after
  <1> DEFINE page == Page(db, r, before, after, through)
             ascending == after > 0 \/ before < 0
             range == {m \in RoomRows(db, r) :
                          /\ m.id <= through
                          /\ before > 0 => m.id < before
                          /\ ascending => m.id > after}
  <1>1. page = [messages |-> IF ascending THEN Lowest(range, PageSize) ELSE Highest(range, PageSize),
                hasMore |-> Cardinality(range) > PageSize]
    BY DEF Page
  <1>2. \A S, k : Lowest(S, k) \subseteq S /\ Highest(S, k) \subseteq S
    BY DEF Lowest, Highest
  <1>3. page.messages \subseteq range /\ page.hasMore \in BOOLEAN
        /\ page = [messages |-> page.messages, hasMore |-> page.hasMore]
    BY <1>1, <1>2
  <1>4. range \subseteq RoomRows(db, r) /\ RoomRows(db, r) \subseteq db.rows /\ db.rows \subseteq Row
    BY DEF RoomRows, Databases
  <1> HIDE DEF page
  <1>5. page.messages \in SUBSET Row /\ \A m \in page.messages : m.id <= db.last
    BY <1>3, <1>4 DEF RowsDrawn
  <1>6. page \in Pages(db.last)
    BY <1>3, <1>5 DEF Pages
  <1> QED BY <1>3, <1>4, <1>6 DEF page

LEMMA AdvanceTyped ==
    ASSUME NEW n \in Nat, NEW page \in Pages(n), NEW cursor \in Nat
    PROVE  Advance(cursor, page) \in Nat
  <1> DEFINE S == Ids(page.messages)
  <1>1. S \in SUBSET Nat /\ (\A x \in S : x <= n) /\ (page.messages # {} => S # {})
    BY DEF Ids, Pages, Row
  <1> HIDE DEF S
  <1>2. S # {} => Max(S) \in Nat
    BY <1>1, MaxOf
  <1> QED BY <1>1, <1>2 DEF Advance, S

LEMMA UsersTyped ==
    ASSUME NEW map, DOMAIN map \subseteq Room \X Name, NEW r
    PROVE  Users(map, r) \in SUBSET Name
  BY DEF Users

LEMMA Phases ==
    ASSUME NEW n \in Nat, NEW s \in ConnsOf(n)
    PROVE  /\ s.live \in BOOLEAN
           /\ Formed(s)
           /\ s.phase \in {"free", "reading", "refused", "serving"}
           /\ s.phase = "serving" <=> s \in SessionsOf(n)
           /\ s.phase = "free" => s = Free
           /\ s.phase = "refused" => /\ DOMAIN s.outgoing = {1}
                                      /\ s.outgoing[1].type = "error" /\ s.outgoing[1].req = "join"
  <1>1. CASE s = Free
    BY <1>1 DEF Free, SessionsOf, Sessions, Formed
  <1>2. CASE s \in [phase : {"reading"}, live : BOOLEAN]
    BY <1>2 DEF SessionsOf, Sessions, Formed
  <1>3. ASSUME NEW live \in BOOLEAN, NEW code \in ErrorCodes, s = Refused(live, code)
        PROVE  /\ s.live \in BOOLEAN /\ Formed(s) /\ s.phase = "refused"
               /\ s \notin SessionsOf(n) /\ DOMAIN s.outgoing = {1}
               /\ s.outgoing[1].type = "error" /\ s.outgoing[1].req = "join"
    BY <1>3 DEF Refused, SessionsOf, Sessions, Formed, Error
  <1>4. CASE s \in SessionsOf(n)
    BY <1>4 DEF SessionsOf, Sessions, Formed
  <1> QED BY <1>1, <1>2, <1>3, <1>4 DEF ConnsOf

LEMMA ToldTransitive ==
    ASSUME NEW s, NEW t, NEW u, Told(t, s), Told(u, t)
    PROVE  Told(u, s)
  BY DEF Told, Grows

LEMMA ToldAlike ==
    ASSUME NEW s, NEW t, Told(t, s), Formed(s), Formed(t)
    PROVE  Alike(t, s)
  BY DEF Told, Grows, Alike

LEMMA TellTyped ==
    ASSUME NEW n \in Nat, NEW cs, NEW map, DOMAIN map \subseteq Room \X Name,
           NEW c \in Conn, cs[c] \in ConnsOf(n),
           c \in Registered(map) => cs[c].phase = "serving"
    PROVE  /\ TellPresence(cs, map)[c] \in ConnsOf(n)
           /\ Told(TellPresence(cs, map)[c], cs[c])
  <1>1. Presence(Users(map, cs[c].room)) \in SoundFrames(n)
    BY UsersTyped, FramesTyped
  <1>2. CASE c \in Registered(map)
    <2>1. TellPresence(cs, map)[c] = Deliver(cs[c], Presence(Users(map, cs[c].room)))
      BY <1>2 DEF TellPresence
    <2>2. cs[c] \in SessionsOf(n)
      BY <1>2, Phases
    <2> QED BY <1>1, <2>1, <2>2, DeliverTyped DEF ConnsOf
  <1>3. CASE c \notin Registered(map)
    BY <1>3 DEF TellPresence, Told
  <1> QED BY <1>2, <1>3

LEMMA BroadcastTyped ==
    ASSUME NEW n \in Nat, NEW c \in Conn, conns[c] \in ConnsOf(n),
           c \in Registered(sessions) => conns[c].phase = "serving",
           NEW r, NEW asker, NEW frame \in SoundFrames(n), NEW answer \in SoundFrames(n)
    PROVE  LET told == Broadcast(conns, sessions, r, frame, asker, answer)
           IN  /\ told[c] \in ConnsOf(n)
               /\ Told(told[c], conns[c])
               /\ (c = asker /\ c \in Registered(sessions) /\ conns[c].room = r /\ ~conns[c].syncing)
                  => Says(told[c], answer)
  <1> DEFINE told == Broadcast(conns, sessions, r, frame, asker, answer)
             f == IF c = asker THEN answer ELSE frame
  <1>1. f \in SoundFrames(n)
    OBVIOUS
  <1>2. CASE c \in InRoom(conns, sessions, r)
    <2>1. told[c] = Deliver(conns[c], f)
      BY <1>2 DEF Broadcast
    <2>2. conns[c] \in SessionsOf(n)
      BY <1>2, Phases DEF InRoom
    <2> HIDE DEF f
    <2>3. /\ told[c] \in SessionsOf(n) /\ Told(told[c], conns[c])
          /\ ~conns[c].syncing => told[c] = Enqueue(conns[c], f)
      BY <1>1, <2>1, <2>2, DeliverTyped
    <2>4. Says(Enqueue(conns[c], f), f)
      BY <1>1, <2>2, EnqueueOne
    <2> HIDE DEF told
    <2>5. c = asker => f = answer
      BY DEF f
    <2> QED BY <2>3, <2>4, <2>5 DEF ConnsOf, told
  <1>3. CASE c \notin InRoom(conns, sessions, r)
    BY <1>3 DEF Broadcast, Told, InRoom
  <1> QED BY <1>2, <1>3

-----------------------------------------------------------------------------
(* A new session                                                          *)

LEMMA ThreeFrames ==
    ASSUME NEW a, NEW b, NEW c
    PROVE  <<a, b>> \o <<c>> = <<a, b, c>>
  <1> DEFINE S == {a, b, c}
  <1>1. <<a, b>> \in Seq(S) /\ <<c>> \in Seq(S) /\ <<a, b, c>> \in Seq(S)
    OBVIOUS
  <1>2. Len(<<a, b>>) = 2 /\ Len(<<c>>) = 1 /\ Len(<<a, b, c>>) = 3
    OBVIOUS
  <1>3. <<a, b>>[1] = a /\ <<a, b>>[2] = b /\ <<c>>[1] = c
        /\ <<a, b, c>>[1] = a /\ <<a, b, c>>[2] = b /\ <<a, b, c>>[3] = c
    OBVIOUS
  <1> HIDE DEF S
  <1>4. /\ <<a, b>> \o <<c>> \in Seq(S) /\ Len(<<a, b>> \o <<c>>) = 3
        /\ \A i \in 1 .. 3 : (<<a, b>> \o <<c>>)[i] = IF i <= 2 THEN <<a, b>>[i] ELSE <<c>>[i - 2]
    BY <1>1, <1>2, ConcatProperties
  <1>5. \A i \in 1 .. 3 : (<<a, b>> \o <<c>>)[i] = <<a, b, c>>[i]
    BY <1>3, <1>4
  <1> QED BY <1>1, <1>2, <1>4, <1>5, SeqEqual

\* What a client that joins is told first.
FirstPage(r, inst, after) ==
    IF inst = InstanceID(db, r) THEN Page(db, r, -1, after, LatestID(db, r))
                                ELSE Page(db, r, 0, 0, LatestID(db, r))

Greeting(r, n, inst) ==
    Welcome(InstanceID(db, r), LatestID(db, r), inst = InstanceID(db, r),
            Users(sessions, r) \cup {n})

FirstFrame(r, inst, after) ==
    PageFrame(IF inst = InstanceID(db, r) THEN "sync" ELSE "history", "initial",
              FirstPage(r, inst, after))

\* s is the session of a client that has just joined.
Fresh(s, r, n, o, inst, after) ==
    /\ s \in SessionsOf(db.last)
    /\ s.room = r /\ s.name = n /\ s.owner = o /\ s.deferred = <<>>
    /\ s.syncing <=> (inst = InstanceID(db, r) /\ FirstPage(r, inst, after).hasMore)
    /\ (s.live /\ s.syncing) =>
          /\ s.outgoing = <<Greeting(r, n, inst), FirstFrame(r, inst, after)>>
          /\ s.cursor = Advance(after, FirstPage(r, inst, after))
          /\ s.through = LatestID(db, r)
    /\ (s.live /\ ~s.syncing) =>
          s.outgoing = <<Greeting(r, n, inst), FirstFrame(r, inst, after),
                         SyncComplete(LatestID(db, r))>>

LEMMA NewSessionFresh ==
    ASSUME db \in Databases, RowsDrawn, DOMAIN sessions \subseteq Room \X Name,
           NEW r \in Room, NEW n \in Name, NEW o \in Owner, NEW inst, NEW after \in Nat
    PROVE  Fresh(NewSession(r, n, o, inst, after), r, n, o, inst, after)
  <1> DEFINE s       == NewSession(r, n, o, inst, after)
             G       == SoundFrames(db.last)
             latest  == LatestID(db, r)
             resumed == inst = InstanceID(db, r)
             page    == IF resumed THEN Page(db, r, -1, after, latest)
                                   ELSE Page(db, r, 0, 0, latest)
             users   == Users(sessions, r) \cup {n}
             type    == IF resumed THEN "sync" ELSE "history"
             first   == Welcome(InstanceID(db, r), latest, resumed, users)
             second  == PageFrame(type, "initial", page)
             cursor  == IF resumed THEN Advance(after, page) ELSE 0
             blank   == [phase |-> "serving", live |-> TRUE, room |-> r, name |-> n,
                         owner |-> o, syncing |-> resumed, through |-> latest,
                         cursor |-> cursor, deferred |-> <<>>, outgoing |-> <<>>]
             greeted == EnqueueAll(blank, <<first, second>>)
  <1>1. db.last \in Nat /\ latest \in 0 .. db.last /\ users \in SUBSET Name
        /\ InstanceID(db, r) \in InstanceIDs /\ resumed \in BOOLEAN
    BY LatestTyped, UsersTyped, InstanceTyped DEF Databases
  <1>2. page \in Pages(db.last)
    BY PageTyped
  <1>3. s = IF resumed /\ page.hasMore THEN greeted ELSE FinishSync(greeted)
    BY DEF NewSession
  <1> HIDE DEF latest, resumed, page, users
  <1>4. first \in G
    BY <1>1, FramesTyped
  <1>5. second \in G
    BY <1>1, <1>2, FramesTyped
  <1>6. cursor \in Nat
    BY <1>1, <1>2, AdvanceTyped
  <1> HIDE DEF first, second, cursor
  <1>7. <<>> \in Seq(Frames) /\ <<>> \in Seq(G)
    BY EmptySeq
  <1>8. blank \in SessionsOf(db.last)
    <2>1. blank \in Sessions
      BY <1>1, <1>6, <1>7 DEF Sessions
    <2>2. blank.outgoing = <<>> /\ blank.deferred = <<>> /\ blank.through = latest
      OBVIOUS
    <2> HIDE DEF blank
    <2>3. blank.outgoing \in Seq(G) /\ blank.deferred \in Seq(G)
      BY <1>7, <2>2
    <2>4. blank.through <= db.last
      BY <1>1, <2>2
    <2> QED BY <2>1, <2>3, <2>4 DEF SessionsOf
  <1>9. blank.live /\ blank.room = r /\ blank.name = n /\ blank.owner = o /\ blank.syncing = resumed
        /\ blank.through = latest /\ blank.cursor = cursor /\ blank.outgoing = <<>>
        /\ blank.deferred = <<>>
    OBVIOUS
  <1>10. <<first, second>> \in Seq(G)
    BY <1>4, <1>5
  <1> HIDE DEF blank, G
  <1>11. /\ greeted \in SessionsOf(db.last) /\ Grows(greeted, blank)
         /\ greeted.deferred = blank.deferred
         /\ greeted.live => greeted.outgoing = blank.outgoing \o <<first, second>>
    BY <1>1, <1>8, <1>10, EnqueueTyped DEF G
  <1>12. <<>> \o <<first, second>> = <<first, second>>
    BY <1>10, ConcatEmptySeq
  <1> HIDE DEF greeted, s
  <1>15. /\ latest = LatestID(db, r) /\ (resumed <=> inst = InstanceID(db, r))
         /\ page = FirstPage(r, inst, after)
         /\ first = Greeting(r, n, inst) /\ second = FirstFrame(r, inst, after)
    BY DEF latest, resumed, page, first, second, users, FirstPage, Greeting, FirstFrame
  <1>13. CASE resumed /\ page.hasMore
    <2>1. s = greeted
      BY <1>3, <1>13
    <2>2. s.syncing /\ s.through = latest /\ s.cursor = Advance(after, page)
          /\ s.room = r /\ s.name = n /\ s.owner = o /\ s.deferred = <<>>
      BY <1>9, <1>11, <1>13, <2>1 DEF Grows, cursor
    <2>3. s.live => s.outgoing = <<first, second>>
      BY <1>9, <1>11, <1>12, <2>1
    <2> QED BY <1>11, <1>13, <1>15, <2>1, <2>2, <2>3 DEF s, Fresh
  <1>14. CASE ~(resumed /\ page.hasMore)
    <2>1. s = FinishSync(greeted)
      BY <1>3, <1>14
    <2>2. /\ s \in SessionsOf(db.last) /\ ~s.syncing /\ s.deferred = <<>>
          /\ s.live => greeted.live
          /\ s.room = greeted.room /\ s.name = greeted.name /\ s.owner = greeted.owner
          /\ s.live => s.outgoing = greeted.outgoing
                                    \o (<<SyncComplete(greeted.through)>> \o greeted.deferred)
      BY <1>1, <1>11, <2>1, FinishTyped
    <2>3. s.room = r /\ s.name = n /\ s.owner = o /\ greeted.through = latest
      BY <1>9, <1>11, <2>2 DEF Grows
    <2>4. <<SyncComplete(latest)>> \o <<>> = <<SyncComplete(latest)>>
      <3>1. <<SyncComplete(latest)>> \in Seq({SyncComplete(latest)})
        OBVIOUS
      <3> QED BY <3>1, ConcatEmptySeq
    <2>5. <<first, second>> \o <<SyncComplete(latest)>> = <<first, second, SyncComplete(latest)>>
      BY ThreeFrames
    <2>6. s.live => s.outgoing = <<first, second, SyncComplete(latest)>>
      BY <1>9, <1>11, <1>12, <2>2, <2>3, <2>4, <2>5
    <2> QED BY <1>14, <1>15, <2>2, <2>3, <2>6 DEF s, Fresh
  <1> QED BY <1>13, <1>14

-----------------------------------------------------------------------------
(* The invariant, and steps that concern one connection                   *)

\* A session that the server has not given up.
Active(s) == s.live /\ s.phase = "serving"

\* A cleanup follows place j of stream G.
Overtaken(G, j) == \E k \in DOMAIN G : k > j /\ G[k].type = "history_cleared"

ServerInv ==
    /\ db \in Databases
    /\ RowsDrawn
    /\ horizon \in Nat
    /\ closed \in BOOLEAN
    /\ conns \in [Conn -> ConnsOf(db.last)]
    /\ SessionInv

\* What a step of connection c does to the others is to tell them news.
Others(c) == \A d \in Conn \ {c} : Told(conns'[d], conns[d])

LEMMA Grown ==
    ASSUME NEW n \in Nat, NEW k \in Nat, n <= k
    PROVE  /\ SoundFrames(n) \subseteq SoundFrames(k)
           /\ SessionsOf(n) \subseteq SessionsOf(k)
           /\ ConnsOf(n) \subseteq ConnsOf(k)
  <1>1. ASSUME NEW f \in SoundFrames(n) PROVE f \in SoundFrames(k)
    <2>1. f \in Frames /\ Sound(f, n)
      BY DEF SoundFrames
    <2>2. f.type \in {"welcome", "sync_complete"} => f.through \in Nat
      BY <2>1 DEF Frames
    <2>3. f.type \in {"sync", "history"} => \A m \in f.messages : m.id \in Nat
      BY <2>1 DEF Frames, Row
    <2>4. f.type \in {"message", "ack", "recalled"} => f.message.id \in Nat
      BY <2>1 DEF Frames, Row
    <2>5. Sound(f, k)
      BY <2>1, <2>2, <2>3, <2>4 DEF Sound
    <2> QED BY <2>1, <2>5 DEF SoundFrames
  <1>2. ASSUME NEW s \in SessionsOf(n) PROVE s \in SessionsOf(k)
    <2>1. s.outgoing \in Seq(SoundFrames(k)) /\ s.deferred \in Seq(SoundFrames(k))
      BY <1>1, SeqMonotonic DEF SessionsOf
    <2> QED BY <2>1 DEF SessionsOf, Sessions
  <1> QED BY <1>1, <1>2 DEF ConnsOf

LEMMA InMap ==
    ASSUME ServerInv, NEW c \in Conn
    PROVE  /\ c \in Registered(sessions) <=> conns[c].phase = "serving"
           /\ c \in Registered(sessions) <=> conns[c] \in SessionsOf(db.last)
           /\ db.last \in Nat
  <1>1. c \in Registered(sessions) <=> conns[c].phase = "serving"
    BY DEF ServerInv, SessionInv, NamesExclusive, Serving
  <1>2. db.last \in Nat /\ conns[c] \in ConnsOf(db.last)
    BY DEF ServerInv, Databases
  <1> QED BY <1>1, <1>2, Phases

\* A step that changes no database and no connection in kind.
LEMMA NewsKeeps ==
    ASSUME ServerInv, db' \in Databases, RowsDrawn', horizon' \in Nat, closed' \in BOOLEAN,
           sessions' = sessions, conns' = [c \in Conn |-> conns'[c]],
           \A c \in Conn : conns'[c] \in ConnsOf(db'.last) /\ Alike(conns'[c], conns[c])
    PROVE  ServerInv'
  <1>1. SessionInv'
    BY AlikeKeeps DEF ServerInv
  <1>2. conns' \in [Conn -> ConnsOf(db'.last)]
    OBVIOUS
  <1>3. ConnsOf(db'.last) = ConnsOf(db.last)'
    BY DEF ConnsOf, SessionsOf, SoundFrames, Sound
  <1> QED BY <1>1, <1>2, <1>3 DEF ServerInv

\* One connection becomes s, nothing else changes.
LEMMA OneKeeps ==
    ASSUME ServerInv, db' \in Databases, db'.rows = db.rows, db'.last = db.last,
           UNCHANGED <<horizon, closed, sessions>>,
           NEW c \in Conn, NEW s \in ConnsOf(db.last), conns' = [conns EXCEPT ![c] = s],
           s.phase = "serving" <=> conns[c].phase = "serving",
           s.phase = "serving" => s.room = conns[c].room /\ s.name = conns[c].name
    PROVE  ServerInv' /\ Others(c) /\ conns'[c] = s
  <1>1. conns' = [d \in Conn |-> IF d = c THEN s ELSE conns[d]]
    BY DEF ServerInv
  <1>2. \A d \in Conn : Formed(conns'[d])
    BY <1>1, Phases DEF ServerInv, Databases
  <1>3. SessionInv'
    BY <1>1, <1>2, Stays DEF ServerInv
  <1>4. conns' \in [Conn -> ConnsOf(db.last)]
    BY <1>1 DEF ServerInv
  <1>5. ConnsOf(db.last)' = ConnsOf(db.last) /\ RowsDrawn'
    BY DEF ConnsOf, SessionsOf, SoundFrames, Sound, ServerInv, RowsDrawn
  <1> QED BY <1>1, <1>3, <1>4, <1>5 DEF ServerInv, Others, Told

-----------------------------------------------------------------------------
(* Connections that come and are refused, and joins                       *)

LEMMA RefusedTyped ==
    ASSUME NEW n \in Nat, NEW s \in ConnsOf(n), NEW code \in ErrorCodes
    PROVE  /\ Refused(s.live, code) \in ConnsOf(n)
           /\ Refused(s.live, code).phase = "refused"
  BY Phases DEF ConnsOf, Refused

LEMMA PlainTyped ==
    ASSUME NEW n \in Nat
    PROVE  /\ Free \in ConnsOf(n) /\ Free.phase = "free" /\ ~Free.live
           /\ Accepted \in ConnsOf(n) /\ Accepted.phase = "reading"
  BY DEF ConnsOf, Free, Accepted

\* The steps of a connection that is not in the map.
LEMMA RefuseKeeps ==
    ASSUME ServerInv, NEW c \in Conn, NEW code \in ErrorCodes, Refuse(c, code),
           conns[c].phase = "reading",
           db' \in Databases, db'.rows = db.rows, db'.last = db.last,
           UNCHANGED <<horizon, closed, sessions>>
    PROVE  ServerInv' /\ Others(c) /\ conns'[c] = Refused(conns[c].live, code)
  <1>1. db.last \in Nat /\ conns[c] \in ConnsOf(db.last)
    BY DEF ServerInv, Databases
  <1> DEFINE s == Refused(conns[c].live, code)
  <1>2. s \in ConnsOf(db.last) /\ s.phase = "refused"
    BY <1>1, RefusedTyped
  <1>3. conns' = [conns EXCEPT ![c] = s]
    BY DEF Refuse
  <1> HIDE DEF s
  <1>4. ServerInv' /\ Others(c) /\ conns'[c] = s
    BY <1>2, <1>3, OneKeeps
  <1> QED BY <1>4 DEF s

LEMMA ConnectionKeeps ==
    ASSUME ServerInv, NEW c \in Conn,
           \/ Accept(c)
           \/ JoinTimeout(c)
           \/ \E code \in JoinFailures : JoinInvalid(c, code)
           \/ JoinClosed(c)
           \/ \E r \in Room, n \in Name : JoinStorageError(c, r, n)
           \/ WriteRefusal(c)
    PROVE  ServerInv' /\ Others(c)
  <1>1. db \in Databases /\ db.last \in Nat
    BY DEF ServerInv, Databases
  <1>2. CASE Accept(c)
    BY <1>1, <1>2, OneKeeps, PlainTyped DEF Accept
  <1>3. CASE JoinTimeout(c)
    BY <1>1, <1>3, OneKeeps, PlainTyped DEF JoinTimeout
  <1>4. ASSUME NEW code \in JoinFailures, JoinInvalid(c, code) PROVE ServerInv' /\ Others(c)
    BY <1>1, <1>4, RefuseKeeps DEF JoinInvalid, ErrorCodes
  <1>5. CASE JoinClosed(c)
    BY <1>1, <1>5, RefuseKeeps DEF JoinClosed, ErrorCodes
  <1>6. ASSUME NEW r \in Room, NEW n \in Name, JoinStorageError(c, r, n)
        PROVE  ServerInv' /\ Others(c)
    <2>1. db' \in Databases /\ db'.rows = db.rows /\ db'.last = db.last
      <3>1. OpenRoom(db, r) \in Databases /\ OpenRoom(db, r).rows = db.rows
            /\ OpenRoom(db, r).last = db.last
        BY <1>1 DEF OpenRoom, Databases
      <3>2. db' = db \/ db' = OpenRoom(db, r)
        BY <1>6 DEF JoinStorageError
      <3> QED BY <1>1, <3>1, <3>2
    <2> QED BY <1>6, <2>1, RefuseKeeps DEF JoinStorageError, ErrorCodes
  <1>7. CASE WriteRefusal(c)
    BY <1>1, <1>7, OneKeeps, PlainTyped DEF WriteRefusal
  <1> QED BY <1>2, <1>3, <1>4, <1>5, <1>6, <1>7

\* A join is refused or its connection serves: the session is the new one, told
\* who is in the room.
LEMMA JoinKeeps ==
    ASSUME ServerInv, NEW c \in Conn, NEW r \in Room, NEW n \in Name, NEW o \in Owner,
           NEW inst, NEW after \in Int, Join(c, r, n, o, inst, after)
    PROVE  /\ ServerInv' /\ Others(c)
           /\ \/ \E code \in ErrorCodes : conns'[c] = Refused(conns[c].live, code)
              \/ /\ after \in Nat
                 /\ ~InvalidCursor(r, inst, after)
                 /\ Told(conns'[c], NewSession(r, n, o, inst, after))
  <1>1. /\ db \in Databases /\ db.last \in Nat /\ RowsDrawn /\ conns[c] \in ConnsOf(db.last)
        /\ SessionInv /\ DOMAIN sessions \subseteq Room \X Name
    BY DEF ServerInv, Databases, SessionInv
  <1>2. /\ db' \in Databases /\ db'.rows = db.rows /\ db'.last = db.last
    BY <1>1 DEF Join, OpenRoom, Databases
  <1>3. conns[c].phase = "reading" /\ UNCHANGED <<horizon, closed>>
    BY DEF Join
  <1>4. ASSUME NEW code \in ErrorCodes, Refuse(c, code), UNCHANGED sessions
        PROVE  ServerInv' /\ Others(c) /\ conns'[c] = Refused(conns[c].live, code)
    BY <1>2, <1>3, <1>4, RefuseKeeps
  <1>5. CASE Refuse(c, "name_taken") /\ UNCHANGED sessions
    BY <1>4, <1>5 DEF ErrorCodes
  <1>6. CASE Refuse(c, "invalid_cursor") /\ UNCHANGED sessions
    BY <1>4, <1>6 DEF ErrorCodes
  <1>7. CASE /\ ~Taken(r, n)
             /\ ~InvalidCursor(r, inst, after)
             /\ sessions' = Register(sessions, r, n, c)
             /\ conns' = TellPresence(
                   [conns EXCEPT ![c] = NewSession(r, n, o, inst, after)], sessions')
    <2> DEFINE s  == NewSession(r, n, o, inst, after)
               cs == [conns EXCEPT ![c] = s]
    <2>1. after \in Nat
      BY <1>7 DEF InvalidCursor
    <2>2. s \in SessionsOf(db.last) /\ s.room = r /\ s.name = n
      BY <1>1, <2>1, NewSessionFresh DEF Fresh
    <2> HIDE DEF s
    <2>3. cs[c] = s /\ \A d \in Conn \ {c} : cs[d] = conns[d]
      BY DEF ServerInv
    <2>4. \A d \in Conn : cs[d] \in ConnsOf(db.last)
      BY <2>2, <2>3 DEF ServerInv, ConnsOf
    <2>5. s.phase = "serving"
      BY <2>2 DEF SessionsOf, Sessions
    <2> HIDE DEF cs
    <2>6. /\ DOMAIN sessions' = DOMAIN sessions \cup {<<r, n>>}
          /\ \A key \in DOMAIN sessions' : key = <<r, n>> \/ sessions'[key] = sessions[key]
          /\ sessions'[<<r, n>>] = c
      BY <1>7 DEF Register
    <2>7. \A d \in Conn : d \in Registered(sessions') => cs[d].phase = "serving"
      <3> SUFFICES ASSUME NEW d \in Conn, d \in Registered(sessions') PROVE cs[d].phase = "serving"
        OBVIOUS
      <3>1. d = c \/ d \in Registered(sessions)
        BY <2>6 DEF Registered
      <3> QED BY <2>3, <2>5, <3>1, InMap
    <2>8. DOMAIN sessions' \subseteq Room \X Name
      BY <1>1, <2>6
    <2>9. conns' = TellPresence(cs, sessions')
      BY <1>7 DEF cs, s
    <2>10. \A d \in Conn : conns'[d] \in ConnsOf(db.last) /\ Told(conns'[d], cs[d])
      BY <1>1, <2>4, <2>7, <2>8, <2>9, TellTyped
    <2>11. conns' = [d \in Conn |-> conns'[d]]
      BY <2>9 DEF TellPresence
    <2>12. \A d \in Conn : Formed(conns'[d]) /\ Formed(cs[d])
      BY <1>1, <2>4, <2>10, Phases
    <2>13. \A d \in Conn : Alike(conns'[d], cs[d])
      BY <2>10, <2>12, ToldAlike
    <2>14. /\ Formed(conns'[c]) /\ conns'[c].phase = "serving"
           /\ conns'[c].room = r /\ conns'[c].name = n
      BY <2>2, <2>3, <2>5, <2>13 DEF Alike
    <2>15. SessionInv'
      BY <1>1, <1>3, <1>7, <2>3, <2>11, <2>13, <2>14, Joins
    <2>16. conns' \in [Conn -> ConnsOf(db.last)]
      BY <2>10, <2>11
    <2>17. ConnsOf(db.last)' = ConnsOf(db.last) /\ RowsDrawn'
      BY <1>1, <1>2 DEF ConnsOf, SessionsOf, SoundFrames, Sound, RowsDrawn
    <2>18. ServerInv'
      BY <1>2, <1>3, <2>15, <2>16, <2>17 DEF ServerInv
    <2>19. Others(c)
      BY <2>3, <2>10 DEF Others
    <2> QED BY <1>7, <2>1, <2>3, <2>10, <2>18, <2>19 DEF s
  <1>8. \/ Refuse(c, "name_taken") /\ UNCHANGED sessions
        \/ Refuse(c, "invalid_cursor") /\ UNCHANGED sessions
        \/ /\ ~Taken(r, n)
           /\ ~InvalidCursor(r, inst, after)
           /\ sessions' = Register(sessions, r, n, c)
           /\ conns' = TellPresence(
                 [conns EXCEPT ![c] = NewSession(r, n, o, inst, after)], sessions')
    BY DEF Join
  <1>9. "name_taken" \in ErrorCodes /\ "invalid_cursor" \in ErrorCodes
    BY DEF ErrorCodes
  <1> QED BY <1>4, <1>5, <1>6, <1>7, <1>8, <1>9

-----------------------------------------------------------------------------
(* The requests: send, history, sync                                      *)

LEMMA GrowsTransitive ==
    ASSUME NEW s, NEW t, NEW u, Grows(t, s), Grows(u, t)
    PROVE  Grows(u, s)
  BY DEF Grows

\* The session of one connection changes, nothing else does.
LEMMA SessionKeeps ==
    ASSUME ServerInv, NEW c \in Conn, conns[c].phase = "serving",
           NEW s \in SessionsOf(db.last), conns' = [conns EXCEPT ![c] = s],
           s.room = conns[c].room, s.name = conns[c].name,
           UNCHANGED <<db, horizon, closed, sessions>>
    PROVE  ServerInv' /\ Others(c) /\ conns'[c] = s
  <1>1. db \in Databases /\ db.last \in Nat
    BY DEF ServerInv, Databases
  <1>2. s \in ConnsOf(db.last) /\ s.phase = "serving"
    BY DEF ConnsOf, SessionsOf, Sessions
  <1> QED BY <1>1, <1>2, OneKeeps

LEMMA FailKeeps ==
    ASSUME ServerInv, NEW c \in Conn, conns[c].phase = "serving",
           NEW req \in Asked, Fail(c, req)
    PROVE  /\ ServerInv' /\ Others(c)
           /\ conns'[c] \in SessionsOf(db.last)
           /\ Grows(conns'[c], conns[c]) /\ Says(conns'[c], Failure(req))
           /\ conns'[c].live => conns'[c].outgoing = conns[c].outgoing \o <<Failure(req)>>
  <1> DEFINE s == Enqueue(conns[c], Failure(req))
  <1>1. conns[c] \in SessionsOf(db.last) /\ db.last \in Nat
    BY InMap
  <1>2. Failure(req) \in SoundFrames(db.last)
    BY <1>1, FramesTyped
  <1>3. /\ s \in SessionsOf(db.last) /\ Grows(s, conns[c]) /\ Says(s, Failure(req))
        /\ s.live => s.outgoing = conns[c].outgoing \o <<Failure(req)>>
    BY <1>1, <1>2, EnqueueOne
  <1>4. conns' = [conns EXCEPT ![c] = s] /\ UNCHANGED <<db, horizon, closed, sessions>>
    BY DEF Fail
  <1> HIDE DEF s
  <1>5. s.room = conns[c].room /\ s.name = conns[c].name
    BY <1>3 DEF Grows
  <1>6. ServerInv' /\ Others(c) /\ conns'[c] = s
    BY <1>1, <1>3, <1>4, <1>5, SessionKeeps
  <1> QED BY <1>3, <1>6

LEMMA SendKeeps ==
    ASSUME ServerInv, NEW c \in Conn, HandleSend(c, "send")
    PROVE  /\ ServerInv' /\ Others(c)
           /\ conns'[c] \in SessionsOf(db'.last) /\ Grows(conns'[c], conns[c])
           /\ \/ /\ Says(conns'[c], Failure("send"))
                 /\ UNCHANGED db
                 /\ conns[c].syncing
              \/ /\ ~conns[c].syncing
                 /\ Says(conns'[c], Ack("send", NewRow(db, conns[c].room, conns[c].owner)))
                 /\ db' = AppendChat(db, conns[c].room, conns[c].owner)
  <1>0. conns[c].phase = "serving"
    BY DEF HandleSend, Handles
  <1>1. conns[c] \in SessionsOf(db.last) /\ db.last \in Nat /\ db.last + 1 \in Nat
        /\ db \in Databases /\ RowsDrawn
    BY <1>0, InMap DEF ServerInv
  <1>2. CASE conns[c].syncing /\ Fail(c, "send")
    <2>1. "send" \in Asked
      BY DEF Asked
    <2>2. /\ ServerInv' /\ Others(c) /\ conns'[c] \in SessionsOf(db.last)
          /\ Grows(conns'[c], conns[c]) /\ Says(conns'[c], Failure("send"))
      BY <1>0, <1>2, <2>1, FailKeeps
    <2>3. UNCHANGED db
      BY <1>2 DEF Fail
    <2> QED BY <1>2, <2>2, <2>3
  <1>3. CASE ~(conns[c].syncing /\ Fail(c, "send"))
    <2> DEFINE r    == conns[c].room
               m    == NewRow(db, r, conns[c].owner)
               told == Broadcast(conns, sessions, r, Message("", m), c, Message("send", m))
               s    == Enqueue(told[c], Ack("send", m))
    <2>1. /\ ~conns[c].syncing
          /\ db' = AppendChat(db, r, conns[c].owner)
          /\ conns' = [told EXCEPT ![c] = s]
          /\ UNCHANGED <<horizon, closed, sessions>>
      BY <1>3 DEF HandleSend
    <2>2. r \in Room /\ conns[c].owner \in Owner
      BY <1>1 DEF SessionsOf, Sessions
    <2>3. m \in Row /\ m.id = db.last + 1
      BY <1>1, <2>2 DEF NewRow, Row
    <2>4. db' \in Databases /\ db'.last = db.last + 1 /\ db'.rows = db.rows \cup {m}
      BY <1>1, <2>1, <2>2, <2>3 DEF AppendChat, Databases
    <2>5. \A x \in db.rows : x.id \in Nat
      BY <1>1 DEF Databases, Row
    <2> HIDE DEF m, r
    <2>6. RowsDrawn'
      BY <1>1, <2>3, <2>4, <2>5 DEF RowsDrawn
    <2>7. /\ Message("", m) \in SoundFrames(db.last + 1)
          /\ Message("send", m) \in SoundFrames(db.last + 1)
          /\ Ack("send", m) \in SoundFrames(db.last + 1)
      <3> DEFINE n == db.last + 1
      <3>1. n \in Nat /\ m.id <= n /\ m \in Row
        BY <1>1, <2>3
      <3> HIDE DEF n
      <3>2. /\ Message("", m) \in SoundFrames(n) /\ Message("send", m) \in SoundFrames(n)
            /\ Ack("send", m) \in SoundFrames(n)
        BY <3>1, FramesTyped
      <3> QED BY <3>2 DEF n
    <2>8. /\ ConnsOf(db.last) \subseteq ConnsOf(db.last + 1)
          /\ SessionsOf(db.last) \subseteq SessionsOf(db.last + 1)
      BY <1>1, Grown
    <2>9. \A d \in Conn : /\ conns[d] \in ConnsOf(db.last + 1)
                          /\ d \in Registered(sessions) => conns[d].phase = "serving"
      BY <2>8, InMap DEF ServerInv
    <2>10. \A d \in Conn : told[d] \in ConnsOf(db.last + 1) /\ Told(told[d], conns[d])
      BY <1>1, <2>7, <2>9, BroadcastTyped
    <2>11. told = [d \in Conn |-> told[d]]
      BY DEF Broadcast
    <2> HIDE DEF told
    <2>12. told[c].phase = "serving"
      BY <1>0, <2>10 DEF Told, Grows
    <2>13. told[c] \in SessionsOf(db.last + 1)
      BY <1>1, <2>10, <2>12, Phases
    <2>14. s \in SessionsOf(db.last + 1) /\ Grows(s, told[c]) /\ Says(s, Ack("send", m))
      BY <1>1, <2>7, <2>13, EnqueueOne
    <2> HIDE DEF s
    <2>15. conns' = [d \in Conn |-> IF d = c THEN s ELSE told[d]]
      BY <2>1, <2>11
    <2>16. Grows(told[c], conns[c])
      BY <1>0, <2>10 DEF Told, Grows
    <2>17. Grows(s, conns[c])
      BY <2>14, <2>16, GrowsTransitive
    <2>18. \A d \in Conn : conns'[d] \in ConnsOf(db.last + 1)
      BY <2>10, <2>14, <2>15 DEF ConnsOf
    <2>19. \A d \in Conn : Formed(conns'[d]) /\ Formed(conns[d])
      BY <1>1, <2>9, <2>18, Phases
    <2>20. \A d \in Conn : Alike(conns'[d], conns[d])
      <3> SUFFICES ASSUME NEW d \in Conn PROVE Alike(conns'[d], conns[d])
        OBVIOUS
      <3>1. CASE d = c
        BY <2>15, <2>17, <2>19, <3>1 DEF Grows, Alike
      <3>2. CASE d # c
        BY <2>10, <2>15, <2>19, <3>2, ToldAlike
      <3> QED BY <3>1, <3>2
    <2>21. conns' = [d \in Conn |-> conns'[d]]
      BY <2>15
    <2>22. horizon' \in Nat /\ closed' \in BOOLEAN /\ sessions' = sessions
      BY <2>1 DEF ServerInv
    <2>23. ServerInv'
      BY <2>4, <2>6, <2>18, <2>20, <2>21, <2>22, NewsKeeps
    <2>24. Others(c)
      BY <2>10, <2>15 DEF Others
    <2> QED BY <2>1, <2>4, <2>14, <2>15, <2>17, <2>23, <2>24 DEF m, r
  <1> QED BY <1>2, <1>3

LEMMA HistoryKeeps ==
    ASSUME ServerInv, NEW c \in Conn, NEW before, HandleHistory(c, "older", before)
    PROVE  /\ ServerInv' /\ Others(c)
           /\ conns'[c] \in SessionsOf(db.last) /\ Grows(conns'[c], conns[c])
           /\ UNCHANGED db
           /\ \/ /\ conns[c].syncing \/ before <= 0
                 /\ Says(conns'[c], Failure("older"))
              \/ /\ ~conns[c].syncing
                 /\ Says(conns'[c], PageFrame("history", "older",
                             Page(db, conns[c].room, before, 0, LatestID(db, conns[c].room))))
  <1>0. conns[c].phase = "serving"
    BY DEF HandleHistory, Handles
  <1>1. conns[c] \in SessionsOf(db.last) /\ db.last \in Nat
        /\ db \in Databases /\ RowsDrawn
    BY <1>0, InMap DEF ServerInv
  <1>2. CASE (conns[c].syncing \/ before <= 0) /\ Fail(c, "older")
    <2>1. "older" \in Asked
      BY DEF Asked
    <2>2. /\ ServerInv' /\ Others(c) /\ conns'[c] \in SessionsOf(db.last)
          /\ Grows(conns'[c], conns[c]) /\ Says(conns'[c], Failure("older"))
      BY <1>0, <1>2, <2>1, FailKeeps
    <2>3. UNCHANGED db
      BY <1>2 DEF Fail
    <2> QED BY <1>2, <2>2, <2>3
  <1>3. CASE ~((conns[c].syncing \/ before <= 0) /\ Fail(c, "older"))
    <2> DEFINE r    == conns[c].room
               page == Page(db, r, before, 0, LatestID(db, r))
               f    == PageFrame("history", "older", page)
               s    == Enqueue(conns[c], f)
    <2>1. /\ ~conns[c].syncing
          /\ conns' = [conns EXCEPT ![c] = s]
          /\ UNCHANGED <<db, horizon, closed, sessions>>
      BY <1>3 DEF HandleHistory
    <2>2. r \in Room
      BY <1>1 DEF SessionsOf, Sessions
    <2>3. page \in Pages(db.last)
      BY <1>1, <2>2, PageTyped
    <2> HIDE DEF page
    <2>4. f \in SoundFrames(db.last)
      BY <1>1, <2>3, FramesTyped
    <2> HIDE DEF f
    <2>5. s \in SessionsOf(db.last) /\ Grows(s, conns[c]) /\ Says(s, f)
      BY <1>1, <2>4, EnqueueOne
    <2> HIDE DEF s
    <2>6. s.room = conns[c].room /\ s.name = conns[c].name
      BY <2>5 DEF Grows
    <2>7. ServerInv' /\ Others(c) /\ conns'[c] = s
      BY <1>0, <2>1, <2>5, <2>6, SessionKeeps
    <2> QED BY <2>1, <2>5, <2>7 DEF f, page
  <1> QED BY <1>2, <1>3

\* What is sent of the catching up.
SyncPage(c) == Page(db, conns[c].room, -1, conns[c].cursor, conns[c].through)

SyncSent(c) ==
    [Enqueue(conns[c], PageFrame("sync", "next", SyncPage(c)))
        EXCEPT !.cursor = Advance(@, SyncPage(c))]

LEMMA SyncSentTyped ==
    ASSUME ServerInv, NEW c \in Conn, conns[c].phase = "serving"
    PROVE  LET s == SyncSent(c)
               f == PageFrame("sync", "next", SyncPage(c))
           IN  /\ s \in SessionsOf(db.last)
               /\ s.live => conns[c].live
               /\ s.room = conns[c].room /\ s.name = conns[c].name /\ s.owner = conns[c].owner
               /\ s.syncing = conns[c].syncing /\ s.through = conns[c].through
               /\ s.deferred = conns[c].deferred
               /\ s.cursor = Advance(conns[c].cursor, SyncPage(c))
               /\ \A k \in DOMAIN conns[c].outgoing :
                     k \in DOMAIN s.outgoing /\ s.outgoing[k] = conns[c].outgoing[k]
               /\ s.live => s.outgoing = conns[c].outgoing \o <<f>>
               /\ Says(s, f)
  <1> DEFINE f == PageFrame("sync", "next", SyncPage(c))
             e == Enqueue(conns[c], f)
             s == SyncSent(c)
  <1>1. conns[c] \in SessionsOf(db.last) /\ db.last \in Nat
        /\ db \in Databases /\ RowsDrawn
    BY InMap DEF ServerInv
  <1>2. SyncPage(c) \in Pages(db.last) /\ conns[c].cursor \in Nat
    BY <1>1, PageTyped DEF SyncPage, SessionsOf, Sessions
  <1>3. f \in SoundFrames(db.last)
    BY <1>1, <1>2, FramesTyped
  <1>4. Advance(conns[c].cursor, SyncPage(c)) \in Nat
    BY <1>1, <1>2, AdvanceTyped
  <1>5. s = [e EXCEPT !.cursor = Advance(e.cursor, SyncPage(c))]
    BY DEF SyncSent
  <1> HIDE DEF f, s
  <1>6. /\ e \in SessionsOf(db.last) /\ Grows(e, conns[c]) /\ e.deferred = conns[c].deferred
        /\ e.live => e.outgoing = conns[c].outgoing \o <<f>>
        /\ Says(e, f)
    BY <1>1, <1>3, EnqueueOne
  <1> HIDE DEF e
  <1>7. e.cursor = conns[c].cursor
    BY <1>6 DEF Grows
  <1>8. /\ s.phase = e.phase /\ s.live = e.live /\ s.room = e.room /\ s.name = e.name
        /\ s.owner = e.owner /\ s.syncing = e.syncing /\ s.through = e.through
        /\ s.deferred = e.deferred /\ s.outgoing = e.outgoing
        /\ s.cursor = Advance(conns[c].cursor, SyncPage(c))
    BY <1>5, <1>6, <1>7 DEF SessionsOf, Sessions
  <1>9. s \in Sessions
    BY <1>4, <1>5, <1>6, <1>7 DEF SessionsOf, Sessions
  <1>10. s \in SessionsOf(db.last)
    BY <1>6, <1>8, <1>9 DEF SessionsOf
  <1>11. Says(s, f)
    BY <1>6, <1>8 DEF Says
  <1> QED BY <1>6, <1>8, <1>10, <1>11 DEF Grows, s, f

LEMMA SyncKeeps ==
    ASSUME ServerInv, NEW c \in Conn, NEW after, HandleSync(c, "next", after)
    PROVE  /\ ServerInv' /\ Others(c) /\ UNCHANGED db
           /\ conns[c].syncing
           /\ \/ /\ after # conns[c].cursor
                 /\ Grows(conns'[c], conns[c])
                 /\ Says(conns'[c], Failure("next"))
              \/ /\ after = conns[c].cursor
                 /\ conns'[c] = IF SyncPage(c).hasMore THEN SyncSent(c) ELSE FinishSync(SyncSent(c))
  <1>0. conns[c].phase = "serving" /\ conns[c].syncing
    BY DEF HandleSync, Handles
  <1>1. CASE after # conns[c].cursor /\ Fail(c, "next")
    <2>1. "next" \in Asked
      BY DEF Asked
    <2>2. /\ ServerInv' /\ Others(c)
          /\ Grows(conns'[c], conns[c]) /\ Says(conns'[c], Failure("next"))
      BY <1>0, <1>1, <2>1, FailKeeps
    <2>3. UNCHANGED db
      BY <1>1 DEF Fail
    <2> QED BY <1>0, <1>1, <2>2, <2>3
  <1>2. CASE ~(after # conns[c].cursor /\ Fail(c, "next"))
    <2> DEFINE s == IF SyncPage(c).hasMore THEN SyncSent(c) ELSE FinishSync(SyncSent(c))
    <2>1. after = conns[c].cursor
      BY <1>2 DEF HandleSync
    <2>2. conns' = [conns EXCEPT ![c] = s] /\ UNCHANGED <<db, horizon, closed, sessions>>
      BY <1>2, <2>1 DEF HandleSync, SyncPage, SyncSent
    <2>3. SyncSent(c) \in SessionsOf(db.last)
          /\ SyncSent(c).room = conns[c].room /\ SyncSent(c).name = conns[c].name
      BY <1>0, SyncSentTyped
    <2>4. db.last \in Nat
      BY InMap
    <2>5. s \in SessionsOf(db.last) /\ s.room = conns[c].room /\ s.name = conns[c].name
      BY <2>3, <2>4, FinishTyped
    <2> HIDE DEF s
    <2>6. ServerInv' /\ Others(c) /\ conns'[c] = s
      BY <1>0, <2>2, <2>5, SessionKeeps
    <2> QED BY <1>0, <2>1, <2>2, <2>6 DEF s
  <1> QED BY <1>1, <1>2

LEMMA SyncErrorKeeps ==
    ASSUME ServerInv, NEW c \in Conn, HandleSyncStorageError(c, "next")
    PROVE  ServerInv' /\ Others(c) /\ ~conns'[c].live /\ conns'[c].phase = "serving" /\ UNCHANGED db
  <1> DEFINE e == Enqueue(conns[c], Failure("next"))
             s == [e EXCEPT !.live = FALSE]
  <1>0. conns[c].phase = "serving"
    BY DEF HandleSyncStorageError, Handles
  <1>1. conns[c] \in SessionsOf(db.last) /\ db.last \in Nat /\ "next" \in Asked
    BY <1>0, InMap DEF Asked
  <1>2. Failure("next") \in SoundFrames(db.last)
    BY <1>1, FramesTyped
  <1>3. e \in SessionsOf(db.last) /\ Grows(e, conns[c])
    BY <1>1, <1>2, EnqueueOne
  <1>4. conns' = [conns EXCEPT ![c] = s] /\ UNCHANGED <<db, horizon, closed, sessions>>
    BY DEF HandleSyncStorageError
  <1> HIDE DEF e
  <1>5. s \in SessionsOf(db.last) /\ s.room = e.room /\ s.name = e.name /\ ~s.live /\ s.phase = "serving"
    BY <1>3 DEF SessionsOf, Sessions
  <1> HIDE DEF s
  <1>6. ServerInv' /\ Others(c) /\ conns'[c] = s
    <2>1. s.room = conns[c].room /\ s.name = conns[c].name
      BY <1>3, <1>5 DEF Grows
    <2> QED BY <1>0, <1>4, <1>5, <2>1, SessionKeeps
  <1> QED BY <1>4, <1>5, <1>6

-----------------------------------------------------------------------------
(* Recalls, and connections that go                                       *)

LEMMA RecallRowTyped ==
    ASSUME db \in Databases, RowsDrawn, NEW m \in db.rows
    PROVE  LET d == RecallRow(db, m)
           IN  /\ d \in Databases
               /\ d.last = db.last
               /\ \A x \in d.rows : x.id <= d.last
  <1> DEFINE d == RecallRow(db, m)
             new == [m EXCEPT !.recalled = TRUE]
             ep == [db.epoch EXCEPT ![m.room] = db.drawn + 1]
  <1>1. m \in Row /\ db.drawn + 1 \in Nat /\ m.id <= db.last
    BY DEF Databases, RowsDrawn
  <1>2. new \in Row /\ new.id = m.id
    BY <1>1 DEF Row
  <1>3. ep \in [Room -> Nat]
    BY <1>1 DEF Databases, Row
  <1>4. d = [db EXCEPT !.rows = (db.rows \ {m}) \cup {new}, !.epoch = ep, !.drawn = db.drawn + 1]
    BY DEF RecallRow, Databases
  <1> HIDE DEF d, new, ep
  <1>5. d \in Databases /\ d.last = db.last /\ d.rows = (db.rows \ {m}) \cup {new}
    BY <1>1, <1>2, <1>3, <1>4 DEF Databases
  <1>6. \A x \in d.rows : x.id <= d.last
    BY <1>1, <1>2, <1>5 DEF RowsDrawn
  <1> QED BY <1>5, <1>6 DEF d

LEMMA RecallKeeps ==
    ASSUME ServerInv, NEW c \in Conn, NEW id, HandleRecall(c, "recall", id)
    PROVE  /\ ServerInv' /\ Others(c) /\ db'.last = db.last
           /\ conns'[c] \in SessionsOf(db.last) /\ Grows(conns'[c], conns[c])
           /\ \/ Says(conns'[c], Failure("recall")) /\ UNCHANGED db
              \/ \E m \in OwnRows(db, conns[c].room, id, conns[c].owner) :
                    /\ ~conns[c].syncing
                    /\ db' = IF m.recalled THEN db ELSE RecallRow(db, m)
                    /\ Says(conns'[c], Recalled("recall", [m EXCEPT !.recalled = TRUE],
                                                InstanceID(db', m.room)))
  <1>0. conns[c].phase = "serving"
    BY DEF HandleRecall, Handles
  <1>1. conns[c] \in SessionsOf(db.last) /\ db.last \in Nat
        /\ db \in Databases /\ RowsDrawn
    BY <1>0, InMap DEF ServerInv
  <1>2. CASE Fail(c, "recall")
    <2>1. "recall" \in Asked
      BY DEF Asked
    <2>2. /\ ServerInv' /\ Others(c) /\ conns'[c] \in SessionsOf(db.last)
          /\ Grows(conns'[c], conns[c]) /\ Says(conns'[c], Failure("recall"))
      BY <1>0, <1>2, <2>1, FailKeeps
    <2>3. UNCHANGED db
      BY <1>2 DEF Fail
    <2> QED BY <2>2, <2>3
  <1>3. CASE ~Fail(c, "recall")
    <2>1. PICK m \in OwnRows(db, conns[c].room, id, conns[c].owner) :
             /\ ~conns[c].syncing
             /\ db' = IF m.recalled THEN db ELSE RecallRow(db, m)
             /\ conns' = Broadcast(conns, sessions, m.room,
                            Recalled("", [m EXCEPT !.recalled = TRUE], InstanceID(db', m.room)), c,
                            Recalled("recall", [m EXCEPT !.recalled = TRUE], InstanceID(db', m.room)))
             /\ UNCHANGED <<horizon, closed, sessions>>
      BY <1>3 DEF HandleRecall
    <2>2. m \in db.rows /\ m.room = conns[c].room /\ m \in Row
      BY <1>1 DEF OwnRows, RoomRows, Databases
    <2> DEFINE shown == [m EXCEPT !.recalled = TRUE]
               inst  == InstanceID(db', m.room)
               f     == Recalled("", shown, inst)
               g     == Recalled("recall", shown, inst)
    <2>3. db' \in Databases /\ db'.last = db.last /\ RowsDrawn'
      <3>1. CASE m.recalled
        BY <1>1, <2>1, <3>1 DEF RowsDrawn
      <3>2. CASE ~m.recalled
        <4>1. db' = RecallRow(db, m)
          BY <2>1, <3>2
        <4> QED BY <1>1, <2>2, <4>1, RecallRowTyped DEF RowsDrawn
      <3> QED BY <3>1, <3>2
    <2>4. shown \in Row /\ shown.id = m.id /\ m.id <= db.last
      BY <1>1, <2>2 DEF Row, RowsDrawn
    <2>5. inst \in InstanceIDs
      BY <2>2, <2>3, InstanceTyped DEF Row
    <2> HIDE DEF shown, inst
    <2>6. f \in SoundFrames(db.last) /\ g \in SoundFrames(db.last)
      BY <1>1, <2>4, <2>5, FramesTyped
    <2>7. conns' = Broadcast(conns, sessions, m.room, f, c, g)
      BY <2>1 DEF shown, inst
    <2> HIDE DEF f, g
    <2>8. \A d \in Conn : /\ conns[d] \in ConnsOf(db.last)
                          /\ d \in Registered(sessions) => conns[d].phase = "serving"
      BY InMap DEF ServerInv
    <2>9. \A d \in Conn : conns'[d] \in ConnsOf(db.last) /\ Told(conns'[d], conns[d])
      BY <1>1, <2>6, <2>7, <2>8, BroadcastTyped
    <2>10. c \in Registered(sessions)
      BY <1>0, InMap
    <2>11. Says(conns'[c], g)
      BY <1>1, <2>1, <2>2, <2>6, <2>7, <2>8, <2>10, BroadcastTyped
    <2>12. conns' = [d \in Conn |-> conns'[d]]
      BY <2>7 DEF Broadcast
    <2>13. Grows(conns'[c], conns[c])
      BY <1>0, <2>9 DEF Told, Grows, SessionsOf, Sessions
    <2>14. \A d \in Conn : Alike(conns'[d], conns[d])
      BY <1>1, <2>8, <2>9, Phases, ToldAlike
    <2>15. ServerInv'
      BY <2>1, <2>3, <2>9, <2>12, <2>14, NewsKeeps DEF ServerInv
    <2>16. conns'[c] \in SessionsOf(db.last)
      BY <1>1, <2>9, <2>13, Phases DEF Grows
    <2>17. Others(c)
      BY <2>9 DEF Others
    <2> QED BY <2>1, <2>3, <2>11, <2>13, <2>15, <2>16, <2>17 DEF g, shown, inst
  <1> QED BY <1>2, <1>3

LEMMA WriteKeeps ==
    ASSUME ServerInv, NEW c \in Conn, WriteFrame(c)
    PROVE  /\ ServerInv' /\ Others(c)
           /\ conns' = [conns EXCEPT ![c].outgoing = Tail(@)]
           /\ conns'[c] \in SessionsOf(db.last)
           /\ conns'[c] = [conns[c] EXCEPT !.outgoing = Tail(@)]
  <1> DEFINE s == [conns[c] EXCEPT !.outgoing = Tail(conns[c].outgoing)]
  <1>0. conns[c].phase = "serving" /\ conns[c].outgoing # <<>>
    BY DEF WriteFrame
  <1>1. conns[c] \in SessionsOf(db.last) /\ db.last \in Nat
    BY <1>0, InMap
  <1>2. Tail(conns[c].outgoing) \in Seq(SoundFrames(db.last))
        /\ Tail(conns[c].outgoing) \in Seq(Frames)
    BY <1>0, <1>1, HeadTailProperties DEF SessionsOf, Sessions
  <1>3. conns' = [conns EXCEPT ![c] = s] /\ UNCHANGED <<db, horizon, closed, sessions>>
    BY DEF WriteFrame
  <1>4. s.room = conns[c].room /\ s.name = conns[c].name /\ s \in SessionsOf(db.last)
    BY <1>1, <1>2 DEF SessionsOf, Sessions
  <1> HIDE DEF s
  <1>5. ServerInv' /\ Others(c) /\ conns'[c] = s
    BY <1>0, <1>3, <1>4, SessionKeeps
  <1> QED BY <1>3, <1>4, <1>5 DEF s, WriteFrame

LEMMA CancelKeeps ==
    ASSUME ServerInv, NEW c \in Conn, Cancel(c)
    PROVE  /\ ServerInv' /\ Others(c)
           /\ conns'[c].phase = "serving" /\ ~conns'[c].live
  <1> DEFINE s == [conns[c] EXCEPT !.live = FALSE]
  <1>0. conns[c].phase = "serving"
    BY DEF Cancel
  <1>1. conns[c] \in SessionsOf(db.last) /\ db.last \in Nat
    BY <1>0, InMap
  <1>2. conns' = [conns EXCEPT ![c] = s] /\ UNCHANGED <<db, horizon, closed, sessions>>
    BY DEF Cancel
  <1>3. /\ s.room = conns[c].room /\ s.name = conns[c].name /\ s \in SessionsOf(db.last)
        /\ ~s.live /\ s.phase = "serving"
    BY <1>1 DEF SessionsOf, Sessions
  <1> HIDE DEF s
  <1>4. ServerInv' /\ Others(c) /\ conns'[c] = s
    BY <1>0, <1>2, <1>3, SessionKeeps
  <1> QED BY <1>3, <1>4

LEMMA LeaveKeeps ==
    ASSUME ServerInv, NEW c \in Conn, Leave(c)
    PROVE  ServerInv' /\ Others(c) /\ conns'[c] = Free /\ UNCHANGED db
  <1> DEFINE key  == <<conns[c].room, conns[c].name>>
             gone == [conns EXCEPT ![c] = Free]
  <1>0. db.last \in Nat /\ SessionInv /\ DOMAIN sessions \subseteq Room \X Name
    BY DEF ServerInv, Databases, SessionInv
  <1>1. conns[c].phase = "serving" /\ UNCHANGED <<db, horizon, closed>>
    BY DEF Leave
  <1>2. key \in DOMAIN sessions /\ sessions[key] = c
    <2>1. PICK k \in DOMAIN sessions : sessions[k] = c
      BY <1>1, InMap DEF Registered
    <2>2. k = <<k[1], k[2]>> /\ conns[c].room = k[1] /\ conns[c].name = k[2]
      BY <1>0, <2>1 DEF SessionInv, NamesExclusive
    <2> QED BY <2>1, <2>2
  <1>3. /\ sessions' = Unregister(sessions, conns[c].room, conns[c].name)
        /\ conns' = TellPresence(gone, sessions')
    BY <1>2 DEF Leave
  <1>4. gone[c] = Free /\ \A d \in Conn \ {c} : gone[d] = conns[d]
    BY DEF ServerInv
  <1> HIDE DEF gone
  <1>5. \A d \in Conn : gone[d] \in ConnsOf(db.last)
    BY <1>0, <1>4, PlainTyped DEF ServerInv
  <1>6. /\ DOMAIN sessions' = DOMAIN sessions \ {key}
        /\ \A k \in DOMAIN sessions' : sessions'[k] = sessions[k]
    BY <1>3 DEF Unregister
  <1>7. \A d \in Registered(sessions') : d # c /\ d \in Registered(sessions)
    <2> SUFFICES ASSUME NEW k \in DOMAIN sessions' PROVE sessions'[k] # c /\ sessions'[k] \in Registered(sessions)
      BY DEF Registered
    <2>1. k \in DOMAIN sessions /\ k # key /\ sessions'[k] = sessions[k]
      BY <1>6
    <2>2. sessions[k] # c
      BY <1>0, <1>2, <2>1, OneKey
    <2> QED BY <2>1, <2>2 DEF Registered
  <1>8. \A d \in Conn : d \in Registered(sessions') => gone[d].phase = "serving"
    BY <1>4, <1>7, InMap
  <1>9. \A d \in Conn : conns'[d] \in ConnsOf(db.last) /\ Told(conns'[d], gone[d])
    BY <1>0, <1>3, <1>5, <1>6, <1>8, TellTyped
  <1>10. conns' = [d \in Conn |-> conns'[d]]
    BY <1>3 DEF TellPresence
  <1>11. conns'[c] = Free
    BY <1>4, <1>9, PlainTyped, <1>0 DEF Told, Grows
  <1>12. Others(c)
    BY <1>4, <1>9 DEF Others
  <1>13. \A d \in Conn : Formed(conns'[d]) /\ Formed(conns[d])
    BY <1>0, <1>9, Phases DEF ServerInv
  <1>14. \A d \in Conn \ {c} : Alike(conns'[d], conns[d])
    BY <1>12, <1>13, ToldAlike DEF Others
  <1>15. conns'[c].phase # "serving"
    BY <1>0, <1>11, PlainTyped
  <1>16. SessionInv'
    BY <1>0, <1>1, <1>3, <1>10, <1>13, <1>14, <1>15, Leaves
  <1>17. conns' \in [Conn -> ConnsOf(db.last)] /\ ConnsOf(db.last)' = ConnsOf(db.last) /\ RowsDrawn'
    BY <1>1, <1>9, <1>10 DEF ConnsOf, SessionsOf, SoundFrames, Sound, RowsDrawn, ServerInv
  <1> QED BY <1>1, <1>11, <1>12, <1>16, <1>17 DEF ServerInv

-----------------------------------------------------------------------------
(* The service, and every step                                            *)

LEMMA CloseKeeps ==
    ASSUME ServerInv, Close
    PROVE  /\ ServerInv' /\ UNCHANGED db
           /\ \A c \in Conn : conns'[c].phase = conns[c].phase /\ ~conns'[c].live
  <1>0. db.last \in Nat /\ \A c \in Conn : conns[c] \in ConnsOf(db.last)
    BY DEF ServerInv, Databases
  <1>1. /\ closed' = TRUE /\ UNCHANGED <<db, horizon, sessions>>
        /\ conns' = [c \in Conn |-> [conns[c] EXCEPT !.live = FALSE]]
    BY DEF Close
  <1>2. ASSUME NEW c \in Conn
        PROVE  conns'[c] \in ConnsOf(db.last) /\ conns'[c].phase = conns[c].phase /\ ~conns'[c].live
               /\ Alike(conns'[c], conns[c])
    <2> DEFINE s == conns[c]
               t == [s EXCEPT !.live = FALSE]
    <2>0. conns'[c] = t
      BY <1>1
    <2>1. CASE s = Free
      <3>1. \A v : [[phase |-> "free", live |-> v] EXCEPT !.live = v]
                       = [phase |-> "free", live |-> v]
        OBVIOUS
      <3>2. [Free EXCEPT !.live = FALSE] = Free
        BY <3>1 DEF Free
      <3> QED BY <2>0, <2>1, <3>2 DEF ConnsOf, Free, Alike, Formed
    <2>2. CASE s \in [phase : {"reading"}, live : BOOLEAN]
      <3>1. t \in [phase : {"reading"}, live : BOOLEAN] /\ ~t.live
        BY <2>2
      <3> QED BY <2>0, <2>2, <3>1 DEF ConnsOf, Alike, Formed
    <2>3. ASSUME NEW live \in BOOLEAN, NEW code \in ErrorCodes, s = Refused(live, code)
          PROVE  t = Refused(FALSE, code)
      <3>1. \A v : [Refused(live, code) EXCEPT !.live = v] = Refused(v, code)
        BY DEF Refused
      <3> QED BY <2>3, <3>1
    <2>4. CASE \E live \in BOOLEAN, code \in ErrorCodes : s = Refused(live, code)
      <3>1. PICK live \in BOOLEAN, code \in ErrorCodes : s = Refused(live, code)
        BY <2>4
      <3>2. t = Refused(FALSE, code)
        BY <2>3, <3>1
      <3>3. /\ Refused(FALSE, code) \in ConnsOf(db.last)
            /\ Refused(FALSE, code).phase = "refused" /\ Refused(live, code).phase = "refused"
            /\ ~Refused(FALSE, code).live
        <4>1. \A v \in BOOLEAN : Refused(v, code) \in ConnsOf(db.last)
          BY DEF ConnsOf
        <4> QED BY <4>1 DEF Refused
      <3> HIDE DEF t, s
      <3>4. Formed(t)
        BY <1>0, <3>2, <3>3, Phases
      <3> QED BY <2>0, <3>1, <3>2, <3>3, <3>4 DEF Alike, s
    <2>5. CASE s \in SessionsOf(db.last)
      <3>1. t \in SessionsOf(db.last) /\ t.phase = s.phase /\ t.room = s.room /\ t.name = s.name
            /\ ~t.live
        BY <2>5 DEF SessionsOf, Sessions
      <3> HIDE DEF t, s
      <3>2. t \in ConnsOf(db.last)
        BY <3>1 DEF ConnsOf
      <3>3. Formed(t)
        BY <1>0, <3>2, Phases
      <3> QED BY <2>0, <3>1, <3>2, <3>3 DEF Alike, s
    <2>6. s \in ConnsOf(db.last)
      BY <1>0
    <2> QED BY <2>1, <2>2, <2>4, <2>5, <2>6 DEF ConnsOf
  <1>3. RowsDrawn' /\ db' \in Databases /\ db' = db /\ horizon' \in Nat /\ closed' \in BOOLEAN
    BY <1>1 DEF RowsDrawn, ServerInv
  <1>4. conns' = [c \in Conn |-> conns'[c]]
    BY <1>1
  <1>5. ServerInv'
    BY <1>1, <1>2, <1>3, <1>4, NewsKeeps
  <1> QED BY <1>1, <1>2, <1>5

LEMMA RestartKeeps ==
    ASSUME ServerInv, Restart
    PROVE  ServerInv' /\ UNCHANGED db /\ \A c \in Conn : conns'[c] = Free
  <1>1. /\ closed' = FALSE /\ UNCHANGED <<db, horizon>>
        /\ conns' = [c \in Conn |-> Free] /\ sessions' = <<>>
    BY DEF Restart
  <1>2. DOMAIN sessions' = {}
    BY <1>1
  <1>3. Formed(Free) /\ Free.phase # "serving"
    BY DEF Formed, Free
  <1>4. SessionInv'
    BY <1>1, <1>2, <1>3 DEF SessionInv, NamesExclusive, Registered, Serving
  <1>5. conns' \in [Conn -> ConnsOf(db.last)] /\ ConnsOf(db.last)' = ConnsOf(db.last) /\ RowsDrawn'
    BY <1>1 DEF ConnsOf, SessionsOf, SoundFrames, Sound, RowsDrawn, ServerInv
  <1> QED BY <1>1, <1>4, <1>5 DEF ServerInv

LEMMA AgeKeeps ==
    ASSUME ServerInv, NEW upTo \in Nat, Age(upTo)
    PROVE  ServerInv' /\ UNCHANGED <<db, conns>>
  <1>1. UNCHANGED <<db, closed, conns, sessions>> /\ horizon' \in Nat
    BY DEF Age
  <1>2. SessionInv'
    BY <1>1 DEF ServerInv, SessionInv, NamesExclusive, Registered, Serving
  <1>3. ConnsOf(db.last)' = ConnsOf(db.last) /\ RowsDrawn'
    BY <1>1 DEF ConnsOf, SessionsOf, SoundFrames, Sound, RowsDrawn, ServerInv
  <1> QED BY <1>1, <1>2, <1>3 DEF ServerInv

LEMMA IdleKeeps ==
    ASSUME ServerInv, UNCHANGED vars
    PROVE  ServerInv'
  <1>1. UNCHANGED <<db, horizon, closed, conns, sessions>>
    BY DEF vars
  <1>2. SessionInv
    BY DEF ServerInv
  <1>3. SessionInv'
    BY <1>1, <1>2 DEF SessionInv, NamesExclusive, Registered, Serving
  <1>4. ConnsOf(db.last)' = ConnsOf(db.last) /\ RowsDrawn'
    BY <1>1 DEF ConnsOf, SessionsOf, SoundFrames, Sound, RowsDrawn, ServerInv
  <1> QED BY <1>1, <1>3, <1>4 DEF ServerInv

\* t is session s after a cleanup: it catches up no more and starts over.
Cleared(t, s, inst) ==
    /\ t.phase = "serving" /\ ~t.syncing
    /\ t.live => s.live
    /\ t.room = s.room /\ t.name = s.name /\ t.owner = s.owner
    /\ \A k \in DOMAIN s.outgoing : k \in DOMAIN t.outgoing /\ t.outgoing[k] = s.outgoing[k]
    /\ Says(t, HistoryCleared(inst))

LEMMA ClearKeeps ==
    ASSUME ServerInv, ClearHistory
    PROVE  /\ ServerInv' /\ db'.last = db.last
           /\ \A c \in Conn : conns[c].phase # "serving" => conns'[c] = conns[c]
           /\ \A c \in Conn : conns[c].phase = "serving" =>
                 Cleared(conns'[c], conns[c], InstanceID(db', conns[c].room))
  <1>0. db \in Databases /\ db.last \in Nat /\ \A c \in Conn : conns[c] \in ConnsOf(db.last)
    BY DEF ServerInv, Databases
  <1> DEFINE empty(d) == [conns[d] EXCEPT !.syncing = FALSE, !.deferred = <<>>,
                                          !.cursor = 0, !.through = 0]
             f(d) == HistoryCleared(InstanceID(db', conns[d].room))
             told == [d \in Conn |-> IF d \in Registered(sessions)
                                     THEN Enqueue(empty(d), f(d)) ELSE conns[d]]
  <1>1. conns' = TellPresence(told, sessions) /\ UNCHANGED <<horizon, closed, sessions>>
    BY DEF ClearHistory
  <1>2. db' \in Databases /\ db'.last = db.last /\ db'.rows = {}
    <2>1. db' = ClearAll(db)
      BY DEF ClearHistory
    <2>2. [r \in Room |-> 0] \in [Room -> Nat] /\ db.drawn + 1 \in Nat
      BY <1>0 DEF Databases
    <2> QED BY <1>0, <2>1, <2>2 DEF ClearAll, Databases
  <1>3. ASSUME NEW c \in Conn, conns[c].phase = "serving"
        PROVE  /\ told[c] \in SessionsOf(db.last)
               /\ Cleared(told[c], conns[c], InstanceID(db', conns[c].room))
    <2>1. conns[c] \in SessionsOf(db.last) /\ c \in Registered(sessions)
      BY <1>3, InMap
    <2> DEFINE s == empty(c)
    <2>2. conns[c].room \in Room
      BY <2>1 DEF SessionsOf, Sessions
    <2>3. InstanceID(db', conns[c].room) \in InstanceIDs
      BY <1>2, <2>2, InstanceTyped
    <2>4. f(c) \in SoundFrames(db.last)
      BY <1>0, <2>3, FramesTyped
    <2>5. <<>> \in Seq(Frames) /\ <<>> \in Seq(SoundFrames(db.last))
      BY EmptySeq
    <2>6. /\ s.phase = "serving" /\ s.live = conns[c].live /\ s.room = conns[c].room
          /\ s.name = conns[c].name /\ s.owner = conns[c].owner /\ s.syncing = FALSE
          /\ s.deferred = <<>> /\ s.through = 0 /\ s.outgoing = conns[c].outgoing
      BY <2>1 DEF SessionsOf, Sessions
    <2>7. s \in Sessions
      BY <2>1, <2>5 DEF SessionsOf, Sessions
    <2> HIDE DEF s
    <2>8. s.outgoing \in Seq(SoundFrames(db.last)) /\ s.deferred \in Seq(SoundFrames(db.last))
      BY <2>1, <2>5, <2>6 DEF SessionsOf
    <2>9. s \in SessionsOf(db.last)
      <3>1. s.through <= db.last
        BY <1>0, <2>6
      <3> QED BY <2>7, <2>8, <3>1 DEF SessionsOf
    <2> DEFINE g == f(c)
    <2>10. told[c] = Enqueue(s, g) /\ g \in SoundFrames(db.last)
           /\ g = HistoryCleared(InstanceID(db', conns[c].room))
      BY <2>1, <2>4 DEF s
    <2> HIDE DEF told, g
    <2>12. /\ Enqueue(s, g) \in SessionsOf(db.last)
           /\ Grows(Enqueue(s, g), s) /\ Says(Enqueue(s, g), g)
      <3>1. Enqueue(s, g) \in SessionsOf(db.last) /\ Grows(Enqueue(s, g), s)
        BY ZenonT(30), <1>0, <2>9, <2>10, EnqueueOne
      <3>2. Says(Enqueue(s, g), g)
        BY <1>0, <2>9, <2>10, EnqueueOne
      <3> QED BY <3>1, <3>2
    <2>11. /\ told[c] \in SessionsOf(db.last) /\ Grows(told[c], s) /\ Says(told[c], g)
      BY <2>10, <2>12
    <2> QED BY <2>6, <2>10, <2>11 DEF Cleared, Grows
  <1>4. \A c \in Conn : conns[c].phase # "serving" => told[c] = conns[c]
    BY InMap
  <1>5. \A c \in Conn : c \in Registered(sessions) <=> conns[c].phase = "serving"
    BY InMap
  <1> HIDE DEF told
  <1>6. \A c \in Conn : told[c] \in ConnsOf(db.last)
    BY <1>0, <1>3, <1>4 DEF ConnsOf
  <1>7. \A c \in Conn : c \in Registered(sessions) => told[c].phase = "serving"
    BY <1>3, <1>5 DEF Cleared
  <1>8. DOMAIN sessions \subseteq Room \X Name
    BY DEF ServerInv, SessionInv
  <1>9. \A c \in Conn : conns'[c] \in ConnsOf(db.last) /\ Told(conns'[c], told[c])
    BY <1>0, <1>1, <1>6, <1>7, <1>8, TellTyped
  <1>10. ASSUME NEW c \in Conn, conns[c].phase # "serving" PROVE conns'[c] = conns[c]
    <2>1. conns'[c] = told[c]
      BY <1>1, <1>5, <1>10 DEF TellPresence
    <2> QED BY <1>4, <1>10, <2>1
  <1>11. ASSUME NEW c \in Conn, conns[c].phase = "serving"
         PROVE  Cleared(conns'[c], conns[c], InstanceID(db', conns[c].room))
    <2>1. Cleared(told[c], conns[c], InstanceID(db', conns[c].room)) /\ Told(conns'[c], told[c])
      BY <1>3, <1>9, <1>11
    <2>2. Says(conns'[c], HistoryCleared(InstanceID(db', conns[c].room)))
      BY <2>1 DEF Cleared, Says, Told, Grows
    <2> QED BY <2>1, <2>2 DEF Cleared, Told, Grows
  <1>12. \A c \in Conn : Alike(conns'[c], conns[c])
    <2>1. \A c \in Conn : Formed(conns'[c]) /\ Formed(conns[c])
      BY <1>0, <1>9, Phases
    <2> QED BY <1>10, <1>11, <2>1 DEF Alike, Cleared
  <1>13. conns' = [c \in Conn |-> conns'[c]]
    BY <1>1 DEF TellPresence
  <1>14. RowsDrawn'
    BY <1>2 DEF RowsDrawn
  <1>15. ServerInv'
    BY <1>1, <1>2, <1>9, <1>12, <1>13, <1>14, NewsKeeps DEF ServerInv
  <1> QED BY <1>2, <1>10, <1>11, <1>15

LEMMA ServerStep ==
    ASSUME ServerInv, [Next]_vars
    PROVE  ServerInv'
  <1>0. db.last \in Nat /\ conns \in [Conn -> ConnsOf(db.last)]
    BY DEF ServerInv, Databases
  <1>1. ASSUME NEW c \in Conn, Connect(c) PROVE ServerInv'
    <2>1. ASSUME NEW r \in Room, NEW n \in Name, NEW o \in Owner, NEW inst,
                 NEW after \in -1 .. (db.last + 1), Join(c, r, n, o, inst, after)
          PROVE  ServerInv'
      <3>1. after \in Int
        BY <1>0
      <3> QED BY <2>1, <3>1, JoinKeeps
    <2> QED BY <1>1, <2>1, ConnectionKeeps DEF Connect
  <1>2. ASSUME NEW c \in Conn, Request(c) PROVE ServerInv'
    <2>1. CASE HandleFails(c, "send")
      BY <2>1, FailKeeps DEF HandleFails, Handles, Asked
    <2> QED BY <1>2, <2>1, SendKeeps, RecallKeeps, HistoryKeeps, SyncKeeps, SyncErrorKeeps DEF Request
  <1>3. ASSUME NEW c \in Conn, WriteFrame(c) \/ Cancel(c) \/ Leave(c) PROVE ServerInv'
    BY <1>3, WriteKeeps, CancelKeeps, LeaveKeeps
  <1>4. CASE ClearHistory \/ Close \/ Restart
    BY <1>4, ClearKeeps, CloseKeeps, RestartKeeps
  <1>5. ASSUME NEW upTo \in 1 .. db.last, Age(upTo) PROVE ServerInv'
    <2>1. upTo \in Nat
      BY <1>0
    <2> QED BY <1>5, <2>1, AgeKeeps
  <1>6. CASE UNCHANGED vars
    BY <1>6, IdleKeeps
  <1> QED BY <1>1, <1>2, <1>3, <1>4, <1>5, <1>6 DEF Next

LEMMA ServerInit == Init => ServerInv
  <1> SUFFICES ASSUME Init PROVE ServerInv
    OBVIOUS
  <1>1. Formed(Free) /\ Free.phase # "serving" /\ DOMAIN sessions = {}
    BY DEF Formed, Free, Init
  <1>2. SessionInv
    BY <1>1 DEF Init, SessionInv, NamesExclusive, Registered, Serving
  <1>3. NewDb \in Databases /\ NewDb.rows = {}
    <2>1. [r \in Room |-> 0] \in [Room -> Nat]
      OBVIOUS
    <2> QED BY <2>1 DEF NewDb, Databases, Row
  <1>4. db.last = 0 /\ Free \in ConnsOf(0)
    BY PlainTyped DEF Init, NewDb
  <1>5. conns \in [Conn -> ConnsOf(db.last)] /\ RowsDrawn
    BY <1>3, <1>4 DEF Init, RowsDrawn
  <1> QED BY <1>2, <1>3, <1>5 DEF Init, ServerInv

\* The database, the map and every session, frame by frame, keep the shapes of
\* TypeOK, whatever clients ask for and whatever breaks: an answer carries the
\* id of a request of its kind, only rows of the room file are sent, cursors
\* never go below zero, and map entries are connections.
THEOREM ServerIsTyped == Spec => []TypeOK
  <1>1. ServerInv => TypeOK
    <2> SUFFICES ASSUME ServerInv PROVE TypeOK
      OBVIOUS
    <2>1. ASSUME NEW c \in Conn PROVE conns[c] \in Connections
      <3>1. conns[c] \in ConnsOf(db.last)
        BY DEF ServerInv
      <3>2. CASE conns[c] = Free \/ conns[c] \in [phase : {"reading"}, live : BOOLEAN]
                  \/ conns[c] \in SessionsOf(db.last)
        BY <3>2 DEF Connections, SessionsOf
      <3>3. CASE \E live \in BOOLEAN, code \in ErrorCodes : conns[c] = Refused(live, code)
        <4>1. PICK live \in BOOLEAN, code \in ErrorCodes : conns[c] = Refused(live, code)
          BY <3>3
        <4>2. Error("join", code) \in SoundFrames(0)
          BY FramesTyped DEF Asked
        <4>3. <<Error("join", code)>> \in Seq(Frames)
          BY <4>2 DEF SoundFrames
        <4>4. conns[c] \in [phase : {"refused"}, live : BOOLEAN, outgoing : Seq(Frames)]
          BY <4>1, <4>3 DEF Refused
        <4> QED BY <4>4 DEF Connections
      <3> QED BY <3>1, <3>2, <3>3 DEF ConnsOf
    <2>2. \A key \in DOMAIN sessions : sessions[key] \in Conn
      BY DEF ServerInv, SessionInv, NamesExclusive, Registered, Serving
    <2> QED BY <2>1, <2>2 DEF ServerInv, SessionInv, TypeOK
  <1> QED BY <1>1, ServerInit, ServerStep, PTL DEF Spec

\* A nickname has one owner in a room, and a session is found under its own
\* room and name until it leaves (NamesExclusive).
THEOREM NamesAreExclusive == Spec => []NamesExclusive
  <1>1. ServerInv => NamesExclusive
    BY DEF ServerInv, SessionInv
  <1> QED BY <1>1, ServerInit, ServerStep, PTL DEF Spec

\* The peers that watch the frames influence nothing: with them the server
\* does what it does without (FSpec, and so every run of ChatFeed, is about
\* ChatServer's own behaviour).
THEOREM ObserverIsPassive == FSpec => Spec
  <1>1. FInit => Init
    BY DEF FInit
  <1>2. ASSUME [FNext]_fvars PROVE [Next]_vars
    <2>1. CASE UNCHANGED fvars
      BY <2>1 DEF fvars
    <2>2. ASSUME NEW c \in Conn, FConnect(c) PROVE Connect(c)
      BY <2>2 DEF FConnect, Connect
    <2>3. CASE FNext
      BY <2>2, <2>3 DEF FNext, Next
    <2> QED BY <1>2, <2>1, <2>3
  <1> QED BY <1>1, <1>2, PTL DEF FSpec, Spec

\* The same of the server with its observer.
COROLLARY NamesAreExclusiveInFeed == FSpec => []NamesExclusive
  BY NamesAreExclusive, ObserverIsPassive, PTL

\* The shapes of the server with its observer.
COROLLARY ServerIsTypedInFeed == FSpec => []TypeOK
  BY ServerIsTyped, ObserverIsPassive, PTL

=============================================================================
