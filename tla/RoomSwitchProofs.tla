-------------------------- MODULE RoomSwitchProofs --------------------------
(***************************************************************************)
(* That the room switch of the terminal client keeps its promises, for any *)
(* number of clients and requests and any length of their channels.        *)
(*                                                                         *)
(* The properties speak of what is on the screen; why they hold lies in    *)
(* the channels: what a client has still to say about a request, a lost    *)
(* link or an emptied room must come before whatever relies on it. Agrees  *)
(* states that of one channel and the model it feeds, once for the room on *)
(* the screen and once for the candidate. Says and Takes show that it is   *)
(* kept at both ends of the channel; the rest is one lemma per handler.    *)
(***************************************************************************)
EXTENDS RoomSwitch, TLAPS

-----------------------------------------------------------------------------
(* Types *)

Runs == {"unused", "joining", "syncing", "online", "broken", "done"}
EventTypes ==
    {"welcome", "connected", "disconnected", "message", "history_cleared",
     "answer", "error"} \cup Refusals
Numbers == Sends \cup Recalls
EventSet ==
    {e \in [type : EventTypes, req : {0} \cup Numbers, resumed : BOOLEAN] :
        e.req # 0 => e.type \in {"answer", "error"}}
SomeNetwork == Network \cup {NoNetwork}

ClientSet ==
    [run : Runs, known : BOOLEAN, sent : SUBSET Numbers, events : Seq(EventSet)]
ModelSet ==
    [network : SomeNetwork, joined : BOOLEAN, connected : BOOLEAN,
     shown : SUBSET SomeNetwork, pending : SUBSET Sends, recalls : SUBSET Recalls,
     draft : SomeNetwork]
DialogSet == [open : BOOLEAN, waiting : BOOLEAN, failed : BOOLEAN, confirm : BOOLEAN]

Types ==
    /\ net \in [Network -> ClientSet]
    /\ model \in ModelSet /\ target \in ModelSet /\ dialog \in DialogSet
    /\ reading \in [Network -> {0, 1}]
    /\ timers \subseteq Network /\ pasting \subseteq Network
    /\ quit \in BOOLEAN
    /\ user \in [unseen : BOOLEAN, agreed : BOOLEAN]

-----------------------------------------------------------------------------
(* The invariant *)

\* Of a client alone: requests live and die with the link, an instance is known
\* once a join has succeeded, and a refusal is the last word.
Channel(c) ==
    /\ c.sent # {} => c.run = "online"
    /\ c.run \in {"syncing", "online"} => c.known
    /\ \A i \in DOMAIN c.events :
        c.events[i].type \in Refusals => i = Len(c.events) /\ c.run = "done"

Anew(e) == e.type = "welcome" /\ ~e.resumed
Resumes(e) == e.type = "welcome" /\ e.resumed

\* Events after which nothing is shown and nothing waited for.
Empties(e) == e.type = "history_cleared" \/ Anew(e)
Ups == {"connected", "history_cleared"}

\* What is left on the screen of another room is gone before the model says
\* that it is connected.
Fresh(c, m) ==
    \/ m.shown \subseteq {m.network}
    \/ /\ c.known => \E j \in DOMAIN c.events : Empties(c.events[j])
       /\ \A i \in DOMAIN c.events :
            c.events[i].type = "connected" \/ Resumes(c.events[i]) =>
                \E j \in 1..(i - 1) : Empties(c.events[j])

\* A request waited for is under way, answered, or will be given up.
Known(c, m) ==
    \/ Requests(m) \subseteq c.sent \cup {c.events[i].req : i \in DOMAIN c.events}
    \/ c.run = "broken"
    \/ \E i \in DOMAIN c.events : Empties(c.events[i]) \/ c.events[i].type = "disconnected"

\* When the model comes to event k it has heard that the last link is gone.
DownBefore(c, m, k) ==
    /\ m.connected \/ Requests(m) # {} =>
         \E j \in 1..(k - 1) : c.events[j].type = "disconnected"
    /\ \A i \in 1..(k - 1) : c.events[i].type \in Ups =>
         \E j \in (i + 1)..(k - 1) : c.events[j].type = "disconnected"

\* A room that starts anew never takes a request with it unseen: the
\* "disconnected" that gives the requests up comes first.
Down(c, m) ==
    /\ c.run = "joining" => DownBefore(c, m, Len(c.events) + 1)
    /\ \A k \in DOMAIN c.events : Anew(c.events[k]) => DownBefore(c, m, k)

\* A model that was refused has heard everything.
Closes(c, m) ==
    ~m.joined => ~m.connected /\ Requests(m) = {} /\ c.run = "done" /\ c.events = <<>>

Agrees(c, m) == Fresh(c, m) /\ Known(c, m) /\ Down(c, m) /\ Closes(c, m)

\* A client not made yet is known to nobody.
Clients ==
    \A n \in Network :
        /\ Channel(net[n])
        /\ Running(n, "unused") =>
            /\ net[n] = Unused /\ reading[n] = 0
            /\ n \notin {model.network, target.network} \cup timers \cup pasting

Screen ==
    /\ model.draft \in {model.network, NoNetwork}
    /\ IF model.network = NoNetwork
       THEN ~model.joined /\ ~model.connected /\ Requests(model) = {} /\ ~dialog.open
       ELSE Agrees(net[model.network], model)
    /\ model.connected => model.shown \subseteq {model.network}

Candidate ==
    IF HasCandidate
    THEN /\ dialog.open /\ target.joined /\ target.draft = NoNetwork /\ Requests(target) = {}
         /\ target.shown \subseteq {target.network}
         /\ target.network # model.network
         /\ Agrees(net[target.network], target)
    ELSE target = NoCandidate

\* A dialog that waits has something to wait for, remembers what has failed, and
\* has the user's word if it says so.
Waiting ==
    dialog.waiting =>
        /\ dialog.open /\ Requests(model) # {}
        /\ user.unseen => dialog.failed
        /\ dialog.confirm => user.agreed

SwitchInv ==
    /\ Types /\ Clients /\ Screen /\ Candidate /\ Waiting
    /\ Attended /\ NothingLostUnasked

-----------------------------------------------------------------------------
(* One channel: what is put in *)

LEMMA EventTyped ==
    ASSUME NEW type \in EventTypes
    PROVE  /\ Event(type) \in EventSet
           /\ type \in {"answer", "error"} => \A r \in Numbers : Answer(type, r) \in EventSet
           /\ \A b \in BOOLEAN : Welcome(b) \in EventSet
  BY DEF Event, EventSet, Answer, Welcome, EventTypes

LEMMA Appended ==
    ASSUME NEW q \in Seq(EventSet), NEW e \in EventSet
    PROVE  /\ Append(q, e) \in Seq(EventSet)
           /\ Len(Append(q, e)) = Len(q) + 1
           /\ DOMAIN q = 1..Len(q) /\ DOMAIN Append(q, e) = 1..(Len(q) + 1)
           /\ \A i \in 1..Len(q) : Append(q, e)[i] = q[i]
           /\ Append(q, e)[Len(q) + 1] = e
           /\ Len(q) \in Nat
  OBVIOUS

LEMMA Popped ==
    ASSUME NEW q \in Seq(EventSet), q # <<>>
    PROVE  /\ Tail(q) \in Seq(EventSet)
           /\ Len(q) \in Nat \ {0} /\ Len(Tail(q)) = Len(q) - 1
           /\ DOMAIN q = 1..Len(q) /\ DOMAIN Tail(q) = 1..(Len(q) - 1)
           /\ \A i \in 1..(Len(q) - 1) : Tail(q)[i] = q[i + 1]
           /\ Head(q) = q[1] /\ Head(q) \in EventSet
  OBVIOUS

\* What a client may say next, of c, and what that makes of it: d.
Says(c, d, e) ==
    /\ d.sent = c.sent \/ (c.run = "online" /\ d.sent \subseteq c.sent /\ c.sent \ d.sent \subseteq {e.req})
    /\ \/ e.type \in Refusals /\ c.run = "joining" /\ d.run = "done" /\ d.known = c.known
       \/ /\ e.type = "welcome" /\ c.run = "joining" /\ d.run = "syncing" /\ d.known
          /\ e.resumed => c.known
       \/ e.type = "message" /\ c.run \in {"syncing", "online"} /\ d.run = c.run /\ d.known = c.known
       \/ e.type = "connected" /\ c.run = "syncing" /\ d.run = "online" /\ d.known = c.known
       \/ e.type = "history_cleared" /\ c.run \in {"syncing", "online"} /\ d.run = "online" /\ d.known = c.known
       \/ e.type \in {"answer", "error"} /\ c.run = "online" /\ d.run = "online" /\ d.known = c.known
       \/ e.type = "disconnected" /\ c.run = "broken" /\ d.run = "joining" /\ d.known = c.known

Breaks(c, d) ==
    /\ c.run \in {"joining", "syncing", "online"} /\ d.run = "broken"
    /\ d.known = c.known /\ d.sent = {} /\ d.events = c.events

LEMMA WelcomeFields ==
    ASSUME NEW b \in BOOLEAN
    PROVE  Welcome(b).type = "welcome" /\ Welcome(b).resumed = b /\ Welcome(b).req = 0
  BY DEF Welcome, Event

LEMMA ChannelSays ==
    ASSUME NEW c \in ClientSet, NEW d \in ClientSet, NEW e \in EventSet,
           Channel(c), d.events = Append(c.events, e), Says(c, d, e)
    PROVE  Channel(d) /\ c.run \notin {"unused", "done"} /\ d.run # "unused"
  <1>0. c.events \in Seq(EventSet) /\ c.sent \in SUBSET Numbers /\ d.sent \in SUBSET Numbers BY DEF ClientSet
  <1>1. c.run \notin {"unused", "done"} /\ d.run # "unused" BY DEF Says
  <1>2. d.sent # {} => d.run = "online" BY <1>0 DEF Says, Channel
  <1>3. d.run \in {"syncing", "online"} => d.known BY DEF Says, Channel
  <1>4. \A i \in DOMAIN c.events : c.events[i].type \notin Refusals
    BY <1>1 DEF Channel
  <1>5. e.type \in Refusals => d.run = "done" BY DEF Anew, Resumes, Says, Refusals
  <1>6. \A i \in DOMAIN d.events : d.events[i].type \in Refusals
            => i = Len(d.events) /\ d.run = "done"
    BY <1>0, <1>4, <1>5, Appended
  <1> QED BY <1>1, <1>2, <1>3, <1>6 DEF Channel

\* Whatever a client says, in the order of its states, Agrees is kept.
LEMMA AgreesSays ==
    ASSUME NEW c \in ClientSet, NEW d \in ClientSet, NEW e \in EventSet, NEW m \in ModelSet,
           Channel(c), Agrees(c, m), d.events = Append(c.events, e), Says(c, d, e)
    PROVE  Agrees(d, m)
  <1>0. c.events \in Seq(EventSet) /\ c.sent \in SUBSET Numbers /\ d.sent \in SUBSET Numbers
        /\ Requests(m) \in SUBSET Numbers
    BY DEF ClientSet, Requests, ModelSet, Numbers
  <1> DEFINE L == Len(c.events)
  <1>1. /\ DOMAIN c.events = 1..L /\ DOMAIN d.events = 1..(L + 1) /\ Len(d.events) = L + 1
        /\ \A i \in 1..L : d.events[i] = c.events[i]
        /\ d.events[L + 1] = e /\ L \in Nat
    BY <1>0, Appended
  <1> HIDE DEF L
  <1>2. Fresh(d, m)
    <2>1. SUFFICES ASSUME ~(m.shown \subseteq {m.network}) PROVE Fresh(d, m) BY DEF Fresh
    <2>2. c.known => \E j \in 1..L : Empties(d.events[j]) BY <1>1, <2>1 DEF Agrees, Fresh
    <2>3. Empties(e) \/ (d.known => c.known) BY DEF Anew, Resumes, Says, Empties
    <2>4. d.known => \E j \in 1..(L + 1) : Empties(d.events[j]) BY <1>1, <2>2, <2>3
    <2>5. e.type = "connected" \/ Resumes(e) => c.known
      BY DEF Anew, Resumes, Says, Channel, Refusals
    <2>6. ASSUME NEW i \in 1..L, d.events[i].type = "connected" \/ Resumes(d.events[i])
          PROVE \E j \in 1..(i - 1) : Empties(d.events[j])
      <3>1. PICK j \in 1..(i - 1) : Empties(c.events[j]) BY <1>1, <2>1, <2>6 DEF Agrees, Fresh
      <3> QED BY <1>1, <3>1
    <2>7. ASSUME e.type = "connected" \/ Resumes(e)
          PROVE \E j \in 1..L : Empties(d.events[j])
      BY <2>2, <2>5, <2>7
    <2>8. ASSUME NEW i \in 1..(L + 1), d.events[i].type = "connected" \/ Resumes(d.events[i])
          PROVE \E j \in 1..(i - 1) : Empties(d.events[j])
      <3>1. CASE i = L + 1
        <4>1. i - 1 = L BY <1>1, <3>1
        <4> QED BY <1>1, <2>7, <2>8, <3>1, <4>1
      <3>2. CASE i # L + 1
        <4>1. i \in 1..L BY <1>1, <3>2
        <4> QED BY <2>6, <2>8, <4>1
      <3> QED BY <3>1, <3>2
    <2> QED BY <1>1, <2>4, <2>8 DEF Fresh
  <1>3. Known(d, m)
    <2> DEFINE Said(q) == {q[i].req : i \in DOMAIN q}
               Flush(x) == Empties(x) \/ x.type = "disconnected"
    <2>1. Said(c.events) \subseteq Said(d.events) /\ e.req \in Said(d.events) BY <1>1
    <2>2. c.sent \cup Said(c.events) \subseteq d.sent \cup Said(d.events) BY <2>1 DEF Says
    <2>3. c.run = "broken" => Flush(e) BY DEF Anew, Resumes, Says, Refusals
    <2>4. (\E i \in DOMAIN c.events : Flush(c.events[i])) => \E i \in DOMAIN d.events : Flush(d.events[i])
      BY <1>1
    <2>5. Flush(e) => \E i \in DOMAIN d.events : Flush(d.events[i]) BY <1>1
    <2>6. \/ Requests(m) \subseteq c.sent \cup Said(c.events)
          \/ c.run = "broken"
          \/ \E i \in DOMAIN c.events : Flush(c.events[i])
      BY DEF Agrees, Known
    <2>7. \/ Requests(m) \subseteq d.sent \cup Said(d.events)
          \/ \E i \in DOMAIN d.events : Flush(d.events[i])
      <3> HIDE DEF Said, Flush
      <3> QED BY <2>2, <2>3, <2>4, <2>5, <2>6
    <2> QED BY <2>7 DEF Known
  <1>4. Down(d, m)
    <2>1. ASSUME NEW k \in 1..(L + 1), DownBefore(c, m, k) PROVE DownBefore(d, m, k)
      <3>1. \A i \in 1..(k - 1) : d.events[i] = c.events[i] BY <1>1
      <3>2. ASSUME m.connected \/ Requests(m) # {}
            PROVE  \E j \in 1..(k - 1) : d.events[j].type = "disconnected"
        BY <2>1, <3>1, <3>2 DEF DownBefore
      <3>3. ASSUME NEW i \in 1..(k - 1), d.events[i].type \in Ups
            PROVE  \E j \in (i + 1)..(k - 1) : d.events[j].type = "disconnected"
        <4>1. PICK j \in (i + 1)..(k - 1) : c.events[j].type = "disconnected"
          BY <2>1, <3>1, <3>3 DEF DownBefore
        <4>2. j \in 1..(k - 1) BY <1>1, <4>1
        <4> QED BY <3>1, <4>1, <4>2
      <3> QED BY <3>2, <3>3 DEF DownBefore
    <2>2. ASSUME d.run = "joining" PROVE DownBefore(d, m, L + 2)
      <3>1. e.type = "disconnected" BY <2>2 DEF Says
      <3> QED BY <1>1, <3>1 DEF DownBefore, Ups
    <2>3. Anew(e) => c.run = "joining" BY DEF Anew, Resumes, Says, Refusals
    <2>4. ASSUME NEW k \in 1..(L + 1), Anew(d.events[k]) PROVE DownBefore(d, m, k)
      <3>1. CASE k = L + 1
        <4>1. c.run = "joining" BY <1>1, <2>3, <2>4, <3>1
        <4>2. DownBefore(c, m, L + 1) BY <4>1 DEF Agrees, Down, L
        <4> QED BY <2>1, <3>1, <4>2
      <3>2. CASE k # L + 1
        <4>1. k \in 1..L BY <1>1, <3>2
        <4>2. DownBefore(c, m, k) BY <1>1, <2>4, <4>1 DEF Agrees, Down
        <4> QED BY <2>1, <4>2
      <3> QED BY <3>1, <3>2
    <2>5. Len(d.events) + 1 = L + 2 BY <1>1
    <2> QED BY <1>1, <2>2, <2>4, <2>5 DEF Down
  <1>5. Closes(d, m)
    BY DEF Agrees, Closes, Says
  <1> QED BY <1>2, <1>3, <1>4, <1>5 DEF Agrees

LEMMA BreakAgrees ==
    ASSUME NEW c \in ClientSet, NEW d \in ClientSet, NEW m \in ModelSet,
           Channel(c), Breaks(c, d)
    PROVE  /\ Channel(d) /\ c.run \notin {"unused", "done"} /\ d.run # "unused"
           /\ Agrees(c, m) => Agrees(d, m)
  <1>1. Channel(d) /\ c.run \notin {"unused", "done"} /\ d.run # "unused" BY DEF Channel, Breaks
  <1>2. ASSUME Agrees(c, m) PROVE Agrees(d, m)
    <2>1. Fresh(d, m) BY <1>2 DEF Fresh, Breaks, Agrees
    <2>2. Known(d, m) BY DEF Known, Breaks
    <2>3. Down(d, m) BY <1>2 DEF Down, DownBefore, Breaks, Agrees
    <2>4. Closes(d, m) BY <1>2 DEF Closes, Breaks, Agrees
    <2> QED BY <2>1, <2>2, <2>3, <2>4 DEF Agrees
  <1> QED BY <1>1, <1>2

\* What event e makes of model m, as far as the proofs need it: a.
Applied(m, e, a) ==
    /\ a \in ModelSet /\ a.network = m.network /\ a.draft = m.draft
    /\ Requests(a) \subseteq Requests(m)
    /\ a.connected =
         IF e.type \in {"connected", "history_cleared"} THEN TRUE
         ELSE IF e.type \in {"disconnected", "refused"} THEN FALSE ELSE m.connected
    /\ a.joined = (m.joined /\ e.type # "refused")
    /\ Empties(e) => a.shown = {}
    /\ a.shown \subseteq m.shown \cup {m.network}
    /\ Empties(e) \/ e.type = "disconnected" => Requests(a) = {}
    /\ e.type \in {"answer", "error"} => Requests(a) = Requests(m) \ {e.req}
    /\ ~(Empties(e) \/ e.type \in {"disconnected", "answer", "error"}) =>
         Requests(a) = Requests(m)

LEMMA ApplyFields ==
    ASSUME NEW m \in ModelSet, NEW e \in EventSet, NEW n \in Network,
           m.network = n, e.type # "upgrade_required"
    PROVE  Applied(m, e, Apply(m, n, e))
  <1> DEFINE a == Apply(m, n, e)
  <1>0. e.type \in EventTypes \ {"upgrade_required"} BY DEF EventSet
  <1>1. CASE e.type \in {"connected", "disconnected", "refused"}
    BY <1>1 DEF Apply, AfterDisconnect, ModelSet, Applied, Requests, Empties, Anew, SomeNetwork
  <1>2. CASE e.type = "welcome"
    BY <1>2 DEF Apply, Cleared, ModelSet, Applied, Requests, Empties, Anew, SomeNetwork
  <1>3. CASE e.type = "history_cleared"
    BY <1>3 DEF Apply, Cleared, ModelSet, Applied, Requests, Empties, Anew, SomeNetwork
  <1>4. CASE e.type = "message"
    BY <1>4 DEF Apply, ModelSet, Applied, Requests, Empties, Anew, SomeNetwork
  <1>5. CASE e.type = "answer"
    BY <1>5 DEF Apply, ModelSet, Applied, Requests, Empties, Anew, SomeNetwork
  <1>6. CASE e.type = "error"
    BY <1>6 DEF Apply, AfterError, ModelSet, Applied, Requests, Empties, Anew, SomeNetwork
  <1> QED BY <1>0, <1>1, <1>2, <1>3, <1>4, <1>5, <1>6 DEF EventTypes, Refusals

\* The model connected by event e, a, shows its own room only.
OwnRoom(e, a) ==
    e.type \in {"connected", "history_cleared"} => a.shown \subseteq {a.network}

\* Taking the first event and applying it keeps Agrees, too.
LEMMA Takes ==
    ASSUME NEW c \in ClientSet, NEW m \in ModelSet, NEW n \in Network,
           NEW d \in ClientSet, NEW e \in EventSet, NEW a \in ModelSet,
           m.network = n, Channel(c), Agrees(c, m), c.events # <<>>, e = Head(c.events),
           d = [c EXCEPT !.events = Tail(@)], a = Apply(m, n, e), e.type # "upgrade_required"
    PROVE  /\ Agrees(d, a)
           /\ OwnRoom(e, a)
           /\ Anew(e) => Requests(m) = {} /\ ~m.connected
           /\ m.joined
  <1>0. c.events \in Seq(EventSet) /\ c.sent \in SUBSET Numbers
        /\ d.run = c.run /\ d.known = c.known /\ d.sent = c.sent /\ d.events = Tail(c.events)
    BY DEF ClientSet
  <1> DEFINE L == Len(c.events)
  <1>1. /\ DOMAIN c.events = 1..L /\ DOMAIN d.events = 1..(L - 1) /\ Len(d.events) = L - 1
        /\ \A i \in 1..(L - 1) : d.events[i] = c.events[i + 1]
        /\ c.events[1] = e /\ L \in Nat \ {0} /\ e \in EventSet
    BY <1>0, Popped
  <1> HIDE DEF L
  <1>2. /\ a \in ModelSet /\ a.network = n
        /\ Requests(a) \subseteq Requests(m) /\ Requests(m) \subseteq Numbers
        /\ a.connected =
             IF e.type \in {"connected", "history_cleared"} THEN TRUE
             ELSE IF e.type \in {"disconnected", "refused"} THEN FALSE ELSE m.connected
        /\ a.joined = (m.joined /\ e.type # "refused")
        /\ Empties(e) => a.shown = {}
        /\ a.shown \subseteq m.shown \cup {n}
        /\ Empties(e) \/ e.type = "disconnected" => Requests(a) = {}
        /\ e.type \in {"answer", "error"} => Requests(a) = Requests(m) \ {e.req}
        /\ ~(Empties(e) \/ e.type \in {"disconnected", "answer", "error"}) =>
             Requests(a) = Requests(m)
    <2>1. Requests(m) \subseteq Numbers BY DEF ModelSet, Requests, Numbers
    <2>2. Applied(m, e, a) BY <1>1, ApplyFields
    <2> QED BY <2>1, <2>2 DEF Applied
  <1>3. m.joined BY DEF Agrees, Closes
  <1>4. Anew(e) => Requests(m) = {} /\ ~m.connected
    <2>1. SUFFICES ASSUME Anew(e) PROVE Requests(m) = {} /\ ~m.connected OBVIOUS
    <2>2. DownBefore(c, m, 1) BY <1>1, <2>1 DEF Agrees, Down
    <2>3. 1..(1 - 1) = {} OBVIOUS
    <2> QED BY <2>2, <2>3 DEF DownBefore
  <1>5. e.type \in {"connected", "history_cleared"} => a.shown \subseteq {n}
    <2>1. e.type = "history_cleared" => a.shown \subseteq {n} BY <1>2 DEF Empties
    <2>2. ASSUME e.type = "connected" PROVE m.shown \subseteq {n}
      <3>1. 1 \in DOMAIN c.events /\ c.events[1].type = "connected" /\ 1..(1 - 1) = {}
        BY <1>1, <2>2
      <3> QED BY <3>1 DEF Agrees, Fresh
    <2> QED BY <1>2, <2>1, <2>2
  <1>6. Fresh(d, a)
    <2>1. SUFFICES ASSUME ~(a.shown \subseteq {n}) PROVE Fresh(d, a) BY <1>2 DEF Fresh
    <2>2. ~Empties(e) /\ ~(m.shown \subseteq {n}) BY <1>2, <2>1
    <2>3. ASSUME d.known PROVE \E j \in DOMAIN d.events : Empties(d.events[j])
      <3>1. PICK j \in 1..L : Empties(c.events[j]) BY <1>0, <1>1, <2>2, <2>3 DEF Agrees, Fresh
      <3>2. j # 1 BY <1>1, <2>2, <3>1
      <3>3. j - 1 \in 1..(L - 1) /\ d.events[j - 1] = c.events[j] BY <1>1, <3>2
      <3> QED BY <1>1, <3>1, <3>3
    <2>4. ASSUME NEW i \in DOMAIN d.events, d.events[i].type = "connected" \/ Resumes(d.events[i])
          PROVE \E j \in 1..(i - 1) : Empties(d.events[j])
      <3>1. i + 1 \in 1..L /\ d.events[i] = c.events[i + 1] BY <1>1
      <3>2. PICK j \in 1..i : Empties(c.events[j])
        BY <1>1, <2>2, <2>4, <3>1 DEF Agrees, Fresh
      <3>3. j # 1 BY <1>1, <2>2, <3>2
      <3>4. j - 1 \in 1..(i - 1) /\ j - 1 \in 1..(L - 1) BY <1>1, <3>1, <3>2, <3>3
      <3>5. d.events[j - 1] = c.events[j]
        <4>1. (j - 1) + 1 = j BY <3>2
        <4> QED BY <1>1, <3>4, <4>1
      <3> QED BY <3>2, <3>4, <3>5
    <2> QED BY <2>3, <2>4 DEF Fresh
  <1>7. Known(d, a)
    <2>1. CASE Empties(e) \/ e.type = "disconnected" BY <1>2, <2>1 DEF Known
    <2>2. CASE c.run = "broken" BY <1>0, <2>2 DEF Known
    <2>3. CASE (\E i \in DOMAIN c.events : Empties(c.events[i]) \/ c.events[i].type = "disconnected")
               /\ ~(Empties(e) \/ e.type = "disconnected")
      <3>1. PICK i \in 1..L : Empties(c.events[i]) \/ c.events[i].type = "disconnected"
        BY <1>1, <2>3
      <3>2. i # 1 BY <1>1, <2>3, <3>1
      <3>3. i - 1 \in 1..(L - 1) /\ d.events[i - 1] = c.events[i] BY <1>1, <3>2
      <3> QED BY <1>1, <3>1, <3>3 DEF Known
    <2>4. CASE Requests(m) \subseteq c.sent \cup {c.events[i].req : i \in DOMAIN c.events}
               /\ ~(Empties(e) \/ e.type = "disconnected")
      <3>1. ASSUME NEW r \in Requests(a), r \notin d.sent
            PROVE  r \in {d.events[i].req : i \in DOMAIN d.events}
        <4>1. r \in Requests(m) /\ r # 0 BY <1>2, <3>1, RequestAssumption DEF Numbers
        <4>2. PICK i \in 1..L : c.events[i].req = r BY <1>0, <1>1, <2>4, <3>1, <4>1
        <4>3. CASE i # 1
          <5>1. i - 1 \in 1..(L - 1) /\ d.events[i - 1] = c.events[i] BY <1>1, <4>3
          <5> QED BY <1>1, <4>2, <5>1
        <4>4. CASE i = 1
          <5>1. e.req = r BY <1>1, <4>2, <4>4
          <5>2. e.type \in {"answer", "error"} BY <1>1, <4>1, <5>1 DEF EventSet
          <5> QED BY <1>2, <3>1, <5>1, <5>2
        <4> QED BY <4>3, <4>4
      <3> QED BY <3>1 DEF Known
    <2> QED BY <2>1, <2>2, <2>3, <2>4 DEF Agrees, Known
  <1>8. Down(d, a)
    <2>1. ASSUME NEW k \in 1..L, DownBefore(c, m, k + 1) PROVE DownBefore(d, a, k)
      <3>0. /\ m.connected \/ Requests(m) # {} =>
                 \E j \in 1..k : c.events[j].type = "disconnected"
            /\ \A i \in 1..k : c.events[i].type \in Ups =>
                 \E j \in (i + 1)..k : c.events[j].type = "disconnected"
            /\ k \in Nat \ {0}
        <4>1. (k + 1) - 1 = k /\ k \in Nat \ {0} BY <1>1
        <4> QED BY <2>1, <4>1 DEF DownBefore
      <3>1. ASSUME NEW j \in 2..k PROVE j - 1 \in 1..(k - 1) /\ d.events[j - 1] = c.events[j]
        BY <1>1, <3>1
      <3>2. ASSUME a.connected \/ Requests(a) # {}
            PROVE \E j \in 1..(k - 1) : d.events[j].type = "disconnected"
        <4>1. CASE e.type \in Ups
          <5>1. PICK j \in 2..k : c.events[j].type = "disconnected"
            BY <1>1, <3>0, <4>1
          <5> QED BY <3>1, <5>1
        <4>2. CASE e.type \notin Ups
          <5>1. m.connected \/ Requests(m) # {} BY <1>2, <3>2, <4>2 DEF Ups
          <5>2. PICK j \in 1..k : c.events[j].type = "disconnected"
            BY <3>0, <5>1
          <5>3. j # 1
            <6>1. e.type = "disconnected" => ~a.connected /\ Requests(a) = {} BY <1>2
            <6> QED BY <1>1, <3>2, <5>2, <6>1
          <5>4. j \in 2..k BY <3>0, <5>3
          <5> QED BY <3>1, <5>2, <5>4
        <4> QED BY <4>1, <4>2
      <3>3. ASSUME NEW i \in 1..(k - 1), d.events[i].type \in Ups
            PROVE \E j \in (i + 1)..(k - 1) : d.events[j].type = "disconnected"
        <4>1. i + 1 \in 1..k /\ c.events[i + 1] = d.events[i] BY <1>1, <3>0
        <4>2. PICK j \in ((i + 1) + 1)..k : c.events[j].type = "disconnected"
          BY <3>0, <3>3, <4>1
        <4>3. j \in 2..k /\ j - 1 \in (i + 1)..(k - 1) BY <3>0, <4>2
        <4> QED BY <3>1, <4>2, <4>3
      <3> QED BY <3>2, <3>3 DEF DownBefore
    <2>2. ASSUME d.run = "joining" PROVE DownBefore(d, a, L)
      <3>1. DownBefore(c, m, L + 1) BY <1>0, <2>2 DEF Agrees, Down, L
      <3>2. L \in 1..L BY <1>1
      <3> QED BY <2>1, <3>1, <3>2
    <2>3. ASSUME NEW k \in DOMAIN d.events, Anew(d.events[k]) PROVE DownBefore(d, a, k)
      <3>1. k \in 1..L /\ k + 1 \in 1..L /\ c.events[k + 1] = d.events[k] BY <1>1
      <3>2. DownBefore(c, m, k + 1) BY <1>1, <2>3, <3>1 DEF Agrees, Down
      <3> QED BY <2>1, <3>1, <3>2
    <2>4. Len(d.events) + 1 = L BY <1>1
    <2> QED BY <2>2, <2>3, <2>4 DEF Down
  <1>9. Closes(d, a)
    <2>1. SUFFICES ASSUME ~a.joined PROVE ~a.connected /\ Requests(a) = {} /\ d.run = "done" /\ d.events = <<>>
      BY DEF Closes
    <2>2. e.type = "refused" BY <1>2, <1>3, <2>1
    <2>3. L = 1 /\ c.run = "done"
      <3>1. 1 \in DOMAIN c.events /\ c.events[1].type \in Refusals BY <1>1, <2>2 DEF Refusals
      <3> QED BY <3>1 DEF Channel, L
    <2>4. d.events = <<>> BY <1>0, <1>1, <2>3
    <2>5. c.sent = {} BY <2>3 DEF Channel
    <2>6. \A i \in DOMAIN c.events : ~Empties(c.events[i]) /\ c.events[i].type # "disconnected"
      BY <1>1, <2>2, <2>3 DEF Empties, Anew
    <2>0. e.req = 0 BY <1>1, <2>2 DEF EventSet
    <2>7. Requests(m) \subseteq {0} BY <2>0, <1>1, <2>3, <2>5, <2>6 DEF Agrees, Known
    <2>8. Requests(m) = {} BY <1>2, <2>7, RequestAssumption DEF Numbers
    <2> QED BY <1>0, <1>2, <2>2, <2>3, <2>4, <2>8
  <1> QED BY <1>3, <1>4, <1>5, <1>6, <1>7, <1>8, <1>9, <1>2 DEF Agrees, OwnRoom

LEMMA TakesChannel ==
    ASSUME NEW c \in ClientSet, Channel(c), c.events # <<>>, NEW d,
           d = [c EXCEPT !.events = Tail(@)]
    PROVE  d \in ClientSet /\ Channel(d) /\ d.run = c.run
  <1>1. /\ c.events \in Seq(EventSet) /\ d.events = Tail(c.events)
        /\ d.run = c.run /\ d.known = c.known /\ d.sent = c.sent /\ d \in ClientSet
    BY Popped DEF ClientSet
  <1>2. ASSUME NEW i \in DOMAIN d.events, d.events[i].type \in Refusals
        PROVE i = Len(d.events) /\ d.run = "done"
    <2>1. i + 1 \in DOMAIN c.events /\ c.events[i + 1] = d.events[i] BY <1>1, Popped
    <2>2. i + 1 = Len(c.events) /\ c.run = "done" BY <1>2, <2>1 DEF Channel
    <2>3. i \in Nat /\ Len(d.events) = Len(c.events) - 1 BY <1>1, Popped
    <2> QED BY <1>1, <2>2, <2>3, Popped
  <1> QED BY <1>1, <1>2 DEF Channel

LEMMA UnusedTyped ==
    /\ Unused \in ClientSet
    /\ Unused.run = "unused" /\ Unused.known = FALSE /\ Unused.sent = {} /\ Unused.events = <<>>
  <1>1. <<>> \in Seq(EventSet) /\ "unused" \in Runs BY DEF Runs
  <1> QED BY <1>1 DEF Unused, ClientSet

LEMMA Cancels ==
    ASSUME NEW f \in [Network -> ClientSet], NEW n \in SomeNetwork
    PROVE  /\ Cancelled(f, n) \in [Network -> ClientSet]
           /\ \A k \in Network \ {n} : Cancelled(f, n)[k] = f[k]
           /\ n \in Network => /\ Cancelled(f, n)[n].run = "done"
                               /\ Cancelled(f, n)[n].events = f[n].events
           /\ \A k \in Network : Channel(f[k]) => Channel(Cancelled(f, n)[k])
  <1>1. CASE n = NoNetwork BY <1>1, NetworkAssumption DEF Cancelled
  <1>2. CASE n \in Network /\ n # NoNetwork
    <2> DEFINE d == [Unused EXCEPT !.run = "done", !.events = f[n].events]
    <2>1. Cancelled(f, n) = [f EXCEPT ![n] = d] BY <1>2 DEF Cancelled
    <2>0. f[n].events \in Seq(EventSet) /\ "done" \in Runs BY <1>2 DEF ClientSet, Runs
    <2>2. d.run = "done" /\ d.sent = {} /\ d.events = f[n].events
      BY UnusedTyped DEF ClientSet
    <2>3. d \in ClientSet BY <2>0, UnusedTyped DEF ClientSet
    <2>4. Channel(f[n]) => Channel(d) BY <2>2 DEF Channel
    <2> HIDE DEF d
    <2> QED BY <1>2, <2>1, <2>2, <2>3, <2>4
  <1> QED BY <1>1, <1>2 DEF SomeNetwork

LEMMA NewAgrees ==
    ASSUME NEW m \in ModelSet, ~m.connected, m.joined, Requests(m) = {},
           NEW c, c = [Unused EXCEPT !.run = "joining"]
    PROVE  c \in ClientSet /\ Channel(c) /\ Agrees(c, m)
  <1>0. "joining" \in Runs BY DEF Runs
  <1>1. c.run = "joining" /\ c.known = FALSE /\ c.sent = {} /\ c.events = <<>>
    BY UnusedTyped DEF ClientSet
  <1>2. c \in ClientSet BY <1>0, UnusedTyped DEF ClientSet
  <1>3. Channel(c) BY <1>1 DEF Channel
  <1>4. DOMAIN c.events = {} /\ Len(c.events) = 0 BY <1>1
  <1>5. Fresh(c, m) BY <1>1, <1>4 DEF Fresh
  <1>6. Known(c, m) BY <1>1, <1>4 DEF Known
  <1>7. Down(c, m) BY <1>4 DEF Down, DownBefore
  <1>8. Closes(c, m) BY DEF Closes
  <1> QED BY <1>2, <1>3, <1>5, <1>6, <1>7, <1>8 DEF Agrees

LEMMA SameScreen ==
    ASSUME NEW c, NEW m, NEW a, Agrees(c, m), a.network = m.network, a.joined = m.joined,
           a.connected = m.connected, a.shown = m.shown, Requests(a) = Requests(m)
    PROVE  Agrees(c, a)
  <1>1. Fresh(c, a) BY DEF Agrees, Fresh
  <1>2. Known(c, a) BY DEF Agrees, Known
  <1>3. Down(c, a) BY DEF Agrees, Down, DownBefore
  <1>4. Closes(c, a) BY DEF Agrees, Closes
  <1> QED BY <1>1, <1>2, <1>3, <1>4 DEF Agrees

\* a is m with one more request, and another draft perhaps.
Asks(m, a, r) ==
    /\ a.network = m.network /\ a.joined = m.joined /\ a.connected = m.connected
    /\ a.shown = m.shown /\ Requests(a) = Requests(m) \cup {r}

CanAsk(c, m) == c.run = "online" /\ m.joined /\ m.connected

LEMMA Queues ==
    ASSUME NEW c \in ClientSet, NEW m \in ModelSet, NEW a \in ModelSet, NEW r \in Numbers,
           Channel(c), Agrees(c, m), CanAsk(c, m), Asks(m, a, r)
    PROVE  LET d == [c EXCEPT !.sent = @ \cup {r}]
           IN  d \in ClientSet /\ Channel(d) /\ Agrees(d, a) /\ d.run = "online"
  <1> DEFINE d == [c EXCEPT !.sent = @ \cup {r}]
  <1>1. d \in ClientSet /\ d.run = c.run /\ d.known = c.known /\ d.events = c.events
        /\ d.sent = c.sent \cup {r}
    BY DEF ClientSet
  <1> HIDE DEF d
  <1>2. Channel(d) BY <1>1 DEF Channel, CanAsk
  <1>3. Fresh(d, a) BY <1>1 DEF Agrees, Fresh, Asks
  <1>4. Known(d, a) BY <1>1 DEF Agrees, Known, Asks
  <1>5. Down(d, a) BY <1>1 DEF Agrees, Down, DownBefore, Asks, CanAsk
  <1>6. Closes(d, a) BY DEF Closes, Asks, CanAsk
  <1>7. d \in ClientSet /\ Channel(d) /\ Agrees(d, a) /\ d.run = "online"
    BY <1>1, <1>2, <1>3, <1>4, <1>5, <1>6 DEF Agrees, CanAsk
  <1> QED BY <1>7 DEF d

-----------------------------------------------------------------------------
(* The network *)

LEMMA NetworkKeeps ==
    ASSUME SwitchInv, NEW n \in Network, NEW d \in ClientSet, Channel(d),
           net[n].run \notin {"unused", "done"}, d.run # "unused",
           \A m \in ModelSet : Agrees(net[n], m) => Agrees(d, m),
           net' = [net EXCEPT ![n] = d],
           UNCHANGED <<model, dialog, target, reading, commands, quit, user>>
    PROVE  SwitchInv'
  <1> USE DEF SwitchInv
  <1>1. /\ net' \in [Network -> ClientSet] /\ net'[n] = d
        /\ \A k \in Network \ {n} : net'[k] = net[k]
    BY DEF Types
  <1>2. Types' BY <1>1 DEF Types, commands
  <1>3. Clients' BY <1>1 DEF Clients, Running, commands
  <1>4. Attended' BY <1>1 DEF Attended, Current, IsClosed, Running, Types, SomeNetwork
  <1>5. Screen'
    <2>1. model \in ModelSet BY DEF Types
    <2>2. model.network # NoNetwork => Agrees(net'[model.network], model)
      BY <1>1, <2>1 DEF Screen, ModelSet, SomeNetwork
    <2> QED BY <2>2 DEF Screen
  <1>6. Candidate'
    <2>1. target \in ModelSet BY DEF Types
    <2>2. HasCandidate => Agrees(net'[target.network], target)
      BY <1>1, <2>1 DEF Candidate, ModelSet, SomeNetwork, HasCandidate
    <2> QED BY <2>2 DEF Candidate, HasCandidate
  <1>7. Waiting' BY DEF Waiting
  <1>8. NothingLostUnasked' BY DEF NothingLostUnasked, HasCandidate
  <1> QED BY <1>2, <1>3, <1>4, <1>5, <1>6, <1>7, <1>8

LEMMA EmitKeeps ==
    ASSUME SwitchInv, NEW n \in Network, NEW e \in EventSet, NEW new \in ClientSet,
           new.events = net[n].events, Emit(n, e, new), Says(net[n], new, e)
    PROVE  SwitchInv'
  <1> DEFINE d == [new EXCEPT !.events = Append(@, e)]
  <1>1. net[n] \in ClientSet /\ Channel(net[n]) BY DEF SwitchInv, Types, Clients
  <1>2. Append(new.events, e) \in Seq(EventSet) BY Appended DEF ClientSet
  <1>3. d \in ClientSet /\ d.events = Append(net[n].events, e)
        /\ d.run = new.run /\ d.known = new.known /\ d.sent = new.sent
    BY <1>2 DEF ClientSet
  <1>4. net' = [net EXCEPT ![n] = d] BY DEF Emit
  <1> HIDE DEF d
  <1>5. Says(net[n], d, e) BY <1>3 DEF Says
  <1>6. Channel(d) /\ net[n].run \notin {"unused", "done"} /\ d.run # "unused"
    BY <1>1, <1>3, <1>5, ChannelSays
  <1>7. \A m \in ModelSet : Agrees(net[n], m) => Agrees(d, m)
    BY <1>1, <1>3, <1>5, AgreesSays
  <1> QED BY <1>3, <1>4, <1>6, <1>7, NetworkKeeps DEF Emit

LEMMA NetworkActions ==
    ASSUME SwitchInv, NEW n \in Network, NetworkNext(n)
    PROVE  SwitchInv'
  <1> DEFINE c == net[n]
  <1>0. c \in ClientSet /\ Channel(c) /\ c.sent \subseteq Numbers /\ c.run \in Runs
    BY DEF SwitchInv, Types, Clients, ClientSet
  <1>1. CASE Refuse(n)
    <2>1. PICK code \in Refusals : Emit(n, Event(code), [c EXCEPT !.run = "done"])
      BY <1>1 DEF Refuse
    <2>2. Event(code) \in EventSet /\ Event(code).type = code BY EventTyped DEF EventTypes, Event
    <2>3. [c EXCEPT !.run = "done"] \in ClientSet BY <1>0 DEF ClientSet, Runs
    <2>4. Says(c, [c EXCEPT !.run = "done"], Event(code))
      BY <1>0, <1>1, <2>2 DEF Says, Refuse, Running, ClientSet
    <2> QED BY <1>0, <2>1, <2>2, <2>3, <2>4, EmitKeeps DEF ClientSet
  <1>2. CASE Join(n)
    <2> DEFINE d == [c EXCEPT !.run = "syncing", !.known = TRUE]
    <2>1. PICK b \in BOOLEAN : (b => c.known) /\ Emit(n, Welcome(b), d)
      BY <1>2 DEF Join
    <2>2. Welcome(b) \in EventSet BY EventTyped DEF EventTypes
    <2>3. d \in ClientSet /\ d.events = c.events BY <1>0 DEF ClientSet, Runs
    <2>4. Says(c, d, Welcome(b))
      BY <1>0, <1>2, <2>1, WelcomeFields DEF Says, Join, Running, ClientSet
    <2> QED BY <2>1, <2>2, <2>3, <2>4, EmitKeeps
  <1>3. CASE Bring(n)
    <2>1. Event("message") \in EventSet /\ Event("message").type = "message"
      BY EventTyped DEF EventTypes, Event
    <2>2. Says(c, c, Event("message")) BY <1>3, <2>1 DEF Says, Bring
    <2> QED BY <1>0, <1>3, <2>1, <2>2, EmitKeeps DEF Bring
  <1>4. CASE Sync(n)
    <2> DEFINE d == [c EXCEPT !.run = "online"]
    <2>1. Event("connected") \in EventSet /\ Event("connected").type = "connected"
      BY EventTyped DEF EventTypes, Event
    <2>2. d \in ClientSet /\ d.events = c.events BY <1>0 DEF ClientSet, Runs
    <2>3. Says(c, d, Event("connected")) BY <1>0, <1>4, <2>1 DEF Says, Sync, Running, ClientSet
    <2> QED BY <1>4, <2>1, <2>2, <2>3, EmitKeeps DEF Sync
  <1>5. CASE Clear(n)
    <2> DEFINE d == [c EXCEPT !.run = "online"]
    <2>1. Event("history_cleared") \in EventSet /\ Event("history_cleared").type = "history_cleared"
      BY EventTyped DEF EventTypes, Event
    <2>2. d \in ClientSet /\ d.events = c.events BY <1>0 DEF ClientSet, Runs
    <2>3. Says(c, d, Event("history_cleared")) BY <1>0, <1>5, <2>1 DEF Says, Clear, ClientSet
    <2> QED BY <1>5, <2>1, <2>2, <2>3, EmitKeeps DEF Clear
  <1>6. CASE Reply(n)
    <2>1. PICK r \in c.sent, type \in {"answer", "error"} :
              Emit(n, Answer(type, r), [c EXCEPT !.sent = @ \ {r}])
      BY <1>6 DEF Reply
    <2> DEFINE d == [c EXCEPT !.sent = @ \ {r}]
    <2>2. Answer(type, r) \in EventSet /\ Answer(type, r).type = type /\ Answer(type, r).req = r
      BY <1>0, EventTyped DEF EventTypes, Answer, Event
    <2>3. d \in ClientSet /\ d.events = c.events BY <1>0 DEF ClientSet
    <2>4. Says(c, d, Answer(type, r))
      BY <1>0, <1>6, <2>2 DEF Says, Reply, Running, ClientSet
    <2> QED BY <2>1, <2>2, <2>3, <2>4, EmitKeeps
  <1>7. CASE Disconnect(n)
    <2> DEFINE d == [c EXCEPT !.run = "joining"]
    <2>1. Event("disconnected") \in EventSet /\ Event("disconnected").type = "disconnected"
      BY EventTyped DEF EventTypes, Event
    <2>2. d \in ClientSet /\ d.events = c.events BY <1>0 DEF ClientSet, Runs
    <2>3. Says(c, d, Event("disconnected")) BY <1>0, <1>7, <2>1 DEF Says, Disconnect, Running, ClientSet
    <2> QED BY <1>7, <2>1, <2>2, <2>3, EmitKeeps DEF Disconnect
  <1>8. CASE Break(n)
    <2> DEFINE d == [c EXCEPT !.run = "broken", !.sent = {}]
    <2>1. net' = [net EXCEPT ![n] = d] BY <1>8 DEF Break
    <2>2. d \in ClientSet BY <1>0 DEF ClientSet, Runs
    <2>3. Breaks(c, d) BY <1>0, <1>8 DEF Breaks, Break, ClientSet
    <2> HIDE DEF d
    <2>4. \A m \in ModelSet : Agrees(c, m) => Agrees(d, m) BY <1>0, <2>2, <2>3, BreakAgrees
    <2>5. EmptyModel(NoNetwork) \in ModelSet BY DEF EmptyModel, ModelSet, SomeNetwork
    <2>6. Channel(d) /\ c.run \notin {"unused", "done"} /\ d.run # "unused"
      BY <1>0, <2>2, <2>3, <2>5, BreakAgrees
    <2> QED BY <1>8, <2>1, <2>2, <2>4, <2>6, NetworkKeeps DEF Break
  <1>9. CASE Collect(n)
    <2> USE DEF SwitchInv
    <2>1. /\ net' \in [Network -> ClientSet] /\ net'[n] = Unused
          /\ \A k \in Network \ {n} : net'[k] = net[k]
          /\ n \notin {model.network, target.network} \cup timers \cup pasting
          /\ reading[n] = 0
          /\ UNCHANGED <<model, dialog, target, reading, timers, pasting, quit, user>>
      BY <1>9, UnusedTyped DEF Types, Collect, commands
    <2>2. Types' BY <2>1 DEF Types
    <2>3. Channel(Unused) BY UnusedTyped DEF Channel
    <2>4. Clients' BY <2>1, <2>3 DEF Clients, Running
    <2>5. Attended' BY <2>1, UnusedTyped DEF Attended, Current, IsClosed, Running, Types, ModelSet, SomeNetwork
    <2>6. Screen' BY <2>1 DEF Screen, Types, ModelSet, SomeNetwork
    <2>7. Candidate' BY <2>1 DEF Candidate, Types, ModelSet, SomeNetwork, HasCandidate
    <2>8. Waiting' BY <2>1 DEF Waiting
    <2>9. NothingLostUnasked' BY <2>1 DEF NothingLostUnasked, HasCandidate
    <2> QED BY <2>2, <2>4, <2>5, <2>6, <2>7, <2>8, <2>9
  <1> HIDE DEF c
  <1> QED BY <1>1, <1>2, <1>3, <1>4, <1>5, <1>6, <1>7, <1>8, <1>9 DEF NetworkNext

-----------------------------------------------------------------------------
(* The handlers *)

\* The clients after the handler of an event has taken it: f.
Popping(f) ==
    /\ f \in [Network -> ClientSet]
    /\ \A k \in Network :
        /\ Channel(f[k]) /\ f[k].run = net[k].run
        /\ net[k].run = "unused" => f[k] = Unused
        /\ net[k].events = <<>> => f[k].events = <<>>

LEMMA PopsNothing ==
    ASSUME SwitchInv
    PROVE  Popping(net)
  BY DEF SwitchInv, Types, Clients, Popping, Running

LEMMA PopsOne ==
    ASSUME SwitchInv, NEW n \in Network, net[n].events # <<>>
    PROVE  /\ Popping(Pops(n)) /\ \A k \in Network \ {n} : Pops(n)[k] = net[k]
           /\ Pops(n)[n] = [net[n] EXCEPT !.events = Tail(@)]
  <1>1. net \in [Network -> ClientSet] /\ Channel(net[n]) BY DEF SwitchInv, Types, Clients
  <1>2. PICK d : d = [net[n] EXCEPT !.events = Tail(@)] OBVIOUS
  <1>3. d \in ClientSet /\ Channel(d) /\ d.run = net[n].run BY <1>1, <1>2, TakesChannel
  <1>4. Pops(n) = [net EXCEPT ![n] = d] BY <1>1, <1>2 DEF Pops
  <1>5. net[n].run # "unused" BY UnusedTyped DEF SwitchInv, Clients, Running
  <1>6. Pops(n) \in [Network -> ClientSet] /\ Pops(n)[n] = d
        /\ \A k \in Network \ {n} : Pops(n)[k] = net[k]
    BY <1>1, <1>3, <1>4
  <1>7. Popping(Pops(n)) BY <1>3, <1>5, <1>6 DEF Popping, SwitchInv, Clients, Running
  <1> QED BY <1>2, <1>6, <1>7

LEMMA NewUnused ==
    ASSUME SwitchInv, CanMake
    PROVE  /\ New \in Network /\ net[New].run = "unused" /\ net[New] = Unused /\ reading[New] = 0
           /\ New \notin {model.network, target.network} \cup timers \cup pasting
           /\ New # NoNetwork
  <1>1. New \in Network /\ Running(New, "unused") BY DEF CanMake, New
  <1> QED BY <1>1, NetworkAssumption DEF SwitchInv, Clients, Running

LEMMA EmptyTyped ==
    ASSUME NEW n \in SomeNetwork
    PROVE  /\ EmptyModel(n) \in ModelSet /\ EmptyModel(n).network = n
           /\ EmptyModel(n).joined = (n # NoNetwork) /\ EmptyModel(n).connected = FALSE
           /\ EmptyModel(n).shown = {} /\ EmptyModel(n).draft = NoNetwork
           /\ Requests(EmptyModel(n)) = {}
  BY DEF EmptyModel, ModelSet, Requests, SomeNetwork

\* submitRoomSwitch, from Enter and from continueRoomSwitch.
LEMMA SubmitKeeps ==
    ASSUME SwitchInv, ~HasCandidate, NEW f, Popping(f), NEW m \in ModelSet, NEW d \in DialogSet,
           m.network = model.network, model.network # NoNetwork,
           Agrees(f[model.network], m), m.draft \in {model.network, NoNetwork},
           m.connected => m.shown \subseteq {model.network},
           d.open, ~d.waiting, model' = m, Submit(f, reading, m, d),
           pasting' = pasting, quit' = quit,
           user' \in [unseen : BOOLEAN, agreed : BOOLEAN], ~user'.unseen,
           d.confirm => user'.agreed
    PROVE  SwitchInv'
  <1>0. /\ net \in [Network -> ClientSet] /\ reading \in [Network -> {0, 1}]
        /\ timers \subseteq Network /\ pasting \subseteq Network /\ quit \in BOOLEAN
        /\ model.network \in Network /\ model \in ModelSet
        /\ f \in [Network -> ClientSet] /\ \A k \in Network : Channel(f[k])
        /\ target = NoCandidate
    BY DEF SwitchInv, Types, ModelSet, SomeNetwork, Popping, Candidate
  <1> DEFINE wait == Requests(m) # {}
             ask == ~wait /\ m.draft # NoNetwork /\ ~d.confirm
             dial == ~wait /\ ~ask
  <1>1. CASE ~dial
    <2>1. /\ net' = f /\ target' = target /\ reading' = reading /\ timers' = timers
          /\ dialog' \in DialogSet /\ dialog'.open
          /\ dialog'.waiting => wait /\ (dialog'.confirm => d.confirm)
      BY <1>1 DEF Submit, DialogSet
    <2>2. Types' BY <1>0, <2>1 DEF Types, SwitchInv
    <2>3. Clients' BY <1>0, <2>1 DEF Clients, SwitchInv, Popping, Running
    <2>9. Current' = Current /\ Current \subseteq Network BY <1>0, <2>1 DEF Current, Types, SwitchInv, ModelSet, SomeNetwork
    <2>4. Attended'
      <3> HIDE DEF wait, ask, dial
      <3> QED BY <1>0, <2>1, <2>9 DEF Attended, SwitchInv, Popping, Running, IsClosed
    <2>5. Screen' BY <1>0, <2>1 DEF Screen
    <2>6. Candidate' BY <1>0, <2>1 DEF Candidate, HasCandidate
    <2>7. Waiting' BY <2>1 DEF Waiting
    <2>8. NothingLostUnasked' BY <2>1 DEF NothingLostUnasked, HasCandidate
    <2> QED BY <2>2, <2>3, <2>4, <2>5, <2>6, <2>7, <2>8 DEF SwitchInv
  <1>2. CASE dial
    <2>0. CanMake BY <1>2 DEF Submit
    <2>1. /\ New \in Network /\ net[New].run = "unused" /\ f[New] = Unused /\ reading[New] = 0
          /\ New \notin {model.network, target.network} \cup timers \cup pasting
          /\ New # NoNetwork
      BY <2>0, NewUnused DEF Popping
    <2> DEFINE N == New
               c == [Unused EXCEPT !.run = "joining"]
    <2>2. /\ net' = [f EXCEPT ![N] = c]
          /\ target' = EmptyModel(N) /\ reading' = [reading EXCEPT ![N] = @ + 1]
          /\ timers' = timers \cup {N}
          /\ dialog' \in DialogSet /\ dialog'.open /\ ~dialog'.waiting
          /\ Requests(m) = {} /\ (m.draft # NoNetwork => d.confirm)
      BY <1>2, <2>1, <1>0 DEF Submit, DialogSet, Started
    <2> HIDE DEF N, c
    <2>3. c \in ClientSet /\ Channel(c) /\ Agrees(c, EmptyModel(N)) /\ c.run = "joining"
      BY <2>1, EmptyTyped, NewAgrees, UnusedTyped DEF c, N, SomeNetwork, ClientSet
    <2>4. /\ N \in Network /\ net[N].run = "unused" /\ reading[N] = 0
          /\ N \notin {model.network, target.network} \cup timers \cup pasting
          /\ N # NoNetwork
      BY <2>1 DEF N
    <2>5. /\ net' \in [Network -> ClientSet] /\ net'[N] = c
          /\ \A k \in Network \ {N} : net'[k] = f[k]
          /\ reading' \in [Network -> {0, 1}] /\ reading'[N] = 1
          /\ \A k \in Network \ {N} : reading'[k] = reading[k]
      BY <1>0, <2>2, <2>3, <2>4
    <2>6. /\ target' \in ModelSet /\ target'.network = N /\ target'.joined
          /\ target'.shown = {} /\ target'.draft = NoNetwork /\ Requests(target') = {}
      BY <2>2, <2>4, EmptyTyped DEF SomeNetwork
    <2>7. Types' BY <1>0, <2>2, <2>4, <2>5, <2>6 DEF Types
    <2>8. Clients'
      BY <1>0, <2>2, <2>3, <2>4, <2>5, <2>6 DEF Clients, SwitchInv, Popping, Running
    <2>9. Attended'
      <3>1. \A k \in Network \ {N} : k \in Current' <=> k \in Current
        BY <1>0, <2>6, EmptyTyped DEF Current, NoCandidate, SomeNetwork
      <3>2. Current' \subseteq Network BY <1>0, <2>4, <2>6 DEF Current
      <3> QED BY <1>0, <2>4, <2>5, <2>6, <3>1, <3>2
          DEF Attended, SwitchInv, Popping, Running, Current, IsClosed
    <2>10. Screen'
      <3>1. net'[model.network] = f[model.network] BY <1>0, <2>4, <2>5
      <3> QED BY <1>0, <2>2, <3>1 DEF Screen
    <2>11. Candidate' BY <2>2, <2>3, <2>4, <2>5, <2>6 DEF Candidate, HasCandidate
    <2>12. Waiting' BY <2>2 DEF Waiting
    <2>13. NothingLostUnasked' BY <2>2 DEF NothingLostUnasked
    <2> QED BY <2>7, <2>8, <2>9, <2>10, <2>11, <2>12, <2>13 DEF SwitchInv
  <1> QED BY <1>1, <1>2

\* The candidate, when there is one, is given up, and the model stays.
LEMMA DropKeeps ==
    ASSUME SwitchInv, NEW f, Popping(f),
           \A k \in Network \ {target.network} : f[k] = net[k],
           net' = Cancelled(f, target.network), target' = NoCandidate, model' = model,
           dialog' \in DialogSet, ~dialog'.waiting, dialog'.open => dialog.open,
           user' \in [unseen : BOOLEAN, agreed : BOOLEAN],
           reading' \in [Network -> {0, 1}],
           \A k \in Network \ {target.network} :
               reading'[k] = reading[k] \/ (reading'[k] = 0 /\ IsClosed(k)),
           \A k \in Network : reading'[k] <= reading[k],
           timers' \subseteq timers, pasting' = pasting, quit' = quit
    PROVE  SwitchInv'
  <1>0. /\ net \in [Network -> ClientSet] /\ reading \in [Network -> {0, 1}]
        /\ timers \subseteq Network /\ pasting \subseteq Network /\ quit \in BOOLEAN
        /\ model.network \in SomeNetwork /\ model \in ModelSet
        /\ target.network \in SomeNetwork /\ target \in ModelSet
        /\ f \in [Network -> ClientSet] /\ \A k \in Network : Channel(f[k]) /\ f[k].run = net[k].run
        /\ NoNetwork \notin Network
    BY NetworkAssumption DEF SwitchInv, Types, ModelSet, Popping
  <1> DEFINE t == target.network
  <1>1. /\ net' \in [Network -> ClientSet]
        /\ \A k \in Network \ {t} : net'[k] = net[k]
        /\ t \in Network => net'[t].run = "done"
        /\ \A k \in Network : Channel(net'[k])
    BY <1>0, Cancels
  <1> HIDE DEF t
  <1>2. t \in SomeNetwork /\ t = target.network BY <1>0 DEF t
  <1>3. /\ NoCandidate \in ModelSet /\ NoCandidate.network = NoNetwork
        /\ NoCandidate.shown = {}
    BY EmptyTyped DEF NoCandidate, SomeNetwork
  <1>4. model.network # NoNetwork => model.network # t
    BY <1>0, <1>2 DEF SwitchInv, Candidate, HasCandidate, NoCandidate
  <1>5. Types' BY <1>0, <1>1, <1>3 DEF Types
  <1>6. Clients'
    <2>1. ASSUME NEW k \in Network, net'[k].run = "unused"
          PROVE  /\ net'[k] = Unused /\ reading'[k] = 0
                 /\ k \notin {model'.network, target'.network} \cup timers' \cup pasting'
      <3>1. k # t BY <1>1, <2>1
      <3>2. /\ net[k] = Unused /\ reading[k] = 0
            /\ k \notin {model.network, target.network} \cup timers \cup pasting
        BY <1>1, <2>1, <3>1 DEF SwitchInv, Clients, Running
      <3>3. reading'[k] = 0 BY <1>0, <3>1, <3>2, <1>2
      <3> QED BY <1>0, <1>1, <1>3, <3>1, <3>2, <3>3
    <2> QED BY <1>1, <2>1 DEF Clients, Running
  <1>7. Attended'
    <2>1. Current' = {model.network} \ {NoNetwork} BY <1>3 DEF Current
    <2>2. ASSUME NEW k \in Current' PROVE reading'[k] = 1 \/ IsClosed(k)'
      <3>1. k \in Network /\ k = model.network /\ k # t BY <1>0, <1>4, <2>1, <2>2 DEF SomeNetwork
      <3>2. reading[k] = 1 \/ IsClosed(k) BY <3>1, <1>0 DEF SwitchInv, Attended, Current
      <3>3. IsClosed(k)' <=> IsClosed(k) BY <1>1, <3>1 DEF IsClosed, Running
      <3> QED BY <3>1, <3>2, <3>3, <1>2
    <2>3. ASSUME NEW k \in Network, net'[k].run \notin {"unused", "done"}
          PROVE  k \in Current'
      <3>1. k # t /\ net[k].run \notin {"unused", "done"} BY <1>1, <2>3
      <3>2. k \in Current BY <3>1 DEF SwitchInv, Attended
      <3> QED BY <1>0, <1>2, <2>1, <3>1, <3>2 DEF Current
    <2> QED BY <2>2, <2>3 DEF Attended
  <1>8. Screen'
    <2>1. model.network # NoNetwork => net'[model.network] = net[model.network]
      BY <1>0, <1>1, <1>4 DEF SomeNetwork
    <2> QED BY <2>1 DEF SwitchInv, Screen
  <1>9. Candidate' BY <1>3 DEF Candidate, HasCandidate
  <1>10. Waiting' BY DEF Waiting
  <1>11. NothingLostUnasked' BY <1>3 DEF NothingLostUnasked, HasCandidate
  <1> QED BY <1>5, <1>6, <1>7, <1>8, <1>9, <1>10, <1>11 DEF SwitchInv

LEMMA QuitKeeps ==
    ASSUME SwitchInv, NEW f, Popping(f), Quit(f)
    PROVE  SwitchInv' /\ quit'
  <1> DEFINE t == target.network
             s == model.network
             g == Cancelled(f, t)
             no == EmptyModel(NoNetwork)
  <1>0. /\ s \in SomeNetwork /\ t \in SomeNetwork /\ NoNetwork \notin Network
        /\ f \in [Network -> ClientSet] /\ \A k \in Network : Channel(f[k]) /\ f[k].run = net[k].run
    BY NetworkAssumption DEF SwitchInv, Types, ModelSet, Popping
  <1>1. /\ net' = Cancelled(g, s) /\ model' = no /\ dialog' = Closed /\ target' = no
        /\ reading' = [k \in Network |-> 0] /\ timers' = {} /\ pasting' = {}
        /\ user' = [unseen |-> FALSE, agreed |-> FALSE] /\ quit' = TRUE
    BY DEF Quit, NoCandidate
  <1> HIDE DEF s, t, g, no
  <1>2. /\ g \in [Network -> ClientSet] /\ \A k \in Network \ {t} : g[k] = f[k]
        /\ t \in Network => g[t].run = "done"
        /\ \A k \in Network : Channel(g[k])
    BY <1>0, Cancels DEF g
  <1>3. /\ net' \in [Network -> ClientSet] /\ \A k \in Network \ {s} : net'[k] = g[k]
        /\ s \in Network => net'[s].run = "done"
        /\ \A k \in Network : Channel(net'[k])
    BY <1>0, <1>1, <1>2, Cancels
  <1>4. /\ no \in ModelSet /\ no.network = NoNetwork /\ ~no.joined /\ ~no.connected
        /\ no.shown = {} /\ no.draft = NoNetwork /\ Requests(no) = {}
    BY EmptyTyped DEF no, SomeNetwork
  <1>5. /\ Closed \in DialogSet /\ ~Closed.open /\ ~Closed.waiting BY DEF Closed, DialogSet
  <1>6. Types' BY <1>1, <1>3, <1>4, <1>5 DEF Types
  <1>7. \A k \in Network : net'[k].run \in {"unused", "done"}
    <2>1. SUFFICES ASSUME NEW k \in Network, k # s, k # t PROVE net[k].run \in {"unused", "done"}
      BY <1>0, <1>2, <1>3
    <2> QED BY <2>1 DEF SwitchInv, Attended, Current, s, t
  <1>8. \A k \in Network : net'[k].run = "unused" => net'[k] = Unused
    <2>1. ASSUME NEW k \in Network, net'[k].run = "unused" PROVE net'[k] = Unused
      <3>1. k # s /\ k # t /\ net'[k] = f[k] BY <1>0, <1>2, <1>3, <2>1
      <3> QED BY <1>0, <2>1, <3>1 DEF Popping
    <2> QED BY <2>1
  <1>9. Clients' BY <1>0, <1>1, <1>3, <1>4, <1>8 DEF Clients, Running
  <1>10. Attended' BY <1>1, <1>4, <1>7 DEF Attended, Current
  <1>11. Screen' BY <1>1, <1>4, <1>5 DEF Screen
  <1>12. Candidate' BY <1>1, <1>4 DEF Candidate, HasCandidate, NoCandidate, no
  <1>13. Waiting' BY <1>1, <1>5 DEF Waiting
  <1>14. NothingLostUnasked' BY <1>1, <1>4 DEF NothingLostUnasked, HasCandidate
  <1> QED BY <1>1, <1>6, <1>9, <1>10, <1>11, <1>12, <1>13, <1>14 DEF SwitchInv

\* What the screen does beside the network: the draft, the requests, the clipboard.
LEMMA ScreenKeeps ==
    ASSUME SwitchInv, model' \in ModelSet, model'.network = model.network,
           model'.joined = model.joined, model'.connected = model.connected,
           model'.shown = model.shown, model'.draft \in {model.network, NoNetwork},
           Requests(model') = Requests(model) \/ ~dialog.open,
           model'.draft = model.draft \/ ~dialog.open,
           IF model.network = NoNetwork THEN net' = net /\ Requests(model') = {}
           ELSE /\ net' = [net EXCEPT ![model.network] = net'[model.network]]
                /\ net'[model.network] \in ClientSet /\ Channel(net'[model.network])
                /\ Agrees(net'[model.network], model')
                /\ net'[model.network] = net[model.network]
                    \/ (/\ net'[model.network].run \notin {"unused", "done"}
                        /\ net[model.network].run # "done"),
           pasting' \subseteq pasting \cup ({model.network} \ {NoNetwork}),
           UNCHANGED <<dialog, target, reading, timers, quit, user>>
    PROVE  SwitchInv'
  <1>0. /\ net \in [Network -> ClientSet] /\ reading \in [Network -> {0, 1}]
        /\ timers \subseteq Network /\ pasting \subseteq Network /\ quit \in BOOLEAN
        /\ model.network \in SomeNetwork /\ NoNetwork \notin Network
        /\ target.network \in SomeNetwork
    BY NetworkAssumption DEF SwitchInv, Types, ModelSet
  <1>1. /\ net' \in [Network -> ClientSet]
        /\ \A k \in Network \ {model.network} : net'[k] = net[k]
    BY <1>0 DEF SomeNetwork
  <1>2. Types' BY <1>0, <1>1 DEF SwitchInv, Types, SomeNetwork
  <1>3. model.network # NoNetwork => net[model.network].run # "unused"
    BY <1>0 DEF SwitchInv, Clients, Running, SomeNetwork
  <1>4. \A k \in Network : net'[k] = net[k]
            \/ /\ k = model.network /\ net'[k].run \notin {"unused", "done"}
               /\ net[k].run # "done"
    BY <1>0, <1>1
  <1>5. \A k \in Network : Channel(net'[k])
    BY <1>0, <1>1 DEF SwitchInv, Clients
  <1>6. Clients' BY <1>0, <1>3, <1>4, <1>5 DEF SwitchInv, Clients, Running
  <1>7. Attended'
    <2>1. Current' = Current /\ Current \subseteq Network BY <1>0 DEF Current, SomeNetwork
    <2>2. ASSUME NEW k \in Current PROVE reading[k] = 1 \/ IsClosed(k)'
      <3>1. reading[k] \in {0, 1} /\ (reading[k] = 1 \/ IsClosed(k))
        BY <1>0, <2>1, <2>2 DEF SwitchInv, Attended
      <3>2. CASE net'[k] = net[k] BY <3>1, <3>2 DEF IsClosed, Running
      <3>3. CASE net'[k] # net[k]
        BY <1>4, <2>1, <3>1, <3>3 DEF IsClosed, Running
      <3> QED BY <1>4, <2>1, <3>2, <3>3
    <2>3. \A k \in Network : net'[k].run \notin {"unused", "done"} => k \in Current
      BY <1>0, <1>4, <2>1 DEF SwitchInv, Attended, Current
    <2> QED BY <2>1, <2>2, <2>3 DEF Attended
  <1>8. Screen' BY <1>0, <1>1 DEF SwitchInv, Screen
  <1>9. Candidate'
    <2>1. HasCandidate => net'[target.network] = net[target.network]
      BY <1>0, <1>1 DEF HasCandidate, SwitchInv, Candidate, SomeNetwork
    <2> QED BY <2>1 DEF SwitchInv, Candidate, HasCandidate
  <1>10. Waiting' BY DEF SwitchInv, Waiting
  <1>11. NothingLostUnasked' BY DEF SwitchInv, NothingLostUnasked, HasCandidate, Candidate
  <1> QED BY <1>2, <1>6, <1>7, <1>8, <1>9, <1>10, <1>11 DEF SwitchInv

LEMMA LoginKeeps ==
    ASSUME SwitchInv, Login
    PROVE  SwitchInv'
  <1> DEFINE s == model.network
             N == New
             g == Cancelled(net, s)
             c == [Unused EXCEPT !.run = "joining"]
  <1>0. /\ net \in [Network -> ClientSet] /\ reading \in [Network -> {0, 1}]
        /\ timers \subseteq Network /\ pasting \subseteq Network /\ quit \in BOOLEAN
        /\ s \in SomeNetwork /\ model \in ModelSet /\ NoNetwork \notin Network
        /\ \A k \in Network : Channel(net[k])
    BY NetworkAssumption DEF SwitchInv, Types, ModelSet, Clients
  <1>1. /\ N \in Network /\ net[N].run = "unused" /\ net[N] = Unused /\ reading[N] = 0
        /\ N \notin {s, target.network} \cup timers \cup pasting /\ N # NoNetwork
    BY NewUnused DEF Login
  <1>2. /\ net' = [g EXCEPT ![N] = [g[N] EXCEPT !.run = "joining"]] /\ model' = LogIn(model, N)
        /\ reading' = [reading EXCEPT ![N] = @ + 1]
        /\ user' = [unseen |-> FALSE, agreed |-> FALSE]
        /\ UNCHANGED <<dialog, target, timers, pasting, quit>>
        /\ ~model.joined /\ ~dialog.open
    BY DEF Login, Started, commands
  <1> HIDE DEF s, N, g
  <1>3. /\ g \in [Network -> ClientSet] /\ \A k \in Network \ {s} : g[k] = net[k]
        /\ s \in Network => g[s].run = "done"
        /\ \A k \in Network : Channel(g[k])
    BY <1>0, Cancels DEF g
  <1>4. g[N] = Unused BY <1>1, <1>3
  <1>5. target = NoCandidate /\ ~HasCandidate
    BY <1>2 DEF SwitchInv, Candidate
  <1>6. ~model.connected /\ Requests(model) = {}
    BY <1>0, <1>2 DEF SwitchInv, Screen, Agrees, Closes, s
  <1>7. /\ model' \in ModelSet /\ model'.network = N /\ model'.joined /\ ~model'.connected
        /\ Requests(model') = {} /\ model'.draft \in {N, NoNetwork}
    BY <1>0, <1>1, <1>2, <1>6 DEF LogIn, ModelSet, Requests, SomeNetwork
  <1>8. c \in ClientSet /\ Channel(c) /\ Agrees(c, model') /\ c.run = "joining"
    BY <1>7, NewAgrees, UnusedTyped DEF ClientSet
  <1>9. net' = [g EXCEPT ![N] = c] BY <1>2, <1>4
  <1> HIDE DEF c
  <1>10. /\ net' \in [Network -> ClientSet] /\ net'[N] = c
         /\ \A k \in Network \ {N} : net'[k] = g[k]
         /\ reading' \in [Network -> {0, 1}] /\ reading'[N] = 1
         /\ \A k \in Network \ {N} : reading'[k] = reading[k]
    BY <1>0, <1>1, <1>2, <1>3, <1>8, <1>9
  <1>11. Types' BY <1>0, <1>2, <1>7, <1>10 DEF Types, SwitchInv
  <1>12. Clients'
    <2>1. ASSUME NEW k \in Network, net'[k].run = "unused"
          PROVE  /\ net'[k] = Unused /\ reading'[k] = 0
                 /\ k \notin {model'.network, target'.network} \cup timers' \cup pasting'
      <3>1. k # N /\ k # s BY <1>3, <1>8, <1>10, <2>1
      <3>2. /\ net[k] = Unused /\ reading[k] = 0
            /\ k \notin {s, target.network} \cup timers \cup pasting
        BY <1>3, <1>10, <2>1, <3>1 DEF SwitchInv, Clients, Running, s
      <3> QED BY <1>2, <1>3, <1>7, <1>10, <3>1, <3>2
    <2>2. \A k \in Network : Channel(net'[k]) BY <1>3, <1>8, <1>10
    <2> QED BY <2>1, <2>2 DEF Clients, Running
  <1>13. Attended'
    <2>1. Current' = {N} BY <1>1, <1>2, <1>5, <1>7 DEF Current, HasCandidate
    <2>2. ASSUME NEW k \in Network, net'[k].run \notin {"unused", "done"} PROVE k = N
      <3>1. SUFFICES ASSUME k # N PROVE FALSE OBVIOUS
      <3>2. k # s /\ net[k].run \notin {"unused", "done"} BY <1>3, <1>10, <2>2, <3>1
      <3>3. k \in Current BY <3>2 DEF SwitchInv, Attended
      <3> QED BY <1>5, <3>2, <3>3 DEF Current, HasCandidate, s
    <2> QED BY <1>10, <2>1, <2>2 DEF Attended
  <1>14. Screen' BY <1>1, <1>7, <1>8, <1>10 DEF Screen
  <1>15. Candidate' BY <1>2, <1>5 DEF Candidate, HasCandidate
  <1>16. Waiting' BY <1>2 DEF SwitchInv, Waiting
  <1>17. NothingLostUnasked' BY <1>2, <1>5 DEF NothingLostUnasked, HasCandidate
  <1> QED BY <1>11, <1>12, <1>13, <1>14, <1>15, <1>16, <1>17 DEF SwitchInv

\* The dialog is changed, or opened, and there is no candidate.
LEMMA DialogKeeps ==
    ASSUME SwitchInv, ~HasCandidate, dialog' \in DialogSet, ~dialog'.waiting,
           dialog'.open => model.network # NoNetwork,
           user' \in [unseen : BOOLEAN, agreed : BOOLEAN],
           UNCHANGED <<net, model, target, reading, commands, quit>>
    PROVE  SwitchInv'
  <1>1. Types' BY DEF SwitchInv, Types, commands
  <1>2. Clients' BY DEF SwitchInv, Clients, Running, commands
  <1>3. Attended' BY DEF SwitchInv, Attended, Current, IsClosed, Running
  <1>4. Screen' BY DEF SwitchInv, Screen
  <1>5. Candidate' BY DEF SwitchInv, Candidate, HasCandidate
  <1>6. Waiting' BY DEF Waiting
  <1>7. NothingLostUnasked' BY DEF NothingLostUnasked, HasCandidate
  <1> QED BY <1>1, <1>2, <1>3, <1>4, <1>5, <1>6, <1>7 DEF SwitchInv

LEMMA UserActions ==
    ASSUME SwitchInv, UserNext
    PROVE  SwitchInv'
  <1>0. /\ net \in [Network -> ClientSet] /\ model \in ModelSet /\ target \in ModelSet
        /\ dialog \in DialogSet /\ user \in [unseen : BOOLEAN, agreed : BOOLEAN]
        /\ reading \in [Network -> {0, 1}]
        /\ \A k \in Network : Channel(net[k])
        /\ model.network \in SomeNetwork /\ NoNetwork \notin Network
    BY NetworkAssumption DEF SwitchInv, Types, Clients, ModelSet
  <1>s. Screen BY DEF SwitchInv
  <1>a. model.joined => model.network \in Network /\ model.network # NoNetwork
                        /\ Agrees(net[model.network], model)
    BY <1>0 DEF SwitchInv, Screen, SomeNetwork
  <1>b. net = [net EXCEPT ![model.network] = net[model.network]] BY <1>0
  <1>1. CASE Login BY <1>1, LoginKeeps
  <1>2. CASE Type \/ Erase
    <2>1. /\ model' \in ModelSet /\ model'.network = model.network
          /\ model'.joined = model.joined /\ model'.connected = model.connected
          /\ model'.shown = model.shown /\ model'.draft \in {model.network, NoNetwork}
          /\ Requests(model') = Requests(model)
      BY <1>0, <1>2 DEF Type, Erase, ModelSet, Requests, SomeNetwork
    <2>2. /\ model.joined /\ ~dialog.open
          /\ UNCHANGED <<net, dialog, target, reading, timers, pasting, quit, user>>
      BY <1>2 DEF Type, Erase, Chatting, commands
    <2>3. Agrees(net[model.network], model') BY <1>a, <2>1, <2>2, SameScreen
    <2> QED BY <1>0, <1>a, <1>b, <2>1, <2>2, <2>3, ScreenKeeps
  <1>3. ASSUME Send \/ Recall PROVE SwitchInv'
    <2>1. PICK r \in Numbers :
            /\ CanQueue(r) /\ net' = Queued(r)
            /\ \/ r \in Sends /\ model' = [model EXCEPT !.draft = NoNetwork, !.pending = @ \cup {r}]
               \/ r \in Recalls /\ model' = [model EXCEPT !.recalls = @ \cup {r}]
            /\ UNCHANGED <<dialog, target, reading, timers, pasting, quit, user>>
      BY <1>3 DEF Send, Recall, Numbers, commands
    <2> DEFINE n == model.network
               d == [net[n] EXCEPT !.sent = @ \cup {r}]
    <2>2. n \in Network /\ n # NoNetwork /\ Agrees(net[n], model) /\ model.joined /\ model.connected
          /\ net[n].run = "online" /\ ~dialog.open
      BY <1>a, <2>1 DEF CanQueue, Chatting, Running
    <2>3. /\ model' \in ModelSet /\ model'.network = n
          /\ model'.joined = model.joined /\ model'.connected = model.connected
          /\ model'.shown = model.shown /\ model'.draft \in {n, NoNetwork}
          /\ Requests(model') = Requests(model) \cup {r}
      <3>1. CASE r \in Sends /\ model' = [model EXCEPT !.draft = NoNetwork, !.pending = @ \cup {r}]
        BY <1>0, <3>1 DEF ModelSet, Requests, SomeNetwork
      <3>2. CASE r \in Recalls /\ model' = [model EXCEPT !.recalls = @ \cup {r}]
        <4>1. model.draft \in {n, NoNetwork} BY <1>s DEF Screen
        <4> QED BY <1>0, <3>2, <4>1 DEF ModelSet, Requests, SomeNetwork
      <3> QED BY <2>1, <3>1, <3>2
    <2>4. net' = [net EXCEPT ![n] = d] BY <2>1 DEF Queued
    <2>5. d \in ClientSet /\ Channel(d) /\ Agrees(d, model') /\ d.run = "online"
      <3>1. net[n] \in ClientSet /\ Channel(net[n]) /\ r \in Numbers BY <1>0, <2>1, <2>2
      <3>2. CanAsk(net[n], model) BY <2>2 DEF CanAsk
      <3>3. Asks(model, model', r) BY <2>3 DEF Asks
      <3> QED BY <1>0, <2>2, <2>3, <3>1, <3>2, <3>3, Queues
    <2> HIDE DEF d
    <2>6. net'[n] = d BY <1>0, <2>2, <2>4
    <2> QED BY <2>1, <2>2, <2>3, <2>4, <2>5, <2>6, ScreenKeeps
  <1>4. CASE Paste
    <2>1. /\ model.joined /\ ~dialog.open /\ pasting' = {model.network} /\ model' = model /\ net' = net
          /\ UNCHANGED <<dialog, target, reading, timers, quit, user>>
      BY <1>4 DEF Paste, Chatting
    <2> QED BY <1>0, <1>a, <1>b, <1>s, <2>1, ScreenKeeps DEF Screen
  <1>5. CASE OpenRoomSwitch
    <2>1. ~HasCandidate BY <1>5 DEF SwitchInv, Candidate, OpenRoomSwitch, Chatting
    <2>2. Opened \in DialogSet /\ ~Opened.waiting BY DEF Opened, Closed, DialogSet
    <2> QED BY <1>5, <1>a, <2>1, <2>2, DialogKeeps DEF OpenRoomSwitch, Chatting
  <1>6. CASE CancelRoomSwitch
    <2>1. Closed \in DialogSet /\ ~Closed.waiting /\ ~Closed.open BY DEF Closed, DialogSet
    <2> QED BY <1>0, <1>6, <2>1, PopsNothing, DropKeeps DEF CancelRoomSwitch, commands
  <1>7. CASE Edit
    <2>1. dialog' \in DialogSet /\ dialog'.open = dialog.open /\ ~dialog'.waiting
          /\ user' \in [unseen : BOOLEAN, agreed : BOOLEAN]
      BY <1>0, <1>7 DEF Edit, DialogSet
    <2> QED BY <1>7, <1>s, <2>1, DialogKeeps DEF Edit, Screen
  <1>8. CASE Enter
    <2>1. model.network # NoNetwork /\ ~HasCandidate BY <1>8, <1>s DEF Enter, Screen
    <2>2. /\ model' = model /\ pasting' = pasting /\ quit' = quit
          /\ dialog.open /\ ~dialog.waiting /\ Submit(net, reading, model, dialog)
          /\ user' = [unseen |-> FALSE, agreed |-> dialog.confirm]
      BY <1>8 DEF Enter
    <2>3. user' \in [unseen : BOOLEAN, agreed : BOOLEAN] /\ ~user'.unseen
          /\ (dialog.confirm => user'.agreed)
      BY <1>0, <2>2 DEF DialogSet
    <2> QED BY <1>0, <1>s, <2>1, <2>2, <2>3, PopsNothing, SubmitKeeps DEF Screen
  <1>9. CASE CtrlC BY <1>9, PopsNothing, QuitKeeps DEF CtrlC
  <1> QED BY <1>1, <1>2, <1>3, <1>4, <1>5, <1>6, <1>7, <1>8, <1>9 DEF UserNext

\* An event for the model is applied, and continueRoomSwitch stays where it is.
LEMMA StayKeeps ==
    ASSUME SwitchInv, NEW n \in Network, model.network = n,
           NEW f, Popping(f), \A k \in Network \ {n} : f[k] = net[k], net' = f,
           model' \in ModelSet, model'.network = n, Agrees(f[n], model'),
           model'.draft = model.draft,
           model'.connected => model'.shown \subseteq {n},
           HasCandidate => Requests(model') = {} /\ ~user'.unseen,
           user' \in [unseen : BOOLEAN, agreed : BOOLEAN], user'.agreed = user.agreed,
           dialog' \in DialogSet, dialog'.open = dialog.open,
           dialog'.waiting => /\ dialog.waiting /\ dialog'.confirm = dialog.confirm
                              /\ Requests(model') # {}
                              /\ user'.unseen => dialog'.failed,
           UNCHANGED <<target, reading, timers, pasting, quit>>
    PROVE  SwitchInv'
  <1>0. /\ net \in [Network -> ClientSet] /\ f \in [Network -> ClientSet]
        /\ \A k \in Network : /\ Channel(f[k]) /\ f[k].run = net[k].run
                              /\ net[k].run = "unused" => f[k] = Unused
                              /\ net[k].events = <<>> => f[k].events = <<>>
        /\ target.network \in SomeNetwork /\ NoNetwork \notin Network
    BY NetworkAssumption DEF SwitchInv, Types, ModelSet, Popping
  <1>1. Types' BY <1>0 DEF SwitchInv, Types
  <1>2. Clients' BY <1>0 DEF SwitchInv, Clients, Running
  <1>3. Current' = Current /\ Current \subseteq Network BY <1>0 DEF Current, SomeNetwork
  <1>4. Attended' BY <1>0, <1>3 DEF SwitchInv, Attended, IsClosed, Running
  <1>5. Screen' BY <1>0 DEF SwitchInv, Screen
  <1>6. Candidate'
    <2>1. HasCandidate => f[target.network] = net[target.network]
      BY <1>0 DEF HasCandidate, SwitchInv, Candidate, SomeNetwork
    <2> QED BY <2>1 DEF SwitchInv, Candidate, HasCandidate
  <1>7. Waiting' BY DEF SwitchInv, Waiting
  <1>8. NothingLostUnasked' BY DEF SwitchInv, NothingLostUnasked, HasCandidate
  <1> QED BY <1>1, <1>2, <1>4, <1>5, <1>6, <1>7, <1>8 DEF SwitchInv

LEMMA ModelEventKeeps ==
    ASSUME SwitchInv, NEW n \in Network, model.network = n, net[n].events # <<>>,
           ModelEvent(n, Head(net[n].events))
    PROVE  SwitchInv'
  <1> DEFINE e == Head(net[n].events)
             f == Pops(n)
             m == Apply(model, n, e)
  <1>0. /\ net \in [Network -> ClientSet] /\ model \in ModelSet /\ dialog \in DialogSet
        /\ user \in [unseen : BOOLEAN, agreed : BOOLEAN]
        /\ net[n] \in ClientSet /\ Channel(net[n]) /\ Agrees(net[n], model) /\ n # NoNetwork
        /\ model.draft \in {n, NoNetwork} /\ (model.connected => model.shown \subseteq {n})
    BY NetworkAssumption DEF SwitchInv, Types, Clients, Screen
  <1>1. /\ Popping(f) /\ \A k \in Network \ {n} : f[k] = net[k]
        /\ f[n] = [net[n] EXCEPT !.events = Tail(@)]
    BY PopsOne
  <1>2. e \in EventSet BY <1>0, Popped DEF ClientSet
  <1>3. CASE e.type = "upgrade_required"
    <2>1. Quit(f) BY <1>3 DEF ModelEvent
    <2> QED BY <1>1, <2>1, QuitKeeps
  <1>4. CASE e.type # "upgrade_required"
    <2>1. /\ model' = m /\ user' = [user EXCEPT !.unseen = @ \/ (dialog.open /\ Lost(model, e) # {})]
          /\ Continue(f, m, e) /\ UNCHANGED <<pasting, quit>>
      BY <1>4 DEF ModelEvent
    <2>2. /\ m \in ModelSet /\ m.network = n /\ m.draft = model.draft
          /\ Requests(m) \subseteq Requests(model)
          /\ m.connected =
               IF e.type \in {"connected", "history_cleared"} THEN TRUE
               ELSE IF e.type \in {"disconnected", "refused"} THEN FALSE ELSE model.connected
          /\ m.shown \subseteq model.shown \cup {n}
          /\ e.type \in {"answer", "error"} => Requests(m) = Requests(model) \ {e.req}
          /\ ~(Empties(e) \/ e.type \in {"disconnected", "answer", "error"}) =>
               Requests(m) = Requests(model)
      <3>1. e \in EventSet /\ e.type # "upgrade_required" /\ m = Apply(model, n, e) BY <1>2, <1>4
      <3> HIDE DEF e, m, f
      <3>2. Applied(model, e, m) BY <1>0, <3>1, ApplyFields
      <3> QED BY <3>2 DEF Applied
    <2>3. /\ Agrees(f[n], m) /\ (e.type \in {"connected", "history_cleared"} => m.shown \subseteq {n})
          /\ (Anew(e) => Requests(model) = {})
      <3>1. PICK d : d = f[n] OBVIOUS
      <3>2. PICK x : x = e OBVIOUS
      <3>3. PICK a : a = m OBVIOUS
      <3>4. Agrees(d, a) /\ (x.type \in {"connected", "history_cleared"} => a.shown \subseteq {n})
            /\ (Anew(x) => Requests(model) = {})
        <4>1. d = [net[n] EXCEPT !.events = Tail(@)] /\ x = Head(net[n].events)
              /\ a = Apply(model, n, x) /\ x.type # "upgrade_required"
          BY <1>1, <1>4, <3>1, <3>2, <3>3
        <4>2. a \in ModelSet /\ x \in EventSet BY <1>2, <2>2, <3>2, <3>3
        <4>3. d \in ClientSet BY <1>0, <4>1, TakesChannel
        <4> HIDE DEF m, e, f
        <4>4. Agrees(d, a) BY <1>0, <4>1, <4>2, <4>3, Takes
        <4>5. OwnRoom(x, a) BY <1>0, <4>1, <4>2, <4>3, Takes
        <4>6. Anew(x) => Requests(model) = {} BY <1>0, <4>1, <4>2, <4>3, Takes
        <4>7. a.network = n BY <2>2, <3>3 DEF m
        <4> QED BY <4>4, <4>5, <4>6, <4>7 DEF OwnRoom
      <3> QED BY <3>1, <3>2, <3>3, <3>4
    <2> DEFINE lost == Lost(model, e)
    <2>4. /\ e.type = "error" => lost = Requests(model) \cap {e.req}
          /\ e.type = "answer" => lost = {}
          /\ e.type \notin {"answer", "error"} => lost = Requests(model) \ Requests(m)
      BY DEF Lost
    <2> HIDE DEF f, m, e, lost
    <2>5. m.connected => m.shown \subseteq {n} BY <1>0, <2>2, <2>3
    <2>6. Requests(model) = {} => lost = {} /\ Requests(m) = {} BY <2>2, <2>4
    <2>7. lost # {} => e.type \in {"history_cleared", "disconnected", "error"}
      BY <2>2, <2>3, <2>4 DEF Empties
    <2>8. /\ user' \in [unseen : BOOLEAN, agreed : BOOLEAN] /\ user'.agreed = user.agreed
          /\ user'.unseen = (user.unseen \/ (dialog.open /\ lost # {}))
      BY <1>0, <2>1 DEF lost, e
    <2>9. HasCandidate => Requests(m) = {} /\ ~user'.unseen /\ ~dialog.waiting
      BY <2>6, <2>8 DEF SwitchInv, NothingLostUnasked, Waiting
    <2> DEFINE failed == [dialog EXCEPT !.failed = @ \/ e.type = "error"]
               settled == [dialog EXCEPT !.waiting = FALSE, !.failed = FALSE]
    <2>10. /\ failed \in DialogSet /\ failed.open = dialog.open /\ failed.waiting = dialog.waiting
           /\ failed.confirm = dialog.confirm /\ failed.failed = (dialog.failed \/ e.type = "error")
           /\ settled \in DialogSet /\ settled.open = dialog.open /\ ~settled.waiting
           /\ settled.confirm = dialog.confirm
      BY <1>0 DEF DialogSet
    <2>11. CASE ~(dialog.open /\ dialog.waiting)
      <3>1. net' = f /\ dialog' = dialog /\ UNCHANGED <<target, reading, timers>>
        BY <2>1, <2>11 DEF Continue
      <3>2. ~dialog.waiting BY <2>11 DEF SwitchInv, Waiting
      <3> QED BY <1>0, <1>1, <2>1, <2>2, <2>3, <2>5, <2>8, <2>9, <3>1, <3>2, StayKeeps
    <2>12. CASE dialog.open /\ dialog.waiting /\ Requests(m) # {}
      <3>1. net' = f /\ dialog' = failed /\ UNCHANGED <<target, reading, timers>>
        BY <2>1, <2>12 DEF Continue
      <3>2. user'.unseen => failed.failed
        <4>1. SUFFICES ASSUME lost # {}, ~user.unseen PROVE e.type = "error"
          BY <2>8, <2>10, <2>12 DEF SwitchInv, Waiting
        <4>2. Empties(e) \/ e.type = "disconnected" => Requests(m) = {}
          <5>1. e \in EventSet /\ e.type # "upgrade_required" /\ m = Apply(model, n, e)
            BY <1>2, <1>4 DEF m, e
          <5>2. Applied(model, e, m) BY <1>0, <5>1, ApplyFields
          <5> QED BY <5>2 DEF Applied
        <4> QED BY <2>7, <2>12, <4>1, <4>2 DEF Empties
      <3> HIDE DEF failed, settled
      <3> QED BY <1>0, <1>1, <2>1, <2>2, <2>3, <2>5, <2>8, <2>9, <2>10, <2>12, <3>1, <3>2, StayKeeps
    <2>13. CASE dialog.open /\ dialog.waiting /\ Requests(m) = {} /\ Notice(failed, e)
      <3>1. net' = f /\ dialog' = settled /\ UNCHANGED <<target, reading, timers>>
        BY <2>1, <2>13 DEF Continue
      <3> HIDE DEF failed, settled
      <3> QED BY <1>0, <1>1, <2>1, <2>2, <2>3, <2>5, <2>8, <2>9, <2>10, <3>1, StayKeeps
    <2>14. CASE dialog.open /\ dialog.waiting /\ Requests(m) = {} /\ ~Notice(failed, e)
      <3>1. Submit(f, reading, m, settled) BY <2>1, <2>14 DEF Continue
      <3> HIDE DEF failed, settled
      <3>2. e.type \notin {"history_cleared", "disconnected", "error"} /\ ~dialog.failed
        BY <2>10, <2>14 DEF Notice
      <3>3. ~user'.unseen BY <2>7, <2>8, <2>14, <3>2 DEF SwitchInv, Waiting
      <3>4. settled.confirm => user'.agreed BY <2>8, <2>10, <2>14 DEF SwitchInv, Waiting
      <3>5. ~HasCandidate BY <2>9, <2>14
      <3> QED BY <1>0, <1>1, <2>1, <2>2, <2>3, <2>5, <2>8, <2>10, <2>14, <3>1, <3>3, <3>4, <3>5,
                 SubmitKeeps
    <2> QED BY <2>11, <2>12, <2>13, <2>14
  <1> QED BY <1>3, <1>4

LEMMA CandidateEventKeeps ==
    ASSUME SwitchInv, NEW n \in Network, IsCandidate(n), net[n].events # <<>>, reading[n] > 0,
           CandidateEvent(n, Head(net[n].events))
    PROVE  SwitchInv'
  <1> DEFINE e == Head(net[n].events)
             f == Pops(n)
             m == Apply(target, n, e)
  <1>0. /\ net \in [Network -> ClientSet] /\ model \in ModelSet /\ target \in ModelSet
        /\ dialog \in DialogSet /\ user \in [unseen : BOOLEAN, agreed : BOOLEAN]
        /\ reading \in [Network -> {0, 1}] /\ timers \subseteq Network
        /\ net[n] \in ClientSet /\ Channel(net[n]) /\ Agrees(net[n], target) /\ n # NoNetwork
        /\ target.network = n /\ HasCandidate /\ NoNetwork \notin Network
        /\ target.draft = NoNetwork /\ target.shown \subseteq {n} /\ Requests(target) = {}
        /\ target.joined /\ n # model.network /\ dialog.open
        /\ model.network \in SomeNetwork
    BY NetworkAssumption
       DEF SwitchInv, Types, Clients, Candidate, IsCandidate, HasCandidate, ModelSet
  <1>1. /\ Popping(f) /\ \A k \in Network \ {n} : f[k] = net[k]
        /\ f[n] = [net[n] EXCEPT !.events = Tail(@)]
    BY PopsOne
  <1>2. e \in EventSet BY <1>0, Popped DEF ClientSet
  <1>3. CASE e.type = "upgrade_required"
    <2>1. Quit(f) BY <1>3 DEF CandidateEvent
    <2> QED BY <1>1, <2>1, QuitKeeps
  <1>4. CASE e.type \in {"refused", "disconnected"}
    <2>1. FailRoomSwitch(f) /\ reading' = Ends(n) /\ UNCHANGED <<model, timers, pasting, quit>>
      BY <1>4 DEF CandidateEvent, commands
    <2>2. /\ dialog' \in DialogSet /\ ~dialog'.waiting /\ dialog'.open = dialog.open
          /\ user' \in [unseen : BOOLEAN, agreed : BOOLEAN]
      BY <1>0, <2>1 DEF FailRoomSwitch, DialogSet
    <2>3. /\ reading' \in [Network -> {0, 1}] /\ \A k \in Network \ {n} : reading'[k] = reading[k]
          /\ \A k \in Network : reading'[k] <= reading[k]
      BY <1>0, <2>1 DEF Ends
    <2>4. net' = Cancelled(f, target.network) /\ target' = NoCandidate
      BY <2>1 DEF FailRoomSwitch
    <2> HIDE DEF f, e, m
    <2> QED BY <1>0, <1>1, <2>1, <2>2, <2>3, <2>4, DropKeeps
  <1>5. CASE e.type \notin {"upgrade_required", "refused", "disconnected"}
    <2>1. /\ m \in ModelSet /\ m.network = n /\ m.draft = NoNetwork /\ m.joined
          /\ Requests(m) = {} /\ m.shown \subseteq {n}
      <3>1. e \in EventSet /\ e.type # "upgrade_required" /\ m = Apply(target, n, e)
        BY <1>2, <1>5
      <3> HIDE DEF e, m, f
      <3>2. Applied(target, e, m) BY <1>0, <3>1, ApplyFields
      <3> QED BY <1>0, <1>5, <3>2 DEF Applied
    <2>2. Agrees(f[n], m)
      <3>1. PICK d : d = f[n] OBVIOUS
      <3>2. PICK x : x = e OBVIOUS
      <3>3. PICK a : a = m OBVIOUS
      <3>4. d = [net[n] EXCEPT !.events = Tail(@)] /\ x = Head(net[n].events)
            /\ a = Apply(target, n, x) /\ x.type # "upgrade_required"
        BY <1>1, <1>5, <3>1, <3>2, <3>3
      <3>5. a \in ModelSet /\ x \in EventSet BY <1>2, <2>1, <3>2, <3>3
      <3>6. d \in ClientSet BY <1>0, <3>4, TakesChannel
      <3>7. Agrees(d, a)
        <4> HIDE DEF m, e, f
        <4> QED BY <1>0, <3>4, <3>5, <3>6, Takes
      <3> QED BY <3>1, <3>3, <3>7
    <2>3. CASE e.type = "connected"
      <3>1. Switch(n) BY <2>3 DEF CandidateEvent
      <3>2. m = Apply(target, n, Event("connected")) BY <2>3 DEF Apply, Event
      <3>3. /\ net' = Cancelled(f, model.network) /\ model' = m /\ dialog' = Closed
            /\ target' = NoCandidate /\ user' = [unseen |-> FALSE, agreed |-> FALSE]
            /\ UNCHANGED <<reading, timers, pasting, quit>>
        BY <3>1, <3>2 DEF Switch
      <3> HIDE DEF f, e, m
      <3> DEFINE s == model.network
      <3>4. f \in [Network -> ClientSet] /\ \A k \in Network : Channel(f[k]) /\ f[k].run = net[k].run
        BY <1>1 DEF Popping
      <3>5. /\ net' \in [Network -> ClientSet] /\ \A k \in Network \ {s} : net'[k] = f[k]
            /\ s \in Network => net'[s].run = "done"
            /\ \A k \in Network : Channel(net'[k])
        BY <1>0, <3>3, <3>4, Cancels
      <3> HIDE DEF s
      <3>6. s = model.network /\ n # s BY <1>0 DEF s
      <3>7. Closed \in DialogSet /\ ~Closed.waiting /\ ~Closed.open BY DEF Closed, DialogSet
      <3>8. NoCandidate \in ModelSet /\ NoCandidate.network = NoNetwork /\ NoCandidate.shown = {}
        BY EmptyTyped DEF NoCandidate, SomeNetwork
      <3>9. Types' BY <2>1, <3>3, <3>5, <3>7, <3>8 DEF SwitchInv, Types
      <3>10. Clients'
        <4>1. ASSUME NEW k \in Network, net'[k].run = "unused"
              PROVE  /\ net'[k] = Unused /\ reading'[k] = 0
                     /\ k \notin {model'.network, target'.network} \cup timers' \cup pasting'
          <5>1. k # s /\ net'[k] = f[k] /\ net[k].run = "unused" BY <3>4, <3>5, <4>1
          <5>2. /\ net[k] = Unused /\ reading[k] = 0
                /\ k \notin {model.network, target.network} \cup timers \cup pasting
            BY <5>1 DEF SwitchInv, Clients, Running
          <5>3. f[k] = Unused BY <1>0, <1>1, <5>2
          <5> QED BY <1>0, <2>1, <3>3, <3>8, <5>1, <5>2, <5>3
        <4> QED BY <3>5, <4>1 DEF Clients, Running
      <3>11. Attended'
        <4>1. Current' = {n} BY <1>0, <2>1, <3>3, <3>8 DEF Current
        <4>2. reading'[n] = 1 BY <1>0, <3>3
        <4>3. ASSUME NEW k \in Network, net'[k].run \notin {"unused", "done"} PROVE k = n
          <5>1. k # s /\ net[k].run \notin {"unused", "done"} BY <3>4, <3>5, <4>3
          <5>2. k \in Current BY <5>1 DEF SwitchInv, Attended
          <5> QED BY <1>0, <3>6, <5>1, <5>2 DEF Current
        <4> QED BY <4>1, <4>2, <4>3 DEF Attended
      <3>12. Screen' BY <1>0, <2>1, <2>2, <3>3, <3>5, <3>6 DEF Screen
      <3>13. Candidate' BY <3>3, <3>8 DEF Candidate, HasCandidate
      <3>14. Waiting' BY <3>3, <3>7 DEF Waiting
      <3>15. NothingLostUnasked' BY <3>3, <3>8 DEF NothingLostUnasked, HasCandidate
      <3> QED BY <3>9, <3>10, <3>11, <3>12, <3>13, <3>14, <3>15 DEF SwitchInv
    <2>4. CASE e.type # "connected"
      <3>1. net' = f /\ target' = m /\ UNCHANGED <<model, dialog, reading, timers, pasting, quit, user>>
        BY <1>5, <2>4 DEF CandidateEvent, commands
      <3> HIDE DEF f, e, m
      <3>2. /\ f \in [Network -> ClientSet]
            /\ \A k \in Network : /\ Channel(f[k]) /\ f[k].run = net[k].run
                                  /\ net[k].run = "unused" => f[k] = Unused
                                  /\ net[k].events = <<>> => f[k].events = <<>>
        BY <1>1 DEF Popping
      <3>3. Types' BY <2>1, <3>1, <3>2 DEF SwitchInv, Types
      <3>4. Clients' BY <1>0, <2>1, <3>1, <3>2 DEF SwitchInv, Clients, Running
      <3>5. Current' = Current /\ Current \subseteq Network BY <1>0, <2>1, <3>1 DEF Current, SomeNetwork
      <3>6. Attended' BY <3>1, <3>2, <3>5 DEF SwitchInv, Attended, IsClosed, Running
      <3>7. Screen'
        <4>1. model.network # NoNetwork => net'[model.network] = net[model.network]
          BY <1>0, <1>1, <3>1 DEF SomeNetwork
        <4> QED BY <3>1, <4>1 DEF SwitchInv, Screen
      <3>8. Candidate' BY <1>0, <2>1, <2>2, <3>1 DEF Candidate, HasCandidate
      <3>9. Waiting' BY <3>1 DEF SwitchInv, Waiting
      <3>10. NothingLostUnasked' BY <1>0, <3>1 DEF SwitchInv, NothingLostUnasked, HasCandidate
      <3> QED BY <3>3, <3>4, <3>6, <3>7, <3>8, <3>9, <3>10 DEF SwitchInv
    <2> QED BY <2>3, <2>4
  <1> QED BY <1>3, <1>4, <1>5

LEMMA ClosedKeeps ==
    ASSUME SwitchInv, NEW n \in Network, IsClosed(n), reading[n] > 0, ~IsCandidate(n),
           reading' = Ends(n), UNCHANGED <<net, model, dialog, target, timers, pasting, quit, user>>
    PROVE  SwitchInv'
  <1>0. reading \in [Network -> {0, 1}] BY DEF SwitchInv, Types
  <1>1. /\ reading' \in [Network -> {0, 1}] /\ \A k \in Network \ {n} : reading'[k] = reading[k]
        /\ \A k \in Network : reading[k] = 0 => reading'[k] = 0
    BY <1>0 DEF Ends
  <1>2. Types' BY <1>1 DEF SwitchInv, Types
  <1>3. Clients' BY <1>1 DEF SwitchInv, Clients, Running
  <1>4. Attended' BY <1>1 DEF SwitchInv, Attended, Current, IsClosed, Running, Types, ModelSet, SomeNetwork
  <1>5. Screen' /\ Candidate' /\ Waiting' /\ NothingLostUnasked'
    BY DEF SwitchInv, Screen, Candidate, Waiting, NothingLostUnasked, HasCandidate
  <1> QED BY <1>2, <1>3, <1>4, <1>5 DEF SwitchInv

\* An event of a client that is neither on the screen nor the candidate.
LEMMA StrangeKeeps ==
    ASSUME SwitchInv, NEW n \in Network, net[n].events # <<>>, reading[n] > 0,
           ~IsCandidate(n), model.network # n,
           net' = Pops(n), reading' = Ends(n),
           UNCHANGED <<model, dialog, target, timers, pasting, quit, user>>
    PROVE  SwitchInv'
  <1>0. /\ reading \in [Network -> {0, 1}] /\ n \notin Current /\ Current \subseteq Network
        /\ n # target.network
    BY NetworkAssumption
       DEF SwitchInv, Types, Candidate, IsCandidate, HasCandidate, Current, ModelSet, SomeNetwork
  <1>1. /\ Popping(Pops(n)) /\ \A k \in Network \ {n} : net'[k] = net[k] BY PopsOne
  <1>2. /\ net' \in [Network -> ClientSet]
        /\ \A k \in Network : /\ Channel(net'[k]) /\ net'[k].run = net[k].run
                              /\ net[k].run = "unused" => net'[k] = Unused
    BY <1>1 DEF Popping
  <1>3. /\ reading' \in [Network -> {0, 1}] /\ \A k \in Network \ {n} : reading'[k] = reading[k]
        /\ \A k \in Network : reading[k] = 0 => reading'[k] = 0
    BY <1>0 DEF Ends
  <1>4. Types' BY <1>2, <1>3 DEF SwitchInv, Types
  <1>5. Clients' BY <1>2, <1>3 DEF SwitchInv, Clients, Running
  <1>6. Attended'
    <2>1. Current' = Current BY DEF Current
    <2> QED BY <1>0, <1>1, <1>2, <1>3, <2>1 DEF SwitchInv, Attended, IsClosed, Running
  <1>7. Screen'
    <2>1. model.network # NoNetwork => net'[model.network] = net[model.network]
      BY <1>1 DEF SwitchInv, Types, ModelSet, SomeNetwork
    <2> QED BY <2>1 DEF SwitchInv, Screen
  <1>8. Candidate'
    <2>1. HasCandidate => net'[target.network] = net[target.network]
      BY <1>0, <1>1 DEF HasCandidate, SwitchInv, Types, ModelSet, SomeNetwork
    <2> QED BY <2>1 DEF SwitchInv, Candidate, HasCandidate
  <1>9. Waiting' /\ NothingLostUnasked'
    BY DEF SwitchInv, Waiting, NothingLostUnasked, HasCandidate
  <1> QED BY <1>4, <1>5, <1>6, <1>7, <1>8, <1>9 DEF SwitchInv

\* failRoomSwitch, when no event has been taken.
LEMMA FailKeeps ==
    ASSUME SwitchInv, NEW n \in Network, FailRoomSwitch(net),
           timers' \subseteq timers, UNCHANGED <<model, pasting, quit>>,
           reading' = reading \/ (reading' = Ends(n) /\ reading[n] > 0 /\ n = target.network)
    PROVE  SwitchInv'
  <1>0. /\ reading \in [Network -> {0, 1}] /\ dialog \in DialogSet
        /\ user \in [unseen : BOOLEAN, agreed : BOOLEAN]
    BY DEF SwitchInv, Types
  <1>1. /\ dialog' \in DialogSet /\ ~dialog'.waiting /\ dialog'.open = dialog.open
        /\ user' \in [unseen : BOOLEAN, agreed : BOOLEAN]
        /\ net' = Cancelled(net, target.network) /\ target' = NoCandidate
    BY <1>0 DEF FailRoomSwitch, DialogSet
  <1>2. /\ reading' \in [Network -> {0, 1}]
        /\ \A k \in Network \ {target.network} : reading'[k] = reading[k]
        /\ \A k \in Network : reading'[k] <= reading[k]
    BY <1>0 DEF Ends
  <1> QED BY <1>1, <1>2, PopsNothing, DropKeeps

LEMMA UpdateActions ==
    ASSUME SwitchInv, NEW n \in Network, UpdateNext(n)
    PROVE  SwitchInv'
  <1>1. CASE Deliver(n)
    <2> DEFINE e == Head(net[n].events)
    <2>1. CASE IsCandidate(n)
      <3>1. CandidateEvent(n, e) BY <1>1, <2>1 DEF Deliver
      <3> QED BY <1>1, <2>1, <3>1, CandidateEventKeeps DEF Deliver
    <2>2. CASE ~IsCandidate(n) /\ model.network = n
      <3>1. ModelEvent(n, e) BY <1>1, <2>2 DEF Deliver
      <3> QED BY <1>1, <2>2, <3>1, ModelEventKeeps DEF Deliver
    <2>3. CASE ~IsCandidate(n) /\ model.network # n
      BY <1>1, <2>3, StrangeKeeps DEF Deliver, commands
    <2> QED BY <2>1, <2>2, <2>3
  <1>2. CASE DeliverClosed(n)
    <2>1. CASE IsCandidate(n)
      BY <1>2, <2>1, FailKeeps DEF DeliverClosed, commands, IsCandidate
    <2>2. CASE ~IsCandidate(n)
      BY <1>2, <2>2, ClosedKeeps DEF DeliverClosed, commands
    <2> QED BY <2>1, <2>2
  <1>3. CASE Timeout(n)
    <2>1. CASE IsCandidate(n)
      <3>1. timers' \subseteq timers /\ FailRoomSwitch(net) /\ UNCHANGED <<model, reading, pasting, quit>>
        BY <1>3, <2>1 DEF Timeout
      <3> QED BY <3>1, FailKeeps
    <2>2. CASE ~IsCandidate(n)
      <3>1. timers' \subseteq timers
            /\ UNCHANGED <<net, target, dialog, user, model, reading, pasting, quit>>
        BY <1>3, <2>2 DEF Timeout
      <3>2. Types' BY <3>1 DEF SwitchInv, Types
      <3>3. Clients' BY <3>1 DEF SwitchInv, Clients, Running
      <3>4. Attended' BY <3>1 DEF SwitchInv, Attended, Current, IsClosed, Running
      <3>5. Screen' /\ Candidate' /\ Waiting' /\ NothingLostUnasked'
        BY <3>1 DEF SwitchInv, Screen, Candidate, Waiting, NothingLostUnasked, HasCandidate
      <3> QED BY <3>2, <3>3, <3>4, <3>5 DEF SwitchInv
    <2> QED BY <2>1, <2>2
  <1>4. CASE Pasted(n)
    <2>0. /\ net \in [Network -> ClientSet] /\ model \in ModelSet /\ model.network \in SomeNetwork
          /\ \A k \in Network : Channel(net[k]) /\ NoNetwork \notin Network
      BY NetworkAssumption DEF SwitchInv, Types, Clients, ModelSet
    <2>1. /\ model' = [model EXCEPT !.draft = IF TakesPaste(n) THEN n ELSE @]
          /\ pasting' \subseteq pasting /\ UNCHANGED <<net, dialog, target, reading, timers, quit, user>>
      BY <1>4 DEF Pasted
    <2>2. model.draft \in {model.network, NoNetwork} BY DEF SwitchInv, Screen
    <2>3. /\ model' \in ModelSet /\ model'.network = model.network
          /\ model'.joined = model.joined /\ model'.connected = model.connected
          /\ model'.shown = model.shown /\ model'.draft \in {model.network, NoNetwork}
          /\ Requests(model') = Requests(model)
          /\ model'.draft = model.draft \/ ~dialog.open
      BY <2>0, <2>1, <2>2 DEF TakesPaste, Chatting, ModelSet, SomeNetwork, Requests
    <2>4. CASE model.network = NoNetwork
      <3>1. Requests(model) = {} BY <2>4 DEF SwitchInv, Screen
      <3> QED BY <2>1, <2>3, <2>4, <3>1, ScreenKeeps
    <2>5. CASE model.network # NoNetwork
      <3>1. model.network \in Network /\ Agrees(net[model.network], model)
        BY <2>0, <2>5 DEF SwitchInv, Screen, SomeNetwork
      <3>2. Agrees(net[model.network], model') BY <2>3, <3>1, SameScreen
      <3>3. net = [net EXCEPT ![model.network] = net[model.network]] BY <2>0
      <3> QED BY <2>0, <2>1, <2>3, <2>5, <3>1, <3>2, <3>3, ScreenKeeps
    <2> QED BY <2>4, <2>5
  <1> QED BY <1>1, <1>2, <1>3, <1>4 DEF UpdateNext

-----------------------------------------------------------------------------
(* Together *)

LEMMA SwitchInit ==
    ASSUME Init
    PROVE  SwitchInv
  <1> USE DEF Init
  <1>0. NoCandidate = EmptyModel(NoNetwork) BY DEF NoCandidate
  <1>1. /\ model \in ModelSet /\ model.network = NoNetwork /\ ~model.joined /\ ~model.connected
        /\ model.shown = {} /\ model.draft = NoNetwork /\ Requests(model) = {}
        /\ target \in ModelSet /\ target.network = NoNetwork
    BY <1>0, EmptyTyped DEF SomeNetwork
  <1>2. dialog \in DialogSet /\ ~dialog.open /\ ~dialog.waiting BY DEF Closed, DialogSet
  <1>3. Types BY <1>1, <1>2, UnusedTyped DEF Types
  <1>4. Channel(Unused) BY UnusedTyped DEF Channel
  <1>5. Clients BY <1>1, <1>4, NetworkAssumption DEF Clients, Running
  <1>6. Attended BY <1>1, UnusedTyped DEF Attended, Current
  <1>7. Screen BY <1>1, <1>2 DEF Screen
  <1>8. Candidate BY <1>1 DEF Candidate, HasCandidate
  <1>9. Waiting /\ NothingLostUnasked BY <1>1, <1>2 DEF Waiting, NothingLostUnasked, HasCandidate
  <1> QED BY <1>3, <1>5, <1>6, <1>7, <1>8, <1>9 DEF SwitchInv

LEMMA SwitchStep ==
    ASSUME SwitchInv, [Next]_vars
    PROVE  SwitchInv'
  <1>1. CASE UserNext BY <1>1, UserActions
  <1>2. ASSUME NEW n \in Network, NetworkNext(n) PROVE SwitchInv' BY <1>2, NetworkActions
  <1>3. ASSUME NEW n \in Network, UpdateNext(n) PROVE SwitchInv' BY <1>3, UpdateActions
  <1>4. CASE UNCHANGED vars
    <2> USE <1>4 DEF vars
    <2>1. Types' BY DEF SwitchInv, Types
    <2>2. Clients' BY DEF SwitchInv, Clients, Running
    <2>3. Attended' BY DEF SwitchInv, Attended, Current, IsClosed, Running
    <2>4. Screen' /\ Candidate' /\ Waiting' /\ NothingLostUnasked'
      BY DEF SwitchInv, Screen, Candidate, Waiting, NothingLostUnasked, HasCandidate
    <2> QED BY <2>1, <2>2, <2>3, <2>4 DEF SwitchInv
  <1> QED BY <1>1, <1>2, <1>3, <1>4 DEF Next

LEMMA SwitchInvariant == Spec => []SwitchInv
  <1>1. Init => SwitchInv BY SwitchInit
  <1>2. SwitchInv /\ [Next]_vars => SwitchInv' BY SwitchStep
  <1> QED BY <1>1, <1>2, PTL DEF Spec

\* What holds of a step from a state with a candidate (CandidateEndsItself).
EndsItself ==
    HasCandidate /\ target'.network # target.network =>
        \/ reading'[target.network] < reading[target.network]
        \/ target.network \in timers \ timers'
        \/ quit' \/ model'.network = target.network
        \/ dialog' = Closed /\ UNCHANGED <<model, reading, commands>>

LEMMA EndsItselfStep ==
    ASSUME SwitchInv, Next
    PROVE  EndsItself
  <1> SUFFICES ASSUME HasCandidate, target' # target PROVE EndsItself BY DEF EndsItself
  <1>0. /\ reading \in [Network -> {0, 1}] /\ dialog.open /\ ~dialog.waiting /\ target \in ModelSet
        /\ target.network \in Network /\ timers \subseteq Network
    BY DEF SwitchInv, Types, Candidate, Waiting, NothingLostUnasked, HasCandidate, ModelSet, SomeNetwork
  <1>1. ASSUME NEW n \in Network, NetworkNext(n) PROVE EndsItself
    BY <1>1 DEF NetworkNext, Refuse, Join, Bring, Sync, Clear, Reply, Break, Disconnect,
                Collect, Emit
  <1>2. CASE UserNext
    <2>1. CASE CancelRoomSwitch BY <2>1 DEF CancelRoomSwitch, EndsItself, commands
    <2>2. CASE CtrlC BY <2>2 DEF CtrlC, Quit, EndsItself
    <2>3. CASE Login \/ Type \/ Erase \/ Send \/ Recall \/ Paste \/ OpenRoomSwitch \/ Edit \/ Enter
      BY <2>3 DEF Login, Type, Erase, Send, Recall, Paste, OpenRoomSwitch, Edit, Enter
    <2> QED BY <1>2, <2>1, <2>2, <2>3 DEF UserNext
  <1>3. ASSUME NEW n \in Network, UpdateNext(n) PROVE EndsItself
    <2>1. CASE Deliver(n)
      <3> DEFINE e == Head(net[n].events)
      <3>1. CASE IsCandidate(n)
        <4>1. target.network = n /\ CandidateEvent(n, e) BY <2>1, <3>1 DEF Deliver, IsCandidate
        <4>2. CASE e.type = "upgrade_required"
          BY <4>1, <4>2 DEF CandidateEvent, Quit, EndsItself
        <4>3. CASE e.type \in {"refused", "disconnected"}
          <5>1. reading' = Ends(n) BY <4>1, <4>3 DEF CandidateEvent
          <5>2. reading'[n] < reading[n] BY <1>0, <2>1, <5>1 DEF Ends, Deliver
          <5> QED BY <4>1, <5>2 DEF EndsItself
        <4>4. CASE e.type = "connected"
          <5>1. model' = Apply(target, n, Event("connected"))
            BY <4>1, <4>4 DEF CandidateEvent, Switch
          <5>2. model'.network = n BY <1>0, <4>1, <5>1 DEF Apply, Event, ModelSet
          <5> QED BY <4>1, <5>2 DEF EndsItself
        <4>5. CASE e.type \notin {"upgrade_required", "refused", "disconnected", "connected"}
          <5>1. target' = Apply(target, n, e) BY <4>1, <4>5 DEF CandidateEvent
          <5>2. net[n] \in ClientSet /\ e \in EventSet
            BY <2>1, Popped DEF SwitchInv, Types, ClientSet, Deliver
          <5>3. Applied(target, e, target')
            <6> HIDE DEF e
            <6> QED BY <1>0, <4>1, <4>5, <5>1, <5>2, ApplyFields
          <5> QED BY <5>3 DEF Applied, EndsItself
        <4> QED BY <4>2, <4>3, <4>4, <4>5
      <3>2. CASE ~IsCandidate(n) /\ model.network = n
        <4>1. ModelEvent(n, e) BY <2>1, <3>2 DEF Deliver
        <4>2. CASE e.type = "upgrade_required" BY <4>1, <4>2 DEF ModelEvent, Quit, EndsItself
        <4>3. CASE e.type # "upgrade_required"
          <5>1. Continue(Pops(n), model', e) BY <4>1, <4>3 DEF ModelEvent
          <5> QED BY <1>0, <5>1 DEF Continue
        <4> QED BY <4>2, <4>3
      <3>3. CASE ~IsCandidate(n) /\ model.network # n BY <2>1, <3>3 DEF Deliver
      <3> QED BY <3>1, <3>2, <3>3
    <2>2. CASE DeliverClosed(n)
      <3>1. IsCandidate(n) BY <2>2 DEF DeliverClosed
      <3>2. target.network = n /\ reading'[n] < reading[n]
        BY <1>0, <2>2, <3>1 DEF DeliverClosed, Ends, IsCandidate
      <3> QED BY <3>2 DEF EndsItself
    <2>3. CASE Timeout(n)
      <3>1. IsCandidate(n) BY <2>3 DEF Timeout
      <3> QED BY <2>3, <3>1 DEF Timeout, IsCandidate, EndsItself
    <2>4. CASE Pasted(n) BY <2>4 DEF Pasted
    <2> QED BY <1>3, <2>1, <2>2, <2>3, <2>4 DEF UpdateNext
  <1> QED BY <1>1, <1>2, <1>3 DEF Next

-----------------------------------------------------------------------------
(* Theorems *)

\* The connection of the room and that of a candidate are each read by exactly
\* one reader, and no other started connection goes on: on every way out of
\* Update the reader of the client is put back or the client is given up.
THEOREM OneReaderEach == Spec => []Attended
  <1>1. SwitchInv => Attended BY DEF SwitchInv
  <1> QED BY <1>1, SwitchInvariant, PTL

\* What the screen shows, waits for and holds as a draft is of the connected
\* room, for any number of clients, late events and clipboards.
THEOREM RoomsStayApart == Spec => []Isolation
  <1>1. SwitchInv => Isolation
    <2> SUFFICES ASSUME SwitchInv PROVE Isolation OBVIOUS
    <2>1. target.shown \subseteq {target.network}
      <3>1. CASE HasCandidate BY <3>1 DEF SwitchInv, Candidate
      <3>2. CASE ~HasCandidate
        BY <3>2, EmptyTyped DEF SwitchInv, Candidate, NoCandidate, SomeNetwork
      <3> QED BY <3>1, <3>2
    <2>2. ASSUME NEW n \in {model.network} \ {NoNetwork},
                 Running(n, "online"), net[n].events = <<>>
          PROVE  Requests(model) \subseteq net[n].sent
      <3>1. Known(net[n], model) BY DEF SwitchInv, Screen, Agrees
      <3>2. DOMAIN net[n].events = {} BY <2>2
      <3> QED BY <2>2, <3>1, <3>2 DEF Known, Running
    <2>3. model.draft \in {model.network, NoNetwork}
          /\ (model.connected => model.shown \subseteq {model.network})
      BY DEF SwitchInv, Screen
    <2> QED BY <2>1, <2>2, <2>3 DEF Isolation
  <1> QED BY <1>1, SwitchInvariant, PTL

\* A candidate is dialled only when no request of the old room is open, the user
\* has seen each failure and has agreed to lose the draft, and all this stays so
\* while it is on its way.
THEOREM NothingLost == Spec => []NothingLostUnasked
  <1>1. SwitchInv => NothingLostUnasked BY DEF SwitchInv
  <1> QED BY <1>1, SwitchInvariant, PTL

\* A candidate ends by its own event or timer, by the user or with the program,
\* or becomes the room: no late timer or event of an earlier one ends it.
THEOREM CandidateEnds == Spec => CandidateEndsItself
  <1>1. SwitchInv /\ [Next]_vars => [EndsItself]_vars BY EndsItselfStep
  <1> QED BY <1>1, SwitchInvariant, PTL DEF Spec, CandidateEndsItself, EndsItself

=============================================================================
