----------------------------- MODULE RoomSwitch -----------------------------
(***************************************************************************)
(* The terminal client around internal/tui/room_switch.go: the model of    *)
(* the room on the screen, the dialog (F2) that prepares another room on a  *)
(* candidate connection, and the network clients behind both, each with    *)
(* its goroutines and its channel of events.                               *)
(*                                                                         *)
(* The program runs Update for one message at a time.  Commands run beside *)
(* it: waitEvent takes one event from one client's channel, a timer, a     *)
(* clipboard read.  Taking an event and handling it are one step: while a   *)
(* client has one reader (Attended), the order is the same.                *)
(***************************************************************************)
EXTENDS Naturals, Sequences

CONSTANTS Network,      \* client.Client objects
          NoNetwork,
          MaxEvents,    \* length of a client's channel (128 in the code)
          Sends,        \* numbers of the requests that send
          Recalls       \* and of those that recall

ASSUME NetworkAssumption == NoNetwork \notin Network
ASSUME BoundAssumption == MaxEvents \in Nat \ {0}
ASSUME RequestAssumption == Sends \cap Recalls = {} /\ 0 \notin Sends \cup Recalls

VARIABLES net,          \* the clients
          model,        \* the Model on the screen
          dialog,       \* Model.switcher
          target,       \* dialog.candidate, when its network is not NoNetwork
          reading,      \* commands waitEvent under way, for each client
          timers,       \* clients with a roomSwitchTimeout to come
          pasting,      \* clients for which readRoomClipboard is under way
          quit,         \* the program has ended
          user          \* not in the code: what the user knows and agreed to

vars == <<net, model, dialog, target, reading, timers, pasting, quit, user>>
commands == <<timers, pasting>>

-----------------------------------------------------------------------------
(* internal/client: Run and connect, as a source of events *)

\* run: "unused" before Run, "joining" from the first dial on, "syncing",
\* "online", "broken" when the link is gone, "done" when Run has returned and
\* the channel is closed. (The event "connecting" says nothing new to a model
\* that is new or has had "disconnected".) known: it has an instance to resume. sent: requests
\* without an answer.
Unused == [run |-> "unused", known |-> FALSE, sent |-> {}, events |-> <<>>]

Event(type) == [type |-> type, req |-> 0, resumed |-> FALSE]
Welcome(resumed) == [Event("welcome") EXCEPT !.resumed = resumed]
Answer(type, r) == [Event(type) EXCEPT !.req = r]

Refusals == {"refused", "upgrade_required"}

\* emit: the event is queued when there is room. (That the link may fail while
\* emit waits is the subject of ChatSystem!ReceiveCancelled.)
Emit(n, e, new) ==
    /\ Len(net[n].events) < MaxEvents
    /\ net' = [net EXCEPT ![n] = [new EXCEPT !.events = Append(@, e)]]
    /\ UNCHANGED <<model, dialog, target, reading, commands, quit, user>>

Running(n, where) == net[n].run = where

\* The answer to the join, or the certificate, is one with which Run gives up:
\* unauthorized, name_taken on the first connection, unsupported_client ...
Refuse(n) ==
    /\ Running(n, "joining")
    /\ \E code \in Refusals : Emit(n, Event(code), [net[n] EXCEPT !.run = "done"])

\* welcome: without an instance there is nothing to resume.
Join(n) ==
    /\ Running(n, "joining")
    /\ \E resumed \in BOOLEAN :
        /\ resumed => net[n].known
        /\ Emit(n, Welcome(resumed), [net[n] EXCEPT !.run = "syncing", !.known = TRUE])

\* Pages of history and messages of others. One in the channel at a time will do.
Bring(n) ==
    /\ net[n].run \in {"syncing", "online"}
    /\ \A i \in DOMAIN net[n].events : net[n].events[i].type # "message"
    /\ Emit(n, Event("message"), net[n])

\* sync_complete: the link is ready, and the event "connected" follows.
Sync(n) ==
    /\ Running(n, "syncing")
    /\ Emit(n, Event("connected"), [net[n] EXCEPT !.run = "online"])

\* history_cleared makes the link ready, too, without a "connected".
Clear(n) ==
    /\ net[n].run \in {"syncing", "online"}
    /\ Emit(n, Event("history_cleared"), [net[n] EXCEPT !.run = "online"])

\* ack, recalled or error answer a request.
Reply(n) ==
    /\ Running(n, "online")
    /\ \E r \in net[n].sent, type \in {"answer", "error"} :
        Emit(n, Answer(type, r), [net[n] EXCEPT !.sent = @ \ {r}])

\* The link is gone, and its requests with it.
Break(n) ==
    /\ net[n].run \in {"joining", "syncing", "online"}
    /\ net' = [net EXCEPT ![n].run = "broken", ![n].sent = {}]
    /\ UNCHANGED <<model, dialog, target, reading, commands, quit, user>>

Disconnect(n) ==
    /\ Running(n, "broken")
    /\ Emit(n, Event("disconnected"), [net[n] EXCEPT !.run = "joining"])

\* A client nothing refers to any more stands for the next new one.
Collect(n) ==
    /\ Running(n, "done")
    /\ n \notin {model.network, target.network} \cup timers \cup pasting
    /\ reading[n] = 0
    /\ net' = [net EXCEPT ![n] = Unused]
    /\ UNCHANGED <<model, dialog, target, reading, commands, quit, user>>

\* The context is cancelled: Run returns, whatever it is at. What is in the
\* channel stays there.
Cancelled(clients, n) ==
    IF n = NoNetwork THEN clients
    ELSE [clients EXCEPT ![n] = [Unused EXCEPT !.run = "done", !.events = clients[n].events]]

Started(clients, n) == [clients EXCEPT ![n].run = "joining"]

-----------------------------------------------------------------------------
(* Model and applyEvent *)

\* shown: the clients of whose rooms there are messages or notices (issues) on
\* the screen; draft: the one for whose room the text in the input was written.
EmptyModel(n) ==
    [network |-> n, joined |-> n # NoNetwork, connected |-> FALSE, shown |-> {},
     pending |-> {}, recalls |-> {}, draft |-> NoNetwork]

Requests(m) == m.pending \cup m.recalls

Cleared(m) == [m EXCEPT !.shown = {}, !.pending = {}, !.recalls = {}]

AfterDisconnect(m) ==
    [m EXCEPT !.connected = FALSE, !.pending = {}, !.recalls = {},
              !.shown = IF m.pending # {} THEN @ \cup {m.network} ELSE @]

AfterError(m, r) ==
    [m EXCEPT !.pending = @ \ {r}, !.recalls = @ \ {r},
              !.shown = IF r \in m.pending THEN @ \cup {m.network} ELSE @]

\* applyEvent, of an event of client n.
Apply(m, n, e) ==
    CASE e.type = "connected"       -> [m EXCEPT !.connected = TRUE]
      [] e.type = "disconnected"    -> AfterDisconnect(m)
      [] e.type = "refused"         -> [m EXCEPT !.connected = FALSE, !.joined = FALSE]
      [] e.type = "welcome"         -> IF e.resumed THEN m ELSE Cleared(m)
      [] e.type = "history_cleared" -> [Cleared(m) EXCEPT !.connected = TRUE]
      [] e.type = "message"         -> [m EXCEPT !.shown = @ \cup {n}]
      [] e.type = "answer"          -> [m EXCEPT !.pending = @ \ {e.req},
                                                 !.recalls = @ \ {e.req},
                                                 !.shown = @ \cup {n}]
      [] e.type = "error"           -> AfterError(m, e.req)

\* Enter on the login form. The text in the input stays there, for the new room.
LogIn(m, n) ==
    [m EXCEPT !.network = n, !.joined = TRUE,
              !.draft = IF @ = NoNetwork THEN @ ELSE n]

-----------------------------------------------------------------------------
(* roomSwitch, the dialog *)

Closed == [open |-> FALSE, waiting |-> FALSE, failed |-> FALSE, confirm |-> FALSE]
Opened == [Closed EXCEPT !.open = TRUE]

NoCandidate == EmptyModel(NoNetwork)
HasCandidate == target.network # NoNetwork

Init ==
    /\ net = [n \in Network |-> Unused]
    /\ model = EmptyModel(NoNetwork)
    /\ dialog = Closed
    /\ target = NoCandidate
    /\ reading = [n \in Network |-> 0]
    /\ timers = {}
    /\ pasting = {}
    /\ quit = FALSE
    /\ user = [unseen |-> FALSE, agreed |-> FALSE]

\* The client the factory makes.
New == CHOOSE n \in Network : Running(n, "unused")

CanMake == \E n \in Network : Running(n, "unused")

\* Enter on the completed login form.
Login ==
    /\ ~model.joined /\ ~dialog.open /\ CanMake
    /\ net' = Started(Cancelled(net, model.network), New)
    /\ model' = LogIn(model, New)
    /\ reading' = [reading EXCEPT ![New] = @ + 1]
    /\ user' = [unseen |-> FALSE, agreed |-> FALSE]
    /\ UNCHANGED <<dialog, target, commands, quit>>

-----------------------------------------------------------------------------
(* The chat screen *)

Chatting == model.joined /\ ~dialog.open

Type ==
    /\ Chatting /\ model.draft = NoNetwork
    /\ model' = [model EXCEPT !.draft = model.network]
    /\ UNCHANGED <<net, dialog, target, reading, commands, quit, user>>

Erase ==
    /\ Chatting /\ model.draft # NoNetwork
    /\ model' = [model EXCEPT !.draft = NoNetwork]
    /\ UNCHANGED <<net, dialog, target, reading, commands, quit, user>>

\* A number that is nowhere any more may be used again.
Free(n, r) ==
    /\ r \notin Requests(model) \cup net[n].sent
    /\ \A i \in DOMAIN net[n].events : net[n].events[i].req # r

\* queue succeeds: the link is ready.
CanQueue(r) ==
    /\ Chatting /\ model.connected
    /\ Running(model.network, "online") /\ Free(model.network, r)

Queued(r) == [net EXCEPT ![model.network].sent = @ \cup {r}]

\* sendBody
Send ==
    /\ model.draft # NoNetwork
    /\ \E r \in Sends :
        /\ CanQueue(r)
        /\ net' = Queued(r)
        /\ model' = [model EXCEPT !.draft = NoNetwork, !.pending = @ \cup {r}]
    /\ UNCHANGED <<dialog, target, reading, commands, quit, user>>

\* The recall dialog, from F5 to its confirmation.
Recall ==
    /\ \E r \in Recalls :
        /\ CanQueue(r)
        /\ net' = Queued(r)
        /\ model' = [model EXCEPT !.recalls = @ \cup {r}]
    /\ UNCHANGED <<dialog, target, reading, commands, quit, user>>

\* Ctrl+V reads the clipboard beside the program, one at a time here.
Paste ==
    /\ Chatting /\ pasting = {}
    /\ pasting' = {model.network}
    /\ UNCHANGED <<net, model, dialog, target, reading, timers, quit, user>>

\* Defective variant: it goes to the room that is there by now.
TakesPasteAnyway(n) == Chatting

TakesPaste(n) == Chatting /\ model.network = n

Pasted(n) ==
    /\ n \in pasting
    /\ pasting' = pasting \ {n}
    /\ model' = [model EXCEPT !.draft = IF TakesPaste(n) THEN n ELSE @]
    /\ UNCHANGED <<net, dialog, target, reading, timers, quit, user>>

-----------------------------------------------------------------------------
(* room_switch.go *)

\* F2
OpenRoomSwitch ==
    /\ Chatting
    /\ dialog' = Opened
    /\ user' = [unseen |-> FALSE, agreed |-> FALSE]
    /\ UNCHANGED <<net, model, target, reading, commands, quit>>

\* Defective variant: the candidate is forgotten, its connection goes on.
CancelRoomSwitchOnly ==
    /\ dialog.open
    /\ dialog' = Closed
    /\ target' = NoCandidate
    /\ UNCHANGED <<net, model, reading, commands, quit, user>>

\* Esc
CancelRoomSwitch ==
    /\ dialog.open
    /\ net' = Cancelled(net, target.network)
    /\ dialog' = Closed
    /\ target' = NoCandidate
    /\ user' = [unseen |-> FALSE, agreed |-> FALSE]
    /\ UNCHANGED <<model, reading, commands, quit>>

\* Keys that change what is entered.
Edit ==
    /\ dialog.open /\ dialog.confirm /\ ~HasCandidate /\ ~dialog.waiting
    /\ dialog' = [dialog EXCEPT !.confirm = FALSE]
    /\ user' = [user EXCEPT !.agreed = FALSE]
    /\ UNCHANGED <<net, model, target, reading, commands, quit>>

\* submitRoomSwitch: it waits for answers, asks about the draft, or dials. What
\* the handler that calls it has done to the clients, the readers, the model and
\* the dialog comes first.
Submit(clients, readers, m, d) ==
    LET wait == Requests(m) # {}
        ask  == ~wait /\ m.draft # NoNetwork /\ ~d.confirm
        dial == ~wait /\ ~ask
    IN  /\ dial => CanMake
        /\ dialog' = IF wait THEN [d EXCEPT !.waiting = TRUE, !.failed = FALSE]
                     ELSE [d EXCEPT !.confirm = ask,
                                    !.waiting = @ /\ ask]
        /\ target'  = IF dial THEN EmptyModel(New) ELSE target
        /\ net'     = IF dial THEN Started(clients, New) ELSE clients
        /\ reading' = IF dial THEN [readers EXCEPT ![New] = @ + 1] ELSE readers
        /\ timers'  = IF dial THEN timers \cup {New} ELSE timers

Enter ==
    /\ dialog.open /\ ~HasCandidate /\ ~dialog.waiting
    /\ Submit(net, reading, model, dialog)
    /\ user' = [unseen |-> FALSE, agreed |-> dialog.confirm]
    /\ UNCHANGED <<model, pasting, quit>>

\* failRoomSwitch
FailRoomSwitch(clients) ==
    /\ net' = Cancelled(clients, target.network)
    /\ target' = NoCandidate
    /\ dialog' = [dialog EXCEPT !.waiting = FALSE, !.confirm = FALSE]
    /\ user' = [user EXCEPT !.agreed = FALSE]

\* Defective variant: whatever candidate there is has to go.
IsCandidateAny(n) == HasCandidate

IsCandidate(n) == dialog.open /\ HasCandidate /\ target.network = n

\* Defective variant: the time is up only for a dialog that waits.
TimeoutWaiting(n) ==
    /\ n \in timers
    /\ timers' = timers \ {n}
    /\ IF IsCandidate(n) /\ dialog.waiting THEN FailRoomSwitch(net)
       ELSE UNCHANGED <<net, target, dialog, user>>
    /\ UNCHANGED <<model, reading, pasting, quit>>

\* roomSwitchTimeout, 15 s after the candidate was made.
Timeout(n) ==
    /\ n \in timers
    /\ timers' = timers \ {n}
    /\ IF IsCandidate(n) THEN FailRoomSwitch(net)
       ELSE UNCHANGED <<net, target, dialog, user>>
    /\ UNCHANGED <<model, reading, pasting, quit>>

-----------------------------------------------------------------------------
(* networkEvent: what a reader has taken from its client *)

\* The channel is closed and empty.
IsClosed(n) == Running(n, "done") /\ net[n].events = <<>>

Pops(n) == [net EXCEPT ![n].events = Tail(@)]

\* The reader is not put back.
Ends(n) == [reading EXCEPT ![n] = @ - 1]

\* Model.Close, and the end of the program: of the rest nothing remains.
Quit(clients) ==
    /\ net' = Cancelled(Cancelled(clients, target.network), model.network)
    /\ model' = EmptyModel(NoNetwork)
    /\ dialog' = Closed
    /\ target' = NoCandidate
    /\ reading' = [n \in Network |-> 0]
    /\ timers' = {}
    /\ pasting' = {}
    /\ user' = [unseen |-> FALSE, agreed |-> FALSE]
    /\ quit' = TRUE

CtrlC == Quit(net)

\* candidateEvent, connected: the candidate takes the place of the model.
Switch(n) ==
    /\ net' = Cancelled(Pops(n), model.network)
    /\ model' = Apply(target, n, Event("connected"))
    /\ dialog' = Closed
    /\ target' = NoCandidate
    /\ user' = [unseen |-> FALSE, agreed |-> FALSE]
    /\ UNCHANGED <<reading, timers, pasting, quit>>

\* candidateEvent, of event e.
CandidateEvent(n, e) ==
    CASE e.type = "upgrade_required" -> Quit(Pops(n))
      [] e.type \in {"refused", "disconnected"} ->
            /\ FailRoomSwitch(Pops(n))
            /\ reading' = Ends(n)
            /\ UNCHANGED <<model, commands, quit>>
      [] e.type = "connected" -> Switch(n)
      [] OTHER ->
            /\ net' = Pops(n)
            /\ target' = Apply(target, n, e)
            /\ UNCHANGED <<model, dialog, reading, commands, quit, user>>

\* Requests that were under way and have failed or are given up.
Lost(m, e) ==
    IF e.type = "error" THEN Requests(m) \cap {e.req}
    ELSE IF e.type = "answer" THEN {} ELSE Requests(m) \ Requests(Apply(m, m.network, e))

\* Defective variant: the last answer decides.
NoticeLast(d, e) == e.type \in {"history_cleared", "disconnected", "error"}

\* continueRoomSwitch stops here, with a notice to confirm.
Notice(d, e) == e.type \in {"history_cleared", "disconnected"} \/ d.failed

\* continueRoomSwitch, when event e has made m of the model.
Continue(clients, m, e) ==
    LET failed  == [dialog EXCEPT !.failed = @ \/ e.type = "error"]
        settled == [dialog EXCEPT !.waiting = FALSE, !.failed = FALSE]
        stay(d) == /\ net' = clients /\ dialog' = d
                   /\ UNCHANGED <<target, reading, timers>>
    IN  IF ~(dialog.open /\ dialog.waiting) THEN stay(dialog)
        ELSE IF Requests(m) # {} THEN stay(failed)
        ELSE IF Notice(failed, e) THEN stay(settled)
        ELSE Submit(clients, reading, m, settled)

\* Update, of event e of the client on the screen.
ModelEvent(n, e) ==
    IF e.type = "upgrade_required" THEN Quit(Pops(n))
    ELSE /\ model' = Apply(model, n, e)
         /\ user' = [user EXCEPT !.unseen = @ \/ (dialog.open /\ Lost(model, e) # {})]
         /\ Continue(Pops(n), model', e)
         /\ UNCHANGED <<pasting, quit>>

Deliver(n) ==
    /\ reading[n] > 0 /\ net[n].events # <<>>
    /\ LET e == Head(net[n].events)
       IN  IF IsCandidate(n) THEN CandidateEvent(n, e)
           ELSE IF model.network = n THEN ModelEvent(n, e)
           ELSE /\ net' = Pops(n) /\ reading' = Ends(n)
                /\ UNCHANGED <<model, dialog, target, commands, quit, user>>

\* The reader finds its channel closed.
DeliverClosed(n) ==
    /\ reading[n] > 0 /\ IsClosed(n)
    /\ reading' = Ends(n)
    /\ IF IsCandidate(n) THEN FailRoomSwitch(net)
       ELSE UNCHANGED <<net, target, dialog, user>>
    /\ UNCHANGED <<model, commands, quit>>

-----------------------------------------------------------------------------

NetworkNext(n) ==
    \/ Refuse(n) \/ Join(n) \/ Bring(n) \/ Sync(n) \/ Clear(n)
    \/ Reply(n) \/ Break(n) \/ Disconnect(n) \/ Collect(n)

UserNext ==
    \/ Login \/ Type \/ Erase \/ Send \/ Recall \/ Paste
    \/ OpenRoomSwitch \/ CancelRoomSwitch \/ Edit \/ Enter \/ CtrlC

UpdateNext(n) ==
    Deliver(n) \/ DeliverClosed(n) \/ Timeout(n) \/ Pasted(n)

Next ==
    /\ ~quit
    /\ \/ UserNext
       \/ \E n \in Network : NetworkNext(n) \/ UpdateNext(n)

Spec == Init /\ [][Next]_vars

\* The runtime delivers messages and timers. A server answers every request, in
\* the order of the frames, or the heartbeat finds the link broken, and Run tells
\* so. There is always a client to be made.
Fairness ==
    /\ WF_vars(~quit /\ \E n \in Network : Deliver(n) \/ DeliverClosed(n))
    /\ WF_vars(~quit /\ \E n \in Network : Timeout(n) \/ Pasted(n) \/ Collect(n))
    /\ SF_vars(~quit /\ \E n \in Network : Reply(n))
    /\ WF_vars(~quit /\ \E n \in Network : Disconnect(n))

FairSpec == Spec /\ Fairness

-----------------------------------------------------------------------------
(* Properties *)

Current == {model.network, target.network} \ {NoNetwork}

\* Update re-arms waitEvent by hand on each of its ways out. The connection of
\* the room and that of the candidate are each read by one reader, so that no
\* event is handled out of order or never; no other started connection goes on,
\* and after the program has ended none does.
Attended ==
    /\ \A n \in Current : reading[n] = 1 \/ IsClosed(n)
    /\ \A n \in Network :
        net[n].run \notin {"unused", "done"} => n \in Current

\* What is shown, the notices, the requests waited for and the draft are those
\* of the connected room, whatever late events and clipboards arrive; a request
\* that is waited for is under way when nothing else is.
Isolation ==
    LET here == {model.network}
    IN  /\ model.connected => model.shown \subseteq here
        /\ model.draft \in here \cup {NoNetwork}
        /\ target.shown \subseteq {target.network}
        /\ \A n \in here \ {NoNetwork} :
            Running(n, "online") /\ net[n].events = <<>> => Requests(model) \subseteq net[n].sent

\* docs/superpowers/specs/2026-09-17-client-room-switch-design.md:9-10. A
\* candidate is on its way only when every request of the old room is settled,
\* the user has confirmed after a failed one or one with unknown outcome, and,
\* when there is a draft, has agreed to lose it.
NothingLostUnasked ==
    HasCandidate =>
        /\ Requests(model) = {} /\ ~user.unseen
        /\ model.draft # NoNetwork => user.agreed

\* A candidate that the user does not cancel goes for its own reasons: its own
\* event, its own timer. Nothing that happens to the old connection or was
\* started for an earlier candidate ends it.
CandidateEndsItself ==
    [][HasCandidate /\ target'.network # target.network =>
           \/ reading'[target.network] < reading[target.network]
           \/ target.network \in timers \ timers'
           \/ quit' \/ model'.network = target.network
           \/ dialog' = Closed /\ UNCHANGED <<model, reading, commands>>]_vars

\* The dialog does not hang: the wait for answers ends, and so does every
\* attempt to enter the other room.
SwitchEnds ==
    (dialog.waiting \/ HasCandidate) ~> (quit \/ ~(dialog.waiting \/ HasCandidate))

=============================================================================
