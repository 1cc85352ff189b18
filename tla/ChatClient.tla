----------------------------- MODULE ChatClient -----------------------------
(***************************************************************************)
(* The client process as data: what internal/client keeps from one         *)
(* connection to the next (network), what internal/tui shows (model), and  *)
(* what a frame from the server does to both.  ChatSystem joins clients    *)
(* to ChatServer.                                                          *)
(*                                                                         *)
(* The Events channel is applied in the order it is filled and the model   *)
(* shows nothing else, so an event is applied to the model in the step     *)
(* that emits it.                                                          *)
(***************************************************************************)
EXTENDS RoomDb, Sequences

NoConn == "none"

-----------------------------------------------------------------------------
(* internal/client: Client and link *)

\* phase    "offline" between connections, "linked" during one, "stopped"
\*          when Run has returned
\* conn     the connection of the link
\* ready    link.ready: the user's requests may be queued
\* welcomed an error is no longer the answer to the join
NewNetwork ==
    [phase |-> "offline", conn |-> NoConn, ready |-> FALSE, welcomed |-> FALSE,
     instance |-> NoInstance, cursor |-> 0, everConnected |-> FALSE]

Link(net, c) ==
    [net EXCEPT !.phase = "linked", !.conn = c, !.ready = FALSE, !.welcomed = FALSE]

Unlink(net, phase) ==
    [net EXCEPT !.phase = phase, !.conn = NoConn, !.ready = FALSE, !.welcomed = FALSE]

Further(cursor, messages) == Max({cursor} \cup Ids(messages))

\* Defective variant: the cursor of the instance before is kept.
OnWelcomeKeepingCursor(net, f) ==
    [net EXCEPT !.instance = f.instance, !.welcomed = TRUE]

\* A new instance is read from its start, also one that the join named no more.
OnWelcome(net, f) ==
    [net EXCEPT !.cursor   = IF f.resumed THEN @ ELSE 0,
                !.instance = f.instance,
                !.welcomed = TRUE]

\* Defective variant: only sync_complete opens the queue of requests.
OnClearedNotReady(net, f) ==
    [net EXCEPT !.instance = f.instance, !.cursor = 0, !.everConnected = TRUE]

\* A cleanup ends the catching up, on the server's side too.
OnCleared(net, f) ==
    [net EXCEPT !.instance = f.instance, !.cursor = 0,
                !.everConnected = TRUE, !.ready = TRUE]

\* Defective variant: only the first connection gets ready.
OnSyncCompleteOnce(net, f) ==
    [net EXCEPT !.cursor = Max({@, f.through}),
                !.everConnected = TRUE, !.ready = ~net.everConnected]

OnSyncComplete(net, f) ==
    [net EXCEPT !.cursor = Max({@, f.through}),
                !.everConnected = TRUE, !.ready = TRUE]

Carried(f) ==
    CASE f.type = "sync" \/ (f.type = "history" /\ f.req = "initial") -> f.messages
      [] f.type = "message" -> {f.message}
      [] OTHER -> {}

\* Defective variant: the cursor moves before the frame is handed on.
BeforeEmitMoving(net, f) ==
    CASE f.type = "welcome"         -> OnWelcome(net, f)
      [] f.type = "history_cleared" -> OnCleared(net, f)
      [] f.type = "sync_complete"   -> OnSyncComplete(net, f)
      [] OTHER -> [net EXCEPT !.cursor = Further(@, Carried(f))]

\* What connect does with a frame before it emits it ...
BeforeEmit(net, f) ==
    CASE f.type = "welcome"         -> OnWelcome(net, f)
      [] f.type = "history_cleared" -> OnCleared(net, f)
      [] f.type = "sync_complete"   -> OnSyncComplete(net, f)
      [] OTHER -> net

\* ... and after: the cursor covers what the model was shown, never more.
AfterEmit(net, f) ==
    [net EXCEPT !.cursor   = Further(@, Carried(f)),
                !.instance = IF f.type = "recalled" THEN f.instance ELSE @]

\* The refusals after which Run gives up.
Fatal(net, f) == f.code = "unauthorized" \/ (f.code = "name_taken" /\ ~net.everConnected)

-----------------------------------------------------------------------------
(* internal/tui: Model *)

\* pending, recalls  a send or recall that is not answered yet
\* loading           a page of older messages is on its way
\* issues            the outcomes the user is told of: "failed", "unknown"
NewModel ==
    [joined |-> TRUE, connected |-> FALSE, messages |-> {}, hasMore |-> FALSE,
     loading |-> FALSE, users |-> {}, pending |-> FALSE, recalls |-> FALSE,
     issues |-> {}]

\* merge: a message replaces the one with its id unless that is recalled.
MergeMessages(old, new) ==
    LET final == {m \in old : m.recalled \/ m.id \notin Ids(new)}
    IN  final \cup {m \in new : m.id \notin Ids(final)}

Disconnected(tui) ==
    [tui EXCEPT !.connected = FALSE, !.loading = FALSE, !.recalls = FALSE,
                !.pending = FALSE,
                !.issues = IF tui.pending THEN @ \cup {"unknown"} ELSE @]

\* The event of a Run that gives up.
GivenUp(tui) == [tui EXCEPT !.connected = FALSE, !.joined = FALSE]

\* applyEvent, by the type of the frame.
ShowWelcome(tui, f) ==
    IF f.resumed THEN [tui EXCEPT !.users = f.users]
    ELSE [tui EXCEPT !.users = f.users, !.issues = {}, !.pending = FALSE,
                     !.recalls = FALSE, !.messages = {}, !.hasMore = FALSE,
                     !.loading = FALSE]

ShowHistory(tui, f) ==
    [tui EXCEPT !.messages = MergeMessages(@, f.messages),
                !.hasMore = f.hasMore, !.loading = FALSE]

ShowMessage(tui, f) ==
    [tui EXCEPT !.messages = MergeMessages(@, {f.message}),
                !.pending = @ /\ f.req # "send"]

ShowRecalled(tui, f) ==
    [tui EXCEPT !.messages = IF f.message.id \in Ids(@)
                             THEN {m \in @ : m.id # f.message.id} \cup {f.message}
                             ELSE @,
                !.recalls = @ /\ f.req # "recall"]

ShowCleared(tui) ==
    [tui EXCEPT !.messages = {}, !.issues = {}, !.pending = FALSE, !.recalls = FALSE,
                !.hasMore = FALSE, !.loading = FALSE, !.connected = TRUE]

\* Defective variant: only failed sends are settled.
ShowSendError(tui, f) ==
    [tui EXCEPT !.pending = @ /\ f.req # "send",
                !.issues  = IF tui.pending /\ f.req = "send" THEN @ \cup {"failed"} ELSE @]

ShowError(tui, f) ==
    [tui EXCEPT !.pending = @ /\ f.req # "send",
                !.issues  = IF tui.pending /\ f.req = "send" THEN @ \cup {"failed"} ELSE @,
                !.recalls = @ /\ f.req # "recall",
                !.loading = @ /\ f.req # "older"]

\* sync_complete is followed by the event "connected".
Show(tui, f) ==
    CASE f.type = "welcome"            -> ShowWelcome(tui, f)
      [] f.type = "presence"           -> [tui EXCEPT !.users = f.users]
      [] f.type = "history"            -> ShowHistory(tui, f)
      [] f.type = "sync"               -> [tui EXCEPT !.messages = MergeMessages(@, f.messages)]
      [] f.type = "sync_complete"      -> [tui EXCEPT !.connected = TRUE]
      [] f.type \in {"message", "ack"} -> ShowMessage(tui, f)
      [] f.type = "recalled"           -> ShowRecalled(tui, f)
      [] f.type = "history_cleared"    -> ShowCleared(tui)
      [] f.type = "error"              -> ShowError(tui, f)

\* The oldest message shown, where older ones are loaded from.
Oldest(tui) == Min(Ids(tui.messages))

=============================================================================
