----------------------------- MODULE MCChatFeed -----------------------------
(* ChatFeed for TLC: one or two rooms, a page of one message, short queues. *)
EXTENDS ChatFeed, TLC

Symmetry == Permutations(Conn) \cup Permutations(Name)

\* The frames of a cancelled session are never read again.
View ==
    <<db, horizon, closed, sessions,
      [c \in Conn |-> IF conns[c].live THEN <<conns[c], peer[c]>>
                      ELSE IF conns[c].phase = "serving"
                           THEN [conns[c] EXCEPT !.outgoing = <<>>, !.deferred = <<>>]
                           ELSE conns[c].phase]>>

=============================================================================
