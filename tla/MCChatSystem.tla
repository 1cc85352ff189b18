---------------------------- MODULE MCChatSystem ----------------------------
(* ChatSystem for TLC: clients of one room, each with its own nickname. *)
EXTENDS ChatSystem, TLC

MCRoomOf == [i \in Client |-> CHOOSE r \in Room : TRUE]
MCNickOf == [i \in Client |-> i]

Symmetry == Permutations(Conn) \cup Permutations(Client)

\* The frames and requests of an ended connection are never read again.
View ==
    <<db, horizon, closed, sessions, net, tui, dials,
      [c \in Conn |-> IF conns[c].live THEN <<conns[c], up[c]>>
                      ELSE IF conns[c].phase = "serving"
                           THEN [conns[c] EXCEPT !.outgoing = <<>>, !.deferred = <<>>]
                           ELSE conns[c].phase]>>

=============================================================================
