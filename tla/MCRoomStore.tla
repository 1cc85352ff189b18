---------------------------- MODULE MCRoomStore ----------------------------
(* RoomStore on two rooms, a client with a token and one without, and one reader. *)
EXTENDS RoomStore, TLC

Symmetry == Permutations(Room)

=============================================================================
