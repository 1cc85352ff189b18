---------------------------- MODULE MCRoomSwitch ----------------------------
(* Instances of RoomSwitch for TLC. *)
EXTENDS RoomSwitch

=============================================================================
