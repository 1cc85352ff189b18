---------------------------- MODULE RoomContract ----------------------------
(***************************************************************************)
(* What a room promises to whoever kept a copy of it: as long as its tag   *)
(* (Room.InstanceID) is the same, its log only grows at the end, and a     *)
(* change to what is already there comes with a tag never used before.     *)
(* RoomStore implements this with transactions and crashes.                *)
(***************************************************************************)
EXTENDS Integers

CONSTANTS Room, Tag

VARIABLES log,      \* the messages of each room
          tag,      \* the tag of each room
          spent     \* every tag in use so far, and perhaps some that never were

cvars == <<log, tag, spent>>

CInit == /\ log = [r \in Room |-> {}]
         /\ tag \in [Room -> Tag]
         /\ \A r \in Room : tag[r] \in spent

\* A message joins the end of a log, behind every message of every room.
Grow(r) ==
    /\ \E m \in log'[r] :
          /\ \A s \in Room : \A k \in log[s] : k.id < m.id
          /\ log' = [log EXCEPT ![r] = @ \cup {m}]
    /\ UNCHANGED <<tag, spent>>

\* The logs of the rooms in R lose messages or have them replaced.
Revise(R) ==
    /\ \A r \in R : /\ \A m \in log'[r] : \E k \in log[r] : k.id = m.id
                    /\ tag'[r] \in Tag \ spent
                    /\ tag'[r] \in spent'
    /\ \A r \in Room \ R : log'[r] = log[r] /\ tag'[r] = tag[r]
    /\ spent \subseteq spent'

CNext == (\E r \in Room : Grow(r)) \/ (\E R \in SUBSET Room : Revise(R))

CSpec == CInit /\ [][CNext]_cvars

=============================================================================
