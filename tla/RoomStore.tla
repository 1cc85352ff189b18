----------------------------- MODULE RoomStore -----------------------------
(***************************************************************************)
(* internal/securestore as a concurrent component: one open Store, its     *)
(* SQLite file, and the callers of its exported operations.                *)
(*                                                                         *)
(* Recall and ClearAll run under the mutations mutex and commit to the     *)
(* file before they publish the new identifiers in the Store's two atomics *)
(* (instance, epochs).  Between the commit and the last publication the    *)
(* process may crash, and others may append, open rooms, and read.         *)
(* Readers build what a client keeps: Room.InstanceID(), which is two      *)
(* atomic loads, and then one Page.  A client that comes back with that    *)
(* InstanceID is told to keep what it has, so the identifier has to vouch  *)
(* for the page.                                                           *)
(*                                                                         *)
(* SetMaxOpenConns(1) serializes transactions, so a transaction is one     *)
(* step; a transaction that fails or is rolled back leaves no trace and    *)
(* has no step.  Whether a message is older than RecallWindow is decided   *)
(* by a clock the store does not control: Expire may pass at any time.     *)
(***************************************************************************)
EXTENDS RoomDb

CONSTANTS Reader,     \* readers of the store, each holding the last page it got
          MaxId,      \* bound: messages ever appended
          MaxDraws    \* bound: values drawn from rand.Text()

VARIABLES db,         \* the committed contents of the SQLite file
          mem,        \* the atomics Store.instance and Store.epochs
          mutator,    \* the operation that holds Store.mutations, if any
          expired,    \* ids of messages older than RecallWindow
          reader      \* what each reader has read so far

vars == <<db, mem, mutator, expired, reader>>

Mem == [instance : Nat, epoch : [Room -> Nat]]

Idle == [pc |-> "idle"]

Mutators ==
    {Idle}
    \cup [pc : {"storeEpoch"}, room : Room, epoch : Nat]
    \cup [pc : {"storeInstance"}, instance : Nat]
    \cup [pc : {"clearEpochs"}]

Fresh == [pc |-> "none"]

Readers ==
    {Fresh}
    \cup [pc : {"loadedInstance"}, room : Room, instance : Nat]
    \cup [pc : {"loadedEpoch"}, room : Room, tag : InstanceIDs]
    \cup [pc : {"holding"}, room : Room, tag : InstanceIDs, view : SUBSET Row]

-----------------------------------------------------------------------------

\* Open: the atomics are loaded from the metadata table.
Loaded(d) == [instance |-> d.instance, epoch |-> d.epoch]

Init == /\ db = NewDb
        /\ mem = Loaded(NewDb)
        /\ mutator = Idle
        /\ expired = {}
        /\ reader = [c \in Reader |-> Fresh]

\* Store.Room: the room's row is inserted unless it is there.
OpenRoomRow(r) ==
    /\ db' = OpenRoom(db, r)
    /\ UNCHANGED <<mem, mutator, expired, reader>>

\* Room.AppendChat. It does not take the mutations mutex.
Append(r, o) ==
    /\ db.last < MaxId
    /\ db' = AppendChat(db, r, o)
    /\ UNCHANGED <<mem, mutator, expired, reader>>

\* Defective variant: the window is not looked at in the transaction.
RecallAtAnyAge(r, id, o) ==
    /\ mutator = Idle
    /\ db.drawn < MaxDraws
    /\ \E m \in OwnRows(db, r, id, o) : ~m.recalled /\ db' = RecallRow(db, m)
    /\ mutator' = [pc |-> "storeEpoch", room |-> r, epoch |-> db'.epoch[r]]
    /\ UNCHANGED <<mem, expired, reader>>

\* Room.Recall up to its commit: the caller's own message, still on display,
\* within the window. Every other outcome returns without a change.
Recall(r, id, o) ==
    /\ mutator = Idle
    /\ db.drawn < MaxDraws
    /\ id \notin expired
    /\ \E m \in OwnRows(db, r, id, o) :
          /\ ~m.recalled
          /\ db' = RecallRow(db, m)
    /\ mutator' = [pc |-> "storeEpoch", room |-> r, epoch |-> db'.epoch[r]]
    /\ UNCHANGED <<mem, expired, reader>>

\* epochs.Store, the last thing Recall does under the mutex.
StoreEpoch ==
    /\ mutator.pc = "storeEpoch"
    /\ mem' = [mem EXCEPT !.epoch[mutator.room] = mutator.epoch]
    /\ mutator' = Idle
    /\ UNCHANGED <<db, expired, reader>>

\* Store.ClearAll up to its commit.
Clear ==
    /\ mutator = Idle
    /\ db.drawn < MaxDraws
    /\ db' = ClearAll(db)
    /\ mutator' = [pc |-> "storeInstance", instance |-> db'.instance]
    /\ UNCHANGED <<mem, expired, reader>>

\* Defective variant: the epochs of the time before the cleanup stay.
StoreInstanceOnly ==
    /\ mutator.pc = "storeInstance"
    /\ mem' = [mem EXCEPT !.instance = mutator.instance]
    /\ mutator' = Idle
    /\ UNCHANGED <<db, expired, reader>>

\* instance.Store and then epochs.Clear, still under the mutex.
StoreInstance ==
    /\ mutator.pc = "storeInstance"
    /\ mem' = [mem EXCEPT !.instance = mutator.instance]
    /\ mutator' = [pc |-> "clearEpochs"]
    /\ UNCHANGED <<db, expired, reader>>

ClearEpochs ==
    /\ mutator.pc = "clearEpochs"
    /\ mem' = [mem EXCEPT !.epoch = [r \in Room |-> 0]]
    /\ mutator' = Idle
    /\ UNCHANGED <<db, expired, reader>>

\* Two minutes have passed since message m was created.
Expire(m) ==
    /\ m.id \notin expired
    /\ expired' = expired \cup {m.id}
    /\ UNCHANGED <<db, mem, mutator, reader>>

\* Room.InstanceID loads the instance and then the room's epoch.
LoadInstance(c, r) ==
    /\ reader[c].pc \in {"none", "holding"}
    /\ reader' = [reader EXCEPT ![c] =
          [pc |-> "loadedInstance", room |-> r, instance |-> mem.instance]]
    /\ UNCHANGED <<db, mem, mutator, expired>>

\* Defective variant: rooms are identified by the bare instance.
LoadNoEpoch(c) ==
    /\ reader[c].pc = "loadedInstance"
    /\ reader' = [reader EXCEPT ![c] =
          [pc |-> "loadedEpoch", room |-> @.room, tag |-> <<@.instance>>]]
    /\ UNCHANGED <<db, mem, mutator, expired>>

LoadEpoch(c) ==
    /\ reader[c].pc = "loadedInstance"
    /\ reader' = [reader EXCEPT ![c] =
          [pc |-> "loadedEpoch", room |-> @.room,
           tag |-> <<@.instance, mem.epoch[@.room]>>]]
    /\ UNCHANGED <<db, mem, mutator, expired>>

\* Room.Page, up to an id the caller got from LatestID now or earlier.
ReadPage(c, before, after, through) ==
    /\ reader[c].pc = "loadedEpoch"
    /\ reader' = [reader EXCEPT ![c] =
          [pc |-> "holding", room |-> @.room, tag |-> @.tag,
           view |-> Page(db, @.room, before, after, through).messages]]
    /\ UNCHANGED <<db, mem, mutator, expired>>

\* The process ends wherever it is and Open runs on what was committed.
\* What a reader was doing is lost, what it holds is at the client.
Crash ==
    /\ mem' = Loaded(db)
    /\ mutator' = Idle
    /\ reader' = [c \in Reader |->
          IF reader[c].pc = "holding" THEN reader[c] ELSE Fresh]
    /\ UNCHANGED <<db, expired>>

Mutate ==
    \/ \E r \in Room : OpenRoomRow(r)
    \/ \E r \in Room, o \in Owner : Append(r, o)
    \/ \E r \in Room, o \in Owner, id \in Ids(db.rows) : Recall(r, id, o)
    \/ StoreEpoch
    \/ Clear
    \/ StoreInstance
    \/ ClearEpochs

Observe ==
    \E c \in Reader :
        \/ \E r \in Room : LoadInstance(c, r)
        \/ LoadEpoch(c)
        \/ \E through \in 0..db.last :
              \/ \E before \in 0..through : ReadPage(c, before, 0, through)
              \/ \E after \in 0..through : ReadPage(c, -1, after, through)

Next == Mutate \/ Observe \/ Crash \/ \E m \in db.rows : Expire(m)

Spec == Init /\ [][Next]_vars

-----------------------------------------------------------------------------
(* Properties *)

\* S is a part of T without gaps.
Stretch(S, T) ==
    /\ S \subseteq T
    /\ \A m \in T : (\E a, b \in S : a.id <= m.id /\ m.id <= b.id) => m \in S

\* The state stays in the shapes above.
TypeOK ==
    /\ db \in Databases
    /\ mem \in Mem
    /\ mutator \in Mutators
    /\ expired \in SUBSET Nat
    /\ reader \in [Reader -> Readers]

\* What a reader holds under the identifier its room has in the file is still
\* a stretch of the room as it is: nothing of it was recalled or cleared since
\* and nothing was put in between. This is what Server.join relies on when it
\* answers Resumed to a client that names the current InstanceID, and what
\* securestore/recall.go's "Changing the room epoch forces offline clients to
\* discard stale cached bodies" promises. It has to survive torn reads of the
\* two atomics and crashes before they are stored.
InstanceVouches ==
    \A c \in Reader :
        (/\ reader[c].pc = "holding"
         /\ reader[c].tag = InstanceID(db, reader[c].room))
        => Stretch(reader[c].view, RoomRows(db, reader[c].room))

\* Whenever no Recall or ClearAll is between its commit and its last store,
\* the identifier handed to clients is the one a restart would load.
MemoryAgrees == mutator = Idle => mem = Loaded(db)

\* The foreign key messages.room_id and the AUTOINCREMENT sequence hold across
\* cleanups: rooms lose their row to ClearAll while sessions keep using them.
Referential ==
    /\ \A m \in db.rows : m.room \in db.rooms /\ m.id \in 1..db.last
    /\ \A m, n \in db.rows : m.id = n.id => m = n

\* Only ClearAll removes a message, and then all of them; a recalled message
\* never gets its body back, and one whose window has expired is not recalled.
Retention ==
    [][\/ db'.instance # db.instance
       \/ \A m \in db.rows :
             \/ m \in db'.rows
             \/ /\ [m EXCEPT !.recalled = TRUE] \in db'.rows
                /\ m.id \notin expired]_vars

\* A message appended after a cleanup has an id no earlier message ever had,
\* so a cursor of the emptied room is not below anything new.
IdsGrow == [][\A m \in db'.rows : m.id \in Ids(db.rows) \/ m.id > db.last]_vars

\* The file, step by step and across crashes, is an implementation of the
\* contract the clients rely on.
Contract == INSTANCE RoomContract WITH
    Tag   <- InstanceIDs,
    log   <- [r \in Room |-> RoomRows(db, r)],
    tag   <- [r \in Room |-> InstanceID(db, r)],
    spent <- (0..db.drawn) \X (0..db.drawn)

KeepsContract == Contract!CSpec

=============================================================================
