------------------------------- MODULE RoomDb -------------------------------
(***************************************************************************)
(* The encrypted rooms database of internal/securestore, as data: what a   *)
(* query reads from it and what a committed transaction leaves in it.      *)
(* RoomStore makes it a state machine with transactions and crashes,       *)
(* ChatServer uses it under the server's lock.                             *)
(*                                                                         *)
(* A database is a record:                                                 *)
(*   rows      the messages table; ids are the AUTOINCREMENT primary key   *)
(*   last      sqlite_sequence: the largest id ever given out              *)
(*   rooms     the rooms table, the target of messages.room_id             *)
(*   instance  metadata row instance_id                                    *)
(*   epoch     metadata rows recall_epoch/<room>, 0 where there is none    *)
(*   drawn     how many values rand.Text() has produced                    *)
(* rand.Text() draws 128 random bits; a draw is modelled as a number that  *)
(* was never drawn before.                                                 *)
(***************************************************************************)
EXTENDS Integers, FiniteSets, FiniteSetsExt

CONSTANTS Room,       \* room ids, the HMACs of the passphrases
          Owner,      \* hashes of client tokens
          NoOwner,    \* "", the owner of a client that sent no token; in Owner
                      \* where such clients are considered
          PageSize    \* protocol.PageSize, 100

ASSUME PageSizeAssumption == PageSize \in Nat \ {0}

Row == [id : Nat, room : Room, owner : Owner, recalled : BOOLEAN]

InstanceIDs == Nat \X Nat

\* What a client names that was in no room yet.
NoInstance == <<0, 0>>

Databases ==
    [rows : SUBSET Row, last : Nat, rooms : SUBSET Room,
     instance : Nat, epoch : [Room -> Nat], drawn : Nat]

\* Open of a path with no database: the schema is created in one transaction.
NewDb == [rows |-> {}, last |-> 0, rooms |-> {},
          instance |-> 1, epoch |-> [r \in Room |-> 0], drawn |-> 1]

-----------------------------------------------------------------------------
(* Queries *)

RoomRows(db, r) == {m \in db.rows : m.room = r}

Ids(S) == {m.id : m \in S}

LatestID(db, r) ==
    IF RoomRows(db, r) = {} THEN 0 ELSE Max(Ids(RoomRows(db, r)))

InstanceID(db, r) == <<db.instance, db.epoch[r]>>

Lowest(S, n)  == {m \in S : Cardinality({k \in S : k.id < m.id}) < n}
Highest(S, n) == {m \in S : Cardinality({k \in S : k.id > m.id}) < n}

\* One page of a room's history. before < 0 or after > 0 reads forward from
\* after, otherwise it reads backward from before (0: from the end). A page is
\* sent sorted by id, so the set of its messages says all there is to say.
Page(db, r, before, after, through) ==
    LET ascending == after > 0 \/ before < 0
        range     == {m \in RoomRows(db, r) :
                          /\ m.id <= through
                          /\ before > 0 => m.id < before
                          /\ ascending  => m.id > after}
    IN  [messages |-> IF ascending THEN Lowest(range, PageSize)
                                   ELSE Highest(range, PageSize),
         hasMore  |-> Cardinality(range) > PageSize]

-----------------------------------------------------------------------------
(* Transactions: the database each of them commits *)

OpenRoom(db, r) == [db EXCEPT !.rooms = @ \cup {r}]

\* Defective variant: without AUTOINCREMENT, ids of deleted rows come back.
NewRowReusingIds(db, r, o) ==
    [id |-> Max({0} \cup Ids(db.rows)) + 1, room |-> r, owner |-> o, recalled |-> FALSE]

\* The row AppendChat inserts, with the next AUTOINCREMENT id.
NewRow(db, r, o) == [id |-> db.last + 1, room |-> r, owner |-> o, recalled |-> FALSE]

\* Defective variant: the insert relies on the row that Store.Room made.
AppendChatOnly(db, r, o) ==
    [db EXCEPT !.rows = @ \cup {NewRow(db, r, o)}, !.last = @ + 1]

AppendChat(db, r, o) ==
    [db EXCEPT !.rooms = @ \cup {r},
               !.rows  = @ \cup {NewRow(db, r, o)},
               !.last  = @ + 1]

\* The rows of room r that Recall(id, owner) may replace.
OwnRows(db, r, id, o) ==
    {m \in RoomRows(db, r) : m.id = id /\ m.owner = o /\ o # NoOwner}

\* Defective variant: the body is replaced but the room's epoch is not.
RecallRowOnly(db, m) ==
    [db EXCEPT !.rows  = (@ \ {m}) \cup {[m EXCEPT !.recalled = TRUE]},
               !.drawn = @ + 1]

RecallRow(db, m) ==
    [db EXCEPT !.rows         = (@ \ {m}) \cup {[m EXCEPT !.recalled = TRUE]},
               !.epoch[m.room] = db.drawn + 1,
               !.drawn        = @ + 1]

\* Defective variant: a cleanup that keeps the instance.
ClearAllKeepingInstance(db) ==
    [db EXCEPT !.rows = {}, !.rooms = {}, !.epoch = [r \in Room |-> 0], !.drawn = @ + 1]

\* ClearAll keeps sqlite_sequence: ids are not reused after a cleanup.
ClearAll(db) ==
    [db EXCEPT !.rows     = {},
               !.rooms    = {},
               !.epoch    = [r \in Room |-> 0],
               !.instance = db.drawn + 1,
               !.drawn    = @ + 1]

=============================================================================
