-------------------------- MODULE RoomStoreProofs --------------------------
(***************************************************************************)
(* RoomStore for any rooms, clients, page size and bounds: the inductive   *)
(* invariant IInv, and from it the properties of the runs.                 *)
(*                                                                         *)
(* InstanceVouches is not inductive by itself.  A reader that has not read *)
(* its page yet may hold any identifier, torn ones included, and what      *)
(* keeps such an identifier from becoming current later is that every new  *)
(* one contains a value not drawn before: StampsDrawn.                     *)
(***************************************************************************)
EXTENDS RoomStore, FiniteSetTheorems, TLAPS

\* Every identifier anyone has was drawn already.
StampsDrawn ==
    /\ db.instance <= db.drawn
    /\ \A r \in Room : db.epoch[r] <= db.drawn
    /\ mem.instance <= db.drawn
    /\ \A r \in Room : mem.epoch[r] <= db.drawn
    /\ \A c \in Reader :
          /\ reader[c].pc = "loadedInstance" => reader[c].instance <= db.drawn
          /\ reader[c].pc \in {"loadedEpoch", "holding"}
                => reader[c].tag[1] <= db.drawn /\ reader[c].tag[2] <= db.drawn

\* What the holder of the mutex has committed and not yet published.
Publishing ==
    /\ mutator = Idle => mem = Loaded(db)
    /\ mutator.pc = "storeEpoch" =>
          /\ mutator.epoch = db.epoch[mutator.room]
          /\ Loaded(db) = [mem EXCEPT !.epoch[mutator.room] = mutator.epoch]
    /\ mutator.pc = "storeInstance" =>
          /\ mutator.instance = db.instance
          /\ db.epoch = [r \in Room |-> 0]
    /\ mutator.pc = "clearEpochs" =>
          /\ mem.instance = db.instance
          /\ db.epoch = [r \in Room |-> 0]

IInv == /\ TypeOK
        /\ IsFiniteSet(db.rows)
        /\ Referential
        /\ StampsDrawn
        /\ Publishing
        /\ InstanceVouches

-----------------------------------------------------------------------------
(* Pages and rows *)

\* The rows a page is chosen from are a stretch of the room.
LEMMA LowestStretch ==
    ASSUME NEW S \in SUBSET Row, IsFiniteSet(S), NEW n \in Nat,
           NEW m \in S, NEW b \in Lowest(S, n), m.id <= b.id
    PROVE  m \in Lowest(S, n)
<1> DEFINE Before(x) == {k \in S : k.id < x.id}
<1>1. Before(m) \in SUBSET Before(b)
  BY DEF Lowest, Row
<1>2. IsFiniteSet(Before(b))
  <2>1. Before(b) \in SUBSET S
    OBVIOUS
  <2> QED BY <2>1, FS_Subset
<1>3. Cardinality(Before(m)) <= Cardinality(Before(b)) /\ IsFiniteSet(Before(m))
  BY <1>1, <1>2, FS_Subset
<1>4. Cardinality(Before(m)) \in Nat /\ Cardinality(Before(b)) \in Nat
  BY <1>2, <1>3, FS_CardinalityType
<1>5. Cardinality(Before(b)) < n
  BY DEF Lowest
<1>6. Cardinality(Before(m)) < n
  BY <1>3, <1>4, <1>5
<1> QED BY <1>6 DEF Lowest

LEMMA HighestStretch ==
    ASSUME NEW S \in SUBSET Row, IsFiniteSet(S), NEW n \in Nat,
           NEW m \in S, NEW a \in Highest(S, n), a.id <= m.id
    PROVE  m \in Highest(S, n)
<1> DEFINE After(x) == {k \in S : k.id > x.id}
<1>1. After(m) \in SUBSET After(a)
  BY DEF Highest, Row
<1>2. IsFiniteSet(After(a))
  <2>1. After(a) \in SUBSET S
    OBVIOUS
  <2> QED BY <2>1, FS_Subset
<1>3. Cardinality(After(m)) <= Cardinality(After(a)) /\ IsFiniteSet(After(m))
  BY <1>1, <1>2, FS_Subset
<1>4. Cardinality(After(m)) \in Nat /\ Cardinality(After(a)) \in Nat
  BY <1>2, <1>3, FS_CardinalityType
<1>5. Cardinality(After(a)) < n
  BY DEF Highest
<1>6. Cardinality(After(m)) < n
  BY <1>3, <1>4, <1>5
<1> QED BY <1>6 DEF Highest

\* Whatever range it is asked for, a page is a stretch of its room.
LEMMA PageStretch ==
    ASSUME db \in Databases, IsFiniteSet(db.rows), NEW r \in Room,
           NEW before \in Int, NEW after \in Int, NEW through \in Int
    PROVE  Stretch(Page(db, r, before, after, through).messages, RoomRows(db, r))
<1> DEFINE ascending == after > 0 \/ before < 0
           range == {m \in RoomRows(db, r) :
                        /\ m.id <= through
                        /\ before > 0 => m.id < before
                        /\ ascending  => m.id > after}
           view == IF ascending THEN Lowest(range, PageSize)
                                ELSE Highest(range, PageSize)
<1>1. Page(db, r, before, after, through).messages = view
  BY DEF Page
<1>2. range \in SUBSET db.rows /\ range \in SUBSET Row
  BY DEF RoomRows, Databases
<1>3. IsFiniteSet(range)
  BY <1>2, FS_Subset
<1>4. view \subseteq range
  BY DEF Lowest, Highest
<1>5. ASSUME NEW m \in RoomRows(db, r), NEW a \in view, NEW b \in view,
             a.id <= m.id, m.id <= b.id
      PROVE  m \in view
  <2>1. m \in Row /\ a \in range /\ b \in range
    BY <1>4, <1>5 DEF RoomRows, Databases
  <2>2. m.id \in Nat /\ a.id \in Nat /\ b.id \in Nat
    BY <2>1, <1>2 DEF Row
  <2>3. m \in range
    BY <2>1, <2>2, <1>5
  <2>4. CASE ascending
    <3>1. b \in Lowest(range, PageSize)
      BY <2>4
    <3>2. m \in Lowest(range, PageSize)
      BY <3>1, <2>3, <1>2, <1>3, <1>5, LowestStretch, PageSizeAssumption
    <3> QED BY <3>2, <2>4
  <2>5. CASE ~ascending
    <3>1. a \in Highest(range, PageSize)
      BY <2>5
    <3>2. m \in Highest(range, PageSize)
      BY <3>1, <2>3, <1>2, <1>3, <1>5, HighestStretch, PageSizeAssumption
    <3> QED BY <3>2, <2>5
  <2> QED BY <2>4, <2>5
<1>6. view \subseteq RoomRows(db, r)
  BY <1>4
<1> HIDE DEF view
<1> QED BY <1>1, <1>5, <1>6 DEF Stretch

-----------------------------------------------------------------------------
(* IInv is inductive *)

LEMMA InitIInv == Init => IInv
<1> SUFFICES ASSUME Init PROVE IInv
  OBVIOUS
<1>1. TypeOK
  BY DEF Init, TypeOK, NewDb, Databases, Loaded, Mem, Idle, Mutators, Fresh, Readers
<1>2. IsFiniteSet(db.rows)
  BY FS_EmptySet DEF Init, NewDb
<1>3. Referential
  BY DEF Init, NewDb, Referential
<1>4. StampsDrawn
  BY DEF Init, NewDb, StampsDrawn, Loaded, Fresh
<1>5. Publishing
  BY DEF Init, Publishing, Idle
<1>6. InstanceVouches
  BY DEF Init, InstanceVouches, Fresh
<1> QED BY <1>1, <1>2, <1>3, <1>4, <1>5, <1>6 DEF IInv

LEMMA OpenRoomRowIInv ==
    ASSUME IInv, NEW r \in Room, OpenRoomRow(r)
    PROVE  IInv'
<1> USE DEF IInv, OpenRoomRow, OpenRoom
<1>1. TypeOK'
  BY DEF TypeOK, Databases
<1>2. IsFiniteSet(db.rows)'
  BY DEF TypeOK, Databases
<1>3. Referential'
  BY DEF TypeOK, Databases, Referential
<1>4. StampsDrawn'
  BY DEF TypeOK, Databases, StampsDrawn
<1>5. Publishing'
  BY DEF TypeOK, Databases, Publishing, Loaded
<1>6. InstanceVouches'
  BY DEF TypeOK, Databases, InstanceVouches, InstanceID, RoomRows
<1> QED BY <1>1, <1>2, <1>3, <1>4, <1>5, <1>6

LEMMA AppendIInv ==
    ASSUME IInv, NEW r \in Room, NEW o \in Owner, Append(r, o)
    PROVE  IInv'
<1> DEFINE new == NewRow(db, r, o)
<1>1. /\ db' = [db EXCEPT !.rooms = @ \cup {r}, !.rows = @ \cup {new}, !.last = @ + 1]
      /\ UNCHANGED <<mem, mutator, expired, reader>>
  BY DEF Append, AppendChat
<1>2. new \in Row /\ new.id = db.last + 1 /\ new.room = r
  BY DEF NewRow, Row, IInv, TypeOK, Databases
<1>3. /\ db'.rows = db.rows \cup {new}
      /\ db'.last = db.last + 1
      /\ db'.rooms = db.rooms \cup {r}
      /\ db'.instance = db.instance
      /\ db'.epoch = db.epoch
      /\ db'.drawn = db.drawn
  BY <1>1 DEF IInv, TypeOK, Databases
<1> HIDE DEF new
<1>a. db' \in Databases
  <2>1. /\ db.rows \cup {new} \in SUBSET Row
        /\ db.last + 1 \in Nat
        /\ db.rooms \cup {r} \in SUBSET Room
    BY <1>2 DEF IInv, TypeOK, Databases
  <2> QED BY <1>1, <2>1 DEF IInv, TypeOK, Databases
<1>4. TypeOK'
  BY <1>a, <1>1 DEF IInv, TypeOK
<1>5. IsFiniteSet(db.rows)'
  BY <1>3, FS_AddElement DEF IInv
<1>6. Referential'
  BY <1>2, <1>3 DEF IInv, Referential, TypeOK, Databases, Row
<1>7. StampsDrawn'
  BY <1>1, <1>3 DEF IInv, StampsDrawn
<1>8. Publishing'
  BY <1>1, <1>3 DEF IInv, Publishing, Loaded
<1>9. InstanceVouches'
  <2> SUFFICES ASSUME NEW c \in Reader,
                      reader[c].pc = "holding",
                      reader[c].tag = InstanceID(db, reader[c].room)
               PROVE  Stretch(reader[c].view, RoomRows(db', reader[c].room))
    BY <1>1, <1>3 DEF InstanceVouches, InstanceID
  <2>1. Stretch(reader[c].view, RoomRows(db, reader[c].room))
    BY DEF IInv, InstanceVouches
  <2>2. ASSUME NEW a \in reader[c].view PROVE a.id \in Nat /\ a.id < db.last + 1
    BY <2>1 DEF Stretch, RoomRows, IInv, Referential, TypeOK, Databases, Row
  <2>3. \A m \in RoomRows(db', reader[c].room) :
            m \in RoomRows(db, reader[c].room) \/ m = new
    BY <1>3 DEF RoomRows
  <2>4. RoomRows(db, reader[c].room) \subseteq RoomRows(db', reader[c].room)
    BY <1>3 DEF RoomRows
  <2>5. ASSUME NEW b \in reader[c].view PROVE ~(new.id <= b.id)
    BY <2>2, <1>2 DEF IInv, TypeOK, Databases
  <2> QED BY <2>1, <2>3, <2>4, <2>5 DEF Stretch
<1> QED BY <1>4, <1>5, <1>6, <1>7, <1>8, <1>9 DEF IInv

LEMMA RecallIInv ==
    ASSUME IInv, NEW r \in Room, NEW o \in Owner, NEW id \in Ids(db.rows), Recall(r, id, o)
    PROVE  IInv'
<1>1. PICK m \in OwnRows(db, r, id, o) : ~m.recalled /\ db' = RecallRow(db, m)
  BY DEF Recall
<1> DEFINE new == [m EXCEPT !.recalled = TRUE]
<1>2. /\ m \in db.rows /\ m \in Row /\ m.room = r
      /\ new \in Row /\ new.id = m.id /\ new.room = r
  BY DEF OwnRows, RoomRows, IInv, TypeOK, Databases, Row
<1>a. db' = [db EXCEPT !.rows = (@ \ {m}) \cup {new}, !.epoch[r] = db.drawn + 1,
                       !.drawn = @ + 1]
  BY <1>1, <1>2 DEF RecallRow
<1> HIDE DEF new
<1>b. /\ (db.rows \ {m}) \cup {new} \in SUBSET Row
      /\ db.drawn + 1 \in Nat
      /\ [db.epoch EXCEPT ![r] = db.drawn + 1] \in [Room -> Nat]
  BY <1>2 DEF IInv, TypeOK, Databases
<1>3. /\ db' \in Databases
      /\ db'.rows = (db.rows \ {m}) \cup {new}
      /\ db'.last = db.last
      /\ db'.rooms = db.rooms
      /\ db'.instance = db.instance
      /\ db'.epoch = [db.epoch EXCEPT ![r] = db.drawn + 1]
      /\ db'.drawn = db.drawn + 1
  BY <1>a, <1>b DEF IInv, TypeOK, Databases
<1>4. /\ mutator = Idle
      /\ mutator' = [pc |-> "storeEpoch", room |-> r, epoch |-> db.drawn + 1]
      /\ UNCHANGED <<mem, expired, reader>>
  BY <1>3 DEF Recall, IInv, TypeOK, Databases
<1>5. TypeOK'
  BY <1>3, <1>4 DEF IInv, TypeOK, Mutators, Databases
<1>6. IsFiniteSet(db.rows)'
  <2>1. IsFiniteSet(db.rows \ {m})
    BY FS_RemoveElement DEF IInv
  <2> QED BY <1>3, <2>1, FS_AddElement
<1>7. Referential'
  BY <1>2, <1>3 DEF IInv, Referential, TypeOK, Databases, Row
<1>8. StampsDrawn'
  BY <1>3, <1>4 DEF IInv, StampsDrawn, TypeOK, Databases, Mem, Readers, InstanceIDs, Fresh
<1>9. Publishing'
  BY <1>3, <1>4 DEF IInv, Publishing, Loaded, TypeOK, Databases, Idle
<1>10. InstanceVouches'
  <2> SUFFICES ASSUME NEW c \in Reader,
                      reader[c].pc = "holding",
                      reader[c].tag = InstanceID(db', reader[c].room)
               PROVE  Stretch(reader[c].view, RoomRows(db', reader[c].room))
    BY <1>4 DEF InstanceVouches
  <2>1. reader[c].room \in Room /\ reader[c].tag \in InstanceIDs
    BY DEF IInv, TypeOK, Readers, Fresh
  <2>2. reader[c].room # r
    <3>1. reader[c].tag[2] \in Nat /\ reader[c].tag[2] <= db.drawn /\ db.drawn \in Nat
      BY <2>1 DEF IInv, StampsDrawn, InstanceIDs, TypeOK, Databases
    <3>2. SUFFICES ASSUME reader[c].room = r PROVE FALSE
      OBVIOUS
    <3>3. reader[c].tag[2] = db.drawn + 1
      BY <1>3, <3>2 DEF InstanceID, IInv, TypeOK, Databases
    <3> QED BY <3>1, <3>3
  <2>3. InstanceID(db', reader[c].room) = InstanceID(db, reader[c].room)
    BY <1>3, <2>1, <2>2 DEF InstanceID, IInv, TypeOK, Databases
  <2>4. RoomRows(db', reader[c].room) = RoomRows(db, reader[c].room)
    BY <1>2, <1>3, <2>2 DEF RoomRows
  <2> QED BY <2>3, <2>4 DEF IInv, InstanceVouches
<1> QED BY <1>5, <1>6, <1>7, <1>8, <1>9, <1>10 DEF IInv

LEMMA ClearIInv ==
    ASSUME IInv, Clear
    PROVE  IInv'
<1>a. /\ db.drawn + 1 \in Nat
      /\ [r \in Room |-> 0] \in [Room -> Nat]
      /\ {} \in SUBSET Row /\ {} \in SUBSET Room
  BY DEF IInv, TypeOK, Databases
<1>1. /\ db' \in Databases
      /\ db'.rows = {} /\ db'.rooms = {}
      /\ db'.last = db.last
      /\ db'.instance = db.drawn + 1
      /\ db'.epoch = [r \in Room |-> 0]
      /\ db'.drawn = db.drawn + 1
  BY <1>a DEF Clear, ClearAll, IInv, TypeOK, Databases
<1>2. /\ mutator = Idle
      /\ mutator' = [pc |-> "storeInstance", instance |-> db.drawn + 1]
      /\ UNCHANGED <<mem, expired, reader>>
  BY <1>1 DEF Clear
<1>3. TypeOK'
  BY <1>1, <1>2 DEF IInv, TypeOK, Mutators, Databases
<1>4. IsFiniteSet(db.rows)'
  BY <1>1, FS_EmptySet
<1>5. Referential'
  BY <1>1 DEF Referential
<1>6. StampsDrawn'
  BY <1>1, <1>2 DEF IInv, StampsDrawn, TypeOK, Databases, Mem, Readers, InstanceIDs, Fresh
<1>7. Publishing'
  BY <1>1, <1>2 DEF Publishing, Idle
<1>8. InstanceVouches'
  <2> SUFFICES ASSUME NEW c \in Reader, reader[c].pc = "holding",
                      reader[c].tag = InstanceID(db', reader[c].room)
               PROVE  FALSE
    BY <1>2 DEF InstanceVouches
  <2>1. reader[c].tag \in InstanceIDs
    BY DEF IInv, TypeOK, Readers, Fresh
  <2>2. reader[c].tag[1] \in Nat /\ reader[c].tag[1] <= db.drawn /\ db.drawn \in Nat
    BY <2>1 DEF IInv, StampsDrawn, InstanceIDs, TypeOK, Databases
  <2>3. reader[c].tag[1] = db.drawn + 1
    BY <1>1 DEF InstanceID
  <2> QED BY <2>2, <2>3
<1> QED BY <1>3, <1>4, <1>5, <1>6, <1>7, <1>8 DEF IInv

LEMMA PublishIInv ==
    ASSUME IInv, StoreEpoch \/ StoreInstance \/ ClearEpochs
    PROVE  IInv'
<1>1. UNCHANGED <<db, expired, reader>>
  BY DEF StoreEpoch, StoreInstance, ClearEpochs
<1>2. IsFiniteSet(db.rows)' /\ Referential' /\ InstanceVouches'
  BY <1>1 DEF IInv, Referential, InstanceVouches
<1>3. CASE StoreEpoch
  <2>1. /\ mutator.pc = "storeEpoch"
        /\ mutator.room \in Room /\ mutator.epoch \in Nat
    BY <1>3 DEF StoreEpoch, IInv, TypeOK, Mutators, Idle
  <2>2. mem' = Loaded(db) /\ mutator' = Idle
    BY <2>1, <1>3 DEF StoreEpoch, IInv, Publishing
  <2>3. TypeOK'
    BY <1>1, <2>2 DEF IInv, TypeOK, Mutators, Loaded, Mem, Databases
  <2>4. StampsDrawn'
    BY <1>1, <2>2 DEF IInv, StampsDrawn, Loaded
  <2>5. Publishing'
    BY <1>1, <2>2 DEF Publishing, Idle, Loaded
  <2> QED BY <1>2, <2>3, <2>4, <2>5 DEF IInv
<1>4. CASE StoreInstance
  <2>1. /\ mutator.pc = "storeInstance" /\ mutator.instance = db.instance
        /\ db.epoch = [r \in Room |-> 0]
    BY <1>4 DEF StoreInstance, IInv, Publishing
  <2>2. /\ mem' = [mem EXCEPT !.instance = db.instance]
        /\ mutator' = [pc |-> "clearEpochs"]
    BY <1>4, <2>1 DEF StoreInstance
  <2>3. TypeOK'
    BY <1>1, <2>2 DEF IInv, TypeOK, Mutators, Mem, Databases
  <2>4. StampsDrawn'
    BY <1>1, <2>2 DEF IInv, StampsDrawn, TypeOK, Mem
  <2>5. Publishing'
    BY <1>1, <2>1, <2>2 DEF Publishing, Idle, IInv, TypeOK, Mem
  <2> QED BY <1>2, <2>3, <2>4, <2>5 DEF IInv
<1>5. CASE ClearEpochs
  <2>1. mem.instance = db.instance /\ db.epoch = [r \in Room |-> 0]
    BY <1>5 DEF ClearEpochs, IInv, Publishing
  <2>2. mem' = Loaded(db) /\ mutator' = Idle
    BY <1>5, <2>1 DEF ClearEpochs, Loaded, IInv, TypeOK, Mem
  <2>3. TypeOK'
    BY <1>1, <2>2 DEF IInv, TypeOK, Mutators, Loaded, Mem, Databases
  <2>4. StampsDrawn'
    BY <1>1, <2>2 DEF IInv, StampsDrawn, Loaded
  <2>5. Publishing'
    BY <1>1, <2>2 DEF Publishing, Idle, Loaded
  <2> QED BY <1>2, <2>3, <2>4, <2>5 DEF IInv
<1> QED BY <1>3, <1>4, <1>5

LEMMA ExpireIInv ==
    ASSUME IInv, NEW m \in db.rows, Expire(m)
    PROVE  IInv'
<1>1. m.id \in Nat
  BY DEF IInv, TypeOK, Databases, Row
<1>2. TypeOK'
  BY <1>1 DEF Expire, IInv, TypeOK
<1> QED BY <1>2 DEF Expire, IInv, Referential, StampsDrawn, Publishing, InstanceVouches

LEMMA LoadInstanceIInv ==
    ASSUME IInv, NEW c \in Reader, NEW r \in Room, LoadInstance(c, r)
    PROVE  IInv'
<1> DEFINE next == [pc |-> "loadedInstance", room |-> r, instance |-> mem.instance]
<1>1. /\ reader' = [reader EXCEPT ![c] = next]
      /\ UNCHANGED <<db, mem, mutator, expired>>
      /\ next \in Readers
  BY DEF LoadInstance, IInv, TypeOK, Mem, Readers
<1>2. TypeOK'
  BY <1>1 DEF IInv, TypeOK
<1>3. StampsDrawn'
  BY <1>1 DEF IInv, StampsDrawn, TypeOK
<1>4. InstanceVouches'
  BY <1>1 DEF IInv, InstanceVouches, TypeOK
<1> QED BY <1>1, <1>2, <1>3, <1>4 DEF IInv, Referential, Publishing

LEMMA LoadEpochIInv ==
    ASSUME IInv, NEW c \in Reader, LoadEpoch(c)
    PROVE  IInv'
<1>1. /\ reader[c].pc = "loadedInstance"
      /\ reader[c].room \in Room /\ reader[c].instance \in Nat
      /\ reader[c].instance <= db.drawn
  BY DEF LoadEpoch, IInv, TypeOK, Readers, Fresh, StampsDrawn
<1> DEFINE r == reader[c].room
           t == <<reader[c].instance, mem.epoch[r]>>
           next == [pc |-> "loadedEpoch", room |-> r, tag |-> t]
<1>2. t \in InstanceIDs /\ t[1] <= db.drawn /\ t[2] <= db.drawn
  BY <1>1 DEF IInv, TypeOK, StampsDrawn, Mem, InstanceIDs
<1>3. /\ reader' = [reader EXCEPT ![c] = next]
      /\ UNCHANGED <<db, mem, mutator, expired>>
  BY DEF LoadEpoch
<1> HIDE DEF r, t
<1>4. r \in Room
  BY <1>1 DEF r
<1>5. next \in Readers
  BY <1>2, <1>4 DEF Readers
<1>6. TypeOK'
  BY <1>3, <1>5 DEF IInv, TypeOK
<1>7. StampsDrawn'
  BY <1>2, <1>3 DEF IInv, StampsDrawn, TypeOK
<1>8. InstanceVouches'
  BY <1>3 DEF IInv, InstanceVouches, TypeOK
<1> QED BY <1>3, <1>6, <1>7, <1>8 DEF IInv, Referential, Publishing

LEMMA ReadPageIInv ==
    ASSUME IInv, NEW c \in Reader, NEW before \in Int, NEW after \in Int,
           NEW through \in Int, ReadPage(c, before, after, through)
    PROVE  IInv'
<1>1. /\ reader[c].pc = "loadedEpoch"
      /\ reader[c].room \in Room /\ reader[c].tag \in InstanceIDs
      /\ reader[c].tag[1] <= db.drawn /\ reader[c].tag[2] <= db.drawn
  BY DEF ReadPage, IInv, TypeOK, Readers, Fresh, StampsDrawn
<1> DEFINE r == reader[c].room
           t == reader[c].tag
           view == Page(db, r, before, after, through).messages
           next == [pc |-> "holding", room |-> r, tag |-> t, view |-> view]
<1>2. /\ reader' = [reader EXCEPT ![c] = next]
      /\ UNCHANGED <<db, mem, mutator, expired>>
  BY DEF ReadPage
<1>3. Stretch(view, RoomRows(db, r))
  BY <1>1, PageStretch DEF IInv, TypeOK
<1> HIDE DEF view
<1>4. view \in SUBSET Row
  BY <1>3 DEF Stretch, RoomRows, IInv, TypeOK, Databases
<1>5. next \in Readers
  BY <1>1, <1>4 DEF Readers
<1>6. TypeOK'
  BY <1>2, <1>5 DEF IInv, TypeOK
<1>7. StampsDrawn'
  BY <1>1, <1>2 DEF IInv, StampsDrawn, TypeOK
<1>8. InstanceVouches'
  <2> SUFFICES ASSUME NEW d \in Reader,
                      reader'[d].pc = "holding",
                      reader'[d].tag = InstanceID(db, reader'[d].room)
               PROVE  Stretch(reader'[d].view, RoomRows(db, reader'[d].room))
    BY <1>2 DEF InstanceVouches
  <2>1. CASE d = c
    BY <2>1, <1>2, <1>3 DEF IInv, TypeOK
  <2>2. CASE d # c
    <3>1. reader'[d] = reader[d]
      BY <2>2, <1>2 DEF IInv, TypeOK
    <3> QED BY <3>1 DEF IInv, InstanceVouches
  <2> QED BY <2>1, <2>2
<1> QED BY <1>2, <1>6, <1>7, <1>8 DEF IInv, Referential, Publishing

LEMMA CrashIInv ==
    ASSUME IInv, Crash
    PROVE  IInv'
<1>1. /\ mem' = Loaded(db) /\ mutator' = Idle
      /\ reader' = [c \in Reader |->
            IF reader[c].pc = "holding" THEN reader[c] ELSE Fresh]
      /\ UNCHANGED <<db, expired>>
  BY DEF Crash
<1>2. TypeOK'
  BY <1>1 DEF IInv, TypeOK, Mutators, Loaded, Mem, Databases, Readers
<1>3. StampsDrawn'
  BY <1>1 DEF IInv, StampsDrawn, Loaded, Fresh
<1>4. Publishing'
  BY <1>1 DEF Publishing, Idle, Loaded
<1>5. InstanceVouches'
  BY <1>1 DEF IInv, InstanceVouches, Fresh
<1> QED BY <1>1, <1>2, <1>3, <1>4, <1>5 DEF IInv, Referential

LEMMA NextIInv == IInv /\ [Next]_vars => IInv'
<1> SUFFICES ASSUME IInv, [Next]_vars PROVE IInv'
  OBVIOUS
<1>1. CASE UNCHANGED vars
  BY <1>1 DEF vars, IInv, TypeOK, Referential, StampsDrawn, Publishing, InstanceVouches
<1>2. CASE Mutate
  BY <1>2, OpenRoomRowIInv, AppendIInv, RecallIInv, ClearIInv, PublishIInv DEF Mutate
<1>3. CASE Observe
  <2>1. PICK c \in Reader :
          \/ \E r \in Room : LoadInstance(c, r)
          \/ LoadEpoch(c)
          \/ \E through \in 0..db.last :
                \/ \E before \in 0..through : ReadPage(c, before, 0, through)
                \/ \E after \in 0..through : ReadPage(c, -1, after, through)
    BY <1>3 DEF Observe
  <2>2. db.last \in Nat
    BY DEF IInv, TypeOK, Databases
  <2>3. CASE \E through \in 0..db.last :
                \/ \E before \in 0..through : ReadPage(c, before, 0, through)
                \/ \E after \in 0..through : ReadPage(c, -1, after, through)
    <3>1. PICK through \in 0..db.last :
                \/ \E before \in 0..through : ReadPage(c, before, 0, through)
                \/ \E after \in 0..through : ReadPage(c, -1, after, through)
      BY <2>3
    <3>2. through \in Int /\ 0 \in Int /\ -1 \in Int /\ 0..through \subseteq Int
      BY <2>2
    <3> QED BY <3>1, <3>2, ReadPageIInv
  <2> QED BY <2>1, <2>3, LoadInstanceIInv, LoadEpochIInv
<1>4. CASE Crash
  BY <1>4, CrashIInv
<1>5. CASE \E m \in db.rows : Expire(m)
  BY <1>5, ExpireIInv
<1> QED BY <1>1, <1>2, <1>3, <1>4, <1>5 DEF Next

\* Every reachable state satisfies the inductive invariant.
THEOREM Invariance == Spec => []IInv
BY InitIInv, NextIInv, PTL DEF Spec

-----------------------------------------------------------------------------
(* The theorems *)

\* The store's state keeps its shape.
THEOREM TypeCorrect == Spec => []TypeOK
<1>1. IInv => TypeOK
  BY DEF IInv
<1> QED BY <1>1, Invariance, PTL

\* A page held under the room's current InstanceID is a stretch of the room as
\* it is now, whatever reads, recalls, cleanups and crashes came in between.
THEOREM CachesAreCurrent == Spec => []InstanceVouches
<1>1. IInv => InstanceVouches
  BY DEF IInv
<1> QED BY <1>1, Invariance, PTL

\* Outside the publication of a Recall or ClearAll the identifiers in memory
\* are those a restart would load.
THEOREM RestartKeepsIdentifiers == Spec => []MemoryAgrees
<1>1. IInv => MemoryAgrees
  BY DEF IInv, Publishing, MemoryAgrees
<1> QED BY <1>1, Invariance, PTL

\* The foreign key and the message ids survive cleanups under live rooms.
THEOREM KeysHold == Spec => []Referential
<1>1. IInv => Referential
  BY DEF IInv
<1> QED BY <1>1, Invariance, PTL

-----------------------------------------------------------------------------
(* Steps of the file *)

\* What a step can do to the database: nothing to the messages, one more at
\* the end, one recalled, or all of them gone.
LEMMA DbSteps ==
    ASSUME IInv, [Next]_vars
    PROVE  \/ /\ db'.rows = db.rows /\ db'.last = db.last /\ db'.drawn = db.drawn
              /\ db'.instance = db.instance /\ db'.epoch = db.epoch
           \/ \E r \in Room, o \in Owner : db' = AppendChat(db, r, o)
           \/ \E m \in db.rows : m.id \notin expired /\ db' = RecallRow(db, m)
           \/ db' = ClearAll(db)
<1>1. CASE \E r \in Room : OpenRoomRow(r)
  BY <1>1 DEF OpenRoomRow, OpenRoom, IInv, TypeOK, Databases
<1>2. CASE \E r \in Room, o \in Owner : Append(r, o)
  BY <1>2 DEF Append
<1>3. CASE \E r \in Room, o \in Owner, id \in Ids(db.rows) : Recall(r, id, o)
  BY <1>3 DEF Recall, OwnRows, RoomRows
<1>4. CASE Clear
  BY <1>4 DEF Clear
<1>5. CASE StoreEpoch \/ StoreInstance \/ ClearEpochs
  BY <1>5 DEF StoreEpoch, StoreInstance, ClearEpochs
<1>6. CASE Observe \/ Crash \/ (\E m \in db.rows : Expire(m)) \/ UNCHANGED vars
  BY <1>6 DEF Observe, LoadInstance, LoadEpoch, ReadPage, Crash, Expire, vars
<1> QED BY <1>1, <1>2, <1>3, <1>4, <1>5, <1>6 DEF Next, Mutate

\* The fields of the databases the transactions commit.
LEMMA AppendFields ==
    ASSUME IInv, NEW r \in Room, NEW o \in Owner, db' = AppendChat(db, r, o)
    PROVE  /\ NewRow(db, r, o) \in Row
           /\ NewRow(db, r, o).id = db.last + 1 /\ NewRow(db, r, o).room = r
           /\ db'.rows = db.rows \cup {NewRow(db, r, o)}
           /\ db'.instance = db.instance /\ db'.epoch = db.epoch
           /\ db'.drawn = db.drawn
<1>1. NewRow(db, r, o) \in Row /\ NewRow(db, r, o).id = db.last + 1 /\ NewRow(db, r, o).room = r
  BY DEF NewRow, Row, IInv, TypeOK, Databases
<1> QED BY <1>1 DEF AppendChat, IInv, TypeOK, Databases

LEMMA RecallFields ==
    ASSUME IInv, NEW m \in db.rows, db' = RecallRow(db, m)
    PROVE  /\ m \in Row /\ [m EXCEPT !.recalled = TRUE] \in Row
           /\ [m EXCEPT !.recalled = TRUE].id = m.id
           /\ [m EXCEPT !.recalled = TRUE].room = m.room
           /\ db'.rows = (db.rows \ {m}) \cup {[m EXCEPT !.recalled = TRUE]}
           /\ db'.instance = db.instance
           /\ db'.epoch = [db.epoch EXCEPT ![m.room] = db.drawn + 1]
           /\ db'.drawn = db.drawn + 1
<1> DEFINE new == [m EXCEPT !.recalled = TRUE]
<1>1. m \in Row
  BY DEF IInv, TypeOK, Databases
<1>2. new \in Row /\ new.id = m.id /\ new.room = m.room
  BY <1>1 DEF Row
<1>3. db' = [db EXCEPT !.rows = (@ \ {m}) \cup {new}, !.epoch[m.room] = db.drawn + 1,
                       !.drawn = @ + 1]
  BY DEF RecallRow
<1> HIDE DEF new
<1>4. /\ db'.rows = (db.rows \ {m}) \cup {new}
      /\ db'.instance = db.instance
      /\ db'.epoch = [db.epoch EXCEPT ![m.room] = db.drawn + 1]
      /\ db'.drawn = db.drawn + 1
  BY <1>3 DEF IInv, TypeOK, Databases
<1> QED BY <1>1, <1>2, <1>4 DEF new

LEMMA ClearFields ==
    ASSUME IInv, db' = ClearAll(db)
    PROVE  /\ db'.rows = {} /\ db'.instance = db.drawn + 1
           /\ db'.epoch = [r \in Room |-> 0] /\ db'.drawn = db.drawn + 1
           /\ db'.instance # db.instance
<1>1. db.drawn \in Nat /\ db.instance \in Nat /\ db.instance <= db.drawn
  BY DEF IInv, TypeOK, Databases, StampsDrawn
<1> QED BY <1>1 DEF ClearAll, IInv, TypeOK, Databases

\* Only a cleanup removes messages, only a recall within the window changes one.
THEOREM MessagesStay == Spec => Retention
<1>1. ASSUME IInv, [Next]_vars
      PROVE  \/ db'.instance # db.instance
             \/ \A m \in db.rows :
                   \/ m \in db'.rows
                   \/ /\ [m EXCEPT !.recalled = TRUE] \in db'.rows
                      /\ m.id \notin expired
  <2>1. CASE \E r \in Room, o \in Owner : db' = AppendChat(db, r, o)
    BY <1>1, <2>1, AppendFields
  <2>2. CASE \E m \in db.rows : m.id \notin expired /\ db' = RecallRow(db, m)
    BY <1>1, <2>2, RecallFields
  <2>3. CASE db' = ClearAll(db)
    BY <1>1, <2>3, ClearFields
  <2> QED BY <1>1, <2>1, <2>2, <2>3, DbSteps
<1> QED BY <1>1, Invariance, PTL DEF Spec, Retention

\* A new message's id is above every id given out before.
THEOREM IdsNeverReused == Spec => IdsGrow
<1>1. ASSUME IInv, [Next]_vars
      PROVE  \A m \in db'.rows : m.id \in Ids(db.rows) \/ m.id > db.last
  <2>1. CASE \E r \in Room, o \in Owner : db' = AppendChat(db, r, o)
    BY <1>1, <2>1, AppendFields DEF Ids, IInv, TypeOK, Databases
  <2>2. CASE \E m \in db.rows : m.id \notin expired /\ db' = RecallRow(db, m)
    <3>1. PICK m \in db.rows : db' = RecallRow(db, m)
      BY <2>2
    <3> DEFINE new == [m EXCEPT !.recalled = TRUE]
    <3>2. db'.rows = (db.rows \ {m}) \cup {new} /\ new.id = m.id
      BY <1>1, <3>1, RecallFields
    <3> HIDE DEF new
    <3>3. \A k \in db'.rows : k \in db.rows \/ k.id = m.id
      BY <3>2
    <3> QED BY <3>1, <3>3 DEF Ids
  <2>3. CASE db' = ClearAll(db)
    BY <1>1, <2>3, ClearFields
  <2> QED BY <1>1, <2>1, <2>2, <2>3, DbSteps DEF Ids
<1> QED BY <1>1, Invariance, PTL DEF Spec, IdsGrow

-----------------------------------------------------------------------------
(* The store implements the contract *)

Logs(d) == [r \in Room |-> RoomRows(d, r)]
Tags(d) == [r \in Room |-> InstanceID(d, r)]
Spent(d) == (0..d.drawn) \X (0..d.drawn)

LEMMA ContractInit == Init => Contract!CInit
<1> SUFFICES ASSUME Init PROVE Contract!CInit
  OBVIOUS
<1>1. \A r \in Room : RoomRows(db, r) = {}
  BY DEF Init, NewDb, RoomRows
<1>2. \A r \in Room : InstanceID(db, r) = <<1, 0>> /\ db.drawn = 1
  BY DEF Init, NewDb, InstanceID
<1>3. <<1, 0>> \in (0..1) \X (0..1) /\ <<1, 0>> \in InstanceIDs
  BY DEF InstanceIDs
<1> QED BY <1>1, <1>2, <1>3 DEF Contract!CInit

LEMMA ContractGrow ==
    ASSUME IInv, NEW r \in Room, NEW o \in Owner, db' = AppendChat(db, r, o)
    PROVE  Contract!Grow(r)
<1> DEFINE m == NewRow(db, r, o)
<1>1. /\ m.id = db.last + 1 /\ m.room = r
      /\ db'.rows = db.rows \cup {m}
      /\ db'.instance = db.instance /\ db'.epoch = db.epoch /\ db'.drawn = db.drawn
  BY AppendFields
<1> HIDE DEF m
<1>2. \A s \in Room : RoomRows(db', s) = IF s = r THEN RoomRows(db, s) \cup {m}
                                                 ELSE RoomRows(db, s)
  BY <1>1 DEF RoomRows
<1>3. Logs(db') = [Logs(db) EXCEPT ![r] = @ \cup {m}]
  BY <1>2 DEF Logs
<1>4. m \in Logs(db')[r]
  BY <1>2 DEF Logs
<1>5. \A s \in Room : \A k \in Logs(db)[s] : k.id < m.id
  BY <1>1 DEF Logs, RoomRows, IInv, Referential, TypeOK, Databases
<1>6. Tags(db') = Tags(db) /\ Spent(db') = Spent(db)
  BY <1>1 DEF Tags, InstanceID, Spent
<1> QED BY <1>3, <1>4, <1>5, <1>6 DEF Contract!Grow, Logs, Tags, Spent

LEMMA ContractRecall ==
    ASSUME IInv, NEW m \in db.rows, db' = RecallRow(db, m)
    PROVE  Contract!Revise({m.room})
<1> DEFINE r == m.room
           new == [m EXCEPT !.recalled = TRUE]
<1>1. /\ m \in Row /\ new.id = m.id /\ new.room = r
      /\ db'.rows = (db.rows \ {m}) \cup {new}
      /\ db'.instance = db.instance
      /\ db'.epoch = [db.epoch EXCEPT ![r] = db.drawn + 1]
      /\ db'.drawn = db.drawn + 1
  BY RecallFields
<1> HIDE DEF new
<1>2. r \in Room
  BY <1>1 DEF Row
<1>3. /\ db.drawn \in Nat /\ db.instance \in Nat /\ db.instance <= db.drawn
      /\ db.epoch \in [Room -> Nat]
  BY DEF IInv, TypeOK, Databases, StampsDrawn
<1> HIDE DEF r
<1>4. \A k \in RoomRows(db', r) : \E l \in RoomRows(db, r) : l.id = k.id
  <2> SUFFICES ASSUME NEW k \in RoomRows(db', r)
               PROVE  \E l \in RoomRows(db, r) : l.id = k.id
    OBVIOUS
  <2>1. m \in RoomRows(db, r)
    BY DEF RoomRows, r
  <2>2. k \in RoomRows(db, r) \/ k.id = m.id
    BY <1>1 DEF RoomRows
  <2> QED BY <2>1, <2>2
<1>5. InstanceID(db', r) = <<db.instance, db.drawn + 1>>
  BY <1>1, <1>2, <1>3 DEF InstanceID
<1>6. InstanceID(db', r) \in InstanceIDs \ Spent(db)
  BY <1>3, <1>5 DEF InstanceIDs, Spent
<1>7. InstanceID(db', r) \in Spent(db')
  BY <1>1, <1>3, <1>5 DEF Spent
<1>8. \A s \in Room \ {r} : RoomRows(db', s) = RoomRows(db, s)
  BY <1>1 DEF RoomRows, r
<1>9. \A s \in Room \ {r} : InstanceID(db', s) = InstanceID(db, s)
  BY <1>1, <1>3 DEF InstanceID
<1>10. Spent(db) \subseteq Spent(db')
  BY <1>1, <1>3 DEF Spent
<1>11. {r} \subseteq Room
  BY <1>2
<1> QED BY <1>4, <1>6, <1>7, <1>8, <1>9, <1>10, <1>11 DEF Contract!Revise, Spent, r

LEMMA ContractClear ==
    ASSUME IInv, db' = ClearAll(db)
    PROVE  Contract!Revise(Room)
<1>1. /\ db'.rows = {} /\ db'.instance = db.drawn + 1
      /\ db'.epoch = [r \in Room |-> 0] /\ db'.drawn = db.drawn + 1
  BY ClearFields
<1>2. db.drawn \in Nat
  BY DEF IInv, TypeOK, Databases
<1>3. \A r \in Room : RoomRows(db', r) = {}
  BY <1>1 DEF RoomRows
<1>4. \A r \in Room : InstanceID(db', r) = <<db.drawn + 1, 0>>
  BY <1>1 DEF InstanceID
<1>5. /\ <<db.drawn + 1, 0>> \in InstanceIDs \ Spent(db)
      /\ <<db.drawn + 1, 0>> \in Spent(db')
      /\ Spent(db) \subseteq Spent(db')
  BY <1>1, <1>2 DEF InstanceIDs, Spent
<1> QED BY <1>3, <1>4, <1>5 DEF Contract!Revise, Spent

LEMMA ContractStep ==
    ASSUME IInv, [Next]_vars
    PROVE  [Contract!CNext]_(Contract!cvars)
<1>1. CASE /\ db'.rows = db.rows /\ db'.last = db.last /\ db'.drawn = db.drawn
           /\ db'.instance = db.instance /\ db'.epoch = db.epoch
  BY <1>1 DEF Contract!cvars, RoomRows, InstanceID
<1>2. CASE \E r \in Room, o \in Owner : db' = AppendChat(db, r, o)
  BY <1>2, ContractGrow DEF Contract!CNext
<1>3. CASE \E m \in db.rows : m.id \notin expired /\ db' = RecallRow(db, m)
  <2>1. PICK m \in db.rows : db' = RecallRow(db, m)
    BY <1>3
  <2>2. {m.room} \in SUBSET Room
    BY DEF IInv, TypeOK, Databases, Row
  <2> QED BY <2>1, <2>2, ContractRecall DEF Contract!CNext
<1>4. CASE db' = ClearAll(db)
  BY <1>4, ContractClear DEF Contract!CNext
<1> QED BY <1>1, <1>2, <1>3, <1>4, DbSteps

\* The encrypted room store keeps the contract of RoomContract: while a room's
\* InstanceID stays, its log only grows at the end, and a recall or cleanup
\* gives the rooms it changes identifiers that were never used.
THEOREM StoreImplementsContract == Spec => KeepsContract
BY ContractInit, ContractStep, Invariance, PTL DEF Spec, KeepsContract, Contract!CSpec

=============================================================================
