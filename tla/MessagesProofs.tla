------------------------------ MODULE MessagesProofs ------------------------------
(***************************************************************************)
(* Proofs about Messages and History for every number of users, rooms,     *)
(* frames and connections, and for crashes at any point.                   *)
(***************************************************************************)
EXTENDS History, FiniteSetTheorems, SequenceTheorems, TLAPS

(* Every row stored is the message of its key, one that was handled, and  *)
(* what was reported saved has left a row.                                *)
SavedInv ==
  /\ \A c \in Rooms, t \in Stamps : messages[c][t] # None =>
       /\ Room[messages[c][t]] = c /\ stamp[messages[c][t]] = t
       /\ pump[messages[c][t]] = "done"
  /\ \A f \in Frames : saver[f] = "saved" => messages[Room[f]][stamp[f]] # None

(* An uncommitted row is one of the two of its transaction's frame. *)
DirtyInv ==
  \A c \in Rooms, u \in Users : dirty[c][u] # None =>
    Room[dirty[c][u]] = c /\ u \in Sides(dirty[c][u])

(* The row of u is there: committed, or about to be with the rest of f. *)
Holds(f, u) == <<Room[f], u>> \in indexed \/ dirty[Room[f]][u] = f

(* f's two rows are committed. *)
Indexed(f) == \A v \in Sides(f) : <<Room[f], v>> \in indexed

(* Only direct frames are indexed.  A transaction that got past a row finds *)
(* it committed or has inserted it itself.  Rows are committed in pairs.    *)
IndexInv ==
  /\ \A f \in Frames : indexer[f] # "none" => f \notin GroupFrames
  /\ \A f \in Frames : indexer[f] \in {"second", "commit"} => Holds(f, Sender[f])
  /\ \A f \in Frames : indexer[f] = "commit" => Holds(f, Receiver[f])
  /\ \A k \in indexed : \E f \in Frames \ GroupFrames :
       Room[f] = k[1] /\ k[2] \in Sides(f) /\ Indexed(f)
  /\ \A f \in Frames : indexer[f] = "indexed" => Indexed(f)

(* The goroutines of a frame start after it was handled. *)
PumpInv ==
  \A f \in Frames : pump[f] # "done" => saver[f] = "none" /\ indexer[f] = "none"

IInv == TypeOK /\ PumpInv /\ SavedInv /\ DirtyInv /\ IndexInv

--------------------------------------------------------------------------------
(* The sides of a direct frame are users. *)
LEMMA SidesAreUsers ==
  ASSUME NEW f \in Frames, f \notin GroupFrames
  PROVE  Room[f] \in Rooms /\ Sender[f] \in Users /\ Receiver[f] \in Users
  BY MessagesAssumption

(* At the start nothing is stored. *)
LEMMA InitInv == Init => IInv
<1> SUFFICES ASSUME Init PROVE IInv
  OBVIOUS
<1>1. TypeOK
  BY MessagesAssumption DEF Init, TypeOK, Pump, Saver, Indexer
<1>2. PumpInv /\ SavedInv /\ DirtyInv
  BY DEF Init, PumpInv, SavedInv, DirtyInv
<1>3. IndexInv
  BY DEF Init, IndexInv
<1> QED
  BY <1>1, <1>2, <1>3 DEF IInv

--------------------------------------------------------------------------------
(* The read pump. *)

(* Handling a frame and starting its goroutines leaves what is stored alone. *)
LEMMA PumpStep ==
  ASSUME IInv, NEW f \in Frames, Acknowledge(f) \/ Spawn(f)
  PROVE  IInv'
<1> USE DEF IInv
<1>1. /\ messages' = messages /\ indexed' = indexed /\ dirty' = dirty /\ stamp' = stamp
      /\ saver' \in [Frames -> Saver] /\ indexer' \in [Frames -> Indexer]
      /\ pump' \in [Frames -> Pump]
  BY DEF Acknowledge, Spawn, TypeOK, Pump, Saver, Indexer
<1>2. \A g \in Frames : saver'[g] = saver[g] \/ saver'[g] = "waiting"
  BY DEF Acknowledge, Spawn, TypeOK
<1>3. \A g \in Frames :
        \/ indexer'[g] = indexer[g]
        \/ indexer[g] = "none" /\ indexer'[g] = "waiting" /\ g \notin GroupFrames
  BY DEF Acknowledge, Spawn, TypeOK, PumpInv
<1>4. TypeOK'
  BY <1>1, <1>3 DEF TypeOK
<1>5. PumpInv'
  BY DEF Acknowledge, Spawn, TypeOK, PumpInv
<1>6. SavedInv'
  <2>1. \A g \in Frames : pump[g] = "done" => pump'[g] = "done"
    BY DEF Acknowledge, Spawn, TypeOK
  <2>2. \A c \in Rooms, t \in Stamps : messages[c][t] # None => messages[c][t] \in Frames
    BY DEF TypeOK
  <2> QED
    BY <1>1, <1>2, <2>1, <2>2 DEF SavedInv
<1>7. DirtyInv'
  BY <1>1 DEF DirtyInv
<1>8. IndexInv'
  BY <1>1, <1>3 DEF IndexInv, Indexed, Holds
<1> QED
  BY <1>4, <1>5, <1>6, <1>7, <1>8

--------------------------------------------------------------------------------
(* Saving. *)

(* What the index is about. *)
indexVars == <<indexed, dirty, pump, indexer>>

(* Steps of a saver leave the index alone. *)
LEMMA IndexUnchanged ==
  ASSUME IInv, UNCHANGED indexVars
  PROVE  DirtyInv' /\ IndexInv'
<1>1. DirtyInv'
  BY DEF IInv, DirtyInv, indexVars
<1>2. IndexInv'
  BY DEF IInv, IndexInv, Indexed, Holds, indexVars
<1> QED
  BY <1>1, <1>2

(* A message goes under its own key, where another one of that key may be. *)
LEMMA SaveStep ==
  ASSUME IInv, NEW f \in Frames, SaveBegin(f) \/ SaveMessage(f) \/ SaveFail(f)
  PROVE  IInv'
<1> USE DEF IInv
<1>1. UNCHANGED indexVars /\ stamp' = stamp
  BY DEF SaveBegin, SaveMessage, SaveFail, indexVars
<1>2. messages' = messages \/ Upsert(f)
  BY DEF SaveBegin, SaveMessage, SaveFail
<1>3. /\ saver' \in [Frames -> Saver]
      /\ \A g \in Frames : g # f => saver'[g] = saver[g]
      /\ saver[f] # "none"
      /\ saver'[f] = "saved" => Upsert(f)
  BY DEF SaveBegin, SaveMessage, SaveFail, TypeOK, Saver
<1>4. Room[f] \in Rooms /\ stamp[f] \in Stamps /\ f # None
  BY MessagesAssumption DEF TypeOK
<1>5. messages' \in [Rooms -> [Stamps -> Frames \cup {None}]]
  <2>1. CASE messages' = messages
    BY <2>1 DEF TypeOK
  <2>2. CASE Upsert(f)
    <3>1. messages[Room[f]] \in [Stamps -> Frames \cup {None}]
      BY <1>4 DEF TypeOK
    <3>2. [messages[Room[f]] EXCEPT ![stamp[f]] = f] \in [Stamps -> Frames \cup {None}]
      BY <3>1
    <3> QED
      BY <2>2, <3>2 DEF Upsert, TypeOK
  <2> QED
    BY <1>2, <2>1, <2>2
<1>6. \A c \in Rooms, t \in Stamps :
        messages'[c][t] = messages[c][t] \/ (messages'[c][t] = f /\ c = Room[f] /\ t = stamp[f])
  <2>1. ASSUME Upsert(f), NEW c \in Rooms, NEW t \in Stamps
        PROVE  messages'[c][t] = messages[c][t] \/ (messages'[c][t] = f /\ c = Room[f] /\ t = stamp[f])
    <3>1. messages[c] \in [Stamps -> Frames \cup {None}]
      BY DEF TypeOK
    <3>2. messages'[c] = IF c = Room[f] THEN [messages[c] EXCEPT ![stamp[f]] = f] ELSE messages[c]
      BY <2>1 DEF Upsert, TypeOK
    <3> QED
      BY <3>1, <3>2
  <2>2. CASE messages' = messages
    BY <2>2
  <2> QED
    BY <1>2, <2>1, <2>2
<1>7. TypeOK'
  BY <1>1, <1>3, <1>5 DEF TypeOK, indexVars
<1>8. PumpInv'
  BY <1>1, <1>3 DEF PumpInv, indexVars
<1>9. SavedInv'
  <2>1. \A c \in Rooms, t \in Stamps : messages'[c][t] # None =>
          /\ Room[messages'[c][t]] = c /\ stamp'[messages'[c][t]] = t
          /\ pump'[messages'[c][t]] = "done"
    BY <1>1, <1>3, <1>6 DEF SavedInv, PumpInv, indexVars
  <2>2. ASSUME NEW g \in Frames, saver'[g] = "saved"
        PROVE  messages'[Room[g]][stamp'[g]] # None
    <3>1. Room[g] \in Rooms /\ stamp[g] \in Stamps
      BY MessagesAssumption DEF TypeOK
    <3>2. CASE g = f
      BY <1>1, <1>3, <1>4, <2>2, <3>2 DEF Upsert, TypeOK
    <3>3. CASE g # f
      BY <1>1, <1>3, <1>4, <1>6, <2>2, <3>1, <3>3 DEF SavedInv
    <3> QED
      BY <3>2, <3>3
  <2> QED
    BY <2>1, <2>2 DEF SavedInv
<1> QED
  BY <1>1, <1>7, <1>8, <1>9, IndexUnchanged

--------------------------------------------------------------------------------
(* Indexing. *)

(* What the messages are about. *)
saveVars == <<messages, pump, stamp, saver>>

(* Steps of an indexer leave the messages alone. *)
LEMMA SavesUnchanged ==
  ASSUME IInv, UNCHANGED saveVars
  PROVE  SavedInv'
  BY DEF IInv, SavedInv, saveVars

(* An insertion adds one's own row where none is, and waits for others'. *)
LEMMA InsertStep ==
  ASSUME IInv, NEW f \in Frames, InsertFirst(f) \/ InsertSecond(f)
  PROVE  IInv'
<1> USE DEF IInv
<1> DEFINE u == IF indexer[f] = "first" THEN Sender[f] ELSE Receiver[f]
           l == IF indexer[f] = "first" THEN "second" ELSE "commit"
<1>1. /\ UNCHANGED saveVars /\ indexed' = indexed
      /\ indexer' = [indexer EXCEPT ![f] = l]
      /\ indexer[f] = "first" \/ indexer[f] = "second"
      /\ InsertRow(f, u)
  BY DEF InsertFirst, InsertSecond, saveVars
<1>2. f \notin GroupFrames /\ Room[f] \in Rooms /\ f # None
  BY <1>1, MessagesAssumption DEF IndexInv
<1>3. u \in Users /\ u \in Sides(f)
  BY <1>2, SidesAreUsers DEF Sides
<1> HIDE DEF u
<1>4. /\ dirty' \in [Rooms -> [Users -> Frames \cup {None}]]
      /\ \A c \in Rooms, v \in Users :
           \/ dirty'[c][v] = dirty[c][v]
           \/ c = Room[f] /\ v = u /\ dirty[c][v] = None /\ dirty'[c][v] = f
      /\ <<Room[f], u>> \in indexed \/ dirty'[Room[f]][u] = f
  <2>1. CASE UNCHANGED dirty /\ (<<Room[f], u>> \in indexed \/ dirty[Room[f]][u] = f)
    BY <2>1 DEF TypeOK
  <2>2. CASE dirty[Room[f]][u] = None /\ dirty' = [dirty EXCEPT ![Room[f]][u] = f]
    <3>1. dirty[Room[f]] \in [Users -> Frames \cup {None}]
      BY <1>2 DEF TypeOK
    <3>2. [dirty[Room[f]] EXCEPT ![u] = f] \in [Users -> Frames \cup {None}]
      BY <3>1
    <3>3. dirty' \in [Rooms -> [Users -> Frames \cup {None}]]
      BY <2>2, <3>2 DEF TypeOK
    <3>4. \A c \in Rooms : dirty'[c] =
            IF c = Room[f] THEN [dirty[Room[f]] EXCEPT ![u] = f] ELSE dirty[c]
      BY <2>2, <1>2 DEF TypeOK
    <3> QED
      BY <1>2, <1>3, <2>2, <3>1, <3>3, <3>4
  <2> QED
    BY <1>1, <2>1, <2>2 DEF InsertRow
<1>5. \A g \in Frames : indexer'[g] = IF g = f THEN l ELSE indexer[g]
  BY <1>1 DEF TypeOK
<1>6. TypeOK'
  <2>1. indexer' \in [Frames -> Indexer]
    BY <1>1 DEF TypeOK, Indexer
  <2>2. \A c \in Rooms, v \in Users :
          dirty'[c][v] # None => indexer'[dirty'[c][v]] \in {"second", "commit"}
    <3> SUFFICES ASSUME NEW c \in Rooms, NEW v \in Users, dirty'[c][v] # None
                 PROVE  indexer'[dirty'[c][v]] \in {"second", "commit"}
      OBVIOUS
    <3>1. dirty'[c][v] \in Frames
      BY <1>4
    <3>2. CASE dirty'[c][v] = f
      BY <1>5, <3>2
    <3>3. CASE dirty'[c][v] # f
      BY <1>4, <1>5, <3>1, <3>3 DEF TypeOK
    <3> QED
      BY <3>2, <3>3
  <2> QED
    BY <1>1, <1>4, <2>1, <2>2 DEF TypeOK, saveVars
<1>7. PumpInv'
  BY <1>1, <1>5 DEF PumpInv, saveVars
<1>8. DirtyInv'
  BY <1>2, <1>3, <1>4 DEF DirtyInv
<1>9. IndexInv'
  <2>1. ASSUME NEW g \in Frames, NEW v \in Users, Holds(g, v)
        PROVE  Holds(g, v)'
    <3>1. Room[g] \in Rooms /\ g # None
      BY MessagesAssumption
    <3> QED
      BY <1>1, <1>4, <2>1, <3>1 DEF Holds
  <2>2. ASSUME NEW g \in Frames, indexer'[g] \in {"second", "commit"}
        PROVE  Holds(g, Sender[g])'
    <3>1. Sender[g] \in Users
      BY MessagesAssumption
    <3>2. CASE g = f /\ indexer[f] = "first"
      BY <1>1, <1>4, <3>2 DEF Holds, u
    <3>3. CASE ~(g = f /\ indexer[f] = "first")
      <4>1. Holds(g, Sender[g])
        BY <1>1, <1>5, <2>2, <3>3 DEF IndexInv
      <4> QED
        BY <2>1, <3>1, <4>1
    <3> QED
      BY <3>2, <3>3
  <2>3. ASSUME NEW g \in Frames, indexer'[g] = "commit"
        PROVE  Holds(g, Receiver[g])'
    <3>1. Receiver[g] \in Users
      BY <1>2, <1>5, <2>3, SidesAreUsers DEF IndexInv
    <3>2. CASE g = f
      BY <1>1, <1>4, <1>5, <2>3, <3>2 DEF Holds, u
    <3>3. CASE g # f
      <4>1. Holds(g, Receiver[g])
        BY <1>5, <2>3, <3>3 DEF IndexInv
      <4> QED
        BY <2>1, <3>1, <4>1
    <3> QED
      BY <3>2, <3>3
  <2>4. \A g \in Frames : indexer'[g] # "none" => g \notin GroupFrames
    BY <1>2, <1>5 DEF IndexInv
  <2>5. \A g \in Frames : indexer'[g] = "indexed" => indexer[g] = "indexed"
    BY <1>5
  <2> QED
    BY <1>1, <2>2, <2>3, <2>4, <2>5 DEF IndexInv, Indexed
<1> QED
  BY <1>1, <1>6, <1>7, <1>8, <1>9, SavesUnchanged

(* A transaction that begins has inserted nothing. *)
LEMMA BeginStep ==
  ASSUME IInv, NEW f \in Frames, IndexBegin(f)
  PROVE  IInv'
<1> USE DEF IInv
<1>1. /\ UNCHANGED saveVars /\ indexed' = indexed /\ dirty' = dirty
      /\ indexer' \in [Frames -> Indexer] /\ indexer[f] = "waiting"
      /\ \A g \in Frames : indexer'[g] = IF g = f THEN "first" ELSE indexer[g]
  BY DEF IndexBegin, TypeOK, Indexer, saveVars
<1>2. TypeOK'
  BY <1>1 DEF TypeOK, saveVars
<1>3. PumpInv' /\ DirtyInv'
  BY <1>1 DEF PumpInv, DirtyInv, saveVars
<1>4. IndexInv'
  BY <1>1 DEF IndexInv, Indexed, Holds
<1> QED
  BY <1>1, <1>2, <1>3, <1>4, SavesUnchanged

(* Committed is a transaction's pair of rows or nothing, whatever it reports. *)
LEMMA EndStep ==
  ASSUME IInv, NEW f \in Frames, NEW l \in {"indexed", "failed", "victim"},
         indexer[f] \in {"waiting", "first", "second", "commit"},
         dirty' = Released(f),
         indexer' = [indexer EXCEPT ![f] = l],
         \/ indexed' = indexed /\ l # "indexed"
         \/ indexed' = indexed \cup Own(f) /\ indexer[f] = "commit",
         UNCHANGED saveVars
  PROVE  IInv'
<1> USE DEF IInv
<1>1. /\ indexer' \in [Frames -> Indexer]
      /\ \A g \in Frames : indexer'[g] = IF g = f THEN l ELSE indexer[g]
  BY DEF TypeOK, Indexer
<1>2. /\ dirty' \in [Rooms -> [Users -> Frames \cup {None}]]
      /\ \A c \in Rooms, v \in Users :
           dirty'[c][v] = IF dirty[c][v] = f THEN None ELSE dirty[c][v]
  BY DEF Released, TypeOK
<1>3. f \notin GroupFrames /\ Room[f] \in Rooms /\ f # None
  BY MessagesAssumption DEF IndexInv
<1>4. \A k \in Own(f) : k \in Rooms \X Users /\ k[1] = Room[f] /\ k[2] \in Sides(f)
  BY <1>3 DEF Own, DirtyInv
<1>5. indexed \subseteq indexed' /\ indexed' \subseteq Rooms \X Users
  BY <1>4 DEF TypeOK
<1>6. indexed' # indexed \/ l = "indexed" => Indexed(f)'
  <2> SUFFICES ASSUME indexer[f] = "commit", indexed' = indexed \cup Own(f),
                      NEW v \in Sides(f)
               PROVE  <<Room[f], v>> \in indexed'
    BY DEF Indexed
  <2>1. Holds(f, v) /\ v \in Users
    BY <1>3, SidesAreUsers DEF IndexInv, Sides
  <2> QED
    BY <1>3, <2>1 DEF Holds, Own
<1>7. TypeOK'
  <2>1. \A c \in Rooms, v \in Users :
          dirty'[c][v] # None => indexer'[dirty'[c][v]] \in {"second", "commit"}
    BY <1>1, <1>2 DEF TypeOK
  <2> QED
    BY <1>1, <1>2, <1>5, <2>1 DEF TypeOK, saveVars
<1>8. PumpInv'
  BY <1>1 DEF PumpInv, saveVars
<1>9. DirtyInv'
  BY <1>2 DEF DirtyInv
<1>10. IndexInv'
  <2>1. ASSUME NEW g \in Frames, g # f, NEW v \in Users, Holds(g, v)
        PROVE  Holds(g, v)'
    <3>1. Room[g] \in Rooms
      BY MessagesAssumption
    <3> QED
      BY <1>2, <1>5, <2>1, <3>1 DEF Holds
  <2>2. ASSUME NEW g \in Frames, indexer'[g] \in {"second", "commit"}
        PROVE  Holds(g, Sender[g])'
    <3>1. g # f /\ Holds(g, Sender[g]) /\ Sender[g] \in Users
      BY <1>1, <2>2, MessagesAssumption DEF IndexInv
    <3> QED
      BY <2>1, <3>1
  <2>3. ASSUME NEW g \in Frames, indexer'[g] = "commit"
        PROVE  Holds(g, Receiver[g])'
    <3>1. g # f /\ g \notin GroupFrames /\ Holds(g, Receiver[g])
      BY <1>1, <2>3 DEF IndexInv
    <3>2. Receiver[g] \in Users
      BY <3>1, SidesAreUsers
    <3> QED
      BY <2>1, <3>1, <3>2
  <2>4. \A g \in Frames : indexer'[g] # "none" => g \notin GroupFrames
    BY <1>1, <1>3 DEF IndexInv
  <2>5. ASSUME NEW g \in Frames, Indexed(g)
        PROVE  Indexed(g)'
    BY <1>5, <2>5 DEF Indexed
  <2>6. ASSUME NEW k \in indexed'
        PROVE  \E g \in Frames \ GroupFrames : Room[g] = k[1] /\ k[2] \in Sides(g) /\ Indexed(g)'
    <3>1. CASE k \in indexed
      <4>1. PICK g \in Frames \ GroupFrames : Room[g] = k[1] /\ k[2] \in Sides(g) /\ Indexed(g)
        BY <3>1 DEF IndexInv
      <4> QED
        BY <2>5, <4>1
    <3>2. CASE k \notin indexed
      <4>1. k \in Own(f) /\ indexed' # indexed
        BY <3>2
      <4> QED
        BY <1>3, <1>4, <1>6, <4>1
    <3> QED
      BY <3>1, <3>2
  <2>7. ASSUME NEW g \in Frames, indexer'[g] = "indexed"
        PROVE  Indexed(g)'
    BY <1>1, <1>6, <2>5, <2>7 DEF IndexInv
  <2> QED
    BY <2>2, <2>3, <2>4, <2>6, <2>7 DEF IndexInv
<1> QED
  BY <1>7, <1>8, <1>9, <1>10, SavesUnchanged

(* Commits, rollbacks, deadlocks and timeouts. *)
LEMMA IndexStep ==
  ASSUME IInv, NEW f \in Frames, Index(f) \/ IndexFail(f)
  PROVE  IInv'
<1>1. CASE IndexBegin(f)
  BY <1>1, BeginStep
<1>2. CASE InsertFirst(f) \/ InsertSecond(f)
  BY <1>2, InsertStep
<1>3. CASE Commit(f)
  BY <1>3, EndStep DEF Commit, saveVars
<1>4. CASE Deadlock(f)
  BY <1>4, EndStep DEF Deadlock, Rollback, saveVars
<1>5. CASE IndexFail(f)
  BY <1>5, EndStep DEF IndexFail, Rollback, saveVars
<1> QED
  BY <1>1, <1>2, <1>3, <1>4, <1>5 DEF Index

--------------------------------------------------------------------------------
(* A restart ends every goroutine and every transaction. *)
LEMMA RestartStep ==
  ASSUME IInv, Restart
  PROVE  IInv'
<1> USE DEF IInv
<1>1. /\ messages' = messages /\ indexed' = indexed /\ stamp' = stamp
      /\ pump' \in [Frames -> Pump] /\ saver' \in [Frames -> Saver]
      /\ indexer' \in [Frames -> Indexer]
      /\ dirty' \in [Rooms -> [Users -> Frames \cup {None}]]
      /\ \A c \in Rooms, u \in Users : dirty'[c][u] = None
  BY DEF Restart, TypeOK, Pump, Saver, Indexer
<1>2. \A g \in Frames : saver'[g] = saver[g] \/ saver'[g] = "failed"
  BY DEF Restart, TypeOK
<1>3. \A g \in Frames :
        \/ indexer'[g] = indexer[g] /\ indexer[g] \notin {"waiting", "first", "second", "commit"}
        \/ indexer'[g] = "failed" /\ g \notin GroupFrames
  BY DEF Restart, TypeOK, IndexInv
<1>4. TypeOK'
  BY <1>1 DEF TypeOK
<1>5. PumpInv'
  BY DEF Restart, TypeOK, PumpInv
<1>6. SavedInv' /\ DirtyInv'
  <2>1. \A g \in Frames : pump[g] = "done" => pump'[g] = "done"
    BY DEF Restart, TypeOK
  <2>2. \A c \in Rooms, t \in Stamps : messages[c][t] # None => messages[c][t] \in Frames
    BY DEF TypeOK
  <2> QED
    BY <1>1, <1>2, <2>1, <2>2 DEF SavedInv, DirtyInv
<1>7. IndexInv'
  BY <1>1, <1>3 DEF IndexInv, Indexed
<1> QED
  BY <1>4, <1>5, <1>6, <1>7

--------------------------------------------------------------------------------
(* The inductive invariant holds throughout. *)
LEMMA Invariant == Spec => []IInv
<1>1. IInv /\ [Next]_vars => IInv'
  <2> SUFFICES ASSUME IInv, [Next]_vars PROVE IInv'
    OBVIOUS
  <2>1. CASE UNCHANGED vars
    <3>1. UNCHANGED indexVars /\ UNCHANGED saveVars
      BY <2>1 DEF vars, indexVars, saveVars
    <3>2. TypeOK' /\ PumpInv'
      BY <2>1 DEF IInv, TypeOK, PumpInv, vars
    <3> QED
      BY <3>1, <3>2, IndexUnchanged, SavesUnchanged DEF IInv
  <2>2. CASE Restart
    BY <2>2, RestartStep
  <2>3. ASSUME NEW f \in Frames,
               \/ Acknowledge(f) \/ Spawn(f)
               \/ Save(f) \/ SaveFail(f)
               \/ Index(f) \/ IndexFail(f)
        PROVE  IInv'
    BY <2>3, PumpStep, SaveStep, IndexStep DEF Save
  <2> QED
    BY <2>1, <2>2, <2>3 DEF Next
<1> QED
  BY InitInv, <1>1, PTL DEF Spec

(* Every reachable state is well typed, and an uncommitted row always has a *)
(* running transaction.                                                     *)
THEOREM TypeCorrect == Spec => []TypeOK
<1>1. IInv => TypeOK
  BY DEF IInv
<1> QED
  BY <1>1, Invariant, PTL

(* A message reported saved, or another one with its key, stays stored. *)
THEOREM SavesAreNotUndone == Spec => []SavedIsKept
<1>1. IInv => SavedIsKept
  <2> SUFFICES ASSUME IInv, NEW f \in Frames, saver[f] = "saved"
               PROVE  \E g \in Frames : /\ messages[Room[f]][stamp[f]] = g
                                        /\ Room[g] = Room[f] /\ stamp[g] = stamp[f]
    BY DEF SavedIsKept
  <2>1. Room[f] \in Rooms /\ stamp[f] \in Stamps
    BY MessagesAssumption DEF IInv, TypeOK
  <2>2. messages[Room[f]][stamp[f]] \in Frames
    BY <2>1 DEF IInv, TypeOK, SavedInv
  <2> QED
    BY <2>1, <2>2 DEF IInv, TypeOK, SavedInv
<1> QED
  BY <1>1, Invariant, PTL

(* Whoever discovers a room shares it with the other side of the direct frame *)
(* it was entered for, whatever rooms clients name in their frames.           *)
THEOREM IndexIsSymmetric == Spec => []BothSidesDiscover
<1>1. IInv => BothSidesDiscover
  <2> SUFFICES ASSUME IInv, NEW u \in Users, NEW c \in Discoverable(u)
               PROVE  \E f \in Frames \ GroupFrames :
                        /\ Room[f] = c /\ u \in Sides(f)
                        /\ \A v \in Sides(f) : c \in Discoverable(v)
    BY DEF BothSidesDiscover
  <2>1. c \in Rooms /\ <<c, u>> \in indexed
    BY DEF Discoverable
  <2>2. PICK f \in Frames \ GroupFrames : Room[f] = c /\ u \in Sides(f) /\ Indexed(f)
    BY <2>1 DEF IInv, IndexInv
  <2> QED
    BY <2>1, <2>2 DEF Indexed, Discoverable
<1> QED
  BY <1>1, Invariant, PTL

(* A conflict is skipped only for rows that are there to stay. *)
THEOREM IndexedRoomsAreFound == Spec => []IndexedIsFound
<1>1. IInv => IndexedIsFound
  BY MessagesAssumption DEF IInv, IndexInv, Indexed, IndexedIsFound, Discoverable
<1> QED
  BY <1>1, Invariant, PTL

--------------------------------------------------------------------------------
(* Histories.  What ORDER BY and sort.Slice return is defined by a choice: a *)
(* finite set of timestamps has such a sequence, and it has each one once.   *)

(* As many different elements of a set as it has are all of them. *)
LEMMA OntoByCount ==
  ASSUME NEW S, IsFiniteSet(S), NEW s \in [1..Cardinality(S) -> S],
         \A i, j \in 1..Cardinality(S) : i # j => s[i] # s[j]
  PROVE  Range(s) = S
<1> DEFINE n == Cardinality(S)
<1>1. n \in Nat
  BY FS_CardinalityType
<1>2. IsFiniteSet(1..n) /\ Cardinality(1..n) = n
  BY <1>1, FS_Interval
<1>3. s \in Injection(1..n, S)
  BY DEF Injection, IsInjective
<1>4. s \in Surjection(1..n, S)
  BY <1>2, <1>3, FS_Injection
<1> QED
  BY <1>4 DEF Surjection, Range

(* The element with i - 1 smaller ones is the i-th. *)
LEMMA Sortable ==
  ASSUME NEW S \in SUBSET Nat, IsFiniteSet(S)
  PROVE  \E s \in [1..Cardinality(S) -> S] :
           \A i, j \in 1..Cardinality(S) : i < j => s[i] < s[j]
<1> DEFINE n == Cardinality(S)
           Below(m) == {x \in S : x < m}
           rank == [m \in S |-> Cardinality(Below(m)) + 1]
<1>1. n \in Nat
  BY FS_CardinalityType
<1>2. ASSUME NEW m \in S
      PROVE  IsFiniteSet(Below(m)) /\ Cardinality(Below(m)) \in Nat
  <2>1. Below(m) \in SUBSET S
    OBVIOUS
  <2>2. IsFiniteSet(Below(m))
    BY <2>1, FS_Subset
  <2> QED
    BY <2>2, FS_CardinalityType
<1>3. ASSUME NEW m \in S, NEW T \in SUBSET S, IsFiniteSet(T),
             Below(m) \subseteq T, m \in T
      PROVE  Cardinality(Below(m)) < Cardinality(T)
  <2>1. Below(m) \in SUBSET T /\ Below(m) # T
    BY <1>3
  <2>2. Cardinality(Below(m)) <= Cardinality(T) /\ Cardinality(Below(m)) # Cardinality(T)
    BY <1>3, <2>1, FS_Subset
  <2>3. Cardinality(T) \in Nat
    BY <1>3, FS_CardinalityType
  <2> HIDE DEF Below
  <2> QED
    BY <1>2, <2>2, <2>3
<1>4. rank \in [S -> 1..n]
  <2> SUFFICES ASSUME NEW m \in S PROVE Cardinality(Below(m)) + 1 \in 1..n
    OBVIOUS
  <2>1. Cardinality(Below(m)) < n
    BY <1>3
  <2> HIDE DEF Below
  <2> QED
    BY <1>1, <1>2, <2>1
<1>5. ASSUME NEW m \in S, NEW k \in S, m < k
      PROVE  rank[m] < rank[k]
  <2>1. Below(k) \in SUBSET S /\ Below(m) \subseteq Below(k) /\ m \in Below(k)
    <3>1. \A x \in S : x \in Int
      OBVIOUS
    <3>2. \A x \in S : x < m => x < k
      BY <1>5, <3>1
    <3> QED
      BY <1>5, <3>2
  <2>2. Cardinality(Below(m)) < Cardinality(Below(k))
    BY <1>2, <1>3, <2>1
  <2>3. /\ Cardinality(Below(m)) \in Nat /\ Cardinality(Below(k)) \in Nat
        /\ rank[m] = Cardinality(Below(m)) + 1 /\ rank[k] = Cardinality(Below(k)) + 1
    BY <1>2
  <2> HIDE DEF Below, rank
  <2> QED
    BY <2>2, <2>3
<1> HIDE DEF rank
<1>6. rank \in Injection(S, 1..n)
  <2>1. \A m, k \in S : m = k \/ m < k \/ k < m
    OBVIOUS
  <2>2. \A m \in S : rank[m] \in Int
    BY <1>1, <1>4
  <2>3. \A m, k \in S : rank[m] = rank[k] => m = k
    BY <1>5, <2>1, <2>2
  <2> QED
    BY <1>4, <2>3 DEF Injection, IsInjective
<1>7. rank \in Surjection(S, 1..n)
  <2>1. IsFiniteSet(1..n) /\ Cardinality(1..n) = n
    BY <1>1, FS_Interval
  <2> QED
    BY <1>6, <2>1, FS_Injection
<1> DEFINE s == [i \in 1..n |-> CHOOSE m \in S : rank[m] = i]
<1>8. ASSUME NEW i \in 1..n PROVE s[i] \in S /\ rank[s[i]] = i
  BY <1>7 DEF Surjection
<1>9. s \in [1..n -> S]
  BY <1>8
<1> HIDE DEF s
<1>10. ASSUME NEW i \in 1..n, NEW j \in 1..n, i < j PROVE s[i] < s[j]
  <2>1. s[i] \in Nat /\ s[j] \in Nat /\ rank[s[i]] < rank[s[j]]
    BY <1>8, <1>10
  <2>2. ~(s[j] < s[i]) /\ s[i] # s[j]
    BY <1>1, <1>5, <1>8, <1>10, <2>1
  <2> QED
    BY <2>1, <2>2
<1> QED
  BY <1>9, <1>10

(* Ascending sorts. *)
LEMMA AscendingSorts ==
  ASSUME NEW S \in SUBSET Nat, IsFiniteSet(S)
  PROVE  /\ Ascending(S) \in [1..Cardinality(S) -> S]
         /\ Len(Ascending(S)) = Cardinality(S)
         /\ \A i, j \in 1..Cardinality(S) : i < j => Ascending(S)[i] < Ascending(S)[j]
         /\ Range(Ascending(S)) = S
<1> DEFINE n == Cardinality(S)
           a == Ascending(S)
<1>1. n \in Nat
  BY FS_CardinalityType
<1>2. \E s \in [1..n -> S] : \A i, j \in DOMAIN s : i < j => s[i] < s[j]
  BY Sortable
<1>3. a \in [1..n -> S] /\ \A i, j \in DOMAIN a : i < j => a[i] < a[j]
  BY <1>2 DEF Ascending
<1> HIDE DEF a
<1>4. \A i, j \in 1..n : i < j => a[i] < a[j]
  BY <1>3
<1>5. \A i \in 1..n : a[i] \in Nat
  BY <1>3
<1>6. \A i, j \in 1..n : i # j => a[i] # a[j]
  BY <1>1, <1>4, <1>5
<1>7. Range(a) = S
  BY <1>3, <1>6, OntoByCount
<1>8. Len(a) = n
  BY <1>1, <1>3
<1> QED
  BY <1>3, <1>4, <1>7, <1>8 DEF a

(* Descending sorts the other way round. *)
LEMMA DescendingSorts ==
  ASSUME NEW S \in SUBSET Nat, IsFiniteSet(S)
  PROVE  /\ Descending(S) \in [1..Cardinality(S) -> S]
         /\ \A i, j \in 1..Cardinality(S) : i < j => Descending(S)[i] > Descending(S)[j]
         /\ Range(Descending(S)) = S
<1> DEFINE n == Cardinality(S)
           d == Descending(S)
<1>1. n \in Nat
  BY FS_CardinalityType
<1>2. \E s \in [1..n -> S] : \A i, j \in DOMAIN s : i < j => s[i] > s[j]
  <2>1. PICK s \in [1..n -> S] : \A i, j \in 1..n : i < j => s[i] < s[j]
    BY Sortable
  <2> DEFINE r == [i \in 1..n |-> s[n + 1 - i]]
  <2>2. r \in [1..n -> S]
    BY <1>1
  <2>3. ASSUME NEW i \in 1..n, NEW j \in 1..n, i < j PROVE r[i] > r[j]
    <3>1. n + 1 - j \in 1..n /\ n + 1 - i \in 1..n /\ n + 1 - j < n + 1 - i
      BY <1>1, <2>3
    <3>2. s[n + 1 - j] < s[n + 1 - i] /\ s[n + 1 - j] \in Nat /\ s[n + 1 - i] \in Nat
      BY <2>1, <3>1
    <3> QED
      BY <3>2
  <2> QED
    BY <2>2, <2>3
<1>3. d \in [1..n -> S] /\ \A i, j \in DOMAIN d : i < j => d[i] > d[j]
  BY <1>2 DEF Descending
<1> HIDE DEF d
<1>4. \A i, j \in 1..n : i < j => d[i] > d[j]
  BY <1>3
<1>5. \A i \in 1..n : d[i] \in Nat
  BY <1>3
<1>6. \A i, j \in 1..n : i # j => d[i] # d[j]
  BY <1>1, <1>4, <1>5
<1>7. Range(d) = S
  BY <1>3, <1>6, OntoByCount
<1> QED
  BY <1>3, <1>4, <1>7 DEF d

(* The first n rows of a room in descending order: as many as there are up  *)
(* to n, and the others are older.                                          *)
LEMMA FirstAreNewest ==
  ASSUME NEW S \in SUBSET Nat, IsFiniteSet(S), NEW k \in 0..Cardinality(S),
         NEW T, T = Range(SubSeq(Descending(S), 1, k))
  PROVE  /\ T \in SUBSET S
         /\ IsFiniteSet(T) /\ Cardinality(T) = k
         /\ \A t \in S \ T, u \in T : t < u
<1> DEFINE n == Cardinality(S)
           d == Descending(S)
           q == SubSeq(d, 1, k)
<1>1. n \in Nat /\ k \in Nat /\ k <= n
  BY FS_CardinalityType
<1>2. d \in [1..n -> S] /\ (\A i, j \in 1..n : i < j => d[i] > d[j]) /\ Range(d) = S
  BY DescendingSorts
<1> HIDE DEF d
<1>3. q = [i \in 1..k |-> d[i]]
  BY <1>1, <1>2
<1> HIDE DEF q
<1>4. q \in [1..k -> S] /\ \A i \in 1..k : q[i] = d[i]
  BY <1>1, <1>2, <1>3
<1>5. T = {d[i] : i \in 1..k}
  BY <1>4 DEF Range, q, d
<1>6. T \in SUBSET S
  BY <1>1, <1>2, <1>5
<1>7. IsFiniteSet(T)
  BY <1>6, FS_Subset
<1>8. Cardinality(T) = k
  <2>1. q \in Surjection(1..k, T)
    BY <1>4, <1>5 DEF Surjection
  <2>2. \A i, j \in 1..k : i # j => d[i] # d[j]
    <3> HIDE DEF n
    <3>1. \A i \in 1..k : i \in 1..n
      BY <1>1
    <3>2. \A i \in 1..n : d[i] \in Nat
      BY <1>2
    <3>3. \A i, j \in 1..k : i # j => i < j \/ j < i
      BY <1>1
    <3>4. \A i, j \in 1..k : i < j => d[i] > d[j]
      BY <1>2, <3>1
    <3> QED
      BY <3>1, <3>2, <3>3, <3>4
  <2>3. q \in Injection(1..k, T)
    BY <1>4, <1>5, <2>2 DEF Injection, IsInjective
  <2>4. IsFiniteSet(1..k) /\ Cardinality(1..k) = k
    BY <1>1, FS_Interval
  <2> QED
    BY <2>1, <2>3, <2>4, FS_Surjection
<1>9. ASSUME NEW t \in S \ T, NEW u \in T PROVE t < u
  <2>1. PICK j \in 1..k : u = d[j]
    BY <1>5
  <2>2. PICK i \in 1..n : t = d[i]
    BY <1>2 DEF Range
  <2>3. i \notin 1..k
    BY <1>5, <2>2
  <2>4. j \in 1..n /\ j < i
    BY <1>1, <2>3
  <2> QED
    BY <1>2, <2>1, <2>2, <2>4
<1> QED
  BY <1>6, <1>7, <1>8, <1>9

(* Whatever limit is asked for, a history is sorted and stored; it is as  *)
(* long as the limit if it leaves out anything, and that is older.        *)
LEMMA HistoryShape ==
  ASSUME NEW c \in Rooms, NEW n \in Nat \ {0}, NEW h, h = GetMessages(c, n)
  PROVE  /\ Len(h) \in Nat
         /\ \A i, j \in 1..Len(h) : i < j => h[i] < h[j]
         /\ Range(h) \subseteq Stored(c)
         /\ Len(h) <= n
         /\ Len(h) = n \/ Range(h) = Stored(c)
         /\ \A t \in Stored(c) \ Range(h), i \in 1..Len(h) : t < h[i]
<1> DEFINE S == Stored(c)
           k == Lesser(n, Cardinality(S))
           T == Range(Newest(c, n))
<1>1. S \in SUBSET Nat /\ IsFiniteSet(S)
  <2>1. S \in SUBSET Stamps
    BY DEF Stored
  <2> QED
    BY <2>1, MessagesAssumption, HistoryAssumption, FS_Subset
<1>2. Cardinality(S) \in Nat
  BY <1>1, FS_CardinalityType
<1>3. k \in 0..Cardinality(S) /\ k <= n /\ (k = n \/ k = Cardinality(S))
  BY <1>2 DEF Lesser
<1>4. T = Range(SubSeq(Descending(S), 1, k))
  BY DEF Newest
<1> HIDE DEF S, k, T
<1>5. T \in SUBSET S /\ IsFiniteSet(T) /\ Cardinality(T) = k /\ \A t \in S \ T, u \in T : t < u
  BY ONLY <1>1, <1>3, <1>4, FirstAreNewest
<1>6. T \in SUBSET Nat
  BY <1>1, <1>5
<1>7. h = Ascending(T)
  BY DEF GetMessages, T
<1>8. /\ h \in [1..k -> T] /\ Len(h) = k /\ Range(h) = T
      /\ \A i, j \in 1..k : i < j => h[i] < h[j]
  BY ONLY <1>5, <1>6, <1>7, AscendingSorts
<1>9. k = n \/ T = S
  BY <1>1, <1>3, <1>5, FS_Subset
<1> QED
  BY <1>2, <1>3, <1>5, <1>8, <1>9 DEF S

(* At any moment a participant reads the newest messages of the room, and *)
(* every message reported saved unless newer ones fill the limit.         *)
THEOREM HistoriesAreNewest == Spec => []HistoryIsNewest
<1>1. IInv => HistoryIsNewest
  <2> SUFFICES ASSUME IInv, NEW c \in Rooms, NEW raw \in 0..(MaxLimit + 1),
                      NEW u \in Party[c], NEW h, h = GetChatHistory(u, c, raw)
               PROVE  /\ \A i \in 1..(Len(h) - 1) : h[i] < h[i + 1]
                      /\ Range(h) \subseteq Sent(c)
                      /\ Len(h) <= Limit(raw)
                      /\ \A t \in (Saved(c) \cup Stored(c)) \ Range(h) :
                           Len(h) = Limit(raw) /\ \A i \in 1..Len(h) : t < h[i]
    BY DEF HistoryIsNewest
  <2>1. Limit(raw) \in Nat \ {0}
    BY HistoryAssumption DEF Limit
  <2>2. h = GetMessages(c, Limit(raw))
    BY DEF GetChatHistory
  <2>3. /\ Len(h) \in Nat
        /\ \A i, j \in 1..Len(h) : i < j => h[i] < h[j]
        /\ Range(h) \subseteq Stored(c)
        /\ Len(h) <= Limit(raw)
        /\ Len(h) = Limit(raw) \/ Range(h) = Stored(c)
        /\ \A t \in Stored(c) \ Range(h), i \in 1..Len(h) : t < h[i]
    BY ONLY <2>1, <2>2, HistoryShape
  <2>4. Stored(c) \subseteq Sent(c)
    <3> SUFFICES ASSUME NEW t \in Stamps, messages[c][t] # None
                 PROVE  t \in Sent(c)
      BY DEF Stored
    <3>1. PICK f \in Frames : f = messages[c][t]
      BY DEF IInv, TypeOK
    <3> QED
      BY <3>1 DEF IInv, SavedInv, Sent
  <2>5. Saved(c) \subseteq Stored(c)
    BY DEF IInv, TypeOK, SavedInv, Saved, Stored
  <2> QED
    BY <2>3, <2>4, <2>5
<1> QED
  BY <1>1, Invariant, PTL

================================================================================
