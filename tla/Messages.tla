-------------------------------- MODULE Messages --------------------------------
(***************************************************************************)
(* What becomes of a chat frame after its delivery.  The read pump acks    *)
(* the frame and starts its goroutines: one saves the message, and unless  *)
(* the frame names a group, one enters its room into the index both sides  *)
(* discover it by.  They share the connection pool and run under timeouts  *)
(* of their own; nobody waits for them, a stopping process does not either. *)
(*                                                                         *)
(* Room and receiver of a direct frame are what its client sent: nothing   *)
(* relates the one to the other, or to the sender.                         *)
(***************************************************************************)
EXTENDS Naturals, FiniteSets

CONSTANTS
  Users,
  Rooms,
  Party,     \* Party[c]: who may read room c, and post group frames to it
  Frames,    \* the chat frames that arrive (a bound)
  GroupFrames,  \* those with a group_id; the others are direct
  Room,      \* Room[f], Sender[f]: where frame f goes and whose it is
  Sender,
  Receiver,  \* Receiver[f]: to whom a direct frame is sent
  Stamps,    \* the timestamps frames carry, or get on arrival
  PoolSize,  \* SetMaxOpenConns
  None

ASSUME MessagesAssumption ==
  /\ Party \in [Rooms -> SUBSET Users]
  /\ GroupFrames \subseteq Frames
  /\ Room \in [Frames -> Rooms]
  /\ Sender \in [Frames -> Users]
  /\ Receiver \in [Frames \ GroupFrames -> Users]
  /\ Stamps \subseteq Nat
  /\ PoolSize \in Nat \ {0}
  /\ None \notin Frames

VARIABLES
  messages,  \* messages[c][t]: the row with key (c, t)
  indexed,   \* the committed dm_participants rows, as <<room, user>>
  dirty,     \* dirty[c][u]: the frame whose transaction has inserted that row
  pump,      \* where the read pump is with each frame
  stamp,     \* its timestamp
  saver,     \* where its two goroutines are
  indexer

vars == <<messages, indexed, dirty, pump, stamp, saver, indexer>>

Pump == {"new", "acked", "done"}
Saver == {"none", "waiting", "saving", "saved", "failed"}
Indexer == {"none", "waiting", "first", "second", "commit", "indexed", "victim", "failed"}

TypeOK ==
  /\ messages \in [Rooms -> [Stamps -> Frames \cup {None}]]
  /\ indexed \subseteq Rooms \X Users
  /\ dirty \in [Rooms -> [Users -> Frames \cup {None}]]
  /\ pump \in [Frames -> Pump]
  /\ stamp \in [Frames -> Stamps]
  /\ saver \in [Frames -> Saver]
  /\ indexer \in [Frames -> Indexer]
  /\ \A c \in Rooms, u \in Users :  \* an uncommitted row has a running transaction
       dirty[c][u] # None => indexer[dirty[c][u]] \in {"second", "commit"}

Init ==
  /\ messages = [c \in Rooms |-> [t \in Stamps |-> None]]
  /\ indexed = {}
  /\ dirty = [c \in Rooms |-> [u \in Users |-> None]]
  /\ pump = [f \in Frames |-> "new"]
  /\ stamp \in [Frames -> Stamps]
  /\ saver = [f \in Frames |-> "none"]
  /\ indexer = [f \in Frames |-> "none"]

--------------------------------------------------------------------------------
(* The read pump. *)

(* handleChatMessage, handleGroupChatMessage: deliver and ack.  A group frame *)
(* of somebody outside the group is dropped; how soon a change of the group   *)
(* counts is in RosterCache.                                                  *)
Acknowledge(f) ==
  /\ pump[f] = "new"
  /\ f \in GroupFrames => Sender[f] \in Party[Room[f]]
  /\ pump' = [pump EXCEPT ![f] = "acked"]
  /\ UNCHANGED <<messages, indexed, dirty, stamp, saver, indexer>>

(* The go statements. *)
Spawn(f) ==
  /\ pump[f] = "acked"
  /\ pump' = [pump EXCEPT ![f] = "done"]
  /\ saver' = [saver EXCEPT ![f] = "waiting"]
  /\ indexer' = [indexer EXCEPT ![f] = IF f \in GroupFrames THEN @ ELSE "waiting"]
  /\ UNCHANGED <<messages, indexed, dirty, stamp>>

--------------------------------------------------------------------------------
(* The connection pool. *)

(* Mutant: a connection that served a save is not given back. *)
InUse_Leaked ==
  Cardinality({f \in Frames : saver[f] \in {"saving", "saved"}})
    + Cardinality({f \in Frames : indexer[f] \in {"first", "second", "commit"}})

InUse ==
  Cardinality({f \in Frames : saver[f] = "saving"})
    + Cardinality({f \in Frames : indexer[f] \in {"first", "second", "commit"}})

--------------------------------------------------------------------------------
(* Saving. *)

SaveBegin(f) ==
  /\ saver[f] = "waiting"
  /\ InUse < PoolSize
  /\ saver' = [saver EXCEPT ![f] = "saving"]
  /\ UNCHANGED <<messages, indexed, dirty, pump, stamp, indexer>>

(* Mutant: rows are keyed by the timestamp alone. *)
Upsert_AnyRoom(f) ==
  messages' = [c \in Rooms |-> [messages[c] EXCEPT ![stamp[f]] =
                 IF c = Room[f] THEN f ELSE None]]

(* INSERT ... ON CONFLICT (chat_room_id, timestamp) DO UPDATE. *)
Upsert(f) == messages' = [messages EXCEPT ![Room[f]][stamp[f]] = f]

SaveMessage(f) ==
  /\ saver[f] = "saving"
  /\ Upsert(f)
  /\ saver' = [saver EXCEPT ![f] = "saved"]
  /\ UNCHANGED <<indexed, dirty, pump, stamp, indexer>>

(* The timeout, or an error; a row may have been written all the same. *)
SaveFail(f) ==
  /\ \/ saver[f] \in {"waiting", "saving"} /\ UNCHANGED messages
     \/ saver[f] = "saving" /\ Upsert(f)
  /\ saver' = [saver EXCEPT ![f] = "failed"]
  /\ UNCHANGED <<indexed, dirty, pump, stamp, indexer>>

--------------------------------------------------------------------------------
(* Indexing: one INSERT of two rows, the sender's first, ON CONFLICT DO       *)
(* NOTHING.  A row another transaction has inserted makes it wait for that    *)
(* transaction.                                                               *)

IndexBegin(f) ==
  /\ indexer[f] = "waiting"
  /\ InUse < PoolSize
  /\ indexer' = [indexer EXCEPT ![f] = "first"]
  /\ UNCHANGED <<messages, indexed, dirty, pump, stamp, saver>>

(* Mutant: any conflict, also with a row that is not committed, is skipped. *)
InsertRow_NoWait(f, u) ==
  dirty' = IF <<Room[f], u>> \in indexed \/ dirty[Room[f]][u] # None THEN dirty
           ELSE [dirty EXCEPT ![Room[f]][u] = f]

InsertRow(f, u) ==
  \/ /\ <<Room[f], u>> \in indexed \/ dirty[Room[f]][u] = f
     /\ UNCHANGED dirty
  \/ /\ <<Room[f], u>> \notin indexed
     /\ dirty[Room[f]][u] = None
     /\ dirty' = [dirty EXCEPT ![Room[f]][u] = f]

InsertFirst(f) ==
  /\ indexer[f] = "first"
  /\ InsertRow(f, Sender[f])
  /\ indexer' = [indexer EXCEPT ![f] = "second"]
  /\ UNCHANGED <<messages, indexed, pump, stamp, saver>>

InsertSecond(f) ==
  /\ indexer[f] = "second"
  /\ InsertRow(f, Receiver[f])
  /\ indexer' = [indexer EXCEPT ![f] = "commit"]
  /\ UNCHANGED <<messages, indexed, pump, stamp, saver>>

(* The rows f has inserted; what is left uncommitted without them. *)
Own(f) == {k \in Rooms \X Users : dirty[k[1]][k[2]] = f}

(* Mutant: only the sender's row is given up. *)
Released_SendersOnly(f) ==
  [c \in Rooms |-> [dirty[c] EXCEPT ![Sender[f]] = IF @ = f THEN None ELSE @]]

Released(f) ==
  [c \in Rooms |-> [u \in Users |-> IF dirty[c][u] = f THEN None ELSE dirty[c][u]]]

(* Mutant: committed after the first row. *)
Commit_Half(f) ==
  /\ indexer[f] \in {"second", "commit"}
  /\ indexed' = indexed \cup Own(f)
  /\ dirty' = Released(f)
  /\ indexer' = [indexer EXCEPT ![f] = "indexed"]
  /\ UNCHANGED <<messages, pump, stamp, saver>>

Commit(f) ==
  /\ indexer[f] = "commit"
  /\ indexed' = indexed \cup Own(f)
  /\ dirty' = Released(f)
  /\ indexer' = [indexer EXCEPT ![f] = "indexed"]
  /\ UNCHANGED <<messages, pump, stamp, saver>>

Rollback(f, l) ==
  /\ dirty' = Released(f)
  /\ indexer' = [indexer EXCEPT ![f] = l]
  /\ UNCHANGED <<messages, indexed, pump, stamp, saver>>

(* The transaction that has the row f is to insert next. *)
Holder(f) == dirty[Room[f]][Receiver[f]]

(* Direct frames of a room that wait for each other's rows in a circle, for *)
(* two those sent in opposite directions: Postgres' deadlock detector rolls *)
(* one of them back.                                                        *)
Deadlock(f) ==
  /\ \E W \in SUBSET Frames :
       /\ f \in W
       /\ \A g \in W : indexer[g] = "second" /\ Holder(g) \in W \ {g}
       /\ W = {Holder(g) : g \in W}
  /\ Rollback(f, "victim")

(* The timeout, or an error; the commit may have been carried out. *)
IndexFail(f) ==
  \/ indexer[f] \in {"waiting", "first", "second", "commit"} /\ Rollback(f, "failed")
  \/ /\ indexer[f] = "commit"
     /\ indexed' = indexed \cup Own(f)
     /\ dirty' = Released(f)
     /\ indexer' = [indexer EXCEPT ![f] = "failed"]
     /\ UNCHANGED <<messages, pump, stamp, saver>>

(* A goroutine of f runs. *)
Running(f) == saver[f] \in {"waiting", "saving"}
                \/ indexer[f] \in {"waiting", "first", "second", "commit"}

(* The process stops, by a crash or at the end of main, and starts again. *)
Restart ==
  /\ \E f \in Frames : pump[f] = "acked" \/ Running(f)
  /\ pump' = [f \in Frames |-> IF pump[f] = "acked" THEN "done" ELSE pump[f]]
  /\ saver' = [f \in Frames |->
       IF pump[f] = "acked" \/ saver[f] \in {"waiting", "saving"} THEN "failed" ELSE saver[f]]
  /\ indexer' = [f \in Frames |->
       IF (pump[f] = "acked" /\ f \notin GroupFrames)
            \/ indexer[f] \in {"waiting", "first", "second", "commit"}
       THEN "failed" ELSE indexer[f]]
  /\ dirty' = [c \in Rooms |-> [u \in Users |-> None]]
  /\ UNCHANGED <<messages, indexed, stamp>>

--------------------------------------------------------------------------------
(* ListDiscoverableDMs *)
Discoverable(u) == {c \in Rooms : <<c, u>> \in indexed}

--------------------------------------------------------------------------------
(* What a goroutine does next once it can: it gets a connection of the pool  *)
(* and the row locks it waits for in turn.                                   *)
Save(f) == SaveBegin(f) \/ SaveMessage(f)
Index(f) ==
  IndexBegin(f) \/ InsertFirst(f) \/ InsertSecond(f) \/ Commit(f) \/ Deadlock(f)

Next ==
  \/ \E f \in Frames :
       \/ Acknowledge(f) \/ Spawn(f)
       \/ Save(f) \/ SaveFail(f)
       \/ Index(f) \/ IndexFail(f)
  \/ Restart

(* The Go runtime runs what is runnable, Postgres answers, and the queues of *)
(* the pool and of row locks are served in order.  That a timeout fires is   *)
(* not assumed.                                                              *)
Fairness == \A f \in Frames : WF_vars(Spawn(f)) /\ SF_vars(Save(f)) /\ SF_vars(Index(f))

Spec == Init /\ [][Next]_vars /\ Fairness

--------------------------------------------------------------------------------
(* Properties. *)

(* A message whose save was reported done is in its room's history under its *)
(* timestamp, or another message of the same room and timestamp is: saves in *)
(* any order, late or repeated, take nothing else away.                      *)
SavedIsKept ==
  \A f \in Frames : saver[f] = "saved" =>
    \E g \in Frames :
      /\ messages[Room[f]][stamp[f]] = g
      /\ Room[g] = Room[f] /\ stamp[g] = stamp[f]

(* The two rows of a direct frame. *)
Sides(f) == {Sender[f], Receiver[f]}

(* "So either side can look up which rooms am I in regardless of who sent   *)
(* first": a room somebody discovers was entered for a direct frame of      *)
(* theirs, and whoever is on the other side of that frame discovers it too. *)
BothSidesDiscover ==
  \A u \in Users : \A c \in Discoverable(u) :
    \E f \in Frames \ GroupFrames :
      /\ Room[f] = c /\ u \in Sides(f)
      /\ \A v \in Sides(f) : c \in Discoverable(v)

(* ON CONFLICT DO NOTHING skips a row only when it is there to stay: a room  *)
(* whose index write succeeded is discoverable by both sides, also when the  *)
(* rows were another transaction's, uncommitted when it met them.            *)
IndexedIsFound ==
  \A f \in Frames : indexer[f] = "indexed" =>
    \A u \in Sides(f) : Room[f] \in Discoverable(u)

(* The goroutines started for the frames end, although they wait for each    *)
(* other's connections and rows, and even if no timeout ever fires.          *)
GoroutinesEnd == []<>(\A f \in Frames : ~Running(f))

--------------------------------------------------------------------------------
(* What comments of the code say and the model refutes. *)

(* client.go: "offline members catch up from history".  A message that was  *)
(* acknowledged is overwritten by one with the same timestamp, or its save  *)
(* fails or is cut off.                                                     *)
AcknowledgedIsStored ==
  \A f \in Frames : pump[f] = "acked" ~> messages[Room[f]][stamp[f]] = f

(* The message room of a group is derived "server-side from the authenticated *)
(* frame's group_id", "so a member can't write into another room's history"   *)
(* (client.go:351-353).  A direct frame's room is the one its client sent.    *)
OnlyPartiesWrite ==
  \A c \in Rooms, t \in Stamps :
    messages[c][t] # None => Sender[messages[c][t]] \in Party[c]
================================================================================
