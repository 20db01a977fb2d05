---------------------------------- MODULE Hub ----------------------------------
(***************************************************************************)
(* The WebSocket hub of VibeNet (internal/websocket): the registry of      *)
(* clients, the hub goroutine that serves register and unregister, the     *)
(* read and write pump of every client, and the goroutines that queue      *)
(* frames to clients: the read pumps themselves, HTTP handlers and the     *)
(* presence goroutines.                                                    *)
(*                                                                         *)
(* A step is a piece of code between two points where another goroutine    *)
(* can run.  The mutex h.mu is not a variable: the hub goroutine holds it  *)
(* for the whole of HubRegister and HubUnregister, and the goroutines that *)
(* hold it for reading are those whose pc is "fanout".                     *)
(***************************************************************************)
EXTENDS Naturals

CONSTANTS
  Users,     \* the accounts
  Conns,     \* the clients: one per accepted WebSocket connection
  Tasks,     \* goroutines other than read pumps that queue frames
  Owner,     \* Owner[c] is the userID of the client c
  NoConn,    \* "no client"
  Capacity   \* sendBufferSize

ASSUME HubAssumption ==
  /\ Owner \in [Conns -> Users]
  /\ NoConn \notin Conns
  /\ Conns \cap Tasks = {}
  /\ Capacity \in Nat \ {0}

VARIABLES
  clients,   \* Hub.clients: the client registered for each user, or NoConn
  hub,       \* the hub goroutine: what it does and for which client
  conn,      \* the socket of each client
  send,      \* the number of frames queued in each client's send channel
  closed,    \* whether the send channel was closed
  wpc,       \* the write pump of each client
  pc,        \* where each read pump and each task is
  dst,       \* the client DeliverToUser found, before it queues the frame
  todo,      \* the clients a Broadcast or DeliverToGroup still has to serve
  crashed    \* a panic in a goroutine without recover stopped the process

vars == <<clients, hub, conn, send, closed, wpc, pc, dst, todo, crashed>>

Actors == Conns \cup Tasks

HubPC == {"idle", "received", "locking"}
ConnState == {"none", "up", "broken", "closed"}
ReaderPC == {"new", "register", "read", "send", "fanout", "ack",
             "unregister", "closing", "done"}
TaskPC == {"idle", "send", "fanout"}

TypeOK ==
  /\ clients \in [Users -> Conns \cup {NoConn}]
  /\ hub \in [pc : HubPC, op : {"register", "unregister"}, conn : Conns \cup {NoConn}]
  /\ hub.pc # "idle" => hub.conn \in Conns
  /\ conn \in [Conns -> ConnState]
  /\ send \in [Conns -> 0..Capacity]
  /\ closed \in [Conns -> BOOLEAN]
  /\ wpc \in [Conns -> {"none", "run", "done"}]
  /\ pc \in [Actors -> ReaderPC \cup TaskPC]
  /\ \A c \in Conns : pc[c] \in ReaderPC
  /\ \A t \in Tasks : pc[t] \in TaskPC
  /\ dst \in [Actors -> Conns \cup {NoConn}]
  /\ \A a \in Actors : pc[a] = "send" => dst[a] \in Conns
  /\ todo \in [Actors -> SUBSET Conns]
  /\ crashed \in BOOLEAN

Init ==
  /\ clients = [u \in Users |-> NoConn]
  /\ hub = [pc |-> "idle", op |-> "register", conn |-> NoConn]
  /\ conn = [c \in Conns |-> "none"]
  /\ send = [c \in Conns |-> 0]
  /\ closed = [c \in Conns |-> FALSE]
  /\ wpc = [c \in Conns |-> "none"]
  /\ pc = [a \in Actors |-> IF a \in Conns THEN "new" ELSE "idle"]
  /\ dst = [a \in Actors |-> NoConn]
  /\ todo = [a \in Actors |-> {}]
  /\ crashed = FALSE

--------------------------------------------------------------------------------
(* The life of a connection. *)

(* ServeHTTP upgraded the request; NewClient blocks in hub.Register. *)
NewClient(c) ==
  /\ ~crashed
  /\ pc[c] = "new"
  /\ pc' = [pc EXCEPT ![c] = "register"]
  /\ conn' = [conn EXCEPT ![c] = "up"]
  /\ UNCHANGED <<clients, hub, send, closed, wpc, dst, todo, crashed>>

(* The peer goes away, or stays silent for pongWait. *)
Drop(c) ==
  /\ ~crashed
  /\ conn[c] = "up"
  /\ conn' = [conn EXCEPT ![c] = "broken"]
  /\ UNCHANGED <<clients, hub, send, closed, wpc, pc, dst, todo, crashed>>

(* ReadMessage fails: the read pump leaves its loop and blocks in Unregister. *)
ReadFail(c) ==
  /\ ~crashed
  /\ pc[c] = "read"
  /\ conn[c] \in {"broken", "closed"}
  /\ pc' = [pc EXCEPT ![c] = "unregister"]
  /\ UNCHANGED <<clients, hub, conn, send, closed, wpc, dst, todo, crashed>>

(* The deferred conn.Close() after Unregister returned. *)
ReaderClose(c) ==
  /\ ~crashed
  /\ pc[c] = "closing"
  /\ pc' = [pc EXCEPT ![c] = "done"]
  /\ conn' = [conn EXCEPT ![c] = "closed"]
  /\ UNCHANGED <<clients, hub, send, closed, wpc, dst, todo, crashed>>

--------------------------------------------------------------------------------
(* The hub goroutine.  Register and Unregister are rendezvous: the client's *)
(* goroutine goes on as soon as the hub has received it.                    *)

(* The hub receives a new client; NewClient starts the two pumps. *)
HubReceiveRegister(c) ==
  /\ ~crashed
  /\ hub.pc = "idle"
  /\ pc[c] = "register"
  /\ hub' = [pc |-> "received", op |-> "register", conn |-> c]
  /\ pc' = [pc EXCEPT ![c] = "read"]
  /\ wpc' = [wpc EXCEPT ![c] = "run"]
  /\ UNCHANGED <<clients, conn, send, closed, dst, todo, crashed>>

HubReceiveUnregister(c) ==
  /\ ~crashed
  /\ hub.pc = "idle"
  /\ pc[c] = "unregister"
  /\ hub' = [pc |-> "received", op |-> "unregister", conn |-> c]
  /\ pc' = [pc EXCEPT ![c] = "closing"]
  /\ UNCHANGED <<clients, conn, send, closed, wpc, dst, todo, crashed>>

(* h.mu.Lock() announces the writer: from here on no reader gets in. *)
HubLock ==
  /\ ~crashed
  /\ hub.pc = "received"
  /\ hub' = [hub EXCEPT !.pc = "locking"]
  /\ UNCHANGED <<clients, conn, send, closed, wpc, pc, dst, todo, crashed>>

(* Mutant: h.mu excludes no reader. *)
HubHasLock_IgnoringReaders == ~crashed /\ hub.pc = "locking"

(* The writer gets in once no goroutine holds h.mu for reading. *)
HubHasLock ==
  /\ ~crashed
  /\ hub.pc = "locking"
  /\ \A a \in Actors : pc[a] # "fanout"

HubDone == hub' = [hub EXCEPT !.pc = "idle"]

(* Mutant: the replaced client's socket stays open. *)
CloseConn_Forgotten(existing) == UNCHANGED conn

(* existing.conn.Close(), when there is an existing client. *)
CloseConn(existing) ==
  conn' = [d \in Conns |-> IF d = existing THEN "closed" ELSE conn[d]]

(* Mutant: register also closes the send channel of the replaced client. *)
HubRegister_ClosingChannel ==
  LET existing == clients[Owner[hub.conn]]
  IN /\ HubHasLock
     /\ hub.op = "register"
     /\ CloseConn(existing)
     /\ closed' = [d \in Conns |-> closed[d] \/ d = existing]
     /\ clients' = [clients EXCEPT ![Owner[hub.conn]] = hub.conn]
     /\ HubDone
     /\ UNCHANGED <<send, wpc, pc, dst, todo, crashed>>

(* Register: a previous client of the user has its socket closed, not its *)
(* send channel, and is replaced in the map.                              *)
HubRegister ==
  /\ HubHasLock
  /\ hub.op = "register"
  /\ CloseConn(clients[Owner[hub.conn]])
  /\ clients' = [clients EXCEPT ![Owner[hub.conn]] = hub.conn]
  /\ HubDone
  /\ UNCHANGED <<send, closed, wpc, pc, dst, todo, crashed>>

(* Mutant: unregister does not compare the client with the registered one. *)
IsCurrent_Unchecked(c) == clients[Owner[c]] # NoConn

(* The client is still the one registered for its user. *)
IsCurrent(c) == clients[Owner[c]] = c

(* Mutant: the channel is closed and its client left in the map. *)
Without_Forgotten(c) == clients

(* The map after delete(h.clients, client.userID). *)
Without(c) == [clients EXCEPT ![Owner[c]] = NoConn]

(* Unregister: the client is removed and its send channel closed, unless a *)
(* later connection already replaced it.                                   *)
HubUnregister ==
  /\ HubHasLock
  /\ hub.op = "unregister"
  /\ IF IsCurrent(hub.conn)
     THEN clients' = Without(hub.conn) /\ closed' = [closed EXCEPT ![hub.conn] = TRUE]
     ELSE UNCHANGED <<clients, closed>>
  /\ HubDone
  /\ UNCHANGED <<conn, send, wpc, pc, dst, todo, crashed>>

--------------------------------------------------------------------------------
(* Queueing frames. *)

(* h.mu.RLock() waits for a writer that has announced itself. *)
CanRLock == hub.pc # "locking"

(* A read pump takes the next inbound frame; those it has read, or that wait *)
(* in a buffer, when the socket goes down are handled all the same.          *)
CanRead(c) == ~crashed /\ pc[c] = "read"

(* The goroutines that may start queueing frames: a read pump with an     *)
(* inbound frame, an HTTP handler or a presence goroutine at any time.    *)
MayQueue(a) ==
  \/ a \in Conns /\ CanRead(a)
  \/ a \in Tasks /\ ~crashed /\ pc[a] = "idle"

(* Where a goes on after queueing: a read pump acks a chat message and no *)
(* other frame.                                                           *)
After(a) == IF a \in Tasks THEN {"idle"} ELSE {"ack", "read"}

(* A send on a closed channel panics, releasing the locks the goroutine    *)
(* holds.  The HTTP router recovers a panic of its handlers, the only      *)
(* tasks that call DeliverToUser; no other goroutine has a recover, and    *)
(* its panic stops the process.                                            *)
Panic(a) ==
  /\ crashed' = ~(a \in Tasks /\ pc[a] = "send")
  /\ pc' = [pc EXCEPT ![a] = IF a \in Tasks THEN "idle" ELSE "done"]
  /\ todo' = [todo EXCEPT ![a] = {}]
  /\ UNCHANGED send

(* Mutant: an off-by-one in the capacity of the channel. *)
HasRoom_OffByOne(c) == send[c] <= Capacity

HasRoom(c) == send[c] < Capacity

(* The non-blocking send of `select { case c.send <- f: default: }` of the *)
(* goroutine a to the client c: the frame is queued or dropped, and a goes *)
(* on at next with left still to serve.                                    *)
Offer(a, c, next, left) ==
  IF closed[c]
  THEN Panic(a)
  ELSE /\ send' = [send EXCEPT ![c] = IF HasRoom(c) THEN @ + 1 ELSE @]
       /\ pc' = [pc EXCEPT ![a] = next]
       /\ todo' = [todo EXCEPT ![a] = left]
       /\ UNCHANGED crashed

(* DeliverToUser, first half: the map is read under RLock and the lock is *)
(* released before the frame is queued.                                   *)
Lookup(a, u) ==
  /\ MayQueue(a)
  /\ CanRLock
  /\ \E next \in After(a) :
       pc' = [pc EXCEPT ![a] = IF clients[u] = NoConn THEN next ELSE "send"]
  /\ dst' = [dst EXCEPT ![a] = clients[u]]
  /\ UNCHANGED <<clients, hub, conn, send, closed, wpc, todo, crashed>>

(* DeliverToUser, second half: queue to the client found, or drop. *)
Deliver(a) ==
  /\ ~crashed
  /\ pc[a] = "send"
  /\ \E next \in After(a) : Offer(a, dst[a], next, todo[a])
  /\ dst' = [dst EXCEPT ![a] = NoConn]
  /\ UNCHANGED <<clients, hub, conn, closed, wpc>>

(* Broadcast to every client, or DeliverToGroup to the members of a roster *)
(* other than the sender: RLock is held until the last frame is queued.    *)
StartFanout(a, recipients) ==
  /\ MayQueue(a)
  /\ CanRLock
  /\ pc' = [pc EXCEPT ![a] = "fanout"]
  /\ todo' = [todo EXCEPT ![a] = {clients[u] : u \in recipients} \ {NoConn}]
  /\ UNCHANGED <<clients, hub, conn, send, closed, wpc, dst, crashed>>

Broadcast(t) == t \in Tasks /\ StartFanout(t, Users)

(* The roster is GroupMemberIDs' answer; the sender is skipped.  Group *)
(* typing and pin frames fan out the same way without an ack.          *)
DeliverToGroup(c) ==
  \E roster \in SUBSET (Users \ {Owner[c]}) : StartFanout(c, roster)

(* Mutant: the send has no default case, so it waits for room. *)
FanoutSend_Blocking(a) ==
  /\ ~crashed
  /\ pc[a] = "fanout"
  /\ \E c \in todo[a] :
       (HasRoom(c) \/ closed[c]) /\ Offer(a, c, "fanout", todo[a] \ {c})
  /\ UNCHANGED <<clients, hub, conn, closed, wpc, dst>>

FanoutSend(a) ==
  /\ ~crashed
  /\ pc[a] = "fanout"
  /\ \E c \in todo[a] : Offer(a, c, "fanout", todo[a] \ {c})
  /\ UNCHANGED <<clients, hub, conn, closed, wpc, dst>>

FanoutEnd(a) ==
  /\ ~crashed
  /\ pc[a] = "fanout"
  /\ todo[a] = {}
  /\ \E next \in After(a) : pc' = [pc EXCEPT ![a] = next]
  /\ UNCHANGED <<clients, hub, conn, send, closed, wpc, dst, todo, crashed>>

(* handlePresence reads the map and answers the asking client. *)
QueryPresence(c) ==
  /\ CanRead(c)
  /\ CanRLock
  /\ pc' = [pc EXCEPT ![c] = "ack"]
  /\ UNCHANGED <<clients, hub, conn, send, closed, wpc, dst, todo, crashed>>

(* trySend on the pump's own client: an ack frame or a presence answer. *)
TrySend(c) ==
  /\ ~crashed
  /\ pc[c] = "ack"
  /\ Offer(c, c, "read", todo[c])
  /\ UNCHANGED <<clients, hub, conn, closed, wpc, dst>>

--------------------------------------------------------------------------------
(* The write pump.  Every exit runs the deferred conn.Close(). *)

WriterExit(c) ==
  /\ wpc' = [wpc EXCEPT ![c] = "done"]
  /\ conn' = [conn EXCEPT ![c] = "closed"]

(* A queued frame is written; the write fails on a closed socket and may *)
(* fail on a broken one.                                                  *)
WriteFrame(c) ==
  /\ ~crashed
  /\ wpc[c] = "run"
  /\ send[c] > 0
  /\ send' = [send EXCEPT ![c] = @ - 1]
  /\ \/ conn[c] # "closed" /\ UNCHANGED <<wpc, conn>>
     \/ conn[c] # "up" /\ WriterExit(c)
  /\ UNCHANGED <<clients, hub, closed, pc, dst, todo, crashed>>

(* The channel is closed and drained: write a close frame and return. *)
WriteClose(c) ==
  /\ ~crashed
  /\ wpc[c] = "run"
  /\ send[c] = 0
  /\ closed[c]
  /\ WriterExit(c)
  /\ UNCHANGED <<clients, hub, send, closed, pc, dst, todo, crashed>>

(* Mutant: no ping ticker. *)
PingFail_Missing(c) == FALSE

(* The ping ticker finds the socket unusable. *)
PingFail(c) ==
  /\ ~crashed
  /\ wpc[c] = "run"
  /\ conn[c] \in {"broken", "closed"}
  /\ WriterExit(c)
  /\ UNCHANGED <<clients, hub, send, closed, pc, dst, todo, crashed>>

--------------------------------------------------------------------------------
HubStep == HubLock \/ HubRegister \/ HubUnregister

Next ==
  \/ HubStep
  \/ \E c \in Conns :
       \/ NewClient(c) \/ Drop(c) \/ ReadFail(c) \/ ReaderClose(c)
       \/ HubReceiveRegister(c) \/ HubReceiveUnregister(c)
       \/ DeliverToGroup(c) \/ QueryPresence(c) \/ TrySend(c)
       \/ WriteFrame(c) \/ WriteClose(c) \/ PingFail(c)
  \/ \E t \in Tasks : Broadcast(t)
  \/ \E a \in Actors :
       (\E u \in Users : Lookup(a, u)) \/ Deliver(a) \/ FanoutSend(a) \/ FanoutEnd(a)

SafetySpec == Init /\ [][Next]_vars

(* What the Go runtime gives: a runnable goroutine runs, a select does not *)
(* ignore a ready case forever, a lock announced to is granted, the ping   *)
(* ticker ticks, a write returns within writeWait.  A socket that is down  *)
(* has finitely many frames buffered, so the read pump runs out of them.   *)
(* Peers, HTTP clients and inbound frames owe nothing.                     *)
Fairness ==
  /\ WF_vars(HubStep)
  /\ \A c \in Conns :
       /\ WF_vars(HubReceiveRegister(c))
       /\ WF_vars(HubReceiveUnregister(c))
       /\ SF_vars(ReadFail(c))
       /\ WF_vars(ReaderClose(c) \/ TrySend(c))
       /\ WF_vars(WriteFrame(c) \/ WriteClose(c))
       /\ WF_vars(PingFail(c))
  /\ \A a \in Actors : WF_vars(Deliver(a) \/ FanoutSend(a) \/ FanoutEnd(a))

Spec == SafetySpec /\ Fairness

--------------------------------------------------------------------------------
(* The hub has processed c's registration. *)
Served(c) ==
  /\ pc[c] \notin {"new", "register"}
  /\ ~(hub.pc # "idle" /\ hub.op = "register" /\ hub.conn = c)

(***************************************************************************)
(* A registered client belongs to the user it is registered for, its       *)
(* registration has been processed and its send channel is open: hub.run   *)
(* closes a channel only together with removing its client from the map.   *)
(***************************************************************************)
RegisteredIsOpen ==
  \A u \in Users : clients[u] # NoConn =>
    /\ Owner[clients[u]] = u
    /\ Served(clients[u])
    /\ ~closed[clients[u]]

(***************************************************************************)
(* Reconnect: of all the sockets a user has opened and the hub has served, *)
(* only the registered one can still be up; the hub closed the others      *)
(* (hub.run, register case), so a user never listens on two connections.   *)
(***************************************************************************)
OnlyRegisteredSocketUp ==
  \A c \in Conns : Served(c) /\ conn[c] = "up" => clients[Owner[c]] = c

(***************************************************************************)
(* While Broadcast or DeliverToGroup walks the clients it found, none of   *)
(* them is replaced or has its channel closed: the RLock keeps the hub out *)
(* until the last frame is queued, so a fan-out never panics.              *)
(***************************************************************************)
FanoutTargetsStay ==
  \A a \in Actors : pc[a] = "fanout" =>
    \A c \in todo[a] : clients[Owner[c]] = c /\ ~closed[c]

(***************************************************************************)
(* A client's channel is closed only after its own read pump stopped       *)
(* handling frames, so trySend never panics: the acks and presence answers *)
(* a read pump queues to its own client need no lock.                      *)
(***************************************************************************)
ClosedAfterReader ==
  \A c \in Conns : closed[c] => pc[c] \in {"closing", "done"}

(***************************************************************************)
(* A user goes offline only because the read pump of the connection that   *)
(* was the user's current one ended.  In particular the late unregister of *)
(* a replaced connection never removes its successor (hub.run compares the *)
(* registered client with the one that unregisters).                       *)
(***************************************************************************)
OfflineByOwnEnd ==
  [][\A u \in Users : clients[u] # NoConn /\ clients'[u] = NoConn =>
       /\ hub.op = "unregister"
       /\ pc[clients[u]] \in {"closing", "done"}
       /\ conn[clients[u]] # "up"]_vars

(***************************************************************************)
(* A connection whose peer is gone, or that was replaced, unwinds: both    *)
(* its pumps return and it is not registered any more (unless the process  *)
(* dies).  A replaced client's channel is never closed, so its write pump  *)
(* depends on the ping ticker to find out.                                 *)
(***************************************************************************)
DeadConnUnwinds ==
  \A c \in Conns : conn[c] \in {"broken", "closed"} ~>
    \/ crashed
    \/ pc[c] = "done" /\ wpc[c] = "done" /\ clients[Owner[c]] # c

(***************************************************************************)
(* A client blocked in hub.Register is eventually served: nothing the hub  *)
(* waits for waits for the hub, because no goroutine blocks while it holds *)
(* h.mu (sends are non-blocking and drop when the buffer is full).         *)
(***************************************************************************)
RegisterIsServed ==
  \A c \in Conns : pc[c] = "register" ~> (crashed \/ Served(c))

(***************************************************************************)
(* hub.run closes only the connection of a replaced client because closing *)
(* a channel that DeliverToUser may be writing to "is a send on closed     *)
(* channel panic waiting to happen" (hub.go:65-68).  The property says no  *)
(* DeliverToUser is about to queue to a closed channel.                    *)
(***************************************************************************)
NoSendOnClosedChannel ==
  \A a \in Actors : pc[a] = "send" => ~closed[dst[a]]

(***************************************************************************)
(* "delivered is true only when the receiver has a live connection and the *)
(* message was queued to it" (client.go): the client a direct message is   *)
(* reported as queued to is the one registered for the receiver.           *)
(***************************************************************************)
DeliveredToLiveConn ==
  [][\A a \in Actors : pc[a] = "send" /\ send'[dst[a]] > send[dst[a]] =>
       clients[Owner[dst[a]]] = dst[a]]_vars

--------------------------------------------------------------------------------
(* The sessions the registry stands for: a client is live while it is the  *)
(* registered one; one that was served and is not has ended if its channel *)
(* was closed, and was superseded if not.                                  *)
PhaseOf(c) ==
  IF clients[Owner[c]] = c THEN "live"
  ELSE IF closed[c] THEN "ended"
  ELSE IF Served(c) THEN "superseded"
  ELSE "new"

(* The client whose registration the hub goroutine is carrying out. *)
Receiving == IF hub.pc # "idle" /\ hub.op = "register" THEN hub.conn ELSE NoConn

(* The clients a has yet to serve while it holds h.mu for reading. *)
WalkOf(a) == IF pc[a] = "fanout" THEN todo[a] ELSE {}

Service == INSTANCE HubService
             WITH session <- clients, phase <- [c \in Conns |-> PhaseOf(c)],
                  received <- Receiving, walks <- [a \in Actors |-> WalkOf(a)],
                  Walkers <- Actors, Broadcasters <- Tasks

(***************************************************************************)
(* The hub implements the service Presence builds on: every step receives, *)
(* opens or ends one session, begins a walk over the clients or serves one *)
(* of them, or leaves all this alone; sessions neither open nor end during *)
(* a walk, and no walk is given up.                                        *)
(***************************************************************************)
ImplementsService == Service!ServiceSpec
================================================================================
