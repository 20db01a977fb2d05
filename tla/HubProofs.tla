------------------------------- MODULE HubProofs -------------------------------
(***************************************************************************)
(* Proofs about the hub, for every set of users, clients and goroutines    *)
(* and every capacity of the send channels.                                *)
(***************************************************************************)
EXTENDS Hub, TLAPS

(***************************************************************************)
(* TypeOK: every variable keeps its type, in particular a send channel     *)
(* never holds more than its capacity.                                     *)
(***************************************************************************)
LEMMA TypeInit == Init => TypeOK
<1> SUFFICES ASSUME Init PROVE TypeOK
  OBVIOUS
<1>1. /\ clients \in [Users -> Conns \cup {NoConn}]
      /\ hub \in [pc : HubPC, op : {"register", "unregister"}, conn : Conns \cup {NoConn}]
      /\ hub.pc = "idle"
      /\ conn \in [Conns -> ConnState]
      /\ send \in [Conns -> 0..Capacity]
      /\ wpc \in [Conns -> {"none", "run", "done"}]
  BY HubAssumption DEF Init, HubPC, ConnState
<1>2. closed \in [Conns -> BOOLEAN] /\ crashed \in BOOLEAN
  BY DEF Init
<1>3. /\ pc \in [Actors -> ReaderPC \cup TaskPC]
      /\ \A c \in Conns : pc[c] \in ReaderPC
      /\ \A t \in Tasks : pc[t] \in TaskPC
      /\ \A a \in Actors : pc[a] # "send"
  BY HubAssumption DEF Init, Actors, ReaderPC, TaskPC
<1>4. dst \in [Actors -> Conns \cup {NoConn}] /\ todo \in [Actors -> SUBSET Conns]
  BY DEF Init
<1> QED BY <1>1, <1>2, <1>3, <1>4 DEF TypeOK

LEMMA OfferType ==
  ASSUME TypeOK, NEW a \in Actors, NEW c \in Conns, NEW next, NEW left \in SUBSET Conns,
         a \in Conns => next \in ReaderPC,
         a \in Tasks => next \in TaskPC,
         next # "send",
         Offer(a, c, next, left)
  PROVE  /\ send' \in [Conns -> 0..Capacity]
         /\ crashed' \in BOOLEAN
         /\ pc' \in [Actors -> ReaderPC \cup TaskPC]
         /\ \A d \in Conns : pc'[d] \in ReaderPC
         /\ \A t \in Tasks : pc'[t] \in TaskPC
         /\ todo' \in [Actors -> SUBSET Conns]
         /\ \A b \in Actors : pc'[b] = "send" => b # a /\ pc[b] = "send"
<1>1. CASE closed[c]
  BY <1>1, HubAssumption DEF TypeOK, Offer, Panic, Actors, ReaderPC, TaskPC
<1>2. CASE ~closed[c]
  BY <1>2, HubAssumption DEF TypeOK, Offer, HasRoom, Actors, ReaderPC, TaskPC
<1> QED BY <1>1, <1>2

LEMMA AfterType ==
  ASSUME NEW a \in Actors, NEW next \in After(a)
  PROVE  /\ a \in Conns => next \in ReaderPC
         /\ a \in Tasks => next \in TaskPC
         /\ next # "send"
         /\ next \in {"ack", "read", "idle"}
BY HubAssumption DEF After, ReaderPC, TaskPC, Actors

LEMMA TypeStep == TypeOK /\ [Next]_vars => TypeOK'
<1> SUFFICES ASSUME TypeOK, [Next]_vars PROVE TypeOK'
  OBVIOUS
<1> USE HubAssumption
<1>1. CASE HubLock
  BY <1>1 DEF HubLock, TypeOK, HubPC
<1>2. CASE HubRegister
  BY <1>2 DEF HubRegister, HubHasLock, HubDone, CloseConn, TypeOK, HubPC, ConnState
<1>3. CASE HubUnregister
  BY <1>3 DEF HubUnregister, HubHasLock, HubDone, Without, TypeOK, HubPC
<1>4. ASSUME NEW c \in Conns,
             NewClient(c) \/ Drop(c) \/ ReadFail(c) \/ ReaderClose(c)
      PROVE  TypeOK'
  BY <1>4 DEF NewClient, Drop, ReadFail, ReaderClose, TypeOK, Actors, ReaderPC, ConnState
<1>5. ASSUME NEW c \in Conns, HubReceiveRegister(c) \/ HubReceiveUnregister(c)
      PROVE  TypeOK'
  BY <1>5 DEF HubReceiveRegister, HubReceiveUnregister, TypeOK, Actors, ReaderPC, HubPC
<1>6. ASSUME NEW a \in Actors, NEW recipients \in SUBSET Users, StartFanout(a, recipients)
      PROVE  TypeOK'
  BY <1>6 DEF StartFanout, TypeOK, Actors, ReaderPC, TaskPC
<1>7. ASSUME NEW c \in Conns, DeliverToGroup(c) PROVE TypeOK'
  BY <1>6, <1>7 DEF DeliverToGroup, Actors
<1>8. ASSUME NEW t \in Tasks, Broadcast(t) PROVE TypeOK'
  BY <1>6, <1>8 DEF Broadcast, Actors
<1>9. ASSUME NEW c \in Conns, QueryPresence(c) PROVE TypeOK'
  BY <1>9 DEF QueryPresence, TypeOK, Actors, ReaderPC
<1>10. ASSUME NEW c \in Conns, TrySend(c) PROVE TypeOK'
  <2>1. Offer(c, c, "read", todo[c]) /\ todo[c] \in SUBSET Conns
    BY <1>10 DEF TrySend, TypeOK, Actors
  <2>2. c \in Actors /\ c \notin Tasks /\ "read" \in ReaderPC
    BY DEF Actors, ReaderPC
  <2> QED BY <1>10, <2>1, <2>2, OfferType DEF TrySend, TypeOK
<1>11. ASSUME NEW c \in Conns, WriteFrame(c) \/ WriteClose(c) \/ PingFail(c) PROVE TypeOK'
  BY <1>11 DEF WriteFrame, WriteClose, PingFail, WriterExit, TypeOK, ConnState
<1>12. ASSUME NEW a \in Actors, NEW u \in Users, Lookup(a, u) PROVE TypeOK'
  BY <1>12, AfterType DEF Lookup, TypeOK, Actors, ReaderPC, TaskPC
<1>13. ASSUME NEW a \in Actors, Deliver(a) PROVE TypeOK'
  <2>1. PICK next \in After(a) : Offer(a, dst[a], next, todo[a])
    BY <1>13 DEF Deliver
  <2>2. dst[a] \in Conns /\ todo[a] \in SUBSET Conns
    BY <1>13 DEF Deliver, TypeOK
  <2> QED BY <1>13, <2>1, <2>2, AfterType, OfferType DEF Deliver, TypeOK
<1>14. ASSUME NEW a \in Actors, FanoutSend(a) PROVE TypeOK'
  <2>1. PICK c \in todo[a] : Offer(a, c, "fanout", todo[a] \ {c})
    BY <1>14 DEF FanoutSend
  <2>2. c \in Conns /\ todo[a] \ {c} \in SUBSET Conns
    BY DEF TypeOK
  <2>3. "fanout" \in ReaderPC /\ "fanout" \in TaskPC
    BY DEF ReaderPC, TaskPC
  <2> QED BY <1>14, <2>1, <2>2, <2>3, OfferType DEF FanoutSend, TypeOK
<1>15. ASSUME NEW a \in Actors, FanoutEnd(a) PROVE TypeOK'
  BY <1>15, AfterType DEF FanoutEnd, TypeOK, Actors, ReaderPC, TaskPC
<1>16. CASE UNCHANGED vars
  BY <1>16 DEF vars, TypeOK
<1> QED
  BY <1>1, <1>2, <1>3, <1>4, <1>5, <1>7, <1>8, <1>9, <1>10, <1>11, <1>12, <1>13,
     <1>14, <1>15, <1>16 DEF Next, HubStep

(***************************************************************************)
(* In every behaviour of the hub the variables have their types; a send    *)
(* channel never holds more than sendBufferSize frames.                    *)
(***************************************************************************)
THEOREM TypeCorrect == SafetySpec => []TypeOK
BY TypeInit, TypeStep, PTL DEF SafetySpec

--------------------------------------------------------------------------------
(***************************************************************************)
(* The inductive invariant.  Beside the four invariants the model checker  *)
(* verifies it says what the hub knows of the request it is serving, and   *)
(* that a read pump on its way out has lost its socket: without the first  *)
(* the registration of a client could follow its removal, without the      *)
(* second an unregistered client could still be listening.                 *)
(***************************************************************************)
InFlight ==
  hub.pc # "idle" =>
    /\ hub.op = "register" => pc[hub.conn] \notin {"new", "register"} /\ ~closed[hub.conn]
    /\ hub.op = "unregister" => pc[hub.conn] \in {"closing", "done"} /\ conn[hub.conn] # "up"

LeavingIsDown ==
  \A c \in Conns : pc[c] \in {"unregister", "closing"} => conn[c] # "up"

IInv ==
  /\ TypeOK
  /\ InFlight
  /\ LeavingIsDown
  /\ RegisteredIsOpen
  /\ OnlyRegisteredSocketUp
  /\ FanoutTargetsStay
  /\ ClosedAfterReader

LEMMA InvInit == Init => IInv
<1> SUFFICES ASSUME Init PROVE IInv
  OBVIOUS
<1>1. TypeOK
  BY TypeInit
<1>2. /\ InFlight /\ LeavingIsDown /\ OnlyRegisteredSocketUp /\ ClosedAfterReader
  BY DEF Init, InFlight, LeavingIsDown, OnlyRegisteredSocketUp, ClosedAfterReader, Actors
<1>3. RegisteredIsOpen
  BY HubAssumption DEF Init, RegisteredIsOpen
<1>4. FanoutTargetsStay
  BY DEF Init, FanoutTargetsStay, Actors
<1> QED BY <1>1, <1>2, <1>3, <1>4 DEF IInv

LEMMA InvStep == IInv /\ [Next]_vars => IInv'
<1> SUFFICES ASSUME IInv, [Next]_vars PROVE IInv'
  OBVIOUS
<1> USE HubAssumption
<1>0. TypeOK /\ TypeOK'
  BY TypeStep DEF IInv
<1>1. CASE HubLock
  BY <1>0, <1>1 DEF HubLock, IInv, InFlight, LeavingIsDown, RegisteredIsOpen,
     OnlyRegisteredSocketUp, FanoutTargetsStay, ClosedAfterReader, Served, TypeOK, HubPC
<1>2. CASE HubRegister
  BY <1>0, <1>2 DEF HubRegister, HubHasLock, HubDone, CloseConn, IInv, InFlight,
     LeavingIsDown, RegisteredIsOpen, OnlyRegisteredSocketUp, FanoutTargetsStay,
     ClosedAfterReader, Served, TypeOK, HubPC
<1>3. CASE HubUnregister
  BY <1>0, <1>3 DEF HubUnregister, HubHasLock, HubDone, IsCurrent, Without, IInv, InFlight,
     LeavingIsDown, RegisteredIsOpen, OnlyRegisteredSocketUp, FanoutTargetsStay,
     ClosedAfterReader, Served, TypeOK, HubPC
<1>4. ASSUME NEW c \in Conns,
             NewClient(c) \/ Drop(c) \/ ReadFail(c) \/ ReaderClose(c)
      PROVE  IInv'
  BY <1>0, <1>4 DEF NewClient, Drop, ReadFail, ReaderClose, IInv, InFlight,
     LeavingIsDown, RegisteredIsOpen, OnlyRegisteredSocketUp, FanoutTargetsStay,
     ClosedAfterReader, Served, TypeOK, Actors
<1>5. ASSUME NEW c \in Conns, HubReceiveRegister(c) \/ HubReceiveUnregister(c)
      PROVE  IInv'
  BY <1>0, <1>5 DEF HubReceiveRegister, HubReceiveUnregister, IInv, InFlight,
     LeavingIsDown, RegisteredIsOpen, OnlyRegisteredSocketUp, FanoutTargetsStay,
     ClosedAfterReader, Served, TypeOK, Actors
<1>6. ASSUME NEW a \in Actors, NEW recipients \in SUBSET Users, StartFanout(a, recipients)
      PROVE  IInv'
  BY <1>0, <1>6 DEF StartFanout, MayQueue, CanRead, IInv, InFlight,
     LeavingIsDown, RegisteredIsOpen, OnlyRegisteredSocketUp, FanoutTargetsStay,
     ClosedAfterReader, Served, TypeOK, Actors
<1>7. ASSUME NEW c \in Conns, DeliverToGroup(c) PROVE IInv'
  BY <1>6, <1>7 DEF DeliverToGroup, Actors
<1>8. ASSUME NEW t \in Tasks, Broadcast(t) PROVE IInv'
  BY <1>6, <1>8 DEF Broadcast, Actors
<1>9. ASSUME NEW c \in Conns, QueryPresence(c) PROVE IInv'
  BY <1>0, <1>9 DEF QueryPresence, CanRead, IInv, InFlight,
     LeavingIsDown, RegisteredIsOpen, OnlyRegisteredSocketUp, FanoutTargetsStay,
     ClosedAfterReader, Served, TypeOK, Actors
<1>11. ASSUME NEW c \in Conns, WriteFrame(c) \/ WriteClose(c) \/ PingFail(c) PROVE IInv'
  BY <1>0, <1>11 DEF WriteFrame, WriteClose, PingFail, WriterExit, IInv, InFlight,
     LeavingIsDown, RegisteredIsOpen, OnlyRegisteredSocketUp, FanoutTargetsStay,
     ClosedAfterReader, Served, TypeOK, Actors, ConnState
<1>12. ASSUME NEW a \in Actors, NEW u \in Users, Lookup(a, u) PROVE IInv'
  BY <1>0, <1>12, AfterType DEF Lookup, MayQueue, CanRead, IInv, InFlight,
     LeavingIsDown, RegisteredIsOpen, OnlyRegisteredSocketUp, FanoutTargetsStay,
     ClosedAfterReader, Served, TypeOK, Actors
<1>13. ASSUME NEW a \in Actors, NEW next \in {"ack", "read", "idle", "fanout"},
              NEW c, NEW left \in SUBSET todo[a],
              pc[a] \in {"send", "ack", "fanout"},
              next = "fanout" => pc[a] = "fanout",
              Offer(a, c, next, left),
              UNCHANGED <<clients, hub, conn, closed>>
       PROVE  IInv'
  <2>1. /\ \A b \in Actors \ {a} : pc'[b] = pc[b] /\ todo'[b] = todo[b]
        /\ pc'[a] \in {"ack", "read", "idle", "fanout", "done"}
        /\ pc'[a] = "fanout" => pc[a] = "fanout"
        /\ todo'[a] \subseteq todo[a]
    <3>1. CASE closed[c]
      BY <1>13, <3>1, <1>0 DEF Offer, Panic, TypeOK
    <3>2. CASE ~closed[c]
      BY <1>13, <3>2, <1>0 DEF Offer, TypeOK
    <3> QED BY <3>1, <3>2
  <2>2. Actors = Conns \cup Tasks
    BY DEF Actors
  <2>3. InFlight' /\ LeavingIsDown' /\ ClosedAfterReader'
    BY <1>0, <1>13, <2>1, <2>2 DEF IInv, InFlight, LeavingIsDown, ClosedAfterReader, TypeOK
  <2>4. RegisteredIsOpen' /\ OnlyRegisteredSocketUp'
    BY <1>0, <1>13, <2>1, <2>2 DEF IInv, RegisteredIsOpen, OnlyRegisteredSocketUp, Served, TypeOK
  <2>5. FanoutTargetsStay'
    BY <1>0, <1>13, <2>1, <2>2 DEF IInv, FanoutTargetsStay, TypeOK
  <2> QED BY <1>0, <2>3, <2>4, <2>5 DEF IInv
<1>14. ASSUME NEW c \in Conns, TrySend(c) PROVE IInv'
  BY <1>13, <1>14 DEF TrySend, Actors
<1>15. ASSUME NEW a \in Actors, Deliver(a) PROVE IInv'
  BY <1>13, <1>15, AfterType DEF Deliver
<1>16. ASSUME NEW a \in Actors, FanoutSend(a) PROVE IInv'
  BY <1>13, <1>16 DEF FanoutSend
<1>17. ASSUME NEW a \in Actors, FanoutEnd(a) PROVE IInv'
  BY <1>0, <1>17, AfterType DEF FanoutEnd, IInv, InFlight,
     LeavingIsDown, RegisteredIsOpen, OnlyRegisteredSocketUp, FanoutTargetsStay,
     ClosedAfterReader, Served, TypeOK, Actors
<1>18. CASE UNCHANGED vars
  BY <1>0, <1>18 DEF vars, IInv, InFlight,
     LeavingIsDown, RegisteredIsOpen, OnlyRegisteredSocketUp, FanoutTargetsStay,
     ClosedAfterReader, Served
<1> QED
  BY <1>1, <1>2, <1>3, <1>4, <1>5, <1>7, <1>8, <1>9, <1>11, <1>12, <1>14, <1>15,
     <1>16, <1>17, <1>18 DEF Next, HubStep

LEMMA InvCorrect == SafetySpec => []IInv
BY InvInit, InvStep, PTL DEF SafetySpec

(***************************************************************************)
(* A registered client is registered for its own user, after the hub has   *)
(* processed its registration, and its send channel is open.               *)
(***************************************************************************)
THEOREM RegisteredClientsAreOpen == SafetySpec => []RegisteredIsOpen
BY InvCorrect, PTL DEF IInv

(***************************************************************************)
(* However often the users reconnect, only the registered socket of a user *)
(* can be up once the hub has served the registrations.                    *)
(***************************************************************************)
THEOREM ReplacedSocketsAreDown == SafetySpec => []OnlyRegisteredSocketUp
BY InvCorrect, PTL DEF IInv

(***************************************************************************)
(* A fan-out under the read lock never meets a closed channel or a         *)
(* replaced client.                                                        *)
(***************************************************************************)
THEOREM FanoutNeverPanics == SafetySpec => []FanoutTargetsStay
BY InvCorrect, PTL DEF IInv

(***************************************************************************)
(* A channel is closed only once its own read pump handles no more frames, *)
(* so the unlocked trySend of a read pump never panics.                    *)
(***************************************************************************)
THEOREM OwnReplyNeverPanics == SafetySpec => []ClosedAfterReader
BY InvCorrect, PTL DEF IInv

(***************************************************************************)
(* A user goes offline only by the end of the current connection: the late *)
(* unregister of a replaced connection never removes its successor.        *)
(***************************************************************************)
LEMMA OfflineStep ==
  ASSUME IInv, [Next]_vars, NEW u \in Users, clients[u] # NoConn, clients'[u] = NoConn
  PROVE  /\ hub.op = "unregister"
         /\ pc[clients[u]] \in {"closing", "done"}
         /\ conn[clients[u]] # "up"
<1> USE HubAssumption
<1>1. CASE HubRegister
  BY <1>1 DEF HubRegister, HubHasLock, IInv, TypeOK
<1>2. CASE HubUnregister
  BY <1>2 DEF HubUnregister, HubHasLock, IsCurrent, Without, IInv, TypeOK, InFlight
<1>3. CASE UNCHANGED clients
  BY <1>3
<1>4. [Next]_vars => HubRegister \/ HubUnregister \/ UNCHANGED clients
  BY DEF Next, HubStep, vars, HubLock, NewClient, Drop, ReadFail, ReaderClose,
     HubReceiveRegister, HubReceiveUnregister, DeliverToGroup, Broadcast, StartFanout,
     QueryPresence, TrySend, WriteFrame, WriteClose, PingFail, Lookup, Deliver,
     FanoutSend, FanoutEnd
<1> QED BY <1>1, <1>2, <1>3, <1>4

THEOREM SuccessorStaysRegistered == SafetySpec => OfflineByOwnEnd
<1>1. IInv /\ [Next]_vars =>
        [\A u \in Users : clients[u] # NoConn /\ clients'[u] = NoConn =>
           /\ hub.op = "unregister"
           /\ pc[clients[u]] \in {"closing", "done"}
           /\ conn[clients[u]] # "up"]_vars
  BY OfflineStep
<1> QED BY <1>1, InvCorrect, PTL DEF SafetySpec, OfflineByOwnEnd

--------------------------------------------------------------------------------
(***************************************************************************)
(* The hub implements the service the other modules build on.              *)
(***************************************************************************)
LEMMA ServiceInitially == Init => Service!ServiceInit
BY HubAssumption DEF Init, Service!ServiceInit, Service!Init, PhaseOf, Served, Receiving,
   WalkOf, Actors

(* Registering a client opens its session and supersedes the previous one, *)
(* while nobody walks the clients.                                         *)
LEMMA RegisterOpens == IInv /\ HubRegister => Service!Register(hub.conn)
<1> SUFFICES ASSUME IInv, HubRegister PROVE Service!Register(hub.conn)
  OBVIOUS
<1> DEFINE c == hub.conn
<1> USE HubAssumption
<1>1. c \in Conns /\ Owner[c] \in Users
  BY DEF HubRegister, HubHasLock, IInv, TypeOK
<1>2. ~Served(c) /\ ~closed[c] /\ clients[Owner[c]] # c
  BY <1>1 DEF HubRegister, HubHasLock, IInv, InFlight, RegisteredIsOpen, Served, TypeOK
<1>3. clients' = [clients EXCEPT ![Owner[c]] = c] /\ closed' = closed
  BY DEF HubRegister
<1>4. \A d \in Conns \ {c} : Served(d)' <=> Served(d)
  BY <1>1 DEF HubRegister, HubHasLock, HubDone, Served, IInv, TypeOK
<1>5. \A d \in Conns : PhaseOf(d)' = IF d = c THEN "live"
                                     ELSE IF d = clients[Owner[c]] THEN "superseded"
                                     ELSE PhaseOf(d)
  BY <1>1, <1>2, <1>3, <1>4 DEF PhaseOf, IInv, RegisteredIsOpen, TypeOK
<1>6. Service!Open(c)
  BY <1>1, <1>2, <1>3, <1>5 DEF Service!Open, PhaseOf
<1>7. Receiving = c /\ Receiving' = NoConn
  BY <1>1 DEF Receiving, HubRegister, HubHasLock, HubDone, IInv, TypeOK
<1>8. \A a \in Actors : WalkOf(a) = {} /\ WalkOf(a)' = {}
  BY DEF WalkOf, HubRegister, HubHasLock
<1> QED BY <1>6, <1>7, <1>8 DEF Service!Register, Service!Unlocked

(* Unregistering the current client ends its session; unregistering a *)
(* replaced one changes nothing.                                      *)
LEMMA UnregisterEnds == IInv /\ HubUnregister => [Service!Unregister(hub.conn)]_(Service!serviceVars)
<1> SUFFICES ASSUME IInv, HubUnregister
             PROVE  Service!Unregister(hub.conn) \/ UNCHANGED Service!serviceVars
  OBVIOUS
<1> DEFINE c == hub.conn
<1> USE HubAssumption
<1>1. c \in Conns /\ Owner[c] \in Users
  BY DEF HubUnregister, HubHasLock, IInv, TypeOK
<1>2. \A d \in Conns : Served(d)' <=> Served(d)
  BY <1>1 DEF HubUnregister, HubHasLock, HubDone, Served, IInv, TypeOK
<1>3. Receiving = NoConn /\ Receiving' = NoConn
  BY DEF Receiving, HubUnregister, HubHasLock, HubDone, IInv, TypeOK
<1>4. \A a \in Actors : WalkOf(a) = {} /\ WalkOf(a)' = {}
  BY DEF WalkOf, HubUnregister, HubHasLock
<1>5. CASE IsCurrent(c)
  <2>1. /\ clients' = [clients EXCEPT ![Owner[c]] = NoConn]
        /\ closed' = [closed EXCEPT ![c] = TRUE]
        /\ clients[Owner[c]] = c
    BY <1>5 DEF HubUnregister, IsCurrent, Without
  <2>2. \A d \in Conns : PhaseOf(d)' = IF d = c THEN "ended" ELSE PhaseOf(d)
    BY <1>1, <1>2, <2>1 DEF PhaseOf, IInv, TypeOK
  <2>3. Service!End(c)
    BY <1>1, <2>1, <2>2 DEF Service!End
  <2> QED BY <1>3, <1>4, <2>3 DEF Service!Unregister, Service!Unlocked
<1>6. CASE ~IsCurrent(c)
  <2>1. clients' = clients /\ closed' = closed
    BY <1>6 DEF HubUnregister
  <2> QED BY <1>2, <1>3, <1>4, <2>1 DEF PhaseOf, Service!serviceVars, Service!regVars
<1> QED BY <1>5, <1>6

(* Every other step leaves the sessions alone. *)
LEMMA OthersStutter ==
  ASSUME IInv, [Next]_vars, ~HubRegister, ~HubUnregister
  PROVE  UNCHANGED <<clients, [c \in Conns |-> PhaseOf(c)]>>
<1> USE HubAssumption
<1>1. clients' = clients /\ closed' = closed
  BY DEF Next, HubStep, vars, HubLock, NewClient, Drop, ReadFail, ReaderClose,
     HubReceiveRegister, HubReceiveUnregister, DeliverToGroup, Broadcast, StartFanout,
     QueryPresence, TrySend, WriteFrame, WriteClose, PingFail, Lookup, Deliver,
     FanoutSend, FanoutEnd
<1>2. \A c \in Conns : Served(c)' <=> Served(c)
  <2> SUFFICES ASSUME NEW c \in Conns PROVE Served(c)' <=> Served(c)
    OBVIOUS
  <2>1. CASE HubLock \/ UNCHANGED <<hub, pc>>
    BY <2>1 DEF HubLock, Served, IInv, TypeOK
  <2>2. CASE \E d \in Conns : NewClient(d) \/ ReadFail(d) \/ ReaderClose(d) \/ QueryPresence(d)
    BY <2>2 DEF NewClient, ReadFail, ReaderClose, QueryPresence, CanRead, Served, IInv, TypeOK, Actors
  <2>3. CASE \E d \in Conns : HubReceiveRegister(d) \/ HubReceiveUnregister(d)
    BY <2>3 DEF HubReceiveRegister, HubReceiveUnregister, Served, IInv, TypeOK, Actors
  <2>4. CASE \/ \E d \in Conns : DeliverToGroup(d)
             \/ \E t \in Tasks : Broadcast(t)
             \/ \E a \in Actors, u \in Users : Lookup(a, u)
             \/ \E a \in Actors : FanoutEnd(a)
    BY <2>4, AfterType DEF DeliverToGroup, Broadcast, StartFanout, Lookup, MayQueue, CanRead,
       FanoutEnd, Served, IInv, TypeOK, Actors
  <2>5. ASSUME NEW a \in Actors, NEW next \in {"ack", "read", "idle", "fanout"}, NEW d, NEW left,
               pc[a] \in {"send", "ack", "fanout"}, Offer(a, d, next, left), hub' = hub
        PROVE  Served(c)' <=> Served(c)
    BY <2>5 DEF Offer, Panic, Served, IInv, TypeOK, Actors
  <2>6. CASE \E d \in Conns : TrySend(d)
    BY <2>5, <2>6 DEF TrySend, Actors
  <2>7. CASE \E a \in Actors : Deliver(a) \/ FanoutSend(a)
    <3>1. PICK a \in Actors : Deliver(a) \/ FanoutSend(a)
      BY <2>7
    <3>2. CASE Deliver(a)
      BY <2>5, <3>2, AfterType DEF Deliver
    <3>3. CASE FanoutSend(a)
      BY <2>5, <3>3 DEF FanoutSend
    <3> QED BY <3>1, <3>2, <3>3
  <2>8. \/ HubLock
        \/ UNCHANGED <<hub, pc>>
        \/ \E d \in Conns : NewClient(d) \/ ReadFail(d) \/ ReaderClose(d) \/ QueryPresence(d)
        \/ \E d \in Conns : HubReceiveRegister(d) \/ HubReceiveUnregister(d)
        \/ \E d \in Conns : DeliverToGroup(d)
        \/ \E t \in Tasks : Broadcast(t)
        \/ \E a \in Actors, u \in Users : Lookup(a, u)
        \/ \E a \in Actors : FanoutEnd(a)
        \/ \E d \in Conns : TrySend(d)
        \/ \E a \in Actors : Deliver(a) \/ FanoutSend(a)
    BY DEF Next, HubStep, vars, Drop, WriteFrame, WriteClose, PingFail
  <2> QED BY <2>1, <2>2, <2>3, <2>4, <2>6, <2>7, <2>8
<1> QED BY <1>1, <1>2 DEF PhaseOf

(* The hub receives a client that has no session and never had one. *)
LEMMA ReceiveReceives ==
  ASSUME IInv, NEW c \in Conns, HubReceiveRegister(c)
  PROVE  Service!Receive(c)
<1> USE HubAssumption
<1>1. UNCHANGED <<clients, [d \in Conns |-> PhaseOf(d)]>>
  BY OthersStutter DEF Next, HubReceiveRegister, HubRegister, HubUnregister, HubHasLock
<1>2. PhaseOf(c) = "new"
  <2>1. pc[c] = "register" /\ Owner[c] \in Users /\ c # NoConn
    BY DEF HubReceiveRegister
  <2>2. ~Served(c)
    BY <2>1 DEF Served
  <2>3. clients[Owner[c]] # c
    BY <2>1, <2>2 DEF IInv, RegisteredIsOpen
  <2>4. ~closed[c]
    BY <2>1 DEF IInv, ClosedAfterReader
  <2> QED BY <2>2, <2>3, <2>4 DEF PhaseOf
<1>3. Receiving = NoConn /\ Receiving' = c
  BY DEF HubReceiveRegister, Receiving
<1>4. \A a \in Actors : WalkOf(a)' = WalkOf(a)
  BY DEF HubReceiveRegister, WalkOf, IInv, TypeOK, Actors
<1> QED BY <1>1, <1>2, <1>3, <1>4 DEF Service!Receive, Service!regVars

(* A fan-out begins with registered clients, a broadcast with all of them. *)
LEMMA FanoutWalks ==
  ASSUME IInv, NEW a \in Actors, NEW recipients \in SUBSET Users, StartFanout(a, recipients),
         a \in Tasks => recipients = Users,
         UNCHANGED <<clients, [d \in Conns |-> PhaseOf(d)]>>
  PROVE  Service!Walk(a)
<1> USE HubAssumption
<1> DEFINE served == {clients[u] : u \in recipients} \ {NoConn}
<1>1. /\ served \in SUBSET Service!Connected
      /\ a \in Tasks => served = Service!Connected
  BY DEF Service!Connected, IInv, TypeOK, RegisteredIsOpen
<1>2. Receiving' = Receiving
  BY DEF StartFanout, Receiving
<1>3. WalkOf(a) = {} /\ WalkOf(a)' = served
  BY DEF StartFanout, MayQueue, CanRead, WalkOf, IInv, TypeOK
<1>4. \A b \in Actors \ {a} : WalkOf(b)' = WalkOf(b)
  BY DEF StartFanout, WalkOf, IInv, TypeOK
<1> HIDE DEF served
<1> QED BY <1>1, <1>2, <1>3, <1>4 DEF Service!Walk, Service!regVars

(* It serves one client after the other, all of them open. *)
LEMMA FanoutServes ==
  ASSUME IInv, NEW a \in Actors, FanoutSend(a),
         UNCHANGED <<clients, [d \in Conns |-> PhaseOf(d)]>>
  PROVE  Service!Serve(a)
<1>1. PICK c \in todo[a] : Offer(a, c, "fanout", todo[a] \ {c})
  BY DEF FanoutSend
<1>2. ~closed[c] /\ pc[a] = "fanout"
  BY DEF FanoutSend, IInv, FanoutTargetsStay
<1>3. /\ pc' = [pc EXCEPT ![a] = "fanout"]
      /\ todo' = [todo EXCEPT ![a] = todo[a] \ {c}]
  BY <1>1, <1>2 DEF Offer
<1>4. c \in WalkOf(a) /\ WalkOf(a)' = WalkOf(a) \ {c}
  BY <1>2, <1>3 DEF WalkOf, IInv, TypeOK
<1>5. \A b \in Actors \ {a} : WalkOf(b)' = WalkOf(b)
  BY <1>3 DEF WalkOf, IInv, TypeOK
<1>6. Receiving' = Receiving
  BY DEF FanoutSend, Receiving
<1> QED BY <1>4, <1>5, <1>6 DEF Service!Serve, Service!regVars

(* Every other step leaves the hub goroutine's client and the walks alone; *)
(* no panic ends a walk, for a read pump queues only to its own client     *)
(* while that is open, and a sender outside the lock walks nothing.        *)
LEMMA OthersWalkNot ==
  ASSUME IInv, [Next]_vars, ~HubRegister, ~HubUnregister,
         \A c \in Conns : ~HubReceiveRegister(c),
         \A c \in Conns : ~DeliverToGroup(c), \A t \in Tasks : ~Broadcast(t),
         \A a \in Actors : ~FanoutSend(a)
  PROVE  Receiving' = Receiving /\ \A a \in Actors : WalkOf(a)' = WalkOf(a)
<1> USE HubAssumption
<1>1. CASE HubLock \/ UNCHANGED <<hub, pc, todo>>
  BY <1>1 DEF HubLock, Receiving, WalkOf, IInv, TypeOK
<1>2. CASE \E c \in Conns : NewClient(c) \/ ReadFail(c) \/ ReaderClose(c) \/ QueryPresence(c)
                              \/ HubReceiveUnregister(c)
  BY <1>2 DEF NewClient, ReadFail, ReaderClose, QueryPresence, CanRead, HubReceiveUnregister,
     Receiving, WalkOf, IInv, TypeOK, Actors
<1>3. CASE \E a \in Actors, u \in Users : Lookup(a, u)
  BY <1>3, AfterType DEF Lookup, MayQueue, CanRead, Receiving, WalkOf, IInv, TypeOK, Actors
<1>4. CASE \E a \in Actors : FanoutEnd(a)
  BY <1>4, AfterType DEF FanoutEnd, Receiving, WalkOf, IInv, TypeOK, Actors
<1>5. ASSUME NEW a \in Actors, NEW next \in {"ack", "read", "idle"}, NEW d,
             pc[a] \in {"send", "ack"}, Offer(a, d, next, todo[a]), hub' = hub
      PROVE  Receiving' = Receiving /\ \A b \in Actors : WalkOf(b)' = WalkOf(b)
  BY <1>5 DEF Offer, Panic, Receiving, WalkOf, IInv, TypeOK
<1>6. CASE \E c \in Conns : TrySend(c)
  BY <1>5, <1>6 DEF TrySend, Actors
<1>7. CASE \E a \in Actors : Deliver(a)
  BY <1>5, <1>7, AfterType DEF Deliver
<1>8. \/ HubLock \/ UNCHANGED <<hub, pc, todo>>
      \/ \E c \in Conns : NewClient(c) \/ ReadFail(c) \/ ReaderClose(c) \/ QueryPresence(c)
                           \/ HubReceiveUnregister(c)
      \/ \E a \in Actors, u \in Users : Lookup(a, u)
      \/ \E a \in Actors : FanoutEnd(a)
      \/ \E c \in Conns : TrySend(c)
      \/ \E a \in Actors : Deliver(a)
  BY DEF Next, HubStep, vars, Drop, WriteFrame, WriteClose, PingFail
<1> QED BY <1>1, <1>2, <1>3, <1>4, <1>6, <1>7, <1>8

(***************************************************************************)
(* Every behaviour of the hub is one of the service: to the rest of the    *)
(* program a user has one session at a time, a later connection supersedes *)
(* it and only its own end takes the user offline, one transition after    *)
(* the other and never during a walk over the clients.                     *)
(***************************************************************************)
THEOREM HubImplementsService == SafetySpec => ImplementsService
<1>1. IInv /\ [Next]_vars => [Service!ServiceNext]_(Service!serviceVars)
  <2> SUFFICES ASSUME IInv, [Next]_vars
               PROVE  Service!ServiceNext \/ UNCHANGED Service!serviceVars
    OBVIOUS
  <2>1. CASE HubRegister
    <3>1. hub.conn \in Conns
      BY <2>1 DEF HubRegister, HubHasLock, IInv, TypeOK
    <3> QED BY <2>1, <3>1, RegisterOpens DEF Service!ServiceNext
  <2>2. CASE HubUnregister
    <3>1. hub.conn \in Conns
      BY <2>2 DEF HubUnregister, HubHasLock, IInv, TypeOK
    <3> QED BY <2>2, <3>1, UnregisterEnds DEF Service!ServiceNext
  <2>3. CASE \E c \in Conns : HubReceiveRegister(c)
    BY <2>3, ReceiveReceives DEF Service!ServiceNext
  <2>4. CASE ~HubRegister /\ ~HubUnregister /\ \A c \in Conns : ~HubReceiveRegister(c)
    <3>1. UNCHANGED <<clients, [c \in Conns |-> PhaseOf(c)]>>
      BY <2>4, OthersStutter
    <3>2. CASE (\E c \in Conns : DeliverToGroup(c)) \/ (\E t \in Tasks : Broadcast(t))
      <4>1. PICK a \in Actors, recipients \in SUBSET Users :
              StartFanout(a, recipients) /\ (a \in Tasks => recipients = Users)
        BY <3>2, HubAssumption DEF DeliverToGroup, Broadcast, Actors
      <4> QED BY <3>1, <4>1, FanoutWalks DEF Service!ServiceNext
    <3>3. CASE \E a \in Actors : FanoutSend(a)
      BY <3>1, <3>3, FanoutServes DEF Service!ServiceNext
    <3> QED BY <2>4, <3>1, <3>2, <3>3, OthersWalkNot DEF Service!serviceVars, Service!regVars
  <2> QED BY <2>1, <2>2, <2>3, <2>4
<1> QED BY <1>1, ServiceInitially, InvCorrect, PTL
        DEF SafetySpec, ImplementsService, Service!ServiceSpec

(* In particular every step of the hub opens or ends one session, or leaves *)
(* the sessions alone.                                                      *)
THEOREM HubImplementsRegistry == SafetySpec => Service!Spec
<1>1. Service!ServiceInit => Service!Init
  BY DEF Service!ServiceInit
<1>2. [Service!ServiceNext]_(Service!serviceVars) => [Service!Next]_(Service!regVars)
  BY DEF Service!ServiceNext, Service!serviceVars, Service!Next, Service!Receive,
         Service!Register, Service!Unregister, Service!Walk, Service!Serve
<1> QED
  BY <1>1, <1>2, HubImplementsService, PTL
     DEF ImplementsService, Service!ServiceSpec, Service!Spec

================================================================================
