------------------------------ MODULE PicturesProofs ------------------------------
(***************************************************************************)
(* Proofs about Pictures for every number of users, groups, pictures and   *)
(* overlapping requests, with failures at every call.                      *)
(***************************************************************************)
EXTENDS Pictures, TLAPS

Shows(s, k) == Exists(s) /\ row[s].url = k

(* A key nothing happened to is nowhere. *)
FreshInv ==
  \A k \in Keys : mark[k] = {} =>
    /\ k \notin objects
    /\ \A r \in Requests : req[r].key # k
    /\ \A s \in Subjects : ~Shows(s, k)

(* A request that has begun has its subject; a key belongs to one request, *)
(* which has stored the object before it writes the row.                   *)
RequestInv ==
  /\ \A r \in Requests : req[r].pc = "idle" => req[r].key = None /\ req[r].subject = None
  /\ \A r \in Requests : req[r].pc # "idle" => req[r].subject \in Subjects
  /\ \A q, r \in Requests : req[q].key = req[r].key /\ req[q].key # None => q = r
  /\ \A r \in Requests, k \in Keys : req[r].pc = "write" /\ req[r].key = k =>
       k \in objects /\ \A s \in Subjects : ~Shows(s, k)

(* Only an object whose write was misreported is about to be deleted while *)
(* a row shows it; an object written is shown until it is replaced.        *)
CleanupInv ==
  /\ \A r \in Requests : req[r].pc = "cleanup" => req[r].key # None
  /\ \A r \in Requests, k \in Keys, s \in Subjects :
       req[r].pc = "cleanup" /\ req[r].key = k /\ Shows(s, k) => "misreported" \in mark[k]
  /\ \A r \in Requests, k \in Keys, s \in Subjects :
       req[r].pc \in {"read", "tell"} /\ req[r].key = k /\ req[r].subject = s =>
         Shows(s, k) \/ "replaced" \in mark[k]

(* A request that is alone with its user read what is stored.  Without an  *)
(* excuse a user's request is alone, and what peers display is stored or   *)
(* about to be announced.                                                  *)
PeerInv ==
  /\ \A s \in Subjects \ Groups : \A r \in Busy(s) : req[r].alone =>
       Busy(s) = {r} /\ (req[r].pc = "tell" => req[r].read = row[s])
  /\ \A s \in Subjects : Exists(s) /\ ~excuse[s] =>
       /\ s \notin Groups => \A r \in Busy(s) : req[r].alone
       /\ shown[s] = row[s] \/ \E r \in Busy(s) : req[r].pc \in {"read", "tell"}

(* Every picture is where it should be. *)
PictureInv ==
  FreshInv /\ RequestInv /\ CleanupInv /\ DanglesOnlyIfMisreported /\ OrphansHaveAReason

IInv == TypeOK /\ PictureInv /\ PeerInv

--------------------------------------------------------------------------------
(* At the start there is nothing but a name. *)
LEMMA InitInv == Init => IInv
<1> SUFFICES ASSUME Init PROVE IInv
  OBVIOUS
<1> USE DEF Init
<1>1. TypeOK
  BY DEF TypeOK, Profile, NoProfile, Request, Idle
<1>2. \A r \in Requests : req[r] = Idle
  OBVIOUS
<1>3. \A s \in Subjects, k \in Keys : ~Shows(s, k)
  BY PicturesAssumption DEF Shows, Exists
<1>4. FreshInv /\ RequestInv /\ CleanupInv
  BY <1>2, <1>3, PicturesAssumption DEF FreshInv, RequestInv, CleanupInv, Idle
<1>5. PeerInv
  <2>1. \A s \in Subjects : Exists(s) => shown[s] = row[s]
    BY DEF Exists
  <2>2. \A s \in Subjects : Busy(s) = {}
    BY <1>2, PicturesAssumption DEF Busy, Idle
  <2>3. \A r \in Requests : req[r].subject \notin Subjects
    BY <1>2, PicturesAssumption DEF Idle
  <2> QED
    BY <2>1, <2>2, <2>3 DEF PeerInv
<1>6. DanglesOnlyIfMisreported /\ OrphansHaveAReason
  BY <1>3 DEF DanglesOnlyIfMisreported, OrphansHaveAReason, Shows
<1> QED
  BY <1>1, <1>4, <1>5, <1>6 DEF IInv, PictureInv

--------------------------------------------------------------------------------
(* Parts of actions. *)

(* A request that ends leaves the others as they are. *)
LEMMA EndEffect ==
  ASSUME TypeOK, NEW r \in Requests, End(r)
  PROVE  /\ req' \in [Requests -> Request]
         /\ req'[r] = Idle
         /\ \A q \in Requests : q # r => req'[q] = req[q]
  BY DEF End, TypeOK, Request, Idle, Profile, NoProfile

(* A request that goes on keeps what it knows. *)
LEMMA GotoEffect ==
  ASSUME TypeOK, NEW r \in Requests, NEW l \in {"write", "read", "cleanup", "tell"}, Goto(r, l)
  PROVE  /\ req' \in [Requests -> Request]
         /\ req'[r] = [req[r] EXCEPT !.pc = l]
         /\ \A q \in Requests : q # r => req'[q] = req[q]
<1>1. req[r] \in Request
  BY DEF TypeOK
<1>2. [req[r] EXCEPT !.pc = l] \in Request
  BY <1>1 DEF Request
<1> QED
  BY <1>2 DEF Goto, TypeOK

(* The key a row loses counts as replaced; marks are never taken back. *)
LEMMA SetEffect ==
  ASSUME TypeOK, NEW s \in Subjects, NEW p \in Profile \cup {None}, NEW k, NEW m \in SUBSET Mark,
         Set(s, p, k, m)
  PROVE  /\ row' \in [Subjects -> Profile \cup {None}]
         /\ \A t \in Subjects : row'[t] = IF t = s THEN p ELSE row[t]
         /\ mark' \in [Keys -> SUBSET Mark]
         /\ \A x \in Keys : mark[x] \subseteq mark'[x]
         /\ \A x \in Keys : Shows(s, x) /\ x # k => "replaced" \in mark'[x]
         /\ k \in Keys => m \subseteq mark'[k]
         /\ \A x \in Keys : mark'[x] # mark[x] => x = k \/ Shows(s, x)
  BY DEF Set, TypeOK, Mark, Shows

(* A request that begins is alone if no other is about its subject, and no *)
(* other one is from then on.                                              *)
LEMMA BeginEffect ==
  ASSUME TypeOK, NEW r \in Requests, NEW s \in Subjects, NEW start \in Request,
         Begin(r, s, start)
  PROVE  /\ req[r].pc = "idle" /\ Exists(s)
         /\ req' \in [Requests -> Request]
         /\ req'[r].pc = "write" /\ req'[r].subject = s /\ req'[r].key = start.key
         /\ req'[r].alone <=> Busy(s) = {}
         /\ \A q \in Requests : q # r =>
              /\ req'[q].pc = req[q].pc /\ req'[q].subject = req[q].subject
              /\ req'[q].key = req[q].key /\ req'[q].read = req[q].read
              /\ req'[q].alone <=> req[q].alone /\ q \notin Busy(s)
         /\ excuse' \in [Subjects -> BOOLEAN]
         /\ \A t \in Subjects : t # s => excuse'[t] = excuse[t]
         /\ excuse'[s] <=> excuse[s] \/ (s \notin Groups /\ Busy(s) # {})
<1> DEFINE New(q) == IF q = r THEN [start EXCEPT !.subject = s, !.pc = "write", !.alone = Busy(s) = {}]
                     ELSE IF q \in Busy(s) THEN [req[q] EXCEPT !.alone = FALSE] ELSE req[q]
<1>1. req' = [q \in Requests |-> New(q)]
  BY DEF Begin
<1>2. \A q \in Requests : req[q] \in Request
  BY DEF TypeOK
<1>3. (Busy(s) = {}) \in BOOLEAN
  OBVIOUS
<1>4. \A q \in Requests : New(q) \in Request
  BY <1>2, <1>3 DEF Request
<1>5. /\ New(r).pc = "write" /\ New(r).subject = s /\ New(r).key = start.key
      /\ New(r).alone <=> Busy(s) = {}
  BY <1>3 DEF Request
<1>6. \A q \in Requests : q # r =>
        /\ New(q).pc = req[q].pc /\ New(q).subject = req[q].subject
        /\ New(q).key = req[q].key /\ New(q).read = req[q].read
        /\ New(q).alone <=> req[q].alone /\ q \notin Busy(s)
  BY <1>2 DEF Request
<1> HIDE DEF New
<1>7. \A q \in Requests : req'[q] = New(q)
  BY <1>1
<1>8. req' \in [Requests -> Request]
  BY <1>1, <1>4
<1>9. /\ excuse' \in [Subjects -> BOOLEAN]
      /\ \A t \in Subjects : t # s => excuse'[t] = excuse[t]
      /\ excuse'[s] <=> excuse[s] \/ (s \notin Groups /\ Busy(s) # {})
  BY DEF Begin, TypeOK
<1>10. req[r].pc = "idle" /\ Exists(s)
  BY DEF Begin
<1> QED
  BY <1>5, <1>6, <1>7, <1>8, <1>9, <1>10

--------------------------------------------------------------------------------
(* What ends, or begins, with a request leaves the peers' view in order. *)

(* A new request: it displaces nobody's knowledge of the row. *)
LEMMA BeginPeers ==
  ASSUME IInv, NEW r \in Requests, NEW s \in Subjects, NEW start \in Request,
         Begin(r, s, start), UNCHANGED <<row, shown>>
  PROVE  PeerInv'
<1> USE DEF IInv, PictureInv
<1>1. /\ req[r].pc = "idle" /\ Exists(s)
      /\ req'[r].pc = "write" /\ req'[r].subject = s
      /\ req'[r].alone <=> Busy(s) = {}
      /\ \A q \in Requests : q # r =>
           /\ req'[q].pc = req[q].pc /\ req'[q].subject = req[q].subject
           /\ req'[q].read = req[q].read
           /\ req'[q].alone <=> req[q].alone /\ q \notin Busy(s)
      /\ \A t \in Subjects : t # s => excuse'[t] = excuse[t]
      /\ excuse'[s] <=> excuse[s] \/ (s \notin Groups /\ Busy(s) # {})
  BY BeginEffect
<1>2. req[r].subject = None /\ None \notin Subjects
  BY <1>1, PicturesAssumption DEF RequestInv
<1>3. \A t \in Subjects : t # s => Busy(t)' = Busy(t)
  BY <1>1, <1>2 DEF Busy
<1>4. Busy(s)' = Busy(s) \cup {r}
  BY <1>1, <1>2 DEF Busy
<1>5. ASSUME NEW t \in Subjects \ Groups, NEW q \in Busy(t)', req'[q].alone
      PROVE  Busy(t)' = {q} /\ (req'[q].pc = "tell" => req'[q].read = row'[t])
  <2>1. q \in Requests /\ req'[q].subject = t
    BY DEF Busy
  <2>2. CASE q = r
    <3>1. t = s /\ Busy(s) = {}
      BY <1>1, <1>5, <2>1, <2>2
    <3> QED
      BY <1>1, <1>4, <2>2, <3>1
  <2>3. CASE q # r
    <3>1. /\ req[q].alone /\ req[q].subject = t /\ q \notin Busy(s)
          /\ req'[q].pc = req[q].pc /\ req'[q].read = req[q].read
      BY <1>1, <1>5, <2>1, <2>3
    <3>2. t # s /\ q \in Busy(t)
      BY <2>1, <3>1 DEF Busy
    <3>3. Busy(t) = {q} /\ (req[q].pc = "tell" => req[q].read = row[t])
      BY <3>1, <3>2 DEF PeerInv
    <3> QED
      BY <1>3, <3>1, <3>2, <3>3
  <2> QED
    BY <2>2, <2>3
<1>6. ASSUME NEW t \in Subjects, Exists(t)', ~excuse'[t]
      PROVE  /\ t \notin Groups => \A q \in Busy(t)' : req'[q].alone
             /\ shown'[t] = row'[t] \/ \E q \in Busy(t)' : req'[q].pc \in {"read", "tell"}
  <2>1. Exists(t) /\ ~excuse[t] /\ shown'[t] = shown[t] /\ row'[t] = row[t]
    BY <1>1, <1>6 DEF Exists
  <2>2. \A q \in Busy(t) : q # r /\ req'[q].pc = req[q].pc
    BY <1>1, <1>2 DEF Busy
  <2>3. shown'[t] = row'[t] \/ \E q \in Busy(t)' : req'[q].pc \in {"read", "tell"}
    BY <1>3, <1>4, <2>1, <2>2 DEF PeerInv
  <2>4. ASSUME t \notin Groups, NEW q \in Busy(t)' PROVE req'[q].alone
    <3>1. CASE t = s
      BY <1>1, <1>4, <1>6, <2>4, <3>1
    <3>2. CASE t # s
      BY <1>1, <1>2, <1>3, <2>1, <2>4, <3>2 DEF PeerInv, Busy
    <3> QED
      BY <3>1, <3>2
  <2> QED
    BY <2>3, <2>4
<1> QED
  BY <1>5, <1>6 DEF PeerInv

(* A request ends, with an excuse or with the row displayed, or about to be *)
(* announced by another one.                                                *)
LEMMA EndPeers ==
  ASSUME IInv, NEW r \in Requests, End(r),
         NEW s \in Subjects, req[r].subject = s,
         \A t \in Subjects : t # s => row'[t] = row[t] /\ shown'[t] = shown[t] /\ excuse'[t] = excuse[t],
         Exists(s)' /\ ~excuse'[s] =>
           /\ \/ shown'[s] = row'[s]
              \/ \E q \in Busy(s) \ {r} : req[q].pc \in {"read", "tell"}
           /\ s \notin Groups => \A q \in Busy(s) \ {r} : req[q].alone
  PROVE  PeerInv'
<1> USE DEF IInv
<1>1. req'[r] = Idle /\ \A q \in Requests : q # r => req'[q] = req[q]
  BY EndEffect
<1>2. req'[r].subject = None /\ None \notin Subjects
  BY <1>1, PicturesAssumption DEF Idle
<1>3. \A t \in Subjects : Busy(t)' = Busy(t) \ {r}
  BY <1>1, <1>2 DEF Busy
<1>4. r \in Busy(s) /\ \A t \in Subjects : t # s => r \notin Busy(t)
  BY DEF Busy
<1>5. ASSUME NEW t \in Subjects \ Groups, NEW q \in Busy(t)', req'[q].alone
      PROVE  Busy(t)' = {q} /\ (req'[q].pc = "tell" => req'[q].read = row'[t])
  <2>1. q \in Busy(t) /\ q # r /\ q \in Requests
    BY <1>3 DEF Busy
  <2>2. req'[q] = req[q]
    BY <1>1, <2>1
  <2>3. Busy(t) = {q} /\ (req[q].pc = "tell" => req[q].read = row[t])
    BY <1>5, <2>1, <2>2 DEF PeerInv
  <2>4. t # s
    BY <1>4, <2>1, <2>3
  <2>5. Busy(t)' = {q}
    BY <1>3, <2>1, <2>3
  <2> QED
    BY <2>2, <2>3, <2>4, <2>5
<1>6. ASSUME NEW t \in Subjects, Exists(t)', ~excuse'[t]
      PROVE  /\ t \notin Groups => \A q \in Busy(t)' : req'[q].alone
             /\ shown'[t] = row'[t] \/ \E q \in Busy(t)' : req'[q].pc \in {"read", "tell"}
  <2>1. CASE t = s
    BY <1>1, <1>3, <1>6, <2>1 DEF Busy
  <2>2. CASE t # s
    <3>1. Busy(t)' = Busy(t) /\ Exists(t) /\ ~excuse[t] /\ \A q \in Busy(t) : req'[q] = req[q]
      BY <1>1, <1>3, <1>4, <1>6, <2>2 DEF Exists, Busy
    <3> QED
      BY <2>2, <3>1 DEF PeerInv
  <2> QED
    BY <2>1, <2>2
<1> QED
  BY <1>5, <1>6 DEF PeerInv

(* A request goes on to read the row, or to clean up when it has nothing to *)
(* announce or there is an excuse.                                          *)
LEMMA GotoPeers ==
  ASSUME IInv, NEW r \in Requests, NEW l \in {"read", "cleanup"}, Goto(r, l),
         NEW s \in Subjects, req[r].subject = s,
         \A t \in Subjects : t # s => row'[t] = row[t] /\ excuse'[t] = excuse[t],
         shown' = shown,
         Exists(s)' /\ ~excuse'[s] =>
           /\ Exists(s) /\ ~excuse[s]
           /\ l = "read" \/ (row'[s] = row[s] /\ req[r].pc \notin {"read", "tell"})
  PROVE  PeerInv'
<1> USE DEF IInv
<1>1. /\ \A q \in Requests : q # r => req'[q] = req[q]
      /\ req'[r] = [req[r] EXCEPT !.pc = l]
  BY GotoEffect
<1>2. req[r] \in Request
  BY DEF TypeOK
<1>3. req'[r].pc = l /\ req'[r].alone = req[r].alone /\ req'[r].subject = s
  BY <1>1, <1>2 DEF Request
<1> HIDE DEF IInv
<1>4. \A t \in Subjects : Busy(t)' = Busy(t)
  <2>1. \A q \in Requests : req'[q].subject = req[q].subject
    BY <1>1, <1>3
  <2> QED
    BY <2>1 DEF Busy
<1> USE DEF IInv
<1>5. r \in Busy(s) /\ \A t \in Subjects : t # s => r \notin Busy(t)
  BY DEF Busy
<1>6. ASSUME NEW t \in Subjects \ Groups, NEW q \in Busy(t)', req'[q].alone
      PROVE  Busy(t)' = {q} /\ (req'[q].pc = "tell" => req'[q].read = row'[t])
  <2>1. q \in Busy(t) /\ q \in Requests /\ req[q].alone
    BY <1>1, <1>3, <1>4, <1>6 DEF Busy
  <2>2. Busy(t) = {q} /\ (req[q].pc = "tell" => req[q].read = row[t])
    BY <2>1 DEF PeerInv
  <2>3. CASE q = r
    BY <1>3, <1>4, <2>2, <2>3
  <2>4. CASE q # r
    <3>1. t # s
      BY <1>5, <2>2, <2>4
    <3> QED
      BY <1>1, <1>4, <2>1, <2>2, <2>4, <3>1
  <2> QED
    BY <2>3, <2>4
<1>7. ASSUME NEW t \in Subjects, Exists(t)', ~excuse'[t]
      PROVE  /\ t \notin Groups => \A q \in Busy(t)' : req'[q].alone
             /\ shown'[t] = row'[t] \/ \E q \in Busy(t)' : req'[q].pc \in {"read", "tell"}
  <2>1. Exists(t) /\ ~excuse[t]
    BY <1>7 DEF Exists
  <2>2. t \notin Groups => \A q \in Busy(t) : req[q].alone
    BY <2>1 DEF PeerInv
  <2>3. t \notin Groups => \A q \in Busy(t)' : req'[q].alone
    BY <1>1, <1>3, <1>4, <2>2 DEF Busy
  <2>4. shown[t] = row[t] \/ \E q \in Busy(t) : req[q].pc \in {"read", "tell"}
    BY <2>1 DEF PeerInv
  <2>5. CASE t = s /\ l = "read"
    BY <1>3, <1>4, <1>5, <2>3, <2>5
  <2>6. CASE t # s \/ l # "read"
    <3>1. row'[t] = row[t] /\ \A q \in Busy(t) : req[q].pc \in {"read", "tell"} => q # r
      BY <1>5, <1>7, <2>6
    <3> QED
      BY <1>1, <1>4, <2>3, <2>4, <3>1 DEF Busy
  <2> QED
    BY <2>5, <2>6
<1> QED
  BY <1>6, <1>7 DEF PeerInv

--------------------------------------------------------------------------------
(* Where the pictures are. *)

(* Nothing happens to a picture but that a row loses it, and no request but *)
(* one that has no picture, or is through with its own, changes what it     *)
(* knows of one.                                                            *)
LEMMA SameKeys ==
  ASSUME IInv, TypeOK', objects' = objects,
         \A k \in Keys : mark[k] \subseteq mark'[k],
         \A s \in Subjects, k \in Keys : Shows(s, k)' => Shows(s, k),
         \A s \in Subjects, k \in Keys : Shows(s, k) => Shows(s, k)' \/ "replaced" \in mark'[k],
         \A q \in Requests :
           \/ req'[q].key = req[q].key /\ req'[q].subject = req[q].subject /\ req'[q].pc = req[q].pc
           \/ /\ req[q].key = None /\ req'[q].key = None /\ req'[q].pc # "cleanup"
              /\ IF req'[q].pc = "idle" THEN req'[q].subject = None ELSE req'[q].subject \in Subjects
           \/ /\ req[q].pc \in {"read", "tell"}
              /\ \/ req'[q].key = None /\ req'[q].pc = "idle" /\ req'[q].subject = None
                 \/ /\ req'[q].key = req[q].key /\ req'[q].subject = req[q].subject
                    /\ req'[q].pc = "tell"
  PROVE  PictureInv'
<1> USE DEF IInv, PictureInv
<1>1. \A q \in Requests : req'[q].key = req[q].key \/ req'[q].key = None
  OBVIOUS
<1>2. \A q \in Requests : req'[q].key \in Keys \cup {None} /\ req[q].key \in Keys \cup {None}
  BY DEF TypeOK, Request
<1>3. None \notin Keys /\ None \notin Subjects
  BY PicturesAssumption
<1>4. FreshInv'
  BY <1>1, <1>3 DEF FreshInv
<1>5. RequestInv'
  <2>1. \A q \in Requests : req'[q].pc = "idle" => req'[q].key = None /\ req'[q].subject = None
    BY DEF RequestInv
  <2>2. \A q \in Requests : req'[q].pc # "idle" => req'[q].subject \in Subjects
    BY DEF RequestInv
  <2>3. \A p, q \in Requests : req'[p].key = req'[q].key /\ req'[p].key # None => p = q
    BY <1>1 DEF RequestInv
  <2>4. ASSUME NEW q \in Requests, NEW k \in Keys, req'[q].pc = "write", req'[q].key = k
        PROVE  k \in objects' /\ \A s \in Subjects : ~Shows(s, k)'
    <3>1. req[q].pc = "write" /\ req[q].key = k
      BY <1>3, <2>4
    <3> QED
      BY <3>1 DEF RequestInv
  <2> QED
    BY <2>1, <2>2, <2>3, <2>4 DEF RequestInv
<1>6. CleanupInv'
  <2>1. ASSUME NEW q \in Requests, req'[q].pc = "cleanup"
        PROVE  req[q].pc = "cleanup" /\ req'[q].key = req[q].key /\ req[q].key # None
    BY <2>1 DEF CleanupInv
  <2>2. ASSUME NEW q \in Requests, NEW k \in Keys, NEW s \in Subjects,
               req'[q].pc = "cleanup", req'[q].key = k, Shows(s, k)'
        PROVE  "misreported" \in mark'[k]
    BY <2>1, <2>2 DEF CleanupInv
  <2>3. ASSUME NEW q \in Requests, NEW k \in Keys, NEW s \in Subjects,
               req'[q].pc \in {"read", "tell"}, req'[q].key = k, req'[q].subject = s
        PROVE  Shows(s, k)' \/ "replaced" \in mark'[k]
    <3>1. req[q].pc \in {"read", "tell"} /\ req[q].key = k /\ req[q].subject = s
      BY <1>3, <2>3
    <3>2. Shows(s, k) \/ "replaced" \in mark[k]
      BY <3>1 DEF CleanupInv
    <3> QED
      BY <3>2
  <2> QED
    BY <2>1, <2>2, <2>3 DEF CleanupInv
<1>7. DanglesOnlyIfMisreported'
  BY DEF DanglesOnlyIfMisreported, Shows
<1>8. OrphansHaveAReason'
  <2> SUFFICES ASSUME NEW k \in objects
               PROVE  \/ \E s \in Subjects : Shows(s, k)'
                      \/ \E q \in Requests : req'[q].key = k
                      \/ mark'[k] \cap {"replaced", "interrupted"} # {}
    BY DEF OrphansHaveAReason, Shows
  <2>1. k \in Keys
    BY DEF TypeOK
  <2>2. CASE \E s \in Subjects : Shows(s, k)
    BY <2>1, <2>2
  <2>3. CASE mark[k] \cap {"replaced", "interrupted"} # {}
    BY <2>1, <2>3
  <2>4. ASSUME NEW q \in Requests, req[q].key = k
        PROVE  \/ \E s \in Subjects : Shows(s, k)'
               \/ \E p \in Requests : req'[p].key = k
               \/ mark'[k] \cap {"replaced", "interrupted"} # {}
    <3>1. CASE req'[q].key = k
      BY <3>1
    <3>2. CASE req'[q].key # k
      <4>1. req[q].pc \in {"read", "tell"} /\ req[q].subject \in Subjects
        BY <1>3, <2>1, <2>4, <3>2 DEF RequestInv
      <4>2. Shows(req[q].subject, k) \/ "replaced" \in mark[k]
        BY <1>3, <2>1, <2>4, <4>1 DEF CleanupInv
      <4> QED
        BY <2>1, <4>1, <4>2
    <3> QED
      BY <3>1, <3>2
  <2> QED
    BY <2>2, <2>3, <2>4 DEF OrphansHaveAReason, Shows
<1> QED
  BY <1>4, <1>5, <1>6, <1>7, <1>8

(* A request with a picture writes the row, or takes the write for failed. *)
LEMMA GoesOn ==
  ASSUME IInv, TypeOK', NEW r \in Requests, NEW k \in Keys, NEW s \in Subjects,
         NEW l \in {"read", "cleanup"},
         req[r].key = k, req[r].subject = s, Goto(r, l), objects' = objects,
         \A x \in Keys : mark[x] \subseteq mark'[x],
         \A t \in Subjects, x \in Keys : Shows(t, x)' => Shows(t, x) \/ (x = k /\ k \in objects),
         \A t \in Subjects, x \in Keys : Shows(t, x) => Shows(t, x)' \/ "replaced" \in mark'[x],
         l = "read" => Shows(s, k)',
         l = "cleanup" => \A t \in Subjects : Shows(t, k)' => "misreported" \in mark'[k]
  PROVE  PictureInv'
<1> USE DEF IInv, PictureInv
<1>1. /\ \A q \in Requests : q # r => req'[q] = req[q]
      /\ req'[r] = [req[r] EXCEPT !.pc = l]
  BY GotoEffect
<1>2. req[r] \in Request
  BY DEF TypeOK
<1>3. req'[r].pc = l /\ req'[r].key = k /\ req'[r].subject = s
  BY <1>1, <1>2 DEF Request
<1>4. None \notin Keys
  BY PicturesAssumption
<1>5. \A q \in Requests : req'[q].key = req[q].key /\ req'[q].subject = req[q].subject
  BY <1>1, <1>3
<1>6. \A q \in Requests : q # r => req[q].key # k
  BY <1>4 DEF RequestInv
<1>7. FreshInv'
  BY <1>3, <1>5 DEF FreshInv
<1>8. RequestInv'
  <2>1. \A q \in Requests : req'[q].pc = "idle" => req'[q].key = None /\ req'[q].subject = None
    BY <1>1, <1>3 DEF RequestInv
  <2>2. \A q \in Requests : req'[q].pc # "idle" => req'[q].subject \in Subjects
    BY <1>1, <1>3 DEF RequestInv
  <2>3. \A p, q \in Requests : req'[p].key = req'[q].key /\ req'[p].key # None => p = q
    BY <1>5 DEF RequestInv
  <2>4. ASSUME NEW q \in Requests, NEW x \in Keys, req'[q].pc = "write", req'[q].key = x
        PROVE  x \in objects' /\ \A t \in Subjects : ~Shows(t, x)'
    <3>1. q # r
      BY <1>3, <2>4
    <3>2. req[q].pc = "write" /\ req[q].key = x /\ x # k
      BY <1>1, <1>6, <2>4, <3>1
    <3> QED
      BY <3>2 DEF RequestInv
  <2> QED
    BY <2>1, <2>2, <2>3, <2>4 DEF RequestInv
<1>9. CleanupInv'
  <2>1. \A q \in Requests : req'[q].pc = "cleanup" => req'[q].key # None
    BY <1>1, <1>3, <1>4 DEF CleanupInv
  <2>2. ASSUME NEW q \in Requests, NEW x \in Keys, NEW t \in Subjects,
               req'[q].pc = "cleanup", req'[q].key = x, Shows(t, x)'
        PROVE  "misreported" \in mark'[x]
    <3>1. CASE q = r
      BY <1>3, <2>2, <3>1
    <3>2. CASE q # r
      <4>1. req[q].pc = "cleanup" /\ req[q].key = x /\ x # k
        BY <1>1, <1>6, <2>2, <3>2
      <4> QED
        BY <2>2, <4>1 DEF CleanupInv
    <3> QED
      BY <3>1, <3>2
  <2>3. ASSUME NEW q \in Requests, NEW x \in Keys, NEW t \in Subjects,
               req'[q].pc \in {"read", "tell"}, req'[q].key = x, req'[q].subject = t
        PROVE  Shows(t, x)' \/ "replaced" \in mark'[x]
    <3>1. CASE q = r
      BY <1>3, <2>3, <3>1
    <3>2. CASE q # r
      <4>1. req[q].pc \in {"read", "tell"} /\ req[q].key = x /\ req[q].subject = t
        BY <1>1, <2>3, <3>2
      <4>2. Shows(t, x) \/ "replaced" \in mark[x]
        BY <4>1 DEF CleanupInv
      <4> QED
        BY <4>2
    <3> QED
      BY <3>1, <3>2
  <2> QED
    BY <2>1, <2>2, <2>3 DEF CleanupInv
<1>10. DanglesOnlyIfMisreported'
  BY DEF DanglesOnlyIfMisreported, Shows
<1>11. OrphansHaveAReason'
  <2> SUFFICES ASSUME NEW x \in objects
               PROVE  \/ \E t \in Subjects : Shows(t, x)'
                      \/ \E q \in Requests : req'[q].key = x
                      \/ mark'[x] \cap {"replaced", "interrupted"} # {}
    BY DEF OrphansHaveAReason, Shows
  <2>1. x \in Keys
    BY DEF TypeOK
  <2>2. \/ \E t \in Subjects : Shows(t, x)
        \/ \E q \in Requests : req[q].key = x
        \/ mark[x] \cap {"replaced", "interrupted"} # {}
    BY DEF OrphansHaveAReason, Shows
  <2> QED
    BY <1>5, <2>1, <2>2
<1> QED
  BY <1>7, <1>8, <1>9, <1>10, <1>11

(* A picture is stored under a fresh key, for a request that begins with it *)
(* or for none.                                                             *)
LEMMA Stored ==
  ASSUME IInv, TypeOK', NEW r \in Requests, NEW k \in Keys, mark[k] = {}, NEW m \in Mark,
         row' = row, objects' = objects \cup {k}, mark' = Marked(k, m),
         \A q \in Requests : q # r =>
           req'[q].key = req[q].key /\ req'[q].subject = req[q].subject /\ req'[q].pc = req[q].pc,
         \/ /\ req[r].pc = "idle" /\ req'[r].pc = "write"
            /\ req'[r].key = k /\ req'[r].subject \in Subjects
         \/ req' = req /\ m = "interrupted"
  PROVE  PictureInv'
<1> USE DEF IInv, PictureInv
<1>1. None \notin Keys
  BY PicturesAssumption
<1>2. \A x \in Keys : mark'[x] = IF x = k THEN mark[x] \cup {m} ELSE mark[x]
  BY DEF Marked, TypeOK
<1>3. \A t \in Subjects, x \in Keys : Shows(t, x)' <=> Shows(t, x)
  BY DEF Shows, Exists
<1>4. (\A q \in Requests : req[q].key # k) /\ \A t \in Subjects : ~Shows(t, k)
  BY DEF FreshInv
<1>5. FreshInv'
  <2> SUFFICES ASSUME NEW x \in Keys, mark'[x] = {}
               PROVE  /\ x \notin objects'
                      /\ \A q \in Requests : req'[q].key # x
                      /\ \A t \in Subjects : ~Shows(t, x)'
    BY DEF FreshInv
  <2>1. x # k /\ mark[x] = {}
    BY <1>2
  <2>2. x \notin objects /\ (\A q \in Requests : req[q].key # x) /\ \A t \in Subjects : ~Shows(t, x)
    BY <2>1 DEF FreshInv
  <2>3. \A q \in Requests : req'[q].key = req[q].key \/ req'[q].key = k
    OBVIOUS
  <2> QED
    BY <1>3, <2>1, <2>2, <2>3
<1>6. RequestInv'
  <2>1. \A q \in Requests : req'[q].pc = "idle" => req'[q].key = None /\ req'[q].subject = None
    BY DEF RequestInv
  <2>2. \A q \in Requests : req'[q].pc # "idle" => req'[q].subject \in Subjects
    BY DEF RequestInv
  <2>3. \A p, q \in Requests : req'[p].key = req'[q].key /\ req'[p].key # None => p = q
    BY <1>4 DEF RequestInv
  <2>4. ASSUME NEW q \in Requests, NEW x \in Keys, req'[q].pc = "write", req'[q].key = x
        PROVE  x \in objects' /\ \A t \in Subjects : ~Shows(t, x)'
    <3>1. (x = k) \/ (req[q].pc = "write" /\ req[q].key = x)
      BY <2>4
    <3> QED
      BY <1>3, <1>4, <3>1 DEF RequestInv
  <2> QED
    BY <2>1, <2>2, <2>3, <2>4 DEF RequestInv
<1>7. CleanupInv'
  <2>1. \A q \in Requests : req'[q].pc # "write" =>
          req'[q].key = req[q].key /\ req'[q].subject = req[q].subject /\ req'[q].pc = req[q].pc
    OBVIOUS
  <2>2. \A x \in Keys : mark[x] \subseteq mark'[x]
    BY <1>2
  <2> HIDE DEF IInv
  <2>3. CleanupInv
    BY DEF IInv
  <2>4. ASSUME NEW q \in Requests, req'[q].pc # "write"
        PROVE  /\ req'[q].pc = "cleanup" => req'[q].key # None
               /\ \A x \in Keys, t \in Subjects :
                    req'[q].pc = "cleanup" /\ req'[q].key = x /\ Shows(t, x)' => "misreported" \in mark'[x]
               /\ \A x \in Keys, t \in Subjects :
                    req'[q].pc \in {"read", "tell"} /\ req'[q].key = x /\ req'[q].subject = t =>
                      Shows(t, x)' \/ "replaced" \in mark'[x]
    BY <1>3, <2>1, <2>2, <2>3, <2>4 DEF CleanupInv
  <2> QED
    BY <2>4 DEF CleanupInv
<1>8. DanglesOnlyIfMisreported'
  BY <1>2 DEF DanglesOnlyIfMisreported, Exists
<1>9. OrphansHaveAReason'
  <2> SUFFICES ASSUME NEW x \in objects \cup {k}
               PROVE  \/ \E t \in Subjects : Shows(t, x)'
                      \/ \E q \in Requests : req'[q].key = x
                      \/ mark'[x] \cap {"replaced", "interrupted"} # {}
    BY DEF OrphansHaveAReason, Shows
  <2>1. CASE x = k
    BY <1>2, <2>1
  <2>2. CASE x # k
    <3>1. x \in Keys /\ x \in objects
      BY <2>2 DEF TypeOK
    <3>2. \/ \E t \in Subjects : Shows(t, x)
          \/ \E q \in Requests : req[q].key = x
          \/ mark[x] \cap {"replaced", "interrupted"} # {}
      BY <3>1 DEF OrphansHaveAReason, Shows
    <3>3. \A q \in Requests : req[q].key = x => req'[q].key = x
      BY <1>1, <3>1 DEF RequestInv
    <3> QED
      BY <1>2, <1>3, <3>1, <3>2, <3>3
  <2> QED
    BY <2>1, <2>2
<1> QED
  BY <1>5, <1>6, <1>7, <1>8, <1>9

(* A request deletes its picture, or fails to. *)
LEMMA CleanedUp ==
  ASSUME IInv, TypeOK', NEW r \in Requests, Cleanup(r)
  PROVE  PictureInv'
<1> USE DEF IInv, PictureInv
<1>1. req'[r] = Idle /\ \A q \in Requests : q # r => req'[q] = req[q]
  BY EndEffect DEF Cleanup
<1>2. None \notin Keys
  BY PicturesAssumption
<1>3. PICK k \in Keys : req[r].key = k
  BY DEF CleanupInv, Cleanup, TypeOK, Request
<1>4. /\ \A x \in Keys : mark[x] \subseteq mark'[x]
      /\ objects' \subseteq objects /\ objects \subseteq objects' \cup {k}
      /\ k \in objects' => "interrupted" \in mark'[k]
  BY <1>3 DEF Cleanup, Marked, TypeOK
<1>5. \A t \in Subjects, x \in Keys : Shows(t, x)' <=> Shows(t, x)
  BY DEF Cleanup, Shows, Exists
<1>6. \A q \in Requests : req'[q] = req[q] \/ (req'[q].key = None /\ req'[q].pc = "idle" /\ req'[q].subject = None)
  BY <1>1 DEF Idle
<1>7. FreshInv'
  BY <1>2, <1>4, <1>5, <1>6 DEF FreshInv
<1>8. RequestInv'
  <2>1. \A p, q \in Requests : req'[p].key = req'[q].key /\ req'[p].key # None => p = q
    BY <1>6 DEF RequestInv
  <2>2. \A q \in Requests : /\ req'[q].pc = "idle" => req'[q].key = None /\ req'[q].subject = None
                            /\ req'[q].pc # "idle" => req'[q].subject \in Subjects
    BY <1>6 DEF RequestInv
  <2>3. ASSUME NEW q \in Requests, NEW x \in Keys, req'[q].pc = "write", req'[q].key = x
        PROVE  x \in objects' /\ \A t \in Subjects : ~Shows(t, x)'
    <3>1. req[q].pc = "write" /\ req[q].key = x /\ q # r
      BY <1>6, <2>3 DEF Cleanup
    <3>2. x # k
      BY <1>2, <1>3, <3>1 DEF RequestInv
    <3> QED
      BY <1>4, <1>5, <3>1, <3>2 DEF RequestInv
  <2> QED
    BY <2>1, <2>2, <2>3 DEF RequestInv
<1>9. CleanupInv'
  BY <1>2, <1>4, <1>5, <1>6 DEF CleanupInv
<1>10. DanglesOnlyIfMisreported'
  <2> SUFFICES ASSUME NEW t \in Subjects, NEW x \in Keys \ objects', Shows(t, x)'
               PROVE  "misreported" \in mark'[x]
    BY DEF DanglesOnlyIfMisreported, Shows
  <2>1. CASE x = k
    BY <1>3, <1>4, <1>5, <2>1 DEF CleanupInv, Cleanup
  <2>2. CASE x # k
    BY <1>4, <1>5, <2>2 DEF DanglesOnlyIfMisreported, Shows
  <2> QED
    BY <2>1, <2>2
<1>11. OrphansHaveAReason'
  <2> SUFFICES ASSUME NEW x \in objects'
               PROVE  \/ \E t \in Subjects : Shows(t, x)'
                      \/ \E q \in Requests : req'[q].key = x
                      \/ mark'[x] \cap {"replaced", "interrupted"} # {}
    BY DEF OrphansHaveAReason, Shows
  <2>1. x \in Keys /\ x \in objects
    BY <1>4 DEF TypeOK
  <2>2. CASE x = k
    BY <1>4, <2>2
  <2>3. CASE x # k
    <3>1. \/ \E t \in Subjects : Shows(t, x)
          \/ \E q \in Requests : req[q].key = x
          \/ mark[x] \cap {"replaced", "interrupted"} # {}
      BY <2>1 DEF OrphansHaveAReason, Shows
    <3> QED
      BY <1>1, <1>3, <1>4, <1>5, <2>1, <2>3, <3>1
  <2> QED
    BY <2>2, <2>3
<1> QED
  BY <1>7, <1>8, <1>9, <1>10, <1>11

(* A crash ends every request and interrupts what it was to do. *)
LEMMA CrashStep ==
  ASSUME IInv, Crash
  PROVE  IInv'
<1> USE DEF IInv, PictureInv
<1>1. \A q \in Requests : req'[q] = Idle
  BY DEF Crash
<1>2. \A q \in Requests : req'[q].key = None /\ req'[q].subject = None /\ req'[q].pc = "idle"
  BY <1>1 DEF Idle
<1>3. None \notin Keys /\ None \notin Subjects
  BY PicturesAssumption
<1>4. /\ \A k \in Keys : mark[k] \subseteq mark'[k]
      /\ \A k \in Keys, q \in Requests : req[q].key = k => "interrupted" \in mark'[k]
  BY DEF Crash
<1>5. objects' = objects /\ row' = row /\ shown' = shown
  BY DEF Crash
<1>6. TypeOK'
  <2>1. Idle \in Request
    BY DEF Idle, Request, Profile, NoProfile
  <2>2. mark' \in [Keys -> SUBSET Mark]
    BY DEF Crash, TypeOK, Mark
  <2>3. excuse' \in [Subjects -> BOOLEAN]
    BY DEF Crash, TypeOK
  <2>4. req' \in [Requests -> Request]
    BY <2>1 DEF Crash
  <2> QED
    BY <1>5, <2>2, <2>3, <2>4 DEF TypeOK
<1>7. \A t \in Subjects, k \in Keys : Shows(t, k)' <=> Shows(t, k)
  BY <1>5 DEF Shows, Exists
<1>8. FreshInv'
  BY <1>2, <1>3, <1>4, <1>5, <1>7 DEF FreshInv
<1>9. RequestInv' /\ CleanupInv'
  BY <1>2, <1>3 DEF RequestInv, CleanupInv
<1>10. DanglesOnlyIfMisreported'
  BY <1>4, <1>5 DEF DanglesOnlyIfMisreported, Exists
<1>11. OrphansHaveAReason'
  <2> SUFFICES ASSUME NEW x \in objects
               PROVE  \/ \E t \in Subjects : Shows(t, x)'
                      \/ mark'[x] \cap {"replaced", "interrupted"} # {}
    BY <1>5 DEF OrphansHaveAReason, Shows
  <2>1. x \in Keys
    BY DEF TypeOK
  <2>2. \/ \E t \in Subjects : Shows(t, x)
        \/ \E q \in Requests : req[q].key = x
        \/ mark[x] \cap {"replaced", "interrupted"} # {}
    BY DEF OrphansHaveAReason, Shows
  <2> QED
    BY <1>4, <1>7, <2>1, <2>2
<1>12. PeerInv'
  <2>1. \A t \in Subjects : Busy(t)' = {}
    BY <1>2, <1>3 DEF Busy
  <2>2. ASSUME NEW t \in Subjects, Exists(t)', ~excuse'[t] PROVE shown'[t] = row'[t]
    <3>1. ~excuse[t] /\ Busy(t) = {} /\ Exists(t)
      BY <1>5, <2>2 DEF Crash, Exists
    <3> QED
      BY <1>5, <3>1 DEF PeerInv
  <2> QED
    BY <2>1, <2>2 DEF PeerInv
<1> QED
  BY <1>6, <1>8, <1>9, <1>10, <1>11, <1>12

--------------------------------------------------------------------------------
(* The actions. *)

LEMMA BusyHasSubject ==
  ASSUME IInv, NEW r \in Requests, req[r].pc # "idle"
  PROVE  req[r].subject \in Subjects /\ req[r] \in Request
  BY DEF IInv, PictureInv, RequestInv, TypeOK

(* What the row shows after a write, and what it no longer shows. *)
LEMMA WrittenEffect ==
  ASSUME IInv, NEW r \in Requests, NEW s \in Subjects, NEW m \in SUBSET Mark,
         req[r].subject = s, Exists(s),
         Set(s, Written(req[r]), Written(req[r]).url, m)
  PROVE  /\ row' \in [Subjects -> Profile \cup {None}] /\ mark' \in [Keys -> SUBSET Mark]
         /\ \A t \in Subjects : t # s => row'[t] = row[t]
         /\ \A x \in Keys : mark[x] \subseteq mark'[x]
         /\ \A t \in Subjects, x \in Keys : Shows(t, x)' => Shows(t, x) \/ (x = req[r].key /\ t = s)
         /\ \A t \in Subjects, x \in Keys : Shows(t, x) => Shows(t, x)' \/ "replaced" \in mark'[x]
         /\ \A k \in Keys : req[r].key = k => Shows(s, k)' /\ m \subseteq mark'[k]
<1> USE DEF IInv
<1> DEFINE p == Written(req[r])
<1>1. req[r] \in Request /\ row[s] \in Profile
  BY DEF TypeOK, Exists
<1>2. p \in Profile /\ p.url = IF req[r].key = None THEN row[s].url ELSE req[r].key
  BY <1>1, PicturesAssumption DEF Written, Profile, Request
<1>3. Set(s, p, p.url, m) /\ p \in Profile \cup {None}
  BY <1>2
<1> HIDE DEF p
<1>4. /\ row' \in [Subjects -> Profile \cup {None}]
      /\ \A t \in Subjects : row'[t] = IF t = s THEN p ELSE row[t]
      /\ mark' \in [Keys -> SUBSET Mark]
      /\ \A x \in Keys : mark[x] \subseteq mark'[x]
      /\ \A x \in Keys : Shows(s, x) /\ x # p.url => "replaced" \in mark'[x]
      /\ p.url \in Keys => m \subseteq mark'[p.url]
  BY <1>3, SetEffect
<1>5. Exists(s)' /\ \A t \in Subjects : t # s => (Exists(t)' <=> Exists(t))
  <2>1. p # None
    BY <1>2, PicturesAssumption
  <2> QED
    BY <1>4, <2>1 DEF Exists
<1>6. \A t \in Subjects, x \in Keys : Shows(t, x)' <=> IF t = s THEN p.url = x ELSE Shows(t, x)
  BY <1>4, <1>5 DEF Shows
<1>7. None \notin Keys
  BY PicturesAssumption
<1>8. \A x \in Keys : Shows(s, x) <=> row[s].url = x
  BY DEF Shows
<1> QED
  BY <1>2, <1>4, <1>6, <1>7, <1>8

LEMMA UploadStep ==
  ASSUME IInv, NEW r \in Requests, NEW s \in Subjects, NEW k \in Keys, Upload(r, s, k)
  PROVE  IInv'
<1> USE DEF IInv
<1> DEFINE start == [Idle EXCEPT !.key = k]
<1>1. start \in Request /\ start.key = k
  BY DEF Idle, Request, Profile, NoProfile
<1>2. PICK m \in {"used", "interrupted"} :
        /\ objects' = objects \cup {k} /\ mark' = Marked(k, m)
        /\ \/ Begin(r, s, start)
           \/ m = "interrupted" /\ req[r].pc = "idle" /\ Exists(s) /\ req' = req /\ excuse' = excuse
  BY DEF Upload
<1>3. row' = row /\ shown' = shown /\ mark[k] = {}
  BY DEF Upload
<1>4. mark' \in [Keys -> SUBSET Mark] /\ m \in Mark
  BY <1>2 DEF Marked, TypeOK, Mark
<1> HIDE DEF start
<1>5. CASE Begin(r, s, start)
  <2>1. /\ req[r].pc = "idle" /\ Exists(s)
        /\ req' \in [Requests -> Request]
        /\ req'[r].pc = "write" /\ req'[r].subject = s /\ req'[r].key = k
        /\ \A q \in Requests : q # r =>
             req'[q].pc = req[q].pc /\ req'[q].subject = req[q].subject /\ req'[q].key = req[q].key
        /\ excuse' \in [Subjects -> BOOLEAN]
    BY <1>1, <1>5, BeginEffect
  <2>2. TypeOK'
    BY <1>2, <1>3, <1>4, <2>1 DEF TypeOK
  <2>3. PictureInv'
    BY <1>2, <1>3, <1>4, <2>1, <2>2, Stored
  <2>4. PeerInv'
    BY <1>1, <1>3, <1>5, BeginPeers
  <2> QED
    BY <2>2, <2>3, <2>4
<1>6. CASE m = "interrupted" /\ req' = req /\ excuse' = excuse
  <2>1. TypeOK'
    BY <1>2, <1>3, <1>4, <1>6 DEF TypeOK
  <2>2. PictureInv'
    BY <1>2, <1>3, <1>4, <1>6, <2>1, Stored
  <2>3. PeerInv'
    BY <1>3, <1>6 DEF PeerInv, Busy, Exists
  <2> QED
    BY <2>1, <2>2, <2>3
<1> QED
  BY <1>2, <1>5, <1>6

LEMMA RenameStep ==
  ASSUME IInv, NEW r \in Requests, NEW s \in Subjects, NEW n \in Names, Rename(r, s, n)
  PROVE  IInv'
<1> USE DEF IInv
<1> DEFINE start == [Idle EXCEPT !.name = n]
<1>1. start \in Request /\ start.key = None
  BY DEF Idle, Request, Profile, NoProfile
<1>2. Begin(r, s, start) /\ UNCHANGED <<row, objects, shown, mark>>
  BY DEF Rename
<1> HIDE DEF start
<1>3. /\ req[r].pc = "idle" /\ Exists(s)
      /\ req' \in [Requests -> Request]
      /\ req'[r].pc = "write" /\ req'[r].subject = s /\ req'[r].key = None
      /\ \A q \in Requests : q # r =>
           req'[q].pc = req[q].pc /\ req'[q].subject = req[q].subject /\ req'[q].key = req[q].key
      /\ excuse' \in [Subjects -> BOOLEAN]
  BY <1>1, <1>2, BeginEffect
<1>4. TypeOK'
  BY <1>2, <1>3 DEF TypeOK
<1>5. req[r].key = None
  BY <1>3 DEF PictureInv, RequestInv
<1>6. \A t \in Subjects, x \in Keys : Shows(t, x)' <=> Shows(t, x)
  BY <1>2 DEF Shows, Exists
<1>7. PictureInv'
  BY <1>2, <1>3, <1>4, <1>5, <1>6, SameKeys
<1>8. PeerInv'
  BY <1>1, <1>2, BeginPeers
<1> QED
  BY <1>4, <1>7, <1>8

LEMMA WriteStep ==
  ASSUME IInv, NEW r \in Requests, Write(r)
  PROVE  IInv'
<1>1. PICK s \in Subjects : req[r].subject = s
  BY BusyHasSubject DEF Write
<1>2. req[r] \in Request /\ req[r].pc = "write" /\ Exists(s)
  BY <1>1, BusyHasSubject DEF Write
<1>3. /\ Set(s, Written(req[r]), Written(req[r]).url, {})
      /\ Goto(r, "read") /\ objects' = objects /\ shown' = shown /\ excuse' = excuse
  BY <1>1 DEF Write
<1>4. /\ row' \in [Subjects -> Profile \cup {None}] /\ mark' \in [Keys -> SUBSET Mark]
      /\ \A t \in Subjects : t # s => row'[t] = row[t]
      /\ \A x \in Keys : mark[x] \subseteq mark'[x]
      /\ \A t \in Subjects, x \in Keys : Shows(t, x)' => Shows(t, x) \/ (x = req[r].key /\ t = s)
      /\ \A t \in Subjects, x \in Keys : Shows(t, x) => Shows(t, x)' \/ "replaced" \in mark'[x]
      /\ \A k \in Keys : req[r].key = k => Shows(s, k)'
  <2>1. {} \in SUBSET Mark
    OBVIOUS
  <2>2. req[r].subject = s /\ Exists(s) /\ Set(s, Written(req[r]), Written(req[r]).url, {})
    BY <1>1, <1>2, <1>3
  <2>3. /\ row' \in [Subjects -> Profile \cup {None}] /\ mark' \in [Keys -> SUBSET Mark]
        /\ \A t \in Subjects : t # s => row'[t] = row[t]
        /\ \A x \in Keys : mark[x] \subseteq mark'[x]
    BY ONLY IInv, r \in Requests, s \in Subjects, {} \in SUBSET Mark, <2>2, WrittenEffect
  <2>4. \A t \in Subjects, x \in Keys :
          Shows(t, x)' => Shows(t, x) \/ (x = req[r].key /\ t = s)
    BY ONLY IInv, r \in Requests, s \in Subjects, {} \in SUBSET Mark, <2>2, WrittenEffect
  <2>5. \A t \in Subjects, x \in Keys :
          Shows(t, x) => Shows(t, x)' \/ "replaced" \in mark'[x]
    BY ONLY IInv, r \in Requests, s \in Subjects, {} \in SUBSET Mark, <2>2, WrittenEffect
  <2>6. \A k \in Keys : req[r].key = k => Shows(s, k)'
    BY ONLY IInv, r \in Requests, s \in Subjects, {} \in SUBSET Mark, <2>2, WrittenEffect
  <2> QED
    BY <2>3, <2>4, <2>5, <2>6
<1>5. /\ TypeOK
      /\ req' \in [Requests -> Request]
      /\ req'[r] = [req[r] EXCEPT !.pc = "read"]
      /\ \A q \in Requests : q # r => req'[q] = req[q]
  BY <1>3, GotoEffect DEF IInv
<1>6. TypeOK'
  BY <1>3, <1>4, <1>5 DEF TypeOK, IInv
<1>7. PictureInv'
  <2>1. CASE req[r].key = None
    <3>1. req'[r].pc = "read" /\ req'[r].key = None /\ req'[r].subject \in Subjects
      BY <1>2, <1>1, <1>5, <2>1 DEF Request
    <3>2. \A t \in Subjects, x \in Keys : Shows(t, x)' => Shows(t, x)
      BY <1>4, <2>1, PicturesAssumption
    <3> QED
      BY <1>3, <1>4, <1>5, <1>6, <2>1, <3>1, <3>2, SameKeys
  <2>2. ASSUME NEW k \in Keys, req[r].key = k PROVE PictureInv'
    <3>1. k \in objects
      BY <1>2, <2>2 DEF PictureInv, RequestInv, IInv
    <3>2. \A t \in Subjects, x \in Keys : Shows(t, x)' => Shows(t, x) \/ (x = k /\ k \in objects)
      BY <1>4, <2>2, <3>1
    <3>3. Shows(s, k)'
      BY <1>4, <2>2
    <3> QED
      BY <1>2, <1>3, <1>1, <1>4, <1>6, <2>2, <3>2, <3>3, GoesOn
  <2> QED
    BY <1>2, <2>1, <2>2 DEF Request
<1>8. Exists(s)' => Exists(s)
  BY <1>2
<1>9. PeerInv'
  BY <1>2, <1>3, <1>1, <1>4, <1>8, GotoPeers
<1> QED
  BY <1>6, <1>7, <1>9 DEF IInv

(* A request without a picture, or through with its own, ends. *)
LEMMA EndPictures ==
  ASSUME IInv, NEW r \in Requests, End(r), req[r].key = None \/ req[r].pc \in {"read", "tell"},
         objects' = objects, row' = row, mark' = mark,
         shown' \in [Subjects -> Profile], excuse' \in [Subjects -> BOOLEAN]
  PROVE  TypeOK' /\ PictureInv'
<1>1. TypeOK
  BY DEF IInv
<1>2. /\ req' \in [Requests -> Request] /\ req'[r] = Idle
      /\ \A q \in Requests : q # r => req'[q] = req[q]
  BY <1>1, EndEffect
<1>3. req'[r].key = None /\ req'[r].pc = "idle" /\ req'[r].subject = None
  BY <1>2 DEF Idle
<1>4. TypeOK'
  BY <1>1, <1>2 DEF TypeOK
<1>5. \A t \in Subjects, x \in Keys : Shows(t, x)' <=> Shows(t, x)
  BY DEF Shows, Exists
<1> QED
  BY <1>2, <1>3, <1>4, <1>5, SameKeys

(* What a request in the middle of its work means for the peers' view: the  *)
(* excuse, or the row displayed, or another request about to announce it.   *)
LEMMA OthersAnnounce ==
  ASSUME IInv, NEW r \in Requests, NEW s \in Subjects, req[r].subject = s,
         req[r].pc \in {"write", "cleanup"}, Exists(s), ~excuse[s]
  PROVE  /\ \/ shown[s] = row[s]
            \/ \E q \in Busy(s) \ {r} : req[q].pc \in {"read", "tell"}
         /\ s \notin Groups => \A q \in Busy(s) \ {r} : req[q].alone
<1>1. shown[s] = row[s] \/ \E q \in Busy(s) : req[q].pc \in {"read", "tell"}
  BY DEF IInv, PeerInv
<1>2. s \notin Groups => \A q \in Busy(s) : req[q].alone
  BY DEF IInv, PeerInv
<1> QED
  BY <1>1, <1>2

LEMMA WriteErrorStep ==
  ASSUME IInv, NEW r \in Requests, WriteError(r)
  PROVE  IInv'
<1>1. PICK s \in Subjects : req[r].subject = s
  BY BusyHasSubject DEF WriteError
<1>2. /\ TypeOK /\ req[r] \in Request /\ req[r].pc = "write"
      /\ UNCHANGED <<row, objects, shown, mark, excuse>>
  BY DEF WriteError, IInv, TypeOK
<1>3. \A t \in Subjects, x \in Keys : Shows(t, x)' <=> Shows(t, x)
  BY <1>2 DEF Shows, Exists
<1>4. CASE req[r].key = None
  <2>1. End(r)
    BY <1>4 DEF WriteError, GiveUp, AfterError
  <2>2. TypeOK' /\ PictureInv'
    BY <1>2, <1>4, <2>1, EndPictures DEF TypeOK
  <2>3. Exists(s)' /\ ~excuse'[s] =>
          /\ \/ shown'[s] = row'[s]
             \/ \E q \in Busy(s) \ {r} : req[q].pc \in {"read", "tell"}
          /\ s \notin Groups => \A q \in Busy(s) \ {r} : req[q].alone
    BY <1>1, <1>2, OthersAnnounce DEF Exists
  <2>4. PeerInv'
    BY <1>1, <1>2, <2>1, <2>3, EndPeers
  <2> QED
    BY <2>2, <2>4 DEF IInv
<1>5. ASSUME NEW k \in Keys, req[r].key = k PROVE IInv'
  <2>1. Goto(r, "cleanup")
    BY <1>5, PicturesAssumption DEF WriteError, GiveUp, AfterError
  <2>2. TypeOK'
    BY <1>2, <2>1, GotoEffect DEF TypeOK
  <2>3. \A t \in Subjects : ~Shows(t, k)
    BY <1>2, <1>5 DEF IInv, PictureInv, RequestInv
  <2>4. PictureInv'
    BY <1>1, <1>2, <1>3, <1>5, <2>1, <2>2, <2>3, GoesOn
  <2>5. Exists(s)' /\ ~excuse'[s] => Exists(s) /\ ~excuse[s]
    BY <1>2 DEF Exists
  <2>6. PeerInv'
    BY <1>1, <1>2, <2>1, <2>5, GotoPeers
  <2> QED
    BY <2>2, <2>4, <2>6 DEF IInv
<1> QED
  BY <1>2, <1>4, <1>5 DEF Request

LEMMA WriteAnswerLostStep ==
  ASSUME IInv, NEW r \in Requests, WriteAnswerLost(r)
  PROVE  IInv'
<1> DEFINE m == IF req[r].key = None THEN {} ELSE {"misreported"}
<1>1. PICK s \in Subjects : req[r].subject = s
  BY BusyHasSubject DEF WriteAnswerLost
<1>2. TypeOK /\ req[r] \in Request /\ req[r].pc = "write" /\ Exists(s)
  BY <1>1 DEF WriteAnswerLost, IInv, TypeOK
<1>3. /\ Set(s, Written(req[r]), Written(req[r]).url, m)
      /\ objects' = objects /\ shown' = shown
      /\ excuse' = [excuse EXCEPT ![s] = TRUE] /\ GiveUp(r)
  BY <1>1 DEF WriteAnswerLost
<1>4. /\ row' \in [Subjects -> Profile \cup {None}] /\ mark' \in [Keys -> SUBSET Mark]
      /\ \A t \in Subjects : t # s => row'[t] = row[t]
      /\ \A x \in Keys : mark[x] \subseteq mark'[x]
      /\ \A t \in Subjects, x \in Keys : Shows(t, x)' => Shows(t, x) \/ (x = req[r].key /\ t = s)
      /\ \A t \in Subjects, x \in Keys : Shows(t, x) => Shows(t, x)' \/ "replaced" \in mark'[x]
      /\ \A k \in Keys : req[r].key = k => "misreported" \in mark'[k]
  <2>1. {} \in SUBSET Mark /\ {"misreported"} \in SUBSET Mark /\ None \notin Keys
    BY PicturesAssumption DEF Mark
  <2>2. CASE req[r].key = None
    <3>1. m = {} /\ Set(s, Written(req[r]), Written(req[r]).url, {})
      BY <1>3, <2>2
    <3>2. \A k \in Keys : req[r].key # k
      BY <2>1, <2>2
    <3> HIDE DEF m
    <3>3. req[r].subject = s /\ Exists(s) /\ Set(s, Written(req[r]), Written(req[r]).url, {})
      BY <1>1, <1>2, <3>1
    <3>4. /\ row' \in [Subjects -> Profile \cup {None}] /\ mark' \in [Keys -> SUBSET Mark]
          /\ \A t \in Subjects : t # s => row'[t] = row[t]
          /\ \A x \in Keys : mark[x] \subseteq mark'[x]
      BY ONLY IInv, r \in Requests, s \in Subjects, {} \in SUBSET Mark, <3>3, WrittenEffect
    <3>5. \A t \in Subjects, x \in Keys : Shows(t, x)' => Shows(t, x) \/ (x = req[r].key /\ t = s)
      BY ONLY IInv, r \in Requests, s \in Subjects, {} \in SUBSET Mark, <3>3, WrittenEffect
    <3>6. \A t \in Subjects, x \in Keys : Shows(t, x) => Shows(t, x)' \/ "replaced" \in mark'[x]
      BY ONLY IInv, r \in Requests, s \in Subjects, {} \in SUBSET Mark, <3>3, WrittenEffect
    <3> QED
      BY <3>2, <3>4, <3>5, <3>6
  <2>3. CASE req[r].key # None
    <3>1. PICK w \in SUBSET Mark :
            "misreported" \in w /\ Set(s, Written(req[r]), Written(req[r]).url, w)
      BY <1>3, <2>1, <2>3
    <3> HIDE DEF m
    <3>2. req[r].subject = s /\ Exists(s) /\ Set(s, Written(req[r]), Written(req[r]).url, w)
      BY <1>1, <1>2, <3>1
    <3>3. /\ row' \in [Subjects -> Profile \cup {None}] /\ mark' \in [Keys -> SUBSET Mark]
          /\ \A t \in Subjects : t # s => row'[t] = row[t]
          /\ \A x \in Keys : mark[x] \subseteq mark'[x]
      BY ONLY IInv, r \in Requests, s \in Subjects, w \in SUBSET Mark, <3>2, WrittenEffect
    <3>4. \A t \in Subjects, x \in Keys : Shows(t, x)' => Shows(t, x) \/ (x = req[r].key /\ t = s)
      BY ONLY IInv, r \in Requests, s \in Subjects, w \in SUBSET Mark, <3>2, WrittenEffect
    <3>5. \A t \in Subjects, x \in Keys : Shows(t, x) => Shows(t, x)' \/ "replaced" \in mark'[x]
      BY ONLY IInv, r \in Requests, s \in Subjects, w \in SUBSET Mark, <3>2, WrittenEffect
    <3>6. \A k \in Keys : req[r].key = k => w \subseteq mark'[k]
      BY ONLY IInv, r \in Requests, s \in Subjects, w \in SUBSET Mark, <3>2, WrittenEffect
    <3> QED
      BY <3>1, <3>3, <3>4, <3>5, <3>6
  <2> QED
    BY <2>2, <2>3
<1> HIDE DEF m
<1>5. excuse' \in [Subjects -> BOOLEAN] /\ excuse'[s] /\ \A t \in Subjects : t # s => excuse'[t] = excuse[t]
  BY <1>2, <1>3 DEF TypeOK
<1>6. CASE req[r].key = None
  <2>1. End(r)
    BY <1>3, <1>6 DEF GiveUp, AfterError
  <2>2. /\ req' \in [Requests -> Request] /\ req'[r] = Idle
        /\ \A q \in Requests : q # r => req'[q] = req[q]
    BY <1>2, <2>1, EndEffect
  <2>3. TypeOK'
    BY <1>2, <1>3, <1>4, <1>5, <2>2 DEF TypeOK
  <2>4. req'[r].key = None /\ req'[r].pc = "idle" /\ req'[r].subject = None
    BY <2>2 DEF Idle
  <2>5. \A t \in Subjects, x \in Keys : Shows(t, x)' => Shows(t, x)
    BY <1>4, <1>6, PicturesAssumption
  <2>6. PictureInv'
    BY <1>3, <1>4, <1>6, <2>2, <2>3, <2>4, <2>5, SameKeys
  <2>7. PeerInv'
    BY <1>1, <1>3, <1>4, <1>5, <2>1, EndPeers
  <2> QED
    BY <2>3, <2>6, <2>7 DEF IInv
<1>7. ASSUME NEW k \in Keys, req[r].key = k PROVE IInv'
  <2>1. Goto(r, "cleanup")
    BY <1>3, <1>7, PicturesAssumption DEF GiveUp, AfterError
  <2>2. req' \in [Requests -> Request]
    BY <1>2, <2>1, GotoEffect
  <2>3. TypeOK'
    BY <1>2, <1>3, <1>4, <1>5, <2>2 DEF TypeOK
  <2>4. k \in objects
    BY <1>2, <1>7 DEF IInv, PictureInv, RequestInv
  <2>5. \A t \in Subjects, x \in Keys : Shows(t, x)' => Shows(t, x) \/ (x = k /\ k \in objects)
    BY <1>4, <1>7, <2>4
  <2>6. "misreported" \in mark'[k]
    BY <1>4, <1>7
  <2>7. PictureInv'
    BY <1>1, <1>3, <1>4, <1>7, <2>1, <2>3, <2>5, <2>6, GoesOn
  <2>8. /\ \A t \in Subjects : t # s => row'[t] = row[t] /\ excuse'[t] = excuse[t]
        /\ shown' = shown /\ ~(Exists(s)' /\ ~excuse'[s])
    BY <1>3, <1>4, <1>5
  <2>9. PeerInv'
    BY ONLY IInv, r \in Requests, s \in Subjects, <1>1, <2>1, <2>8, GotoPeers
  <2> QED
    BY <2>3, <2>7, <2>9 DEF IInv
<1> QED
  BY <1>2, <1>6, <1>7 DEF Request

LEMMA ReadBackStep ==
  ASSUME IInv, NEW r \in Requests, ReadBack(r)
  PROVE  IInv'
<1>1. PICK s \in Subjects : req[r].subject = s
  BY BusyHasSubject DEF ReadBack
<1>2. /\ TypeOK /\ req[r] \in Request /\ req[r].pc = "read" /\ row[s] \in Profile
      /\ req' = [req EXCEPT ![r].pc = "tell", ![r].read = row[s]]
      /\ UNCHANGED <<row, objects, shown, mark, excuse>>
  BY <1>1 DEF ReadBack, IInv, TypeOK, Exists
<1> DEFINE new == [[req[r] EXCEPT !.pc = "tell"] EXCEPT !.read = row[s]]
<1>3. new \in Request
  BY <1>2 DEF Request
<1>4. req' = [req EXCEPT ![r] = new]
  BY <1>2 DEF TypeOK
<1>5. /\ new.pc = "tell" /\ new.key = req[r].key /\ new.subject = req[r].subject
      /\ new.alone = req[r].alone /\ new.read = row[s]
  BY <1>2 DEF Request
<1> HIDE DEF new
<1>6. /\ req' \in [Requests -> Request] /\ req'[r] = new
      /\ \A q \in Requests : q # r => req'[q] = req[q]
  BY <1>2, <1>3, <1>4 DEF TypeOK
<1>7. TypeOK'
  BY <1>2, <1>6 DEF TypeOK
<1>8. \A t \in Subjects, x \in Keys : Shows(t, x)' <=> Shows(t, x)
  BY <1>2 DEF Shows, Exists
<1>9. PictureInv'
  BY <1>2, <1>5, <1>6, <1>7, <1>8, SameKeys
<1>10. PeerInv'
  <2>1. \A q \in Requests : /\ req'[q].subject = req[q].subject /\ req'[q].alone = req[q].alone
                            /\ req[q].pc \in {"read", "tell"} => req'[q].pc \in {"read", "tell"}
    BY <1>5, <1>6
  <2>2. \A t \in Subjects : Busy(t)' = Busy(t)
    BY <2>1 DEF Busy
  <2>3. ASSUME NEW t \in Subjects \ Groups, NEW q \in Busy(t)', req'[q].alone
        PROVE  Busy(t)' = {q} /\ (req'[q].pc = "tell" => req'[q].read = row'[t])
    <3>1. q \in Busy(t) /\ q \in Requests /\ req[q].alone /\ req[q].subject = t
      BY <2>1, <2>2, <2>3 DEF Busy
    <3>2. Busy(t) = {q} /\ (req[q].pc = "tell" => req[q].read = row[t])
      BY <3>1 DEF IInv, PeerInv
    <3>3. CASE q = r
      BY <1>1, <1>2, <1>5, <1>6, <2>2, <3>1, <3>2, <3>3
    <3>4. CASE q # r
      BY <1>2, <1>6, <2>2, <3>1, <3>2, <3>4
    <3> QED
      BY <3>3, <3>4
  <2>4. ASSUME NEW t \in Subjects, Exists(t)', ~excuse'[t]
        PROVE  /\ t \notin Groups => \A q \in Busy(t)' : req'[q].alone
               /\ shown'[t] = row'[t] \/ \E q \in Busy(t)' : req'[q].pc \in {"read", "tell"}
    <3>1. Exists(t) /\ ~excuse[t]
      BY <1>2, <2>4 DEF Exists
    <3>2. /\ t \notin Groups => \A q \in Busy(t) : req[q].alone
          /\ shown[t] = row[t] \/ \E q \in Busy(t) : req[q].pc \in {"read", "tell"}
      BY <3>1 DEF IInv, PeerInv
    <3>3. \A q \in Busy(t) : q \in Requests
      BY DEF Busy
    <3> QED
      BY <1>2, <2>1, <2>2, <3>2, <3>3
  <2> QED
    BY <2>3, <2>4 DEF PeerInv
<1> QED
  BY <1>7, <1>9, <1>10 DEF IInv

LEMMA ReadErrorStep ==
  ASSUME IInv, NEW r \in Requests, ReadError(r)
  PROVE  IInv'
<1>1. PICK s \in Subjects : req[r].subject = s
  BY BusyHasSubject DEF ReadError
<1>2. /\ TypeOK /\ req[r] \in Request /\ req[r].pc = "read"
      /\ UNCHANGED <<row, objects, shown>> /\ excuse' = [excuse EXCEPT ![s] = TRUE]
  BY <1>1 DEF ReadError, IInv, TypeOK
<1>3. excuse' \in [Subjects -> BOOLEAN] /\ excuse'[s] /\ \A t \in Subjects : t # s => excuse'[t] = excuse[t]
  BY <1>2 DEF TypeOK
<1>4. CASE End(r) /\ mark' = mark
  <2>1. TypeOK' /\ PictureInv'
    BY <1>2, <1>3, <1>4, EndPictures DEF TypeOK
  <2>2. PeerInv'
    BY <1>1, <1>2, <1>3, <1>4, EndPeers
  <2> QED
    BY <2>1, <2>2 DEF IInv
<1>5. ASSUME NEW k \in Keys, req[r].key = k, Goto(r, "cleanup"), mark' = Marked(k, "misreported")
      PROVE  IInv'
  <2>1. /\ mark' \in [Keys -> SUBSET Mark] /\ "misreported" \in mark'[k]
        /\ \A x \in Keys : mark[x] \subseteq mark'[x]
    BY <1>2, <1>5 DEF Marked, TypeOK, Mark
  <2>2. req' \in [Requests -> Request]
    BY <1>2, <1>5, GotoEffect
  <2>3. TypeOK'
    BY <1>2, <1>3, <2>1, <2>2 DEF TypeOK
  <2>4. \A t \in Subjects, x \in Keys : Shows(t, x)' <=> Shows(t, x)
    BY <1>2 DEF Shows, Exists
  <2>5. PictureInv'
    BY <1>1, <1>2, <1>5, <2>1, <2>3, <2>4, GoesOn
  <2>6. /\ \A t \in Subjects : t # s => row'[t] = row[t] /\ excuse'[t] = excuse[t]
        /\ shown' = shown /\ Goto(r, "cleanup") /\ ~(Exists(s)' /\ ~excuse'[s])
    BY <1>2, <1>3, <1>5
  <2>7. PeerInv'
    BY ONLY IInv, r \in Requests, s \in Subjects, <1>1, <2>6, GotoPeers
  <2> QED
    BY <2>3, <2>5, <2>7 DEF IInv
<1>6. req[r].key \in Keys \/ req[r].key = None
  BY <1>2 DEF Request
<1> QED
  BY <1>4, <1>5, <1>6 DEF ReadError

LEMMA CleanupStep ==
  ASSUME IInv, NEW r \in Requests, Cleanup(r)
  PROVE  IInv'
<1>1. PICK s \in Subjects : req[r].subject = s
  BY BusyHasSubject DEF Cleanup
<1>2. /\ TypeOK /\ req[r] \in Request /\ req[r].pc = "cleanup" /\ End(r)
      /\ UNCHANGED <<row, shown, excuse>>
  BY DEF Cleanup, IInv, TypeOK
<1>3. objects' \subseteq Keys /\ mark' \in [Keys -> SUBSET Mark]
  BY <1>2 DEF Cleanup, TypeOK, Marked, Mark
<1>4. TypeOK'
  BY <1>2, <1>3, EndEffect DEF TypeOK
<1>5. PictureInv'
  BY <1>4, CleanedUp
<1>6. Exists(s)' /\ ~excuse'[s] =>
        /\ \/ shown'[s] = row'[s]
           \/ \E q \in Busy(s) \ {r} : req[q].pc \in {"read", "tell"}
        /\ s \notin Groups => \A q \in Busy(s) \ {r} : req[q].alone
  BY <1>1, <1>2, OthersAnnounce DEF Exists
<1>7. PeerInv'
  BY <1>1, <1>2, <1>6, EndPeers
<1> QED
  BY <1>4, <1>5, <1>7 DEF IInv

LEMMA BroadcastUserUpdateStep ==
  ASSUME IInv, NEW r \in Requests, BroadcastUserUpdate(r)
  PROVE  IInv'
<1>1. PICK s \in Subjects \ Groups : req[r].subject = s
  BY BusyHasSubject DEF BroadcastUserUpdate
<1>2. /\ TypeOK /\ req[r] \in Request /\ req[r].pc = "tell" /\ End(r)
      /\ UNCHANGED <<row, objects, mark>> /\ shown' = [shown EXCEPT ![s] = req[r].read]
      /\ excuse' = [excuse EXCEPT ![s] = @ /\ ~req[r].alone]
  BY <1>1 DEF BroadcastUserUpdate, IInv, TypeOK
<1>3. /\ shown' \in [Subjects -> Profile] /\ shown'[s] = req[r].read
      /\ \A t \in Subjects : t # s => shown'[t] = shown[t]
  BY <1>2 DEF TypeOK, Request
<1>4. /\ excuse' \in [Subjects -> BOOLEAN] /\ (excuse'[s] <=> excuse[s] /\ ~req[r].alone)
      /\ \A t \in Subjects : t # s => excuse'[t] = excuse[t]
  BY <1>2 DEF TypeOK
<1>5. TypeOK' /\ PictureInv'
  BY <1>2, <1>3, <1>4, EndPictures
<1>6. r \in Busy(s)
  BY <1>1 DEF Busy
<1>7. Exists(s)' /\ ~excuse'[s] =>
        /\ shown'[s] = row'[s]
        /\ \A q \in Busy(s) \ {r} : req[q].alone
  <2>1. Exists(s)' /\ ~excuse'[s] => req[r].alone
    BY <1>2, <1>4, <1>6 DEF IInv, PeerInv, Exists
  <2>2. req[r].alone => Busy(s) = {r} /\ req[r].read = row[s]
    BY <1>2, <1>6 DEF IInv, PeerInv
  <2> QED
    BY <1>2, <1>3, <2>1, <2>2
<1>8. PeerInv'
  BY <1>1, <1>2, <1>3, <1>4, <1>7, EndPeers
<1> QED
  BY <1>5, <1>8 DEF IInv

LEMMA NotifyGroupUpdatedStep ==
  ASSUME IInv, NEW r \in Requests, NotifyGroupUpdated(r)
  PROVE  IInv'
<1>1. PICK s \in Subjects : req[r].subject = s /\ s \in Groups
  BY BusyHasSubject DEF NotifyGroupUpdated
<1>2. /\ TypeOK /\ req[r].pc = "tell" /\ End(r)
      /\ UNCHANGED <<row, objects, mark>>
  BY DEF NotifyGroupUpdated, IInv
<1>3. \/ /\ Exists(s) /\ shown' = [shown EXCEPT ![s] = row[s]]
         /\ excuse' = [excuse EXCEPT ![s] = FALSE]
      \/ shown' = shown /\ excuse' = [excuse EXCEPT ![s] = TRUE]
  BY <1>1 DEF NotifyGroupUpdated
<1>4. /\ shown' \in [Subjects -> Profile] /\ excuse' \in [Subjects -> BOOLEAN]
      /\ excuse'[s] \/ shown'[s] = row[s]
      /\ \A t \in Subjects : t # s => shown'[t] = shown[t] /\ excuse'[t] = excuse[t]
  BY <1>2, <1>3 DEF TypeOK, Exists
<1>5. TypeOK' /\ PictureInv'
  BY <1>2, <1>4, EndPictures
<1>6. PeerInv'
  BY <1>1, <1>2, <1>4, EndPeers
<1> QED
  BY <1>5, <1>6 DEF IInv

LEMMA QuietlyStep ==
  ASSUME IInv, NEW s \in Subjects, NEW p \in Profile \cup {None},
         Quietly(s, p), p # None => p.url \notin Keys
  PROVE  IInv'
<1>1. TypeOK /\ Exists(s) /\ NoPicture \notin Keys /\ {} \in SUBSET Mark
  BY PicturesAssumption DEF Quietly, IInv
<1>2. /\ row' \in [Subjects -> Profile \cup {None}]
      /\ \A t \in Subjects : row'[t] = IF t = s THEN p ELSE row[t]
      /\ mark' \in [Keys -> SUBSET Mark]
      /\ \A x \in Keys : mark[x] \subseteq mark'[x]
      /\ \A x \in Keys : Shows(s, x) /\ x # NoPicture => "replaced" \in mark'[x]
  BY <1>1, SetEffect DEF Quietly
<1>3. \A q \in Requests : req[q] \in Request /\ [req[q] EXCEPT !.alone = FALSE] \in Request
  <2>1. ASSUME NEW q \in Requests PROVE req[q] \in Request
    BY <1>1 DEF TypeOK
  <2>2. ASSUME NEW x \in Request PROVE [x EXCEPT !.alone = FALSE] \in Request
    BY DEF Request
  <2> QED
    BY <2>1, <2>2
<1>4. req' \in [Requests -> Request]
  BY <1>3 DEF Quietly
<1>5. \A q \in Requests :
        /\ req'[q].key = req[q].key /\ req'[q].subject = req[q].subject /\ req'[q].pc = req[q].pc
        /\ req'[q].read = req[q].read
        /\ req'[q].alone <=> req[q].alone /\ q \notin Busy(s)
  BY <1>3 DEF Quietly, Request
<1>6. /\ excuse' \in [Subjects -> BOOLEAN] /\ excuse'[s]
      /\ \A t \in Subjects : t # s => excuse'[t] = excuse[t]
      /\ objects' = objects /\ shown' = shown
  BY <1>1 DEF Quietly, TypeOK
<1>7. TypeOK'
  BY <1>1, <1>2, <1>4, <1>6 DEF TypeOK
<1>8. \A t \in Subjects, x \in Keys : Shows(t, x)' <=> t # s /\ Shows(t, x)
  BY <1>2 DEF Shows, Exists
<1>9. PictureInv'
  BY <1>1, <1>2, <1>5, <1>6, <1>7, <1>8, SameKeys
<1>10. PeerInv'
  <2>1. \A t \in Subjects : Busy(t)' = Busy(t)
    BY <1>5 DEF Busy
  <2>2. ASSUME NEW t \in Subjects \ Groups, NEW q \in Busy(t)', req'[q].alone
        PROVE  Busy(t)' = {q} /\ (req'[q].pc = "tell" => req'[q].read = row'[t])
    <3>1. q \in Busy(t) /\ q \in Requests /\ req[q].alone /\ q \notin Busy(s)
      BY <1>5, <2>1, <2>2 DEF Busy
    <3>2. Busy(t) = {q} /\ (req[q].pc = "tell" => req[q].read = row[t])
      BY <3>1 DEF IInv, PeerInv
    <3>3. t # s
      BY <3>1
    <3> QED
      BY <1>2, <1>5, <2>1, <3>1, <3>2, <3>3
  <2>3. ASSUME NEW t \in Subjects, Exists(t)', ~excuse'[t]
        PROVE  /\ t \notin Groups => \A q \in Busy(t)' : req'[q].alone
               /\ shown'[t] = row'[t] \/ \E q \in Busy(t)' : req'[q].pc \in {"read", "tell"}
    <3>1. t # s /\ Exists(t) /\ ~excuse[t]
      BY <1>2, <1>6, <2>3 DEF Exists
    <3>2. /\ t \notin Groups => \A q \in Busy(t) : req[q].alone
          /\ shown[t] = row[t] \/ \E q \in Busy(t) : req[q].pc \in {"read", "tell"}
      BY <3>1 DEF IInv, PeerInv
    <3>3. \A q \in Busy(t) : q \in Requests /\ q \notin Busy(s)
      BY <3>1 DEF Busy
    <3> QED
      BY <1>2, <1>5, <1>6, <2>1, <3>1, <3>2, <3>3
  <2> QED
    BY <2>2, <2>3 DEF PeerInv
<1> QED
  BY <1>7, <1>9, <1>10 DEF IInv

LEMMA CancelStep ==
  ASSUME IInv, NEW r \in Requests, Cancel(r)
  PROVE  IInv'
<1>1. /\ TypeOK /\ \A q \in Requests : req[q] \in Request
      /\ UNCHANGED <<row, objects, shown, mark, excuse>>
  BY DEF Cancel, IInv, TypeOK
<1>2. [req[r] EXCEPT !.there = FALSE] \in Request
  BY <1>1 DEF Request
<1>3. req' = [req EXCEPT ![r] = [req[r] EXCEPT !.there = FALSE]]
  BY <1>1 DEF Cancel, TypeOK
<1>4. req' \in [Requests -> Request]
  BY <1>1, <1>2, <1>3 DEF TypeOK
<1>5. \A q \in Requests :
        /\ req'[q].key = req[q].key /\ req'[q].subject = req[q].subject /\ req'[q].pc = req[q].pc
        /\ req'[q].read = req[q].read /\ req'[q].alone = req[q].alone
  BY <1>1, <1>3 DEF TypeOK, Request
<1>6. TypeOK'
  BY <1>1, <1>4 DEF TypeOK
<1>7. \A t \in Subjects, x \in Keys : Shows(t, x)' <=> Shows(t, x)
  BY <1>1 DEF Shows, Exists
<1>8. PictureInv'
  BY <1>1, <1>5, <1>6, <1>7, SameKeys
<1>9. PeerInv'
  <2>1. \A t \in Subjects : Busy(t)' = Busy(t)
    BY <1>5 DEF Busy
  <2>2. \A t \in Subjects : (Exists(t)' <=> Exists(t)) /\ \A q \in Busy(t) : q \in Requests
    BY <1>1 DEF Exists, Busy
  <2>3. PeerInv
    BY DEF IInv
  <2> QED
    BY <1>1, <1>5, <2>1, <2>2, <2>3 DEF PeerInv
<1> QED
  BY <1>6, <1>8, <1>9 DEF IInv

--------------------------------------------------------------------------------
LEMMA NextInv == IInv /\ [Next]_vars => IInv'
<1> SUFFICES ASSUME IInv, [Next]_vars PROVE IInv'
  OBVIOUS
<1>1. CASE UNCHANGED vars
  BY <1>1 DEF vars, IInv, TypeOK, PictureInv, FreshInv, RequestInv, CleanupInv, PeerInv,
              DanglesOnlyIfMisreported, OrphansHaveAReason, Shows, Exists, Busy
<1>2. ASSUME NEW r \in Requests, NEW s \in Subjects, NEW k \in Keys, Upload(r, s, k) PROVE IInv'
  BY <1>2, UploadStep
<1>3. ASSUME NEW r \in Requests, NEW s \in Subjects, NEW n \in Names, Rename(r, s, n) PROVE IInv'
  BY <1>3, RenameStep
<1>4. ASSUME NEW r \in Requests, Write(r) \/ WriteError(r) \/ WriteAnswerLost(r) PROVE IInv'
  BY <1>4, WriteStep, WriteErrorStep, WriteAnswerLostStep
<1>5. ASSUME NEW r \in Requests, ReadBack(r) \/ ReadError(r) \/ Cleanup(r) PROVE IInv'
  BY <1>5, ReadBackStep, ReadErrorStep, CleanupStep
<1>6. ASSUME NEW r \in Requests, BroadcastUserUpdate(r) \/ NotifyGroupUpdated(r) \/ Cancel(r) PROVE IInv'
  BY <1>6, BroadcastUserUpdateStep, NotifyGroupUpdatedStep, CancelStep
<1>7. ASSUME NEW s \in Subjects, SyncGooglePhoto(s) \/ DeleteUser(s) \/ DeleteGroup(s) PROVE IInv'
  <2>1. NoProfile \in Profile /\ NoProfile.url \notin Keys
    BY PicturesAssumption DEF Profile, NoProfile
  <2>2. CASE SyncGooglePhoto(s)
    <3> DEFINE p == [row[s] EXCEPT !.url = GooglePhoto]
    <3>1. row[s] \in Profile
      BY <2>2 DEF SyncGooglePhoto, Exists, IInv, TypeOK
    <3>2. p \in Profile /\ p.url \notin Keys
      BY <3>1, PicturesAssumption DEF Profile
    <3>3. Quietly(s, p)
      BY <2>2 DEF SyncGooglePhoto
    <3> HIDE DEF p
    <3> QED
      BY <3>2, <3>3, QuietlyStep
  <2>3. CASE DeleteUser(s)
    BY <2>1, <2>3, QuietlyStep DEF DeleteUser
  <2>4. CASE DeleteGroup(s)
    BY <2>4, QuietlyStep DEF DeleteGroup
  <2> QED
    BY <1>7, <2>2, <2>3, <2>4
<1>8. CASE Crash
  BY <1>8, CrashStep
<1> QED
  BY <1>1, <1>2, <1>3, <1>4, <1>5, <1>6, <1>7, <1>8 DEF Next

(* Every state satisfies the invariant. *)
LEMMA Invariant == Spec => []IInv
  BY InitInv, NextInv, PTL DEF Spec

(* No row, request or mark is ever malformed: rows hold profiles, requests   *)
(* the steps of storeUploadedAvatar and of the handlers above it.            *)
THEOREM TypeCorrect == Spec => []TypeOK
<1>1. IInv => TypeOK
  BY DEF IInv
<1> QED
  BY <1>1, Invariant, PTL

(* A stored address leads nowhere only after an error was reported for a     *)
(* write that had been carried out.                                          *)
THEOREM PicturesAreThere == Spec => []DanglesOnlyIfMisreported
<1>1. IInv => DanglesOnlyIfMisreported
  BY DEF IInv, PictureInv
<1> QED
  BY <1>1, Invariant, PTL

(* An object that nothing refers to was replaced, or its request was cut off. *)
THEOREM OrphansAreExplained == Spec => []OrphansHaveAReason
<1>1. IInv => OrphansHaveAReason
  BY DEF IInv, PictureInv
<1> QED
  BY <1>1, Invariant, PTL

(* Peers display what is stored as soon as nothing is under way, or there is *)
(* an excuse.                                                                *)
THEOREM PeersSeeThePicture == Spec => []PeersAreCurrent
<1>1. IInv => PeersAreCurrent
  BY DEF IInv, PeerInv, PeersAreCurrent
<1> QED
  BY <1>1, Invariant, PTL
================================================================================
