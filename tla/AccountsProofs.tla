----------------------------- MODULE AccountsProofs -----------------------------
(* Proofs about Accounts, for any number of accounts, forms, Google accounts *)
(* and overlapping requests.                                                 *)
EXTENDS Accounts, TLAPS

--------------------------------------------------------------------------------
(* The inductive invariant. *)

(* A table t whose accounts G were deleted once: a Google account is linked *)
(* to one existing row at most, and what was deleted lacks its identity.    *)
TableOK(t, G) ==
  /\ t \in [Uids -> UserRow]
  /\ G \subseteq Uids
  /\ \A u \in Uids : t[u].status = "none" => t[u].google = Null
  /\ \A u, v \in Uids : t[u].google # Null /\ t[u].google = t[v].google => u = v
  /\ \A u \in G : /\ t[u].status # "none"
                  /\ ~t[u].password
                  /\ t[u].email = Null /\ t[u].phone = Null /\ t[u].google = Null

(* A request q knows what its next statement needs; an account it may still *)
(* let in was not blocked when it began, and is its Google account's.       *)
ReqOK(q, t, G) ==
  /\ q \in Request
  /\ q.pc \in {"phone", "insert"} => q.form \in Forms /\ q.google = Null
  /\ q.pc \in {"provision", "again"} => q.google \in Googles /\ q.name \in Names
  /\ q.pc = "rename" => q.name \in Names
  /\ q.pc \in {"refresh", "issue", "rename", "upgrade"} =>
       q.uid \in Uids /\ t[q.uid].status # "none"
  /\ \A u \in q.late : Blocked(t[u].status)
  /\ q.pc = "refresh" /\ q.uid \in q.late => Blocked(q.status)
  /\ q.pc \in {"issue", "upgrade"} => q.uid \notin q.late
  /\ q.pc \in {"refresh", "issue"} /\ q.google # Null =>
       t[q.uid].google = q.google \/ q.uid \in G

IInv ==
  /\ TableOK(users, gone)
  /\ tokens \subseteq Uids
  /\ \A u \in tokens : users[u].status # "none"
  /\ req \in [Requests -> Request]
  /\ \A r \in Requests : ReqOK(req[r], users, gone)

--------------------------------------------------------------------------------
(* Requests. *)

(* A request between two uses is in order. *)
LEMMA IdleOK == ASSUME NEW t, NEW G PROVE ReqOK(Idle, t, G)
  BY DEF Idle, ReqOK, Request, PC

(* A step that only moves one request on to a state in order. *)
LEMMA OnlyRequest ==
  ASSUME IInv, NEW r \in Requests, NEW q, ReqOK(q, users, gone),
         req' = [req EXCEPT ![r] = q], UNCHANGED <<users, tokens, gone>>
  PROVE  IInv'
  BY DEF IInv, ReqOK

(* Ending a request. *)
LEMMA EndOK ==
  ASSUME IInv, NEW r \in Requests, End(r), UNCHANGED <<users, tokens, gone>>
  PROVE  IInv'
  BY OnlyRequest, IdleOK DEF End

(* How rows change: they stay, a blocked account stays blocked, and only a *)
(* deletion takes the Google account away.                                 *)
Evolves(t, t2, G, G2) ==
  /\ G \subseteq G2
  /\ \A u \in Uids :
       /\ t[u].status # "none" => t2[u].status # "none"
       /\ Blocked(t[u].status) => Blocked(t2[u].status)
       /\ t[u].status # "none" => t2[u].google = t[u].google \/ u \in G2

(* Requests stay in order while rows change that way. *)
LEMMA ReqKept ==
  ASSUME NEW q, NEW t, NEW G, NEW t2, NEW G2, ReqOK(q, t, G), Evolves(t, t2, G, G2)
  PROVE  ReqOK(q, t2, G2)
<1>1. q.late \subseteq Uids
  BY DEF ReqOK, Request
<1>2. \A u \in q.late : Blocked(t2[u].status)
  BY <1>1 DEF ReqOK, Evolves
<1>3. q.pc \in {"refresh", "issue"} /\ q.google # Null => t2[q.uid].google = q.google \/ q.uid \in G2
  BY DEF ReqOK, Evolves
<1>4. q.pc \in {"refresh", "issue", "rename", "upgrade"} => q.uid \in Uids /\ t2[q.uid].status # "none"
  BY DEF ReqOK, Evolves
<1> QED
  BY <1>2, <1>3, <1>4 DEF ReqOK

(* A step that changes rows that way, and moves at most one request. *)
LEMMA RowsAndRequest ==
  ASSUME IInv, TableOK(users', gone'), Evolves(users, users', gone, gone'), UNCHANGED tokens,
         \/ UNCHANGED req
         \/ \E r \in Requests, q \in Request :
              ReqOK(q, users', gone') /\ req' = [req EXCEPT ![r] = q]
  PROVE  IInv'
<1>1. \A s \in Requests : ReqOK(req[s], users', gone')
  BY ReqKept DEF IInv
<1>2. req' \in [Requests -> Request] /\ \A s \in Requests : ReqOK(req'[s], users', gone')
  BY <1>1 DEF IInv
<1>3. \A u \in tokens' : users'[u].status # "none"
  BY DEF IInv, Evolves
<1> QED
  BY <1>2, <1>3 DEF IInv

(* The accounts that are not active now. *)
Late == {u \in Uids : users[u].status \in {"deactivated", "deleted"}}

LEMMA LateFacts ==
  /\ Late \in SUBSET Uids
  /\ \A u \in Uids : u \in Late <=> Blocked(users[u].status)
  BY DEF Late, Blocked

(* The first statement of a request. *)
LEMMA BeginOK ==
  ASSUME IInv, NEW r \in Requests, NEW start, Begin(r, start),
         ReqOK([start EXCEPT !.late = Late], users, gone), UNCHANGED <<users, tokens, gone>>
  PROVE  IInv'
  BY OnlyRequest DEF Begin, Late

--------------------------------------------------------------------------------
(* Rows. *)

(* The rows that are inserted are well typed and active. *)
LEMMA NewRows ==
  /\ \A f \in Forms : /\ StandardRow(f) \in UserRow
                       /\ StandardRow(f).google = Null
                       /\ StandardRow(f).status = "active"
  /\ \A g \in Googles, n \in Names, photo \in SUBSET {"avatar_url"} :
       /\ GoogleRow(g, n, photo) \in UserRow
       /\ GoogleRow(g, n, photo).google = g
       /\ GoogleRow(g, n, photo).status = "active"
<1>1. ASSUME NEW f \in Forms PROVE f.name \in Names /\ f.email \in Emails /\ f.phone \in Phones
  BY <1>1, AccountsAssumption
<1>2. ASSUME NEW f \in Forms
      PROVE  /\ StandardRow(f) \in UserRow
             /\ StandardRow(f).google = Null
             /\ StandardRow(f).status = "active"
  BY <1>1, <1>2 DEF StandardRow, UserRow
<1>3. ASSUME NEW g \in Googles PROVE Profile[g].email \in Emails
  BY <1>3, AccountsAssumption
<1>4. ASSUME NEW g \in Googles, NEW n \in Names, NEW photo \in SUBSET {"avatar_url"}
      PROVE  /\ GoogleRow(g, n, photo) \in UserRow
             /\ GoogleRow(g, n, photo).google = g
             /\ GoogleRow(g, n, photo).status = "active"
  BY <1>3, <1>4 DEF GoogleRow, UserRow
<1> QED
  BY <1>2, <1>4

(* A row that violates no unique index can be inserted. *)
LEMMA InsertOK ==
  ASSUME IInv, NEW r \in Requests, NEW u \in Uids, NEW row \in UserRow,
         row.status = "active", ~Violates(row), Insert(r, u, row),
         req[r].google # Null => row.google = req[r].google,
         UNCHANGED <<tokens, gone>>
  PROVE  IInv'
<1>1. TableOK(users', gone')
  <2>1. users' \in [Uids -> UserRow] /\ gone' \subseteq Uids
    BY DEF IInv, TableOK, Insert
  <2>2. \A v \in Uids : users'[v] = IF v = u THEN row ELSE users[v]
    BY DEF IInv, TableOK, Insert
  <2>3. u \notin gone
    BY DEF IInv, TableOK, Insert, Exists
  <2>4. \A v \in Uids : row.google # Null => users[v].google # row.google
    BY DEF IInv, TableOK, Violates, SameKey, Exists
  <2> QED
    BY <2>1, <2>2, <2>3, <2>4 DEF IInv, TableOK
<1>2. Evolves(users, users', gone, gone')
  BY DEF IInv, TableOK, Insert, Exists, Evolves, Blocked
<1>3. ReqOK(req[r], users, gone) /\ req[r] \in Request
  BY DEF IInv
<1> DEFINE q == [req[r] EXCEPT !.pc = "issue", !.uid = u, !.status = "active"]
<1>4. q \in Request
  BY <1>3 DEF Request, PC
<1>5. u \notin req[r].late
  BY <1>3 DEF ReqOK, Insert, Exists, Blocked
<1>6. ReqOK(q, users', gone')
  <2>1. users'[u] = row
    BY DEF IInv, TableOK, Insert
  <2>2. \A v \in q.late : Blocked(users'[v].status)
    BY <1>2, <1>3 DEF ReqOK, Evolves, Request
  <2>3. q.pc = "issue" /\ q.uid = u /\ q.late = req[r].late /\ q.google = req[r].google
    BY <1>3 DEF Request
  <2> HIDE DEF q
  <2> QED
    BY <1>4, <1>5, <2>1, <2>2, <2>3 DEF ReqOK
<1>7. req' = [req EXCEPT ![r] = q]
  BY <1>3 DEF Insert, IInv
<1> HIDE DEF q
<1> QED
  BY <1>1, <1>2, <1>4, <1>6, <1>7, RowsAndRequest

--------------------------------------------------------------------------------
(* The steps that read, and move one request on. *)

(* Registration and sign-in. *)
LEMMA SignInReads ==
  ASSUME IInv, NEW r \in Requests,
         \/ \E f \in Forms : CheckEmail(r, f)
         \/ \E u \in Uids : Login(r, u)
         \/ \E g \in Googles : LookupGoogle(r, g)
         \/ CheckPhone(r) \/ LookupAgain(r) \/ CheckStatus(r)
  PROVE  IInv'
<1> DEFINE q == req[r]
<1>0. q \in Request /\ ReqOK(q, users, gone) /\ TableOK(users, gone)
  BY DEF IInv
<1>1. ASSUME NEW f \in Forms, CheckEmail(r, f) PROVE IInv'
  <2> DEFINE b == [[Idle EXCEPT !.pc = "phone", !.form = f] EXCEPT !.late = Late]
  <2>1. ReqOK(b, users, gone)
    BY LateFacts DEF Idle, ReqOK, Request, PC
  <2> QED
    BY <1>1, <2>1, BeginOK DEF CheckEmail
<1>2. ASSUME NEW u \in Uids, Login(r, u) PROVE IInv'
  <2> DEFINE b == [[Idle EXCEPT !.pc = "issue", !.uid = u, !.status = users[u].status]
                     EXCEPT !.late = Late]
  <2>1. u \notin Late /\ users[u].status # "none"
    BY <1>2, LateFacts DEF Login, Exists
  <2>2. users[u].status \in {"none", "active", "deactivated", "deleted"}
    BY <1>0 DEF TableOK, UserRow
  <2>3. ReqOK(b, users, gone)
    BY LateFacts, <2>1, <2>2 DEF Idle, ReqOK, Request, PC
  <2> QED
    BY <1>2, <2>3, BeginOK DEF Login
<1>3. ASSUME NEW g \in Googles, LookupGoogle(r, g) PROVE IInv'
  <2> DEFINE i == [Idle EXCEPT !.google = g]
  <2>1. ASSUME NEW u \in Uids, NEW photo \in SUBSET {"avatar_url"},
               LinkedTo(u, g), Begin(r, Found(i, u, photo))
        PROVE  IInv'
    <3> DEFINE b == [Found(i, u, photo) EXCEPT !.late = Late]
    <3>1. users[u].status \in {"none", "active", "deactivated", "deleted"} /\ users[u].google = g
          /\ users[u].status # "none"
      BY <1>0, <2>1, AccountsAssumption DEF TableOK, UserRow, LinkedTo
    <3>2. b \in Request
      BY <3>1, LateFacts DEF Found, Idle, Request, PC
    <3>3. /\ b.pc = "refresh" /\ b.uid = u /\ b.late = Late /\ b.google = g
          /\ b.status = users[u].status
      BY DEF Found, Idle
    <3> HIDE DEF b
    <3>4. ReqOK(b, users, gone)
      BY <3>1, <3>2, <3>3, LateFacts DEF ReqOK
    <3> QED
      BY <1>3, <2>1, <3>4, BeginOK DEF LookupGoogle, b
  <2>2. ASSUME Begin(r, [i EXCEPT !.pc = "provision", !.name = Profile[g].name]) PROVE IInv'
    <3> DEFINE b == [[i EXCEPT !.pc = "provision", !.name = Profile[g].name] EXCEPT !.late = Late]
    <3>1. Profile[g].name \in Names
      BY AccountsAssumption
    <3>2. ReqOK(b, users, gone)
      BY LateFacts, <3>1 DEF Idle, ReqOK, Request, PC
    <3> QED
      BY <1>3, <2>2, <3>2, BeginOK DEF LookupGoogle
  <2> QED
    BY <1>3, <2>1, <2>2 DEF LookupGoogle
<1>4. CASE CheckPhone(r)
  <2> DEFINE b == [q EXCEPT !.pc = "insert"]
  <2>1. ReqOK(b, users, gone)
    BY <1>0, <1>4 DEF CheckPhone, ReqOK, Request, PC
  <2>2. req' = [req EXCEPT ![r] = b] => IInv'
    BY <1>4, <2>1, OnlyRequest DEF CheckPhone
  <2>3. Goto(r, "insert") => IInv'
    BY <2>2 DEF Goto
  <2> QED
    BY <1>4, <2>3, EndOK DEF CheckPhone
<1>5. CASE LookupAgain(r)
  <2>1. ASSUME NEW u \in Uids, NEW photo \in SUBSET {"avatar_url"},
               LinkedTo(u, q.google), req' = [req EXCEPT ![r] = Found(q, u, photo)]
        PROVE  IInv'
    <3> DEFINE b == Found(q, u, photo)
    <3>1. users[u].status \in {"none", "active", "deactivated", "deleted"}
          /\ users[u].google = q.google /\ users[u].status # "none"
      BY <1>0, <1>5, <2>1, AccountsAssumption DEF TableOK, UserRow, LinkedTo, ReqOK, LookupAgain
    <3>2. b \in Request
      BY <1>0, <3>1 DEF Found, Request, PC
    <3>3. /\ b.pc = "refresh" /\ b.uid = u /\ b.late = q.late /\ b.google = q.google
          /\ b.status = users[u].status
      BY <1>0 DEF Found, Request
    <3> HIDE DEF b
    <3>4. ReqOK(b, users, gone)
      BY <1>0, <3>1, <3>2, <3>3 DEF ReqOK
    <3> QED
      BY <1>5, <2>1, <3>4, OnlyRequest DEF LookupAgain, b
  <2>2. ASSUME Goto(r, "provision") PROVE IInv'
    <3> DEFINE b == [q EXCEPT !.pc = "provision"]
    <3>1. ReqOK(b, users, gone)
      BY <1>0, <1>5 DEF LookupAgain, ReqOK, Request, PC
    <3> QED
      BY <1>5, <2>2, <3>1, OnlyRequest DEF LookupAgain, Goto
  <2> QED
    BY <1>5, <2>1, <2>2 DEF LookupAgain
<1>6. CASE CheckStatus(r)
  <2>1. ASSUME ~Blocked(q.status), Goto(r, "issue") PROVE IInv'
    <3> DEFINE b == [q EXCEPT !.pc = "issue"]
    <3>1. ReqOK(b, users, gone)
      BY <1>0, <1>6, <2>1 DEF CheckStatus, ReqOK, Request, PC
    <3> QED
      BY <1>6, <2>1, <3>1, OnlyRequest DEF CheckStatus, Goto
  <2> QED
    BY <1>6, <2>1, EndOK DEF CheckStatus
<1> QED
  BY <1>1, <1>2, <1>3, <1>4, <1>5, <1>6

(* What is done with a token, and the second half of a sign-in. *)
LEMMA OtherReads ==
  ASSUME IInv, NEW r \in Requests,
         \/ \E u \in Uids : Handshake(r, u) \/ \E n \in Names : CheckName(r, u, n)
         \/ Upgrade(r) \/ Abort(r)
  PROVE  IInv'
<1>1. ASSUME NEW u \in Uids, Handshake(r, u) PROVE IInv'
  <2> DEFINE b == [[Idle EXCEPT !.pc = "upgrade", !.uid = u] EXCEPT !.late = Late]
  <2>1. u \notin Late /\ users[u].status # "none"
    BY <1>1, LateFacts DEF Handshake, Blocked
  <2>2. ReqOK(b, users, gone)
    BY LateFacts, <2>1 DEF Idle, ReqOK, Request, PC
  <2> QED
    BY <1>1, <2>2, BeginOK DEF Handshake
<1>2. ASSUME NEW u \in Uids, NEW n \in Names, CheckName(r, u, n) PROVE IInv'
  <2> DEFINE b == [[Idle EXCEPT !.pc = "rename", !.uid = u, !.name = n] EXCEPT !.late = Late]
  <2>1. users[u].status # "none"
    BY <1>2 DEF CheckName, IInv
  <2>2. ReqOK(b, users, gone)
    BY LateFacts, <2>1 DEF Idle, ReqOK, Request, PC
  <2> QED
    BY <1>2, <2>2, BeginOK DEF CheckName
<1> QED
  BY <1>1, <1>2, EndOK DEF Upgrade, Abort

--------------------------------------------------------------------------------
(* The steps that write. *)

(* The two INSERTs. *)
LEMMA Inserts ==
  ASSUME IInv, NEW r \in Requests, CreateUser(r) \/ Provision(r)
  PROVE  IInv'
<1> DEFINE q == req[r]
<1>0. q \in Request /\ ReqOK(q, users, gone)
  BY DEF IInv
<1>1. CASE CreateUser(r)
  <2> DEFINE row == StandardRow(q.form)
  <2>1. q.form \in Forms /\ q.google = Null
    BY <1>0, <1>1 DEF CreateUser, ReqOK
  <2>2. row \in UserRow /\ row.status = "active"
    BY <2>1, NewRows
  <2>3. ASSUME NEW u \in Uids, ~Violates(row), Insert(r, u, row) PROVE IInv'
    BY <1>1, <2>1, <2>2, <2>3, InsertOK DEF CreateUser
  <2> HIDE DEF row
  <2>4. End(r) /\ UNCHANGED users => IInv'
    BY <1>1, EndOK DEF CreateUser
  <2> QED
    BY <1>1, <2>3, <2>4 DEF CreateUser, row
<1>2. CASE Provision(r)
  <2>1. q.google \in Googles /\ q.name \in Names /\ q.pc = "provision"
        /\ Profile[q.google].retry \in Names
    BY <1>0, <1>2, AccountsAssumption DEF Provision, ReqOK
  <2>2. ASSUME NEW u \in Uids, NEW photo \in SUBSET {"avatar_url"},
               ~Violates(GoogleRow(q.google, q.name, {})),
               Insert(r, u, GoogleRow(q.google, q.name, photo))
        PROVE  IInv'
    <3> DEFINE row == GoogleRow(q.google, q.name, photo)
    <3>1. row \in UserRow /\ row.status = "active" /\ row.google = q.google
      BY <2>1, NewRows
    <3>2. ~Violates(row)
      BY <2>2 DEF Violates, SameKey, GoogleRow
    <3> HIDE DEF row
    <3> QED
      BY <1>2, <2>2, <3>1, <3>2, InsertOK DEF Provision, row
  <2>3. ASSUME Goto(r, "refused"), UNCHANGED users PROVE IInv'
    <3> DEFINE b == [q EXCEPT !.pc = "refused"]
    <3>1. ReqOK(b, users, gone)
      BY <1>0, <2>1 DEF ReqOK, Request, PC
    <3> QED
      BY <1>2, <2>3, <3>1, OnlyRequest DEF Provision, Goto
  <2>4. ASSUME req' = [req EXCEPT ![r].pc = "again", ![r].name = Profile[q.google].retry],
               UNCHANGED users
        PROVE  IInv'
    <3> DEFINE b == [q EXCEPT !.pc = "again", !.name = Profile[q.google].retry]
    <3>1. ReqOK(b, users, gone)
      BY <1>0, <2>1 DEF ReqOK, Request, PC
    <3>2. req' = [req EXCEPT ![r] = b]
      BY <2>4, <1>0 DEF IInv
    <3> QED
      BY <1>2, <2>4, <3>1, <3>2, OnlyRequest DEF Provision
  <2> QED
    BY <1>2, <2>2, <2>3, <2>4 DEF Provision
<1> QED
  BY <1>1, <1>2

(* An UPDATE by user id of columns that identify nobody. *)
LEMMA UpdateOK ==
  ASSUME IInv, NEW u \in Uids, NEW row \in UserRow, users[u].status # "none",
         users' = [users EXCEPT ![u] = row], UNCHANGED <<tokens, gone>>,
         row.google = users[u].google, row.email = users[u].email,
         row.phone = users[u].phone, row.password = users[u].password,
         row.status # "none", Blocked(users[u].status) => Blocked(row.status)
  PROVE  TableOK(users', gone') /\ Evolves(users, users', gone, gone')
<1>1. \A v \in Uids : users'[v] = IF v = u THEN row ELSE users[v]
  BY DEF IInv, TableOK
<1> QED
  BY <1>1 DEF IInv, TableOK, Evolves

(* The updates of accounts. *)
LEMMA Updates ==
  ASSUME IInv,
         \/ \E r \in Requests : Refresh(r) \/ Rename(r)
         \/ \E u \in Uids : DeactivateUser(u) \/ DeleteUser(u)
                             \/ \E c \in Columns \ {"display_name"} : UpdateColumn(u, c)
  PROVE  IInv'
<1>0. TableOK(users, gone) /\ users \in [Uids -> UserRow]
  BY DEF IInv, TableOK
<1>1. ASSUME NEW r \in Requests, Refresh(r) PROVE IInv'
  <2> DEFINE q == req[r]
  <2>1. q \in Request /\ ReqOK(q, users, gone) /\ q.pc = "refresh" /\ q.todo \subseteq Columns
    BY <1>1 DEF IInv, Refresh, Request
  <2>2. PICK c \in q.todo : /\ req' = [req EXCEPT ![r].todo = q.todo \ {c}]
                           /\ \/ users' = [users EXCEPT ![q.uid].filled = @ \cup {c}]
                              \/ UNCHANGED users
    BY <1>1 DEF Refresh
  <2> DEFINE b == [q EXCEPT !.todo = q.todo \ {c}]
             row == [users[q.uid] EXCEPT !.filled = @ \cup {c}]
  <2>3. q.uid \in Uids /\ users[q.uid].status # "none" /\ users[q.uid] \in UserRow
    BY <1>0, <2>1 DEF ReqOK
  <2>4. row \in UserRow /\ row.google = users[q.uid].google /\ row.email = users[q.uid].email
        /\ row.phone = users[q.uid].phone /\ row.password = users[q.uid].password
        /\ row.status = users[q.uid].status
    BY <2>1, <2>3 DEF UserRow
  <2>5. b \in Request /\ ReqOK(b, users, gone)
    BY <2>1 DEF ReqOK, Request
  <2>6. req' = [req EXCEPT ![r] = b]
    BY <2>1, <2>2
  <2>7. UNCHANGED <<tokens, gone>>
    BY <1>1 DEF Refresh
  <2> HIDE DEF b
  <2>8. CASE UNCHANGED users
    BY <2>5, <2>6, <2>7, <2>8, OnlyRequest
  <2>9. CASE users' = [users EXCEPT ![q.uid].filled = @ \cup {c}]
    <3>1. users' = [users EXCEPT ![q.uid] = row]
      BY <2>9, <2>3
    <3> HIDE DEF row
    <3>2. TableOK(users', gone') /\ Evolves(users, users', gone, gone')
      BY <2>3, <2>4, <2>7, <3>1, UpdateOK
    <3>3. ReqOK(b, users', gone')
      BY <2>5, <3>2, ReqKept
    <3> QED
      BY <2>5, <2>6, <2>7, <3>2, <3>3, RowsAndRequest
  <2> QED
    BY <2>2, <2>8, <2>9
<1>2. ASSUME NEW r \in Requests, Rename(r) PROVE IInv'
  <2> DEFINE q == req[r]
             row == [users[q.uid] EXCEPT !.name = q.name,
                                         !.filled = @ \cup (Columns \cap {"display_name"})]
  <2>1. q \in Request /\ ReqOK(q, users, gone) /\ q.pc = "rename"
    BY <1>2 DEF IInv, Rename
  <2>2. q.uid \in Uids /\ users[q.uid].status # "none" /\ users[q.uid] \in UserRow /\ q.name \in Names
    BY <1>0, <2>1 DEF ReqOK
  <2>3. CASE UNCHANGED users
    BY <1>2, <2>3, EndOK DEF Rename
  <2>4. CASE users' = [users EXCEPT ![q.uid].name = q.name,
                                    ![q.uid].filled = @ \cup (Columns \cap {"display_name"})]
    <3>1. row \in UserRow /\ row.google = users[q.uid].google /\ row.email = users[q.uid].email
          /\ row.phone = users[q.uid].phone /\ row.password = users[q.uid].password
          /\ row.status = users[q.uid].status
      BY <2>2 DEF UserRow
    <3>2. users' = [users EXCEPT ![q.uid] = row]
      BY <1>0, <2>4, <2>2
    <3>3. req' = [req EXCEPT ![r] = Idle] /\ UNCHANGED <<tokens, gone>>
      BY <1>2 DEF Rename, End
    <3> HIDE DEF row
    <3>4. TableOK(users', gone') /\ Evolves(users, users', gone, gone')
      BY <2>2, <3>1, <3>2, <3>3, UpdateOK
    <3>5. Idle \in Request /\ ReqOK(Idle, users', gone')
      BY IdleOK DEF ReqOK
    <3> QED
      BY <3>3, <3>4, <3>5, RowsAndRequest
  <2> QED
    BY <1>2, <2>3, <2>4 DEF Rename
<1>3. ASSUME NEW u \in Uids, NEW c \in Columns, UpdateColumn(u, c) PROVE IInv'
  <2> DEFINE row == [users[u] EXCEPT !.filled = @ \cup {c}]
  <2>1. users[u].status # "none" /\ users[u] \in UserRow
    BY <1>0, <1>3 DEF IInv, UpdateColumn
  <2>2. row \in UserRow /\ row.google = users[u].google /\ row.email = users[u].email
        /\ row.phone = users[u].phone /\ row.password = users[u].password
        /\ row.status = users[u].status
    BY <2>1 DEF UserRow
  <2>3. users' = [users EXCEPT ![u] = row] /\ UNCHANGED <<tokens, req, gone>>
    BY <1>3 DEF UpdateColumn
  <2> HIDE DEF row
  <2>4. TableOK(users', gone') /\ Evolves(users, users', gone, gone')
    BY <2>1, <2>2, <2>3, UpdateOK
  <2> QED
    BY <2>3, <2>4, RowsAndRequest
<1>4. ASSUME NEW u \in Uids, DeactivateUser(u) PROVE IInv'
  <2> DEFINE row == [users[u] EXCEPT !.status = "deactivated"]
  <2>1. users[u].status # "none" /\ users[u] \in UserRow
    BY <1>0, <1>4 DEF IInv, DeactivateUser
  <2>2. row \in UserRow /\ row.google = users[u].google /\ row.email = users[u].email
        /\ row.phone = users[u].phone /\ row.password = users[u].password
        /\ row.status = "deactivated"
    BY <2>1 DEF UserRow
  <2>3. users' = [users EXCEPT ![u] = row] /\ UNCHANGED <<tokens, req, gone>>
    BY <1>4 DEF DeactivateUser
  <2> HIDE DEF row
  <2>4. TableOK(users', gone') /\ Evolves(users, users', gone, gone')
    BY <2>1, <2>2, <2>3, UpdateOK DEF Blocked
  <2> QED
    BY <2>3, <2>4, RowsAndRequest
<1>5. ASSUME NEW u \in Uids, DeleteUser(u) PROVE IInv'
  <2> DEFINE row == Wiped(users[u])
  <2>1. users[u] \in UserRow
    BY <1>0
  <2>2. row \in UserRow /\ row.google = Null /\ row.email = Null /\ row.phone = Null
        /\ ~row.password /\ row.status = "deleted"
    BY <2>1 DEF UserRow, Wiped
  <2>3. users' = [users EXCEPT ![u] = row] /\ gone' = gone \cup {u} /\ UNCHANGED <<tokens, req>>
    BY <1>5 DEF DeleteUser
  <2> HIDE DEF row
  <2>4. \A v \in Uids : users'[v] = IF v = u THEN row ELSE users[v]
    BY <1>0, <2>3
  <2>5. users' \in [Uids -> UserRow]
    BY <1>0, <2>2, <2>3
  <2>6. TableOK(users', gone')
    BY <1>0, <2>2, <2>3, <2>4, <2>5 DEF TableOK
  <2>7. Evolves(users, users', gone, gone')
    BY <2>2, <2>3, <2>4 DEF Evolves, Blocked
  <2> QED
    BY <2>3, <2>6, <2>7, RowsAndRequest
<1> QED
  BY <1>1, <1>2, <1>3, <1>4, <1>5

(* The steps about tokens. *)
LEMMA TokenSteps ==
  ASSUME IInv, (\E r \in Requests : Issue(r)) \/ (\E u \in Uids : Expire(u))
  PROVE  IInv'
<1>1. ASSUME NEW r \in Requests, Issue(r) PROVE IInv'
  <2>1. req[r].uid \in Uids /\ users[req[r].uid].status # "none"
    BY <1>1 DEF IInv, ReqOK, Issue
  <2>2. req' = [req EXCEPT ![r] = Idle] /\ tokens' = tokens \cup {req[r].uid}
        /\ UNCHANGED <<users, gone>>
    BY <1>1 DEF Issue, End
  <2>3. Idle \in Request /\ ReqOK(Idle, users, gone)
    BY IdleOK DEF ReqOK
  <2> QED
    BY <2>1, <2>2, <2>3 DEF IInv
<1>2. ASSUME NEW u \in Uids, Expire(u) PROVE IInv'
  BY <1>2 DEF Expire, IInv
<1> QED
  BY <1>1, <1>2

--------------------------------------------------------------------------------
(* The invariant. *)

(* It holds of the empty table and of one with a Google account. *)
LEMMA InitIInv == Init => IInv
<1> SUFFICES ASSUME Init PROVE IInv
  OBVIOUS
<1>1. TableOK(users, gone)
  <2>1. CASE users = [u \in Uids |-> NoRow]
    BY <2>1 DEF Init, TableOK, NoRow, UserRow
  <2>2. ASSUME NEW old \in Uids, NEW g \in Googles,
               users = [u \in Uids |-> IF u = old
                          THEN [GoogleRow(g, Profile[g].name, {}) EXCEPT !.filled = {}] ELSE NoRow]
        PROVE  TableOK(users, gone)
    <3> DEFINE row == [GoogleRow(g, Profile[g].name, {}) EXCEPT !.filled = {}]
    <3>1. Profile[g].name \in Names /\ Profile[g].email \in Emails
      BY AccountsAssumption
    <3>2. row \in UserRow /\ row.status = "active"
      BY <3>1 DEF GoogleRow, UserRow
    <3>3. NoRow \in UserRow /\ NoRow.google = Null /\ NoRow.status = "none"
      BY DEF NoRow, UserRow
    <3>4. \A u \in Uids : users[u] = IF u = old THEN row ELSE NoRow
      BY <2>2
    <3>5. users \in [Uids -> UserRow] /\ gone = {}
      BY <2>2, <3>2, <3>3 DEF Init
    <3> HIDE DEF row
    <3> QED
      BY <3>2, <3>3, <3>4, <3>5 DEF TableOK
  <2> QED
    BY <2>1, <2>2 DEF Init
<1>2. req \in [Requests -> Request] /\ \A r \in Requests : ReqOK(req[r], users, gone)
  BY IdleOK DEF Init, ReqOK
<1> QED
  BY <1>1, <1>2 DEF Init, IInv

(* Every step preserves it. *)
LEMMA StepIInv == IInv /\ [Next]_vars => IInv'
<1> SUFFICES ASSUME IInv, [Next]_vars PROVE IInv'
  OBVIOUS
<1>1. CASE UNCHANGED vars
  BY <1>1 DEF vars, IInv
<1>2. CASE Next
  BY <1>2, SignInReads, OtherReads, Inserts, Updates, TokenSteps DEF Next
<1> QED
  BY <1>1, <1>2

(* It holds in every reachable state. *)
LEMMA Invariant == Spec => []IInv
  BY InitIInv, StepIInv, PTL DEF Spec

--------------------------------------------------------------------------------
(* The properties. *)

(* Every reachable state is well typed. *)
THEOREM TypeCorrect == Spec => []TypeOK
<1>1. IInv => TypeOK
  BY DEF IInv, TableOK, TypeOK
<1> QED
  BY <1>1, Invariant, PTL

(* No path through a sign-in or a handshake, with any retries and races, lets *)
(* in an account that was deactivated or deleted before the request began.    *)
THEOREM BlockedAccountsStayOut == Spec => []LatecomersStayOut
<1>1. IInv => LatecomersStayOut
  BY DEF IInv, ReqOK, LatecomersStayOut
<1> QED
  BY <1>1, Invariant, PTL

(* Nothing gives a deleted account its identity back. *)
THEOREM DeletionIsFinal == Spec => []IdentityStaysWiped
<1>1. IInv => IdentityStaysWiped
  BY DEF IInv, TableOK, IdentityStaysWiped
<1> QED
  BY <1>1, Invariant, PTL

(* Google sign-ins end at the one account of the Google account, however *)
(* many first sign-ins and renames race.                                 *)
THEOREM OneAccountPerGoogle == Spec => []GoogleFindsItsAccount
<1>1. IInv => GoogleFindsItsAccount
  BY DEF IInv, TableOK, ReqOK, GoogleFindsItsAccount
<1> QED
  BY <1>1, Invariant, PTL

(* What is gone and unattended stays as it is in every step. *)
LEMMA InertStep ==
  ASSUME IInv, [Next]_vars, NEW u \in gone, Unattended(u)
  PROVE  users'[u] = users[u] /\ Unattended(u)'
<1>0. /\ u \in Uids /\ u # Null /\ u \notin tokens /\ users \in [Uids -> UserRow]
      /\ users[u].status # "none" /\ ~users[u].password /\ users[u].google = Null
      /\ \A r \in Requests : req[r].uid # u
      /\ req \in [Requests -> Request]
  BY AccountsAssumption DEF IInv, TableOK, Unattended
<1>1. ASSUME NEW r \in Requests, NEW q, q.uid # u, req' = [req EXCEPT ![r] = q],
             users'[u] = users[u], u \notin tokens'
      PROVE  users'[u] = users[u] /\ Unattended(u)'
  BY <1>0, <1>1 DEF Unattended
<1>2. Idle.uid = Null
  BY DEF Idle
<1>3. ASSUME NEW r \in Requests, End(r), users'[u] = users[u], u \notin tokens'
      PROVE  users'[u] = users[u] /\ Unattended(u)'
  BY <1>0, <1>1, <1>2, <1>3 DEF End
<1>4. ASSUME NEW r \in Requests, NEW l, Goto(r, l), users'[u] = users[u], u \notin tokens'
      PROVE  users'[u] = users[u] /\ Unattended(u)'
  <2> DEFINE q == [req[r] EXCEPT !.pc = l]
  <2>1. q.uid # u
    BY <1>0 DEF Request
  <2>2. req' = [req EXCEPT ![r] = q]
    BY <1>0, <1>4 DEF Goto
  <2> HIDE DEF q
  <2> QED
    BY <1>1, <1>4, <2>1, <2>2
<1>5. ASSUME NEW r \in Requests, NEW start, Begin(r, start), start.uid # u,
             DOMAIN start = DOMAIN Idle, users'[u] = users[u], u \notin tokens'
      PROVE  users'[u] = users[u] /\ Unattended(u)'
  <2> DEFINE q == [start EXCEPT !.late = Late]
  <2>1. q.uid # u
    BY <1>5 DEF Idle
  <2>2. req' = [req EXCEPT ![r] = q]
    BY <1>5 DEF Begin, Late
  <2> HIDE DEF q
  <2> QED
    BY <1>1, <1>5, <2>1, <2>2
<1>6. ASSUME NEW r \in Requests,
             \/ \E f \in Forms : CheckEmail(r, f)
             \/ \E v \in Uids : Login(r, v) \/ Handshake(r, v) \/ \E n \in Names : CheckName(r, v, n)
      PROVE  users'[u] = users[u] /\ Unattended(u)'
  <2>1. ASSUME NEW f \in Forms, CheckEmail(r, f) PROVE users'[u] = users[u] /\ Unattended(u)'
    <3>1. [Idle EXCEPT !.pc = "phone", !.form = f].uid # u
      BY <1>0 DEF Idle
    <3> QED
      BY <1>0, <1>5, <2>1, <3>1 DEF CheckEmail, Idle
  <2>2. ASSUME NEW v \in Uids, Login(r, v) PROVE users'[u] = users[u] /\ Unattended(u)'
    <3>1. v # u
      BY <1>0, <2>2 DEF Login
    <3>2. [Idle EXCEPT !.pc = "issue", !.uid = v, !.status = users[v].status].uid # u
      BY <3>1 DEF Idle
    <3> QED
      BY <1>0, <1>5, <2>2, <3>2 DEF Login, Idle
  <2>3. ASSUME NEW v \in Uids, Handshake(r, v) PROVE users'[u] = users[u] /\ Unattended(u)'
    <3>1. [Idle EXCEPT !.pc = "upgrade", !.uid = v].uid # u
      BY <1>0, <2>3 DEF Handshake, Idle
    <3> QED
      BY <1>0, <1>5, <2>3, <3>1 DEF Handshake, Idle
  <2>4. ASSUME NEW v \in Uids, NEW n \in Names, CheckName(r, v, n)
        PROVE  users'[u] = users[u] /\ Unattended(u)'
    <3>1. [Idle EXCEPT !.pc = "rename", !.uid = v, !.name = n].uid # u
      BY <1>0, <2>4 DEF CheckName, Idle
    <3> QED
      BY <1>0, <1>5, <2>4, <3>1 DEF CheckName, Idle
  <2> QED
    BY <1>6, <2>1, <2>2, <2>3, <2>4
<1>7. ASSUME NEW r \in Requests, (\E g \in Googles : LookupGoogle(r, g)) \/ LookupAgain(r)
      PROVE  users'[u] = users[u] /\ Unattended(u)'
  <2>1. ASSUME NEW g \in Googles, NEW v \in Uids, LinkedTo(v, g) PROVE v # u
    BY <1>0, <2>1, AccountsAssumption DEF LinkedTo
  <2>2. ASSUME NEW g \in Googles, LookupGoogle(r, g) PROVE users'[u] = users[u] /\ Unattended(u)'
    <3> DEFINE i == [Idle EXCEPT !.google = g]
    <3>1. ASSUME NEW v \in Uids, NEW photo \in SUBSET {"avatar_url"},
                 LinkedTo(v, g), Begin(r, Found(i, v, photo))
          PROVE  users'[u] = users[u] /\ Unattended(u)'
      <4>1. Found(i, v, photo).uid = v /\ DOMAIN Found(i, v, photo) = DOMAIN Idle
        BY DEF Found, Idle
      <4> QED
        BY <1>0, <1>5, <2>1, <2>2, <3>1, <4>1 DEF LookupGoogle
    <3>2. ASSUME Begin(r, [i EXCEPT !.pc = "provision", !.name = Profile[g].name])
          PROVE  users'[u] = users[u] /\ Unattended(u)'
      <4> DEFINE p == [i EXCEPT !.pc = "provision", !.name = Profile[g].name]
      <4>1. p.uid = Null /\ DOMAIN p = DOMAIN Idle
        BY DEF Idle
      <4>2. Begin(r, p) /\ users'[u] = users[u] /\ u \notin tokens'
        BY <1>0, <2>2, <3>2 DEF LookupGoogle
      <4> HIDE DEF p
      <4> QED
        BY <1>0, <1>5, <4>1, <4>2
    <3> QED
      BY <2>2, <3>1, <3>2 DEF LookupGoogle
  <2>3. CASE LookupAgain(r)
    <3>1. req[r].google \in Googles
      BY <2>3 DEF LookupAgain, IInv, ReqOK
    <3>2. ASSUME NEW v \in Uids, NEW photo \in SUBSET {"avatar_url"},
                 LinkedTo(v, req[r].google), req' = [req EXCEPT ![r] = Found(req[r], v, photo)]
          PROVE  users'[u] = users[u] /\ Unattended(u)'
      <4>1. Found(req[r], v, photo).uid = v
        BY <1>0 DEF Found, Request
      <4> QED
        BY <1>0, <1>1, <2>1, <2>3, <3>1, <3>2, <4>1 DEF LookupAgain
    <3> QED
      BY <1>0, <1>4, <2>3, <3>2 DEF LookupAgain
  <2> QED
    BY <1>7, <2>2, <2>3
<1>8. ASSUME NEW r \in Requests, CreateUser(r) \/ Provision(r)
      PROVE  users'[u] = users[u] /\ Unattended(u)'
  <2>1. ASSUME NEW v \in Uids, NEW row, Insert(r, v, row), UNCHANGED tokens
        PROVE  users'[u] = users[u] /\ Unattended(u)'
    <3> DEFINE q == [req[r] EXCEPT !.pc = "issue", !.uid = v, !.status = "active"]
    <3>1. v # u
      BY <1>0, <2>1 DEF Insert, Exists
    <3>2. q.uid # u
      BY <1>0, <3>1 DEF Request
    <3>3. req' = [req EXCEPT ![r] = q] /\ users'[u] = users[u] /\ u \notin tokens'
      BY <1>0, <2>1, <3>1 DEF Insert
    <3> HIDE DEF q
    <3> QED
      BY <1>1, <3>2, <3>3
  <2>2. CASE CreateUser(r)
    BY <1>0, <1>3, <2>1, <2>2 DEF CreateUser
  <2>3. CASE Provision(r)
    <3> DEFINE q == [req[r] EXCEPT !.pc = "again", !.name = Profile[req[r].google].retry]
    <3>1. q.uid # u
      BY <1>0 DEF Request
    <3>2. req' = [req EXCEPT ![r].pc = "again", ![r].name = Profile[req[r].google].retry]
            => req' = [req EXCEPT ![r] = q]
      BY <1>0
    <3> HIDE DEF q
    <3>3. UNCHANGED users => users'[u] = users[u] /\ u \notin tokens'
      BY <1>0, <2>3 DEF Provision
    <3>4. req' = [req EXCEPT ![r] = q] /\ UNCHANGED users => users'[u] = users[u] /\ Unattended(u)'
      BY <1>1, <3>1, <3>3
    <3>5. Goto(r, "refused") /\ UNCHANGED users => users'[u] = users[u] /\ Unattended(u)'
      BY <1>4, <3>3
    <3> QED
      BY <2>1, <2>3, <3>2, <3>4, <3>5 DEF Provision
  <2> QED
    BY <1>8, <2>2, <2>3
<1>9. ASSUME NEW r \in Requests, Refresh(r) PROVE users'[u] = users[u] /\ Unattended(u)'
  <2>1. PICK c \in req[r].todo : /\ req' = [req EXCEPT ![r].todo = req[r].todo \ {c}]
                                /\ \/ users' = [users EXCEPT ![req[r].uid].filled = @ \cup {c}]
                                   \/ UNCHANGED users
    BY <1>9 DEF Refresh
  <2> DEFINE q == [req[r] EXCEPT !.todo = req[r].todo \ {c}]
  <2>2. q.uid # u
    BY <1>0 DEF Request
  <2>3. req' = [req EXCEPT ![r] = q]
    BY <1>0, <2>1
  <2>4. users'[u] = users[u] /\ u \notin tokens'
    BY <1>0, <1>9, <2>1 DEF Refresh
  <2> HIDE DEF q
  <2> QED
    BY <1>1, <2>2, <2>3, <2>4
<1>10. ASSUME NEW r \in Requests,
              CheckPhone(r) \/ CheckStatus(r) \/ Issue(r) \/ Rename(r) \/ Upgrade(r) \/ Abort(r)
       PROVE  users'[u] = users[u] /\ Unattended(u)'
  <2>1. CASE CheckPhone(r)
    BY <1>0, <1>3, <1>4, <2>1 DEF CheckPhone
  <2>2. CASE CheckStatus(r)
    BY <1>0, <1>3, <1>4, <2>2 DEF CheckStatus
  <2>3. CASE Issue(r)
    BY <1>0, <1>3, <2>3 DEF Issue
  <2>4. CASE Rename(r)
    BY <1>0, <1>3, <2>4 DEF Rename
  <2>5. CASE Upgrade(r) \/ Abort(r)
    BY <1>0, <1>3, <2>5 DEF Upgrade, Abort
  <2> QED
    BY <1>10, <2>1, <2>2, <2>3, <2>4, <2>5
<1>11. ASSUME NEW v \in Uids,
              \/ Expire(v) \/ DeactivateUser(v) \/ DeleteUser(v)
              \/ \E c \in Columns \ {"display_name"} : UpdateColumn(v, c)
       PROVE  users'[u] = users[u] /\ Unattended(u)'
  BY <1>0, <1>11 DEF Expire, DeactivateUser, DeleteUser, UpdateColumn, Unattended
<1>12. CASE UNCHANGED vars
  BY <1>0, <1>12 DEF vars, Unattended
<1>13. CASE Next
  BY <1>13, <1>6, <1>7, <1>8, <1>9, <1>10, <1>11 DEF Next
<1> QED
  BY <1>12, <1>13

(* Once no token and no request speaks for a deleted account any more, its *)
(* row is left alone and nobody signs in to it again.                      *)
THEOREM DeletedAccountsRest == Spec => DeletedAccountIsInert
<1>1. IInv /\ [Next]_vars =>
        [\A u \in gone : Unattended(u) => users'[u] = users[u] /\ Unattended(u)']_vars
  BY InertStep
<1> QED
  BY <1>1, Invariant, PTL DEF Spec, DeletedAccountIsInert

================================================================================
