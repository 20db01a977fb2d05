-------------------------------- MODULE Accounts --------------------------------
(***************************************************************************)
(* The users table and what a sign-in hands out.  Registration, Google     *)
(* sign-in, password sign-in, renaming and the WebSocket handshake take    *)
(* several statements, and those of concurrent requests interleave; the    *)
(* other writes are single UPDATEs by user id that look at no status.      *)
(* Tokens are stateless: they work until they expire, whatever becomes of  *)
(* the account.                                                            *)
(*                                                                         *)
(* A request refused by its first statement changes nothing and is not a   *)
(* step.  Passwords typed are the right ones.                              *)
(***************************************************************************)

CONSTANTS
  Uids,      \* the user ids that can be handed out (a bound)
  Names,     \* usernames
  Fold,      \* Fold[n]: LOWER(n)
  Emails, Phones,
  Forms,     \* the sign-up forms that are sent
  Googles,   \* the Google accounts that sign in
  Profile,   \* Profile[g]: the derived username, the one of the retry, the email
  Columns,   \* the wiped columns without a unique index (a bound: four in the program)
  Requests,  \* the requests in progress at one time
  Null       \* SQL NULL, also "no user"

ASSUME AccountsAssumption ==
  /\ Fold \in [Names -> Names]
  /\ Forms \subseteq [name : Names, email : Emails, phone : Phones]
  /\ Profile \in [Googles -> [name : Names, retry : Names, email : Emails]]
  /\ Columns \subseteq {"display_name", "avatar_url", "public_key", "custom_pin"}
  /\ Null \notin Uids \cup Names \cup Emails \cup Phones \cup Googles

VARIABLES
  users,   \* users[u]: the row with user id u
  tokens,  \* the accounts somebody holds an unexpired token of
  req,     \* where each request is, with its local variables
  gone     \* history: the accounts that were deleted once

vars == <<users, tokens, req, gone>>

UserRow == [name : Names \cup {Null}, email : Emails \cup {Null}, phone : Phones \cup {Null},
            google : Googles \cup {Null}, password : BOOLEAN, filled : SUBSET Columns,
            status : {"none", "active", "deactivated", "deleted"}]

NoRow == [name |-> Null, email |-> Null, phone |-> Null, google |-> Null,
          password |-> FALSE, filled |-> {}, status |-> "none"]

PC == {"idle", "phone", "insert", "provision", "again", "refresh", "refused",
       "issue", "rename", "upgrade"}

(* uid: the account found, inserted or named by the token; form, google: the *)
(* input; name: the username to write; status: user.Status as read; todo:    *)
(* the columns the Google sign-in has yet to write; late (history): the      *)
(* accounts that were not active when the request began.                     *)
Request == [pc : PC, uid : Uids \cup {Null}, form : Forms \cup {Null},
            google : Googles \cup {Null}, name : Names \cup {Null},
            status : {"none", "active", "deactivated", "deleted"},
            todo : SUBSET Columns, late : SUBSET Uids]

Idle == [pc |-> "idle", uid |-> Null, form |-> Null, google |-> Null, name |-> Null,
         status |-> "none", todo |-> {}, late |-> {}]

TypeOK ==
  /\ users \in [Uids -> UserRow]
  /\ tokens \subseteq Uids
  /\ req \in [Requests -> Request]
  /\ gone \subseteq Uids

--------------------------------------------------------------------------------
(* The table. *)

Exists(u) == users[u].status # "none"

(* The row CreateUser inserts. *)
StandardRow(f) ==
  [name |-> f.name, email |-> f.email, phone |-> f.phone, google |-> Null, password |-> TRUE,
   filled |-> Columns \cap {"display_name", "public_key"}, status |-> "active"]

(* The row CreateOrGetUserByGoogle inserts; not every profile has a photo. *)
GoogleRow(g, name, photo) ==
  [name |-> name, email |-> Profile[g].email, phone |-> Null, google |-> g, password |-> FALSE,
   filled |-> Columns \cap ({"display_name"} \cup photo), status |-> "active"]

(* The unique indexes on username, email, phone_number and google_id; NULLs *)
(* are distinct.                                                            *)
SameKey(a, b) ==
  \/ a.name = b.name
  \/ a.email # Null /\ a.email = b.email
  \/ a.phone # Null /\ a.phone = b.phone
  \/ a.google # Null /\ a.google = b.google

Violates(row) == \E v \in Uids : Exists(v) /\ SameKey(users[v], row)

(* loginBlockedReason *)
Blocked(status) == status \in {"deactivated", "deleted"}

(* The table is empty, or holds a Google account from before display_name *)
(* existed.                                                               *)
Init ==
  /\ \/ users = [u \in Uids |-> NoRow]
     \/ \E old \in Uids, g \in Googles :
          users = [u \in Uids |-> IF u = old
                     THEN [GoogleRow(g, Profile[g].name, {}) EXCEPT !.filled = {}] ELSE NoRow]
  /\ tokens = {}
  /\ req = [r \in Requests |-> Idle]
  /\ gone = {}

--------------------------------------------------------------------------------
(* Requests. *)

(* A request begins with its first statement; start is what it then knows. *)
Begin(r, start) ==
  /\ req[r].pc = "idle"
  /\ req' = [req EXCEPT ![r] = [start EXCEPT
               !.late = {u \in Uids : users[u].status \in {"deactivated", "deleted"}}]]

Goto(r, l) == req' = [req EXCEPT ![r].pc = l]

End(r) == req' = [req EXCEPT ![r] = Idle]

(* A statement fails or the client goes away; a refusal has been answered. *)
Abort(r) ==
  /\ req[r].pc # "idle"
  /\ End(r)
  /\ UNCHANGED <<users, tokens, gone>>

--------------------------------------------------------------------------------
(* Registration. *)

(* CreateUser: is the email free? *)
CheckEmail(r, f) ==
  /\ \A v \in Uids : users[v].email # f.email
  /\ Begin(r, [Idle EXCEPT !.pc = "phone", !.form = f])
  /\ UNCHANGED <<users, tokens, gone>>

(* Is the phone number free? *)
CheckPhone(r) ==
  /\ req[r].pc = "phone"
  /\ IF \E v \in Uids : users[v].phone = req[r].form.phone THEN End(r) ELSE Goto(r, "insert")
  /\ UNCHANGED <<users, tokens, gone>>

(* INSERT of a row under a fresh user id u. *)
Insert(r, u, row) ==
  /\ ~Exists(u)
  /\ users' = [users EXCEPT ![u] = row]
  /\ req' = [req EXCEPT ![r].pc = "issue", ![r].uid = u, ![r].status = "active"]

CreateUser(r) ==
  /\ req[r].pc = "insert"
  /\ LET row == StandardRow(req[r].form) IN
       \/ Violates(row) /\ End(r) /\ UNCHANGED users
       \/ ~Violates(row) /\ \E u \in Uids : Insert(r, u, row)
  /\ UNCHANGED <<tokens, gone>>

--------------------------------------------------------------------------------
(* Sign-in. *)

(* Login: the row, the password and loginBlockedReason. *)
Login(r, u) ==
  /\ Exists(u)
  /\ users[u].password
  /\ ~Blocked(users[u].status)
  /\ Begin(r, [Idle EXCEPT !.pc = "issue", !.uid = u, !.status = users[u].status])
  /\ UNCHANGED <<users, tokens, gone>>

(* Mutant: an account with the same email counts as the person's own. *)
LinkedTo_ByEmail(u, g) == users[u].google = g \/ users[u].email = Profile[g].email

(* CreateOrGetUserByGoogle looks up google_id. *)
LinkedTo(u, g) == users[u].google = g

(* The account is u: a photo that differs is to be re-synced, a missing *)
(* display name to be filled in.                                        *)
Found(q, u, photo) ==
  [q EXCEPT !.pc = "refresh", !.uid = u, !.status = users[u].status,
            !.todo = Columns \cap (photo \cup ({"display_name"} \ users[u].filled))]

LookupGoogle(r, g) ==
  LET q == [Idle EXCEPT !.google = g] IN
  /\ \/ \E u \in Uids, photo \in SUBSET {"avatar_url"} :
          LinkedTo(u, g) /\ Begin(r, Found(q, u, photo))
     \/ /\ \A u \in Uids : ~LinkedTo(u, g)
        /\ Begin(r, [q EXCEPT !.pc = "provision", !.name = Profile[g].name])
  /\ UNCHANGED <<users, tokens, gone>>

(* The same lookup in the second call, with the other username. *)
LookupAgain(r) ==
  LET q == req[r] IN
  /\ q.pc = "again"
  /\ \/ \E u \in Uids, photo \in SUBSET {"avatar_url"} :
          LinkedTo(u, q.google) /\ req' = [req EXCEPT ![r] = Found(q, u, photo)]
     \/ (\A u \in Uids : ~LinkedTo(u, q.google)) /\ Goto(r, "provision")
  /\ UNCHANGED <<users, tokens, gone>>

(* The INSERT; after a unique violation GoogleCallback tries a second username. *)
Provision(r) ==
  LET q == req[r]
      second == Profile[q.google].retry
      Row(photo) == GoogleRow(q.google, q.name, photo) IN
  /\ q.pc = "provision"
  /\ \/ /\ ~Violates(Row({}))
        /\ \E u \in Uids, photo \in SUBSET {"avatar_url"} : Insert(r, u, Row(photo))
     \/ /\ Violates(Row({}))
        /\ IF q.name = second THEN Goto(r, "refused")
           ELSE req' = [req EXCEPT ![r].pc = "again", ![r].name = second]
        /\ UNCHANGED users
  /\ UNCHANGED <<tokens, gone>>

(* Mutant: the row is saved as it was found, its Google link included. *)
Refresh_WholeRow(r) ==
  LET q == req[r] IN
  /\ q.pc = "refresh"
  /\ \E c \in q.todo :
       /\ req' = [req EXCEPT ![r].todo = q.todo \ {c}]
       /\ users' = [users EXCEPT ![q.uid].filled = @ \cup {c}, ![q.uid].google = q.google]
  /\ UNCHANGED <<tokens, gone>>

(* One UPDATE by user id of the account found, the photo first; a failure is *)
(* only logged.                                                              *)
Refresh(r) ==
  LET q == req[r] IN
  /\ q.pc = "refresh"
  /\ \E c \in q.todo :
       /\ c = "display_name" => "avatar_url" \notin q.todo
       /\ req' = [req EXCEPT ![r].todo = q.todo \ {c}]
       /\ \/ users' = [users EXCEPT ![q.uid].filled = @ \cup {c}]
          \/ UNCHANGED users
  /\ UNCHANGED <<tokens, gone>>

(* loginBlockedReason on the status that was read. *)
CheckStatus(r) ==
  /\ req[r].pc = "refresh"
  /\ req[r].todo = {}
  /\ IF Blocked(req[r].status) THEN End(r) ELSE Goto(r, "issue")
  /\ UNCHANGED <<users, tokens, gone>>

(* GenerateToken, and the answer that carries it. *)
Issue(r) ==
  /\ req[r].pc = "issue"
  /\ tokens' = tokens \cup {req[r].uid}
  /\ End(r)
  /\ UNCHANGED <<users, gone>>

Expire(u) ==
  /\ u \in tokens
  /\ tokens' = tokens \ {u}
  /\ UNCHANGED <<users, req, gone>>

--------------------------------------------------------------------------------
(* What the holder of a token can do. *)

(* UpdateProfile: no other account may have the name in any case. *)
CheckName(r, u, n) ==
  /\ u \in tokens
  /\ \A v \in Uids \ {u} : Exists(v) => Fold[users[v].name] # Fold[n]
  /\ Begin(r, [Idle EXCEPT !.pc = "rename", !.uid = u, !.name = n])
  /\ UNCHANGED <<users, tokens, gone>>

Rename(r) ==
  LET q == req[r] IN
  /\ q.pc = "rename"
  /\ IF \E v \in Uids \ {q.uid} : users[v].name = q.name
     THEN UNCHANGED users
     ELSE users' = [users EXCEPT ![q.uid].name = q.name,
                                 ![q.uid].filled = @ \cup (Columns \cap {"display_name"})]
  /\ End(r)
  /\ UNCHANGED <<tokens, gone>>

(* UpdateAvatarURL, UpdatePublicKey, UpdatePinSettings *)
UpdateColumn(u, c) ==
  /\ u \in tokens
  /\ users' = [users EXCEPT ![u].filled = @ \cup {c}]
  /\ UNCHANGED <<tokens, req, gone>>

DeactivateUser(u) ==
  /\ u \in tokens
  /\ users' = [users EXCEPT ![u].status = "deactivated"]
  /\ UNCHANGED <<tokens, req, gone>>

(* Mutant: the Google account stays linked. *)
Wiped_StillLinked(row) ==
  [row EXCEPT !.email = Null, !.phone = Null, !.password = FALSE,
              !.filled = {}, !.status = "deleted"]

(* The columns DeleteUser writes; the username stays. *)
Wiped(row) ==
  [row EXCEPT !.email = Null, !.phone = Null, !.google = Null, !.password = FALSE,
              !.filled = {}, !.status = "deleted"]

DeleteUser(u) ==
  /\ u \in tokens
  /\ users' = [users EXCEPT ![u] = Wiped(@)]
  /\ gone' = gone \cup {u}
  /\ UNCHANGED <<tokens, req>>

(* Mutant: the handshake looks at the token only. *)
Handshake_TokenOnly(r, u) ==
  /\ u \in tokens
  /\ Begin(r, [Idle EXCEPT !.pc = "upgrade", !.uid = u])
  /\ UNCHANGED <<users, tokens, gone>>

(* ServeHTTP of the WebSocket endpoint: token and status. *)
Handshake(r, u) ==
  /\ u \in tokens
  /\ users[u].status = "active"
  /\ Begin(r, [Idle EXCEPT !.pc = "upgrade", !.uid = u])
  /\ UNCHANGED <<users, tokens, gone>>

(* Upgrade and NewClient: the connection is the hub's from here on. *)
Upgrade(r) ==
  /\ req[r].pc = "upgrade"
  /\ End(r)
  /\ UNCHANGED <<users, tokens, gone>>

--------------------------------------------------------------------------------
Next ==
  \/ \E r \in Requests :
       \/ \E f \in Forms : CheckEmail(r, f)
       \/ \E g \in Googles : LookupGoogle(r, g)
       \/ \E u \in Uids : Login(r, u) \/ Handshake(r, u) \/ \E n \in Names : CheckName(r, u, n)
       \/ CheckPhone(r) \/ CreateUser(r) \/ LookupAgain(r) \/ Provision(r) \/ Refresh(r)
       \/ CheckStatus(r) \/ Issue(r) \/ Rename(r) \/ Upgrade(r) \/ Abort(r)
  \/ \E u \in Uids :
       \/ Expire(u) \/ DeactivateUser(u) \/ DeleteUser(u)
       \/ \E c \in Columns \ {"display_name"} : UpdateColumn(u, c)

Spec == Init /\ [][Next]_vars

--------------------------------------------------------------------------------
(* Properties. *)

(* An account that was deactivated or deleted before a sign-in or a handshake *)
(* began gets neither a token nor a connection out of it, whatever path and   *)
(* whatever retries the request takes (loginBlockedReason, ServeHTTP).        *)
LatecomersStayOut ==
  \A r \in Requests : req[r].pc \in {"issue", "upgrade"} => req[r].uid \notin req[r].late

(* DeleteUser takes the identity away for good: no later write of a token   *)
(* holder, and no Google sign-in that had found the account before, puts    *)
(* the password, the email, the phone number or the Google link back.       *)
IdentityStaysWiped ==
  \A u \in gone :
    /\ ~users[u].password
    /\ users[u].email = Null /\ users[u].phone = Null /\ users[u].google = Null

(* A Google sign-in, however it raced with other first sign-ins of the same *)
(* person and with renames, ends at the one account linked to that Google   *)
(* account, unless that account was deleted on the way.                     *)
GoogleFindsItsAccount ==
  /\ \A u, v \in Uids : users[u].google # Null /\ users[u].google = users[v].google => u = v
  /\ \A r \in Requests :
       req[r].pc = "issue" /\ req[r].google # Null =>
         users[req[r].uid].google = req[r].google \/ req[r].uid \in gone

(* Nothing is left that speaks for u: no token, no request under way. *)
Unattended(u) == u \notin tokens /\ \A r \in Requests : req[r].uid # u

(* Once the last token of a deleted account has expired and the requests    *)
(* that knew it have ended, its row never changes and nobody gets a token   *)
(* or a request for it again: "the account can never sign in again".        *)
DeletedAccountIsInert ==
  [][\A u \in gone : Unattended(u) => users'[u] = users[u] /\ Unattended(u)']_vars

--------------------------------------------------------------------------------
(* What comments of the code say and the model refutes. *)

(* postgres.go, DeleteUser: "so a re-registration under the same            *)
(* email/Google account isn't blocked by this row".  A Google sign-in that  *)
(* cannot be provisioned is in the way of an account that is in use.        *)
ReturnIsNotBlocked ==
  [][\A r \in Requests : req[r].pc = "provision" /\ req'[r].pc = "refused" =>
       \E v \in Uids \ gone :
         Exists(v) /\ SameKey(users[v], GoogleRow(req[r].google, req[r].name, {}))]_vars

(* handler.go, DeleteAccount: "there is no way back from this endpoint".  *)
(* A token issued before can deactivate the deleted account, which makes  *)
(* it one that can be reactivated.                                        *)
NoWayBack == \A u \in gone : users[u].status = "deleted"

(* handler.go, DeleteAccount: "every PII column ... is wiped".  A token   *)
(* issued before, or a Google sign-in under way, fills them again.        *)
DeletedStaysBlank == \A u \in gone : users[u].filled = {}

(* postgres.go, UpdateProfile: names that differ only in case "cannot both  *)
(* exist".  Registration does not look, and two renames can overlap.        *)
LookalikesCannotCoexist ==
  \A u, v \in Uids \ gone :
    Exists(u) /\ Exists(v) /\ Fold[users[u].name] = Fold[users[v].name] => u = v
================================================================================
