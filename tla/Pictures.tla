-------------------------------- MODULE Pictures --------------------------------
(***************************************************************************)
(* Profile names and pictures, of users and of groups.  An upload stores   *)
(* an object in the bucket, points the row at it, reads the row back and   *)
(* tells the peers; the object is deleted again when that fails.  A user's *)
(* peers are sent the profile that was read back, a group's members are    *)
(* told to fetch it.  All of this runs under the context of the HTTP       *)
(* request: once the client is gone every further call fails.              *)
(***************************************************************************)
CONSTANTS
  Subjects,   \* users and groups with a name and a picture
  Groups,     \* those that are groups
  Names,
  Keys,       \* object keys, fresh UUIDs (a bound)
  GooglePhoto, NoPicture, Blank, None,
  Requests    \* the requests in progress at one time

Profile == [name : Names \cup {Blank}, url : Keys \cup {GooglePhoto, NoPicture}]
NoProfile == [name |-> Blank, url |-> NoPicture]

ASSUME PicturesAssumption ==
  /\ Groups \subseteq Subjects
  /\ {GooglePhoto, NoPicture} \cap Keys = {}
  /\ Blank \notin Names
  /\ None \notin Keys \cup Names \cup Subjects \cup Profile

VARIABLES
  row,      \* row[s]: the name and avatar_url in Postgres
  objects,  \* the keys present in the bucket
  shown,    \* shown[s]: what the peers of s display
  req,      \* where each request is, with its local variables
  mark,     \* history: what happened to each key
  excuse    \* history: why shown[s] may be out of date

vars == <<row, objects, shown, req, mark, excuse>>

(* read: the record read back; there: the client is waiting; alone (history): *)
(* nothing else has touched the subject since the request began.              *)
Request == [pc : {"idle", "write", "read", "cleanup", "tell"}, subject : Subjects \cup {None},
            key : Keys \cup {None}, name : Names \cup {None}, read : Profile,
            there : BOOLEAN, alone : BOOLEAN]

Idle == [pc |-> "idle", subject |-> None, key |-> None, name |-> None,
         read |-> NoProfile, there |-> TRUE, alone |-> TRUE]

Mark == {"used", "replaced", "interrupted", "misreported"}

TypeOK ==
  /\ row \in [Subjects -> Profile \cup {None}]
  /\ objects \subseteq Keys
  /\ shown \in [Subjects -> Profile]
  /\ req \in [Requests -> Request]
  /\ mark \in [Keys -> SUBSET Mark]
  /\ excuse \in [Subjects -> BOOLEAN]

(* Subjects share no row, object or request: one of them is enough. *)
Init ==
  /\ \E s \in Subjects, n \in Names :
       row = [t \in Subjects |-> IF t = s THEN [name |-> n, url |-> NoPicture] ELSE None]
  /\ objects = {}
  /\ shown = [s \in Subjects |-> IF row[s] = None THEN NoProfile ELSE row[s]]
  /\ req = [r \in Requests |-> Idle]
  /\ mark = [k \in Keys |-> {}]
  /\ excuse = [s \in Subjects |-> FALSE]

--------------------------------------------------------------------------------
Exists(s) == row[s] # None

(* The requests that have begun to deal with s. *)
Busy(s) == {r \in Requests : req[r].subject = s}

Goto(r, l) == req' = [req EXCEPT ![r].pc = l]

End(r) == req' = [req EXCEPT ![r] = Idle]

Marked(k, m) == [mark EXCEPT ![k] = @ \cup {m}]

(* A request about s begins; if others are under way none of them is alone. *)
Begin(r, s, start) ==
  /\ req[r].pc = "idle"
  /\ Exists(s)
  /\ req' = [q \in Requests |->
       IF q = r THEN [start EXCEPT !.subject = s, !.pc = "write", !.alone = Busy(s) = {}]
       ELSE IF q \in Busy(s) THEN [req[q] EXCEPT !.alone = FALSE] ELSE req[q]]
  /\ excuse' = [excuse EXCEPT ![s] = @ \/ (s \notin Groups /\ Busy(s) # {})]

(* The row of s becomes p; the key it held is no longer referred to. *)
Set(s, p, k, m) ==
  /\ row' = [row EXCEPT ![s] = p]
  /\ mark' = [x \in Keys |-> mark[x]
       \cup (IF Exists(s) /\ row[s].url = x /\ x # k THEN {"replaced"} ELSE {})
       \cup (IF x = k THEN m ELSE {})]

--------------------------------------------------------------------------------
(* Uploads and renames. *)

(* Mutant: the key is not a fresh one. *)
Upload_AnyKey(r, s, k) ==
  /\ Begin(r, s, [Idle EXCEPT !.key = k])
  /\ objects' = objects \cup {k}
  /\ mark' = Marked(k, "used")
  /\ UNCHANGED <<row, shown>>

(* storeUploadedAvatar: PutObject under a fresh key.  After an error the *)
(* object may be there all the same.                                     *)
Upload(r, s, k) ==
  /\ mark[k] = {}
  /\ \/ Begin(r, s, [Idle EXCEPT !.key = k]) /\ objects' = objects \cup {k} /\ mark' = Marked(k, "used")
     \/ /\ req[r].pc = "idle" /\ Exists(s)
        /\ objects' = objects \cup {k} /\ mark' = Marked(k, "interrupted")
        /\ UNCHANGED <<req, excuse>>
  /\ UNCHANGED <<row, shown>>

(* UpdateProfile and UpdateGroup validate the name and go on to write it. *)
Rename(r, s, n) ==
  /\ Begin(r, s, [Idle EXCEPT !.name = n])
  /\ UNCHANGED <<row, objects, shown, mark>>

(* The row after the update of a picture or of a name. *)
Written(q) ==
  [row[q.subject] EXCEPT !.url = IF q.key = None THEN @ ELSE q.key,
                         !.name = IF q.name = None THEN @ ELSE q.name]

(* The UPDATE succeeds. *)
Write(r) ==
  LET q == req[r] IN
  /\ q.pc = "write"
  /\ q.there
  /\ Exists(q.subject)
  /\ Set(q.subject, Written(q), Written(q).url, {})
  /\ Goto(r, "read")
  /\ UNCHANGED <<objects, shown, excuse>>

(* Mutant: a failed write leaves the object where it is. *)
AfterError_Kept(q) == "idle"

(* What an upload does after an error, and a rename. *)
AfterError(q) == IF q.key # None THEN "cleanup" ELSE "idle"

GiveUp(r) == IF AfterError(req[r]) = "idle" THEN End(r) ELSE Goto(r, AfterError(req[r]))

(* It fails, or finds no row: the group is gone. *)
WriteError(r) ==
  /\ req[r].pc = "write"
  /\ GiveUp(r)
  /\ UNCHANGED <<row, objects, shown, mark, excuse>>

(* It is carried out, but the answer is an error: the connection broke, or *)
(* the client left, while the commit was on its way.                       *)
WriteAnswerLost(r) ==
  LET q == req[r]  s == q.subject IN
  /\ q.pc = "write"
  /\ Exists(s)
  /\ Set(s, Written(q), Written(q).url, IF q.key = None THEN {} ELSE {"misreported"})
  /\ excuse' = [excuse EXCEPT ![s] = TRUE]
  /\ GiveUp(r)
  /\ UNCHANGED <<objects, shown>>

(* GetUserByID, or GetGroupWithMembers. *)
ReadBack(r) ==
  LET q == req[r] IN
  /\ q.pc = "read"
  /\ q.there
  /\ Exists(q.subject)
  /\ req' = [req EXCEPT ![r].pc = "tell", ![r].read = row[q.subject]]
  /\ UNCHANGED <<row, objects, shown, mark, excuse>>

(* The read fails.  UpdateAvatarURL returns the error as its own, and the  *)
(* handler takes it for a failed write; the group's handler does not.      *)
ReadError(r) ==
  LET q == req[r] IN
  /\ q.pc = "read"
  /\ excuse' = [excuse EXCEPT ![q.subject] = TRUE]
  /\ IF q.key # None /\ q.subject \notin Groups
     THEN Goto(r, "cleanup") /\ mark' = Marked(q.key, "misreported")
     ELSE End(r) /\ UNCHANGED mark
  /\ UNCHANGED <<row, objects, shown>>

(* AvatarStore.Delete, whose error nobody looks at. *)
Cleanup(r) ==
  LET q == req[r] IN
  /\ q.pc = "cleanup"
  /\ \/ q.there /\ objects' = objects \ {q.key} /\ UNCHANGED mark
     \/ mark' = Marked(q.key, "interrupted") /\ UNCHANGED objects
  /\ End(r)
  /\ UNCHANGED <<row, shown, excuse>>

(* Mutant: only renames are announced. *)
BroadcastUserUpdate_NotUploads(r) ==
  LET q == req[r]  s == q.subject IN
  /\ q.pc = "tell"
  /\ s \notin Groups
  /\ shown' = IF q.key = None THEN [shown EXCEPT ![s] = q.read] ELSE shown
  /\ excuse' = [excuse EXCEPT ![s] = @ /\ ~q.alone]
  /\ End(r)
  /\ UNCHANGED <<row, objects, mark>>

(* broadcastUserUpdate: the profile as it was read back. *)
BroadcastUserUpdate(r) ==
  LET q == req[r]  s == q.subject IN
  /\ q.pc = "tell"
  /\ s \notin Groups
  /\ shown' = [shown EXCEPT ![s] = q.read]
  /\ excuse' = [excuse EXCEPT ![s] = @ /\ ~q.alone]
  /\ End(r)
  /\ UNCHANGED <<row, objects, mark>>

(* notifyGroupUpdated: the members fetch the group, or are not found. *)
NotifyGroupUpdated(r) ==
  LET q == req[r]  s == q.subject IN
  /\ q.pc = "tell"
  /\ s \in Groups
  /\ \/ /\ q.there /\ Exists(s)
        /\ shown' = [shown EXCEPT ![s] = row[s]]
        /\ excuse' = [excuse EXCEPT ![s] = FALSE]
     \/ excuse' = [excuse EXCEPT ![s] = TRUE] /\ UNCHANGED shown
  /\ End(r)
  /\ UNCHANGED <<row, objects, mark>>

--------------------------------------------------------------------------------
(* Everything else that touches a row, an object or a request. *)

(* Another writer of the row, who tells nobody. *)
Quietly(s, p) ==
  /\ Exists(s)
  /\ Set(s, p, NoPicture, {})
  /\ excuse' = [excuse EXCEPT ![s] = TRUE]
  /\ req' = [q \in Requests |-> IF q \in Busy(s) THEN [req[q] EXCEPT !.alone = FALSE] ELSE req[q]]
  /\ UNCHANGED <<objects, shown>>

(* A Google sign-in re-syncs the photo. *)
SyncGooglePhoto(s) ==
  /\ s \notin Groups
  /\ Exists(s) /\ row[s].url # GooglePhoto
  /\ Quietly(s, [row[s] EXCEPT !.url = GooglePhoto])

(* DeleteUser blanks the row; its picture stays in the bucket. *)
DeleteUser(s) == s \notin Groups /\ Quietly(s, NoProfile)

(* The last member leaves and the group is deleted. *)
DeleteGroup(s) == s \in Groups /\ Quietly(s, None)

(* The client is gone: the context of the request is cancelled. *)
Cancel(r) ==
  /\ req[r].pc # "idle"
  /\ req[r].there
  /\ req' = [req EXCEPT ![r].there = FALSE]
  /\ UNCHANGED <<row, objects, shown, mark, excuse>>

(* The process stops and is started again. *)
Crash ==
  /\ \E r \in Requests : req[r].pc # "idle"
  /\ mark' = [k \in Keys |-> IF \E r \in Requests : req[r].key = k
                             THEN mark[k] \cup {"interrupted"} ELSE mark[k]]
  /\ excuse' = [s \in Subjects |-> excuse[s] \/ Busy(s) # {}]
  /\ req' = [r \in Requests |-> Idle]
  /\ UNCHANGED <<row, objects, shown>>

Next ==
  \/ \E r \in Requests :
       \/ \E s \in Subjects : (\E k \in Keys : Upload(r, s, k)) \/ \E n \in Names : Rename(r, s, n)
       \/ Write(r) \/ WriteError(r) \/ WriteAnswerLost(r) \/ ReadBack(r) \/ ReadError(r)
       \/ Cleanup(r) \/ BroadcastUserUpdate(r) \/ NotifyGroupUpdated(r) \/ Cancel(r)
  \/ \E s \in Subjects : SyncGooglePhoto(s) \/ DeleteUser(s) \/ DeleteGroup(s)
  \/ Crash

Spec == Init /\ [][Next]_vars

--------------------------------------------------------------------------------
(* Properties. *)

(* A stored avatar_url leads nowhere only when the answer to the write, or  *)
(* the read after it, was an error although the write had been carried out; *)
(* no other order of uploads, cleanups and deletions removes an object that *)
(* a row still shows.                                                       *)
DanglesOnlyIfMisreported ==
  \A s \in Subjects : Exists(s) /\ row[s].url \in Keys \ objects =>
    "misreported" \in mark[row[s].url]

(* "Don't leave an orphaned object behind if the DB write fails": an object *)
(* no row shows and no request is about to show or delete was shown once    *)
(* (replaced pictures are kept), or a crash, a lost client or an error of   *)
(* the bucket came between.                                                 *)
OrphansHaveAReason ==
  \A k \in objects :
    \/ \E s \in Subjects : Exists(s) /\ row[s].url = k
    \/ \E r \in Requests : req[r].key = k
    \/ mark[k] \cap {"replaced", "interrupted"} # {}

(* "Every peer's chat UI refreshes the picture live": at rest, peers show    *)
(* what is stored, unless the last request of a user overlapped with another *)
(* of that user, something failed half-way, or the row was changed by a      *)
(* writer that tells nobody.  Members of a group need no such care: they     *)
(* fetch the group after the write.                                          *)
PeersAreCurrent ==
  \A s \in Subjects : Exists(s) /\ Busy(s) = {} /\ ~excuse[s] => shown[s] = row[s]

--------------------------------------------------------------------------------
(* What comments of the code say and the model refutes. *)

(* avatars.go, Delete: "best-effort cleanup when a DB write fails".         *)
(* UploadAvatar also calls it when the write succeeded and the read after   *)
(* it failed; the row then keeps the address of an object that is gone.     *)
OnlyFailedWritesAreCleanedUp ==
  [][\A r \in Requests : req[r].pc = "read" => req'[r].pc # "cleanup"]_vars

(* avatars.go: the URL is "stable"; a lost answer to the write breaks it too. *)
PictureHasObject ==
  \A s \in Subjects : Exists(s) /\ row[s].url \in Keys => row[s].url \in objects
================================================================================
