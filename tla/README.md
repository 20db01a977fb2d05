# VibeNet backend: TLA+ models, model checking and proofs

VibeNet is a chat backend in Go: REST endpoints over Postgres, an object store for
pictures, and one WebSocket hub per process that delivers frames to the users who
are connected. This directory models the parts where several goroutines, requests
or transactions meet. TLC checks the models on small instances; TLAPS proves the
central results for every value of the constants. Paths below are relative to `src/`.

## 1. Inventory

### Components, their state and operations

| Component | Source | State | Operations | What makes it correct |
|---|---|---|---|---|
| WebSocket hub | `internal/websocket/hub.go` | `clients`: one `*Client` per user, guarded by `h.mu`; the unbuffered `register` and `unregister` channels | the hub goroutine (`run`): register, unregister; `DeliverToUser`, `Broadcast`, `DeliverToGroup`, `IsOnline` | one live connection per user; a late unregister never removes a successor; no send on a closed channel; nothing blocks under the lock |
| Clients | `internal/websocket/client.go`, `handler.go` | socket, buffered `send` channel | `readPump` with its frame handlers, `writePump`, `trySend` | both pumps of a dead or replaced connection return |
| Presence | `hub.go` 77-129, `client.go` 314-326, `internal/db/postgres.go` 297-308 | goroutines spawned by the hub; `users.last_seen` | `broadcastPresence`, `handleDisconnect`, `handlePresence` | the last word a peer hears is true, short of two named races; `last_seen` is the last disconnection |
| Roster cache | `hub.go` 186-258 | `groupMembers`: member list and expiry per group | `GroupMemberIDs`, `IsGroupMemberCached`, `InvalidateGroup` | staleness is bounded; only members post |
| Groups and invitations | `internal/api/groups.go`, `internal/db/groups.go`, `internal/models/group.go` | `groups`, `group_members`, `group_invites` | create, invite, accept, decline, change role, leave, remove | one owner while the group exists, consent, invitations agree with membership |
| Messages | `internal/db/messages.go`, `client.go` 463-480, `internal/api/handler.go` 991-1064 | `messages`; the goroutines that save; the connection pool | asynchronous save, newest-N history | what was saved stays, histories are the newest messages, the goroutines end |
| Direct-message index | `postgres.go` 443-490 | `dm_participants` | two-row insert, listing | a room is found by both sides of a frame or by neither |
| Accounts | `internal/api/handler.go`, `auth_google.go`, `middleware.go`, `internal/db/postgres.go`, `internal/websocket/handler.go` | `users`; tokens carry no server state | register, sign in with a password or Google, rename, update, deactivate, delete, open a WebSocket | blocked accounts stay out; a deleted account's identity stays wiped; a Google account has one row |
| Chat PIN | `internal/pin/pin.go`, `handler.go` 776-907 | `chat_pin_*` columns, the clocks | current code, validity, settings | the owner's code is accepted while it should be and no longer; toggling never loses the PIN |
| Pictures | `handler.go` 460-618, `groups.go`, `internal/storage/avatars.go` | objects in the bucket, `avatar_url`, what peers display | upload, write, read back, compensating delete, rename, announcement | a shown address has an object; orphans have a reason; peers see what is stored |
| Attachments | `internal/storage/s3.go`, `internal/api/upload.go` | none (signing is stateless) | presign | not modelled |
| Token verification | `internal/auth` | none | sign, verify | not modelled; what a token allows, and for how long, is in Accounts |
| Start-up, landing page, environment | `cmd/api/main.go`, `internal/api/landing.go`, `pkg/utils/env.go` | configuration | routing | not modelled, except that the router recovers panics of its handlers (Hub) and that a stop cuts off goroutines (Messages) |

### How they interact

- `ServeHTTP` checks the token and the account's status (Accounts), upgrades and calls
  `NewClient`, which blocks on `register` until the hub goroutine takes it, then starts
  both pumps (Hub).
- A read pump handles one frame at a time. It looks up the receiver in `clients`
  (direct message) or the group's roster in the cache (RosterCache), queues frames
  into other clients' `send` channels, acks to its own, and starts goroutines that
  save the message and index the room (Messages).
- REST handlers commit a transaction (GroupStore), then call `InvalidateGroup`
  (RosterCache) and queue notifications through the same hub (`Tasks` of Hub).
- Profile and group updates write a row, read it back and broadcast what they read
  (Pictures).
- The hub starts a goroutine for every presence change. It broadcasts, and on a
  disconnection writes `last_seen` first (Presence).

### What is hard

Goroutines meet in the hub under a read-write lock that some paths release before
they use what they read; a closed channel turns a late send into a panic; presence
goroutines are not ordered; a cache fill races with its invalidation; group
transactions run at READ COMMITTED without locking the group; a message is
acknowledged before anybody tries to save it; two directions of one conversation
insert the same index rows in opposite order; tokens outlive the accounts they were
issued for; a Google sign-in is several statements with a retry; a compensating
delete follows errors that need not mean that the write failed; verifying servers'
clocks differ. `PROJECT.json` lists each of these under `hazards` with its line and the
properties that watch it.

## 2. Modules

```
SessionRegistry <-- HubService <-- refined by -- Hub   (HubProofs)
      ^                 ^
      | EXTENDS         | uses
      +---------------- Presence                       (PresenceProofs)

GroupRows <-- Groups <-- refined by -- GroupStore  (GroupStoreProofs)

RosterCache  (RosterCacheProofs)      Messages <-- History   (MessagesProofs)
Accounts     (AccountsProofs)         ChatPin                (ChatPinProofs)
Pictures     (PicturesProofs)
```

Each `MC` module gives the constants of one of them values for TLC. The mutated forms
of definitions (marked `Mutant`) are not part of any specification. They show, through
`PROJECT.json`, that each property depends on the code it is about.

**SessionRegistry** is what the hub promises: a connection is new, live, then
superseded or ended; a user has at most one live connection. **HubService** adds what
the goroutines around the hub see of it: the hub goroutine receives one registration
at a time, and goroutines walk over the registered clients (`walks`: `Broadcast`
serves all, `DeliverToGroup` some), during which no session opens or ends.

**Hub** models `hub.go` and the pumps. A step is the code between two points where
another goroutine can run. `clients` is the map; `hub` is where the hub goroutine is
(`received` a client from a channel, `locking`, i.e. blocked in `h.mu.Lock()`; the
locked section itself is one step); `conn`, `send`, `closed` are the socket, the fill
level of the channel and whether it was closed; `pc` and `wpc` are the read and write
pump. `Tasks` are HTTP handlers and presence goroutines that queue frames. Go's
`RWMutex` gives way to an announced writer, so `CanRLock` fails while the hub is
`locking`, and the hub enters only when no goroutine is in the middle of a fan-out.
`DeliverToUser` is two steps, `Lookup` and `Deliver`, because it releases the lock in
between. A read pump handles frames as long as it is in its loop: those it has read, or
that wait in a buffer, when the socket goes down are handled all the same (`CanRead`). A send to a closed channel is `Panic`: the router recovers it in an HTTP
handler, anywhere else the process stops. Frames are counted; their contents, the
read limit and the payload checks are abstracted (a frame that is rejected changes no
modelled state).

**Presence** composes with `HubService` rather than the hub: it needs only who is
online, who is about to be, and that a broadcast finds the clients as they are
(`UsesService`). A registration is two steps, `Receive` and `Register`: `NewClient` goes on,
and its read pump may answer a presence query, as soon as the hub goroutine has
received the client, before it is in the map. For every connection there is the
goroutine that announces it and the one that handles its end (`start` → clock read →
`last_seen` written or not → offline frame). A broadcast holds `h.mu` for reading, so
nobody registers or unregisters meanwhile, but it serves one client at a time
(`untold`): broadcasts of other goroutines and answers to queries come in between.
`word[c][u]` is the last thing queued to `c` about `u`; `missed` stands for a frame
dropped at a full buffer, after which nothing is promised. Three history variables say
what a transition of a user overlapped. `crossed`: it came before everything was
broadcast about the previous one. `raced`: the clients whose own query had looked the
user up before it and whose answer is still to come, or came last; a broadcast to such
a client after its answer, or its next query, takes it out again. `overtook`: a
disconnection began while an earlier one of that user had yet to write `last_seen`.

**RosterCache** models one group: Postgres' roster, the cache entry, the handlers of
group frames (each asks the cache twice, for the sender's right to post and for the
recipients) and membership changes with their invalidation. A lookup is three steps
(miss, query, store), so an invalidation can come between any two. Time is discrete:
a lookup takes at most `Timeout`, local steps take none. An answer that was read
before the last invalidation is marked `late` (history).

**Groups** is the atomic specification of the group endpoints. **GroupStore** is the
code: each request is a sequence of SQL statements, and statements of concurrent
requests interleave. A row is a record with its committed version, the version of the
transaction that wrote it, and that transaction (`holder`). Under READ COMMITTED a
statement sees what is committed plus its own writes (`Sees`), and a writer waits for
the holder (`Free`) and then looks at the row again. (A waiting statement is one that
has not run yet; for the statements on one row, which is all but the deletion of a
group's invitations, that is what Postgres does.) `Cancel` is a failed statement,
a client that went away, or a transaction chosen as the victim of a deadlock. A
unique violation aborts the transaction: the handler goes on to COMMIT, which rolls
back. Wrapped keys, names and avatars are abstracted; `id` distinguishes an
invitation that was deleted and created again. **GroupRows** holds what both share.

**Messages** follows a chat frame after its delivery. The read pump acks it
(`Acknowledge`), then starts the goroutines (`Spawn`); the process can stop in between.
The saver takes a connection of the pool and upserts the row with key (room,
timestamp). The indexer's `INSERT` of two rows is a step for each row, because a row
inserted by a transaction still running makes it wait (`dirty[c][u]` is that
transaction); `Deadlock` is the victim Postgres chooses when two directions of a
conversation, or frames in a larger circle, wait for each other. Nothing relates the
room of a direct frame to its sender and receiver, as `handleChatMessage` takes both
from the client: a direct frame may name any room, a group's included. Group frames
(`GroupFrames`) come from members only. Errors and timeouts can come anywhere, with or
without effect, and `Restart` cuts everything off. **History** adds what is read back:
`ORDER BY timestamp DESC LIMIT n`, sorted again, with the handler's limits. A sorted
sequence is chosen by what it is (`Ascending`, `Descending`), not computed step by step.

**Accounts** models the `users` table and everything that writes it or decides by it.
Registration, both sign-ins, renaming and the WebSocket handshake are sequences of
statements with what they have read in `req`; the other writes are single UPDATEs by
user id which, as in the code, look at no status. Unique indexes are `Violates`. A
token is the fact that somebody holds one: it works until `Expire`. `gone` remembers
deleted accounts and `late` those that were blocked when a request began (history).

**ChatPin** models the PIN of one account on several servers. `clock[s]` advances
separately within `Skew`; codes are a function of the window, as the HMAC is.
`UpdateRow` and `UpdatePinSettings` are the handler's write and its answer, between
which another request may write. `display` is what the owner was shown last.

**Pictures** models uploads and renames, of users and groups alike: `Upload`
(PutObject), `Write`, `ReadBack`, `Cleanup` and the announcement are separate steps of
a request, each of which can fail; a write can take effect and be reported as an error
(`WriteAnswerLost`), and a client that leaves cancels the context for all later calls
(`Cancel`). `mark` and `excuse` are history: what happened to a key, and why peers may
display something old.

## 3. Runs

| Run | Checks | Instance |
|---|---|---|
| `hub_pumps` | `TypeOK`, `RegisteredIsOpen`, `OnlyRegisteredSocketUp`, `FanoutTargetsStay`, `ClosedAfterReader`, `OfflineByOwnEnd` | alice with two connections, bob with one, channels of one frame |
| `hub_live` | `ImplementsService`, `DeadConnUnwinds`, `RegisterIsServed` under fairness | alice's two connections and one task |
| `presence` | `PresenceTypeOK`, `LastWordIsTrue`, `LastSeenIsLastEnd` | the three connections, clock 0..1, queries about alice |
| `roster_cache` | `FanoutIsRecent`, `PosterWasMember`, `WrongOnlyByRace` | two users, two frames, one change at a time, TTL = Timeout = 1, clock 0..4 |
| `group_serial` | `ImplementsGroups`, `OneOwnerWhileItExists`, `InvitesMatchMembers` | three users, one request at a time, all operations, two clock readings |
| `group_invites` | `AcceptedMeansMember`, `JoinByConsent` | three users, two requests among invite, accept, decline, leave |
| `group_roles` | `TypeOK`, `OwnerIsNotDemoted`, `OwnerBySuccession` | three users, three requests among role change, leave, remove |
| `messages` | `TypeOK`, `SavedIsKept`, `HistoryIsNewest`, `BothSidesDiscover`, `IndexedIsFound`, `GoroutinesEnd` (under fairness) | two users, a frame in each direction of their direct room and one in a group, two timestamps, two pool connections, limits 1 and 2 |
| `accounts` | `LatecomersStayOut`, `IdentityStaysWiped`, `GoogleFindsItsAccount`, `DeletedAccountIsInert` | two user ids, two sign-up forms and a Google account competing for names and an email, two requests |
| `chat_pin` | `TypeOK`, `ShownCodeWorks`, `ExpiredCodeFails`, `OncePinnedNeverLocked` | two servers one second apart, three windows of three seconds, two settings requests |
| `pictures` | `DanglesOnlyIfMisreported`, `OrphansHaveAReason`, `PeersAreCurrent` | a user or a group, two names, two objects, two overlapping requests |

What these show, in a sentence each: the hub's bookkeeping is right in every
interleaving; presence is right unless transitions of one user overlap or a single one
races with a client's query, which leaves that client wrong until the next word about
the user, and `last_seen` is right unless disconnections of one user overlap; a roster is wrong for a bounded time and only by a race; the group
transactions keep consent, ownership by succession and accepted invitations under
concurrency, and everything else only without it; what the database was told to keep
is kept and found by both sides, whatever is cut off; no path around a blocked account
exists, and a deleted one keeps no identity; the PIN gate opens and closes when it
should; pictures go missing only after an error that was none.

### A promise that TLC refutes

`send_on_closed` checks `NoSendOnClosedChannel`, what a comment of `hub.go` promises:
`DeliverToUser` looked the client up, released the lock, and the client unregisters
before the send. The finding in `PROJECT.json` quotes the comment.

### Further promises that do not hold

These formulas stand in the modules next to the comments they translate, without a
run of their own. To see the behaviour, put the formula into the configuration named
(under INVARIANTS or PROPERTIES) in place of its properties.

| Formula | Configuration | How it fails |
|---|---|---|
| `PeersAreUpToDate` | `MCPresence.cfg` | A user connects and leaves at once; the online announcement is queued after the offline one. |
| `AnswersAreCurrent` | `MCPresence.cfg` | A query finds a user offline, the user connects and is announced, then the outdated answer is queued (client.go:321-325): one transition suffices. |
| `LastSeenMovesOn` | `MCPresence.cfg` | Two disconnections of one user write `last_seen` out of order. |
| `DeliveredToLiveConn` | `MCHubPumps.cfg` | A message is queued to a client that was replaced since the lookup, and acknowledged as delivered. |
| `NextFrameSeesChange` | `MCRosterCache.cfg` | A lookup reads the roster, the member is removed and the cache invalidated, then the lookup stores the old list with a full TTL. |
| `ExactlyOneOwner` | `MCGroupRoles.cfg` | Two last members leave together; each still sees the other, and a group without members stays behind. |
| `RemovalSparesOwner` | `MCGroupRoles.cfg` | The target of a removal inherits the group after the handler looked at its role. |
| `RemovalKeepsGroup` | `MCGroupRoles.cfg` | The caller leaves after its role was checked, so the removed target is the last member. |
| `DeletedLeavesNothing` | `MCGroupStore.cfg` | An invitation created or accepted while the last member leaves outlives the group. |
| `MemberHasNoPendingInvite` | `MCGroupStore.cfg` | An invitation is accepted between `CreateInvite`'s SELECT and its UPDATE, which makes it pending again for somebody who is a member. |
| `AcceptByMemberIsDone` | `MCGroupStore.cfg` | Accepting that invitation hits a unique violation. The code returns nil to have the accept count as done, but the transaction is aborted already and its commit rolls back. |
| `AcknowledgedIsStored` | `MCMessages.cfg` | The process stops before the save, the save fails, or another message with the same timestamp overwrites the row. |
| `OnlyPartiesWrite` | `MCMessages.cfg` with `GroupFrames = {}` and `Party <- MCBobsGroup` | A frame without a `group_id` names a group's room (client.go:424-480); it is saved there although its sender is no member. What the comment promises holds for frames with a `group_id`, the ones `PosterWasMember` is about. |
| `ReturnIsNotBlocked` | `MCAccounts.cfg` | Deleted rows keep their usernames; after two deletions both derived names are taken, and the Google sign-in is refused although nobody uses them. |
| `NoWayBack` | `MCAccounts.cfg` | A token issued before the deletion deactivates the deleted account. |
| `DeletedStaysBlank` | `MCAccounts.cfg` | Such a token, or a Google sign-in under way, fills wiped columns again. |
| `LookalikesCannotCoexist` | `MCAccounts.cfg` | Registration compares usernames exactly, renaming without regard to case. |
| `OnlyFailedWritesAreCleanedUp` | `MCPictures.cfg` | The write succeeds, the read after it fails, and the handler deletes the object the row shows. |
| `PictureHasObject` | `MCPictures.cfg` | The same, or the write is carried out and its answer lost. |
| `SkewIsTolerated` | `MCChatPin.cfg` | A server whose clock is ahead shows the next window's code, which one that is behind does not accept yet. |
| `NeverLockedOut` | `MCChatPin.cfg` | The settings are stored before "static without a PIN" is refused. |

### Bounds

Every race in the hub is between one user's connection, its successor and one
sender; two connections of a user and one of another give all three, and with a
channel of one frame the full buffer occurs at once. `hub_live` leaves out the second
user: a task plays the foreign sender. Presence needs a takeover, an end and a
bystander; the theorems cover more connections. In the roster cache a frame can be overtaken by a change,
and by another frame's fill; two frames and `MaxTime` = 4 cover a fill, an expiry and
a second fill. Group races take two or three requests: succession, for instance,
involves the leaver, the heir and a third member. `InviteIds` bounds the identities of
invitations (three, so that a stale id can be reused neither by the same nor by the
next row); ids not in use are available again. `Ops` only divides the state space
between the runs.

In `messages`, opposite directions of one conversation give the deadlock and the
conflict with an uncommitted row, and the third frame competes for the pool
(`PoolSize` 2 of 25: a pool that is full while its users wait for each other). Each
frame is sent once (`Frames`). In `accounts`, `Uids` bounds the accounts ever
created and `Requests` the requests at one time, not the number of requests; two forms
and a Google profile collide pairwise on name, folded name, email and phone number,
and `Columns` has one column that only the photo sync writes and one that renames
write too. In `chat_pin`, `WindowSeconds` = 3 > `Skew` = 1 gives every position of two
clocks relative to a window boundary, and `MaxTime` = 8 has a window before, at and
after the one a code is shown in. In `pictures`, subjects share no row, object or
request, so a behaviour has one, a user or a group; two `Keys` and two requests give
one picture replaced, dangling or orphaned by another request. The theorems lift all
these bounds except those of the liveness runs.

One assumption about inputs: passwords typed are right (Accounts; a wrong one changes
nothing). In `messages` the frames of the instance name the rooms the app's clients
derive; the theorems hold for any room, sender and receiver.

Deadlock checking is off in the hub, presence, messages and pictures runs: once every
connection or frame has been used, or the only group is gone, the model may stop.

### Fairness

`Hub!Spec` assumes weak fairness of what the Go runtime guarantees: a runnable
goroutine runs; a select does not ignore a ready case for ever, so each client
waiting in `register` or `unregister` is received (a separate condition for each
client, as Go serves the waiters of a channel in order); an announced writer of an
`RWMutex` gets the lock; the ping ticker ticks and writes end by `writeWait`. `ReadFail`
has strong fairness: a read pump whose socket is down may first handle the frames that
are buffered, each of which takes it out of `read` for a moment, but these are finitely
many. Nothing is assumed of peers, inbound frames or HTTP requests.

`Messages!Spec` assumes weak fairness of `Spawn` (the read pump goes on after its ack)
and strong fairness of each goroutine's next step. Strong, because a waiting goroutine
is enabled only while a connection is free or a row is not held, again and again. That
it is not passed over for ever is an assumption about the pool, whose order of service
`database/sql` does not document, and about Postgres' queues of row locks; with
finitely many frames nobody is left to pass it over in the end. `Deadlock` is part of the goroutine's own progress:
Postgres always breaks a cycle. That a timeout ever fires is not assumed, so the
goroutines end even without their five seconds running out.

The other specifications state safety only.

## 4. Proofs

| Module | Theorems | Argument |
|---|---|---|
| `HubProofs` | `TypeCorrect`; `RegisteredClientsAreOpen`, `ReplacedSocketsAreDown`, `FanoutNeverPanics`, `OwnReplyNeverPanics`, `SuccessorStaysRegistered`; `HubImplementsService`, `HubImplementsRegistry` | The inductive invariant adds to the four invariants `InFlight` (what is known of the client the hub goroutine is serving: one being registered has started its pumps and its channel is open, one being unregistered has left its read loop) and `LeavingIsDown` (a read pump on its way out has lost its socket). Without them a registration could follow its own removal. The refinement uses the invariant to show that a removed client was live and a new one had no phase yet; every other step leaves `Served`, `closed` and `clients` alone as far as `PhaseOf` sees. A walk is what a goroutine in a fan-out still has to serve (`WalkOf`); the hub goroutine enters only when there is none, and a fan-out ends only when nobody is left. |
| `PresenceProofs` | `TypeCorrect`, `PeersHearTheTruth`, `LastSeenIsKept`; `PresenceUsesService` | `SessionInv` ties the registry's phases to the goroutines; `SilentInv` and `FanoutInv`: nothing is queued, or on its way, to a connection that is neither registered nor about to be; `ReceivedInv`: while the hub goroutine is about to register a connection nobody comes or goes, so what that connection has found out is still true when it enters the map; `WordInv`: while no transitions of a user crossed, whatever is on its way about that user is true, except the answers the last transition raced with (`OnTheWayOK`), and the last word of a client that did not race is true, or the broadcast that will correct it has not begun or has not reached that client yet (`ArrivedOK`); `StampInv`: of disconnections that did not overtake each other, only the last has yet to write. The proof is what brought `overtook` into the model: with `crossed` alone a third connection of the same user could make an old overlap forgotten, a case that three connections in all do not reach. `PresenceUsesService` shows, step by step, that `Presence` does to sessions and broadcasts only what `HubService` allows, which `HubImplementsService` shows the code to provide; `IdleInv` (a goroutine that is not broadcasting has nobody left to tell) says that a broadcast starts one walk of its own. |
| `GroupStoreProofs` | `TypeCorrect`, `AcceptedAreMembers`, `NobodyJoinsUnasked`, `OwnersAreNotDemoted`, `OwnersSucceedOwners`; `SerialRequestsAreAtomic`, `SerialGroupHasOneOwner`, `SerialInvitesMatchMembers` | The first five are about any number of requests that overlap in any way. `IInv` says, for each row, which requests may hold its lock, at which statement, and what they have written to it (`MemberHeld`, `InviteHeld`, `GroupHeld`): an invitation becomes accepted only in a transaction that also holds, or has yet to write, the new member's row, and whoever has deleted a membership deletes that user's invitation next or holds it, unless it is not an accepted one. A commit then installs nothing but these versions. The last three are about requests that do not overlap (`[]NoOverlap`), any number of them one after the other. `SerialInv` records what a request has established so far (`Checked`: the roles it read are still in force; `Progress`: what it has written up to its current statement; `Outcome`: what its commit will do), so that the commit is one of the atomic operations of `Groups` and every other statement a stutter. The two invariants follow through the refinement from their proof for `Groups`; its lemma on `Depart` carries the weight: among the remaining members there is an earliest-joined one, it is the only owner afterwards, and a deleted group loses its invitations in the same step. |
| `RosterCacheProofs` | `TypeCorrect`, `FanoutStalenessIsBounded`, `PostingRightIsBounded`, `StaleOnlyByRace` | `ListInv`: what a running lookup holds is wrong only about users who changed after it began. `CacheInv`: hence an entry is wrong only about users who changed at most `Timeout + TTL` before it expires. `GateInv` carries the sender's right to post from the first lookup to the second. `RaceInv`: once every change has been followed by its invalidation, entries and lists read since then are Postgres's; only `InvalidateGroup` ends the time before that, and it drops the entry and marks every list on its way as late. |
| `MessagesProofs` | `TypeCorrect`, `SavesAreNotUndone`, `HistoriesAreNewest`, `IndexIsSymmetric`, `IndexedRoomsAreFound` | `SavedInv`: a row holds a handled message of its key, and what was reported saved has left one. `DirtyInv`: an uncommitted row is one of the two of its transaction's frame. `IndexInv`: a transaction that is past a row finds it committed or has inserted it itself (`Holds`), and every committed row has its pair (`Indexed`); so what it skipped is there to stay. `PumpInv`: the goroutines start after the ack. Histories: a finite set of timestamps has a sorted sequence (`Sortable`: the element with i - 1 smaller ones comes i-th, a bijection by counting), so the two choices return one, it has every element once (`OntoByCount`), and its first n elements are the n newest (`FirstAreNewest`); `SavedInv` ties the rows to what the savers reported. |
| `AccountsProofs` | `TypeCorrect`, `BlockedAccountsStayOut`, `DeletionIsFinal`, `OneAccountPerGoogle`, `DeletedAccountsRest` | `TableOK`: a Google account is linked to one row at most, and what was deleted lacks its identity. `ReqOK`: an account that was blocked when a request began stays blocked, so the status the request reads later refuses it, and the account a Google sign-in holds is linked to it or gone. The unique usernames, emails and phone numbers are not needed. `DeletedAccountsRest` is an action property: an unattended deleted row offers no later request a way in, since it matches neither a password nor a Google account. |
| `ChatPinProofs` | `TypeCorrect`, `OwnersCodeIsAccepted`, `OldCodesAreWorthless`, `TogglingKeepsThePin` | Window arithmetic first (which window a time before or after an expiry is in, from the division theorem), then `DisplayOK`: what was shown is the code and expiry of one window, or the static PIN of its row, and `PinnedOK`: a PIN that was stored is still there. |
| `PicturesProofs` | `TypeCorrect`, `PicturesAreThere`, `OrphansAreExplained`, `PeersSeeThePicture` | `FreshInv`: a key without history is nowhere. `RequestInv`: a key belongs to one request, and nobody shows it before that request writes. `CleanupInv`: a key about to be deleted is shown only if its write was misreported, and one that was written is shown until it is replaced. `PeerInv`: a request that was alone with its user read what is stored; without an excuse all requests of a user are alone, and what peers display is stored or about to be announced. `SameKeys` and `GoesOn` state once what most actions do to pictures, `EndPeers` and `GotoPeers` what they do to the peers' view. |

The theorems hold for every number of users, connections, goroutines, frames and
requests, every channel capacity, pool size, TTL, timeout, window and skew, from the
assumptions named in the modules (`HubAssumption`, `GroupRowsAssumption`, ...), which
TLC evaluates in the runs. `group_serial` checks the atomic operations with a
single request, which is the smallest instance without overlaps; the theorems add that
their promises hold for requests of any number, as long as these follow each other.
With overlaps they fail (section 3).

Only model-checked: liveness (`DeadConnUnwinds`, `RegisterIsServed`, `GoroutinesEnd`),
which is beyond the prover. Every safety property of the passing runs is a theorem.
No run checks `UsesService`, because it makes the presence run four times as long: to
see it on the instance, add it under PROPERTIES to `MCPresence.cfg`.
The one finiteness a theorem assumes, `IsFiniteSet(Stamps)` for the histories, holds
because a timestamp is an `int64`.

## 5. Not modelled, and what is left

Not modelled: presigned URLs, token signing and verification (stateless and
cryptographic; the outcome, that a valid token names a user until it expires, is in
Accounts), routing, health, landing page and environment (no state), listings and
searches that only read, formatting of frames and responses, typing, pin and
read-receipt frames (forwarded like any other and counted as such in Hub).

Left: several processes over one database (the hub, its cache and presence are per
process, and nothing in the code tells the others).
