--------------------------------- MODULE ChatPin ---------------------------------
(***************************************************************************)
(* The chat PIN of one account.  A static PIN is a column of the account's *)
(* row; a rotating one is computed from the clock of whichever server is   *)
(* asked.  Every server shows codes to the owner and checks the codes of   *)
(* those who were told one.  Checking reads only, so it is an operator.    *)
(* Settings are written by one statement and answered from a second one,   *)
(* between which other requests may write.                                 *)
(*                                                                         *)
(* Inputs are well-formed: the type is one of the two, a PIN has 6 digits. *)
(***************************************************************************)
EXTENDS Integers

CONSTANTS
  Servers,
  WindowSeconds,
  Skew,           \* how far the servers' clocks are apart (a bound)
  MaxTime,        \* the last second looked at (a bound)
  Pins,           \* the 6-digit codes
  codeForWindow,  \* codeForWindow[w]: the HMAC of the account and the window
  Requests,       \* the settings requests in progress at one time
  None

Windows == -1 .. (MaxTime \div WindowSeconds)

ASSUME ChatPinAssumption ==
  /\ WindowSeconds \in Nat \ {0}
  /\ Skew \in Nat /\ MaxTime \in Nat /\ Skew <= MaxTime
  /\ codeForWindow \in [Windows -> Pins]
  /\ None \notin Pins \cup Nat

VARIABLES
  clock,    \* clock[s]: the Unix time server s reads
  user,     \* the account's PIN columns
  req,      \* req[r]: whether settings request r has written
  display,  \* the status the owner was shown last, with the row and the server
            \* it came from
  pinned    \* history: a custom PIN was stored since the account was last wiped

vars == <<clock, user, req, display, pinned>>

UserRow == [enabled : BOOLEAN, type : {"rotating", "static"}, custom : Pins \cup {None}]
Status == [row : UserRow, server : Servers, code : Pins \cup {None}, expiry : Nat \cup {None}]

(* Typing, and a status shows an expiry exactly for the codes that expire. *)
TypeOK ==
  /\ clock \in [Servers -> 0..MaxTime]
  /\ user \in UserRow
  /\ req \in [Requests -> {"idle", "written"}]
  /\ display \in Status \cup {None}
  /\ pinned \in BOOLEAN
  /\ display # None =>
       (display.expiry # None <=> display.row.enabled /\ display.row.type = "rotating")

Init ==
  /\ clock \in [Servers -> 0..Skew]
  /\ user = [enabled |-> TRUE, type |-> "rotating", custom |-> None]
  /\ req = [r \in Requests |-> "idle"]
  /\ display = None
  /\ pinned = FALSE

--------------------------------------------------------------------------------
(* Package pin. *)

window(t) == t \div WindowSeconds

Rotating(t) == codeForWindow[window(t)]

CurrentExpiry(t) == (window(t) + 1) * WindowSeconds

(* None: static without a PIN. *)
CurrentCode(row, t) == IF row.type = "static" THEN row.custom ELSE Rotating(t)

(* Mutant: only the code of the verifier's own window is accepted. *)
Valid_OneWindow(row, provided, t) ==
  \/ ~row.enabled
  \/ row.type = "static" /\ provided # None /\ provided = row.custom
  \/ row.type = "rotating" /\ provided = codeForWindow[window(t)]

(* Mutant: codes of two windows ago are still accepted. *)
Valid_ThreeWindows(row, provided, t) ==
  \/ ~row.enabled
  \/ row.type = "static" /\ provided # None /\ provided = row.custom
  \/ row.type = "rotating"
       /\ \E w \in Windows : w \in (window(t) - 2)..window(t) /\ provided = codeForWindow[w]

(* Is provided (None: an empty string) accepted at time t? *)
Valid(row, provided, t) ==
  \/ ~row.enabled
  \/ row.type = "static" /\ provided # None /\ provided = row.custom
  \/ row.type = "rotating" /\ provided \in {codeForWindow[window(t)], codeForWindow[window(t) - 1]}

--------------------------------------------------------------------------------
(* The handlers. *)

(* Mutant: the expiry is sent along with static codes too. *)
pinStatusFor_AnyExpiry(s) ==
  [row |-> user, server |-> s,
   code |-> IF user.enabled THEN CurrentCode(user, clock[s]) ELSE None,
   expiry |-> IF user.enabled THEN CurrentExpiry(clock[s]) ELSE None]

pinStatusFor(s) ==
  [row |-> user, server |-> s,
   code |-> IF user.enabled THEN CurrentCode(user, clock[s]) ELSE None,
   expiry |-> IF user.enabled /\ user.type = "rotating"
              THEN CurrentExpiry(clock[s]) ELSE None]

(* VerifyPin, VerifyPeerPin: the account's row, and the server's clock. *)
VerifyPeerPin(s, provided) == Valid(user, provided, clock[s])

GetMyChatPIN(s) ==
  /\ display' = pinStatusFor(s)
  /\ UNCHANGED <<clock, user, req, pinned>>

(* Mutant: the custom PIN is written whatever was sent. *)
Updated_Always(enabled, type, custom) ==
  [enabled |-> enabled, type |-> type, custom |-> custom]

(* The row after the UPDATE; without a custom PIN (None) the old one stays. *)
Updated(enabled, type, custom) ==
  [enabled |-> enabled, type |-> type,
   custom |-> IF type = "static" /\ custom # None THEN custom ELSE user.custom]

(* The repository's UpdatePinSettings. *)
UpdateRow(r, enabled, type, custom) ==
  /\ req[r] = "idle"
  /\ type = "rotating" => custom = None
  /\ user' = Updated(enabled, type, custom)
  /\ pinned' = (pinned \/ custom # None)
  /\ req' = [req EXCEPT ![r] = "written"]
  /\ UNCHANGED <<clock, display>>

(* The guard against static without a PIN: it comes after the write. *)
Locked(row) == row.enabled /\ row.type = "static" /\ row.custom = None

(* The handler reads the row back: a refusal, or the new status. *)
UpdatePinSettings(r, s) ==
  /\ req[r] = "written"
  /\ req' = [req EXCEPT ![r] = "idle"]
  /\ display' = IF Locked(user) THEN display ELSE pinStatusFor(s)
  /\ UNCHANGED <<clock, user, pinned>>

(* Reading back fails, or the client goes away. *)
Abort(r) ==
  /\ req[r] = "written"
  /\ req' = [req EXCEPT ![r] = "idle"]
  /\ UNCHANGED <<clock, user, display, pinned>>

DeleteUser ==
  /\ user' = [user EXCEPT !.enabled = FALSE, !.custom = None]
  /\ pinned' = FALSE
  /\ UNCHANGED <<clock, req, display>>

(* Time passes on server s. *)
Tick(s) ==
  /\ clock[s] < MaxTime
  /\ \A t \in Servers : clock[s] + 1 - clock[t] <= Skew
  /\ clock' = [clock EXCEPT ![s] = @ + 1]
  /\ UNCHANGED <<user, req, display, pinned>>

Next ==
  \/ \E s \in Servers : Tick(s) \/ GetMyChatPIN(s) \/ \E r \in Requests : UpdatePinSettings(r, s)
  \/ \E r \in Requests :
       \/ Abort(r)
       \/ \E enabled \in BOOLEAN, type \in {"rotating", "static"}, custom \in Pins \cup {None} :
            UpdateRow(r, enabled, type, custom)
  \/ DeleteUser

Spec == Init /\ [][Next]_vars

--------------------------------------------------------------------------------
(* Properties. *)

(* The owner passed on a code, and the settings are those it was shown for. *)
InForce == display # None /\ display.row = user /\ display.code # None

(* What the owner was shown opens the gate at every server: a static PIN at  *)
(* any time, a rotating code from the start of its window, by the verifying  *)
(* server's clock, to a whole window after the expiry it was shown with, so  *)
(* "a code entered right at the 5-minute boundary doesn't spuriously fail".  *)
ShownCodeWorks ==
  InForce =>
    \A s \in Servers :
      \/ VerifyPeerPin(s, display.code)
      \/ /\ display.expiry # None
         /\ clock[s] \notin (display.expiry - WindowSeconds)..(display.expiry + WindowSeconds - 1)

(* One window after its expiry a rotating code is worthless everywhere, as   *)
(* far as different windows have different codes.                            *)
ExpiredCodeFails ==
  InForce /\ display.expiry # None
    /\ (\A v, w \in Windows : codeForWindow[v] = codeForWindow[w] => v = w) =>
    \A s \in Servers :
      clock[s] >= display.expiry + WindowSeconds => ~VerifyPeerPin(s, display.code)

(* "Passing nil leaves any existing custom PIN untouched, so a user can      *)
(* toggle back to static without re-entering it": once a PIN was stored, no  *)
(* series of overlapping settings requests leaves the account without one.   *)
OncePinnedNeverLocked == pinned => ~Locked(user)

--------------------------------------------------------------------------------
(* What comments of the code say and the model refutes. *)

(* pin.go, Valid: "under a small clock skew — doesn't spuriously fail".  A  *)
(* server that is behind does not know the next window's code yet.          *)
SkewIsTolerated ==
  InForce /\ display.expiry # None /\ clock[display.server] < display.expiry =>
    \A s \in Servers : VerifyPeerPin(s, display.code)

(* handler.go, UpdatePinSettings: the custom PIN is "never left unset on    *)
(* first use".  The settings are stored before the request is refused, and  *)
(* nobody can pass the gate of that account then.                           *)
NeverLockedOut == ~Locked(user)
================================================================================
