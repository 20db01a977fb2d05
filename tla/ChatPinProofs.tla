------------------------------ MODULE ChatPinProofs ------------------------------
(* Proofs about ChatPin, for any window length, clock skew, set of servers and *)
(* number of overlapping settings requests.                                    *)
EXTENDS ChatPin, TLAPS

--------------------------------------------------------------------------------
(* Arithmetic of windows. *)

(* A time lies in its window. *)
LEMMA WindowBounds ==
  ASSUME NEW t \in Nat
  PROVE  window(t) \in Nat /\ window(t) * WindowSeconds <= t /\ t < (window(t) + 1) * WindowSeconds
  BY ChatPinAssumption, SMTT(30) DEF window

(* Times in order have windows in order. *)
LEMMA WindowMonotone ==
  ASSUME NEW t \in Nat, NEW u \in Nat, t <= u
  PROVE  window(t) <= window(u)
  BY ChatPinAssumption, SMTT(30) DEF window

(* The code of a window can be looked up, and that of the window before. *)
LEMMA WindowInRange ==
  ASSUME NEW t \in 0..MaxTime
  PROVE  window(t) \in Windows /\ window(t) - 1 \in Windows
<1>1. window(t) \in Nat
  BY WindowBounds, ChatPinAssumption
<1>2. window(t) <= window(MaxTime) /\ window(MaxTime) \in Nat
  BY WindowMonotone, WindowBounds, ChatPinAssumption
<1>3. Windows = -1 .. window(MaxTime)
  BY DEF Windows, window
<1> QED
  BY <1>1, <1>2, <1>3

(* From the start of window w on, and for two windows, the window of a time *)
(* is w or the next one.                                                    *)
LEMMA TwoWindows ==
  ASSUME NEW t \in Nat, NEW w \in Nat,
         t \in (((w + 1) * WindowSeconds) - WindowSeconds)..(((w + 1) * WindowSeconds) + WindowSeconds - 1)
  PROVE  window(t) = w \/ window(t) - 1 = w
<1> DEFINE x == window(t)
<1>1. x \in Nat /\ x * WindowSeconds <= t /\ t < (x + 1) * WindowSeconds
  BY WindowBounds
<1>2. w * WindowSeconds <= t /\ t < (w + 2) * WindowSeconds
  BY ChatPinAssumption, SMTT(30)
<1>3. w < x + 1
  BY <1>1, <1>2, ChatPinAssumption, SMTT(30)
<1>4. x < w + 2
  BY <1>1, <1>2, ChatPinAssumption, SMTT(30)
<1> QED
  BY <1>1, <1>3, <1>4

(* After that it is a later one still. *)
LEMMA LaterWindow ==
  ASSUME NEW t \in Nat, NEW w \in Nat, t >= ((w + 1) * WindowSeconds) + WindowSeconds
  PROVE  window(t) - 1 > w
<1> DEFINE x == window(t)
<1>1. x \in Nat /\ t < (x + 1) * WindowSeconds
  BY WindowBounds
<1>2. (w + 2) * WindowSeconds <= t
  BY ChatPinAssumption, SMTT(30)
<1>3. w + 2 < x + 1
  BY <1>1, <1>2, ChatPinAssumption, SMTT(30)
<1> QED
  BY <1>1, <1>3

--------------------------------------------------------------------------------
(* The inductive invariant. *)

(* What is on display is the code its row stood for on the server it came *)
(* from; a rotating one with the end of its window.                       *)
DisplayOK ==
  display # None =>
    /\ ~display.row.enabled => display.code = None
    /\ display.row.enabled /\ display.row.type = "static" => display.code = display.row.custom
    /\ display.row.enabled /\ display.row.type = "rotating" =>
         \E w \in Windows : /\ w >= 0
                            /\ display.code = codeForWindow[w]
                            /\ display.expiry = (w + 1) * WindowSeconds

(* A PIN that was stored is still there. *)
PinnedOK == pinned => user.custom # None

IInv == TypeOK /\ DisplayOK /\ PinnedOK

(* The status computed from a well-typed row is well typed and truthful. *)
LEMMA StatusOK ==
  ASSUME TypeOK, NEW s \in Servers
  PROVE  /\ pinStatusFor(s) \in Status
         /\ pinStatusFor(s).expiry # None <=>
              pinStatusFor(s).row.enabled /\ pinStatusFor(s).row.type = "rotating"
         /\ ~pinStatusFor(s).row.enabled => pinStatusFor(s).code = None
         /\ pinStatusFor(s).row.enabled /\ pinStatusFor(s).row.type = "static" =>
              pinStatusFor(s).code = pinStatusFor(s).row.custom
         /\ pinStatusFor(s).row.enabled /\ pinStatusFor(s).row.type = "rotating" =>
              \E w \in Windows : /\ w >= 0
                                 /\ pinStatusFor(s).code = codeForWindow[w]
                                 /\ pinStatusFor(s).expiry = (w + 1) * WindowSeconds
<1> DEFINE t == clock[s]
           w == window(t)
<1>1. t \in 0..MaxTime /\ t \in Nat
  BY ChatPinAssumption DEF TypeOK
<1>2. w \in Windows /\ w \in Nat
  BY <1>1, WindowInRange, WindowBounds
<1>3. CurrentExpiry(t) \in Nat /\ CurrentExpiry(t) = (w + 1) * WindowSeconds
  BY <1>2, ChatPinAssumption, SMTT(30) DEF CurrentExpiry
<1>4. Rotating(t) = codeForWindow[w] /\ codeForWindow[w] \in Pins
  BY <1>2, ChatPinAssumption DEF Rotating
<1> HIDE DEF w
<1>5. user \in UserRow
  BY DEF TypeOK
<1>6. CurrentCode(user, t) \in Pins \cup {None}
  BY <1>4, <1>5 DEF CurrentCode, UserRow
<1>7. pinStatusFor(s) \in Status
  BY <1>3, <1>5, <1>6 DEF pinStatusFor, Status
<1>8. user.enabled \in BOOLEAN /\ user.type \in {"rotating", "static"}
  BY <1>5 DEF UserRow
<1>9. None \notin Nat
  BY ChatPinAssumption
<1> QED
  BY <1>2, <1>3, <1>4, <1>7, <1>8, <1>9 DEF pinStatusFor, CurrentCode

(* The invariant holds initially. *)
LEMMA InitIInv == Init => IInv
<1> SUFFICES ASSUME Init PROVE IInv
  OBVIOUS
<1>1. clock \in [Servers -> 0..MaxTime]
  BY ChatPinAssumption, SMTT(30) DEF Init
<1>2. TypeOK
  BY <1>1 DEF Init, TypeOK, UserRow
<1>3. DisplayOK /\ PinnedOK
  BY DEF Init, DisplayOK, PinnedOK
<1> QED
  BY <1>2, <1>3 DEF IInv

(* Every step preserves it. *)
LEMMA StepIInv == IInv /\ [Next]_vars => IInv'
<1> SUFFICES ASSUME IInv, [Next]_vars PROVE IInv'
  OBVIOUS
<1> USE DEF IInv
<1>1. ASSUME NEW s \in Servers, Tick(s) PROVE IInv'
  <2>1. clock' \in [Servers -> 0..MaxTime]
    BY <1>1, ChatPinAssumption, SMTT(30) DEF Tick, TypeOK
  <2>2. TypeOK'
    BY <1>1, <2>1 DEF Tick, TypeOK
  <2>3. DisplayOK' /\ PinnedOK'
    BY <1>1 DEF Tick, DisplayOK, PinnedOK
  <2> QED
    BY <2>2, <2>3
<1>2. ASSUME NEW s \in Servers, display' = pinStatusFor(s),
             UNCHANGED <<clock, user, pinned>>, req' \in [Requests -> {"idle", "written"}]
      PROVE  IInv'
  <2>1. TypeOK'
    <3>1. display' \in Status
      BY <1>2, StatusOK
    <3>2. display'.expiry # None <=> display'.row.enabled /\ display'.row.type = "rotating"
      BY <1>2, StatusOK
    <3> QED
      BY <1>2, <3>1, <3>2 DEF TypeOK
  <2>2. DisplayOK'
    BY <1>2, StatusOK DEF DisplayOK
  <2>3. PinnedOK'
    BY <1>2 DEF PinnedOK
  <2> QED
    BY <2>1, <2>2, <2>3
<1>3. ASSUME NEW s \in Servers, GetMyChatPIN(s) PROVE IInv'
  BY <1>2, <1>3 DEF GetMyChatPIN, TypeOK
<1>4. ASSUME NEW r \in Requests, NEW s \in Servers, UpdatePinSettings(r, s) PROVE IInv'
  <2>1. req' \in [Requests -> {"idle", "written"}]
    BY <1>4 DEF UpdatePinSettings, TypeOK
  <2>2. CASE Locked(user)
    BY <1>4, <2>1, <2>2 DEF UpdatePinSettings, TypeOK, DisplayOK, PinnedOK
  <2>3. CASE ~Locked(user)
    BY <1>2, <1>4, <2>1, <2>3 DEF UpdatePinSettings
  <2> QED
    BY <2>2, <2>3
<1>5. ASSUME NEW r \in Requests, Abort(r) PROVE IInv'
  BY <1>5 DEF Abort, TypeOK, DisplayOK, PinnedOK
<1>6. ASSUME NEW r \in Requests, NEW enabled \in BOOLEAN, NEW type \in {"rotating", "static"},
             NEW custom \in Pins \cup {None}, UpdateRow(r, enabled, type, custom)
      PROVE  IInv'
  <2>1. user' \in UserRow
    BY <1>6 DEF UpdateRow, Updated, UserRow, TypeOK
  <2>2. TypeOK'
    BY <1>6, <2>1 DEF UpdateRow, TypeOK
  <2>3. DisplayOK'
    BY <1>6 DEF UpdateRow, DisplayOK
  <2>4. PinnedOK'
    BY <1>6 DEF UpdateRow, Updated, PinnedOK, TypeOK, UserRow
  <2> QED
    BY <2>2, <2>3, <2>4
<1>7. CASE DeleteUser
  <2>1. user' \in UserRow
    BY <1>7 DEF DeleteUser, UserRow, TypeOK
  <2>2. TypeOK'
    BY <1>7, <2>1 DEF DeleteUser, TypeOK
  <2>3. DisplayOK' /\ PinnedOK'
    BY <1>7 DEF DeleteUser, DisplayOK, PinnedOK
  <2> QED
    BY <2>2, <2>3
<1>8. CASE UNCHANGED vars
  BY <1>8 DEF vars, TypeOK, DisplayOK, PinnedOK
<1> QED
  BY <1>1, <1>3, <1>4, <1>5, <1>6, <1>7, <1>8 DEF Next

(* It holds in every reachable state. *)
LEMMA Invariant == Spec => []IInv
  BY InitIInv, StepIInv, PTL DEF Spec

--------------------------------------------------------------------------------
(* The properties. *)

(* Every reachable state is well typed, and a status shows an expiry exactly *)
(* for the codes that expire.                                                *)
THEOREM TypeCorrect == Spec => []TypeOK
<1>1. IInv => TypeOK
  BY DEF IInv
<1> QED
  BY <1>1, Invariant, PTL

(* What the owner was shown is accepted by every server, whatever the clocks *)
(* are apart, from the start of its window to a window after its expiry.     *)
THEOREM OwnersCodeIsAccepted == Spec => []ShownCodeWorks
<1>1. IInv => ShownCodeWorks
  <2> SUFFICES ASSUME IInv, InForce, NEW s \in Servers,
                      display.expiry # None =>
                        clock[s] \in (display.expiry - WindowSeconds)..(display.expiry + WindowSeconds - 1)
               PROVE  VerifyPeerPin(s, display.code)
    BY DEF ShownCodeWorks
  <2> USE DEF IInv
  <2>1. user \in UserRow /\ clock[s] \in Nat /\ display # None /\ display.row = user
    BY ChatPinAssumption DEF TypeOK, InForce
  <2>2. CASE ~user.enabled
    BY <2>2 DEF VerifyPeerPin, Valid
  <2>3. CASE user.enabled /\ user.type = "static"
    BY <2>1, <2>3 DEF VerifyPeerPin, Valid, DisplayOK, InForce
  <2>4. CASE user.enabled /\ user.type = "rotating"
    <3>1. PICK w \in Windows : /\ w >= 0
                               /\ display.code = codeForWindow[w]
                               /\ display.expiry = (w + 1) * WindowSeconds
      BY <2>1, <2>4 DEF DisplayOK
    <3>2. w \in Nat
      BY <3>1, ChatPinAssumption, SMTT(30) DEF Windows
    <3>3. display.expiry # None
      BY <2>1, <2>4 DEF TypeOK
    <3>4. window(clock[s]) = w \/ window(clock[s]) - 1 = w
      BY <2>1, <3>1, <3>2, <3>3, TwoWindows
    <3> QED
      BY <2>4, <3>1, <3>4 DEF VerifyPeerPin, Valid
  <2> QED
    BY <2>1, <2>2, <2>3, <2>4 DEF UserRow
<1> QED
  BY <1>1, Invariant, PTL

(* A window after its expiry a rotating code is accepted by no server. *)
THEOREM OldCodesAreWorthless == Spec => []ExpiredCodeFails
<1>1. IInv => ExpiredCodeFails
  <2> SUFFICES ASSUME IInv, InForce, display.expiry # None,
                      \A v, w \in Windows : codeForWindow[v] = codeForWindow[w] => v = w,
                      NEW s \in Servers, clock[s] >= display.expiry + WindowSeconds
               PROVE  ~VerifyPeerPin(s, display.code)
    BY DEF ExpiredCodeFails
  <2> USE DEF IInv
  <2>1. clock[s] \in 0..MaxTime /\ clock[s] \in Nat /\ display # None /\ display.row = user
    BY ChatPinAssumption DEF TypeOK, InForce
  <2>2. user.enabled /\ user.type = "rotating"
    BY <2>1 DEF TypeOK
  <2>3. PICK w \in Windows : /\ w >= 0
                             /\ display.code = codeForWindow[w]
                             /\ display.expiry = (w + 1) * WindowSeconds
    BY <2>1, <2>2 DEF DisplayOK
  <2>4. w \in Nat
    BY <2>3, ChatPinAssumption, SMTT(30) DEF Windows
  <2>5. window(clock[s]) - 1 > w /\ window(clock[s]) \in Nat
    BY <2>1, <2>3, <2>4, LaterWindow, WindowBounds
  <2>6. window(clock[s]) \in Windows /\ window(clock[s]) - 1 \in Windows
    BY <2>1, WindowInRange
  <2>7. w # window(clock[s]) /\ w # window(clock[s]) - 1
    BY <2>4, <2>5
  <2> QED
    BY <2>2, <2>3, <2>6, <2>7 DEF VerifyPeerPin, Valid
<1> QED
  BY <1>1, Invariant, PTL

(* However settings requests overlap, an account that stored a PIN and was *)
(* not wiped is never enabled and static without one.                      *)
THEOREM TogglingKeepsThePin == Spec => []OncePinnedNeverLocked
<1>1. IInv => OncePinnedNeverLocked
  BY DEF IInv, PinnedOK, OncePinnedNeverLocked, Locked
<1> QED
  BY <1>1, Invariant, PTL

================================================================================
