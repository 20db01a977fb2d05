--------------------------------- MODULE History ---------------------------------
(***************************************************************************)
(* What a participant reads back of a room: the newest messages that the   *)
(* savers of module Messages have stored, at any moment of their work.     *)
(***************************************************************************)
EXTENDS Messages, Sequences, Functions

CONSTANTS
  DefaultLimit,  \* of a request without a usable limit
  MaxLimit

ASSUME HistoryAssumption ==
  /\ DefaultLimit \in Nat \ {0} /\ MaxLimit \in Nat \ {0}
  /\ IsFiniteSet(Stamps)  \* an int64

Stored(c) == {t \in Stamps : messages[c][t] # None}

(* Sorted by timestamp. *)
Ascending(S) ==
  CHOOSE s \in [1..Cardinality(S) -> S] : \A i, j \in DOMAIN s : i < j => s[i] < s[j]

Descending(S) ==
  CHOOSE s \in [1..Cardinality(S) -> S] : \A i, j \in DOMAIN s : i < j => s[i] > s[j]

Lesser(m, n) == IF m < n THEN m ELSE n

(* Mutant: the oldest rows are kept. *)
Newest_Oldest(c, n) ==
  SubSeq(Ascending(Stored(c)), 1, Lesser(n, Cardinality(Stored(c))))

(* ORDER BY timestamp DESC LIMIT n. *)
Newest(c, n) ==
  SubSeq(Descending(Stored(c)), 1, Lesser(n, Cardinality(Stored(c))))

(* GetMessages: the newest n rows, sorted by timestamp. *)
GetMessages(c, n) == Ascending(Range(Newest(c, n)))

(* The limit of GetChatHistory: anything but 1..MaxLimit means the default. *)
Limit(raw) == IF raw \in 1..MaxLimit THEN raw ELSE DefaultLimit

GetChatHistory(u, c, raw) == IF u \in Party[c] THEN GetMessages(c, Limit(raw)) ELSE <<>>

--------------------------------------------------------------------------------
(* The messages of the room that were handled, and those reported saved. *)
Sent(c) == {stamp[f] : f \in {g \in Frames : Room[g] = c /\ pump[g] = "done"}}
Saved(c) == {stamp[f] : f \in {g \in Frames : Room[g] = c /\ saver[g] = "saved"}}

(* A history is the newest messages of the room, oldest first, for whatever  *)
(* limit is asked: sorted, nothing of another room or not sent yet, and what *)
(* was reported saved, or got stored all the same, is in it unless newer     *)
(* messages fill the limit.                                                  *)
HistoryIsNewest ==
  \A c \in Rooms, raw \in 0..(MaxLimit + 1) : \A u \in Party[c] :
    LET h == GetChatHistory(u, c, raw) IN
      /\ \A i \in 1..(Len(h) - 1) : h[i] < h[i + 1]
      /\ Range(h) \subseteq Sent(c)
      /\ Len(h) <= Limit(raw)
      /\ \A t \in (Saved(c) \cup Stored(c)) \ Range(h) :
           Len(h) = Limit(raw) /\ \A i \in 1..Len(h) : t < h[i]
================================================================================
