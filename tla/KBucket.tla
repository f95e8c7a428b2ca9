------------------------------- MODULE KBucket -------------------------------
(***************************************************************************)
(* One k-bucket of the Kademlia routing table (src/src/dht/k_bucket.cpp)   *)
(* as a value: a record with the vector `contacts', ordered from the least *)
(* to the most recently seen one, and the deque `replacements' of          *)
(* candidates that wait for a place.  A contact is a record with a field   *)
(* id, the NodeID by which every operation of the class finds it.          *)
(*                                                                         *)
(* The counter failed_queries is left out: the class increments and resets *)
(* it, and no code reads it.                                               *)
(***************************************************************************)
EXTENDS Naturals, Sequences

CONSTANTS
  Capacity,          \* capacity_, the k of Kademlia
  MaxReplacements    \* max_replacements_

ASSUME CapacityAssumption == Capacity \in Nat \ {0}
ASSUME MaxReplacementsAssumption == MaxReplacements \in Nat \ {0}

\* KBucket::KBucket and KBucket::clear.
EmptyBucket == [contacts |-> <<>>, replacements |-> <<>>]

\* The NodeIDs of the entries of a vector or a deque of contacts.
Ids(s) == {s[i].id : i \in 1..Len(s)}

\* std::find_if by NodeID: the first entry with that id.
IndexOf(s, id) ==
  CHOOSE i \in 1..Len(s) : s[i].id = id /\ \A j \in 1..(i-1) : s[j].id # id

\* KBucket::contains.
IsContact(b, id) == id \in Ids(b.contacts)

IsFull(b) == Len(b.contacts) >= Capacity

\* erase(it): the entries but the one at index i.
Erase(s, i) == SubSeq(s, 1, i - 1) \o SubSeq(s, i + 1, Len(s))

\* erase(it); push_back(c): the entry becomes the most recently seen one.
MoveToBack(s, c) == Append(Erase(s, IndexOf(s, c.id)), c)

\* Mutant: a candidate that is known already is left as it is.
UpdateInPlaceKeepsOld(s, c) == s

\* The entry with the id of c gets the content of c and keeps its place.
UpdateInPlace(s, c) == [s EXCEPT ![IndexOf(s, c.id)] = c]

\* push_back on a deque that drops its oldest entry when it is at its limit.
PushCandidate(s, c) ==
  Append(IF Len(s) >= MaxReplacements THEN Tail(s) ELSE s, c)

\* KBucket::add_or_update: the new state of the bucket.
AddOrUpdate(b, c) ==
  IF IsContact(b, c.id)
    THEN [b EXCEPT !.contacts = MoveToBack(@, c)]
  ELSE IF ~IsFull(b)
    THEN [b EXCEPT !.contacts = Append(@, c)]
  ELSE IF c.id \in Ids(b.replacements)
    THEN [b EXCEPT !.replacements = UpdateInPlace(@, c)]
  ELSE [b EXCEPT !.replacements = PushCandidate(@, c)]

\* KBucket::add_or_update: its result, TRUE when the peer is now a contact.
IsAdded(b, id) == IsContact(b, id) \/ ~IsFull(b)

\* Mutant: the promoted candidate stays in the replacement cache.
RemovedNoPop(b, id) ==
  IF IsContact(b, id)
    THEN LET rest == Erase(b.contacts, IndexOf(b.contacts, id))
         IN  [b EXCEPT !.contacts = IF b.replacements = <<>> THEN rest
                                    ELSE Append(rest, Head(b.replacements))]
  ELSE IF id \in Ids(b.replacements)
    THEN [b EXCEPT !.replacements = Erase(@, IndexOf(@, id))]
  ELSE b

\* KBucket::remove: the first replacement candidate takes the free place.
Removed(b, id) ==
  IF IsContact(b, id)
    THEN LET rest == Erase(b.contacts, IndexOf(b.contacts, id))
         IN  IF b.replacements = <<>>
               THEN [b EXCEPT !.contacts = rest]
               ELSE [contacts     |-> Append(rest, Head(b.replacements)),
                     replacements |-> Tail(b.replacements)]
  ELSE IF id \in Ids(b.replacements)
    THEN [b EXCEPT !.replacements = Erase(@, IndexOf(@, id))]
  ELSE b

\* KBucket::find, of an id that is a contact.
FindContact(b, id) == b.contacts[IndexOf(b.contacts, id)]

\* The contact with its last_seen set.
SeenAt(c, now) == [c EXCEPT !.seen = now]

\* Mutant: the contact keeps its place.
TouchedInPlace(b, id, now) ==
  IF IsContact(b, id)
    THEN [b EXCEPT !.contacts = UpdateInPlace(@, SeenAt(FindContact(b, id), now))]
    ELSE b

\* KBucket::touch: the stored contact moves to the back, seen now.
Touched(b, id, now) ==
  IF IsContact(b, id)
    THEN [b EXCEPT !.contacts = MoveToBack(@, SeenAt(FindContact(b, id), now))]
    ELSE b

\* KBucket::least_recently_seen, of a bucket that has a contact.
LeastRecentlySeen(b) == Head(b.contacts)

-----------------------------------------------------------------------------

\* The buckets of contacts drawn from S.
Bucket(S) == [contacts : Seq(S), replacements : Seq(S)]

\* Every id that a bucket holds, as a contact or as a candidate.
BucketIds(b) == Ids(b.contacts) \cup Ids(b.replacements)

\* A vector of contacts holds a NodeID once.
NoDuplicates(s) == \A i, j \in 1..Len(s) : s[i].id = s[j].id => i = j

(***************************************************************************)
(* What every caller of the class relies on.  The last conjunct is what    *)
(* makes the others survive: add_or_update looks a new peer up in the      *)
(* replacement cache only when the bucket is full, so a candidate left     *)
(* behind in a bucket with a free place would end up in both lists.        *)
(***************************************************************************)
WellFormed(b) ==
  /\ NoDuplicates(b.contacts)
  /\ NoDuplicates(b.replacements)
  /\ Ids(b.contacts) \cap Ids(b.replacements) = {}
  /\ Len(b.contacts) <= Capacity
  /\ Len(b.replacements) <= MaxReplacements
  /\ b.replacements # <<>> => Len(b.contacts) = Capacity

=============================================================================
