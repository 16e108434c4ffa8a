------------------------------- MODULE Stores -------------------------------
(***************************************************************************)
(* stores.py MemoryAssertionStore, shared by any number of clients.        *)
(*                                                                         *)
(* The two methods are one dictionary operation each, so calls interleave  *)
(* but do not overlap.  No code of the library calls them yet: any client  *)
(* may call either at any time.  recorded is a history variable.           *)
(***************************************************************************)
EXTENDS Integers

CONSTANTS
  Ids,      \* assertion IDs
  Times,    \* what the clock may show and what expires_at may be
  Clients,  \* the threads that share the store
  None      \* no value

ASSUME StoreAssumption == Times \subseteq Int /\ None \notin Times

VARIABLES
  now,       \* the time of day
  seen,      \* _seen: the expires_at of each ID, None for one that is not there
  recorded,  \* every [id, expiresAt] ever given to add
  answer     \* the last reply of contains to each client

vars == <<now, seen, recorded, answer>>

Init ==
  /\ now \in Times
  /\ seen = [id \in Ids |-> None]
  /\ recorded = {}
  /\ answer = [c \in Clients |-> None]

(* Mutant: how long the ID is still to be kept is stored. *)
AddRemaining(id, expiresAt) ==
  /\ seen' = [seen EXCEPT ![id] = expiresAt - now]
  /\ recorded' = recorded \union {[id |-> id, expiresAt |-> expiresAt]}
  /\ UNCHANGED <<now, answer>>

(* add: a later call replaces the time of an earlier one. *)
Add(id, expiresAt) ==
  /\ seen' = [seen EXCEPT ![id] = expiresAt]
  /\ recorded' = recorded \union {[id |-> id, expiresAt |-> expiresAt]}
  /\ UNCHANGED <<now, answer>>

(* Mutant: an ID is pruned when the time that was kept for it has come.    *)
IsSeenPruned(id) == seen[id] # None /\ now < seen[id]

IsSeen(id) == seen[id] # None

Contains(c, id) ==
  /\ answer' = [answer EXCEPT ![c] = [id |-> id, seen |-> IsSeen(id)]]
  /\ UNCHANGED <<now, seen, recorded>>

Tick ==
  /\ now' \in Times /\ now' > now
  /\ UNCHANGED <<seen, recorded, answer>>

Next ==
  \/ Tick
  \/ \E id \in Ids : \/ \E t \in Times : Add(id, t)
                     \/ \E c \in Clients : Contains(c, id)

Spec == Init /\ [][Next]_vars

-----------------------------------------------------------------------------
TypeOK ==
  /\ now \in Times
  /\ seen \in [Ids -> Times \union {None}]
  /\ recorded \subseteq [id : Ids, expiresAt : Times]
  /\ answer \in [Clients -> [id : Ids, seen : BOOLEAN] \union {None}]

(* The store keeps what the protocol promises: an assertion that was       *)
(* consumed and may still be valid is recognised, also when a later add    *)
(* for its ID names an earlier time.                                       *)
Protocol == INSTANCE AssertionStore WITH now <- now, recorded <- recorded, answer <- answer

ImplementsAssertionStore == Protocol!Spec

(* What was once reported as seen is never reported as unseen, to no       *)
(* client: two clients that both find an ID unseen looked before either    *)
(* recorded it.  contains and add being two calls, that cannot be excluded *)
(* by any store.                                                           *)
SeenForGood ==
  [][\A c, d \in Clients :
       /\ answer[d] # None /\ answer[d].seen
       /\ answer'[c] # answer[c] /\ answer'[c].id = answer[d].id
       => answer'[c].seen]_vars

=============================================================================
