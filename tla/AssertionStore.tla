--------------------------- MODULE AssertionStore ---------------------------
(***************************************************************************)
(* protocols.py AssertionStore: what any replay store promises.  An ID     *)
(* that was recorded as consumed until some time is reported as seen until *)
(* then, whatever was recorded since; an ID never recorded is not; and in  *)
(* between, when every record has lapsed, the store may have pruned it.    *)
(***************************************************************************)
EXTENDS Integers

CONSTANTS Ids, Times, Clients, None

VARIABLES
  now,       \* the time of day, which goes forward
  recorded,  \* every [id, expiresAt] ever given to add
  answer     \* the last reply of contains to each client

storeVars == <<now, recorded, answer>>

Init ==
  /\ now \in Times
  /\ recorded = {}
  /\ answer = [c \in Clients |-> None]

Add(id, expiresAt) ==
  /\ recorded' = recorded \union {[id |-> id, expiresAt |-> expiresAt]}
  /\ UNCHANGED <<now, answer>>

Contains(c, id) ==
  /\ \E seen \in BOOLEAN :
       /\ (\E r \in recorded : r.id = id /\ now < r.expiresAt) => seen
       /\ seen => \E r \in recorded : r.id = id
       /\ answer' = [answer EXCEPT ![c] = [id |-> id, seen |-> seen]]
  /\ UNCHANGED <<now, recorded>>

Tick ==
  /\ now' \in Times /\ now' > now
  /\ UNCHANGED <<recorded, answer>>

Next ==
  \/ Tick
  \/ \E id \in Ids : \/ \E t \in Times : Add(id, t)
                     \/ \E c \in Clients : Contains(c, id)

Spec == Init /\ [][Next]_storeVars

=============================================================================
