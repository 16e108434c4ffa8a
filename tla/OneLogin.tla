------------------------------ MODULE OneLogin ------------------------------
(***************************************************************************)
(* What request correlation is for: a request is issued to one user agent; *)
(* at most one login comes of it; that login is by the agent it was issued *)
(* to, and of a user the IdP vouched for in answer to this very request.   *)
(***************************************************************************)
EXTENDS Sequences

CONSTANTS Agents, Users, RequestIds, None

VARIABLES
  holder,   \* the agent a request was issued to, None before
  vouched,  \* the users the IdP vouched for in answer to a request
  entries   \* the logins that came of a request

onceVars == <<holder, vouched, entries>>

Init ==
  /\ holder = [q \in RequestIds |-> None]
  /\ vouched = [q \in RequestIds |-> {}]
  /\ entries = [q \in RequestIds |-> << >>]

Issue(q, a) ==
  /\ holder[q] = None
  /\ holder' = [holder EXCEPT ![q] = a]
  /\ UNCHANGED <<vouched, entries>>

Vouch(q, u) ==
  /\ holder[q] # None
  /\ vouched' = [vouched EXCEPT ![q] = @ \union {u}]
  /\ UNCHANGED <<holder, entries>>

Enter(q, u) ==
  /\ entries[q] = << >>
  /\ u \in vouched[q]
  /\ entries' = [entries EXCEPT ![q] = <<[agent |-> holder[q], user |-> u]>>]
  /\ UNCHANGED <<holder, vouched>>

Next ==
  \E q \in RequestIds :
    \/ \E a \in Agents : Issue(q, a)
    \/ \E u \in Users : Vouch(q, u) \/ Enter(q, u)

Spec == Init /\ [][Next]_onceVars

=============================================================================
