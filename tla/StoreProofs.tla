----------------------------- MODULE StoreProofs -----------------------------
(***************************************************************************)
(* The reference store implements the protocol, for any IDs, times and     *)
(* clients.                                                                *)
(***************************************************************************)
EXTENDS Stores, TLAPS

(* Type correctness: what the store keeps for an ID is a time that was     *)
(* given to add.                                                           *)
THEOREM StoreTypeCorrect == Spec => []TypeOK
<1>1. Init => TypeOK
  BY DEF Init, TypeOK
<1>2. TypeOK /\ [Next]_vars => TypeOK'
  <2> SUFFICES ASSUME TypeOK, [Next]_vars PROVE TypeOK'
    OBVIOUS
  <2>1. CASE Tick
    BY <2>1 DEF TypeOK, Tick
  <2>2. ASSUME NEW id \in Ids, NEW t \in Times, Add(id, t) PROVE TypeOK'
    BY <2>2 DEF TypeOK, Add
  <2>3. ASSUME NEW id \in Ids, NEW c \in Clients, Contains(c, id) PROVE TypeOK'
    BY <2>3 DEF TypeOK, Contains, IsSeen
  <2>4. CASE UNCHANGED vars
    BY <2>4 DEF TypeOK, vars
  <2> QED
    BY <2>1, <2>2, <2>3, <2>4 DEF Next
<1> QED
  BY <1>1, <1>2, PTL DEF Spec

-----------------------------------------------------------------------------
(* The dictionary and the history agree on which IDs were recorded, and    *)
(* every reply that reported an ID as seen is about one of them.           *)
Remembers ==
  /\ \A id \in Ids : IsSeen(id) <=> \E r \in recorded : r.id = id
  /\ \A c \in Clients : answer[c] # None /\ answer[c].seen => IsSeen(answer[c].id)

StoreInv == TypeOK /\ Remembers

(* An ID leaves the dictionary in no step, and Remembers is inductive.     *)
LEMMA StoreInvInductive == Spec => []StoreInv
<1>1. Init => StoreInv
  BY DEF Init, StoreInv, TypeOK, Remembers, IsSeen
<1>2. StoreInv /\ TypeOK' /\ [Next]_vars => StoreInv'
  <2> SUFFICES ASSUME StoreInv, TypeOK', [Next]_vars PROVE Remembers'
    BY DEF StoreInv
  <2>1. CASE Tick \/ UNCHANGED vars
    BY <2>1 DEF StoreInv, Remembers, Tick, IsSeen, vars
  <2>2. ASSUME NEW id \in Ids, NEW t \in Times, Add(id, t) PROVE Remembers'
    <3>1. \A i \in Ids : IsSeen(i)' <=> (i = id \/ IsSeen(i))
      BY <2>2, StoreAssumption DEF StoreInv, TypeOK, Add, IsSeen
    <3>2. \A i : (\E r \in recorded' : r.id = i) <=> (i = id \/ \E r \in recorded : r.id = i)
      <4> DEFINE new == [id |-> id, expiresAt |-> t]
      <4>1. recorded' = recorded \union {new} /\ new.id = id
        BY <2>2 DEF Add
      <4> HIDE DEF new
      <4> QED
        BY <4>1
    <3>3. answer' = answer
      BY <2>2 DEF Add
    <3>4. \A c \in Clients : answer[c] # None /\ answer[c].seen => answer[c].id \in Ids
      BY DEF StoreInv, TypeOK
    <3> QED
      BY <3>1, <3>2, <3>3, <3>4 DEF StoreInv, Remembers
  <2>3. ASSUME NEW id \in Ids, NEW c \in Clients, Contains(c, id) PROVE Remembers'
    <3>1. /\ \A i : IsSeen(i)' <=> IsSeen(i)
          /\ recorded' = recorded
      BY <2>3 DEF Contains, IsSeen
    <3>2. \A d \in Clients : answer'[d] = IF d = c THEN [id |-> id, seen |-> IsSeen(id)] ELSE answer[d]
      BY <2>3 DEF Contains, StoreInv, TypeOK
    <3> QED
      BY <3>1, <3>2 DEF StoreInv, Remembers
  <2> QED
    BY <2>1, <2>2, <2>3 DEF Next
<1> QED
  BY <1>1, <1>2, StoreTypeCorrect, PTL DEF Spec

(* The store keeps what the protocol promises: its dictionary recognises   *)
(* an ID exactly when it was ever recorded, which is more than the         *)
(* protocol asks for.                                                      *)
THEOREM StoreImplementsProtocol == Spec => ImplementsAssertionStore
<1>1. Init => Protocol!Init
  BY DEF Init, Protocol!Init
<1>2. StoreInv /\ [Next]_vars => [Protocol!Next]_Protocol!storeVars
  <2> SUFFICES ASSUME StoreInv, [Next]_vars
               PROVE  Protocol!Next \/ UNCHANGED Protocol!storeVars
    OBVIOUS
  <2>1. CASE Tick
    BY <2>1 DEF Tick, Protocol!Next, Protocol!Tick
  <2>2. ASSUME NEW id \in Ids, NEW t \in Times, Add(id, t) PROVE Protocol!Next
    BY <2>2 DEF Add, Protocol!Next, Protocol!Add
  <2>3. ASSUME NEW id \in Ids, NEW c \in Clients, Contains(c, id) PROVE Protocol!Next
    <3>1. IsSeen(id) \in BOOLEAN
      BY DEF IsSeen
    <3>2. IsSeen(id) <=> \E r \in recorded : r.id = id
      BY DEF StoreInv, Remembers
    <3>3. Protocol!Contains(c, id)
      BY <2>3, <3>1, <3>2 DEF Contains, Protocol!Contains
    <3> QED
      BY <3>3 DEF Protocol!Next
  <2>4. CASE UNCHANGED vars
    BY <2>4 DEF vars, Protocol!storeVars
  <2> QED
    BY <2>1, <2>2, <2>3, <2>4 DEF Next
<1> QED
  BY <1>1, <1>2, StoreInvInductive, PTL DEF Spec, ImplementsAssertionStore, Protocol!Spec

(* No client is told that an ID is unseen after any client was told that   *)
(* it is seen.                                                             *)
THEOREM SeenIsForGood == Spec => SeenForGood
<1> DEFINE Told(c, d) ==
      /\ answer[d] # None /\ answer[d].seen
      /\ answer'[c] # answer[c] /\ answer'[c].id = answer[d].id
<1>1. StoreInv /\ [Next]_vars => [\A c, d \in Clients : Told(c, d) => answer'[c].seen]_vars
  <2> SUFFICES ASSUME StoreInv, Next, NEW c \in Clients, NEW d \in Clients, Told(c, d)
               PROVE  answer'[c].seen
    OBVIOUS
  <2>1. PICK id \in Ids, e \in Clients : Contains(e, id)
    BY DEF Next, Tick, Add
  <2>2. c = e /\ answer'[c] = [id |-> id, seen |-> IsSeen(id)]
    BY <2>1 DEF Contains, StoreInv, TypeOK
  <2>3. IsSeen(answer[d].id)
    BY DEF StoreInv, Remembers
  <2> QED
    BY <2>2, <2>3
<1> QED
  BY <1>1, StoreInvInductive, PTL DEF Spec, SeenForGood

=============================================================================
