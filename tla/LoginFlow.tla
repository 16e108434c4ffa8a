----------------------------- MODULE LoginFlow ------------------------------
(***************************************************************************)
(* Logins from end to end: a program that uses the library builds a        *)
(* request for a user agent and keeps its ID in that agent's session; the  *)
(* IdP answers; the network loses, delays, reorders and repeats answers    *)
(* and takes them to any agent; agents post them; calls of                 *)
(* process_response run side by side; and what passes is turned into a     *)
(* login.                                                                  *)
(*                                                                         *)
(* The program is external.  It keeps the contract stated at               *)
(* process_response: the expected ID comes from the agent's own session,   *)
(* and is discarded when a response consumes it, which is one atomic step  *)
(* with letting the agent in.                                              *)
(*                                                                         *)
(* A call judges in one step: ValidationProperties shows that it may be    *)
(* seen so.  Every assertion here is one the IdP signed, so of the checks  *)
(* those on its content and addressing are left.                           *)
(***************************************************************************)
EXTENDS Configuration, Requests, Conditions, SubjectConfirmation, FiniteSets

CONSTANTS
  Agents,        \* user agents: browsers with a session each
  Users,         \* who may log in at the IdP
  RequestIds,    \* the IDs that sid() may make, each once
  Threads,       \* where calls run
  SsoUrl,        \* IdPDescriptor.sso_url
  Instants,      \* what the clock may show
  Lifetime,      \* how long an assertion is good for, in microseconds
  MaxResponses   \* bound: how many responses the IdP makes in all

(* What the program may note of a request it had built *)
IssuedRequests ==
  [agent : Agents,
   xml : { AuthnRequestXml([entityId |-> EntityId, acsUrl |-> AcsUrl], [ssoUrl |-> SsoUrl],
             [aware |-> TRUE, at |-> t], h, q) :
             t \in Instants, h \in Instants, q \in RequestIds }]

ASSUME LoginAssumption ==
  /\ Instants \subseteq Int
  /\ Lifetime \in Nat \ {0}
  /\ None \notin Agents \union RequestIds \union IssuedRequests \union Outcomes
  /\ Blank \notin RequestIds \union {None}

VARIABLES
  now,          \* the time of day
  issued,       \* the agent a request was built for and the request's XML
  outstanding,  \* the request IDs in each agent's session
  responses,    \* what the IdP has sent; it may arrive at any time, or never
  calls,        \* what each thread is processing
  entries       \* the logins that came of each request

vars == <<now, issued, outstanding, responses, calls, entries>>

-----------------------------------------------------------------------------
(* The IdP's answer to a request it was sent, with everything where the    *)
(* request asks for it.  A response nobody asked for is addressed by the   *)
(* SP's metadata and names no request.                                     *)
Response(acs, audience, id, user, t) ==
  LET end == [form |-> "instant", at |-> (t + Lifetime) * SubMicro]
      data == [notBefore |-> [form |-> "absent", at |-> 0], recipient |-> acs,
               notOnOrAfter |-> end, inResponseTo |-> id]
  IN  [destination |-> acs, inResponseTo |-> id,
       conditions |-> <<[notBefore |-> [form |-> "instant", at |-> t * SubMicro],
                         notOnOrAfter |-> end,
                         restrictions |-> << <<audience>> >>, others |-> {}]>>,
       subjects |-> << <<[method |-> "bearer", data |-> <<data>>]>> >>,
       user |-> user, at |-> t]

(* The request its assertion answers, which the IdP has signed *)
AnsweredId(response) == response.subjects[1][1].data[1].inResponseTo

-----------------------------------------------------------------------------
Init ==
  /\ now \in Instants
  /\ issued = [q \in RequestIds |-> None]
  /\ outstanding = [a \in Agents |-> {}]
  /\ responses = {}
  /\ calls = [t \in Threads |-> None]
  /\ entries = [q \in RequestIds |-> << >>]

(* build_authn_request with an ID never made before; the program notes it. *)
(* Should the host's clock be read again for the date, it may have moved.  *)
StartLogin(q, a) ==
  /\ issued[q] = None
  /\ \E hostTime \in Instants :
       LET request == BuildAuthnRequest([entityId |-> EntityId, acsUrl |-> AcsUrl],
                        [ssoUrl |-> SsoUrl], None, [aware |-> TRUE, at |-> now], hostTime, q)
       IN  /\ issued' = [issued EXCEPT ![q] = [agent |-> a, xml |-> request.xml]]
           /\ outstanding' = [outstanding EXCEPT ![a] = @ \union {request.requestId}]
  /\ UNCHANGED <<now, responses, calls, entries>>

Send(response) ==
  /\ Cardinality(responses) < MaxResponses
  /\ responses' = responses \union {response}
  /\ UNCHANGED <<now, issued, outstanding, calls, entries>>

(* The IdP answers, more than once perhaps and for whoever is there. *)
Answer(q, user) ==
  /\ issued[q] # None
  /\ LET xml == issued[q].xml
     IN  Send(Response(xml.assertionConsumerServiceUrl, xml.issuer, xml.id, user, now))

Volunteer(user) == Send(Response(AcsUrl, EntityId, None, user, now))

(* An agent posts a response, and a call is made of it: for one of the     *)
(* requests of the agent's session, or for none.  The Response element is  *)
(* not signed: its InResponseTo may have become another than the IdP's.    *)
Deliver(t, a) ==
  /\ calls[t] = None
  /\ \E response \in responses, expected \in outstanding[a] \union {None} :
    \E header \in {response.inResponseTo, expected} :
      calls' = [calls EXCEPT ![t] =
        [agent |-> a, expected |-> expected, outcome |-> None,
         response |-> [response EXCEPT !.inResponseTo = header]]]
  /\ UNCHANGED <<now, issued, outstanding, responses, entries>>

Verdict(response, expected) ==
  LET reading == [aware |-> TRUE, at |-> now]
  IN  ValidateConditions(response.conditions, EntityId, reading, ClockSkew)
      && ValidateSubjectConfirmation(response, response.subjects, AcsUrl, ClockSkew,
           AllowIdpInitiated, expected, reading)

(* process_response *)
Judge(t) ==
  /\ calls[t] # None /\ calls[t].outcome = None
  /\ calls' = [calls EXCEPT ![t].outcome = Verdict(calls[t].response, calls[t].expected)]
  /\ UNCHANGED <<now, issued, outstanding, responses, entries>>

Judged(t) == calls[t] # None /\ calls[t].outcome # None

LetIn(t) ==
  /\ entries' = [entries EXCEPT ![calls[t].expected] =
       Append(@, [agent |-> calls[t].agent, user |-> calls[t].response.user])]
  /\ outstanding' = [outstanding EXCEPT ![calls[t].agent] = @ \ {calls[t].expected}]

(* Mutant: the agent is let in without a look at whether the ID is still   *)
(* outstanding.                                                            *)
LogInUnclaimed(t) ==
  /\ Judged(t) /\ calls[t].outcome = Passed
  /\ calls[t].expected # None
  /\ LetIn(t)
  /\ calls' = [calls EXCEPT ![t] = None]
  /\ UNCHANGED <<now, issued, responses>>

(* A response that passed consumes the request: the ID is taken from the   *)
(* session and the agent is let in.                                        *)
LogIn(t) ==
  /\ Judged(t) /\ calls[t].outcome = Passed
  /\ calls[t].expected \in outstanding[calls[t].agent]
  /\ LetIn(t)
  /\ calls' = [calls EXCEPT ![t] = None]
  /\ UNCHANGED <<now, issued, responses>>

(* An error, a request that another call has consumed, or an unsolicited   *)
(* response: no request's ID is touched.                                   *)
Close(t) ==
  /\ Judged(t)
  /\ calls[t].outcome # Passed \/ calls[t].expected \notin outstanding[calls[t].agent]
  /\ calls' = [calls EXCEPT ![t] = None]
  /\ UNCHANGED <<now, issued, outstanding, responses, entries>>

MoveClock ==
  /\ now' \in Instants \ {now}
  /\ UNCHANGED <<issued, outstanding, responses, calls, entries>>

-----------------------------------------------------------------------------
Next ==
  \/ MoveClock
  \/ \E q \in RequestIds, a \in Agents : StartLogin(q, a)
  \/ \E q \in RequestIds, u \in Users : Answer(q, u)
  \/ \E u \in Users : Volunteer(u)
  \/ \E t \in Threads :
       \/ \E a \in Agents : Deliver(t, a)
       \/ Judge(t) \/ LogIn(t) \/ Close(t)

Spec == Init /\ [][Next]_vars

(* A call in progress goes on.  Nothing is assumed of agents, of the IdP   *)
(* or of the network.                                                      *)
FairSpec == Spec /\ \A t \in Threads : WF_vars(Judge(t) \/ LogIn(t) \/ Close(t))

=============================================================================
