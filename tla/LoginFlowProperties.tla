------------------------ MODULE LoginFlowProperties -------------------------
(***************************************************************************)
(* What request correlation achieves, end to end.                          *)
(***************************************************************************)
EXTENDS LoginFlow

Headers == RequestIds \union {None}

SentResponses ==
  { Response(AcsUrl, EntityId, q, u, t) : q \in Headers, u \in Users, t \in Instants }

(* What may become of the IdP's responses on their way *)
ReceivedResponses ==
  { [response EXCEPT !.inResponseTo = header] : response \in responses, header \in Headers }

Genuine(response) == [response EXCEPT !.inResponseTo = AnsweredId(response)]

TypeOK ==
  /\ now \in Instants
  /\ issued \in [RequestIds -> IssuedRequests \union {None}]
  /\ \A q \in RequestIds : issued[q] # None => issued[q].xml.id = q
  /\ outstanding \in [Agents -> SUBSET RequestIds]
  /\ responses \subseteq SentResponses
  /\ calls \in [Threads ->
       [agent : Agents, expected : Headers, outcome : Outcomes \union {None},
        response : ReceivedResponses] \union {None}]
  /\ entries \in [RequestIds -> Seq([agent : Agents, user : Users])]

-----------------------------------------------------------------------------
(* However responses are lost, repeated, delayed, swapped between agents   *)
(* or answered twice, and however calls interleave: at most one login      *)
(* comes of a request, in the agent it was built for, of a user who logged *)
(* in at the IdP for this very request.                                    *)
requestHolder ==
  [q \in RequestIds |-> IF issued[q] = None THEN None ELSE issued[q].agent]
vouchedUsers ==
  [q \in RequestIds |-> { r.user : r \in { r \in responses : AnsweredId(r) = q } }]

Once == INSTANCE OneLogin WITH holder <- requestHolder, vouched <- vouchedUsers

AtMostOneLogin == Once!Spec

(* What the library has to do with that: a call passes only with an answer *)
(* the IdP made to the request the call names, in the signed confirmation  *)
(* and in the Response element, or with an unsolicited response where      *)
(* those are allowed.                                                      *)
PassedAnswersItsRequest ==
  \A t \in Threads : calls[t] # None /\ calls[t].outcome = Passed =>
    /\ AnsweredId(calls[t].response) = calls[t].expected
    /\ calls[t].response.inResponseTo = calls[t].expected
    /\ calls[t].expected = None => AllowIdpInitiated

(* What the library asks for is what it accepts: a response that answers a *)
(* request as the request says is refused for its time alone.              *)
AnswersAreRefusedForTimeOnly ==
  \A t \in Threads :
    /\ calls[t] # None
    /\ calls[t].expected # None \/ AllowIdpInitiated
    /\ AnsweredId(calls[t].response) = calls[t].expected
    /\ calls[t].response.inResponseTo = calls[t].expected
    => calls[t].outcome \in {None, Passed, AssertionExpiredError}

(* Under the fairness of the threads alone: once a call has been made with *)
(* the answer to an outstanding request, and the answer is good at any     *)
(* time the clock may show, the request leads to a login.                  *)
GoodAtAnyTime(response) ==
  \A t \in Instants :
    response.at - ClockSkew <= t /\ t < response.at + Lifetime + ClockSkew

GenuineAnswersLogIn ==
  \A t \in Threads, q \in RequestIds :
    (/\ calls[t] # None /\ calls[t].expected = q
     /\ calls[t].response = Genuine(calls[t].response)
     /\ AnsweredId(calls[t].response) = q
     /\ GoodAtAnyTime(calls[t].response))
    ~> entries[q] # << >>

=============================================================================
