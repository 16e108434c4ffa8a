----------------------------- MODULE LoginProofs -----------------------------
(***************************************************************************)
(* Logins from end to end, for any agents, users, requests and threads:    *)
(* the invariants of module LoginFlow, and that at most one login comes of *)
(* a request.                                                              *)
(***************************************************************************)
EXTENDS LoginFlowProperties, TimestampsProofs

USE DEF Passed, MalformedResponseError, StatusError, SignatureError, AssertionExpiredError,
        AudienceMismatchError, RecipientMismatchError, InResponseToError, ValueError,
        SchemaBundleError, BackendFailure

-----------------------------------------------------------------------------
(* What a call is given: a response of the IdP's, perhaps under another    *)
(* name.                                                                   *)
LEMMA ReceivedIsAddressed ==
  ASSUME TypeOK, NEW r \in ReceivedResponses
  PROVE  \E original \in responses, q \in Headers, u \in Users, t \in Instants :
           /\ original = Response(AcsUrl, EntityId, q, u, t)
           /\ AnsweredId(original) = q /\ AnsweredId(r) = q
           /\ r.user = original.user
           /\ r.destination = AcsUrl
           /\ r.inResponseTo \in Headers
           /\ r.conditions = original.conditions
           /\ r.subjects = original.subjects
<1>1. PICK original \in responses, h \in Headers : r = [original EXCEPT !.inResponseTo = h]
  BY DEF ReceivedResponses
<1>2. PICK q \in Headers, u \in Users, t \in Instants :
        original = Response(AcsUrl, EntityId, q, u, t)
  BY DEF TypeOK, SentResponses
<1>3. /\ r.user = original.user /\ r.destination = AcsUrl /\ r.inResponseTo = h
      /\ r.conditions = original.conditions /\ r.subjects = original.subjects
  BY <1>1, <1>2 DEF Response
<1>4. AnsweredId(original) = q
  BY <1>2 DEF AnsweredId, Response
<1> QED BY <1>2, <1>3, <1>4 DEF AnsweredId

(* The one bearer of a response decides. *)
LEMMA OneBearer ==
  ASSUME NEW q, NEW u, NEW t, NEW expected, NEW clock
  PROVE  LET subject == Response(AcsUrl, EntityId, q, u, t).subjects[1]
         IN  /\ Len(Response(AcsUrl, EntityId, q, u, t).subjects) = 1
             /\ Bearers(subject) = {1}
             /\ ConfirmAnyBearer(subject, AcsUrl, expected, clock, ClockSkew)
                  = ConfirmBearer(subject[1], AcsUrl, expected, clock, ClockSkew)
<1> DEFINE subject == Response(AcsUrl, EntityId, q, u, t).subjects[1]
           verdict(i) == ConfirmBearer(subject[i], AcsUrl, expected, clock, ClockSkew)
           first == CHOOSE i \in Bearers(subject) : \A j \in Bearers(subject) : i <= j
<1>1. /\ Len(Response(AcsUrl, EntityId, q, u, t).subjects) = 1
      /\ DOMAIN subject = {1} /\ subject[1].method = "bearer"
  BY DEF Response
<1>2. Bearers(subject) = {1}
  BY <1>1 DEF Bearers
<1>3. first = 1
  BY <1>2
<1>4. ConfirmAnyBearer(subject, AcsUrl, expected, clock, ClockSkew)
        = IF \E i \in Bearers(subject) : verdict(i) = Passed THEN Passed ELSE verdict(first)
  BY DEF ConfirmAnyBearer
<1> HIDE DEF verdict, first, subject
<1>5. ConfirmAnyBearer(subject, AcsUrl, expected, clock, ClockSkew) = verdict(1)
  BY <1>2, <1>3, <1>4
<1> QED BY <1>1, <1>2, <1>5 DEF subject, verdict

-----------------------------------------------------------------------------
(* The verdict is a known outcome. *)
LEMMA VerdictIsOutcome ==
  ASSUME NEW r, NEW expected
  PROVE  Verdict(r, expected) \in Outcomes
<1> USE DEF Require, &&, Outcomes, SamlErrors
<1>1. \A all, audience, instant, skew :
        ValidateConditions(all, audience, instant, skew) \in Outcomes
  BY DEF ValidateConditions, RequireAware, EnforceValidityWindow, ParseInstant,
         RequireAudience, RejectUnevaluableConditions
<1>2. \A confirmation, acs, e, t, skew : ConfirmBearer(confirmation, acs, e, t, skew) \in Outcomes
  BY DEF ConfirmBearer, ParseInstant, CheckInResponseTo
<1>3. \A subject, acs, e, t, skew : ConfirmAnyBearer(subject, acs, e, t, skew) \in Outcomes
  BY <1>2 DEF ConfirmAnyBearer
<1>4. \A m, subjects, acs, skew, allow, e, instant :
        ValidateSubjectConfirmation(m, subjects, acs, skew, allow, e, instant) \in Outcomes
  BY <1>3 DEF ValidateSubjectConfirmation, RequireAware, CheckResponseAddressing,
              CheckInResponseTo
<1> QED BY <1>1, <1>4 DEF Verdict

(* A response passes only under the request its assertion answers. *)
LEMMA PassedIsAnswer ==
  ASSUME TypeOK, NEW r \in ReceivedResponses, NEW expected, Verdict(r, expected) = Passed
  PROVE  /\ AnsweredId(r) = expected /\ r.inResponseTo = expected
         /\ expected = None => AllowIdpInitiated
<1>1. PICK original \in responses, q \in Headers, u \in Users, t \in Instants :
        /\ original = Response(AcsUrl, EntityId, q, u, t)
        /\ AnsweredId(r) = q
        /\ r.subjects = original.subjects
  BY ReceivedIsAddressed
<1>2. /\ expected = None => AllowIdpInitiated
      /\ r.inResponseTo = expected
      /\ ConfirmAnyBearer(r.subjects[1], AcsUrl, expected, now, ClockSkew) = Passed
  BY DEF Verdict, ValidateSubjectConfirmation, CheckResponseAddressing, CheckInResponseTo,
         RequireAware, Require, &&
<1>3. ConfirmBearer(r.subjects[1][1], AcsUrl, expected, now, ClockSkew) = Passed
  BY <1>1, <1>2, OneBearer
<1>4. AnsweredId(r) = expected
  BY <1>3 DEF ConfirmBearer, CheckInResponseTo, Require, &&, AnsweredId
<1> QED BY <1>2, <1>4

(* A whole microsecond is parsed as it was written. *)
LEMMA WholeIsParsed ==
  ASSUME NEW t \in Int
  PROVE  ParsedInstant([form |-> "instant", at |-> t * SubMicro]) = t
<1> DEFINE ts == [form |-> "instant", at |-> t * SubMicro]
           p == ParsedInstant(ts)
<1>1. SubMicro \in Nat /\ SubMicro > 0
  BY SubMicroAssumption
<1>2. ts \in WrittenTimestamps
  BY <1>1 DEF WrittenTimestamps, Forms
<1>3. p \in Int
  BY <1>2, ParsedInstantTruncates
<1>4. t <= p /\ (t + 1 <= p <=> (t + 1) * SubMicro <= t * SubMicro)
  BY <1>1, <1>2, WholeMicroseconds
<1>5. ~((t + 1) * SubMicro <= t * SubMicro)
  BY <1>1
<1> HIDE DEF p
<1>6. p = t
  BY <1>3, <1>4, <1>5
<1> QED BY <1>6 DEF p

(* A response under the request its assertion answers is refused for its   *)
(* time alone.                                                             *)
LEMMA AnswerIsRefusedForTime ==
  ASSUME TypeOK, NEW r \in ReceivedResponses, NEW expected \in Headers,
         expected = None => AllowIdpInitiated,
         AnsweredId(r) = expected, r.inResponseTo = expected
  PROVE  Verdict(r, expected) \in {Passed, AssertionExpiredError}
<1> DEFINE clock == [aware |-> TRUE, at |-> now]
<1>1. PICK original \in responses, q \in Headers, u \in Users, t \in Instants :
        /\ original = Response(AcsUrl, EntityId, q, u, t)
        /\ AnsweredId(r) = q
        /\ r.destination = AcsUrl
        /\ r.conditions = original.conditions
        /\ r.subjects = original.subjects
  BY ReceivedIsAddressed
<1>2. t \in Int /\ t + Lifetime \in Int /\ t < t + Lifetime
  BY LoginAssumption
<1>3. ValidateConditions(r.conditions, EntityId, clock, ClockSkew)
        \in {Passed, AssertionExpiredError}
  <2> DEFINE c == r.conditions[1]
  <2>1. /\ Len(r.conditions) = 1
        /\ c.notBefore = [form |-> "instant", at |-> t * SubMicro]
        /\ c.notOnOrAfter = [form |-> "instant", at |-> (t + Lifetime) * SubMicro]
        /\ c.restrictions = << <<EntityId>> >> /\ c.others = {}
    BY <1>1 DEF Response
  <2>2. ParsedInstant(c.notBefore) = t /\ ParsedInstant(c.notOnOrAfter) = t + Lifetime
    BY <2>1, <1>2, WholeIsParsed
  <2>3. EnforceValidityWindow(c, now, ClockSkew) \in {Passed, AssertionExpiredError}
    BY <1>2, <2>1, <2>2 DEF EnforceValidityWindow, ParseInstant, Parses, Present, Require, &&
  <2>4. RequireAudience(c, EntityId) = Passed
    <3>1. EntityId # ""
      BY ConfigurationAssumption DEF IsConfiguration
    <3>2. /\ c.restrictions # << >> /\ DOMAIN c.restrictions = {1}
          /\ DOMAIN c.restrictions[1] = {1} /\ c.restrictions[1][1] = EntityId
      BY <2>1
    <3>3. Names(c.restrictions[1], EntityId)
      BY <3>1, <3>2 DEF Names, AudienceValues
    <3> QED BY <3>2, <3>3 DEF RequireAudience, Require
  <2>5. RejectUnevaluableConditions(c) = Passed
    BY <2>1 DEF RejectUnevaluableConditions, Require
  <2> QED BY <2>1, <2>3, <2>4, <2>5 DEF ValidateConditions, RequireAware, Require, &&
<1>4. ConfirmBearer(r.subjects[1][1], AcsUrl, expected, now, ClockSkew)
        \in {Passed, AssertionExpiredError}
  BY <1>1 DEF Response, ConfirmBearer, CheckInResponseTo, ParseInstant, Parses, Present,
              Require, &&
<1>5. ValidateSubjectConfirmation(r, r.subjects, AcsUrl, ClockSkew, AllowIdpInitiated,
        expected, clock) \in {Passed, AssertionExpiredError}
  <2>1. expected # Blank
    BY LoginAssumption DEF Headers
  <2>2. Len(r.subjects) = 1 /\ Bearers(r.subjects[1]) = {1}
    BY <1>1, OneBearer
  <2>3. ConfirmAnyBearer(r.subjects[1], AcsUrl, expected, now, ClockSkew)
          \in {Passed, AssertionExpiredError}
    BY <1>1, <1>4, OneBearer
  <2>4. CheckResponseAddressing(r, AcsUrl, expected) = Passed
    BY <1>1 DEF CheckResponseAddressing, CheckInResponseTo, Require, &&
  <2> QED BY <2>1, <2>2, <2>3, <2>4 DEF ValidateSubjectConfirmation, RequireAware, Require, &&
<1> QED BY <1>3, <1>5 DEF Verdict, &&

-----------------------------------------------------------------------------
(* What a request and an answer look like. *)
LEMMA RequestIsNoted ==
  ASSUME TypeOK, NEW q \in RequestIds, NEW a \in Agents, StartLogin(q, a)
  PROVE  /\ issued' \in [RequestIds -> IssuedRequests \union {None}]
         /\ issued'[q] # None /\ issued'[q].agent = a /\ issued'[q].xml.id = q
         /\ \A p \in RequestIds \ {q} : issued'[p] = issued[p]
         /\ outstanding' = [outstanding EXCEPT ![a] = @ \union {q}]
<1> DEFINE Xml(t, h, p) ==
      AuthnRequestXml([entityId |-> EntityId, acsUrl |-> AcsUrl], [ssoUrl |-> SsoUrl],
        [aware |-> TRUE, at |-> t], h, p)
<1>1. PICK h \in Instants :
        /\ issued' = [issued EXCEPT ![q] = [agent |-> a, xml |-> Xml(now, h, q)]]
        /\ outstanding' = [outstanding EXCEPT ![a] = @ \union {q}]
  BY DEF StartLogin, BuildAuthnRequest
<1> DEFINE xml == Xml(now, h, q)
<1>2. now \in Instants /\ issued \in [RequestIds -> IssuedRequests \union {None}]
  BY DEF TypeOK
<1>3. IssuedRequests =
        [agent : Agents,
         xml : { Xml(t, k, p) : t \in Instants, k \in Instants, p \in RequestIds }]
  BY DEF IssuedRequests
<1>4. xml.id = q
  BY DEF AuthnRequestXml
<1> HIDE DEF Xml
<1>5. xml \in { Xml(t, k, p) : t \in Instants, k \in Instants, p \in RequestIds }
  BY <1>2
<1> HIDE DEF xml
<1>6. [agent |-> a, xml |-> xml] \in IssuedRequests
  BY <1>3, <1>5
<1>7. [agent |-> a, xml |-> xml] # None
  BY <1>6, LoginAssumption
<1>8. issued' = [issued EXCEPT ![q] = [agent |-> a, xml |-> xml]]
  BY <1>1 DEF xml
<1> QED BY <1>1, <1>2, <1>4, <1>6, <1>7, <1>8

LEMMA AnswerIsResponse ==
  ASSUME TypeOK, NEW q \in RequestIds, NEW u \in Users, Answer(q, u)
  PROVE  \E r \in SentResponses :
           responses' = responses \union {r} /\ AnsweredId(r) = q /\ r.user = u
<1> DEFINE xml == issued[q].xml
           r == Response(xml.assertionConsumerServiceUrl, xml.issuer, xml.id, u, now)
<1>1. issued[q] \in IssuedRequests /\ xml.id = q
  BY DEF TypeOK, Answer
<1>2. xml.assertionConsumerServiceUrl = AcsUrl /\ xml.issuer = EntityId
  <2> DEFINE Xml(t, h, p) ==
        AuthnRequestXml([entityId |-> EntityId, acsUrl |-> AcsUrl], [ssoUrl |-> SsoUrl],
          [aware |-> TRUE, at |-> t], h, p)
  <2>1. IssuedRequests =
          [agent : Agents,
           xml : { Xml(t, h, p) : t \in Instants, h \in Instants, p \in RequestIds }]
    BY DEF IssuedRequests
  <2>2. \A t, h, p :
          Xml(t, h, p).assertionConsumerServiceUrl = AcsUrl /\ Xml(t, h, p).issuer = EntityId
    BY DEF AuthnRequestXml
  <2> HIDE DEF Xml
  <2> QED BY <1>1, <2>1, <2>2
<1>3. r = Response(AcsUrl, EntityId, q, u, now)
  BY <1>1, <1>2
<1>4. r \in SentResponses
  BY <1>3 DEF SentResponses, Headers, TypeOK
<1>5. AnsweredId(r) = q /\ r.user = u
  BY <1>3 DEF AnsweredId, Response
<1>6. responses' = responses \union {r}
  BY DEF Answer, Send
<1> QED BY <1>4, <1>5, <1>6

LEMMA VolunteeredIsResponse ==
  ASSUME TypeOK, NEW u \in Users, Volunteer(u)
  PROVE  \E r \in SentResponses :
           responses' = responses \union {r} /\ AnsweredId(r) = None /\ r.user = u
<1> DEFINE r == Response(AcsUrl, EntityId, None, u, now)
<1>1. r \in SentResponses
  <2>1. None \in Headers /\ now \in Instants
    BY DEF Headers, TypeOK
  <2> QED BY <2>1 DEF SentResponses
<1>2. AnsweredId(r) = None /\ r.user = u
  BY DEF AnsweredId, Response
<1>3. responses' = responses \union {r}
  BY DEF Volunteer, Send
<1> QED BY <1>1, <1>2, <1>3

(* What a call is given, whatever else the IdP sends later *)
LEMMA ReceivedForGood ==
  ASSUME responses \subseteq responses'
  PROVE  ReceivedResponses \subseteq ReceivedResponses'
BY DEF ReceivedResponses

LEMMA CallIsTyped ==
  ASSUME TypeOK, NEW t \in Threads, NEW a \in Agents, Deliver(t, a)
  PROVE  \E r \in ReceivedResponses, expected \in Headers :
           calls' = [calls EXCEPT ![t] =
             [agent |-> a, expected |-> expected, outcome |-> None, response |-> r]]
<1>1. PICK original \in responses, expected \in outstanding[a] \union {None} :
        \E header \in {original.inResponseTo, expected} :
          calls' = [calls EXCEPT ![t] =
            [agent |-> a, expected |-> expected, outcome |-> None,
             response |-> [original EXCEPT !.inResponseTo = header]]]
  BY DEF Deliver
<1>2. PICK header \in {original.inResponseTo, expected} :
        calls' = [calls EXCEPT ![t] =
          [agent |-> a, expected |-> expected, outcome |-> None,
           response |-> [original EXCEPT !.inResponseTo = header]]]
  BY <1>1
<1>3. expected \in Headers
  BY DEF TypeOK, Headers
<1>4. original.inResponseTo \in Headers
  BY DEF TypeOK, SentResponses, Response
<1>5. [original EXCEPT !.inResponseTo = header] \in ReceivedResponses
  BY <1>3, <1>4 DEF ReceivedResponses
<1> QED BY <1>2, <1>3, <1>5

(* Type correctness: every call is given something the IdP sent, and every *)
(* verdict is a known outcome.                                             *)
LEMMA LoginTypeStep == TypeOK /\ [Next]_vars => TypeOK'
<1> SUFFICES ASSUME TypeOK, [Next]_vars PROVE TypeOK'
  OBVIOUS
<1> DEFINE Calls == [agent : Agents, expected : Headers, outcome : Outcomes \union {None},
                     response : ReceivedResponses]
<1>1. ASSUME responses' = responses
      PROVE  ReceivedResponses' = ReceivedResponses
  BY <1>1 DEF ReceivedResponses
<1>2. ASSUME responses \subseteq responses', calls' = calls
      PROVE  calls' \in [Threads -> Calls' \union {None}]
  <2>1. Calls \subseteq Calls'
    BY <1>2, ReceivedForGood
  <2>2. calls \in [Threads -> Calls \union {None}]
    BY DEF TypeOK
  <2> HIDE DEF Calls
  <2> QED BY <1>2, <2>1, <2>2
<1>3. ASSUME NEW q \in RequestIds, NEW a \in Agents, StartLogin(q, a) PROVE TypeOK'
  <2>1. /\ issued' \in [RequestIds -> IssuedRequests \union {None}]
        /\ \A p \in RequestIds : issued'[p] # None => issued'[p].xml.id = p
        /\ outstanding' \in [Agents -> SUBSET RequestIds]
    <3>1. \A p \in RequestIds : issued'[p] # None => issued'[p].xml.id = p
      BY <1>3, RequestIsNoted DEF TypeOK
    <3>2. outstanding' = [outstanding EXCEPT ![a] = @ \union {q}]
      BY <1>3, RequestIsNoted
    <3>3. outstanding' \in [Agents -> SUBSET RequestIds]
      BY <3>2 DEF TypeOK
    <3> QED BY <1>3, <3>1, <3>3, RequestIsNoted
  <2>2. UNCHANGED <<now, responses, calls, entries>>
    BY <1>3 DEF StartLogin
  <2> QED BY <1>2, <2>1, <2>2 DEF TypeOK
<1>4. ASSUME NEW q \in RequestIds, NEW u \in Users, Answer(q, u) PROVE TypeOK'
  <2>1. responses' \subseteq SentResponses /\ responses \subseteq responses'
    BY <1>4, AnswerIsResponse DEF TypeOK
  <2>2. UNCHANGED <<now, issued, outstanding, calls, entries>>
    BY <1>4 DEF Answer, Send
  <2> QED BY <1>2, <2>1, <2>2 DEF TypeOK
<1>5. ASSUME NEW u \in Users, Volunteer(u) PROVE TypeOK'
  <2>1. responses' \subseteq SentResponses /\ responses \subseteq responses'
    BY <1>5, VolunteeredIsResponse DEF TypeOK
  <2>2. UNCHANGED <<now, issued, outstanding, calls, entries>>
    BY <1>5 DEF Volunteer, Send
  <2> QED BY <1>2, <2>1, <2>2 DEF TypeOK
<1>6. ASSUME NEW t \in Threads, NEW a \in Agents, Deliver(t, a) PROVE TypeOK'
  <2>1. UNCHANGED <<now, issued, responses, outstanding, entries>>
    BY <1>6 DEF Deliver
  <2>2. calls' \in [Threads -> Calls \union {None}]
    <3>1. PICK r \in ReceivedResponses, expected \in Headers :
            calls' = [calls EXCEPT ![t] =
              [agent |-> a, expected |-> expected, outcome |-> None, response |-> r]]
      BY <1>6, CallIsTyped
    <3>2. [agent |-> a, expected |-> expected, outcome |-> None, response |-> r] \in Calls
      OBVIOUS
    <3>3. calls \in [Threads -> Calls \union {None}]
      BY DEF TypeOK
    <3> HIDE DEF Calls
    <3> QED BY <3>1, <3>2, <3>3
  <2> QED BY <1>1, <2>1, <2>2 DEF TypeOK
<1>7. ASSUME NEW t \in Threads, Judge(t) PROVE TypeOK'
  <2>1. UNCHANGED <<now, issued, outstanding, responses, entries>>
    BY <1>7 DEF Judge
  <2>2. calls[t] \in Calls
    BY <1>7 DEF Judge, TypeOK
  <2>3. [calls[t] EXCEPT !.outcome = Verdict(calls[t].response, calls[t].expected)] \in Calls
    BY <2>2, VerdictIsOutcome
  <2>4. calls' = [calls EXCEPT ![t] =
          [calls[t] EXCEPT !.outcome = Verdict(calls[t].response, calls[t].expected)]]
    BY <1>7 DEF Judge
  <2>5. calls \in [Threads -> Calls \union {None}]
    BY DEF TypeOK
  <2> HIDE DEF Calls
  <2>6. calls' \in [Threads -> Calls \union {None}]
    BY <2>3, <2>4, <2>5
  <2> USE DEF Calls
  <2> QED BY <1>1, <2>1, <2>6 DEF TypeOK
<1>8. ASSUME NEW t \in Threads, LogIn(t) \/ Close(t) PROVE TypeOK'
  <2>1. UNCHANGED <<now, issued, responses>> /\ calls' = [calls EXCEPT ![t] = None]
    BY <1>8 DEF LogIn, Close
  <2>2. calls' \in [Threads -> Calls \union {None}]
    BY <2>1 DEF TypeOK
  <2>3. outstanding' \in [Agents -> SUBSET RequestIds]
    BY <1>8 DEF LogIn, LetIn, Close, TypeOK
  <2>4. entries' \in [RequestIds -> Seq([agent : Agents, user : Users])]
    <3>1. CASE Close(t)
      BY <3>1 DEF Close, TypeOK
    <3>2. CASE LogIn(t)
      <4> DEFINE entry == [agent |-> calls[t].agent, user |-> calls[t].response.user]
                 q == calls[t].expected
      <4>1. calls[t] \in Calls
        BY <3>2 DEF LogIn, Judged, TypeOK
      <4>2. calls[t].response.user \in Users
        BY <4>1, ReceivedIsAddressed DEF Response
      <4>3. entry \in [agent : Agents, user : Users]
        BY <4>1, <4>2
      <4>4. entries' = [entries EXCEPT ![q] = Append(@, entry)]
        BY <3>2 DEF LogIn, LetIn
      <4>5. entries \in [RequestIds -> Seq([agent : Agents, user : Users])]
        BY DEF TypeOK
      <4>6. q \in RequestIds
        BY <4>1, <3>2 DEF LogIn, TypeOK
      <4> DEFINE Entries == [agent : Agents, user : Users]
      <4> HIDE DEF entry, q, Entries
      <4>7. entries[q] \in Seq(Entries) /\ entry \in Entries
        BY <4>3, <4>5, <4>6 DEF Entries
      <4> DEFINE longer == Append(entries[q], entry)
      <4>8. longer \in Seq(Entries)
        BY <4>7
      <4>9. entries' = [entries EXCEPT ![q] = longer]
        BY <4>4
      <4> HIDE DEF longer
      <4>10. entries' \in [RequestIds -> Seq(Entries)]
        BY <4>5, <4>8, <4>9 DEF Entries
      <4> QED BY <4>10 DEF Entries
    <3> QED BY <1>8, <3>1, <3>2
  <2> QED BY <1>1, <2>1, <2>2, <2>3, <2>4 DEF TypeOK
<1>9. CASE MoveClock
  BY <1>2, <1>9 DEF MoveClock, TypeOK
<1>10. CASE UNCHANGED vars
  BY <1>2, <1>10 DEF vars, TypeOK
<1> QED BY <1>3, <1>4, <1>5, <1>6, <1>7, <1>8, <1>9, <1>10 DEF Next

LEMMA LoginTypeInit == Init => TypeOK
BY DEF Init, TypeOK

(* Type correctness for any agents, users, requests and threads. *)
THEOREM LoginTypeCorrect == Spec => []TypeOK
BY LoginTypeInit, LoginTypeStep, PTL DEF Spec

-----------------------------------------------------------------------------
(* What the program keeps: an outstanding request is in the session it was *)
(* built for and no login has come of it; nor of one that was never built, *)
(* and of those the IdP answers none.                                      *)
SessionsFit ==
  /\ \A a \in Agents : \A q \in outstanding[a] :
       issued[q] # None /\ issued[q].agent = a /\ entries[q] = << >>
  /\ \A q \in RequestIds : issued[q] = None => entries[q] = << >>
  /\ \A r \in responses : AnsweredId(r) # None => issued[AnsweredId(r)] # None

(* The inductive invariant: what the program keeps, and what the library's *)
(* checks have made of the calls that are over.                            *)
LoginInv ==
  TypeOK /\ SessionsFit /\ PassedAnswersItsRequest /\ AnswersAreRefusedForTimeOnly

(* Which steps give a call its outcome: only process_response itself. *)
LEMMA JudgedByVerdict ==
  ASSUME TypeOK, [Next]_vars, NEW t \in Threads, calls'[t] # None
  PROVE  \/ calls'[t] = calls[t]
         \/ calls'[t].outcome = None
         \/ /\ calls[t] # None
            /\ calls'[t].expected = calls[t].expected
            /\ calls'[t].response = calls[t].response
            /\ calls'[t].outcome = Verdict(calls[t].response, calls[t].expected)
<1> DEFINE Goal == \/ calls'[t] = calls[t]
                   \/ calls'[t].outcome = None
                   \/ /\ calls[t] # None
                      /\ calls'[t].expected = calls[t].expected
                      /\ calls'[t].response = calls[t].response
                      /\ calls'[t].outcome = Verdict(calls[t].response, calls[t].expected)
<1>1. DOMAIN calls = Threads
  BY DEF TypeOK
<1>2. CASE UNCHANGED calls
  BY <1>2
<1>3. ASSUME NEW s \in Threads, NEW a \in Agents, Deliver(s, a) PROVE Goal
  <2>1. PICK r \in ReceivedResponses, expected \in Headers :
          calls' = [calls EXCEPT ![s] =
            [agent |-> a, expected |-> expected, outcome |-> None, response |-> r]]
    BY <1>3, CallIsTyped
  <2>2. CASE s = t
    BY <1>1, <2>1, <2>2
  <2>3. CASE s # t
    BY <1>1, <2>1, <2>3
  <2> QED BY <2>2, <2>3
<1>4. ASSUME NEW s \in Threads, Judge(s) PROVE Goal
  <2>1. calls[s] \in [agent : Agents, expected : Headers, outcome : Outcomes \union {None},
                       response : ReceivedResponses]
    BY <1>4 DEF Judge, TypeOK
  <2> DEFINE v == Verdict(calls[s].response, calls[s].expected)
  <2>2. calls' = [calls EXCEPT ![s] = [calls[s] EXCEPT !.outcome = v]] /\ calls[s] # None
    BY <1>4 DEF Judge
  <2>3. CASE s = t
    BY <1>1, <2>1, <2>2, <2>3
  <2>4. CASE s # t
    BY <1>1, <2>2, <2>4
  <2> QED BY <2>3, <2>4
<1>5. ASSUME NEW s \in Threads, LogIn(s) \/ Close(s) PROVE Goal
  <2>1. calls' = [calls EXCEPT ![s] = None]
    BY <1>5 DEF LogIn, Close
  <2> QED BY <1>1, <2>1
<1>6. CASE \/ MoveClock \/ UNCHANGED vars
           \/ \E q \in RequestIds, a \in Agents : StartLogin(q, a)
           \/ \E q \in RequestIds, u \in Users : Answer(q, u)
           \/ \E u \in Users : Volunteer(u)
  BY <1>2, <1>6 DEF MoveClock, vars, StartLogin, Answer, Volunteer, Send
<1> QED BY <1>3, <1>4, <1>5, <1>6 DEF Next

(* An outcome is that of the checks, and so it keeps what they promise. *)
LEMMA PassedStep == LoginInv /\ [Next]_vars => PassedAnswersItsRequest'
<1> SUFFICES ASSUME LoginInv, [Next]_vars, NEW t \in Threads,
                    calls'[t] # None, calls'[t].outcome = Passed
             PROVE  /\ AnsweredId(calls'[t].response) = calls'[t].expected
                    /\ calls'[t].response.inResponseTo = calls'[t].expected
                    /\ calls'[t].expected = None => AllowIdpInitiated
  BY DEF PassedAnswersItsRequest, AnsweredId
<1>1. None # Passed
  BY LoginAssumption DEF Outcomes
<1>2. CASE calls'[t] = calls[t]
  BY <1>2 DEF LoginInv, PassedAnswersItsRequest
<1>3. CASE /\ calls[t] # None
           /\ calls'[t].expected = calls[t].expected
           /\ calls'[t].response = calls[t].response
           /\ calls'[t].outcome = Verdict(calls[t].response, calls[t].expected)
  <2>1. calls[t].response \in ReceivedResponses
    BY <1>3 DEF LoginInv, TypeOK
  <2> QED BY <1>3, <2>1, PassedIsAnswer DEF LoginInv
<1> QED BY <1>1, <1>2, <1>3, JudgedByVerdict DEF LoginInv

LEMMA RefusedStep == LoginInv /\ [Next]_vars => AnswersAreRefusedForTimeOnly'
<1> SUFFICES ASSUME LoginInv, [Next]_vars, NEW t \in Threads,
                    calls'[t] # None, calls'[t].expected # None \/ AllowIdpInitiated,
                    AnsweredId(calls'[t].response) = calls'[t].expected,
                    calls'[t].response.inResponseTo = calls'[t].expected
             PROVE  calls'[t].outcome \in {None, Passed, AssertionExpiredError}
  BY DEF AnswersAreRefusedForTimeOnly, AnsweredId
<1>1. CASE calls'[t] = calls[t]
  BY <1>1 DEF LoginInv, AnswersAreRefusedForTimeOnly
<1>2. CASE /\ calls[t] # None
           /\ calls'[t].expected = calls[t].expected
           /\ calls'[t].response = calls[t].response
           /\ calls'[t].outcome = Verdict(calls[t].response, calls[t].expected)
  <2>1. calls[t].response \in ReceivedResponses /\ calls[t].expected \in Headers
    BY <1>2 DEF LoginInv, TypeOK
  <2> QED BY <1>2, <2>1, AnswerIsRefusedForTime DEF LoginInv
<1> QED BY <1>1, <1>2, JudgedByVerdict DEF LoginInv

(* What a login does: it takes the request from the one session that has   *)
(* it, and is the first to come of it.                                     *)
LEMMA LogInIsFirst ==
  ASSUME LoginInv, NEW t \in Threads, LogIn(t)
  PROVE  LET a == calls[t].agent
             q == calls[t].expected
             u == calls[t].response.user
         IN  /\ a \in Agents /\ q \in RequestIds /\ u \in Users
             /\ q \in outstanding[a] /\ issued[q] # None /\ issued[q].agent = a
             /\ entries[q] = << >>
             /\ entries' = [entries EXCEPT ![q] = <<[agent |-> a, user |-> u]>>]
             /\ outstanding' = [outstanding EXCEPT ![a] = @ \ {q}]
             /\ \E r \in responses : AnsweredId(r) = q /\ r.user = u
<1> DEFINE a == calls[t].agent
           q == calls[t].expected
           u == calls[t].response.user
<1>1. /\ calls[t] # None /\ calls[t].outcome = Passed /\ q \in outstanding[a]
      /\ entries' = [entries EXCEPT ![q] = Append(@, [agent |-> a, user |-> u])]
      /\ outstanding' = [outstanding EXCEPT ![a] = @ \ {q}]
  BY DEF LogIn, Judged, LetIn
<1>2. a \in Agents /\ calls[t].response \in ReceivedResponses
  BY <1>1 DEF LoginInv, TypeOK
<1>3. q \in RequestIds
  BY <1>1, <1>2 DEF LoginInv, TypeOK
<1>4. issued[q] # None /\ issued[q].agent = a /\ entries[q] = << >>
  BY <1>1, <1>2 DEF LoginInv, SessionsFit
<1>5. entries' = [entries EXCEPT ![q] = <<[agent |-> a, user |-> u]>>]
  <2> DEFINE entry == [agent |-> a, user |-> u]
  <2>1. Append(entries[q], entry) = <<entry>>
    BY <1>4
  <2>2. entries' = [entries EXCEPT ![q] = Append(entries[q], entry)]
    BY <1>1
  <2> QED BY <2>1, <2>2
<1>6. AnsweredId(calls[t].response) = q
  BY <1>1 DEF LoginInv, PassedAnswersItsRequest
<1>7. u \in Users /\ \E r \in responses : AnsweredId(r) = q /\ r.user = u
  <2>1. PICK r \in responses, p \in Headers, v \in Users, i \in Instants :
          /\ r = Response(AcsUrl, EntityId, p, v, i)
          /\ AnsweredId(r) = p /\ AnsweredId(calls[t].response) = p
          /\ u = r.user
    BY <1>2, ReceivedIsAddressed DEF LoginInv
  <2>2. r.user = v
    BY <2>1 DEF Response
  <2> QED BY <1>6, <2>1, <2>2
<1> QED BY <1>1, <1>2, <1>3, <1>4, <1>5, <1>7

(* A response sent answers a request that was made, or none. *)
LEMMA SentAnswersIssued ==
  ASSUME LoginInv, [Next]_vars, NEW r \in responses', AnsweredId(r) # None
  PROVE  issued'[AnsweredId(r)] # None
<1>1. \A p \in RequestIds : issued[p] # None => issued'[p] # None
  <2>1. ASSUME NEW q \in RequestIds, NEW a \in Agents, StartLogin(q, a)
        PROVE  \A p \in RequestIds : issued[p] # None => issued'[p] # None
    BY <2>1, RequestIsNoted DEF LoginInv
  <2>2. ASSUME NEW t \in Threads, NEW a \in Agents, Deliver(t, a) PROVE UNCHANGED issued
    BY <2>2 DEF Deliver
  <2> QED BY <2>1, <2>2 DEF Next, vars, MoveClock, Answer, Volunteer, Send, Judge, LogIn, Close
<1>2. ASSUME NEW q \in RequestIds, NEW u \in Users, Answer(q, u)
      PROVE  issued'[AnsweredId(r)] # None
  <2>1. PICK new \in SentResponses :
          responses' = responses \union {new} /\ AnsweredId(new) = q
    BY <1>2, AnswerIsResponse DEF LoginInv
  <2>2. issued[q] # None /\ issued' = issued
    BY <1>2 DEF Answer, Send
  <2> QED BY <2>1, <2>2 DEF LoginInv, SessionsFit
<1>3. ASSUME NEW u \in Users, Volunteer(u) PROVE issued'[AnsweredId(r)] # None
  <2>1. PICK new \in SentResponses :
          responses' = responses \union {new} /\ AnsweredId(new) = None
    BY <1>3, VolunteeredIsResponse DEF LoginInv
  <2>2. issued' = issued
    BY <1>3 DEF Volunteer, Send
  <2> QED BY <2>1, <2>2 DEF LoginInv, SessionsFit
<1>4. CASE r \in responses
  <2>1. issued[AnsweredId(r)] # None
    BY <1>4 DEF LoginInv, SessionsFit
  <2>2. AnsweredId(r) \in RequestIds
    <3>1. AnsweredId(r) \in Headers
      BY <1>4 DEF LoginInv, TypeOK, SentResponses, AnsweredId, Response
    <3> QED BY <3>1 DEF Headers
  <2> QED BY <1>1, <2>1, <2>2
<1>5. CASE UNCHANGED responses
  BY <1>4, <1>5
<1>6. ASSUME NEW t \in Threads, NEW a \in Agents, Deliver(t, a) PROVE UNCHANGED responses
  BY <1>6 DEF Deliver
<1> QED BY <1>2, <1>3, <1>5, <1>6
        DEF Next, vars, MoveClock, StartLogin, Judge, LogIn, Close

LEMMA SessionsStep == LoginInv /\ [Next]_vars => SessionsFit'
<1> SUFFICES ASSUME LoginInv, [Next]_vars
             PROVE  /\ \A a \in Agents : \A q \in outstanding'[a] :
                         issued'[q] # None /\ issued'[q].agent = a /\ entries'[q] = << >>
                    /\ \A q \in RequestIds : issued'[q] = None => entries'[q] = << >>
  BY SentAnswersIssued DEF SessionsFit, AnsweredId
<1> DEFINE Goal == /\ \A a \in Agents : \A q \in outstanding'[a] :
                         issued'[q] # None /\ issued'[q].agent = a /\ entries'[q] = << >>
                   /\ \A q \in RequestIds : issued'[q] = None => entries'[q] = << >>
<1>1. CASE UNCHANGED <<issued, outstanding, entries>>
  BY <1>1 DEF LoginInv, SessionsFit
<1>2. ASSUME NEW q \in RequestIds, NEW a \in Agents, StartLogin(q, a) PROVE Goal
  <2>1. /\ issued'[q] # None /\ issued'[q].agent = a
        /\ \A p \in RequestIds \ {q} : issued'[p] = issued[p]
        /\ outstanding' = [outstanding EXCEPT ![a] = @ \union {q}]
    BY <1>2, RequestIsNoted DEF LoginInv
  <2>2. issued[q] = None /\ entries' = entries
    BY <1>2 DEF StartLogin
  <2>3. outstanding \in [Agents -> SUBSET RequestIds]
    BY DEF LoginInv, TypeOK
  <2>4. entries[q] = << >>
    BY <2>2 DEF LoginInv, SessionsFit
  <2> QED BY <2>1, <2>2, <2>3, <2>4 DEF LoginInv, SessionsFit
<1>3. ASSUME NEW t \in Threads, LogIn(t) PROVE Goal
  <2> DEFINE a == calls[t].agent
             q == calls[t].expected
             entry == [agent |-> a, user |-> calls[t].response.user]
  <2>1. /\ a \in Agents /\ q \in RequestIds
        /\ issued[q] # None /\ issued[q].agent = a
        /\ entries' = [entries EXCEPT ![q] = <<entry>>]
        /\ outstanding' = [outstanding EXCEPT ![a] = @ \ {q}]
    BY <1>3, LogInIsFirst
  <2>2. issued' = issued
    BY <1>3 DEF LogIn
  <2>3. outstanding \in [Agents -> SUBSET RequestIds] /\ DOMAIN entries = RequestIds
    BY DEF LoginInv, TypeOK
  <2> HIDE DEF a, q, entry
  <2>4. \A b \in Agents : q \notin outstanding'[b]
    BY <2>1, <2>3 DEF LoginInv, SessionsFit
  <2>5. \A b \in Agents : outstanding'[b] \subseteq outstanding[b]
    BY <2>1, <2>3
  <2>6. \A p : p # q => entries'[p] = entries[p]
    BY <2>1
  <2> QED BY <2>1, <2>2, <2>4, <2>5, <2>6 DEF LoginInv, SessionsFit
<1>4. ASSUME NEW t \in Threads, NEW a \in Agents, Deliver(t, a) PROVE Goal
  BY <1>1, <1>4 DEF Deliver
<1> QED BY <1>1, <1>2, <1>3, <1>4
        DEF Next, vars, MoveClock, Answer, Volunteer, Send, Judge, Close

(* The invariant of the flow, for any agents, users, requests and threads. *)
LEMMA LoginInvariant == Spec => []LoginInv
<1>1. Init => LoginInv
  <2>1. Init => SessionsFit /\ PassedAnswersItsRequest /\ AnswersAreRefusedForTimeOnly
    BY DEF Init, SessionsFit, PassedAnswersItsRequest, AnswersAreRefusedForTimeOnly
  <2> QED BY <2>1, LoginTypeInit DEF LoginInv
<1>2. LoginInv /\ [Next]_vars => LoginInv'
  BY LoginTypeStep, SessionsStep, PassedStep, RefusedStep DEF LoginInv
<1> QED BY <1>1, <1>2, PTL DEF Spec

(* A response passes only as an answer to the request its assertion names, *)
(* which the IdP has signed.                                               *)
THEOREM PassedAnswers == Spec => []PassedAnswersItsRequest
BY LoginInvariant, PTL DEF LoginInv

(* What build_authn_request asks for is what process_response accepts.     *)
THEOREM RefusedForTimeOnly == Spec => []AnswersAreRefusedForTimeOnly
BY LoginInvariant, PTL DEF LoginInv

-----------------------------------------------------------------------------
(* A response that is sent adds to what the IdP vouched for in answer to   *)
(* the request it names, and to no other.                                  *)
LEMMA SentIsVouched ==
  ASSUME NEW r, responses' = responses \union {r}
  PROVE  vouchedUsers' = [q \in RequestIds |->
           vouchedUsers[q] \union IF AnsweredId(r) = q THEN {r.user} ELSE {}]
<1>1. \A q \in RequestIds :
        { s.user : s \in { s \in responses' : AnsweredId(s) = q } }
          = { s.user : s \in { s \in responses : AnsweredId(s) = q } }
              \union IF AnsweredId(r) = q THEN {r.user} ELSE {}
  <2> TAKE q \in RequestIds
  <2>1. CASE AnsweredId(r) = q
    <3>1. { s \in responses' : AnsweredId(s) = q } = { s \in responses : AnsweredId(s) = q } \union {r}
      BY <2>1
    <3> QED BY <2>1, <3>1
  <2>2. CASE AnsweredId(r) # q
    <3>1. { s \in responses' : AnsweredId(s) = q } = { s \in responses : AnsweredId(s) = q }
      BY <2>2
    <3> QED BY <2>2, <3>1
  <2> QED BY <2>1, <2>2
<1> QED BY <1>1 DEF vouchedUsers, AnsweredId

(* However responses are lost, repeated, swapped between agents or         *)
(* answered twice, and however calls interleave: at most one login comes   *)
(* of a request, in the agent it was built for, of a user the IdP vouched  *)
(* for in answer to it.                                                    *)
THEOREM OneLoginPerRequest == Spec => AtMostOneLogin
<1>1. Init => Once!Init
  BY DEF Init, Once!Init, requestHolder, vouchedUsers
<1>2. LoginInv /\ [Next]_vars => [Once!Next]_Once!onceVars
  <2> SUFFICES ASSUME LoginInv, [Next]_vars
               PROVE  Once!Next \/ UNCHANGED Once!onceVars
    OBVIOUS
  <2>1. CASE UNCHANGED <<issued, responses, entries>>
    BY <2>1 DEF Once!onceVars, requestHolder, vouchedUsers, AnsweredId
  <2>2. ASSUME NEW q \in RequestIds, NEW a \in Agents, StartLogin(q, a)
        PROVE  Once!Issue(q, a)
    <3>1. /\ issued'[q] # None /\ issued'[q].agent = a
          /\ \A p \in RequestIds \ {q} : issued'[p] = issued[p]
      BY <2>2, RequestIsNoted DEF LoginInv
    <3>2. issued[q] = None /\ UNCHANGED <<responses, entries>>
      BY <2>2 DEF StartLogin
    <3>3. requestHolder' = [requestHolder EXCEPT ![q] = a]
      BY <3>1 DEF requestHolder
    <3> QED BY <3>2, <3>3 DEF Once!Issue, requestHolder, vouchedUsers, AnsweredId
  <2>3. ASSUME NEW q \in RequestIds, NEW u \in Users, Answer(q, u) PROVE Once!Vouch(q, u)
    <3>1. PICK r \in SentResponses :
            responses' = responses \union {r} /\ AnsweredId(r) = q /\ r.user = u
      BY <2>3, AnswerIsResponse DEF LoginInv
    <3>2. vouchedUsers' = [vouchedUsers EXCEPT ![q] = @ \union {u}]
      <4>1. vouchedUsers' = [p \in RequestIds |->
              vouchedUsers[p] \union IF q = p THEN {u} ELSE {}]
        BY <3>1, SentIsVouched
      <4>2. vouchedUsers = [p \in RequestIds |-> vouchedUsers[p]]
        BY DEF vouchedUsers
      <4> QED BY <4>1, <4>2
    <3>3. issued[q] # None /\ issued[q].agent # None /\ UNCHANGED <<issued, entries>>
      BY <2>3, LoginAssumption DEF Answer, Send, LoginInv, TypeOK, IssuedRequests
    <3> QED BY <3>2, <3>3 DEF Once!Vouch, requestHolder
  <2>4. ASSUME NEW u \in Users, Volunteer(u) PROVE UNCHANGED Once!onceVars
    <3>1. PICK r \in SentResponses : responses' = responses \union {r} /\ AnsweredId(r) = None
      BY <2>4, VolunteeredIsResponse DEF LoginInv
    <3>2. vouchedUsers' = vouchedUsers
      BY <3>1, SentIsVouched, LoginAssumption DEF vouchedUsers
    <3> QED BY <2>4, <3>2 DEF Volunteer, Send, Once!onceVars, requestHolder
  <2>5. ASSUME NEW t \in Threads, NEW a \in Agents, Deliver(t, a)
        PROVE  UNCHANGED <<issued, responses, entries>>
    BY <2>5 DEF Deliver
  <2>6. ASSUME NEW t \in Threads, LogIn(t)
        PROVE  \E q \in RequestIds, u \in Users : Once!Enter(q, u)
    <3> DEFINE a == calls[t].agent
               q == calls[t].expected
               u == calls[t].response.user
    <3>1. /\ q \in RequestIds /\ u \in Users /\ entries[q] = << >>
          /\ issued[q] # None /\ issued[q].agent = a
          /\ entries' = [entries EXCEPT ![q] = <<[agent |-> a, user |-> u]>>]
          /\ \E r \in responses : AnsweredId(r) = q /\ r.user = u
      BY <2>6, LogInIsFirst
    <3>2. requestHolder[q] = a /\ u \in vouchedUsers[q]
      BY <3>1 DEF requestHolder, vouchedUsers
    <3>3. UNCHANGED <<requestHolder, vouchedUsers>>
      BY <2>6 DEF LogIn, requestHolder, vouchedUsers, AnsweredId
    <3>4. Once!Enter(q, u)
      BY <3>1, <3>2, <3>3 DEF Once!Enter
    <3> QED BY <3>1, <3>4
  <2> QED BY <2>1, <2>2, <2>3, <2>4, <2>5, <2>6
          DEF Next, vars, MoveClock, Judge, Close, Once!Next
<1> QED BY <1>1, <1>2, LoginInvariant, PTL DEF Spec, AtMostOneLogin, Once!Spec

=============================================================================
