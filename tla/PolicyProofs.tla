---------------------------- MODULE PolicyProofs ----------------------------
(***************************************************************************)
(* The checks of the pipeline, taken together, establish the acceptance    *)
(* policy: for each part of the policy, which checks it follows from.      *)
(***************************************************************************)
EXTENDS ValidationProperties, TimestampsProofs, WellFoundedInduction

(* The value of each outcome matters only in that errors are not Passed. *)
USE DEF Passed, MalformedResponseError, StatusError, SignatureError, AssertionExpiredError,
        AudienceMismatchError, RecipientMismatchError, InResponseToError, ValueError,
        SchemaBundleError, BackendFailure

-----------------------------------------------------------------------------
(* Decoding and parsing leave one readable response. *)
LEMMA ParsedIsReadable ==
  ASSUME NEW m,
         DecodeResponse(m.transport) = Passed, ParseResponse(m) = Passed
  PROVE  Readable(m)
BY DEF DecodeResponse, Inflate, ParseResponse, Readable, Require, &&

(* A collection with one element is the set of that element. *)
LEMMA OnlyMember ==
  ASSUME NEW S, IsSingle(S)
  PROVE  S = {TheOnly(S)}
BY DEF IsSingle, TheOnly

(* The consumed assertion is an element of the document, tagged as one. *)
LEMMA ConsumedIsAssertion ==
  ASSUME NEW doc, IsSingle(FindAll(doc, 1, "Assertion"))
  PROVE  /\ ConsumedAssertion(doc) \in Iter(doc, 1)
         /\ doc[ConsumedAssertion(doc)].tag = "Assertion"
BY OnlyMember DEF ConsumedAssertion, FindAll

(* A nonblank assertion ID is the value of the assertion's ID attribute. *)
LEMMA AssertionIdIsBorne ==
  ASSUME NEW doc, NEW a, AssertionId(doc, a) # ""
  PROVE  \E id \in doc[a].ids : id.attr = "ID" /\ id.name = AssertionId(doc, a)
<1>1. AssertionId(doc, a) \in Values(doc, a, "ID")
  BY DEF AssertionId
<1> QED BY <1>1 DEF Values

(* The wrapping checks on the document: whichever ID-like attributes a     *)
(* reader honours, no two elements answer to one name, and the assertion's *)
(* ID leads to the assertion alone.                                        *)
THEOREM HardenedDocumentIsUnambiguous ==
  ASSUME NEW doc, NEW a \in Iter(doc, 1),
         RejectMisplacedElements(doc, a) = Passed
  PROVE  /\ AssertionId(doc, a) # ""
         /\ Descendants(doc, 1, "Assertion") = {a}
         /\ IsSingle(Descendants(doc, a, "Signature"))
         /\ NamesAreUnique(doc)
         /\ BackendResolves(doc, AssertionId(doc, a)) = {a}
<1>1. /\ AssertionId(doc, a) # ""
      /\ Descendants(doc, 1, "Assertion") = {a}
      /\ IsSingle(Descendants(doc, a, "Signature"))
      /\ \A j, k \in Iter(doc, 1) : IdValues(doc, j) \intersect IdValues(doc, k) # {} => j = k
  BY DEF RejectMisplacedElements, RequireSoleConsumedAssertion, RejectAmbiguousIds,
         RequireSoleAssertionSignature, Require, &&
<1>2. ASSUME NEW k, NEW name, k \in BackendResolves(doc, name)
      PROVE  k \in Iter(doc, 1) /\ name \in IdValues(doc, k)
  BY <1>2 DEF BackendResolves, IdValues, IdAttributes, NormalizeId
<1>3. ASSUME NEW j \in Iter(doc, 1), NEW k \in Iter(doc, 1), NEW name,
             {j, k} \subseteq BackendResolves(doc, name)
      PROVE  j = k
  BY <1>1, <1>2, <1>3
<1>4. a \in BackendResolves(doc, AssertionId(doc, a))
  BY <1>1, AssertionIdIsBorne DEF BackendResolves
<1>5. BackendResolves(doc, AssertionId(doc, a)) = {a}
  BY <1>2, <1>3, <1>4
<1>6. NamesAreUnique(doc)
  BY <1>3 DEF NamesAreUnique
<1> QED BY <1>1, <1>5, <1>6

-----------------------------------------------------------------------------
(* The assertion's own signature is a signature of its subtree: when that  *)
(* has one signature only, it is the same.                                 *)
LEMMA EnvelopedIsOnly ==
  ASSUME NEW doc, NEW a,
         IsSingle(Descendants(doc, a, "Signature")),
         IsSingle(EnvelopedSignatures(doc, a))
  PROVE  EnvelopedSignatures(doc, a) = Descendants(doc, a, "Signature")
<1>1. EnvelopedSignatures(doc, a) \subseteq Descendants(doc, a, "Signature")
  BY DEF EnvelopedSignatures, FindAll, Descendants
<1> QED BY <1>1 DEF IsSingle

(* What the backend verifies at the assertion's ID is the assertion's own  *)
(* signature over the assertion's own content, made with the key it was    *)
(* given.  This takes the wrapping checks, the schema and the inspection   *)
(* of the signature together: the schema alone guarantees that the one     *)
(* reference has a digest algorithm to inspect.                            *)
THEOREM VerifiedIsAuthentic ==
  ASSUME NEW m, IsMessage(m), NEW certificate \in Trusted,
         ParseResponse(m) = Passed,
         RejectMisplacedElements(m.document, ConsumedAssertion(m.document)) = Passed,
         AssertionConforms(m, ConsumedAssertion(m.document)),
         SignatureLooksRight(m.document, ConsumedAssertion(m.document)) = Passed,
         BackendVerifies(m.document,
           AssertionId(m.document, ConsumedAssertion(m.document)), certificate)
  PROVE  Authentic(m)
<1> DEFINE doc == m.document
           a == ConsumedAssertion(doc)
           s == TheOnly(EnvelopedSignatures(doc, a))
<1>1. a \in Iter(doc, 1)
  BY ConsumedIsAssertion DEF ParseResponse, Require, &&
<1>2. /\ BackendResolves(doc, AssertionId(doc, a)) = {a}
      /\ IsSingle(Descendants(doc, a, "Signature"))
  BY <1>1, HardenedDocumentIsUnambiguous
<1>3. /\ IsSingle(EnvelopedSignatures(doc, a))
      /\ doc[s].references = <<AssertionId(doc, a)>>
      /\ doc[s].method \in AllowedSignatureAlgorithms
      /\ \A i \in DOMAIN doc[s].digests : doc[s].digests[i] \in AllowedDigestAlgorithms
  BY DEF SignatureLooksRight, LocateAssertionSignature, LocatedSignature,
         RequireStrongAlgorithms, Require, &&
<1>4. EnvelopedSignatures(doc, a) = {s} /\ Descendants(doc, a, "Signature") = {s}
  BY <1>2, <1>3, OnlyMember, EnvelopedIsOnly
<1>5. /\ doc[s].signer = certificate
      /\ \A i \in DOMAIN doc[s].references :
           BackendResolves(doc, doc[s].references[i]) \intersect doc[s].seals # {}
  BY <1>2, <1>4 DEF BackendVerifies, FirstSignature
<1>6. a \in doc[s].seals
  <2>1. 1 \in DOMAIN doc[s].references /\ doc[s].references[1] = AssertionId(doc, a)
    BY <1>3
  <2>2. BackendResolves(doc, AssertionId(doc, a)) \intersect doc[s].seals # {}
    BY <1>5, <2>1
  <2> QED BY <1>2, <2>2
<1>7. Len(doc[s].digests) = 1 /\ doc[s].digests[1] \in AllowedDigestAlgorithms
  <2>1. Len(doc[s].digests) = Len(doc[s].references)
    BY <1>4 DEF AssertionConforms, SignatureConforms
  <2>2. Len(doc[s].digests) = 1
    BY <2>1, <1>3
  <2>3. doc[s].tag = "Signature" /\ s \in DOMAIN doc
    <3>1. s \in Iter(doc, a) /\ doc[s].tag = "Signature"
      BY <1>4 DEF Descendants
    <3> QED BY <1>1, <3>1 DEF IsMessage, IsDocument, Iter
  <2>4. doc[s].digests \in Seq(OptionalText)
    BY <2>3 DEF IsMessage
  <2> QED BY <2>2, <2>4, <1>3
<1> QED BY <1>3, <1>4, <1>5, <1>6, <1>7 DEF Authentic

-----------------------------------------------------------------------------
(* The Conditions check establishes the window as written, the audience    *)
(* and that nothing unevaluable is left, when the schema has admitted only *)
(* timestamps of its own lexical space.                                    *)
THEOREM CheckedConditionsHold ==
  ASSUME NEW m, IsMessage(m), NEW a, AssertionConforms(m, a),
         NEW instant \in [aware : BOOLEAN, at : Int],
         ValidateConditions(m.conditions, EntityId, instant, ClockSkew) = Passed
  PROVE  instant.aware /\ ConditionsHold(m, instant.at)
<1> DEFINE c == m.conditions[1]
<1>1. /\ instant.aware
      /\ Len(m.conditions) = 1
      /\ EnforceValidityWindow(c, instant.at, ClockSkew) = Passed
      /\ RequireAudience(c, EntityId) = Passed
      /\ RejectUnevaluableConditions(c) = Passed
  BY DEF ValidateConditions, RequireAware, Require, &&
<1>2. 1 \in DOMAIN m.conditions /\ c \in ConditionsElements /\ c \in Range(m.conditions)
  BY <1>1 DEF IsMessage, Range
<1>3. SchemaAccepts(c.notBefore) /\ SchemaAccepts(c.notOnOrAfter)
  BY <1>2 DEF AssertionConforms, ConditionsConform
<1>4. c.notBefore \in WrittenTimestamps /\ c.notOnOrAfter \in WrittenTimestamps
  BY <1>2 DEF ConditionsElements
<1>5. /\ Present(c.notOnOrAfter) /\ Parses(c.notOnOrAfter)
      /\ Present(c.notBefore) =>
           /\ Parses(c.notBefore)
           /\ ParsedInstant(c.notBefore) < ParsedInstant(c.notOnOrAfter)
           /\ ~IsNotYetValid(instant.at, ParsedInstant(c.notBefore), ClockSkew)
      /\ ~HasExpired(instant.at, ParsedInstant(c.notOnOrAfter), ClockSkew)
  BY <1>1 DEF EnforceValidityWindow, ParseInstant, Require, &&
<1>6. WindowStated(c)
  BY <1>3, <1>4, <1>5 DEF WindowStated, Qualified, Parses, SchemaAccepts, WrittenTimestamps, Present
<1>7. WindowOpen(c, instant.at)
  BY <1>4, <1>5, ExpiryAsWritten, StartAsWritten, ConfigurationAssumption
     DEF WindowOpen, Reached, StillBefore, IsConfiguration
<1>8. ForThisAudience(c)
  <2>1. /\ c.restrictions # << >>
        /\ \A i \in DOMAIN c.restrictions : EntityId \in AudienceValues(c.restrictions[i])
    BY <1>1 DEF RequireAudience, Names, Require
  <2>2. ASSUME NEW restriction \in Range(c.restrictions) PROVE EntityId \in Range(restriction)
    <3>1. PICK i \in DOMAIN c.restrictions : restriction = c.restrictions[i]
      BY DEF Range
    <3>2. EntityId \in AudienceValues(restriction)
      BY <2>1, <3>1
    <3> QED BY <3>2 DEF AudienceValues, Range
  <2> QED BY <2>1, <2>2 DEF ForThisAudience
<1>9. c.others \subseteq EvaluableKinds
  BY <1>1 DEF RejectUnevaluableConditions, Require
<1> QED BY <1>1, <1>2, <1>6, <1>7, <1>8, <1>9 DEF ConditionsHold

-----------------------------------------------------------------------------
(* A bearer that is confirmed is for this endpoint, this request and now.  *)
LEMMA ConfirmedBearerConfirms ==
  ASSUME NEW confirmation \in Confirmations, ConfirmationConforms(confirmation),
         confirmation.method = "bearer", NEW expected, NEW t \in Int,
         ConfirmBearer(confirmation, AcsUrl, expected, t, ClockSkew) = Passed
  PROVE  Confirms(confirmation, expected, t)
<1> DEFINE data == confirmation.data[1]
<1>1. /\ Len(confirmation.data) = 1
      /\ ~Present(data.notBefore)
      /\ data.recipient = AcsUrl
      /\ Present(data.notOnOrAfter) /\ Parses(data.notOnOrAfter)
      /\ ~HasExpired(t, ParsedInstant(data.notOnOrAfter), ClockSkew)
      /\ data.inResponseTo = expected
  BY DEF ConfirmBearer, CheckInResponseTo, ParseInstant, Require, &&
<1>2. /\ 1 \in DOMAIN confirmation.data /\ data \in ConfirmationData
      /\ data \in Range(confirmation.data)
  BY <1>1 DEF Confirmations, Range
<1>3. SchemaAccepts(data.notOnOrAfter) /\ data.notOnOrAfter \in WrittenTimestamps
  BY <1>2 DEF ConfirmationConforms, ConfirmationData
<1>4. Qualified(data.notOnOrAfter)
  BY <1>1, <1>3 DEF Qualified, Parses, SchemaAccepts
<1>5. StillBefore(data.notOnOrAfter, t)
  BY <1>1, <1>3, ExpiryAsWritten, ConfigurationAssumption DEF StillBefore, IsConfiguration
<1> QED BY <1>1, <1>2, <1>4, <1>5 DEF Confirms

(* A first bearer exists when there is any, and a subject none of whose    *)
(* bearers is satisfied is never passed.                                   *)
LEMMA FirstBearer ==
  ASSUME NEW subject \in Seq(Confirmations), Bearers(subject) # {}
  PROVE  \E i \in Bearers(subject) : \A j \in Bearers(subject) : i <= j
<1>1. Bearers(subject) \subseteq Nat
  BY DEF Bearers
<1>2. PICK i \in Bearers(subject) :
        \A j \in Bearers(subject) : ~(<<j, i>> \in OpToRel(<, Nat))
  BY <1>1, NatLessThanWellFounded, WFMin
<1>3. \A j \in Bearers(subject) : ~(j < i)
  BY <1>1, <1>2 DEF OpToRel
<1> QED BY <1>1, <1>3

(* When every bearer fails, the failure raised is that of a bearer: a      *)
(* subject is passed only if one of its bearers is satisfied.              *)
LEMMA SatisfiedBearerExists ==
  ASSUME NEW subject \in Seq(Confirmations), Bearers(subject) # {},
         NEW expected, NEW t,
         ConfirmAnyBearer(subject, AcsUrl, expected, t, ClockSkew) = Passed
  PROVE  \E i \in Bearers(subject) :
           ConfirmBearer(subject[i], AcsUrl, expected, t, ClockSkew) = Passed
<1> DEFINE first == CHOOSE i \in Bearers(subject) : \A j \in Bearers(subject) : i <= j
<1>1. first \in Bearers(subject)
  BY FirstBearer
<1>2. CASE \E i \in Bearers(subject) :
             ConfirmBearer(subject[i], AcsUrl, expected, t, ClockSkew) = Passed
  BY <1>2
<1>3. CASE ~\E i \in Bearers(subject) :
             ConfirmBearer(subject[i], AcsUrl, expected, t, ClockSkew) = Passed
  <2>1. ConfirmAnyBearer(subject, AcsUrl, expected, t, ClockSkew)
          = ConfirmBearer(subject[first], AcsUrl, expected, t, ClockSkew)
    BY <1>3 DEF ConfirmAnyBearer
  <2> QED BY <2>1, <1>1
<1> QED BY <1>2, <1>3

(* The SubjectConfirmation check establishes who the response is for.      *)
THEOREM CheckedSubjectIsConfirmed ==
  ASSUME NEW m, IsMessage(m), NEW a, AssertionConforms(m, a),
         NEW expected, NEW instant \in [aware : BOOLEAN, at : Int],
         ValidateSubjectConfirmation(m, m.subjects, AcsUrl, ClockSkew,
           AllowIdpInitiated, expected, instant) = Passed
  PROVE  /\ expected # Blank
         /\ Addressed(m, expected)
         /\ SubjectConfirmed(m, expected, instant.at)
<1> DEFINE subject == m.subjects[1]
<1>1. /\ expected # Blank
      /\ expected = None => AllowIdpInitiated
      /\ CheckResponseAddressing(m, AcsUrl, expected) = Passed
      /\ Len(m.subjects) = 1
      /\ Bearers(subject) # {}
      /\ ConfirmAnyBearer(subject, AcsUrl, expected, instant.at, ClockSkew) = Passed
  BY DEF ValidateSubjectConfirmation, Require, &&
<1>2. Addressed(m, expected)
  BY <1>1 DEF Addressed, CheckResponseAddressing, CheckInResponseTo, Require, &&
<1>3. 1 \in DOMAIN m.subjects /\ subject \in Seq(Confirmations)
  BY <1>1 DEF IsMessage
<1>4. PICK i \in Bearers(subject) :
        ConfirmBearer(subject[i], AcsUrl, expected, instant.at, ClockSkew) = Passed
  BY <1>1, <1>3, SatisfiedBearerExists
<1>5. /\ i \in DOMAIN subject /\ subject[i] \in Confirmations
      /\ subject[i].method = "bearer" /\ subject[i] \in Range(subject)
  BY <1>3 DEF Bearers, Range
<1>6. ConfirmationConforms(subject[i])
  BY <1>3, <1>5 DEF AssertionConforms
<1>7. Confirms(subject[i], expected, instant.at)
  BY <1>4, <1>5, <1>6, ConfirmedBearerConfirms
<1> QED BY <1>1, <1>2, <1>5, <1>7 DEF SubjectConfirmed

-----------------------------------------------------------------------------
(* All checks together establish the policy. *)
THEOREM ChecksEstablishPolicy ==
  ASSUME NEW r, IsMessage(r.message), NEW certificate \in Trusted,
         NEW instant \in [aware : BOOLEAN, at : Int],
         DecodeResponse(r.message.transport) = Passed,
         ParseResponse(r.message) = Passed,
         RejectMisplacedElements(r.message.document,
           ConsumedAssertion(r.message.document)) = Passed,
         RejectSchemaInvalidAssertion(r.message,
           ConsumedAssertion(r.message.document)) = Passed,
         SignatureLooksRight(r.message.document,
           ConsumedAssertion(r.message.document)) = Passed,
         BackendVerifies(r.message.document,
           AssertionId(r.message.document, ConsumedAssertion(r.message.document)), certificate),
         ValidateConditions(r.message.conditions, EntityId, instant, ClockSkew) = Passed,
         ValidateSubjectConfirmation(r.message, r.message.subjects, AcsUrl, ClockSkew,
           AllowIdpInitiated, r.expected, instant) = Passed
  PROVE  instant.aware /\ r.expected # Blank /\ Acceptable(r, instant.at)
<1> DEFINE m == r.message
           a == ConsumedAssertion(m.document)
<1>1. Readable(m)
  BY ParsedIsReadable
<1>2. a \in Iter(m.document, 1)
  BY <1>1, ConsumedIsAssertion DEF Readable
<1>3. Unambiguous(m)
  BY <1>2, HardenedDocumentIsUnambiguous DEF Unambiguous
<1>4. AssertionConforms(m, a)
  BY DEF RejectSchemaInvalidAssertion, Require
<1>5. Authentic(m)
  BY <1>4, VerifiedIsAuthentic
<1>6. instant.aware /\ ConditionsHold(m, instant.at)
  BY <1>4, CheckedConditionsHold
<1>7. r.expected # Blank /\ Addressed(m, r.expected) /\ SubjectConfirmed(m, r.expected, instant.at)
  BY <1>4, CheckedSubjectIsConfirmed
<1> QED BY <1>1, <1>3, <1>4, <1>5, <1>6, <1>7 DEF Acceptable

=============================================================================
