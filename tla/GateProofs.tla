----------------------------- MODULE GateProofs -----------------------------
(***************************************************************************)
(* The pipeline implements the gate, for any messages, certificates and    *)
(* number of concurrent calls.  PolicyProofs shows that the checks are     *)
(* enough; here the converse: what fails a check is not acceptable, and    *)
(* the error that is raised is true of it.                                 *)
(***************************************************************************)
EXTENDS ValidationProofs

USE DEF Passed, MalformedResponseError, StatusError, SignatureError, AssertionExpiredError,
        AudienceMismatchError, RecipientMismatchError, InResponseToError, ValueError,
        SchemaBundleError, BackendFailure

(* The members of a sequence with at most one. *)
LEMMA ShortRange ==
  ASSUME NEW S, NEW s \in Seq(S)
  PROVE  /\ Len(s) <= 1 /\ Len(s) # 1 => Range(s) = {}
         /\ Len(s) = 1 => Range(s) = {s[1]} /\ s[1] \in S /\ 1 \in DOMAIN s
<1>1. DOMAIN s = 1..Len(s) /\ Len(s) \in Nat
  OBVIOUS
<1>2. CASE Len(s) <= 1 /\ Len(s) # 1
  <2>1. DOMAIN s = {}
    BY <1>1, <1>2
  <2> QED BY <1>2, <2>1 DEF Range
<1>3. CASE Len(s) = 1
  <2>1. DOMAIN s = {1}
    BY <1>1, <1>3
  <2>2. Range(s) = {s[1]}
    BY <2>1 DEF Range
  <2> QED BY <1>3, <2>1, <2>2
<1>4. CASE ~(Len(s) <= 1)
  BY <1>1, <1>4
<1> QED BY <1>2, <1>3, <1>4

-----------------------------------------------------------------------------
(* What does not decode or parse is not readable. *)
LEMMA UndecodableIsUnreadable ==
  ASSUME NEW m, DecodeResponse(m.transport) # Passed
  PROVE  DecodeResponse(m.transport) = MalformedResponseError /\ ~Readable(m)
BY DEF DecodeResponse, Inflate, Readable, Require, &&

LEMMA UnparsableIsUnreadable ==
  ASSUME NEW m, ParseResponse(m) # Passed
  PROVE  /\ ParseResponse(m) \in {MalformedResponseError, StatusError}
         /\ ~Readable(m)
         /\ ParseResponse(m) = StatusError => m.status # "success"
<1>1. /\ ParseResponse(m) \in {MalformedResponseError, StatusError}
      /\ ParseResponse(m) = StatusError => m.status # "success"
  BY DEF ParseResponse, Require, &&
<1>2. ASSUME Readable(m) PROVE ParseResponse(m) = Passed
  BY <1>2 DEF ParseResponse, Readable, Require, &&
<1> QED BY <1>1, <1>2

(* A document the wrapping checks refuse can be misread by someone. *)
LEMMA MisplacedIsAmbiguous ==
  ASSUME NEW m, RejectMisplacedElements(m.document, ConsumedAssertion(m.document)) # Passed
  PROVE  /\ RejectMisplacedElements(m.document, ConsumedAssertion(m.document))
              = MalformedResponseError
         /\ ~Unambiguous(m)
<1> DEFINE doc == m.document
           a == ConsumedAssertion(doc)
<1>1. ASSUME NEW j \in Iter(doc, 1), NEW k \in Iter(doc, 1),
             IdValues(doc, j) \intersect IdValues(doc, k) # {}, j # k
      PROVE  ~NamesAreUnique(doc)
  <2>1. PICK id \in doc[j].ids, other \in doc[k].ids :
          /\ id.attr \in IdAttributes /\ other.attr \in IdAttributes
          /\ id.name = other.name
    BY <1>1 DEF IdValues, NormalizeId
  <2>2. {j, k} \subseteq BackendResolves(doc, id.name)
    BY <2>1 DEF BackendResolves, IdAttributes
  <2> QED BY <1>1, <2>1, <2>2 DEF NamesAreUnique
<1>2. \/ AssertionId(doc, a) = ""
      \/ Descendants(doc, 1, "Assertion") # {a}
      \/ \E j, k \in Iter(doc, 1) : IdValues(doc, j) \intersect IdValues(doc, k) # {} /\ j # k
      \/ ~IsSingle(Descendants(doc, a, "Signature"))
  BY DEF RejectMisplacedElements, RequireSoleConsumedAssertion, RejectAmbiguousIds,
         RequireSoleAssertionSignature, Require, &&
<1>3. RejectMisplacedElements(doc, a) = MalformedResponseError
  BY DEF RejectMisplacedElements, RequireSoleConsumedAssertion, RejectAmbiguousIds,
         RequireSoleAssertionSignature, Require, &&
<1>4. ~Unambiguous(m)
  BY <1>1, <1>2 DEF Unambiguous
<1> QED BY <1>3, <1>4

-----------------------------------------------------------------------------
(* What is authentic has the one signature that is looked for. *)
LEMMA AuthenticIsSigned ==
  ASSUME NEW m, Authentic(m),
         IsSingle(Descendants(m.document, ConsumedAssertion(m.document), "Signature"))
  PROVE  LET a == ConsumedAssertion(m.document)
             s == TheOnly(EnvelopedSignatures(m.document, a))
         IN  /\ EnvelopedSignatures(m.document, a) = {s}
             /\ Descendants(m.document, a, "Signature") = {s}
             /\ m.document[s].signer \in Trusted
             /\ a \in m.document[s].seals
             /\ m.document[s].references = <<AssertionId(m.document, a)>>
             /\ m.document[s].method \in AllowedSignatureAlgorithms
             /\ Len(m.document[s].digests) = 1
             /\ m.document[s].digests[1] \in AllowedDigestAlgorithms
<1> DEFINE a == ConsumedAssertion(m.document)
           S == EnvelopedSignatures(m.document, a)
           D == Descendants(m.document, a, "Signature")
<1>1. PICK s \in S :
        /\ m.document[s].signer \in Trusted
        /\ a \in m.document[s].seals
        /\ m.document[s].references = <<AssertionId(m.document, a)>>
        /\ m.document[s].method \in AllowedSignatureAlgorithms
        /\ Len(m.document[s].digests) = 1
        /\ m.document[s].digests[1] \in AllowedDigestAlgorithms
  BY DEF Authentic
<1>2. S \subseteq D
  BY DEF EnvelopedSignatures, FindAll, Descendants
<1>3. D = {s} /\ S = {s}
  BY <1>1, <1>2 DEF IsSingle
<1>4. TheOnly(S) = s
  BY <1>3 DEF TheOnly
<1> HIDE DEF S, D
<1> QED BY <1>1, <1>3, <1>4 DEF S, D

(* A signature that does not look right is not authentic. *)
LEMMA OddSignatureIsNotAuthentic ==
  ASSUME NEW m, IsMessage(m),
         IsSingle(FindAll(m.document, 1, "Assertion")),
         RejectMisplacedElements(m.document, ConsumedAssertion(m.document)) = Passed,
         SignatureLooksRight(m.document, ConsumedAssertion(m.document)) # Passed
  PROVE  /\ SignatureLooksRight(m.document, ConsumedAssertion(m.document)) = SignatureError
         /\ ~Authentic(m)
<1> DEFINE doc == m.document
           a == ConsumedAssertion(doc)
           s == TheOnly(EnvelopedSignatures(doc, a))
<1>1. SignatureLooksRight(doc, a) = SignatureError
  BY DEF SignatureLooksRight, LocateAssertionSignature, RequireStrongAlgorithms, Require, &&
<1>2. a \in Iter(doc, 1)
  BY ConsumedIsAssertion
<1>3. AssertionId(doc, a) # "" /\ IsSingle(Descendants(doc, a, "Signature"))
  BY <1>2, HardenedDocumentIsUnambiguous
<1>4. ASSUME Authentic(m) PROVE SignatureLooksRight(doc, a) = Passed
  <2>1. /\ EnvelopedSignatures(doc, a) = {s} /\ s \in Descendants(doc, a, "Signature")
        /\ doc[s].references = <<AssertionId(doc, a)>>
        /\ doc[s].method \in AllowedSignatureAlgorithms
        /\ Len(doc[s].digests) = 1 /\ doc[s].digests[1] \in AllowedDigestAlgorithms
    BY <1>3, <1>4, AuthenticIsSigned
  <2>2. doc[s].digests \in Seq(OptionalText)
    <3>1. s \in DOMAIN doc /\ doc[s].tag = "Signature"
      BY <1>2, <2>1 DEF Descendants, Iter, IsMessage, IsDocument
    <3> QED BY <3>1 DEF IsMessage
  <2>3. \A i \in DOMAIN doc[s].digests : doc[s].digests[i] \in AllowedDigestAlgorithms
    BY <2>1, <2>2
  <2>4. IsSingle(EnvelopedSignatures(doc, a))
    BY <2>1 DEF IsSingle
  <2> QED BY <1>3, <2>1, <2>3, <2>4
          DEF SignatureLooksRight, LocateAssertionSignature, LocatedSignature,
              RequireStrongAlgorithms, Require, &&
<1> QED BY <1>1, <1>4

(* The backend verifies what is authentic, with one of the certificates. *)
LEMMA AuthenticIsVerified ==
  ASSUME NEW m, IsMessage(m), Authentic(m),
         IsSingle(FindAll(m.document, 1, "Assertion")),
         RejectMisplacedElements(m.document, ConsumedAssertion(m.document)) = Passed
  PROVE  \E certificate \in Trusted :
           BackendVerifies(m.document,
             AssertionId(m.document, ConsumedAssertion(m.document)), certificate)
<1> DEFINE doc == m.document
           a == ConsumedAssertion(doc)
           s == TheOnly(EnvelopedSignatures(doc, a))
<1>1. /\ IsSingle(Descendants(doc, a, "Signature"))
      /\ BackendResolves(doc, AssertionId(doc, a)) = {a}
  BY ConsumedIsAssertion, HardenedDocumentIsUnambiguous
<1>2. /\ Descendants(doc, a, "Signature") = {s}
      /\ doc[s].signer \in Trusted /\ a \in doc[s].seals
      /\ doc[s].references = <<AssertionId(doc, a)>>
  BY <1>1, AuthenticIsSigned
<1>3. s \in Iter(doc, a) /\ FirstSignature(doc, a, s)
  <2>1. s \in Iter(doc, a)
    BY <1>2 DEF Descendants
  <2>2. s <= s
    BY <2>1 DEF Iter
  <2> QED BY <1>2, <2>1, <2>2 DEF FirstSignature
<1>4. /\ doc[s].references # << >>
      /\ \A i \in DOMAIN doc[s].references : doc[s].references[i] = AssertionId(doc, a)
  BY <1>2
<1> HIDE DEF s, a
<1>5. BackendVerifies(doc, AssertionId(doc, a), doc[s].signer)
  BY <1>1, <1>2, <1>3, <1>4 DEF BackendVerifies
<1> QED BY <1>2, <1>5 DEF a

-----------------------------------------------------------------------------
(* Conditions that fail a check do not hold, and the error says why. *)
LEMMA FailedConditionsAreExplained ==
  ASSUME NEW m, IsMessage(m), NEW a, AssertionConforms(m, a),
         NEW instant \in [aware : BOOLEAN, at : Int], instant.aware,
         ValidateConditions(m.conditions, EntityId, instant, ClockSkew) # Passed
  PROVE  LET error == ValidateConditions(m.conditions, EntityId, instant, ClockSkew)
         IN  /\ ~ConditionsHold(m, instant.at)
             /\ error \in {MalformedResponseError, AssertionExpiredError, AudienceMismatchError}
             /\ error = AssertionExpiredError =>
                  \E conditions \in Range(m.conditions) : ~WindowOpen(conditions, instant.at)
             /\ error = AudienceMismatchError =>
                  \E conditions \in Range(m.conditions) : ~ForThisAudience(conditions)
<1> DEFINE c == m.conditions[1]
           t == instant.at
           error == ValidateConditions(m.conditions, EntityId, instant, ClockSkew)
           window == EnforceValidityWindow(c, t, ClockSkew)
<1>1. CASE Len(m.conditions) # 1
  <2>1. error = MalformedResponseError
    BY <1>1 DEF ValidateConditions, RequireAware, Require, &&
  <2> QED BY <1>1, <2>1 DEF ConditionsHold
<1>2. CASE Len(m.conditions) = 1
  <2>1. Range(m.conditions) = {c} /\ c \in ConditionsElements /\ 1 \in DOMAIN m.conditions
    BY <1>2, ShortRange DEF IsMessage
  <2>2. c.notBefore \in WrittenTimestamps /\ c.notOnOrAfter \in WrittenTimestamps
    BY <2>1 DEF ConditionsElements
  <2>3. SchemaAccepts(c.notBefore) /\ SchemaAccepts(c.notOnOrAfter)
    BY <2>1 DEF AssertionConforms, ConditionsConform
  <2>4. t \in Int /\ ClockSkew \in Nat
    BY ConfigurationAssumption DEF IsConfiguration
  <2>5. /\ ~HasExpired(t, ParsedInstant(c.notOnOrAfter), ClockSkew) <=> StillBefore(c.notOnOrAfter, t)
        /\ ~IsNotYetValid(t, ParsedInstant(c.notBefore), ClockSkew) <=> Reached(c.notBefore, t)
    BY <2>2, <2>4, ExpiryAsWritten, StartAsWritten DEF StillBefore, Reached
  <2>6. /\ window \in {Passed, MalformedResponseError, AssertionExpiredError}
        /\ window = AssertionExpiredError => ~WindowOpen(c, t)
        /\ WindowStated(c) /\ WindowOpen(c, t) => window = Passed
    <3>1. /\ window \in {Passed, MalformedResponseError, AssertionExpiredError}
          /\ window = AssertionExpiredError =>
               \/ Present(c.notBefore) /\ IsNotYetValid(t, ParsedInstant(c.notBefore), ClockSkew)
               \/ HasExpired(t, ParsedInstant(c.notOnOrAfter), ClockSkew)
      BY DEF EnforceValidityWindow, ParseInstant, Require, &&
    <3>2. ASSUME WindowStated(c), WindowOpen(c, t) PROVE window = Passed
      <4>1. /\ Present(c.notOnOrAfter) /\ Parses(c.notOnOrAfter)
            /\ Present(c.notBefore) => Parses(c.notBefore)
        BY <3>2 DEF WindowStated, Qualified, Present, Parses
      <4> QED BY <2>5, <3>2, <4>1
              DEF WindowStated, WindowOpen, EnforceValidityWindow, ParseInstant, Require, &&
    <3> QED BY <2>5, <3>1, <3>2 DEF WindowOpen
  <2>7. ForThisAudience(c) <=> RequireAudience(c, EntityId) = Passed
    <3>1. EntityId # ""
      BY ConfigurationAssumption DEF IsConfiguration
    <3>2. \A i \in DOMAIN c.restrictions :
            Names(c.restrictions[i], EntityId) <=> EntityId \in Range(c.restrictions[i])
      BY <3>1 DEF Names, AudienceValues, Range
    <3>3. (\A i \in DOMAIN c.restrictions : EntityId \in Range(c.restrictions[i]))
            <=> \A restriction \in Range(c.restrictions) : EntityId \in Range(restriction)
      BY DEF Range
    <3>4. RequireAudience(c, EntityId) = Passed
            <=> /\ c.restrictions # << >>
                /\ \A i \in DOMAIN c.restrictions : Names(c.restrictions[i], EntityId)
      BY DEF RequireAudience, Require
    <3> QED BY <3>2, <3>3, <3>4 DEF ForThisAudience
  <2>8. RequireAudience(c, EntityId) \in {Passed, AudienceMismatchError}
    BY DEF RequireAudience, Require
  <2>9. /\ RejectUnevaluableConditions(c) \in {Passed, MalformedResponseError}
        /\ RejectUnevaluableConditions(c) = Passed <=> c.others \subseteq EvaluableKinds
    BY DEF RejectUnevaluableConditions, Require
  <2> HIDE DEF window, c, t
  <2>10. error = (window && RequireAudience(c, EntityId) && RejectUnevaluableConditions(c))
    BY <1>2 DEF ValidateConditions, RequireAware, Require, &&, window, c, t
  <2>11. ~ConditionsHold(m, t)
    <3> SUFFICES ASSUME ConditionsHold(m, t) PROVE error = Passed
      OBVIOUS
    <3>1. /\ WindowStated(c) /\ WindowOpen(c, t)
          /\ ForThisAudience(c) /\ c.others \subseteq EvaluableKinds
      BY <2>1 DEF ConditionsHold
    <3> QED BY <2>6, <2>7, <2>9, <2>10, <3>1 DEF &&
  <2> QED BY <2>1, <2>6, <2>7, <2>8, <2>9, <2>10, <2>11 DEF &&, t
<1> QED BY <1>1, <1>2

-----------------------------------------------------------------------------
(* A bearer that confirms a subject passes, and one that fails says why. *)
LEMMA BearerIsExplained ==
  ASSUME NEW confirmation \in Confirmations, ConfirmationConforms(confirmation),
         NEW expected, NEW t \in Int
  PROVE  LET error == ConfirmBearer(confirmation, AcsUrl, expected, t, ClockSkew)
         IN  /\ Confirms(confirmation, expected, t) => error = Passed
             /\ error \in {Passed, MalformedResponseError, RecipientMismatchError,
                          AssertionExpiredError, InResponseToError}
             /\ error \notin {Passed, MalformedResponseError} =>
                  \E data \in Range(confirmation.data) :
                    \/ error = RecipientMismatchError /\ data.recipient # AcsUrl
                    \/ error = AssertionExpiredError /\ ~StillBefore(data.notOnOrAfter, t)
                    \/ error = InResponseToError /\ data.inResponseTo # expected
<1> DEFINE data == confirmation.data[1]
           error == ConfirmBearer(confirmation, AcsUrl, expected, t, ClockSkew)
<1>1. CASE Len(confirmation.data) = 1
  <2>1. Range(confirmation.data) = {data} /\ data \in ConfirmationData
    BY <1>1, ShortRange DEF Confirmations
  <2>2. ~HasExpired(t, ParsedInstant(data.notOnOrAfter), ClockSkew)
          <=> StillBefore(data.notOnOrAfter, t)
    <3>1. data.notOnOrAfter \in WrittenTimestamps /\ ClockSkew \in Nat
      BY <2>1, ConfigurationAssumption DEF ConfirmationData, IsConfiguration
    <3> QED BY <3>1, ExpiryAsWritten DEF StillBefore
  <2>3. Qualified(data.notOnOrAfter) => Present(data.notOnOrAfter) /\ Parses(data.notOnOrAfter)
    BY DEF Qualified, Present, Parses
  <2>4. Confirms(confirmation, expected, t) => error = Passed
    BY <1>1, <2>1, <2>2, <2>3
       DEF Confirms, ConfirmBearer, CheckInResponseTo, ParseInstant, Require, &&
  <2>5. /\ error \in {Passed, MalformedResponseError, RecipientMismatchError,
                      AssertionExpiredError, InResponseToError}
        /\ error \notin {Passed, MalformedResponseError} =>
             \/ error = RecipientMismatchError /\ data.recipient # AcsUrl
             \/ error = AssertionExpiredError /\ ~StillBefore(data.notOnOrAfter, t)
             \/ error = InResponseToError /\ data.inResponseTo # expected
    BY <1>1, <2>2 DEF ConfirmBearer, CheckInResponseTo, ParseInstant, Require, &&
  <2> QED BY <2>1, <2>4, <2>5
<1>2. CASE Len(confirmation.data) # 1
  <2>1. error = MalformedResponseError
    BY <1>2 DEF ConfirmBearer, Require, &&
  <2>2. ~Confirms(confirmation, expected, t)
    <3>1. confirmation.data \in Seq(ConfirmationData) /\ Len(confirmation.data) <= 1
      BY DEF Confirmations, ConfirmationConforms
    <3>2. Range(confirmation.data) = {}
      BY <1>2, <3>1, ShortRange
    <3> QED BY <3>2 DEF Confirms
  <2> QED BY <2>1, <2>2
<1> QED BY <1>1, <1>2

(* A subject that is not confirmed, or a response that is not addressed,   *)
(* to this request.                                                        *)
LEMMA FailedSubjectIsExplained ==
  ASSUME NEW m, IsMessage(m), NEW a, AssertionConforms(m, a),
         NEW expected, expected # Blank,
         NEW instant \in [aware : BOOLEAN, at : Int], instant.aware,
         ValidateSubjectConfirmation(m, m.subjects, AcsUrl, ClockSkew,
           AllowIdpInitiated, expected, instant) # Passed
  PROVE  LET error == ValidateSubjectConfirmation(m, m.subjects, AcsUrl, ClockSkew,
                        AllowIdpInitiated, expected, instant)
         IN  /\ ~(Addressed(m, expected) /\ SubjectConfirmed(m, expected, instant.at))
             /\ \/ error = MalformedResponseError
                \/ /\ error = RecipientMismatchError
                   /\ \/ m.destination \notin {None, AcsUrl}
                      \/ \E data \in BearerData(m) : data.recipient # AcsUrl
                \/ /\ error = InResponseToError
                   /\ \/ expected = None /\ ~AllowIdpInitiated
                      \/ m.inResponseTo # expected
                      \/ \E data \in BearerData(m) : data.inResponseTo # expected
                \/ /\ error = AssertionExpiredError
                   /\ \E data \in BearerData(m) : ~StillBefore(data.notOnOrAfter, instant.at)
<1> DEFINE error == ValidateSubjectConfirmation(m, m.subjects, AcsUrl, ClockSkew,
                      AllowIdpInitiated, expected, instant)
           subject == m.subjects[1]
           t == instant.at
           any == ConfirmAnyBearer(subject, AcsUrl, expected, t, ClockSkew)
           verdict(i) == ConfirmBearer(subject[i], AcsUrl, expected, t, ClockSkew)
<1>1. CASE ~(expected = None => AllowIdpInitiated)
  BY <1>1 DEF ValidateSubjectConfirmation, RequireAware, Require, &&, Addressed
<1>2. CASE (expected = None => AllowIdpInitiated) /\ m.destination \notin {None, AcsUrl}
  BY <1>2 DEF ValidateSubjectConfirmation, CheckResponseAddressing, RequireAware, Require, &&,
              Addressed
<1>3. CASE /\ expected = None => AllowIdpInitiated
           /\ m.destination \in {None, AcsUrl} /\ m.inResponseTo # expected
  BY <1>3 DEF ValidateSubjectConfirmation, CheckResponseAddressing, CheckInResponseTo,
              RequireAware, Require, &&, Addressed
<1>4. CASE Addressed(m, expected)
  <2>1. CheckResponseAddressing(m, AcsUrl, expected) = Passed /\ (expected = None => AllowIdpInitiated)
    BY <1>4 DEF Addressed, CheckResponseAddressing, CheckInResponseTo, Require, &&
  <2>2. CASE Len(m.subjects) # 1
    BY <2>1, <2>2 DEF ValidateSubjectConfirmation, RequireAware, Require, &&, SubjectConfirmed
  <2>3. CASE Len(m.subjects) = 1 /\ Bearers(subject) = {}
    <3>1. error = MalformedResponseError
      BY <2>1, <2>3 DEF ValidateSubjectConfirmation, RequireAware, Require, &&
    <3>2. \A confirmation \in Range(subject) : confirmation.method # "bearer"
      BY <2>3 DEF Bearers, Range
    <3> QED BY <3>1, <3>2 DEF SubjectConfirmed, Confirms
  <2>4. CASE Len(m.subjects) = 1 /\ Bearers(subject) # {}
    <3>1. error = any
      BY <2>1, <2>4 DEF ValidateSubjectConfirmation, RequireAware, Require, &&
    <3>2. /\ subject \in Seq(Confirmations) /\ subject \in Range(m.subjects)
          /\ 1 \in DOMAIN m.subjects
      BY <2>4 DEF IsMessage, Range
    <3>3. \A i \in DOMAIN subject : subject[i] \in Confirmations /\ ConfirmationConforms(subject[i])
      BY <3>2 DEF AssertionConforms
    <3>4. \A i \in Bearers(subject) : verdict(i) # Passed
      BY <3>1 DEF ConfirmAnyBearer
    <3>5. ~SubjectConfirmed(m, expected, t)
      <4> SUFFICES ASSUME SubjectConfirmed(m, expected, t) PROVE FALSE
        OBVIOUS
      <4>1. PICK confirmation \in Range(subject) : Confirms(confirmation, expected, t)
        BY DEF SubjectConfirmed
      <4>2. PICK i \in DOMAIN subject : confirmation = subject[i]
        BY <4>1 DEF Range
      <4>3. i \in Bearers(subject)
        BY <4>1, <4>2 DEF Confirms, Bearers
      <4>4. verdict(i) = Passed
        BY <3>3, <4>1, <4>2, BearerIsExplained
      <4> QED BY <3>4, <4>3, <4>4
    <3>6. PICK i \in Bearers(subject) : error = verdict(i)
      <4> DEFINE first == CHOOSE i \in Bearers(subject) : \A j \in Bearers(subject) : i <= j
      <4>1. first \in Bearers(subject)
        BY <2>4, <3>2, FirstBearer
      <4>2. any = verdict(first)
        BY <3>4 DEF ConfirmAnyBearer
      <4> QED BY <3>1, <4>1, <4>2
    <3>7. Range(subject[i].data) \subseteq BearerData(m)
      BY <3>2 DEF BearerData
    <3>8. i \in DOMAIN subject
      BY DEF Bearers
    <3>9. /\ error \in {MalformedResponseError, RecipientMismatchError,
                        AssertionExpiredError, InResponseToError}
          /\ error # MalformedResponseError =>
               \E data \in Range(subject[i].data) :
                 \/ error = RecipientMismatchError /\ data.recipient # AcsUrl
                 \/ error = AssertionExpiredError /\ ~StillBefore(data.notOnOrAfter, t)
                 \/ error = InResponseToError /\ data.inResponseTo # expected
      <4>1. subject[i] \in Confirmations /\ ConfirmationConforms(subject[i]) /\ t \in Int
        BY <3>3, <3>8
      <4> QED BY <3>4, <3>6, <4>1, BearerIsExplained
    <3> HIDE DEF error, subject, t
    <3> QED BY <3>5, <3>7, <3>9 DEF error, t
  <2> QED BY <2>2, <2>3, <2>4
<1> QED BY <1>1, <1>2, <1>3, <1>4 DEF Addressed

-----------------------------------------------------------------------------
(* No certificate that was passed over in the loop verifies the message,   *)
(* unless the backend may fail.                                            *)
TriedInVain ==
  \A c \in Callers : stage[c] = "verify" /\ ~BackendMayFail =>
    \A i \in 1..(cert[c] - 1) :
      ~BackendVerifies(Document(c), AssertionId(Document(c), Assertion(c)),
                       SigningCertificates[i])

(* A caller that is not in the loop is about to enter it at the first.     *)
LoopStartsAtFirst ==
  \A c \in Callers :
    stage[c] \in {"idle", "decode", "parse", "wrapping", "schema", "building", "conformity",
                 "locate"} => cert[c] = 1

LoopInv == TriedInVain /\ LoopStartsAtFirst

LEMMA LoopStep == TypeOK /\ LoopInv /\ [Next]_vars => LoopInv'
<1> DEFINE Verifies(d, i) ==
      BackendVerifies(Document(d), AssertionId(Document(d), Assertion(d)), SigningCertificates[i])
    Vain(d) == stage[d] = "verify" /\ ~BackendMayFail => \A i \in 1..(cert[d] - 1) : ~Verifies(d, i)
    Start(d) == stage[d] \in {"idle", "decode", "parse", "wrapping", "schema", "building",
                             "conformity", "locate"} => cert[d] = 1
<1> SUFFICES ASSUME TypeOK, LoopInv, [Next]_vars, NEW d \in Callers
             PROVE  Vain(d)' /\ Start(d)'
  BY DEF LoopInv, TriedInVain, LoopStartsAtFirst, Document, Assertion
<1>1. Vain(d) /\ Start(d)
  BY DEF LoopInv, TriedInVain, LoopStartsAtFirst
<1>2. ASSUME stage'[d] = stage[d], cert'[d] = cert[d], request'[d] = request[d]
      PROVE  Vain(d)' /\ Start(d)'
  BY <1>1, <1>2 DEF Document, Assertion
<1>3. CASE MoveClock \/ UNCHANGED vars
  BY <1>2, <1>3 DEF MoveClock, vars, callVars
<1>4. ASSUME NEW c \in Callers, c # d, Call(c) \/ Proceed(c) PROVE Vain(d)' /\ Start(d)'
  BY <1>2, <1>4, OthersUntouched, OtherPositions
<1>5. CASE Call(d)
  BY <1>1, <1>5 DEF Call, TypeOK
<1>6. CASE Proceed(d)
  <2> USE <1>1 DEF TypeOK, Step, Continue
  <2>1. CASE Decode(d)
    BY <2>1 DEF Decode
  <2>2. CASE Parse(d)
    BY <2>2 DEF Parse
  <2>3. CASE Harden(d)
    BY <2>3 DEF Harden
  <2>4. CASE LookUpSchema(d)
    BY <2>4 DEF LookUpSchema
  <2>5. CASE BuildSchema(d)
    BY <2>5 DEF BuildSchema
  <2>6. CASE Conform(d)
    BY <2>6 DEF Conform
  <2>7. CASE Locate(d)
    BY <2>7 DEF Locate
  <2>8. CASE TryCertificate(d)
    <3>1. CASE stage'[d] = "clock"
      BY <3>1
    <3>2. CASE /\ BackendMayFail \/ ~Verifies(d, cert[d])
               /\ cert'[d] = cert[d] + 1 /\ stage'[d] = "verify"
      <4>1. cert[d] \in 1..(Len(SigningCertificates) + 1) /\ stage[d] = "verify"
        BY <2>8 DEF TryCertificate
      <4>2. Len(SigningCertificates) \in Nat
        BY ConfigurationAssumption DEF IsConfiguration
      <4>3. cert[d] \in Nat
        BY <4>1, <4>2
      <4>4. \A i \in 1..(cert'[d] - 1) : i \in 1..(cert[d] - 1) \/ i = cert[d]
        BY <3>2, <4>3
      <4>5. request' = request
        BY <2>8 DEF TryCertificate
      <4>6. ~BackendMayFail => \A i \in 1..(cert'[d] - 1) : ~Verifies(d, i)
        BY <3>2, <4>1, <4>4
      <4> QED BY <3>2, <4>5, <4>6 DEF Document, Assertion
    <3> QED BY <2>8, <3>1, <3>2 DEF TryCertificate
  <2>9. CASE ExhaustCertificates(d) \/ FailBackend(d)
    BY <2>9 DEF ExhaustCertificates, FailBackend
  <2>10. CASE ReadClock(d) \/ CheckConditions(d) \/ CheckConfirmation(d)
    BY <2>10 DEF ReadClock, CheckConditions, CheckConfirmation
  <2>11. CASE Return(d)
    BY <2>11 DEF Return
  <2> QED BY <1>6, <2>1, <2>2, <2>3, <2>4, <2>5, <2>6, <2>7, <2>8, <2>9, <2>10, <2>11 DEF Proceed
<1> QED BY <1>3, <1>4, <1>5, <1>6 DEF Next

(* The invariants together. *)
GateInv == TypeOK /\ EvidenceIsKept /\ LoopInv

LEMMA GateInvariant == Spec => []GateInv
<1>1. Init => LoopInv
  BY DEF Init, LoopInv, TriedInVain, LoopStartsAtFirst
<1>2. TypeOK /\ LoopInv /\ [Next]_vars => LoopInv'
  BY LoopStep
<1> QED BY <1>1, <1>2, TypeCorrect, EvidenceKept, PTL DEF Spec, GateInv

-----------------------------------------------------------------------------
(* What the gate sees of one call *)
View(c) == <<gatePhase[c], gateVerdict[c]>>

LEMMA ViewIs ==
  ASSUME NEW c \in Callers
  PROVE  /\ gatePhase[c] = CASE stage[c] = "idle" -> "idle"
                             [] stage[c] \in {"conditions", "confirmation", "done"} -> "judged"
                             [] OTHER -> "open"
         /\ gateVerdict[c] = IF stage[c] \in {"conditions", "confirmation"}
                             THEN Judgement(c) ELSE outcome[c]
BY DEF gatePhase, gateVerdict

(* A step of one call leaves the gate's view of another as it is. *)
LEMMA OtherViews ==
  ASSUME TypeOK, NEW c \in Callers, Call(c) \/ Proceed(c)
  PROVE  /\ gatePhase' = [gatePhase EXCEPT ![c] = gatePhase'[c]]
         /\ gateVerdict' = [gateVerdict EXCEPT ![c] = gateVerdict'[c]]
<1>1. ASSUME NEW d \in Callers, d # c
      PROVE  gatePhase'[d] = gatePhase[d] /\ gateVerdict'[d] = gateVerdict[d]
  <2>1. /\ stage'[d] = stage[d] /\ request'[d] = request[d]
        /\ outcome'[d] = outcome[d] /\ reading'[d] = reading[d]
    BY <1>1, OthersUntouched
  <2>2. Judgement(d)' = Judgement(d)
    BY <2>1 DEF Judgement
  <2> QED BY <1>1, <2>1, <2>2 DEF gatePhase, gateVerdict
<1>2. /\ gatePhase = [d \in Callers |-> gatePhase[d]]
      /\ gatePhase' = [d \in Callers |-> gatePhase'[d]]
      /\ gateVerdict = [d \in Callers |-> gateVerdict[d]]
      /\ gateVerdict' = [d \in Callers |-> gateVerdict'[d]]
  BY DEF gatePhase, gateVerdict
<1> QED BY <1>1, <1>2

(* A step that the gate does not see *)
LEMMA Unseen ==
  ASSUME TypeOK, NEW c \in Callers, Proceed(c), UNCHANGED <<now, request>>, UNCHANGED View(c)
  PROVE  UNCHANGED Gate!gateVars
<1>1. gatePhase'[c] = gatePhase[c] /\ gateVerdict'[c] = gateVerdict[c]
  BY DEF View
<1>2. /\ gatePhase = [d \in Callers |-> gatePhase[d]]
      /\ gateVerdict = [d \in Callers |-> gateVerdict[d]]
  BY DEF gatePhase, gateVerdict
<1> QED BY <1>1, <1>2, OtherViews DEF Gate!gateVars

(* A step that judges *)
LEMMA JudgingStep ==
  ASSUME TypeOK, NEW c \in Callers, Proceed(c), UNCHANGED <<now, request>>,
         gatePhase[c] = "open", gatePhase'[c] = "judged"
  PROVE  Gate!Judge(c) /\ gateVerdict' = [gateVerdict EXCEPT ![c] = gateVerdict'[c]]
BY OtherViews DEF Gate!Judge

LEMMA RejectingStep ==
  ASSUME TypeOK, NEW c \in Callers, Proceed(c), UNCHANGED <<now, request>>,
         gatePhase[c] = "open", gatePhase'[c] = "judged", gateVerdict'[c] \in SamlErrors,
         \/ ~Acceptable(request[c], now) /\ Explains(gateVerdict'[c], request[c], now)
         \/ BackendMayFail /\ gateVerdict'[c] = SignatureError
  PROVE  Gate!Reject(c)
<1>1. Gate!Judge(c) /\ gateVerdict' = [gateVerdict EXCEPT ![c] = gateVerdict'[c]]
  BY JudgingStep
<1>2. gateVerdict'[c] \in Gate!SamlErrors
  BY DEF SamlErrors, Gate!SamlErrors, Gate!MalformedResponseError, Gate!StatusError,
         Gate!SignatureError, Gate!AssertionExpiredError, Gate!AudienceMismatchError,
         Gate!RecipientMismatchError, Gate!InResponseToError
<1>3. \/ ~Acceptable(request[c], now) /\ Explains(gateVerdict'[c], request[c], now)
      \/ BackendMayFail /\ gateVerdict'[c] = Gate!SignatureError
  BY DEF Gate!SignatureError
<1> QED BY <1>1, <1>2, <1>3 DEF Gate!Reject

(* What a call that has come past the signature knows of its message, but  *)
(* for the time and the addressing.                                        *)
LEMMA VouchedFor ==
  ASSUME TypeOK, EvidenceIsKept, NEW c \in Callers, outcome[c] = Passed, stage[c] = "clock"
  PROVE  LET m == request[c].message
         IN  /\ request[c] \in Requests /\ IsMessage(m)
             /\ Readable(m) /\ Unambiguous(m) /\ Authentic(m)
             /\ AssertionConforms(m, ConsumedAssertion(m.document))
<1> DEFINE m == request[c].message
           a == ConsumedAssertion(m.document)
<1>1. /\ request[c] \in Requests
      /\ DecodeResponse(m.transport) = Passed /\ ParseResponse(m) = Passed
      /\ RejectMisplacedElements(m.document, a) = Passed
      /\ RejectSchemaInvalidAssertion(m, a) = Passed
      /\ SignatureLooksRight(m.document, a) = Passed
      /\ \E certificate \in Trusted :
           BackendVerifies(m.document, AssertionId(m.document, a), certificate)
  BY DEF EvidenceIsKept, Evidence, Document, Assertion,
         PastDecode, PastParse, PastHarden, PastConform, PastLocate, PastVerify
<1>2. IsMessage(m)
  BY <1>1, MessagesAssumption DEF Requests
<1>3. Readable(m)
  BY <1>1, ParsedIsReadable
<1>4. a \in Iter(m.document, 1)
  BY <1>3, ConsumedIsAssertion DEF Readable
<1>5. Unambiguous(m)
  BY <1>1, <1>4, HardenedDocumentIsUnambiguous DEF Unambiguous
<1>6. AssertionConforms(m, a)
  BY <1>1 DEF RejectSchemaInvalidAssertion, Require
<1>7. Authentic(m)
  BY <1>1, <1>2, <1>6, VerifiedIsAuthentic
<1> QED BY <1>1, <1>2, <1>3, <1>5, <1>6, <1>7

-----------------------------------------------------------------------------
(* The checks before the clock: a failure judges, a pass is not seen. *)
LEMMA CheckStep ==
  ASSUME TypeOK, NEW c \in Callers, Proceed(c), UNCHANGED <<now, request>>,
         NEW from \in Stages \ {"idle", "conditions", "confirmation", "done"},
         NEW next \in Stages \ {"idle", "conditions", "confirmation", "done"},
         NEW check, Step(c, from, check, next), outcome[c] = Passed
  PROVE  /\ check = Passed => UNCHANGED Gate!gateVars
         /\ check # Passed =>
              gatePhase[c] = "open" /\ gatePhase'[c] = "judged" /\ gateVerdict'[c] = check
<1>1. /\ stage[c] = from /\ outcome'[c] = check
      /\ stage'[c] = IF check = Passed THEN next ELSE "done"
  BY DEF Step, Continue, TypeOK
<1>2. gatePhase[c] = "open" /\ gateVerdict[c] = Passed
  BY <1>1, ViewIs DEF Stages
<1>3. CASE check = Passed
  <2>1. gatePhase'[c] = "open" /\ gateVerdict'[c] = Passed
    BY <1>1, <1>3 DEF gatePhase, gateVerdict, Stages
  <2> QED BY <1>2, <1>3, <2>1, Unseen DEF View
<1>4. CASE check # Passed
  <2>1. gatePhase'[c] = "judged" /\ gateVerdict'[c] = check
    BY <1>1, <1>4 DEF gatePhase, gateVerdict
  <2> QED BY <1>2, <1>4, <2>1
<1> QED BY <1>3, <1>4

(* A call under way has its arguments, and has not failed. *)
LEMMA UnderWay ==
  ASSUME EvidenceIsKept, NEW c \in Callers, stage[c] \notin {"idle", "done"}
  PROVE  request[c] \in Requests /\ IsMessage(request[c].message) /\ outcome[c] = Passed
BY MessagesAssumption DEF EvidenceIsKept, Evidence, Requests

(* What is known of the document of a call past the structural read, and   *)
(* past the wrapping checks                                                *)
LEMMA KnownOfDocument ==
  ASSUME EvidenceIsKept, NEW c \in Callers, outcome[c] = Passed
  PROVE  /\ stage[c] \in PastParse =>
              /\ Readable(request[c].message)
              /\ IsSingle(FindAll(Document(c), 1, "Assertion"))
         /\ stage[c] \in PastHarden =>
              RejectMisplacedElements(Document(c), Assertion(c)) = Passed
<1>1. stage[c] \in PastParse =>
        /\ DecodeResponse(request[c].message.transport) = Passed
        /\ ParseResponse(request[c].message) = Passed
  BY DEF EvidenceIsKept, Evidence, PastDecode, PastParse
<1>2. stage[c] \in PastParse => Readable(request[c].message)
  BY <1>1, ParsedIsReadable
<1>3. stage[c] \in PastHarden => RejectMisplacedElements(Document(c), Assertion(c)) = Passed
  BY DEF EvidenceIsKept, Evidence
<1> QED BY <1>2, <1>3 DEF Readable, Document

(* A check before the clock implements the gate when what fails it is not  *)
(* acceptable, and the error is true.                                      *)
LEMMA RefusingStep ==
  ASSUME TypeOK, NEW c \in Callers, Proceed(c), UNCHANGED <<now, request>>,
         NEW from \in Stages \ {"idle", "conditions", "confirmation", "done"},
         NEW next \in Stages \ {"idle", "conditions", "confirmation", "done"},
         NEW check, Step(c, from, check, next), outcome[c] = Passed,
         check # Passed =>
           /\ check \in SamlErrors
           /\ ~Acceptable(request[c], now) /\ Explains(check, request[c], now)
  PROVE  Gate!Reject(c) \/ UNCHANGED Gate!gateVars
<1>1. CASE check = Passed
  BY <1>1, CheckStep
<1>2. CASE check # Passed
  <2>1. gatePhase[c] = "open" /\ gatePhase'[c] = "judged" /\ gateVerdict'[c] = check
    BY <1>2, CheckStep
  <2> QED BY <1>2, <2>1, RejectingStep
<1> QED BY <1>1, <1>2

LEMMA ChecksRefuse ==
  ASSUME TypeOK, EvidenceIsKept, NEW c \in Callers,
         Decode(c) \/ Parse(c) \/ Harden(c) \/ Conform(c) \/ Locate(c)
  PROVE  Gate!Reject(c) \/ UNCHANGED Gate!gateVars
<1> DEFINE m == request[c].message
<1>0. /\ Proceed(c) /\ UNCHANGED <<now, request>>
      /\ IsMessage(m) /\ outcome[c] = Passed
  BY UnderWay DEF Proceed, Decode, Parse, Harden, Conform, Locate, Step
<1>1. CASE Decode(c)
  <2>1. Step(c, "decode", DecodeResponse(m.transport), "parse")
    BY <1>1 DEF Decode
  <2>2. DecodeResponse(m.transport) # Passed =>
          /\ DecodeResponse(m.transport) = MalformedResponseError /\ ~Readable(m)
    BY UndecodableIsUnreadable
  <2> QED BY <1>0, <2>1, <2>2, RefusingStep DEF Stages, SamlErrors, Acceptable, Explains
<1>2. CASE Parse(c)
  <2>1. Step(c, "parse", ParseResponse(m), "wrapping")
    BY <1>2 DEF Parse
  <2>2. ParseResponse(m) # Passed =>
          /\ ParseResponse(m) \in {MalformedResponseError, StatusError}
          /\ ~Readable(m)
          /\ ParseResponse(m) = StatusError => m.status # "success"
    BY UnparsableIsUnreadable
  <2> QED BY <1>0, <2>1, <2>2, RefusingStep DEF Stages, SamlErrors, Acceptable, Explains
<1>3. CASE Harden(c)
  <2> DEFINE check == RejectMisplacedElements(Document(c), Assertion(c))
  <2>1. Step(c, "wrapping", check, "schema")
    BY <1>3 DEF Harden
  <2>2. check # Passed => check = MalformedResponseError /\ ~Unambiguous(m)
    BY MisplacedIsAmbiguous DEF Document, Assertion
  <2> HIDE DEF check
  <2> QED BY <1>0, <2>1, <2>2, RefusingStep DEF Stages, SamlErrors, Acceptable, Explains
<1>4. CASE Conform(c)
  <2> DEFINE check == RejectSchemaInvalidAssertion(m, Assertion(c))
  <2>1. Step(c, "conformity", check, "locate")
    BY <1>4 DEF Conform
  <2>2. check # Passed => check = MalformedResponseError /\ ~AssertionConforms(m, Assertion(c))
    BY DEF RejectSchemaInvalidAssertion, Require
  <2>3. check # Passed => ~Acceptable(request[c], now)
    BY <2>2 DEF Acceptable, Assertion, Document
  <2> HIDE DEF check
  <2> QED BY <1>0, <2>1, <2>2, <2>3, RefusingStep DEF Stages, SamlErrors, Explains
<1>5. CASE Locate(c)
  <2> DEFINE check == SignatureLooksRight(Document(c), Assertion(c))
  <2>1. Step(c, "locate", check, "verify")
    BY <1>5 DEF Locate
  <2>2. /\ Readable(m) /\ IsSingle(FindAll(Document(c), 1, "Assertion"))
        /\ RejectMisplacedElements(Document(c), Assertion(c)) = Passed
    BY <1>0, <2>1, KnownOfDocument
       DEF Step, PastParse, PastHarden, PastConform, PastLocate, PastVerify
  <2>3. check # Passed => check = SignatureError /\ ~Authentic(m)
    BY <1>0, <2>2, OddSignatureIsNotAuthentic DEF Document, Assertion
  <2> HIDE DEF check
  <2> QED BY <1>0, <2>1, <2>2, <2>3, RefusingStep DEF Stages, SamlErrors, Acceptable, Explains
<1> QED BY <1>1, <1>2, <1>3, <1>4, <1>5

-----------------------------------------------------------------------------
(* The schema and the certificates                                         *)
LEMMA SchemaStep ==
  ASSUME TypeOK, EvidenceIsKept, NEW c \in Callers, LookUpSchema(c) \/ BuildSchema(c)
  PROVE  Gate!Abort(c) \/ UNCHANGED Gate!gateVars
<1>0. /\ Proceed(c) /\ UNCHANGED <<now, request>>
      /\ outcome[c] = Passed /\ stage[c] \in {"schema", "building"}
  BY UnderWay DEF Proceed, LookUpSchema, BuildSchema
<1>1. gatePhase[c] = "open" /\ gateVerdict[c] = Passed
  BY <1>0, ViewIs
<1>2. CASE outcome'[c] = Passed /\ stage'[c] \in {"building", "conformity"}
  <2>1. gatePhase'[c] = "open" /\ gateVerdict'[c] = Passed
    BY <1>2 DEF gatePhase, gateVerdict
  <2> QED BY <1>0, <1>1, <2>1, Unseen DEF View
<1>3. CASE BundleMayFail /\ outcome'[c] = SchemaBundleError /\ stage'[c] = "done"
  <2>1. gatePhase'[c] = "judged" /\ gateVerdict'[c] = SchemaBundleError
    BY <1>3 DEF gatePhase, gateVerdict
  <2>2. Gate!Judge(c) /\ gateVerdict' = [gateVerdict EXCEPT ![c] = gateVerdict'[c]]
    BY <1>0, <1>1, <2>1, JudgingStep
  <2> QED BY <1>3, <2>1, <2>2 DEF Gate!Abort, Gate!SchemaBundleError
<1> QED BY <1>2, <1>3 DEF LookUpSchema, BuildSchema, BuildFailed, Continue, TypeOK

LEMMA CertificateStep ==
  ASSUME GateInv, NEW c \in Callers,
         TryCertificate(c) \/ ExhaustCertificates(c) \/ FailBackend(c)
  PROVE  Gate!Reject(c) \/ Gate!Abort(c) \/ UNCHANGED Gate!gateVars
<1> DEFINE m == request[c].message
<1>0. /\ TypeOK /\ EvidenceIsKept /\ TriedInVain
      /\ Proceed(c) /\ UNCHANGED <<now, request>>
      /\ outcome[c] = Passed /\ stage[c] = "verify" /\ request[c] \in Requests /\ IsMessage(m)
  BY UnderWay DEF GateInv, LoopInv, Proceed, TryCertificate, ExhaustCertificates, FailBackend, Step
<1>1. gatePhase[c] = "open" /\ gateVerdict[c] = Passed
  BY <1>0, ViewIs
<1>2. CASE TryCertificate(c)
  <2>1. outcome'[c] = Passed /\ stage'[c] \in {"verify", "clock"}
    BY <1>0, <1>2 DEF TryCertificate, Continue, TypeOK
  <2>2. gatePhase'[c] = "open" /\ gateVerdict'[c] = Passed
    BY <2>1 DEF gatePhase, gateVerdict
  <2> QED BY <1>0, <1>1, <2>2, Unseen DEF View
<1>3. CASE FailBackend(c)
  <2>1. BackendMayFail /\ outcome'[c] = BackendFailure /\ stage'[c] = "done"
    BY <1>0, <1>3 DEF FailBackend, Step, Continue, TypeOK
  <2>2. gatePhase'[c] = "judged" /\ gateVerdict'[c] = BackendFailure
    BY <2>1 DEF gatePhase, gateVerdict
  <2>3. Gate!Judge(c) /\ gateVerdict' = [gateVerdict EXCEPT ![c] = gateVerdict'[c]]
    BY <1>0, <1>1, <2>2, JudgingStep
  <2> QED BY <2>1, <2>2, <2>3 DEF Gate!Abort, Gate!BackendFailure
<1>4. CASE ExhaustCertificates(c)
  <2>1. outcome'[c] = SignatureError /\ stage'[c] = "done"
    BY <1>0, <1>4 DEF ExhaustCertificates, Step, Continue, TypeOK
  <2>2. gatePhase'[c] = "judged" /\ gateVerdict'[c] = SignatureError
    BY <2>1 DEF gatePhase, gateVerdict
  <2>3. CASE BackendMayFail
    BY <1>0, <1>1, <2>2, <2>3, RejectingStep DEF SamlErrors
  <2>4. CASE ~BackendMayFail
    <3>1. /\ Readable(m) /\ IsSingle(FindAll(Document(c), 1, "Assertion"))
          /\ RejectMisplacedElements(Document(c), Assertion(c)) = Passed
      BY <1>0, KnownOfDocument DEF PastParse, PastHarden, PastConform, PastLocate
    <3>2. \A i \in DOMAIN SigningCertificates :
            ~BackendVerifies(Document(c), AssertionId(Document(c), Assertion(c)),
                             SigningCertificates[i])
      <4>1. cert[c] \in 1..(Len(SigningCertificates) + 1) /\ cert[c] > Len(SigningCertificates)
        BY <1>0, <1>4 DEF TypeOK, ExhaustCertificates
      <4>2. /\ Len(SigningCertificates) \in Nat
            /\ DOMAIN SigningCertificates = 1..Len(SigningCertificates)
        BY ConfigurationAssumption DEF IsConfiguration
      <4>3. DOMAIN SigningCertificates = 1..(cert[c] - 1)
        BY <4>1, <4>2
      <4> QED BY <1>0, <2>4, <4>3 DEF TriedInVain
    <3>3. ~Authentic(m)
      <4>1. \A certificate \in Trusted :
              ~BackendVerifies(Document(c), AssertionId(Document(c), Assertion(c)), certificate)
        BY <3>2 DEF Trusted, Range
      <4> QED BY <1>0, <3>1, <4>1, AuthenticIsVerified DEF Document, Assertion
    <3>4. ~Acceptable(request[c], now) /\ Explains(SignatureError, request[c], now)
      BY <3>1, <3>3 DEF Acceptable, Explains
    <3> QED BY <1>0, <1>1, <2>2, <3>4, RejectingStep DEF SamlErrors
  <2> QED BY <2>3, <2>4
<1> QED BY <1>2, <1>3, <1>4

-----------------------------------------------------------------------------
(* Reading the clock is the moment of judgement for a call that gets there. *)
LEMMA ClockStep ==
  ASSUME TypeOK, EvidenceIsKept, NEW c \in Callers, ReadClock(c)
  PROVE  Gate!Clear(c) \/ Gate!Reject(c) \/ Gate!Abort(c)
<1> DEFINE m == request[c].message
           e == request[c].expected
           a == ConsumedAssertion(m.document)
           instant == reading'[c]
           conditions == ValidateConditions(m.conditions, EntityId, instant, ClockSkew)
           subject == ValidateSubjectConfirmation(m, m.subjects, AcsUrl, ClockSkew,
                        AllowIdpInitiated, e, instant)
<1>0. /\ Proceed(c) /\ UNCHANGED <<now, request>>
      /\ outcome[c] = Passed /\ stage[c] = "clock" /\ stage'[c] = "conditions"
  BY UnderWay DEF Proceed, ReadClock, Step, Continue, TypeOK
<1>1. /\ instant.aware \in ClockAwareness /\ instant.at = now
      /\ instant \in [aware : BOOLEAN, at : Int]
  <2>1. PICK aware \in ClockAwareness :
          reading' = [reading EXCEPT ![c] = [aware |-> aware, at |-> now]]
    BY DEF ReadClock
  <2>2. instant = [aware |-> aware, at |-> now] /\ now \in Int /\ aware \in BOOLEAN
    BY <2>1, ValidationAssumption DEF TypeOK
  <2> QED BY <2>2
<1>2. gatePhase[c] = "open" /\ gatePhase'[c] = "judged"
  BY <1>0 DEF gatePhase
<1>3. gateVerdict'[c] = (conditions && subject)
  BY <1>0 DEF gateVerdict, Judgement
<1>4. Gate!Judge(c) /\ gateVerdict' = [gateVerdict EXCEPT ![c] = gateVerdict'[c]]
  BY <1>0, <1>2, JudgingStep
<1>5. /\ IsMessage(m) /\ Readable(m) /\ Unambiguous(m) /\ Authentic(m)
      /\ AssertionConforms(m, a)
  BY <1>0, VouchedFor
<1> HIDE DEF instant
<1>6. CASE ~instant.aware
  <2>1. conditions = ValueError
    BY <1>6 DEF ValidateConditions, RequireAware, Require, &&
  <2>2. FALSE \in ClockAwareness /\ gateVerdict'[c] = ValueError
    BY <1>1, <1>3, <1>6, <2>1 DEF &&
  <2> QED BY <1>4, <2>2 DEF Gate!Abort, Gate!ValueError
<1>7. CASE instant.aware /\ conditions # Passed
  <2>1. /\ ~ConditionsHold(m, now)
        /\ conditions \in {MalformedResponseError, AssertionExpiredError, AudienceMismatchError}
        /\ conditions = AssertionExpiredError =>
             \E element \in Range(m.conditions) : ~WindowOpen(element, now)
        /\ conditions = AudienceMismatchError =>
             \E element \in Range(m.conditions) : ~ForThisAudience(element)
    BY <1>1, <1>5, <1>7, FailedConditionsAreExplained
  <2> HIDE DEF conditions
  <2>2. gateVerdict'[c] = conditions /\ conditions \in SamlErrors
    BY <1>3, <1>7, <2>1 DEF &&, SamlErrors
  <2>3. ~Acceptable(request[c], now) /\ Explains(conditions, request[c], now)
    BY <1>5, <2>1 DEF Acceptable, Explains
  <2> QED BY <1>0, <1>2, <2>2, <2>3, RejectingStep
<1>8. CASE instant.aware /\ conditions = Passed
  <2>1. gateVerdict'[c] = subject
    BY <1>3, <1>8 DEF &&
  <2>2. ConditionsHold(m, now)
    BY <1>1, <1>5, <1>8, CheckedConditionsHold
  <2>3. CASE e = Blank
    <3>1. subject = ValueError
      BY <1>8, <2>3 DEF ValidateSubjectConfirmation, RequireAware, Require, &&
    <3> QED BY <1>4, <2>1, <2>3, <3>1 DEF Gate!Abort, Gate!ValueError
  <2>4. CASE e # Blank /\ subject # Passed
    <3>1. /\ ~(Addressed(m, e) /\ SubjectConfirmed(m, e, now))
          /\ \/ subject = MalformedResponseError
             \/ /\ subject = RecipientMismatchError
                /\ \/ m.destination \notin {None, AcsUrl}
                   \/ \E data \in BearerData(m) : data.recipient # AcsUrl
             \/ /\ subject = InResponseToError
                /\ \/ e = None /\ ~AllowIdpInitiated
                   \/ m.inResponseTo # e
                   \/ \E data \in BearerData(m) : data.inResponseTo # e
             \/ /\ subject = AssertionExpiredError
                /\ \E data \in BearerData(m) : ~StillBefore(data.notOnOrAfter, now)
      BY <1>1, <1>5, <1>8, <2>4, FailedSubjectIsExplained
    <3> HIDE DEF subject
    <3>2. subject \in SamlErrors
      BY <3>1 DEF SamlErrors
    <3>3. ~Acceptable(request[c], now) /\ Explains(subject, request[c], now)
      BY <1>5, <3>1 DEF Acceptable, Explains
    <3> QED BY <1>0, <1>2, <2>1, <3>2, <3>3, RejectingStep
  <2>5. CASE e # Blank /\ subject = Passed
    <3>1. Addressed(m, e) /\ SubjectConfirmed(m, e, now)
      BY <1>1, <1>5, <2>5, CheckedSubjectIsConfirmed
    <3>2. Acceptable(request[c], now)
      BY <1>5, <2>2, <3>1 DEF Acceptable
    <3>3. TRUE \in ClockAwareness
      BY <1>1, <1>8
    <3> QED BY <1>4, <2>1, <2>5, <3>2, <3>3 DEF Gate!Clear, Gate!Passed
  <2> QED BY <2>3, <2>4, <2>5
<1> QED BY <1>6, <1>7, <1>8

(* The checks after the clock only say what the reading settled. *)
LEMMA SettledStep ==
  ASSUME TypeOK, EvidenceIsKept, NEW c \in Callers, CheckConditions(c) \/ CheckConfirmation(c)
  PROVE  UNCHANGED Gate!gateVars
<1>0. /\ Proceed(c) /\ UNCHANGED <<now, request>> /\ reading'[c] = reading[c]
      /\ stage[c] \in {"conditions", "confirmation"} /\ outcome[c] = Passed
  BY UnderWay DEF Proceed, CheckConditions, CheckConfirmation, Step
<1>1. gatePhase[c] = "judged" /\ gateVerdict[c] = Judgement(c)
  BY <1>0, ViewIs
<1>2. Judgement(c)' = Judgement(c)
  BY <1>0 DEF Judgement
<1>3. CASE CheckConditions(c)
  <2> DEFINE check == ValidateConditions(request[c].message.conditions, EntityId, reading[c],
                                         ClockSkew)
  <2>1. /\ outcome'[c] = check
        /\ stage'[c] = IF check = Passed THEN "confirmation" ELSE "done"
    BY <1>3 DEF CheckConditions, Step, Continue, TypeOK
  <2>2. CASE check = Passed
    <3>1. gatePhase'[c] = "judged" /\ gateVerdict'[c] = Judgement(c)'
      BY <2>1, <2>2 DEF gatePhase, gateVerdict
    <3> QED BY <1>0, <1>1, <1>2, <3>1, Unseen DEF View
  <2>3. CASE check # Passed
    <3>1. gatePhase'[c] = "judged" /\ gateVerdict'[c] = check
      BY <2>1, <2>3 DEF gatePhase, gateVerdict
    <3>2. Judgement(c) = check
      BY <2>3 DEF Judgement, &&
    <3> QED BY <1>0, <1>1, <3>1, <3>2, Unseen DEF View
  <2> QED BY <2>2, <2>3
<1>4. CASE CheckConfirmation(c)
  <2> DEFINE check == ValidateSubjectConfirmation(request[c].message,
                        request[c].message.subjects, AcsUrl, ClockSkew, AllowIdpInitiated,
                        request[c].expected, reading[c])
  <2>1. outcome'[c] = check /\ stage'[c] = "done" /\ stage[c] = "confirmation"
    BY <1>4 DEF CheckConfirmation, Step, Continue, TypeOK
  <2>2. gatePhase'[c] = "judged" /\ gateVerdict'[c] = check
    BY <2>1 DEF gatePhase, gateVerdict
  <2>3. ValidateConditions(request[c].message.conditions, EntityId, reading[c], ClockSkew) = Passed
    BY <1>0, <2>1 DEF EvidenceIsKept, Evidence
  <2>4. Judgement(c) = check
    BY <2>3 DEF Judgement, &&
  <2> QED BY <1>0, <1>1, <2>2, <2>4, Unseen DEF View
<1> QED BY <1>3, <1>4

-----------------------------------------------------------------------------
(* Every step of the pipeline is one of the gate, or not seen by it. *)
LEMMA GateStep == GateInv /\ [Next]_vars => [Gate!Next]_Gate!gateVars
<1> SUFFICES ASSUME GateInv, [Next]_vars PROVE Gate!Next \/ UNCHANGED Gate!gateVars
  OBVIOUS
<1>0. TypeOK /\ EvidenceIsKept
  BY DEF GateInv
<1>1. ASSUME UNCHANGED callVars PROVE gatePhase' = gatePhase /\ gateVerdict' = gateVerdict
  <2>1. \A c \in Callers : Judgement(c)' = Judgement(c)
    BY <1>1 DEF Judgement, callVars
  <2> QED BY <1>1, <2>1 DEF gatePhase, gateVerdict, callVars
<1>2. CASE UNCHANGED vars
  BY <1>1, <1>2 DEF vars, callVars, Gate!gateVars
<1>3. CASE MoveClock
  <2>1. Gate!MoveClock
    BY <1>1, <1>3 DEF MoveClock, Gate!MoveClock, callVars
  <2> QED BY <2>1 DEF Gate!Next
<1>4. ASSUME NEW c \in Callers, Call(c) PROVE Gate!Call(c)
  <2>1. gatePhase[c] = "idle" /\ gatePhase'[c] = "open"
    BY <1>0, <1>4 DEF Call, TypeOK, gatePhase
  <2>2. gateVerdict'[c] = gateVerdict[c]
    BY <1>0, <1>4 DEF Call, TypeOK, gateVerdict
  <2>3. gateVerdict = [gateVerdict EXCEPT ![c] = gateVerdict[c]]
    BY DEF gateVerdict
  <2>4. /\ gatePhase' = [gatePhase EXCEPT ![c] = "open"]
        /\ gateVerdict' = gateVerdict
    BY <1>0, <1>4, <2>1, <2>2, <2>3, OtherViews
  <2>5. \E m \in Messages, x \in Expectations :
          request' = [request EXCEPT ![c] = [message |-> m, expected |-> x]]
    <3>1. PICK r \in Requests : request' = [request EXCEPT ![c] = r]
      BY <1>4 DEF Call
    <3>2. /\ r.message \in Messages /\ r.expected \in Expectations
          /\ r = [message |-> r.message, expected |-> r.expected]
      BY DEF Requests
    <3> QED BY <3>1, <3>2
  <2>6. UNCHANGED now
    BY <1>4 DEF Call
  <2> QED BY <2>1, <2>4, <2>5, <2>6 DEF Gate!Call
<1>5. ASSUME NEW c \in Callers, Return(c) PROVE Gate!Return(c)
  <2>1. gatePhase[c] = "judged" /\ gatePhase'[c] = "idle" /\ gateVerdict'[c] = Passed
    BY <1>0, <1>5 DEF Return, TypeOK, gatePhase, gateVerdict
  <2>2. /\ gatePhase' = [gatePhase EXCEPT ![c] = "idle"]
        /\ gateVerdict' = [gateVerdict EXCEPT ![c] = Passed]
    BY <1>0, <1>5, <2>1, OtherViews DEF Proceed
  <2> QED BY <1>5, <2>1, <2>2 DEF Return, Gate!Return, Gate!Passed
<1>6. ASSUME NEW c \in Callers, Proceed(c)
      PROVE  \/ Gate!Clear(c) \/ Gate!Reject(c) \/ Gate!Abort(c) \/ Gate!Return(c)
             \/ UNCHANGED Gate!gateVars
  BY <1>0, <1>5, <1>6, ChecksRefuse, SchemaStep, CertificateStep, ClockStep, SettledStep
     DEF Proceed
<1>7. CASE \E c \in Callers : Call(c) \/ Proceed(c)
  BY <1>4, <1>6, <1>7 DEF Gate!Next
<1> QED BY <1>2, <1>3, <1>7 DEF Next

(* The pipeline implements the gate: whatever calls are in progress, each  *)
(* is judged as if in one step, soundly, completely, and with an error     *)
(* that is true of the response.                                           *)
THEOREM PipelineImplementsGate == Spec => ImplementsGate
<1>1. Init => Gate!Init
  BY DEF Init, Gate!Init, Gate!Passed, gatePhase, gateVerdict
<1>2. GateInv /\ [Next]_vars => [Gate!Next]_Gate!gateVars
  BY GateStep
<1> QED BY <1>1, <1>2, GateInvariant, PTL DEF Spec, ImplementsGate, Gate!Spec

=============================================================================
