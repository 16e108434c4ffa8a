-------------------------- MODULE ValidationProofs --------------------------
(***************************************************************************)
(* Theorems about the pipeline of module Validation: its type correctness, *)
(* the evidence a call gathers on its way, and what follows from it for a  *)
(* call that is cleared.                                                   *)
(***************************************************************************)
EXTENDS PolicyProofs, FiniteSetTheorems

-----------------------------------------------------------------------------
(* Every step that raises raises one of the known errors. *)
LEMMA CheckOutcomes ==
  /\ \A transport : DecodeResponse(transport) \in Outcomes
  /\ \A m : ParseResponse(m) \in Outcomes
  /\ \A doc, a : RejectMisplacedElements(doc, a) \in Outcomes
  /\ \A m, a : RejectSchemaInvalidAssertion(m, a) \in Outcomes
  /\ \A doc, a : SignatureLooksRight(doc, a) \in Outcomes
  /\ \A all, audience, instant, skew :
       ValidateConditions(all, audience, instant, skew) \in Outcomes
  /\ \A m, subjects, acs, skew, allow, expected, instant :
       ValidateSubjectConfirmation(m, subjects, acs, skew, allow, expected, instant)
         \in Outcomes
<1> USE DEF Require, &&, Outcomes, SamlErrors
<1>1. \A transport : DecodeResponse(transport) \in Outcomes
  BY DEF DecodeResponse, Inflate
<1>2. \A m : ParseResponse(m) \in Outcomes
  BY DEF ParseResponse
<1>3. \A doc, a : RejectMisplacedElements(doc, a) \in Outcomes
  BY DEF RejectMisplacedElements, RequireSoleConsumedAssertion, RejectAmbiguousIds,
         RequireSoleAssertionSignature
<1>4. \A m, a : RejectSchemaInvalidAssertion(m, a) \in Outcomes
  BY DEF RejectSchemaInvalidAssertion
<1>5. \A doc, a : SignatureLooksRight(doc, a) \in Outcomes
  BY DEF SignatureLooksRight, LocateAssertionSignature, RequireStrongAlgorithms
<1>6. \A all, audience, instant, skew :
        ValidateConditions(all, audience, instant, skew) \in Outcomes
  BY DEF ValidateConditions, RequireAware, EnforceValidityWindow, ParseInstant,
         RequireAudience, RejectUnevaluableConditions
<1>7. \A confirmation, acs, expected, t, skew :
        ConfirmBearer(confirmation, acs, expected, t, skew) \in Outcomes
  BY DEF ConfirmBearer, ParseInstant, CheckInResponseTo
<1>8. \A subject, acs, expected, t, skew :
        ConfirmAnyBearer(subject, acs, expected, t, skew) \in Outcomes
  BY <1>7 DEF ConfirmAnyBearer
<1>9. \A m, subjects, acs, skew, allow, expected, instant :
        ValidateSubjectConfirmation(m, subjects, acs, skew, allow, expected, instant)
          \in Outcomes
  BY <1>8 DEF ValidateSubjectConfirmation, RequireAware, CheckResponseAddressing,
              CheckInResponseTo
<1> QED BY <1>1, <1>2, <1>3, <1>4, <1>5, <1>6, <1>9

-----------------------------------------------------------------------------
(* The position of a certificate, or one past the last. *)
LEMMA CertificatePositions ==
  /\ 1 \in 1..(Len(SigningCertificates) + 1)
  /\ \A i \in 1..(Len(SigningCertificates) + 1) :
       i <= Len(SigningCertificates) =>
         /\ i + 1 \in 1..(Len(SigningCertificates) + 1)
         /\ i \in DOMAIN SigningCertificates
<1>1. Len(SigningCertificates) \in Nat /\ DOMAIN SigningCertificates = 1..Len(SigningCertificates)
  BY ConfigurationAssumption DEF IsConfiguration
<1> QED BY <1>1

(* Type correctness of one step that ends in Continue. *)
LEMMA ContinueTyped ==
  ASSUME TypeOK, NEW c \in Callers, NEW check \in Outcomes, NEW next \in Stages,
         Continue(c, check, next)
  PROVE  stage' \in [Callers -> Stages] /\ outcome' \in [Callers -> Outcomes]
BY DEF TypeOK, Continue, Stages

(* Type correctness of every step: the pipeline's and the clock's. *)
LEMMA TypeStep == TypeOK /\ [Next]_vars => TypeOK'
<1> SUFFICES ASSUME TypeOK, [Next]_vars PROVE TypeOK'
  OBVIOUS
<1> USE DEF Stages
<1> Passed \in Outcomes /\ SignatureError \in Outcomes /\ SchemaBundleError \in Outcomes
      /\ BackendFailure \in Outcomes
  BY DEF Outcomes, SamlErrors
<1>1. CASE MoveClock
  BY <1>1 DEF MoveClock, TypeOK, callVars, cacheVars, CacheTypeOK
<1>2. CASE UNCHANGED vars
  BY <1>2 DEF vars, TypeOK, callVars, cacheVars, CacheTypeOK
<1>3. ASSUME NEW c \in Callers, Call(c) PROVE TypeOK'
  BY <1>3 DEF Call, TypeOK, cacheVars, CacheTypeOK
<1>4. ASSUME NEW c \in Callers, Proceed(c) PROVE TypeOK'
  <2>1. CASE Decode(c)
    BY <2>1, CheckOutcomes, ContinueTyped DEF Decode, Step, TypeOK, cacheVars, CacheTypeOK
  <2>2. CASE Parse(c)
    BY <2>2, CheckOutcomes, ContinueTyped DEF Parse, Step, TypeOK, cacheVars, CacheTypeOK
  <2>3. CASE Harden(c)
    BY <2>3, CheckOutcomes, ContinueTyped DEF Harden, Step, TypeOK, cacheVars, CacheTypeOK
  <2>4. CASE LookUpSchema(c)
    <3>1. CacheTypeOK'
      BY <2>4 DEF LookUpSchema, Hit, Miss, TypeOK, CacheTypeOK, cacheVars
    <3>2. stage' \in [Callers -> Stages] /\ outcome' \in [Callers -> Outcomes]
      BY <2>4, ContinueTyped DEF LookUpSchema
    <3> QED BY <3>1, <3>2, <2>4 DEF LookUpSchema, TypeOK
  <2>5. CASE BuildSchema(c)
    <3>1. CacheTypeOK'
      BY <2>5 DEF BuildSchema, Built, BuildFailed, TypeOK, CacheTypeOK
    <3>2. stage' \in [Callers -> Stages] /\ outcome' \in [Callers -> Outcomes]
      BY <2>5, ContinueTyped DEF BuildSchema
    <3> QED BY <3>1, <3>2, <2>5 DEF BuildSchema, TypeOK
  <2>6. CASE Conform(c)
    BY <2>6, CheckOutcomes, ContinueTyped DEF Conform, Step, TypeOK, cacheVars, CacheTypeOK
  <2>7. CASE Locate(c)
    BY <2>7, CheckOutcomes, ContinueTyped DEF Locate, Step, TypeOK, cacheVars, CacheTypeOK
  <2>8. CASE TryCertificate(c)
    <3>1. cert' \in [Callers -> 1..(Len(SigningCertificates) + 1)]
      BY <2>8, CertificatePositions DEF TryCertificate, TypeOK
    <3>2. stage' \in [Callers -> Stages] /\ outcome' \in [Callers -> Outcomes]
      BY <2>8, ContinueTyped DEF TryCertificate, TypeOK
    <3> QED BY <3>1, <3>2, <2>8 DEF TryCertificate, TypeOK, cacheVars, CacheTypeOK
  <2>9. CASE ExhaustCertificates(c)
    BY <2>9, ContinueTyped DEF ExhaustCertificates, Step, TypeOK, cacheVars, CacheTypeOK
  <2>10. CASE FailBackend(c)
    BY <2>10, ContinueTyped DEF FailBackend, Step, TypeOK, cacheVars, CacheTypeOK
  <2>11. CASE ReadClock(c)
    <3>1. reading' \in [Callers -> Readings \union {None}]
      BY <2>11 DEF ReadClock, TypeOK, Readings
    <3> QED BY <3>1, <2>11, ContinueTyped DEF ReadClock, Step, TypeOK, cacheVars, CacheTypeOK
  <2>12. CASE CheckConditions(c)
    BY <2>12, CheckOutcomes, ContinueTyped
       DEF CheckConditions, Step, TypeOK, cacheVars, CacheTypeOK
  <2>13. CASE CheckConfirmation(c)
    BY <2>13, CheckOutcomes, ContinueTyped
       DEF CheckConfirmation, Step, TypeOK, cacheVars, CacheTypeOK
  <2>14. CASE Return(c)
    BY <2>14, CertificatePositions DEF Return, TypeOK, cacheVars, CacheTypeOK
  <2> QED BY <1>4, <2>1, <2>2, <2>3, <2>4, <2>5, <2>6, <2>7, <2>8, <2>9, <2>10, <2>11,
             <2>12, <2>13, <2>14 DEF Proceed
<1> QED BY <1>1, <1>2, <1>3, <1>4 DEF Next

(* Type correctness: whatever messages arrive and however calls            *)
(* interleave, no step leaves a variable outside its type.  In particular  *)
(* a call ends with one of the errors the library documents, and the loop  *)
(* over the certificates never runs past the end by more than one.         *)
THEOREM TypeCorrect == Spec => []TypeOK
<1>1. Init => TypeOK
  BY CertificatePositions
     DEF Init, TypeOK, Stages, CacheInit, CacheTypeOK, Outcomes
<1>2. TypeOK /\ [Next]_vars => TypeOK'
  BY TypeStep
<1> QED BY <1>1, <1>2, PTL DEF Spec

-----------------------------------------------------------------------------
(* A call's evidence depends on its own variables alone. *)
LEMMA EvidenceIsLocal ==
  ASSUME NEW d, Evidence(d),
         stage'[d] = stage[d], request'[d] = request[d],
         outcome'[d] = outcome[d], reading'[d] = reading[d]
  PROVE  Evidence(d)'
BY DEF Evidence, Document, Assertion

(* A step of one call leaves the variables of another as they are. *)
LEMMA OthersUntouched ==
  ASSUME TypeOK, NEW c \in Callers, NEW d \in Callers, c # d, Call(c) \/ Proceed(c)
  PROVE  /\ stage'[d] = stage[d] /\ request'[d] = request[d]
         /\ outcome'[d] = outcome[d] /\ reading'[d] = reading[d]
<1> USE DEF TypeOK, Step, Continue
<1>0. CASE Call(c)
  BY <1>0 DEF Call
<1>1. CASE Decode(c)
  BY <1>1 DEF Decode
<1>2. CASE Parse(c)
  BY <1>2 DEF Parse
<1>3. CASE Harden(c)
  BY <1>3 DEF Harden
<1>4. CASE LookUpSchema(c)
  BY <1>4 DEF LookUpSchema
<1>5. CASE BuildSchema(c)
  BY <1>5 DEF BuildSchema
<1>6. CASE Conform(c)
  BY <1>6 DEF Conform
<1>7. CASE Locate(c)
  BY <1>7 DEF Locate
<1>8. CASE TryCertificate(c)
  BY <1>8 DEF TryCertificate
<1>9. CASE ExhaustCertificates(c)
  BY <1>9 DEF ExhaustCertificates
<1>10. CASE FailBackend(c)
  BY <1>10 DEF FailBackend
<1>11. CASE ReadClock(c)
  BY <1>11 DEF ReadClock
<1>12. CASE CheckConditions(c)
  BY <1>12 DEF CheckConditions
<1>13. CASE CheckConfirmation(c)
  BY <1>13 DEF CheckConfirmation
<1>14. CASE Return(c)
  BY <1>14 DEF Return
<1> QED BY <1>0, <1>1, <1>2, <1>3, <1>4, <1>5, <1>6, <1>7, <1>8, <1>9, <1>10, <1>11, <1>12, <1>13, <1>14 DEF Proceed

(* A step of one call leaves the position of another as it is. *)
LEMMA OtherPositions ==
  ASSUME TypeOK, NEW c \in Callers, NEW d \in Callers, c # d, Call(c) \/ Proceed(c)
  PROVE  cert'[d] = cert[d]
BY DEF TypeOK, Call, Proceed, Decode, Parse, Harden, LookUpSchema, BuildSchema, Conform, Locate,
       TryCertificate, ExhaustCertificates, FailBackend, ReadClock, CheckConditions,
       CheckConfirmation, Return

(* A step of a call extends its evidence by what the step checked. *)
LEMMA EvidenceStep == TypeOK /\ EvidenceIsKept /\ [Next]_vars => EvidenceIsKept'
<1> SUFFICES ASSUME TypeOK, EvidenceIsKept, [Next]_vars, NEW d \in Callers
             PROVE  Evidence(d)'
  BY DEF EvidenceIsKept
<1>1. Evidence(d)
  BY DEF EvidenceIsKept
<1>2. CASE MoveClock \/ UNCHANGED vars
  BY <1>1, <1>2, EvidenceIsLocal DEF MoveClock, vars, callVars
<1>3. ASSUME NEW c \in Callers, c # d, Call(c) \/ Proceed(c) PROVE Evidence(d)'
  BY <1>1, <1>3, EvidenceIsLocal, OthersUntouched
<1>4. CASE Call(d)
  BY <1>1, <1>4 DEF Call, Evidence, TypeOK,
                   PastDecode, PastParse, PastHarden, PastConform, PastLocate, PastVerify
<1>5. CASE Proceed(d)
  <2> USE <1>1 DEF Evidence, TypeOK, Step, Continue, Document, Assertion,
              PastDecode, PastParse, PastHarden, PastConform, PastLocate, PastVerify
  <2>1. CASE Decode(d)
    BY <2>1 DEF Decode
  <2>2. CASE Parse(d)
    BY <2>2 DEF Parse
  <2>3. CASE Harden(d)
    BY <2>3 DEF Harden
  <2>4. CASE LookUpSchema(d)
    BY <2>4 DEF LookUpSchema
  <2>5. CASE BuildSchema(d)
    BY <2>5 DEF BuildSchema
  <2>6. CASE Conform(d)
    BY <2>6 DEF Conform
  <2>7. CASE Locate(d)
    BY <2>7 DEF Locate
  <2>8. CASE TryCertificate(d)
    <3>1. SigningCertificates[cert[d]] \in Trusted
      BY <2>8, CertificatePositions DEF TryCertificate, Trusted
    <3> QED BY <2>8, <3>1 DEF TryCertificate
  <2>9. CASE ExhaustCertificates(d)
    BY <2>9 DEF ExhaustCertificates, Passed, SignatureError
  <2>10. CASE FailBackend(d)
    BY <2>10 DEF FailBackend, Passed, BackendFailure
  <2>11. CASE ReadClock(d)
    BY <2>11 DEF ReadClock, Readings
  <2>12. CASE CheckConditions(d)
    BY <2>12 DEF CheckConditions
  <2>13. CASE CheckConfirmation(d)
    BY <2>13 DEF CheckConfirmation
  <2>14. CASE Return(d)
    BY <2>14 DEF Return
  <2> QED BY <1>5, <2>1, <2>2, <2>3, <2>4, <2>5, <2>6, <2>7, <2>8, <2>9, <2>10, <2>11, <2>12, <2>13, <2>14 DEF Proceed
<1> QED BY <1>2, <1>3, <1>4, <1>5 DEF Next

(* At every step of every call, what the steps behind it have checked      *)
(* still holds of the same message, document and clock reading.            *)
THEOREM EvidenceKept == Spec => []EvidenceIsKept
<1>1. Init => EvidenceIsKept
  BY DEF Init, EvidenceIsKept, Evidence, PastDecode, PastParse, PastHarden, PastConform, PastLocate, PastVerify
<1>2. TypeOK /\ EvidenceIsKept /\ [Next]_vars => EvidenceIsKept'
  BY EvidenceStep
<1> QED BY <1>1, <1>2, TypeCorrect, PTL DEF Spec

-----------------------------------------------------------------------------
(* Soundness of the pipeline, for every configuration, every set of        *)
(* messages and any number of concurrent calls: a response that is cleared *)
(* is acceptable under the policy at the instant its call read the clock.  *)
THEOREM ClearedIsSound == Spec => []ClearedIsAcceptable
<1>1. TypeOK /\ EvidenceIsKept => ClearedIsAcceptable
  <2> SUFFICES ASSUME TypeOK, EvidenceIsKept, NEW c \in Callers, Cleared(c)
               PROVE  /\ reading[c].aware /\ request[c].expected # Blank
                      /\ Acceptable(request[c], reading[c].at)
    BY DEF ClearedIsAcceptable
  <2>1. /\ stage[c] = "done" /\ outcome[c] = Passed /\ Evidence(c)
    BY DEF Cleared, EvidenceIsKept
  <2>2. request[c] \in Requests /\ IsMessage(request[c].message)
    BY <2>1, MessagesAssumption DEF Evidence, Requests
  <2>3. reading[c] \in [aware : BOOLEAN, at : Int]
    BY <2>1, ValidationAssumption DEF Evidence, Readings
  <2>4. /\ DecodeResponse(request[c].message.transport) = Passed
        /\ ParseResponse(request[c].message) = Passed
        /\ RejectMisplacedElements(Document(c), Assertion(c)) = Passed
        /\ RejectSchemaInvalidAssertion(request[c].message, Assertion(c)) = Passed
        /\ SignatureLooksRight(Document(c), Assertion(c)) = Passed
        /\ \E certificate \in Trusted :
             BackendVerifies(Document(c), AssertionId(Document(c), Assertion(c)), certificate)
        /\ ValidateConditions(request[c].message.conditions, EntityId, reading[c], ClockSkew)
             = Passed
        /\ ValidateSubjectConfirmation(request[c].message, request[c].message.subjects,
             AcsUrl, ClockSkew, AllowIdpInitiated, request[c].expected, reading[c]) = Passed
    BY <2>1 DEF Evidence, PastDecode, PastParse, PastHarden, PastConform, PastLocate, PastVerify
  <2> QED BY <2>2, <2>3, <2>4, ChecksEstablishPolicy DEF Document, Assertion
<1> QED BY <1>1, TypeCorrect, EvidenceKept, PTL

(* Position integrity, for every document: once the wrapping checks are    *)
(* behind a call, its assertion's ID leads every reader to that assertion  *)
(* alone, and one signature is found there.                                *)
THEOREM PositionsAreSafe == Spec => []PositionIntegrity
<1>1. EvidenceIsKept => PositionIntegrity
  <2> SUFFICES ASSUME EvidenceIsKept, NEW c \in Callers, stage[c] \in Hardened
               PROVE  /\ BackendResolves(Document(c), AssertionId(Document(c), Assertion(c)))
                           = {Assertion(c)}
                      /\ IsSingle(Descendants(Document(c), Assertion(c), "Signature"))
    BY DEF PositionIntegrity
  <2>1. /\ ParseResponse(request[c].message) = Passed
        /\ RejectMisplacedElements(Document(c), Assertion(c)) = Passed
    BY DEF EvidenceIsKept, Evidence, Hardened, PastParse, PastHarden, PastConform,
           PastLocate, PastVerify
  <2>2. IsSingle(FindAll(Document(c), 1, "Assertion"))
    BY <2>1 DEF ParseResponse, Document, Require, &&, Passed, MalformedResponseError, StatusError
  <2>3. Assertion(c) \in Iter(Document(c), 1)
    BY <2>2, ConsumedIsAssertion DEF Assertion
  <2> QED BY <2>1, <2>3, HardenedDocumentIsUnambiguous
<1> QED BY <1>1, EvidenceKept, PTL

-----------------------------------------------------------------------------
(* However calls interleave with a cold cache and failing builds, no more  *)
(* schemas are built than there are callers.                               *)
THEOREM BuildsBounded == IsFiniteSet(Callers) /\ Spec => []BuildsAreBounded
<1> SUFFICES ASSUME IsFiniteSet(Callers) PROVE Spec => []BuildsAreBounded
  OBVIOUS
<1>1. TypeOK => /\ IsFiniteSet(building) /\ builds \in Nat
                /\ Cardinality(building) \in Nat /\ Cardinality(Callers) \in Nat
                /\ Cardinality(building) <= Cardinality(Callers)
  BY FS_Subset, FS_CardinalityType DEF TypeOK, CacheTypeOK
<1>2. Init => BuildsAreBounded
  BY FS_EmptySet, FS_CardinalityType DEF Init, CacheInit, BuildsAreBounded
<1>3. TypeOK /\ TypeOK' /\ BuildsAreBounded /\ [Next]_vars => BuildsAreBounded'
  <2> SUFFICES ASSUME TypeOK, TypeOK', BuildsAreBounded, [Next]_vars
               PROVE  BuildsAreBounded'
    OBVIOUS
  <2>1. CASE UNCHANGED cacheVars
    BY <2>1 DEF cacheVars, BuildsAreBounded
  <2>2. ASSUME NEW c \in Callers, LookUpSchema(c) PROVE BuildsAreBounded'
    <3>1. CASE Hit(c)
      BY <3>1, <2>1 DEF Hit
    <3>2. CASE Miss(c)
      <4>1. builds' = 0
        BY <3>2, <1>1 DEF Miss, Cached
      <4>2. building' \subseteq Callers
        BY DEF TypeOK, CacheTypeOK
      <4>3. /\ Cardinality(building') \in Nat /\ Cardinality(Callers) \in Nat
            /\ Cardinality(building') <= Cardinality(Callers)
        BY <4>2, FS_Subset, FS_CardinalityType
      <4> QED BY <4>1, <4>3 DEF BuildsAreBounded
    <3> QED BY <2>2, <3>1, <3>2 DEF LookUpSchema
  <2>3. ASSUME NEW c \in Callers, BuildSchema(c) PROVE BuildsAreBounded'
    <3>1. c \in building /\ building' = building \ {c} /\ builds' \in {builds, builds + 1}
      BY <2>3 DEF BuildSchema, Built, BuildFailed
    <3>2. Cardinality(building') = Cardinality(building) - 1
      BY <3>1, <1>1, FS_RemoveElement
    <3> QED BY <3>1, <3>2, <1>1 DEF BuildsAreBounded
  <2>4. ASSUME NEW c \in Callers, Call(c) \/ Proceed(c), ~LookUpSchema(c), ~BuildSchema(c)
        PROVE  UNCHANGED cacheVars
    BY <2>4 DEF Call, Proceed, Decode, Parse, Harden, Conform, Locate, TryCertificate,
                ExhaustCertificates, FailBackend, ReadClock, CheckConditions,
                CheckConfirmation, Return
  <2> QED BY <2>1, <2>2, <2>3, <2>4 DEF Next, MoveClock, vars
<1> QED BY <1>2, <1>3, TypeCorrect, PTL DEF Spec

-----------------------------------------------------------------------------
(* A call under way                                                        *)

(* A step that ends in Continue brings the call nearer its end, whether or *)
(* not the check passes. *)
LEMMA ContinueAdvances ==
  ASSUME TypeOK, NEW c \in Callers, NEW check, NEW next,
         stage[c] \in DOMAIN StepsAfter, stage[c] # "done", next \in DOMAIN StepsAfter,
         StepsAfter[next] < StepsAfter[stage[c]],
         Continue(c, check, next), cert' = cert
  PROVE  Advances(c)
<1>1. /\ stage'[c] \in {next, "done"} /\ cert'[c] = cert[c]
      /\ cert[c] \in 1..(Len(SigningCertificates) + 1) /\ Len(SigningCertificates) \in Nat
  BY ConfigurationAssumption DEF Continue, TypeOK, IsConfiguration
<1>2. /\ StepsAfter[stage[c]] \in 1..11 /\ StepsAfter[stage'[c]] \in 0..11
      /\ StepsAfter[stage'[c]] < StepsAfter[stage[c]]
  BY <1>1 DEF StepsAfter
<1>3. StepsLeft(c)' = StepsAfter[stage'[c]] + Len(SigningCertificates) + 1 - cert'[c]
  BY DEF StepsLeft, StepsAfter
<1>4. \A a \in 0..11, b \in 1..11, n \in Nat : \A k \in 1..(n + 1) :
        a < b => a + n + 1 - k \in 0..((b + n + 1 - k) - 1)
  OBVIOUS
<1>5. StepsLeft(c)' \in 0..(StepsLeft(c) - 1)
  BY <1>1, <1>2, <1>3, <1>4 DEF StepsLeft
<1> QED BY <1>5 DEF Advances

(* A failed try of a certificate leaves one less to try. *)
LEMMA TryAdvances ==
  ASSUME TypeOK, NEW c \in Callers, stage[c] = "verify", stage' = stage,
         cert[c] <= Len(SigningCertificates), cert' = [cert EXCEPT ![c] = @ + 1]
  PROVE  Advances(c)
<1>1. /\ cert'[c] = cert[c] + 1 /\ stage'[c] = "verify"
      /\ cert[c] \in 1..(Len(SigningCertificates) + 1) /\ Len(SigningCertificates) \in Nat
  BY ConfigurationAssumption DEF TypeOK, IsConfiguration
<1>2. StepsAfter["verify"] = 4
  BY DEF StepsAfter
<1>3. StepsLeft(c)' = StepsAfter[stage'[c]] + Len(SigningCertificates) + 1 - cert'[c]
  BY DEF StepsLeft, StepsAfter
<1> QED BY <1>1, <1>2, <1>3 DEF StepsLeft, Advances

(* Every call runs out of steps: there are at most eleven, and one more    *)
(* for every certificate. *)
THEOREM CallsAdvance == Spec => CallsRunOut
<1>1. ASSUME TypeOK, Next, NEW d \in Callers, stage[d] \notin {"idle", "done"}
      PROVE  Advances(d) \/ Stays(d)
  <2>1. CASE MoveClock
    BY <2>1 DEF MoveClock, callVars, Stays
  <2>2. ASSUME NEW c \in Callers, c # d, Call(c) \/ Proceed(c) PROVE Stays(d)
    BY <1>1, <2>2, OthersUntouched, OtherPositions DEF Stays
  <2>3. CASE Call(d)
    BY <1>1, <2>3 DEF Call
  <2>4. CASE Proceed(d)
    <3>1. ASSUME NEW check, NEW next, Continue(d, check, next), cert' = cert,
                 stage[d] \in DOMAIN StepsAfter, next \in DOMAIN StepsAfter,
                 StepsAfter[next] < StepsAfter[stage[d]]
          PROVE  Advances(d)
      BY <1>1, <3>1, ContinueAdvances
    <3>2. CASE Decode(d) \/ Parse(d) \/ Harden(d)
      BY <3>1, <3>2 DEF Decode, Parse, Harden, Step, StepsAfter
    <3>3. CASE LookUpSchema(d)
      BY <3>1, <3>3 DEF LookUpSchema, StepsAfter
    <3>4. CASE BuildSchema(d)
      BY <3>1, <3>4 DEF BuildSchema, StepsAfter
    <3>5. CASE Conform(d) \/ Locate(d)
      BY <3>1, <3>5 DEF Conform, Locate, Step, StepsAfter
    <3>6. CASE TryCertificate(d)
      <4>1. CASE Continue(d, Passed, "clock") /\ cert' = cert
        BY <3>1, <3>6, <4>1 DEF TryCertificate, StepsAfter
      <4>2. CASE cert' = [cert EXCEPT ![d] = @ + 1] /\ stage' = stage
        BY <1>1, <3>6, <4>2, TryAdvances DEF TryCertificate
      <4> QED BY <3>6, <4>1, <4>2 DEF TryCertificate
    <3>7. CASE ExhaustCertificates(d) \/ FailBackend(d)
      BY <3>1, <3>7 DEF ExhaustCertificates, FailBackend, Step, StepsAfter
    <3>8. CASE ReadClock(d) \/ CheckConditions(d) \/ CheckConfirmation(d)
      BY <3>1, <3>8 DEF ReadClock, CheckConditions, CheckConfirmation, Step, StepsAfter
    <3>9. CASE Return(d)
      BY <1>1, <3>9 DEF Return
    <3> QED BY <2>4, <3>2, <3>3, <3>4, <3>5, <3>6, <3>7, <3>8, <3>9 DEF Proceed
  <2> QED BY <1>1, <2>1, <2>2, <2>3, <2>4 DEF Next
<1>2. TypeOK /\ [Next]_vars =>
        [\A c \in Callers : stage[c] \notin {"idle", "done"} => Advances(c) \/ Stays(c)]_vars
  BY <1>1
<1> QED BY <1>2, TypeCorrect, PTL DEF Spec, CallsRunOut

=============================================================================
