-------------------------- MODULE AcceptancePolicy --------------------------
(***************************************************************************)
(* Which responses a service provider may accept, at which instant and as  *)
(* an answer to which request: stated over the message as a whole, with no *)
(* order of checks, no parsing and no backend.                             *)
(***************************************************************************)
EXTENDS Configuration, Response, Wrapping, Functions

(* The value is one readable, successful SAML Response with one assertion. *)
Readable(m) ==
  /\ ~m.transport.blank /\ m.transport.base64
  /\ \/ m.transport.xmlText
     \/ /\ m.transport.deflate /\ m.transport.complete /\ ~m.transport.trailing
        /\ m.transport.size <= MaxInflatedBytes
        /\ m.transport.utf8
  /\ m.wellFormed /\ ~m.dtd
  /\ m.document[1].tag = "Response"
  /\ m.status = "success"
  /\ IsSingle(FindAll(m.document, 1, "Assertion"))

(* A key of the IdP's sealed the assertion the application reads, with a   *)
(* signature that is the assertion's own, names it, covers nothing else,   *)
(* and uses strong algorithms throughout.                                  *)
Authentic(m) ==
  LET a == ConsumedAssertion(m.document)
  IN  \E s \in EnvelopedSignatures(m.document, a) :
        /\ m.document[s].signer \in Trusted
        /\ a \in m.document[s].seals
        /\ m.document[s].references = <<AssertionId(m.document, a)>>
        /\ m.document[s].method \in AllowedSignatureAlgorithms
        /\ Len(m.document[s].digests) = 1
        /\ m.document[s].digests[1] \in AllowedDigestAlgorithms

(* No name leads a reader of the document to two elements. *)
NamesAreUnique(doc) ==
  \A j, k \in Iter(doc, 1) : \A id \in doc[j].ids :
    {j, k} \subseteq BackendResolves(doc, id.name) => j = k

(* No second reader of the document can find another assertion, another    *)
(* signature in it, or another element by the same ID.                     *)
Unambiguous(m) ==
  LET a == ConsumedAssertion(m.document)
  IN  /\ AssertionId(m.document, a) # ""
      /\ Descendants(m.document, 1, "Assertion") = {a}
      /\ IsSingle(Descendants(m.document, a, "Signature"))
      /\ NamesAreUnique(m.document)

-----------------------------------------------------------------------------
(* A reading t is good for the microsecond from t to t + 1, and a written  *)
(* bound is finer than that.  The window is open at t when some instant of *)
(* the microsecond, put forward by the skew, has reached NotBefore, and    *)
(* every instant of it, put back by the skew, is before NotOnOrAfter.      *)
Reached(notBefore, t) == (t + ClockSkew + 1) * SubMicro > notBefore.at
StillBefore(expiry, t) == (t - ClockSkew + 1) * SubMicro <= expiry.at

Qualified(ts) == ts.form = "instant"

WindowStated(conditions) ==
  /\ Qualified(conditions.notOnOrAfter)
  /\ Present(conditions.notBefore) =>
       /\ Qualified(conditions.notBefore)
       /\ ParsedInstant(conditions.notBefore) < ParsedInstant(conditions.notOnOrAfter)

WindowOpen(conditions, t) ==
  /\ Present(conditions.notBefore) => Reached(conditions.notBefore, t)
  /\ StillBefore(conditions.notOnOrAfter, t)

ForThisAudience(conditions) ==
  /\ conditions.restrictions # << >>
  /\ \A restriction \in Range(conditions.restrictions) : EntityId \in Range(restriction)

ConditionsHold(m, t) ==
  \E conditions \in Range(m.conditions) :
    /\ Len(m.conditions) = 1
    /\ WindowStated(conditions) /\ WindowOpen(conditions, t)
    /\ ForThisAudience(conditions)
    /\ conditions.others \subseteq EvaluableKinds

-----------------------------------------------------------------------------
(* One bearer confirmation is for this endpoint, this request and now. *)
Confirms(confirmation, expected, t) ==
  /\ confirmation.method = "bearer"
  /\ \E data \in Range(confirmation.data) :
       /\ data.recipient = AcsUrl
       /\ data.inResponseTo = expected
       /\ ~Present(data.notBefore)
       /\ Qualified(data.notOnOrAfter)
       /\ StillBefore(data.notOnOrAfter, t)

SubjectConfirmed(m, expected, t) ==
  /\ Len(m.subjects) = 1
  /\ \E confirmation \in Range(m.subjects[1]) : Confirms(confirmation, expected, t)

Addressed(m, expected) ==
  /\ m.destination \in {None, AcsUrl}
  /\ m.inResponseTo = expected
  /\ expected = None => AllowIdpInitiated

Acceptable(r, t) ==
  /\ Readable(r.message)
  /\ Unambiguous(r.message)
  /\ AssertionConforms(r.message, ConsumedAssertion(r.message.document))
  /\ Authentic(r.message)
  /\ ConditionsHold(r.message, t)
  /\ Addressed(r.message, r.expected)
  /\ SubjectConfirmed(r.message, r.expected, t)

-----------------------------------------------------------------------------
(* What each error tells the caller about the response.  The first three   *)
(* are about a message nobody has vouched for yet; the others are said     *)
(* only of content the IdP signed.                                         *)
BearerData(m) ==
  UNION { UNION { Range(subject[i].data) : i \in Bearers(subject) } :
          subject \in Range(m.subjects) }

Explains(error, r, t) ==
  LET m == r.message
  IN  \/ error = MalformedResponseError
      \/ error = StatusError /\ m.status # "success"
      \/ error = SignatureError /\ Readable(m) /\ ~Authentic(m)
      \/ /\ Readable(m) /\ Unambiguous(m) /\ Authentic(m)
         /\ \/ /\ error = AssertionExpiredError
               /\ \/ \E conditions \in Range(m.conditions) : ~WindowOpen(conditions, t)
                  \/ \E data \in BearerData(m) : ~StillBefore(data.notOnOrAfter, t)
            \/ /\ error = AudienceMismatchError
               /\ \E conditions \in Range(m.conditions) : ~ForThisAudience(conditions)
            \/ /\ error = RecipientMismatchError
               /\ \/ m.destination \notin {None, AcsUrl}
                  \/ \E data \in BearerData(m) : data.recipient # AcsUrl
            \/ /\ error = InResponseToError
               /\ \/ r.expected = None /\ ~AllowIdpInitiated
                  \/ m.inResponseTo # r.expected
                  \/ \E data \in BearerData(m) : data.inResponseTo # r.expected

=============================================================================
