------------------------ MODULE SubjectConfirmation -------------------------
(***************************************************************************)
(* subject_confirmation.py: bearer confirmation of the consumed assertion  *)
(* and the addressing of the Response that carries it.                     *)
(*                                                                         *)
(* A Subject is the sequence of its SubjectConfirmation children, each a   *)
(* record [method, data] whose data is the sequence of                     *)
(* SubjectConfirmationData children,                                       *)
(*   [notBefore, recipient, notOnOrAfter, inResponseTo].                   *)
(* A response is a record with fields destination and inResponseTo.  None  *)
(* stands for an absent attribute, and for expected_in_response_to=None.   *)
(***************************************************************************)
EXTENDS Timestamps, Sequences

CONSTANT Blank  \* a request ID of white space only

OptionalText == {None} \union STRING

ConfirmationData ==
  [notBefore : WrittenTimestamps, recipient : OptionalText,
   notOnOrAfter : WrittenTimestamps, inResponseTo : OptionalText]

Confirmations == [method : STRING, data : Seq(ConfirmationData)]

-----------------------------------------------------------------------------
(* Mutant: only a value that is present is compared. *)
CheckInResponseToIfPresent(actual, expected) ==
  Require(actual \in {None, expected}, InResponseToError)

(* Mutant: nothing is compared for an unsolicited response. *)
CheckInResponseToIfSolicited(actual, expected) ==
  Require(expected \in {None, actual}, InResponseToError)

(* Absent exactly when unsolicited, and equal to the expected ID otherwise *)
CheckInResponseTo(actual, expected) ==
  Require(actual = expected, InResponseToError)

CheckResponseAddressing(response, acsUrl, expected) ==
  Require(response.destination \in {None, acsUrl}, RecipientMismatchError)
  && CheckInResponseTo(response.inResponseTo, expected)

(* An absent Recipient is a mismatch like any other. *)
ConfirmBearer(confirmation, acsUrl, expected, now, skew) ==
  LET data == confirmation.data[1]
  IN  Require(Len(confirmation.data) = 1, MalformedResponseError)
      && Require(~Present(data.notBefore), MalformedResponseError)
      && Require(data.recipient = acsUrl, RecipientMismatchError)
      && Require(Present(data.notOnOrAfter), MalformedResponseError)
      && ParseInstant(data.notOnOrAfter)
      && Require(~HasExpired(now, ParsedInstant(data.notOnOrAfter), skew),
                 AssertionExpiredError)
      && CheckInResponseTo(data.inResponseTo, expected)

(* The positions of the bearer confirmations in a subject *)
Bearers(subject) == { i \in DOMAIN subject : subject[i].method = "bearer" }

(* One satisfied bearer is enough; when all fail, the first one's failure  *)
(* is the one raised.                                                      *)
ConfirmAnyBearer(subject, acsUrl, expected, now, skew) ==
  LET verdict(i) == ConfirmBearer(subject[i], acsUrl, expected, now, skew)
      first      == CHOOSE i \in Bearers(subject) :
                      \A j \in Bearers(subject) : i <= j
  IN  IF \E i \in Bearers(subject) : verdict(i) = Passed
      THEN Passed
      ELSE verdict(first)

-----------------------------------------------------------------------------
ValidateSubjectConfirmation(response, subjects, acsUrl, skew, idpInitiated, expected, now) ==
  RequireAware(now)
  && Require(expected # Blank, ValueError)
  && Require(expected = None => idpInitiated, InResponseToError)
  && CheckResponseAddressing(response, acsUrl, expected)
  && Require(Len(subjects) = 1, MalformedResponseError)
  && Require(Bearers(subjects[1]) # {}, MalformedResponseError)
  && ConfirmAnyBearer(subjects[1], acsUrl, expected, now.at, skew)

=============================================================================
