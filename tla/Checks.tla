------------------------------- MODULE Checks -------------------------------
(***************************************************************************)
(* The outcome of a validation step.  A step of the library either returns *)
(* normally or raises one error; a sequence of statements stops at the     *)
(* first that raises.  A step is a value here: Passed, or the class of the *)
(* error it raises.                                                        *)
(***************************************************************************)

CONSTANT None  \* no value: Python's None, and an attribute that is absent

Passed == "Passed"

-----------------------------------------------------------------------------
(* The classes raised for a rejected response (errors.py), and the one for *)
(* metadata.  ReplayError belongs to code that does not exist yet: nothing *)
(* raises it.                                                              *)

MalformedResponseError  == "MalformedResponseError"
StatusError             == "StatusError"
SignatureError          == "SignatureError"
AssertionExpiredError   == "AssertionExpiredError"
AudienceMismatchError   == "AudienceMismatchError"
RecipientMismatchError  == "RecipientMismatchError"
InResponseToError       == "InResponseToError"
MetadataError           == "MetadataError"

SamlErrors ==
  { MalformedResponseError, StatusError, SignatureError, AssertionExpiredError,
    AudienceMismatchError, RecipientMismatchError, InResponseToError }

(* What is not a SamlError: a broken caller contract, a broken             *)
(* installation, and an operating-system failure around the backend.       *)
ValueError        == "ValueError"
SchemaBundleError == "SchemaBundleError"
BackendFailure    == "BackendFailure"

Outcomes ==
  SamlErrors \union { Passed, ValueError, SchemaBundleError, BackendFailure }

-----------------------------------------------------------------------------
(* if not holds: raise error *)
Require(holds, error) == IF holds THEN Passed ELSE error

(* One statement after another: the second is reached only when the first  *)
(* does not raise.                                                         *)
first && second == IF first = Passed THEN second ELSE first

=============================================================================
