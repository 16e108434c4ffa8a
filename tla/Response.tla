------------------------------ MODULE Response ------------------------------
(***************************************************************************)
(* response.py: the transport decoding of a SAMLResponse value and the     *)
(* structural read that finds the one assertion the rest of the pipeline   *)
(* consumes.                                                               *)
(*                                                                         *)
(* A message is a record; the fields read here are                         *)
(*   transport    [blank, base64, xmlText, deflate, size, complete,        *)
(*                trailing, utf8]: the value as decode_response sees it,   *)
(*                size being the length of the inflated payload            *)
(*   wellFormed, dtd   what the XML parser finds                           *)
(*   document     the element tree (XmlDocuments)                          *)
(*   status       the top-level StatusCode: "absent", "success" or "other" *)
(***************************************************************************)
EXTENDS Checks, XmlDocuments

CONSTANT MaxInflatedBytes  \* response.py _MAX_INFLATED_BYTES

-----------------------------------------------------------------------------
(* A raw DEFLATE payload, inflated under the cap *)
Inflate(transport) ==
  Require(transport.deflate, MalformedResponseError)
  && Require(transport.size <= MaxInflatedBytes, MalformedResponseError)
  && Require(transport.complete /\ ~transport.trailing, MalformedResponseError)
  && Require(transport.utf8, MalformedResponseError)

DecodeResponse(transport) ==
  Require(~transport.blank, MalformedResponseError)
  && Require(transport.base64, MalformedResponseError)
  && IF transport.xmlText THEN Passed ELSE Inflate(transport)

ParseResponse(message) ==
  Require(message.wellFormed, MalformedResponseError)
  && Require(~message.dtd, MalformedResponseError)
  && Require(message.document[1].tag = "Response", MalformedResponseError)
  && Require(message.status # "absent", MalformedResponseError)
  && Require(message.status = "success", StatusError)
  && Require(IsSingle(FindAll(message.document, 1, "Assertion")), MalformedResponseError)

(* ParsedResponse.assertion *)
ConsumedAssertion(doc) == TheOnly(FindAll(doc, 1, "Assertion"))

=============================================================================
