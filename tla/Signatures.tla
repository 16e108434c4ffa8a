----------------------------- MODULE Signatures -----------------------------
(***************************************************************************)
(* signatures.py: which signature is verified, over what, with which       *)
(* algorithms and against which certificate.                               *)
(*                                                                         *)
(* A Signature element of a document has, beside the fields of every       *)
(* element (XmlDocuments),                                                 *)
(*   method      the Algorithm of its SignatureMethod, None when missing   *)
(*   references  the ID each Reference URI points at, None when missing     *)
(*   digests     the Algorithm of each DigestMethod there is               *)
(*   signer      the certificate whose key made the signature value        *)
(*   seals       the positions of the elements whose content the digest    *)
(*               matches                                                   *)
(***************************************************************************)
EXTENDS Checks, XmlDocuments

AllowedSignatureAlgorithms ==
  {"rsa-sha256", "rsa-sha384", "rsa-sha512", "ecdsa-sha256", "ecdsa-sha384", "ecdsa-sha512"}
AllowedDigestAlgorithms == {"sha256", "sha384", "sha512"}

(* A Reference without a DigestMethod contributes nothing to digests. *)
RequireStrongAlgorithms(signature) ==
  Require(signature.method \in AllowedSignatureAlgorithms, SignatureError)
  && Require(\A i \in DOMAIN signature.digests :
               signature.digests[i] \in AllowedDigestAlgorithms,
             SignatureError)

(* (assertion.get("ID") or "").strip(), "" when there is none *)
AssertionId(doc, assertion) ==
  IF \E name \in Values(doc, assertion, "ID") : name # ""
  THEN CHOOSE name \in Values(doc, assertion, "ID") : name # ""
  ELSE ""

EnvelopedSignatures(doc, assertion) == FindAll(doc, assertion, "Signature")

LocateAssertionSignature(doc, assertion) ==
  Require(AssertionId(doc, assertion) # "", SignatureError)
  && Require(IsSingle(EnvelopedSignatures(doc, assertion)), SignatureError)
  && Require(doc[TheOnly(EnvelopedSignatures(doc, assertion))].references
               = <<AssertionId(doc, assertion)>>,
             SignatureError)

(* The element _locate_assertion_signature returns *)
LocatedSignature(doc, assertion) == doc[TheOnly(EnvelopedSignatures(doc, assertion))]

SignatureLooksRight(doc, assertion) ==
  LocateAssertionSignature(doc, assertion)
  && RequireStrongAlgorithms(LocatedSignature(doc, assertion))

-----------------------------------------------------------------------------
(* The xmlsec1 backend parses the document again and is told the node to   *)
(* verify by its ID only.  Which ID-like attributes it honours depends on  *)
(* its version: it may resolve an ID to any element that bears it.  At     *)
(* that element it takes the first signature of the subtree, whose         *)
(* references must resolve to content the signature was made over.         *)

BackendResolves(doc, name) ==
  { k \in Iter(doc, 1) :
      \E id \in doc[k].ids : id.attr \in {"ID", "Id", "xml:id"} /\ id.name = name }

FirstSignature(doc, k, s) ==
  /\ s \in Descendants(doc, k, "Signature")
  /\ \A t \in Descendants(doc, k, "Signature") : s <= t

(* xmlsec1 --verify --node-id nodeId, with the certificate as only key *)
BackendVerifies(doc, nodeId, certificate) ==
  \E start \in BackendResolves(doc, nodeId) : \E s \in Iter(doc, start) :
    /\ FirstSignature(doc, start, s)
    /\ doc[s].signer = certificate
    /\ doc[s].references # << >>
    /\ \A i \in DOMAIN doc[s].references :
         BackendResolves(doc, doc[s].references[i]) \intersect doc[s].seals # {}

=============================================================================
