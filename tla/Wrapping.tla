------------------------------ MODULE Wrapping ------------------------------
(***************************************************************************)
(* wrapping.py: the checks that pin the assertion the application consumes *)
(* to the one the backend verifies, and the schema the assertion must      *)
(* conform to.  The schema object itself is built by module SchemaCache.   *)
(*                                                                         *)
(* Beside its document a message has the content of the assertion that is  *)
(* consumed: conditions (Conditions), subjects (SubjectConfirmation), and  *)
(* conforms, whether the schema accepts the rest of it.                    *)
(***************************************************************************)
EXTENDS Conditions, SubjectConfirmation, Signatures

RequireSoleConsumedAssertion(doc, assertion) ==
  Require(AssertionId(doc, assertion) # "", MalformedResponseError)
  && Require(Descendants(doc, 1, "Assertion") = {assertion}, MalformedResponseError)

IdAttributes == {"ID", "Id", "xml:id"}

(* Mutant: comparison of the raw values *)
RawId(id) == <<id.name, id.padded>>

(* Comparison is of values with their white space collapsed. *)
NormalizeId(id) == id.name

IdValues(doc, k) ==
  { NormalizeId(id) : id \in { i \in doc[k].ids : i.attr \in IdAttributes } }

RejectAmbiguousIds(doc) ==
  Require(\A j, k \in Iter(doc, 1) :
            IdValues(doc, j) \intersect IdValues(doc, k) # {} => j = k,
          MalformedResponseError)

RequireSoleAssertionSignature(doc, assertion) ==
  Require(IsSingle(Descendants(doc, assertion, "Signature")), MalformedResponseError)

(* The checks that need the document alone *)
RejectMisplacedElements(doc, assertion) ==
  RequireSoleConsumedAssertion(doc, assertion)
  && RejectAmbiguousIds(doc)
  && RequireSoleAssertionSignature(doc, assertion)

-----------------------------------------------------------------------------
(* What the bundled schema says of the parts that are modelled: the        *)
(* cardinalities of AssertionType and SubjectConfirmationType, the lexical *)
(* space of every timestamp, and the mandatory parts of the signatures in  *)
(* the subtree.                                                            *)

ConditionsConform(conditions) ==
  /\ SchemaAccepts(conditions.notBefore) /\ SchemaAccepts(conditions.notOnOrAfter)
  /\ \A i \in DOMAIN conditions.restrictions : conditions.restrictions[i] # << >>

ConfirmationConforms(confirmation) ==
  /\ Len(confirmation.data) <= 1
  /\ \A i \in DOMAIN confirmation.data :
       /\ SchemaAccepts(confirmation.data[i].notBefore)
       /\ SchemaAccepts(confirmation.data[i].notOnOrAfter)

(* Mutant: a schema in which DigestMethod is optional *)
SignatureConformsWithoutDigest(signature) ==
  signature.method # None /\ signature.references # << >>

SignatureConforms(signature) ==
  /\ signature.method # None
  /\ signature.references # << >>
  /\ Len(signature.digests) = Len(signature.references)
  /\ \A i \in DOMAIN signature.digests : signature.digests[i] # None

AssertionConforms(message, assertion) ==
  /\ message.conforms
  /\ Len(message.conditions) <= 1
  /\ \A i \in DOMAIN message.conditions : ConditionsConform(message.conditions[i])
  /\ Len(message.subjects) <= 1
  /\ \A i \in DOMAIN message.subjects : \A j \in DOMAIN message.subjects[i] :
       ConfirmationConforms(message.subjects[i][j])
  /\ \A s, t \in EnvelopedSignatures(message.document, assertion) : s = t
  /\ \A s \in Descendants(message.document, assertion, "Signature") :
       SignatureConforms(message.document[s])

(* wrapping.py _reject_schema_invalid_assertion, once it has the schema *)
RejectSchemaInvalidAssertion(message, assertion) ==
  Require(AssertionConforms(message, assertion), MalformedResponseError)

=============================================================================
