---------------------------- MODULE MCValidation ----------------------------
(***************************************************************************)
(* Model values for checking Validation: messages, documents and clocks.   *)
(*                                                                         *)
(* Times are small: a microsecond has two written instants, the skew is    *)
(* one microsecond, and the good window is from 2 to 3 microseconds, so    *)
(* that with the skew it is open at the readings 1, 2 and 3.               *)
(***************************************************************************)
EXTENDS ValidationProperties

At(form, at) == [form |-> form, at |-> at]
Absent == At("absent", 0)

-----------------------------------------------------------------------------
(* Documents *)
Id(attr, name) == [attr |-> attr, name |-> name, padded |-> FALSE]
PaddedId(attr, name) == [attr |-> attr, name |-> name, padded |-> TRUE]

Node(tag, last, ids) == [tag |-> tag, last |-> last, ids |-> ids]

SignatureNode(last, signer, seals) ==
  [tag |-> "Signature", last |-> last, ids |-> {}, method |-> "rsa-sha256",
   references |-> <<"a">>, digests |-> <<"sha256">>, signer |-> signer, seals |-> seals]

(* Response( Assertion( Signature Other ) Other ) *)
DocumentWith(signature, assertionIds, innerIds, outerIds) ==
  << Node("Response", 5, {Id("ID", "r")}), Node("Assertion", 4, assertionIds),
     signature, Node("Other", 4, innerIds), Node("Other", 5, outerIds) >>

GoodSignature == SignatureNode(3, "new", {2})
OldSignature == [GoodSignature EXCEPT !.signer = "old"]
GoodDocument == DocumentWith(GoodSignature, {Id("ID", "a")}, {}, {})

OddSignatures ==
  { [GoodSignature EXCEPT !.signer = "other"], OldSignature,
    [GoodSignature EXCEPT !.seals = {5}], [GoodSignature EXCEPT !.method = "rsa-sha1"],
    [GoodSignature EXCEPT !.method = None], [GoodSignature EXCEPT !.digests = <<"sha1">>],
    [GoodSignature EXCEPT !.digests = << >>],
    [GoodSignature EXCEPT !.references = <<"r">>],
    [GoodSignature EXCEPT !.references = <<None>>],
    [GoodSignature EXCEPT !.references = <<"a", "r">>, !.digests = <<"sha256", "sha256">>],
    [GoodSignature EXCEPT !.references = << >>, !.digests = << >>] }

UnsignedDocument == << Node("Response", 2, {}), Node("Assertion", 2, {Id("ID", "a")}) >>
TwoAssertions ==
  << Node("Response", 4, {}), Node("Assertion", 3, {Id("ID", "a")}), GoodSignature,
     Node("Assertion", 4, {Id("ID", "b")}) >>
PlantedAssertion ==
  << Node("Response", 5, {}), Node("Assertion", 3, {Id("ID", "a")}), GoodSignature,
     Node("Other", 5, {}), Node("Assertion", 5, {Id("ID", "b")}) >>
NestedSignature ==
  << Node("Response", 4, {}), Node("Assertion", 4, {Id("ID", "a")}),
     Node("Other", 4, {}), SignatureNode(4, "new", {2}) >>
TwoSignatures ==
  << Node("Response", 5, {}), Node("Assertion", 5, {Id("ID", "a")}), GoodSignature,
     Node("Other", 5, {}), SignatureNode(5, "new", {2}) >>
NotAResponse == [GoodDocument EXCEPT ![1].tag = "Other"]
AmbiguousDocuments ==
  { DocumentWith([GoodSignature EXCEPT !.seals = {k}], {Id("ID", "a")}, inner, outer) :
      k \in {2, 5}, inner \in {{}, {Id("Id", "a")}},
      outer \in {{}, {Id("xml:id", "a")}, {PaddedId("xml:id", "a")}, {Id("id", "a")}} }
UnnamedDocument == DocumentWith(GoodSignature, {Id("Id", "a"), Id("ID", "")}, {}, {})

SomeDocuments ==
  { DocumentWith(s, {Id("ID", "a")}, {}, {}) : s \in OddSignatures \union {GoodSignature} }
    \union AmbiguousDocuments
    \union { UnsignedDocument, TwoAssertions, PlantedAssertion, NestedSignature,
             TwoSignatures, NotAResponse, UnnamedDocument }

-----------------------------------------------------------------------------
(* The other parts of a message *)
GoodTransport ==
  [blank |-> FALSE, base64 |-> TRUE, xmlText |-> FALSE, deflate |-> TRUE, size |-> 2,
   complete |-> TRUE, trailing |-> FALSE, utf8 |-> TRUE]

SomeTransports ==
  { GoodTransport, [GoodTransport EXCEPT !.blank = TRUE],
    [GoodTransport EXCEPT !.base64 = FALSE], [GoodTransport EXCEPT !.deflate = FALSE],
    [GoodTransport EXCEPT !.size = 3], [GoodTransport EXCEPT !.complete = FALSE],
    [GoodTransport EXCEPT !.trailing = TRUE], [GoodTransport EXCEPT !.utf8 = FALSE],
    [GoodTransport EXCEPT !.xmlText = TRUE, !.deflate = FALSE] }

GoodConditions ==
  [notBefore |-> At("instant", 4), notOnOrAfter |-> At("instant", 6),
   restrictions |-> << <<"sp">> >>, others |-> {}]

Bounds == { At("instant", at) : at \in 3..7 }
OddForms == { At(form, 6) : form \in Forms \ {"instant"} }

SomeConditions ==
  { << >>, <<GoodConditions, GoodConditions>> }
  \union { <<[GoodConditions EXCEPT !.notBefore = nb, !.notOnOrAfter = na]>> :
             nb \in Bounds \union {Absent}, na \in Bounds }
  \union { <<[GoodConditions EXCEPT !.notBefore = nb]>> : nb \in OddForms }
  \union { <<[GoodConditions EXCEPT !.notOnOrAfter = na]>> : na \in OddForms }
  \union { <<[GoodConditions EXCEPT !.restrictions = rs]>> : rs \in
             { << >>, << << >> >>, << <<"other">> >>, << <<"other", "sp">> >>,
               << <<"sp">>, <<"other">> >>, << <<"">> >>, << <<"", "sp">> >> } }
  \union { <<[GoodConditions EXCEPT !.others = os]>> : os \in
             { {"ProxyRestriction"}, {"OneTimeUse"}, {"OneTimeUse", "ProxyRestriction"} } }

GoodData ==
  [notBefore |-> Absent, recipient |-> "acs", notOnOrAfter |-> At("instant", 6),
   inResponseTo |-> "q1"]
Bearer(data) == [method |-> "bearer", data |-> <<data>>]

SomeData ==
  { [GoodData EXCEPT !.notOnOrAfter = na] : na \in Bounds \union OddForms }
  \union { [GoodData EXCEPT !.notBefore = nb] : nb \in {At("instant", 2), At("naive", 2)} }
  \union { [GoodData EXCEPT !.recipient = r] : r \in {None, "elsewhere"} }
  \union { [GoodData EXCEPT !.inResponseTo = i] : i \in {None, "q2"} }

SomeSubjects ==
  { << >>, << << >> >>, << <<Bearer(GoodData)>>, <<Bearer(GoodData)>> >>,
    << <<[Bearer(GoodData) EXCEPT !.method = "sender-vouches"]>> >>,
    << <<[Bearer(GoodData) EXCEPT !.data = << >>]>> >>,
    << <<[Bearer(GoodData) EXCEPT !.data = <<GoodData, GoodData>>]>> >> }
  \union { << <<Bearer(d)>> >> : d \in SomeData }
  \union { << <<Bearer(d), Bearer(GoodData)>> >> : d \in SomeData }
  \union { << <<[Bearer(GoodData) EXCEPT !.method = "sender-vouches"], Bearer(d)>> >> :
             d \in SomeData }

GoodMessage ==
  [transport |-> GoodTransport, wellFormed |-> TRUE, dtd |-> FALSE,
   document |-> GoodDocument, status |-> "success", destination |-> "acs",
   inResponseTo |-> "q1", conforms |-> TRUE, conditions |-> <<GoodConditions>>,
   subjects |-> << <<Bearer(GoodData)>> >>]

-----------------------------------------------------------------------------
(* Sets of messages *)
Variants ==
  [transport |-> SomeTransports, wellFormed |-> BOOLEAN, dtd |-> BOOLEAN,
   document |-> SomeDocuments, status |-> {"success", "other", "absent"},
   destination |-> {"acs", None, "elsewhere"}, inResponseTo |-> {"q1", None, "q2"},
   conforms |-> BOOLEAN, conditions |-> SomeConditions, subjects |-> SomeSubjects]

(* Everything right but for one part *)
OneOddPart ==
  UNION { { [GoodMessage EXCEPT ![part] = x] : x \in Variants[part] } : part \in DOMAIN Variants }

(* The two windows and the three places that name the request, in any      *)
(* combination                                                             *)
WindowsAndRequests ==
  { [GoodMessage EXCEPT !.inResponseTo = i,
       !.conditions = <<[GoodConditions EXCEPT !.notBefore = nb, !.notOnOrAfter = na]>>,
       !.subjects = << <<Bearer([GoodData EXCEPT !.notOnOrAfter = sa, !.inResponseTo = j])>> >>] :
      i \in {"q1", None}, j \in {"q1", None},
      nb \in {At("instant", 4), Absent}, na \in Bounds, sa \in Bounds }

ManyMessages == OneOddPart \union WindowsAndRequests

(* Every document of four elements under these tags and IDs, with every    *)
(* choice of what its signatures seal                                      *)
Trees == { last \in [1..4 -> 1..4] :
             IsDocument([k \in 1..4 |-> Node("Other", last[k], {})]) }
TagChoices == { tag \in [1..4 -> {"Response", "Assertion", "Signature", "Other"}] :
                  tag[1] = "Response" /\ \A k \in 2..4 : tag[k] # "Response" }
IdChoices == { ids \in [1..4 -> {{}, {Id("ID", "a")}, {PaddedId("xml:id", "a")}}] :
                 ids[1] \in {{}, {PaddedId("xml:id", "a")}} }

SmallDocument(last, tag, ids, sealed) ==
  [k \in 1..4 |-> IF tag[k] = "Signature"
                  THEN [SignatureNode(last[k], "new", {sealed}) EXCEPT !.ids = ids[k]]
                  ELSE Node(tag[k], last[k], ids[k])]

SmallDocuments ==
  { SmallDocument(last, tag, ids, sealed) :
      last \in Trees, tag \in TagChoices, ids \in IdChoices, sealed \in 2..4 }

DocumentMessages ==
  { [GoodMessage EXCEPT !.document = d] : d \in SmallDocuments \union SomeDocuments }

(* Messages that end in different ways, for calls that run side by side    *)
FewMessages ==
  { GoodMessage,
    [GoodMessage EXCEPT !.document = DocumentWith(OldSignature, {Id("ID", "a")}, {}, {})],
    [GoodMessage EXCEPT !.document = NestedSignature],
    [GoodMessage EXCEPT !.conditions[1].notOnOrAfter = At("instant", 8)] }

NestedSignatureMessages == { GoodMessage, [GoodMessage EXCEPT !.document = NestedSignature] }
UnsignedMessages == { GoodMessage, [GoodMessage EXCEPT !.document = UnsignedDocument] }

Unsolicited == None
OneRequest == {"q1"}
OneRequestOrNone == {"q1", Unsolicited}
MCExpectations == {"q1", Unsolicited, Blank}
MCInstants == 0..4
LateInstants == 3..4
OneInstant == {2}
MCCertificates == <<"old", "new">>
BothKinds == BOOLEAN
AwareOnly == {TRUE}

=============================================================================
