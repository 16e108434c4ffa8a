------------------------------ MODULE Metadata ------------------------------
(***************************************************************************)
(* metadata.py: what a service provider takes from the metadata of its     *)
(* IdP, and the metadata it publishes of itself.                           *)
(*                                                                         *)
(* A metadata document is a record                                         *)
(*   markup, wellFormed        what a scan and a parser find               *)
(*   entities    whether it declares entities, which the parser refuses; a *)
(*               document type without any it lets through                 *)
(*   root        whether the root is an EntityDescriptor                   *)
(*   entityId    its entityID, a text                                      *)
(*   roles       its IDPSSODescriptor children, in document order          *)
(*   nested      IDPSSODescriptor elements deeper down, in extensions      *)
(* A role has services, a sequence of [binding, location], and keys, a     *)
(* sequence of [use, certificates] with one text for each X509Certificate. *)
(***************************************************************************)
EXTENDS Models

SsoBindingPreference == <<"redirect", "post">>
SigningUses == {None, "", "signing"}

(* What the parser makes of a document *)
IsMetadata(document) ==
  /\ DOMAIN document.entityId = {"text", "padded"}
  /\ IsSequence(document.roles)
  /\ \A i \in DOMAIN document.roles :
       /\ IsSequence(document.roles[i].services) /\ IsSequence(document.roles[i].keys)
       /\ \A j \in DOMAIN document.roles[i].services :
            IsUrl(document.roles[i].services[j].location)
       /\ \A j \in DOMAIN document.roles[i].keys :
            IsSequence(document.roles[i].keys[j].certificates)

-----------------------------------------------------------------------------
Services(roles) == FlattenSeq([i \in DOMAIN roles |-> roles[i].services])

IsHttpUrl(url) == url.kind \in {"web", "userinfo"}

Offers(service, binding) ==
  service.binding = binding /\ IsHttpUrl(Stripped(service.location))

(* Mutant: a later endpoint of a binding replaces an earlier one. *)
LastUsable(services, binding) ==
  { i \in DOMAIN services :
      /\ Offers(services[i], binding)
      /\ \A j \in DOMAIN services : j > i => ~Offers(services[j], binding) }

(* The position kept in locations[binding]: the first usable one, if any   *)
FirstUsable(services, binding) ==
  { i \in DOMAIN services :
      /\ Offers(services[i], binding)
      /\ \A j \in DOMAIN services : j < i => ~Offers(services[j], binding) }

(* urlparse raises on a location the loop looks at: one with a binding     *)
(* that has no usable location before it.                                  *)
ParseRaises(services) ==
  \E i \in DOMAIN services :
    /\ services[i].binding \notin {None, ""}
    /\ services[i].location.kind = "unparsable"
    /\ \A j \in DOMAIN services : j < i => ~Offers(services[j], services[i].binding)

(* The place of the first binding a URL was found for, 0 if there is none  *)
PreferredFound(services) ==
  SelectInSeq(SsoBindingPreference, LAMBDA binding : FirstUsable(services, binding) # {})

SelectSsoUrl(roles) ==
  Require(~ParseRaises(Services(roles)), ValueError)
  && Require(PreferredFound(Services(roles)) # 0, MetadataError)

(* What _select_sso_url returns *)
SelectedSsoUrl(roles) ==
  LET services == Services(roles)
      binding  == SsoBindingPreference[PreferredFound(services)]
  IN  Stripped(services[CHOOSE i \in FirstUsable(services, binding) : TRUE].location)

-----------------------------------------------------------------------------
(* Mutant: only the first role is looked at. *)
CertificateTextsOfFirst(roles) ==
  LET texts == FlattenSeq([i \in DOMAIN roles[1].keys |->
                 IF roles[1].keys[i].use \in SigningUses
                 THEN roles[1].keys[i].certificates ELSE << >>])
  IN  [i \in DOMAIN texts |-> texts[i].text]

(* The texts of the signing-capable keys, in document order, without the   *)
(* white space in them                                                     *)
CertificateTexts(roles) ==
  LET keys  == FlattenSeq([i \in DOMAIN roles |-> roles[i].keys])
      texts == FlattenSeq([i \in DOMAIN keys |->
                 IF keys[i].use \in SigningUses THEN keys[i].certificates ELSE << >>])
  IN  [i \in DOMAIN texts |-> texts[i].text]

(* Mutant: every certificate text is kept as it comes. *)
AddCertificateAlways(certificates, text) ==
  IF text = "" THEN certificates ELSE Append(certificates, text)

(* One turn of the loop: blank texts and repetitions are passed over.      *)
AddCertificate(certificates, text) ==
  IF text = "" \/ Contains(certificates, text) THEN certificates
  ELSE Append(certificates, text)

CollectSigningCertificates(document) ==
  FoldLeft(AddCertificate, << >>, CertificateTexts(document.roles))

-----------------------------------------------------------------------------
(* Mutant: a ParseError is not caught. *)
ReadEntityUnguarded(document) ==
  Require(document.wellFormed, "ParseError")
  && Require(~document.entities, MetadataError)
  && Require(document.root, MetadataError)

(* entity_descriptor_from_string, and what is made of its failures *)
ReadEntity(document) ==
  Require(document.wellFormed, MetadataError)
  && Require(~document.entities, MetadataError)
  && Require(document.root, MetadataError)

ParseIdpMetadata(document) ==
  ReadEntity(document)
  && Require(~IsBlank(Stripped(document.entityId)), MetadataError)
  && Require(document.roles # << >>, MetadataError)
  && SelectSsoUrl(document.roles)
  && IdpPostInit(SelectedSsoUrl(document.roles))

(* The descriptor that is returned *)
IdpDescriptor(document) ==
  [entityId |-> Stripped(document.entityId),
   ssoUrl |-> SelectedSsoUrl(document.roles),
   signingCertificates |-> CollectSigningCertificates(document)]

GenerateSpMetadata(config) ==
  [entityId |-> config.entityId,
   authnRequestsSigned |-> FALSE,
   wantAssertionsSigned |-> config.wantAssertionsSigned,
   assertionConsumerService |-> [binding |-> "post", location |-> config.acsUrl]]

=============================================================================
