------------------------------- MODULE Models -------------------------------
(***************************************************************************)
(* models.py: the value types a program constructs, with the checks their  *)
(* constructors make, and the two encodings of an AuthnRequest.            *)
(*                                                                         *)
(* A text is a record [text, padded]: padding is white space around it.    *)
(* A URL is a record [kind, name, query, fragment, padded]; its query is a *)
(* sequence of parameters [name, value, utf8], utf8 being whether the      *)
(* value's bytes decode.  urlparse tells these kinds apart:                *)
(*   web         absolute, http or https, with a host and no userinfo      *)
(*   userinfo    the same, with credentials before the host                *)
(*   unsafe      another scheme, no host, relative or blank                *)
(*   unparsable  urlparse raises ValueError                                *)
(***************************************************************************)
EXTENDS Integers, Checks, SequencesExt

IsSequence(s) == s \in Seq(Range(s))

IsUrl(url) ==
  /\ DOMAIN url = {"kind", "name", "query", "fragment", "padded"}
  /\ url.kind \in {"web", "userinfo", "unsafe", "unparsable"}
  /\ IsSequence(url.query)
  /\ \A i \in DOMAIN url.query : DOMAIN url.query[i] = {"name", "value", "utf8"}

(* str.strip *)
Stripped(value) == [value EXCEPT !.padded = FALSE]
IsBlank(value) == value.text = ""

-----------------------------------------------------------------------------
(* The rule for an endpoint, the same for acs_url and for sso_url *)
RequireWebUrl(url) == Require(url.kind = "web", ValueError)

(* SamlConfig.__post_init__ over the fields a program passes.  skew counts *)
(* microseconds; decryptKey is None or a text; of idp_metadata it is only  *)
(* asked here whether there is markup in it at all.                        *)
ConfigPostInit(fields) ==
  Require(~IsBlank(Stripped(fields.entityId)), ValueError)
  && RequireWebUrl(Stripped(fields.acsUrl))
  && Require(fields.idpMetadata.markup, ValueError)
  && Require(fields.skew >= 0, ValueError)
  && Require(fields.decryptKey = None \/ ~IsBlank(fields.decryptKey), ValueError)
  && Require(fields.wantAssertionsSigned, ValueError)

(* Mutant: the identifiers are kept as they were passed. *)
SamlConfigUnstripped(fields) == fields

(* The object that is left: both identifiers are stored stripped. *)
SamlConfig(fields) ==
  [fields EXCEPT !.entityId = Stripped(@), !.acsUrl = Stripped(@)]

IdpPostInit(ssoUrl) == RequireWebUrl(ssoUrl)

(* What processing a response relies on in the objects it is bound to      *)
IsConfiguration(entityId, skew, allowIdpInitiated, signingCertificates) ==
  /\ entityId # ""
  /\ skew \in Nat
  /\ allowIdpInitiated \in BOOLEAN
  /\ signingCertificates # << >>

-----------------------------------------------------------------------------
(* A query goes through parse_qsl and urlencode: a parameter with a blank  *)
(* value is dropped, and bytes that do not decode are replaced.            *)
Reencoded(parameter) ==
  IF parameter.utf8 THEN parameter
  ELSE [parameter EXCEPT !.value = "replaced", !.utf8 = TRUE]

ParseQsl(query) ==
  FlattenSeq([i \in DOMAIN query |->
                IF query[i].value = "" THEN << >> ELSE <<Reencoded(query[i])>>])

Parameter(name, value) == [name |-> name, value |-> value, utf8 |-> TRUE]

(* base64 of the deflated or of the plain request *)
Payload(request, deflated) ==
  Parameter("SAMLRequest", [xml |-> request.xml, deflated |-> deflated])

RelayStateFields(request) ==
  IF request.relayState = None THEN << >>
  ELSE <<Parameter("RelayState", request.relayState)>>

(* Mutant: the destination's own query comes behind what is added. *)
RedirectUrlQueryLast(request) ==
  [request.destination EXCEPT
    !.query = <<Payload(request, TRUE)>> \o RelayStateFields(request) \o ParseQsl(@)]

RedirectUrl(request) ==
  [request.destination EXCEPT
    !.query = ParseQsl(@) \o <<Payload(request, TRUE)>> \o RelayStateFields(request)]

PostForm(request) ==
  [action |-> request.destination,
   fields |-> <<Payload(request, FALSE)>> \o RelayStateFields(request)]

=============================================================================
