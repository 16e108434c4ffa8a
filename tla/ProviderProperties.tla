------------------------- MODULE ProviderProperties -------------------------
(***************************************************************************)
(* The correctness properties of construction and of request building.    *)
(***************************************************************************)
EXTENDS Provider

(* A URL a browser can be sent to, or a response to: absolute, http(s),    *)
(* with no credentials and no white space around it.                       *)
IsWebUrl(url) == url.kind = "web" /\ url = Stripped(url)

(* What exists once construction has succeeded is all that processing a    *)
(* response assumes of it (ConfigurationAssumption), and no URL that is    *)
(* unsafe to dispatch to is left anywhere in it.                           *)
ProviderIsUsable ==
  provider # None =>
    /\ IsConfiguration(config.entityId.text, config.skew, config.allowIdpInitiated,
                       provider.signingCertificates)
    /\ IsWebUrl(config.acsUrl) /\ IsWebUrl(provider.ssoUrl)
    /\ config.entityId = Stripped(config.entityId)
    /\ config.wantAssertionsSigned

(* Document order of two paths of child numbers of the same length *)
Before(x, y) ==
  \E n \in DOMAIN x : x[n] < y[n] /\ \A k \in 1..(n - 1) : x[k] = y[k]

(* The endpoint a provider dispatches to is one the metadata advertises,   *)
(* and no advertised endpoint comes before it: Redirect before Post, and   *)
(* within a binding the first usable one in the document, across roles.    *)
Advertised(document) ==
  UNION { { <<i, j>> : j \in DOMAIN document.roles[i].services } :
            i \in DOMAIN document.roles }

Endpoint(document, at) == document.roles[at[1]].services[at[2]]

Better(document, x, y) ==
  LET bindings == <<Endpoint(document, x).binding, Endpoint(document, y).binding>>
  IN  \/ bindings = <<"redirect", "post">>
      \/ bindings[1] = bindings[2] /\ Before(x, y)

Candidates(document) ==
  { at \in Advertised(document) :
      /\ Endpoint(document, at).binding \in {"redirect", "post"}
      /\ IsHttpUrl(Endpoint(document, at).location) }

BestEndpointIsChosen ==
  provider # None =>
    LET document == config.idpMetadata
    IN  \E at \in Candidates(document) :
          /\ \A other \in Candidates(document) : other # at => Better(document, at, other)
          /\ provider.ssoUrl = Stripped(Endpoint(document, at).location)

(* The keys that are trusted are those the IdP's own roles advertise for   *)
(* signing, no others, each once, and in the order they first appear.      *)
SigningTexts(document) ==
  UNION { UNION { { <<i, j, k>> : k \in DOMAIN document.roles[i].keys[j].certificates } :
            j \in { j \in DOMAIN document.roles[i].keys :
                      document.roles[i].keys[j].use \in SigningUses } } :
          i \in DOMAIN document.roles }

TextAt(document, place) ==
  document.roles[place[1]].keys[place[2]].certificates[place[3]].text

Certificates(document) ==
  { place \in SigningTexts(document) : TextAt(document, place) # "" }

TrustIsWhatTheRolesAdvertise ==
  provider # None =>
    LET document == config.idpMetadata
        trusted  == provider.signingCertificates
        places   == Certificates(document)
        of(text) == { place \in places : TextAt(document, place) = text }
    IN  /\ Range(trusted) = { TextAt(document, place) : place \in places }
        /\ \A i, j \in DOMAIN trusted : i < j =>
             \E x \in of(trusted[i]) : \A y \in of(trusted[j]) : Before(x, y)

(* No metadata is refused that would do: an entity that can be read, with  *)
(* an endpoint and a certificate in any of its roles, whatever stands      *)
(* beside them.  A ValueError comes of a location that urlparse cannot     *)
(* read or that carries credentials, and of nothing else.                  *)
IsReadable(document) ==
  document.wellFormed /\ ~document.entities /\ document.root /\ ~IsBlank(document.entityId)

RefusalsAreDeserved ==
  config # None =>
    LET document == config.idpMetadata
    IN  /\ outcome = MetadataError =>
             ~IsReadable(document) \/ Candidates(document) = {} \/ Certificates(document) = {}
        /\ outcome = ValueError =>
             \E at \in Advertised(document) :
               Endpoint(document, at).location.kind \in {"userinfo", "unparsable"}

-----------------------------------------------------------------------------
(* The fields that are sent: in the URL, deflated, or in the form.         *)
Sent(r, deflated) == IF deflated THEN RedirectUrl(r).query ELSE PostForm(r).fields

Places(fields, name) == { i \in DOMAIN fields : fields[i].name = name }

(* The place of the last field of a name, if there is one *)
LastPlace(fields, name) ==
  { i \in Places(fields, name) : \A j \in Places(fields, name) : j <= i }

KeepsParameters(said, sent) ==
  \A i \in DOMAIN said : said[i].value # "" /\ said[i].utf8 =>
    \E j \in DOMAIN sent : sent[j].name = said[i].name /\ sent[j] = said[i]

(* A name is free if the destination's own query gives it no value. *)
LeavesFree(url, name) ==
  \A i \in DOMAIN url.query : url.query[i].name = name => url.query[i].value = ""

(* The SP metadata that was published and the request that arrives agree,  *)
(* so that an IdP that knows the one can answer the other.                 *)
Answerable(xml, metadata) ==
  /\ xml.issuer = metadata.entityId
  /\ xml.assertionConsumerServiceUrl = metadata.assertionConsumerService.location
  /\ xml.protocolBinding = metadata.assertionConsumerService.binding
  /\ xml.signed = metadata.authnRequestsSigned

(* Both encodings carry the very request whose ID the caller keeps, to the *)
(* endpoint the request names, with the caller's relay state; the IdP can  *)
(* answer it; and what the destination's own query says is still said,     *)
(* blank or undecodable values aside.  A destination may carry fields of   *)
(* the binding's names itself, which redirect_url keeps: the library's     *)
(* come last then, and where the destination leaves the name free, and in  *)
(* the form always, there are no others.                                   *)
RequestArrivesAsBuilt ==
  request # None =>
    /\ request.xml.id = request.requestId
    /\ request.xml.destination = PostForm(request).action
    /\ RedirectUrl(request) =
         [request.xml.destination EXCEPT !.query = RedirectUrl(request).query]
    /\ KeepsParameters(request.destination.query, RedirectUrl(request).query)
    /\ Answerable(request.xml, GenerateSpMetadata(config))
    /\ \A deflated \in BOOLEAN :
         LET fields == Sent(request, deflated)
         IN  /\ \E m \in LastPlace(fields, "SAMLRequest") :
                  fields[m].value = [xml |-> request.xml, deflated |-> deflated]
             /\ request.relayState # None =>
                  \E m \in LastPlace(fields, "RelayState") : fields[m].value = request.relayState
             /\ \A name \in {"SAMLRequest", "RelayState"} :
                  ~deflated \/ LeavesFree(request.destination, name) =>
                    /\ Places(fields, name) = LastPlace(fields, name)
                    /\ name = "RelayState" /\ request.relayState = None =>
                         Places(fields, name) = {}

(* A request is dated within the second its clock showed, on either side   *)
(* of the epoch and wherever the host is, if the clock's readings have a   *)
(* zone.  The epoch itself is the exception: a timestamp of 0 is taken for *)
(* none, and the host's clock dates the request, not the caller's.         *)
RequestIsDatedByItsClock ==
  request # None /\ reading.aware /\ reading.at # 0 =>
    /\ request.xml.issueInstant * Second <= reading.at
    /\ reading.at < (request.xml.issueInstant + 1) * Second

-----------------------------------------------------------------------------
(* What the repository's texts say.                                        *)

(* parse_idp_metadata raises MetadataError, and the constructor nothing    *)
(* else: a SamlConfig that exists does not lead to a ValueError.           *)
ConstructionRaisesMetadataError ==
  config # None => outcome \in {Passed, MetadataError}

(* redirect_url returns the destination URL with the request added: what   *)
(* the destination's query says is still said.                             *)
DestinationQueryIsKept ==
  request # None =>
    LET said == request.destination.query
        sent == RedirectUrl(request).query
    IN  \A i \in DOMAIN said : \E j \in DOMAIN sent :
          sent[j].name = said[i].name /\ sent[j] = said[i]

=============================================================================
