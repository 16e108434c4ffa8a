------------------------------ MODULE Provider ------------------------------
(***************************************************************************)
(* ServiceProvider.__init__ and what leads to it and from it: a program    *)
(* makes a SamlConfig, constructs a provider of it, and has a request      *)
(* built for the IdP that was found in the metadata.                       *)
(***************************************************************************)
EXTENDS Metadata, Requests

CONSTANTS
  Settings,     \* the fields programs pass to SamlConfig
  RelayStates,  \* the relay states they pass, None among them
  Readings,     \* what the clock they pass may return
  HostTimes,    \* what the host's clock may show meanwhile
  FreshId       \* the ID sid() makes

(* The fields of a dataclass, as its annotations have them *)
ASSUME SettingsAssumption ==
  /\ None \notin Settings
  /\ \A fields \in Settings :
       /\ DOMAIN fields = {"entityId", "acsUrl", "idpMetadata", "wantAssertionsSigned", "skew",
                           "allowIdpInitiated", "decryptKey"}
       /\ fields.skew \in Int
       /\ fields.allowIdpInitiated \in BOOLEAN /\ fields.wantAssertionsSigned \in BOOLEAN
       /\ IsMetadata(fields.idpMetadata)

(* A clock returns a datetime, and the host's some time. *)
ASSUME ReadingsAssumption ==
  Readings \subseteq [aware : BOOLEAN, at : Int] /\ HostTimes \subseteq Int

VARIABLES
  settings,  \* the fields passed, None before
  config,    \* the SamlConfig, None before
  provider,  \* the IdPDescriptor a ServiceProvider is bound to, None before
  request,   \* the AuthnRequest, None before
  reading,   \* what the clock returned for it
  outcome    \* how the last construction ended

vars == <<settings, config, provider, request, reading, outcome>>

-----------------------------------------------------------------------------
Init ==
  /\ settings = None
  /\ config = None
  /\ provider = None
  /\ request = None
  /\ reading = None
  /\ outcome = Passed

(* SamlConfig(...): the object exists only when nothing was raised. *)
Configure ==
  /\ settings = None
  /\ \E fields \in Settings :
       /\ settings' = fields
       /\ outcome' = ConfigPostInit(fields)
       /\ config' = IF ConfigPostInit(fields) = Passed THEN SamlConfig(fields) ELSE None
  /\ UNCHANGED <<provider, request, reading>>

ProviderInit(document) ==
  ParseIdpMetadata(document)
  && Require(CollectSigningCertificates(document) # << >>, MetadataError)

(* ServiceProvider(config) *)
Construct ==
  /\ config # None /\ provider = None /\ outcome = Passed
  /\ outcome' = ProviderInit(config.idpMetadata)
  /\ provider' = IF ProviderInit(config.idpMetadata) = Passed
                 THEN IdpDescriptor(config.idpMetadata) ELSE None
  /\ UNCHANGED <<settings, config, request, reading>>

(* build_authn_request(config, idp, relay_state=..., clock=...) *)
BuildRequest ==
  /\ provider # None /\ request = None
  /\ \E relayState \in RelayStates, r \in Readings, hostTime \in HostTimes :
       /\ request' = BuildAuthnRequest(config, provider, relayState, r, hostTime, FreshId)
       /\ reading' = r
  /\ UNCHANGED <<settings, config, provider, outcome>>

(* The program is done, or corrects its settings and starts again. *)
StartAgain ==
  /\ settings' = None
  /\ config' = None
  /\ provider' = None
  /\ request' = None
  /\ reading' = None
  /\ outcome' = Passed

Next == Configure \/ Construct \/ BuildRequest \/ StartAgain

Spec == Init /\ [][Next]_vars

-----------------------------------------------------------------------------
TypeOK ==
  /\ settings \in Settings \union {None}
  /\ config \in { SamlConfig(fields) : fields \in Settings } \union {None}
  /\ provider # None =>
       config # None /\ provider = IdpDescriptor(config.idpMetadata)
  /\ request # None => provider # None /\ reading \in Readings
  /\ outcome \in {Passed, ValueError, MetadataError}

=============================================================================
