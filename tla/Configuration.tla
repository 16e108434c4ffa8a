--------------------------- MODULE Configuration ----------------------------
(***************************************************************************)
(* What a ServiceProvider is bound to when it is constructed: the fields   *)
(* of SamlConfig and of the IdPDescriptor read from the IdP's metadata     *)
(* that processing a response depends on.                                  *)
(***************************************************************************)
EXTENDS Models

CONSTANTS
  EntityId,            \* SamlConfig.entity_id, the audience
  AcsUrl,              \* SamlConfig.acs_url
  ClockSkew,           \* SamlConfig.clock_skew, in microseconds
  AllowIdpInitiated,   \* SamlConfig.allow_idp_initiated
  SigningCertificates  \* IdPDescriptor.signing_certificates, in metadata order

(* Construction ensures this: see ProviderProofs.  The rest is the type of *)
(* the certificates, a tuple.                                              *)
ASSUME ConfigurationAssumption ==
  /\ IsConfiguration(EntityId, ClockSkew, AllowIdpInitiated, SigningCertificates)
  /\ Len(SigningCertificates) \in Nat
  /\ DOMAIN SigningCertificates = 1..Len(SigningCertificates)

Trusted == { SigningCertificates[i] : i \in DOMAIN SigningCertificates }

=============================================================================
