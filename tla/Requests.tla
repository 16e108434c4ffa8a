------------------------------ MODULE Requests ------------------------------
(***************************************************************************)
(* requests.py: building an AuthnRequest.                                  *)
(*                                                                         *)
(* A clock reading is a record [aware, at]: "at" is what its digits say,   *)
(* in microseconds from the epoch, taken as UTC.  The host's own clock is  *)
(* another one; its time, when it is read, is a parameter "hostTime".      *)
(***************************************************************************)
EXTENDS Models

CONSTANTS
  Second,       \* microseconds to a second, which is all an IssueInstant keeps
  LocalOffset   \* the host's offset from UTC, in microseconds

ASSUME RequestsAssumption == Second \in Nat \ {0} /\ LocalOffset \in Int

(* Mutant: the zone is dropped before the conversion. *)
TimestampOfDigits(reading) == reading.at - LocalOffset

(* datetime.timestamp(): digits with no zone are read in the host's zone. *)
Timestamp(reading) == IF reading.aware THEN reading.at ELSE reading.at - LocalOffset

(* time_util.instant, in seconds from the epoch: a timestamp of exactly 0  *)
(* counts as none given, and the host's time is stamped in its stead.      *)
Instant(timestamp, hostTime) ==
  (IF timestamp = 0 THEN hostTime ELSE timestamp) \div Second

(* Mutant: the response is asked for at the IdP's own endpoint. *)
AuthnRequestXmlToIdp(config, idp, reading, hostTime, id) ==
  [id |-> id,
   issueInstant |-> Instant(Timestamp(reading), hostTime),
   destination |-> idp.ssoUrl,
   protocolBinding |-> "post",
   assertionConsumerServiceUrl |-> idp.ssoUrl,
   issuer |-> config.entityId,
   signed |-> FALSE]

AuthnRequestXml(config, idp, reading, hostTime, id) ==
  [id |-> id,
   issueInstant |-> Instant(Timestamp(reading), hostTime),
   destination |-> idp.ssoUrl,
   protocolBinding |-> "post",
   assertionConsumerServiceUrl |-> config.acsUrl,
   issuer |-> config.entityId,
   signed |-> FALSE]

BuildAuthnRequest(config, idp, relayState, reading, hostTime, id) ==
  [requestId |-> id,
   xml |-> AuthnRequestXml(config, idp, reading, hostTime, id),
   destination |-> idp.ssoUrl,
   relayState |-> relayState]

=============================================================================
