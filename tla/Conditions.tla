----------------------------- MODULE Conditions -----------------------------
(***************************************************************************)
(* conditions.py: the consumed assertion's <Conditions> against this       *)
(* service provider and one clock reading.                                 *)
(*                                                                         *)
(* The <Conditions> children of an assertion are a sequence of records     *)
(*   notBefore, notOnOrAfter   written timestamps                          *)
(*   restrictions              a sequence of AudienceRestriction, each a   *)
(*                             sequence of Audience texts                  *)
(*   others                    the kinds of the other children             *)
(* An Audience text is taken without the white space around it.            *)
(***************************************************************************)
EXTENDS Timestamps, Sequences

ConditionsElements ==
  [notBefore : WrittenTimestamps, notOnOrAfter : WrittenTimestamps,
   restrictions : Seq(Seq(STRING)), others : SUBSET STRING]

(* conditions.py _EVALUABLE_CONDITIONS, without AudienceRestriction        *)
EvaluableKinds == {"ProxyRestriction"}

(* The texts of a restriction; blank ones are discarded. *)
AudienceValues(restriction) == { restriction[i] : i \in DOMAIN restriction } \ {""}

Names(restriction, audience) == audience \in AudienceValues(restriction)

-----------------------------------------------------------------------------
EnforceValidityWindow(conditions, now, skew) ==
  LET bounded   == Present(conditions.notBefore)
      notBefore == ParsedInstant(conditions.notBefore)
      expiry    == ParsedInstant(conditions.notOnOrAfter)
  IN  Require(Present(conditions.notOnOrAfter), MalformedResponseError)
      && ParseInstant(conditions.notOnOrAfter)
      && Require(bounded => Parses(conditions.notBefore), MalformedResponseError)
      && Require(bounded => notBefore < expiry, MalformedResponseError)
      && Require(bounded => ~IsNotYetValid(now, notBefore, skew), AssertionExpiredError)
      && Require(~HasExpired(now, expiry, skew), AssertionExpiredError)

(* Restrictions are ANDed; within one, any audience may name this SP.      *)
RequireAudience(conditions, audience) ==
  Require(/\ conditions.restrictions # << >>
          /\ \A i \in DOMAIN conditions.restrictions :
               Names(conditions.restrictions[i], audience),
          AudienceMismatchError)

RejectUnevaluableConditions(conditions) ==
  Require(conditions.others \subseteq EvaluableKinds, MalformedResponseError)

ValidateConditions(allConditions, audience, now, skew) ==
  RequireAware(now)
  && Require(Len(allConditions) = 1, MalformedResponseError)
  && EnforceValidityWindow(allConditions[1], now.at, skew)
  && RequireAudience(allConditions[1], audience)
  && RejectUnevaluableConditions(allConditions[1])

=============================================================================
