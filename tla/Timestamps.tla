----------------------------- MODULE Timestamps -----------------------------
(***************************************************************************)
(* timestamps.py: parsing of a SAML timestamp attribute and the two window *)
(* predicates.                                                             *)
(*                                                                         *)
(* A written timestamp is a record [form, at].  "at" is the instant it     *)
(* denotes, as finely as an attribute can write it; "form" is how it is    *)
(* written, as far as the parser and the schema tell forms apart.  An      *)
(* absent attribute has form "absent".                                     *)
(*                                                                         *)
(* datetime counts whole microseconds, and an attribute may be finer: a    *)
(* microsecond has SubMicro written instants.  A clock reading is a record *)
(* [aware, at] with "at" in microseconds.                                  *)
(***************************************************************************)
EXTENDS Integers, Checks

CONSTANT SubMicro  \* written instants to a microsecond

ASSUME SubMicroAssumption == SubMicro \in Nat \ {0}

-----------------------------------------------------------------------------
(* The forms that matter, by who accepts them:                             *)
(*   instant     a qualified date and time: both datetime and xs:dateTime  *)
(*   schemaOnly  end of day 24:00:00: xs:dateTime, but not datetime        *)
(*   pythonOnly  basic format, a blank for the T: datetime alone           *)
(*   naive       no zone: both read it, parse_instant then refuses it      *)
(*   garbage     neither                                                   *)
Forms == {"absent", "instant", "schemaOnly", "pythonOnly", "naive", "garbage"}

WrittenTimestamps == [form : Forms, at : Int]

Present(ts) == ts.form # "absent"

(* datetime.fromisoformat and the test for a zone *)
Parses(ts) == ts.form \in {"instant", "pythonOnly"}

(* The lexical space of xs:dateTime, or no attribute at all *)
SchemaAccepts(ts) == ts.form \in {"absent", "instant", "schemaOnly", "naive"}

(* fromisoformat cuts off digits finer than a microsecond *)
ParsedInstant(ts) == ts.at \div SubMicro

ParseInstant(ts) == Require(Parses(ts), MalformedResponseError)

(* Mutant: no check, so that comparing with a bound raises TypeError. *)
CompareUnchecked(now) == Require(now.aware, "TypeError")

RequireAware(now) == Require(now.aware, ValueError)

(* Mutant: the far edge of the allowance taken for inclusive. *)
HasExpiredInclusively(now, expiry, skew) == now >= expiry /\ now - expiry > skew

(* Mutant: the allowance is taken off the window. *)
HasExpiredEarly(now, expiry, skew) == now + skew >= expiry

HasExpired(now, expiry, skew) == now >= expiry /\ now - expiry >= skew

IsNotYetValid(now, notBefore, skew) == now < notBefore /\ notBefore - now > skew

=============================================================================
