------------------------ MODULE ValidationProperties ------------------------
(***************************************************************************)
(* The correctness properties of process_response, over the states of      *)
(* module Validation and against the policy of AcceptancePolicy.           *)
(***************************************************************************)
EXTENDS Validation, AcceptancePolicy, FiniteSets

Cleared(c) == stage[c] = "done" /\ outcome[c] = Passed

(* Soundness of the pipeline: a response that every step let pass is one   *)
(* the policy accepts, for the request the caller named and at the one     *)
(* instant the clock was read.  No single check knows this: the policy     *)
(* follows from what several of them establish about the same document.    *)
ClearedIsAcceptable ==
  \A c \in Callers : Cleared(c) =>
    /\ reading[c].aware /\ request[c].expected # Blank
    /\ Acceptable(request[c], reading[c].at)

(* The inductive invariant behind it: what a call that has come this far   *)
(* has established, about the same message, the same document and, for the *)
(* last two checks, the same reading.                                      *)
PastVerify  == {"clock", "conditions", "confirmation", "done"}
PastLocate  == PastVerify \union {"verify"}
PastConform == PastLocate \union {"locate"}
PastHarden  == PastConform \union {"schema", "building", "conformity"}
PastParse   == PastHarden \union {"wrapping"}
PastDecode  == PastParse \union {"parse"}

Evidence(c) ==
  /\ stage[c] # "idle" => request[c] \in Requests
  /\ stage[c] # "done" => outcome[c] = Passed
  /\ outcome[c] = Passed =>
       /\ stage[c] \in PastDecode => DecodeResponse(request[c].message.transport) = Passed
       /\ stage[c] \in PastParse => ParseResponse(request[c].message) = Passed
       /\ stage[c] \in PastHarden =>
            RejectMisplacedElements(Document(c), Assertion(c)) = Passed
       /\ stage[c] \in PastConform =>
            RejectSchemaInvalidAssertion(request[c].message, Assertion(c)) = Passed
       /\ stage[c] \in PastLocate => SignatureLooksRight(Document(c), Assertion(c)) = Passed
       /\ stage[c] \in PastVerify => \E certificate \in Trusted :
            BackendVerifies(Document(c), AssertionId(Document(c), Assertion(c)), certificate)
       /\ stage[c] \in {"conditions", "confirmation", "done"} => reading[c] \in Readings
       /\ stage[c] \in {"confirmation", "done"} =>
            ValidateConditions(request[c].message.conditions, EntityId, reading[c], ClockSkew)
              = Passed
       /\ stage[c] = "done" =>
            ValidateSubjectConfirmation(request[c].message, request[c].message.subjects,
              AcsUrl, ClockSkew, AllowIdpInitiated, request[c].expected, reading[c]) = Passed

EvidenceIsKept == \A c \in Callers : Evidence(c)

(* The joint invariant behind signature wrapping: from the time the        *)
(* wrapping checks are behind a call, its assertion's ID resolves to that  *)
(* assertion and to no other element, whichever ID-like attributes the     *)
(* reader honours, and the first signature found there is its only one.    *)
Hardened == {"schema", "building", "conformity", "locate", "verify",
             "clock", "conditions", "confirmation"}

PositionIntegrity ==
  \A c \in Callers : stage[c] \in Hardened =>
    LET doc == Document(c)
        a   == Assertion(c)
    IN  /\ BackendResolves(doc, AssertionId(doc, a)) = {a}
        /\ IsSingle(Descendants(doc, a, "Signature"))

(* However calls interleave with a cold schema cache, and however often a  *)
(* build fails, no more schemas are ever built than there are threads that *)
(* could have missed together.                                             *)
BuildsAreBounded == builds + Cardinality(building) <= Cardinality(Callers)

(* What a call still has before it: the steps after the one it is at, and  *)
(* the certificates it has not tried.                                      *)
StepsAfter ==
  [decode |-> 11, parse |-> 10, wrapping |-> 9, schema |-> 8, building |-> 7,
   conformity |-> 6, locate |-> 5, verify |-> 4, clock |-> 3, conditions |-> 2,
   confirmation |-> 1, done |-> 0]

StepsLeft(c) == StepsAfter[stage[c]] + Len(SigningCertificates) + 1 - cert[c]

Advances(c) == StepsLeft(c)' \in 0..(StepsLeft(c) - 1)
Stays(c)    == UNCHANGED <<stage[c], request[c], cert[c], reading[c], outcome[c]>>

(* A call that is under way runs out of steps: none goes back or tries     *)
(* again, not after a failed build and not after a failed backend, and     *)
(* what another call or the clock does leaves it where it is.  It is what  *)
(* makes every call return if only it is scheduled.                        *)
CallsRunOut ==
  [][\A c \in Callers : stage[c] \notin {"idle", "done"} => Advances(c) \/ Stays(c)]_vars

(* Every call comes to an end, whatever the other calls do and however     *)
(* often the backend or a schema build fails.                              *)
EveryCallReturns ==
  \A c \in Callers : stage[c] = "decode" ~> stage[c] = "done"

-----------------------------------------------------------------------------
(* The pipeline implements the gate: every call is judged in one atomic    *)
(* step.  For a call that gets as far as the clock, that step is the       *)
(* reading of the clock, which settles what the two remaining checks say;  *)
(* for a call that ends before, it is the step that raises.                *)

Judgement(c) ==
  ValidateConditions(request[c].message.conditions, EntityId, reading[c], ClockSkew)
  && ValidateSubjectConfirmation(request[c].message, request[c].message.subjects,
       AcsUrl, ClockSkew, AllowIdpInitiated, request[c].expected, reading[c])

gatePhase == [c \in Callers |->
  CASE stage[c] = "idle" -> "idle"
    [] stage[c] \in {"conditions", "confirmation", "done"} -> "judged"
    [] OTHER -> "open"]

gateVerdict == [c \in Callers |->
  IF stage[c] \in {"conditions", "confirmation"} THEN Judgement(c) ELSE outcome[c]]

Gate == INSTANCE ResponseGate WITH phase <- gatePhase, verdict <- gateVerdict

(* Soundness, completeness and the truth of every reported error, in one:  *)
(* see ResponseGate.  It fails if the two time checks can see different    *)
(* instants, if a certificate of the roll-over is never tried, or if an    *)
(* error about signed content is raised for content nobody signed.         *)
ImplementsGate == Gate!Spec

-----------------------------------------------------------------------------
(* What comments and documents of the repository say.                      *)

(* wrapping.py: with the sole-assertion check, exactly one signature in    *)
(* the assertion subtree proves that it is the direct-child enveloped one. *)
SoleSignatureIsEnveloped ==
  \A c \in Callers : stage[c] \in Hardened =>
    IsSingle(EnvelopedSignatures(Document(c), Assertion(c)))

(* errors.py: SignatureError says that a required signature was missing,   *)
(* malformed, or did not verify.  So a response that is found wanting for  *)
(* a missing signature alone is rejected with that error.                  *)
MissingSignatureIsSignatureError ==
  \A c \in Callers :
    /\ stage[c] = "done"
    /\ Readable(request[c].message)
    /\ AssertionConforms(request[c].message, Assertion(c))
    /\ AssertionId(Document(c), Assertion(c)) # "" /\ NamesAreUnique(Document(c))
    /\ Descendants(Document(c), 1, "Assertion") = {Assertion(c)}
    /\ Descendants(Document(c), Assertion(c), "Signature") = {}
    => outcome[c] \in {SignatureError, SchemaBundleError, BackendFailure}

(* wrapping.py, _assertion_schema: "Build (once)". *)
SchemaIsBuiltOnce == builds <= 1

=============================================================================
