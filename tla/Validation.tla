----------------------------- MODULE Validation -----------------------------
(***************************************************************************)
(* ServiceProvider.process_response and validate_and_extract: the whole    *)
(* pipeline a response goes through, for any number of calls in progress   *)
(* at the same time.                                                       *)
(*                                                                         *)
(* The provider itself is immutable.  Concurrent calls share the schema    *)
(* cache, the clock and the xmlsec1 program; everything else a call knows  *)
(* is its own.  A call is a sequence of steps, one for each function the   *)
(* pipeline calls; a step that raises ends the call with that error.       *)
(***************************************************************************)
EXTENDS Configuration, Response, Wrapping, SchemaCache

CONSTANTS
  Messages,        \* the SAMLResponse values that may arrive
  Expectations,    \* the values callers pass as expected_in_response_to
  Instants,        \* what the clock may show
  ClockAwareness,  \* whether the clock's datetimes carry a zone
  BackendMayFail   \* whether running xmlsec1 may fail

(* What a message is, as far as its parts do not vary freely: its document *)
(* is a tree whose signatures are as module Signatures describes them, and *)
(* the parts of its assertion are as the checks on them describe them.     *)
IsMessage(m) ==
  /\ IsDocument(m.document)
  /\ \A k \in DOMAIN m.document : m.document[k].tag = "Signature" =>
       /\ m.document[k].references \in Seq(OptionalText)
       /\ m.document[k].digests \in Seq(OptionalText)
  /\ m.conditions \in Seq(ConditionsElements)
  /\ m.subjects \in Seq(Seq(Confirmations))

ASSUME MessagesAssumption == \A m \in Messages : IsMessage(m)

ASSUME ValidationAssumption ==
  /\ Instants \subseteq Int
  /\ ClockAwareness \subseteq BOOLEAN
  /\ BackendMayFail \in BOOLEAN
  /\ BundleMayFail \in BOOLEAN

VARIABLES
  now,       \* the time of day; it moves either way, as a host's clock does
  stage,     \* the step each caller is at
  request,   \* the arguments of its call: a message and an expected ID
  cert,      \* the position of the certificate to try next
  reading,   \* what clock.now() returned to the call
  outcome    \* how the call ended; Passed until it has

callVars == <<stage, request, cert, reading, outcome>>
vars == <<now, callVars, cacheVars>>

Stages ==
  {"idle", "decode", "parse", "wrapping", "schema", "building", "conformity",
   "locate", "verify", "clock", "conditions", "confirmation", "done"}

Requests == [message : Messages, expected : Expectations]
Readings == [aware : ClockAwareness, at : Instants]

Document(c)  == request[c].message.document
Assertion(c) == ConsumedAssertion(Document(c))

-----------------------------------------------------------------------------
Init ==
  /\ now \in Instants
  /\ stage = [c \in Callers |-> "idle"]
  /\ request = [c \in Callers |-> None]
  /\ cert = [c \in Callers |-> 1]
  /\ reading = [c \in Callers |-> None]
  /\ outcome = [c \in Callers |-> Passed]
  /\ CacheInit

(* The call goes on to the next step when check passes, and ends with the  *)
(* error it raises otherwise.                                              *)
Continue(c, check, next) ==
  /\ stage' = [stage EXCEPT ![c] = IF check = Passed THEN next ELSE "done"]
  /\ outcome' = [outcome EXCEPT ![c] = check]

Step(c, from, check, next) ==
  /\ stage[c] = from
  /\ Continue(c, check, next)

-----------------------------------------------------------------------------
(* A caller passes a SAMLResponse value to process_response. *)
Call(c) ==
  /\ stage[c] = "idle"
  /\ stage' = [stage EXCEPT ![c] = "decode"]
  /\ \E r \in Requests : request' = [request EXCEPT ![c] = r]
  /\ UNCHANGED <<now, cert, reading, outcome, cacheVars>>

Decode(c) ==
  /\ Step(c, "decode", DecodeResponse(request[c].message.transport), "parse")
  /\ UNCHANGED <<now, request, cert, reading, cacheVars>>

Parse(c) ==
  /\ Step(c, "parse", ParseResponse(request[c].message), "wrapping")
  /\ UNCHANGED <<now, request, cert, reading, cacheVars>>

Harden(c) ==
  /\ Step(c, "wrapping", RejectMisplacedElements(Document(c), Assertion(c)), "schema")
  /\ UNCHANGED <<now, request, cert, reading, cacheVars>>

(* The schema check: look the schema up, build it on a miss, validate.     *)
LookUpSchema(c) ==
  /\ stage[c] = "schema"
  /\ \/ Hit(c) /\ Continue(c, Passed, "conformity")
     \/ Miss(c) /\ Continue(c, Passed, "building")
  /\ UNCHANGED <<now, request, cert, reading>>

(* Mutant: a caller whose build failed goes back and tries again. *)
BuildSchemaAgain(c) ==
  /\ stage[c] = "building"
  /\ \/ Built(c) /\ Continue(c, Passed, "conformity")
     \/ BuildFailed(c) /\ Continue(c, Passed, "schema")
  /\ UNCHANGED <<now, request, cert, reading>>

BuildSchema(c) ==
  /\ stage[c] = "building"
  /\ \/ Built(c) /\ Continue(c, Passed, "conformity")
     \/ BuildFailed(c) /\ Continue(c, SchemaBundleError, "conformity")
  /\ UNCHANGED <<now, request, cert, reading>>

Conform(c) ==
  /\ Step(c, "conformity",
          RejectSchemaInvalidAssertion(request[c].message, Assertion(c)), "locate")
  /\ UNCHANGED <<now, request, cert, reading, cacheVars>>

Locate(c) ==
  /\ Step(c, "locate", SignatureLooksRight(Document(c), Assertion(c)), "verify")
  /\ UNCHANGED <<now, request, cert, reading, cacheVars>>

-----------------------------------------------------------------------------
(* One turn of the loop over the certificates.  A backend that crashes or  *)
(* cannot parse the message has not verified it, and the loop goes on.     *)
TryCertificate(c) ==
  /\ stage[c] = "verify"
  /\ cert[c] <= Len(SigningCertificates)
  /\ \/ /\ BackendVerifies(Document(c), AssertionId(Document(c), Assertion(c)),
                           SigningCertificates[cert[c]])
        /\ Continue(c, Passed, "clock")
        /\ UNCHANGED cert
     \/ /\ \/ BackendMayFail
           \/ ~BackendVerifies(Document(c), AssertionId(Document(c), Assertion(c)),
                               SigningCertificates[cert[c]])
        /\ cert' = [cert EXCEPT ![c] = @ + 1]
        /\ UNCHANGED <<stage, outcome>>
  /\ UNCHANGED <<now, request, reading, cacheVars>>

(* Mutant: nothing is raised when the loop runs out. *)
FallThroughCertificates(c) ==
  /\ cert[c] > Len(SigningCertificates)
  /\ Step(c, "verify", Passed, "clock")
  /\ UNCHANGED <<now, request, cert, reading, cacheVars>>

(* No certificate is left. *)
ExhaustCertificates(c) ==
  /\ cert[c] > Len(SigningCertificates)
  /\ Step(c, "verify", SignatureError, "clock")
  /\ UNCHANGED <<now, request, cert, reading, cacheVars>>

(* The xmlsec1 program is missing or cannot be started, or the file for    *)
(* the certificate cannot be written: an error the loop does not catch.    *)
FailBackend(c) ==
  /\ BackendMayFail
  /\ cert[c] <= Len(SigningCertificates)
  /\ Step(c, "verify", BackendFailure, "clock")
  /\ UNCHANGED <<now, request, cert, reading, cacheVars>>

-----------------------------------------------------------------------------
(* Mutant: the reading is kept on the provider, which all calls share. *)
ReadSharedClock(c) ==
  /\ Step(c, "clock", Passed, "conditions")
  /\ \E aware \in ClockAwareness :
       reading' = [x \in Callers |-> [aware |-> aware, at |-> now]]
  /\ UNCHANGED <<now, request, cert, cacheVars>>

(* clock.now(), once for both of the checks that follow *)
ReadClock(c) ==
  /\ Step(c, "clock", Passed, "conditions")
  /\ \E aware \in ClockAwareness :
       reading' = [reading EXCEPT ![c] = [aware |-> aware, at |-> now]]
  /\ UNCHANGED <<now, request, cert, cacheVars>>

CheckConditions(c) ==
  /\ Step(c, "conditions",
          ValidateConditions(request[c].message.conditions, EntityId, reading[c], ClockSkew),
          "confirmation")
  /\ UNCHANGED <<now, request, cert, reading, cacheVars>>

(* Mutant: the confirmation check reads the clock for itself. *)
CheckConfirmationAnew(c) ==
  /\ Step(c, "confirmation",
          ValidateSubjectConfirmation(request[c].message, request[c].message.subjects,
            AcsUrl, ClockSkew, AllowIdpInitiated, request[c].expected,
            [reading[c] EXCEPT !.at = now]),
          "done")
  /\ UNCHANGED <<now, request, cert, reading, cacheVars>>

(* After this check the pipeline raises NotImplementedError: the outcome   *)
(* Passed stands for having come that far.                                 *)
CheckConfirmation(c) ==
  /\ Step(c, "confirmation",
          ValidateSubjectConfirmation(request[c].message, request[c].message.subjects,
            AcsUrl, ClockSkew, AllowIdpInitiated, request[c].expected, reading[c]),
          "done")
  /\ UNCHANGED <<now, request, cert, reading, cacheVars>>

(* The caller has its answer, and may call again. *)
Return(c) ==
  /\ stage[c] = "done"
  /\ stage' = [stage EXCEPT ![c] = "idle"]
  /\ request' = [request EXCEPT ![c] = None]
  /\ cert' = [cert EXCEPT ![c] = 1]
  /\ reading' = [reading EXCEPT ![c] = None]
  /\ outcome' = [outcome EXCEPT ![c] = Passed]
  /\ UNCHANGED <<now, cacheVars>>

MoveClock ==
  /\ now' \in Instants \ {now}
  /\ UNCHANGED <<callVars, cacheVars>>

-----------------------------------------------------------------------------
Proceed(c) ==
  \/ Decode(c) \/ Parse(c) \/ Harden(c)
  \/ LookUpSchema(c) \/ BuildSchema(c) \/ Conform(c)
  \/ Locate(c) \/ TryCertificate(c) \/ ExhaustCertificates(c) \/ FailBackend(c)
  \/ ReadClock(c) \/ CheckConditions(c) \/ CheckConfirmation(c)
  \/ Return(c)

Next ==
  \/ MoveClock
  \/ \E c \in Callers : Call(c) \/ Proceed(c)

Spec == Init /\ [][Next]_vars

(* A thread that is running a call is scheduled until the call returns.    *)
FairSpec == Spec /\ \A c \in Callers : WF_vars(Proceed(c))

-----------------------------------------------------------------------------
TypeOK ==
  /\ now \in Instants
  /\ stage \in [Callers -> Stages]
  /\ request \in [Callers -> Requests \union {None}]
  /\ cert \in [Callers -> 1..(Len(SigningCertificates) + 1)]
  /\ reading \in [Callers -> Readings \union {None}]
  /\ outcome \in [Callers -> Outcomes]
  /\ CacheTypeOK

=============================================================================
