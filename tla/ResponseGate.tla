---------------------------- MODULE ResponseGate ----------------------------
(***************************************************************************)
(* What process_response promises: between the call and its return there   *)
(* is one moment at which the response is judged, against the policy and   *)
(* the clock as it is at that moment.  A response is cleared exactly when  *)
(* the policy accepts it then; a rejection names a reason that is true of  *)
(* the response.  Other calls make no difference.                          *)
(***************************************************************************)
EXTENDS Checks

CONSTANTS
  Acceptable(_, _),   \* the policy: which request may be cleared, and when
  Explains(_, _, _),  \* which errors are true of a request, and when
  Callers, Messages, Expectations, Instants, ClockAwareness,
  BackendMayFail, BundleMayFail,
  Blank

VARIABLES now, phase, request, verdict

gateVars == <<now, phase, request, verdict>>

Init ==
  /\ now \in Instants
  /\ phase = [c \in Callers |-> "idle"]
  /\ request = [c \in Callers |-> None]
  /\ verdict = [c \in Callers |-> Passed]

Call(c) ==
  /\ phase[c] = "idle"
  /\ phase' = [phase EXCEPT ![c] = "open"]
  /\ \E m \in Messages, e \in Expectations :
       request' = [request EXCEPT ![c] = [message |-> m, expected |-> e]]
  /\ UNCHANGED <<now, verdict>>

Judge(c) ==
  /\ phase[c] = "open"
  /\ phase' = [phase EXCEPT ![c] = "judged"]
  /\ UNCHANGED <<now, request>>

(* The caller's contract holds: the clock has a zone and the ID is one. *)
Clear(c) ==
  /\ Judge(c)
  /\ TRUE \in ClockAwareness /\ request[c].expected # Blank
  /\ Acceptable(request[c], now)
  /\ verdict' = [verdict EXCEPT ![c] = Passed]

(* With a backend that fails, a good signature may be found wanting. *)
Reject(c) ==
  /\ Judge(c)
  /\ \E error \in SamlErrors :
       /\ \/ ~Acceptable(request[c], now) /\ Explains(error, request[c], now)
          \/ BackendMayFail /\ error = SignatureError
       /\ verdict' = [verdict EXCEPT ![c] = error]

(* The environment or the caller broke its side: this judges no response. *)
Abort(c) ==
  /\ Judge(c)
  /\ \/ /\ FALSE \in ClockAwareness \/ request[c].expected = Blank
        /\ verdict' = [verdict EXCEPT ![c] = ValueError]
     \/ BundleMayFail /\ verdict' = [verdict EXCEPT ![c] = SchemaBundleError]
     \/ BackendMayFail /\ verdict' = [verdict EXCEPT ![c] = BackendFailure]

Return(c) ==
  /\ phase[c] = "judged"
  /\ phase' = [phase EXCEPT ![c] = "idle"]
  /\ request' = [request EXCEPT ![c] = None]
  /\ verdict' = [verdict EXCEPT ![c] = Passed]
  /\ UNCHANGED now

MoveClock ==
  /\ now' \in Instants
  /\ UNCHANGED <<phase, request, verdict>>

Next ==
  \/ MoveClock
  \/ \E c \in Callers : Call(c) \/ Clear(c) \/ Reject(c) \/ Abort(c) \/ Return(c)

Spec == Init /\ [][Next]_gateVars

=============================================================================
