# A specification of apron-saml

apron-saml is a library for the service-provider side of SAML 2.0. It holds no
state, opens no socket and persists nothing: a program constructs a
`ServiceProvider` and calls it, from as many threads as it likes. Its core is
`process_response`: a value posted by a browser goes in, and either every check
passed or one error comes out. Around it are construction (settings and IdP
metadata become a provider), request building, a replay store, and the program
that ties requests to responses. This directory models all of them in TLA+,
checks them with TLC, and proves their main properties with TLAPS.

Paths below are relative to `src/apron_saml/` of the repository.

## 1. Inventory

| Component | State | Operations | Interacts with |
|---|---|---|---|
| `service_provider.py` `ServiceProvider` | config, IdP descriptor, clock, store: all bound at construction | `__init__`, `process_response`; `build_authn_request` and `generate_metadata` raise `NotImplementedError` | calls everything below |
| `validation.py` pipeline | local to a call | `validate_and_extract` | the steps below, in order; reads the clock once |
| `response.py` | none | `decode_response`, `parse_response` | builds the `ParsedResponse` all steps share |
| `wrapping.py` | the schema cache, shared by the process | `reject_signature_wrapping` | the bundled schema |
| `signatures.py` | a temporary file per certificate | `verify_assertion_signature` | pysaml2, and through it the `xmlsec1` program |
| `conditions.py`, `subject_confirmation.py`, `timestamps.py` | none | one validation function each, the window predicates | the one clock reading |
| `models.py` `SamlConfig`, `IdPDescriptor` | immutable | construction | read by all steps |
| `models.py` `AuthnRequest`, `requests.py` | none | `build_authn_request`, `redirect_url`, `post_form` | the caller keeps the request ID |
| `metadata.py` | none | `parse_idp_metadata`, `generate_sp_metadata` | `ServiceProvider.__init__` |
| `stores.py`, `protocols.py` | `MemoryAssertionStore` keeps every ID it is given | `add`, `contains`; `Clock.now` | nothing calls the store yet |
| `schemas/` | files | read when the schema is built | `wrapping.py` |

What is hard here is not the amount of state but how the parts fit:

- **Two readers of one document.** The library finds the assertion by position
  in its own tree; `xmlsec1` parses the document again and finds an element by
  an ID. That both end at the same element follows from no single check: it
  takes the sole-assertion check, the ID check, two different signature checks,
  the Reference check and the schema.
- **Checks that cover for each other.** The digest allow-list never sees a
  Reference without a `DigestMethod`; the schema check of another module does.
- **Time.** Two windows with mirrored edge cases, a skew, attributes finer than
  the clock, and a clock that is read once between steps that take time.
- **Order.** The position checks come before there is any trust, the content
  checks after; which error is reported depends on the order alone.
- **Concurrency and failure.** Calls share a cache that is filled with no lock,
  and an external program that may crash, reject or be missing.
- **The library is half of a protocol.** That a login happens once, in the right
  browser, is up to the request ID: built by one module, kept and discarded by
  the program, sent back over a network that repeats and misdirects, and checked
  by another module in two places, one of them unsigned.
- **Construction decides what later checks may assume.** Identifiers are
  compared verbatim, so white space must be gone; the trusted keys are collected
  over roles, uses and chains; one endpoint is chosen out of many.

What makes each component correct: the pipeline clears a response exactly when
a policy over the whole response accepts it at the instant the clock was read,
and an error is true of the response; after hardening an ID leads to the
consumed assertion alone; the loop over the certificates tries each and clears
nothing when all fail; the cache is built a bounded number of times; every call
returns. For the parts outside the pipeline: construction ends with a known
error or yields what processing assumes, with the best endpoint and exactly the
advertised trust; a request arrives as it was built and its answer is accepted;
at most one login comes of it; the store never forgets an assertion that is
still valid.

The hazards, each with its line and its properties, are listed in
`PROJECT.json`.

## 2. Modules

```
Checks                outcomes; "Require" and the sequencing operator &&
  Timestamps            timestamps.py
    Conditions            conditions.py
    SubjectConfirmation   subject_confirmation.py
  Models                models.py: constructors, redirect_url, post_form
    Metadata              metadata.py
    Requests              requests.py
    Configuration         what a provider is bound to, as constants
XmlDocuments          element trees
  Response              response.py
  Signatures            signatures.py, and the backend as the code uses it
Wrapping              wrapping.py's checks and the schema's demands
SchemaCache           functools.cache around _assertion_schema

Validation            process_response: the state machine that composes them
AcceptancePolicy      what may be accepted, with no order and no parsing
ResponseGate          abstract specification: every call is judged atomically
ValidationProperties  the properties, and the refinement of ResponseGate

Provider              from settings to a provider to a request
ProviderProperties    what construction and request building must achieve

LoginFlow             sessions, IdP, network and concurrent calls
OneLogin              abstract specification: one login per request
LoginFlowProperties   the properties, and the refinement of OneLogin

AssertionStore        abstract specification: the protocol of protocols.py
Stores                MemoryAssertionStore, and the refinement

MCValidation, MCProvider, MCLogin    values for TLC
SequenceFacts         what flattening and selecting compute, proved
TimestampsProofs, PolicyProofs, ValidationProofs, GateProofs,
ProviderProofs, LoginProofs, StoreProofs
```

The three state machines are joined by assumptions that are proved where they
come from. `Validation` runs with a `Configuration`; that every provider that is
constructed is one is `ConstructionIsSound` of `ProviderProofs`. `LoginFlow` lets
a call judge in one step; that calls of `Validation` may be seen so is
`PipelineImplementsGate` of `GateProofs`. `Requests` and the checks on content
and addressing are the same modules in all of them.

**A function that checks is an operator** whose value is `Passed` or the error
it raises, so the order of checks is the order of `&&`.

**`Validation` is the program.** Each caller has a `stage`, the `request` it
passed, the position `cert` of the next certificate, the clock `reading` and the
`outcome`. There is one action per statement of the pipeline, because between
any two statements another thread may run and the time of day may move:

| Action | Code |
|---|---|
| `Call`, `Decode` | `process_response`, `decode_response` |
| `Parse` | `parse_response` |
| `Harden` | `reject_signature_wrapping`, the three structural checks |
| `LookUpSchema`, `BuildSchema` | `_assertion_schema()` and its cache: a hit, a miss, a build or a failed build |
| `Conform` | the schema validation in `_reject_schema_invalid_assertion` |
| `Locate` | `_locate_assertion_signature`, `_require_strong_algorithms` |
| `TryCertificate`, `ExhaustCertificates`, `FailBackend` | the loop in `verify_assertion_signature`, its final `raise`, and errors it does not catch |
| `ReadClock` | `now = clock.now()` |
| `CheckConditions`, `CheckConfirmation` | the last two checks |
| `Return` | the exception reaches the caller, which may call again |
| `MoveClock` | the time of day moves, forward or back |

The pipeline ends in `raise NotImplementedError` after its last check; the
outcome `Passed` of a call that is done stands for having come that far.

**Documents** are sequences of elements in document order, each with the
position of the last element of its subtree, its ID-like attributes and its
tag. That is enough for `iter`, `findall`, child and descendant, and for every
arrangement of assertions, signatures and IDs.

**The backend** is external. An ID resolves to *any* element that bears it as
`ID`, `Id` or `xml:id`, since which of them `xmlsec1` honours depends on its
version; it then takes the first signature below that element and requires each
reference to resolve to content the signature seals. Nothing assumes that a
signature seals the assertion: a signature that covers some other element is
what the wrapping checks are for.

**Timestamps** are written instants, `SubMicro` of them to a microsecond, and a
form: absent, a plain instant, one only the schema or only Python reads, one
with no zone, and garbage.

**`Provider`** is a program that makes a `SamlConfig`, constructs a
`ServiceProvider` and has a request built:

| Action | Code |
|---|---|
| `Configure` | `SamlConfig(...)` with `__post_init__`: the object exists only if nothing is raised |
| `Construct` | `ServiceProvider.__init__`: `parse_idp_metadata`, `IdPDescriptor`, at least one certificate |
| `BuildRequest` | `build_authn_request` with a clock reading that may lack a zone; the host's own clock dates a request whose timestamp is exactly 0 |
| `StartAgain` | external: the program is done or corrects its settings |

URLs are the kinds `urlparse` tells apart, with a query of parameters; metadata
is a sequence of roles with endpoints and keys. Endpoint choice and certificate
collection are operators of `Metadata` in the order of the code's loops.

**`LoginFlow`** is logins from end to end. The program is external, and keeps the
contract stated at `process_response` (service_provider.py:64): the expected ID
comes from the agent's own session, and is discarded when a response consumes
it. `LoginFlow` makes that precise: discarding is one atomic step with letting
the agent in, and only a response that passed takes it.

| Action | Stands for |
|---|---|
| `StartLogin` | `build_authn_request`; the program keeps the ID in the session |
| `Answer`, `Volunteer` | the IdP answers a request as it asks, or sends a response nobody asked for |
| `Deliver` | any agent posts any response sent so far, any number of times; the unsigned `InResponseTo` may have been replaced; the call names a request of the session, or none |
| `Judge` | `process_response`: the clock and the two content checks |
| `LogIn` | the response passed and its request is still outstanding: discard and let in |
| `Close` | an error, or a request another call has consumed |
| `MoveClock` | the time of day moves, forward or back |

A response that is lost is one never delivered. Every assertion is one the IdP
signed: what happens to others is the subject of `Validation`.

**`Stores`** has one action for `add` and one for `contains`, taken by any client
in any order, and time that goes forward. `AssertionStore` is the protocol: an
ID recorded until some time is reported until then; one never recorded is not;
in between, an implementation may have pruned it.

**`AcceptancePolicy`** says which responses are acceptable, at which instant
and for which request, as one formula over the message. **`ResponseGate`** is
the abstract machine: a call opens, is judged in *one* step against the clock as
it is then, and returns. The refinement mapping puts that step at `ReadClock`
for calls that come so far, and at the step that raises for the others.

## 3. Properties

- `ClearedIsAcceptable`: what passes every step is acceptable by the policy at
  the reading of the clock.
- `EvidenceIsKept`: what a call's past steps established is still true of its
  message, document and reading. It is the inductive invariant of the proofs.
- `ImplementsGate` (`Gate!Spec`): soundness, completeness and truthful errors
  together. A response is cleared *exactly* when acceptable; an error other than
  `MalformedResponseError` is one the response deserves, and the errors about
  signed content are raised only for content a trusted key signed.
- `PositionIntegrity`: from the end of the wrapping checks on, the consumed
  assertion's ID resolves to that assertion only, with one signature in it.
- `BuildsAreBounded`: never more schema builds than threads.
- `CallsRunOut`: each step of a call brings it nearer its end, after a failure
  too, and what other calls, the clock and the cache do leaves it where it is.
- `EveryCallReturns`: liveness, for which that is the measure.
- `TypeOK` also says that outcomes are known errors: no `TypeError` from
  comparing a naive with an aware datetime.

Of `Provider`:

- `ProviderIsUsable`: a provider that exists is bound to stripped identifiers,
  to web URLs, and to everything `ConfigurationAssumption` says.
- `BestEndpointIsChosen`: the endpoint is advertised, and no usable one comes
  before it, by binding first and document order second, across roles.
- `TrustIsWhatTheRolesAdvertise`: the trusted certificates are those of the
  roles' signing keys, all of them, once, in order, and none from elsewhere.
- `RefusalsAreDeserved`: an entity that can be read, with a usable endpoint and
  a signing certificate in any of its roles, is never refused with a
  `MetadataError`, whatever stands beside them; and a `ValueError` comes only of
  a location that `urlparse` cannot read or that carries credentials.
- `RequestArrivesAsBuilt`: what the URL and the form carry is the request whose
  ID the program keeps, with its relay state, addressed where it is sent and in
  agreement with the SP's metadata; and the destination's own parameters are
  still there, blank and undecodable values aside (`parse_qsl` drops the ones
  and changes the others). The library's fields are the last of their name. In
  the form, and wherever the destination's query leaves the name free, they are
  the only ones. A destination that carries a `SAMLRequest` of its own keeps it,
  in front of the library's: an IdP that reads the first field of a name would
  read that one, and nothing in the code prevents it.
- `RequestIsDatedByItsClock`: a request is dated within the second its clock
  showed, before and after the epoch and wherever the host is. Two readings are
  left out, because the code does not do so. A reading with no zone is shifted
  by the host's offset. And a reading of the epoch itself gives a timestamp of
  0, which pysaml2's `instant` takes for none: it stamps the host's time, where
  requests.py:31 calls the injected clock the time source. The model does the
  same, with `HostTimes` for what the host's clock may show.

Of `LoginFlow`:

- `AtMostOneLogin` (`Once!Spec`): at most one login comes of a request, in the
  agent it was built for, of a user the IdP vouched for in answer to it.
- `PassedAnswersItsRequest`: what that takes of the library. It also says that
  an unsolicited response passes only where that is allowed.
- `AnswersAreRefusedForTimeOnly`: request building, metadata and validation
  agree, so that an IdP that does as it is asked is refused for time alone.
- `GenuineAnswersLogIn`: liveness; a good answer that has been posted leads to a
  login, whatever else is processed with it.

Of `Stores`: `ImplementsAssertionStore`, and `SeenForGood`: no client that looks
after an ID was reported as seen finds it unseen. Two that look before either
adds both find it unseen; `contains` and `add` being two calls, no store can
prevent that, and a replay check built on them will have to live with it.

Five runs show where the code and what is said of it part:

| Property | Said at | What happens |
|---|---|---|
| `ConstructionRaisesMetadataError` | errors.py:9, metadata.py:53, ADR 0002:193 | an endpoint with userinfo, or one `urlparse` cannot read, makes construction raise a bare `ValueError`, even beside a usable endpoint |
| `DestinationQueryIsKept` | models.py:121, test_authn_request.py:52 | a parameter with a blank value is lost from the destination's query, and one whose bytes are not UTF-8 comes back changed |
| `SoleSignatureIsEnveloped` | wrapping.py:87 | a sole signature may lie deeper in the assertion: the structural checks look for it in the whole subtree, and the schema has open slots that let it on; `signatures.py` rejects it later |
| `MissingSignatureIsSignatureError` | errors.py:27, ADR 0003:25 | a missing signature is a `MalformedResponseError` |
| `SchemaIsBuiltOnce` | wrapping.py:111, ADR 0004:31 | threads that meet a cold cache each build the schema |

None lets an unacceptable response through, as the other properties show; they
are about what a reader of the text, or a caller that catches `SamlError`, would
rely on.

## 4. Runs and bounds

In the runs of `MCValidation` a microsecond has two written instants, the skew
is one, and the good window is from 2 to 3, so it is open at the readings 1, 2
and 3: clocks 0 to 4 meet both outsides, both edges with the skew, and the
middle.

| Run | What varies | Why it is enough |
|---|---|---|
| `messages` | one caller; about 150 messages odd in one part, and every combination of bounds and request IDs; clocks 0..4, aware or naive; expected ID present, absent, blank | every branch of every check decides some message, and every pair of windows meets every position of the clock before and after `ReadClock` |
| `documents` | one caller; every tree of four elements with root `Response`, three tags, three sets of IDs and any element sealed; and the documents of `messages` | an ambiguity needs the root, the assertion, a signature and one more element; the five-element documents place the fourth element inside and outside at once |
| `concurrent` | two callers, four messages that end in different places, two certificates; backend and bundle may fail at every step; clocks 3 and 4, either side of an expiry; `FairSpec` | calls interact only through the cache and the clock, pairwise; with two certificates the loop succeeds first, second and never |
| `provider` | settings odd in one field; metadata odd in one part; every arrangement of three endpoints (six kinds) over two roles, of two endpoints with one of an odd kind, and of three keys (four kinds) over two roles; destinations with a query, some with a `SAMLRequest` or `RelayState` of their own, blank or not; readings with and without a zone on both sides of a second and of the epoch, and the epoch, for which the host's clock is read, at one of two times neither within that second; a host off UTC by a second and a half | a choice by preference and order needs two of a binding, one of the other and a role boundary; removing repetitions needs a repetition within a key and across roles |
| `login` | two agents, users, requests and threads; two responses in all; clocks 0 and 1; unsolicited responses allowed | a race is between two calls for one request, a mix-up between two requests or agents, a repetition is one response delivered to both threads; two responses let one request be answered twice or both once |
| `login_live` | two agents, one request, two threads, two responses, `FairSpec` | the genuine answer races a second one, delivered anywhere |
| `stores` | two clients, two IDs, three times | an expiry before, at and after the time of a look-up; an ID added again; an answer to one client followed by one to the other |
| the five violations | the smallest instance that shows the divergence | |

The bounds are in the `.cfg` files (`MaxInflatedBytes` 2 stands for 5 MiB: a
payload is at the cap or above it) and in the sets of the MC modules. In
`Validation`, `Provider` and `Stores` no action has a bound of its own: callers
return and call again, so the state space is finite with no artificial stop.
`LoginFlow` has one: `MaxResponses`, in the guard of `Send`, on how many
responses the IdP makes; delivery is not bounded. Deadlock is checked
everywhere. `login` uses symmetry of agents, users, requests and threads,
which the specification treats alike; `login_live`, which checks liveness, uses
none.

**Fairness.** `FairSpec` assumes weak fairness of `Proceed(c)`, for each caller:
a thread that is inside a call is scheduled until the call returns. The code has
no lock and waits for nobody but its own `xmlsec1` process, so each step is
continuously enabled until it is taken. Nothing is assumed of `Call` (a program
need not call), of `MoveClock`, or of the choice between success and failure of
the backend and of a build: liveness holds although they may fail for ever.
`FairSpec` of `LoginFlow` is the same at its level: a call that has been made is
judged and its answer acted on. Nothing is assumed of agents, IdP, network or
clock, so the property starts where the answer has been posted.

## 5. Proofs

`TimestampsProofs` relates the code's arithmetic to the policy's.
`has_expired` compares differences so as not to overflow, and on truncated
values; `ExpiryAsWritten` and `StartAsWritten` show that this is the comparison
of the shifted bound as it was written.

`PolicyProofs` has no behaviours: it proves that the checks, all passed for one
message and one reading, imply `Acceptable`. The steps are: decoding and parsing
make it `Readable`; the three structural checks make it `Unambiguous`
(`HardenedDocumentIsUnambiguous`); then an element the backend resolves is the
assertion, its first signature is the child the code located, and its digest is
a strong one because the schema demands one per Reference
(`VerifiedIsAuthentic`); the two content checks give `ConditionsHold` and
`SubjectConfirmed`. `ChecksEstablishPolicy` joins them.

`ValidationProofs` is about `Spec`. `ClearedIsAcceptable` is not inductive: it
mentions only the last state of a call. `Evidence(c)` strengthens it with what
each stage has behind it. A step of `c` establishes one new conjunct
(`EvidenceStep`), and keeps the others because they are about variables of `c`
that only `Call` and `Return` replace; a step of another caller leaves them all
(`EvidenceIsLocal`, `OthersUntouched`). That is the precise sense in which calls
are independent. `PositionsAreSafe` follows from the same invariant.
`BuildsBounded` needs only that builds start while nothing is cached: then
`builds` is 0 and `building` is a subset of `Callers`.
`CallsAdvance` proves `CallsRunOut` from the type invariant, with the number of
steps and certificates before a call as the measure (`ContinueAdvances`,
`TryAdvances`, and `OthersUntouched` again). It is the part of
`EveryCallReturns` that needs no fairness: a call takes at most eleven steps
and one for each certificate, whatever fails on the way.

`GateProofs` proves `Spec => Gate!Spec`, the converse direction included. For
each check there is a lemma that what fails it is not acceptable and that the
error is true of it (`UndecodableIsUnreadable` to `FailedSubjectIsExplained`).
Two facts need more than the message: that the certificate loop can run out only
for a message that is not authentic, unless the backend may fail (the invariant
`TriedInVain`: every certificate before the position was tried and does not
verify), and that the verdict is settled when the clock is read
(`ClockStep`, `SettledStep`). `GateInv` joins these with `EvidenceIsKept`.
`GateStep` then maps each action to a step of the gate or to a stutter:
`OtherViews` says that the gate's view of the other calls does not change.
The policy is an operator constant of `ResponseGate`, so that the abstract
specification mentions no check.

`ProviderProofs` proves every property of `Provider` from one invariant,
`ProviderInv`: a config or a provider that exists came of constructors that
raised nothing, an error is the one its metadata led to, and a request was built
by a provider. `ConstructionIsSound` is what `ConfigurationAssumption` rests on.
What is left is about what the code's loops compute, for metadata with any
number of roles, endpoints, keys and certificates:

- the nested loops are a flattening, and `ServicesAreListed` and `TextsAreListed`
  say that it visits every place of the document once, in document order;
- `EndpointIsBest`: the first usable place of the preferred binding comes before
  every other candidate (`UsableIsFound`, `PreferredBinding`);
- `TrustIsAdvertised`: `CollectionKeeps` is the invariant of the collecting loop.
  What has been collected is exactly the texts seen so far, none blank, and of
  any two the earlier one occurs before every occurrence of the later one;
- `RefusalsAreEarned`: the converse of both, `CandidateIsFound` and
  `CertificateIsCollected`, and `LocationRefused` for the `ValueError`;
- `RequestsArrive`: parsing and encoding a query adds no name and keeps what has
  a value (`QueryKeepsNames`); the library's fields stand behind what is left of
  the destination's (`FieldsOfRequest`), so they are the last of their name, and
  the only ones if that is free (`ComeLast`, `LibraryComesLast`);
- `RequestsAreDated`: the date is division with a floor, unless the timestamp
  is 0.

`SequenceFacts` is what these rest on: that the recursions in `FlattenSeq` and
`FoldLeft` are well founded and what they compute. The library's induction
principles take a predicate, which the provers cannot instantiate;
`SetInduction` is induction for a set of natural numbers instead, proved from
the well-foundedness of `<`, and a predicate is given to it as the set of
numbers it holds for.

`LoginProofs` proves every safety property of `LoginFlow`. The inductive
invariant `LoginInv` joins three of them: the type invariant, which says that a
response in a call is one the IdP sent except for its unsigned `InResponseTo`;
`PassedAnswersItsRequest`, which comes of the check of the signed confirmation;
and `AnswersAreRefusedForTimeOnly`. It adds `SessionsFit`, which says how the
program's sets of outstanding requests and sessions fit together; being about
the program alone it is no property of its own, but the refinement needs it. From them a login maps
to `Enter` of `OneLogin`: the request is outstanding, so no login has come of it
and the agent is its holder; the call passed, so the user is one vouched for.

`StoreProofs` proves the refinement of `AssertionStore` from `StoreInv`: the
dictionary holds exactly the IDs that were ever recorded.

The theorems hold for all values of the constants under the assumptions
- `SubMicroAssumption`: a positive number;
- `ConfigurationAssumption`: what `SamlConfig.__post_init__` and
  `ServiceProvider.__init__` ensure (a skew that is not negative, an entity ID
  that is not blank, at least one certificate), and that certificates are a
  tuple;
- `SettingsAssumption`: settings have the fields of the dataclass, with the
  types of its annotations, and metadata is what the parser makes of a document:
  sequences of roles, endpoints, keys and certificates, locations that are URLs
  of some kind;
- `ReadingsAssumption`, `RequestsAssumption`: a clock returns a datetime; a
  second has a positive number of microseconds, and the host some offset and a
  clock that shows whole numbers of them;
- `LoginAssumption`, `StoreAssumption`: times are integers, a lifetime is
  positive, `None` and the blank ID are no request IDs;
- `MessagesAssumption`, `ValidationAssumption`: documents are trees, times are
  integers, flags are Booleans.

`BuildsBounded` also assumes finitely many callers. No bound on messages, on the
size of documents or on callers is used elsewhere.

Model-checked only: `EveryCallReturns` and `GenuineAnswersLogIn`, since liveness
under fairness and `ENABLED` are out of the prover's reach. Every other property
of a run that passes is a theorem.

## 6. Not modelled, and why

- The content of XML text, base64 and DEFLATE beyond what a branch tests; HTML
  escaping in `post_form`; messages and logging of errors: no check depends on
  them.
- The cryptography, and the equivalence of the XML parsers of the library and of
  the backend (ADR 0004 assumes it too). The two parses of the metadata are
  likewise taken to see one document.
- The part of the schema no check depends on, which is one Boolean of a message.
- Replay prevention and the assembly of a `SamlIdentity`: the pipeline raises
  `NotImplementedError` there. When they exist, `Validation` gets their steps,
  `Stores` its caller, and the place to state that an assertion is consumed once
  is a refinement of `OneLogin` for unsolicited responses.
- `ServiceProvider.build_authn_request` and `generate_metadata`, which raise
  `NotImplementedError`; the functions they will call are modelled.
- A program that does not keep the contract of `process_response`: it has no
  promise to check. What breaks is in the mutant of `LogIn`.
