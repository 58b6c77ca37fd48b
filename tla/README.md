# Shield Orchestrator in TLA+

A verification project for DGB Quantum Shield Orchestrator: TLA+ modules
translated from `src/shield_orchestrator` and from one script, TLC configurations
that check them on small instances, and theorems TLAPS checks for every value of
the constants. Paths below and in the modules are relative to
`src/shield_orchestrator`; a path that begins with `docs/`, `scripts/` or
`.github/` is relative to the root of the repository.

## 1. The system

The Orchestrator collects the verdicts of five Shield components (`adn`,
`dqsn`, `guardian_wallet`, `qwg`, `sentinel_ai`) into one receipt for
AdamantineOS. It has two generations side by side.

**v3** (`v3/`, `bridges/`) is a synchronous function: validate the request, call
five bridges in a fixed order, each of which calls a component engine and
translates the answer into a verdict, build the v3.2 receipt, report to a sink
that must not influence the outcome, and answer. A failure becomes `DENY`, unless
building that answer fails as well.

**v4** (`v4/`) signs. Each component verdict and the receipt carry a bundle of
two or three signatures over a domain-separated hash. A verifier checks the six
bundles against a trusted key registry, a signature policy, the verifier's own
context, request and time, and writes audit evidence to a durable sink before
anything is returned.

| Component | State it keeps | Operations | Interacts with |
|---|---|---|---|
| Audited boundary, `v4/verification_audit.py` | per call: the copy of the receipt, the plan, the buffered events, the work counter, two verifier caches | `verify_v4_receipt_with_audit` | caller's object, two signature backends (callbacks), audit sink |
| Work budget, `v4/work_budget.py` | `VerificationWorkCounter` | snapshot, bundle, plan and canonical-size budgets | boundary |
| Key registry, `v4/key_registry.py` | none (a frozen value) | load, floor, `find_key` | bundle verification |
| Signature bundle and policy, `v4/signature_bundle.py`, `v4/crypto_algorithms.py` | none | build, verify | registry, backend |
| Component verdicts, `v4/component_verdicts.py` | none | payload, envelope, set verification | bundle |
| Receipt contract, `v4/contracts/v4_receipt.py` | none | build, hash, validate | bundle, verdicts |
| Canonical JSON, `v4/canonical_json.py` | none | canonical form, domain hashes | everything in v4 |
| v4 producer, `v4/orchestrate.py` | none | verify verdicts, build and sign a receipt | contract, registry |
| Real crypto adapter, `v4/real_crypto_backend.py`, `v4/oqs_*.py` | loaded native library | sign, verify | native library, private key resolver |
| v3 orchestrator, `v3/orchestrate.py` | trace and verdict list of one call; reads a request whose payload others may hold | `orchestrate` | bridges, receipt, sink |
| v3 bridges, `bridges/` | none | `evaluate_v3`, `report_v3` | engines |
| v3.2 receipt, `v3/contracts/v3_2_receipt.py` | none | build, validate, classify | v3 orchestrator |
| Native proof guard, `scripts/assert_real_oqs_junit_not_skipped.py` | none | accept or refuse a JUnit report | test job, workflow |
| Retired v2 pipeline, config, errors, benchmark | none | raise, hold values, measure | none |

What is hard to get right here, and hard to test:

* **Evidence before verdict.** The receipt or the rejection leaves only after
  the sink acknowledged exactly this call's batch; the sink may commit and then
  fail, or answer with the acknowledgement of a concurrent call.
* **One receipt, three walks.** Preparation, rehearsal and revalidation walk the
  same bundles, with callbacks in between, through caches keyed by entry
  identity. Each walk repeats checks of the others, and no backend may be
  reached before every check that needs no cryptography has passed.
* **The caller's object.** It is copied recursively while other threads may
  change it, and everything later must speak of the copy.
* **Shared verdicts.** The producer copies only the top level of a verdict. The
  bundles in its receipt are still the caller's objects while it hashes, signs
  and validates, and afterwards.
* **Registry and clock move on.** A verdict is signed, put into a receipt and
  judged at three moments, with a rotation or the end of a window in between.
* **One message for six fields.** The bytes a real signature covers join fields
  with line breaks, and a key id may contain one; the entry they are read from
  and the private key behind a reference may both change on the way.
* **A green job is evidence.** A job whose native tests are skipped, lost or
  failed must not pass as a proof that they ran.
* **Exceptions as control flow.** Reasons come from words in messages, and one
  exception (the work counter's) is raised where nothing handles it.
* **v3: a payload shared with engines.** Each bridge reads request id and context
  hash again from a request whose payload the engines before it were handed.

The properties that make each component correct are in section 3; `PROJECT.json`
lists the hazards with the line where each bites.

## 2. Modules

| Module | Models | Role |
|---|---|---|
| `VerificationErrors` | `verification_audit.py:80-112, 461-492` | an error is the set of classifier words in its message; `FirstError` is "the first exception wins"; `ClassifyError`, `PreflightReason` |
| `KeyRegistry` | `key_registry.py`, `verification_audit.py:525-577` | `RegistryError`, `LoadRegistryError`, `FloorError`, `FindKeyError` |
| `SignatureBundle` | `signature_bundle.py:70-171`, `crypto_algorithms.py` | `EntryError`, `VerifyBundleError`: the two loops of `verify_signature_bundle` |
| `V4Receipt` | `component_verdicts.py`, `contracts/v4_receipt.py`, `canonical_json.py:78-88` | payloads, hashes, semantics and the two envelope validators |
| `AuditChecks` | `verification_audit.py:461-764, 910-1198`, `work_budget.py` | the stages of the boundary as operators: plan and budgets, binding, preparation, cache, rehearsal, revalidation |
| `VerificationAudit` | `verification_audit.py`, `work_budget.py` | the audited boundary as a state machine over those operators |
| `AuditedVerdict` | none: what the boundary promises | abstract specification |
| `AuditFixtures` | none: values for TLC | genuine receipts and copies with one thing wrong, made as the tests make theirs |
| `MCVerificationAudit`, `MCAuditCalls` | none | TLC instances |
| `V4Producer` | `v4/orchestrate.py`, the builders of `contracts/v4_receipt.py`, `component_verdicts.py` and `signature_bundle.py` | producer, signing components, registry, clock and boundary composed |
| `MCV4Producer` | none | TLC instance |
| `RealCryptoBackend` | `v4/real_crypto_backend.py`, `v4/oqs_mldsa_backend.py`, `v4/oqs_falcon_backend.py` | signing and verifying calls as a state machine |
| `MCRealCryptoBackend` | none | TLC instance |
| `ProofReportGuard` | `scripts/assert_real_oqs_junit_not_skipped.py` | a test job, its report, what may befall it, and the guard |
| `MCProofReportGuard` | none | TLC instance |
| `V3Receipt` | `v3/contracts/v3_2_receipt.py` | `ValidVerdict`, `Classify`, `Buildable`, `Receipt`, `ValidReceipt` |
| `V3Orchestrator` | `v3/orchestrate.py`, `bridges/`, `v3/context_hash.py` | one request as a state machine |
| `FailClosed` | none: what v3 promises | abstract specification |
| `MCV3Orchestrator` | none | TLC instances of v3 |
| `VerificationErrorsProofs`, `AuditChecksProofs`, `VerificationAuditProofs`, `AuditSoundnessProofs`, `V4ProducerProofs`, `RealCryptoBackendProofs`, `V3OrchestratorProofs`, `ProofReportGuardProofs` | none | theorems |

`AuditChecks` extends the operators above it, and both `VerificationAudit` and
`V4Producer` extend `AuditChecks`: what the boundary checks is written once, and
the lemmas of `AuditChecksProofs` about it serve the theorems of both.
`V3Orchestrator` extends `V3Receipt`. The two generations share no code and no
state, so their state machines are not composed.

How the v4 modules divide the system: `RealCryptoBackend` shows what an answer
`True` of a backend means; `V4Producer` assumes just that of signatures (an entry
verifies when this very entry was made by the signer of the role), and takes the
boundary as the one decision `Accepts`; `VerificationAudit` shows that the
boundary makes that decision step by step (`DecidesAsOne`), with any answers, and
leaves evidence.

Every v4 check is written as the error it raises, so that the model decides with
which reason a receipt is rejected and not only whether it is. The operators
follow the order of the code's checks. Values are abstracted to what the checks
tell apart: a hash is an injective function of its domain and payload (values
stand for their canonical form), a signature is bytes or blank because the
backend's answer is chosen freely, a profile name is exact, padded, padded
beyond an audit record, or unsupported, and groups of layout checks with one
outcome are one class of value (`json`, `form`, `header`, `bytes`).

### `VerificationAudit`: state and actions

| Variable | Code |
|---|---|
| `caller`, `mutations` | the dict in the caller's hands; how often it changed |
| `pc[c]` | where in the function call `c` is |
| `args[c]` | the trusted arguments |
| `receipt[c]` | the snapshot (line 911) |
| `remaining[c]` | the plans `_run_planned_callbacks` has not attempted |
| `work[c]` | `VerificationWorkCounter` |
| `events[c]`, `reason[c]` | the buffered events, the reason about to be reported |
| `durable`, `ack[c]` | batches the sink holds; its answer to the call |
| `released[c]` | the receipt returned |
| `asked[c]`, `held[c]` | history only: callbacks made, with the answers; what the object held while the call copied it |

| Action | Code |
|---|---|
| `RefuseArguments` | 886-896: malformed trusted arguments raise, no batch |
| `Begin`, `Snapshot` | 898-924: the copy starts and ends; it may straddle changes of the object; then field, bundle, registry and floor checks |
| `Bind` | 926-953: request, schema, context, policy against the verifier's own |
| `Prepare` | 955-1074: identities, freshness, keys, plan, semantics, results, sizes, hashes |
| `Rehearse` | 1086-1134: both validators over a cache in which every callback has succeeded |
| `Callback` | 792-827: one backend call in plan order; the first that is not `True` ends the plan |
| `CallbacksEnd` | 804, 1136: plan exhausted, or the counter's unhandled exception |
| `Revalidate` | 1153-1208: validators again, receipt event |
| `SerializationFails`, `AppendBatch`, `Conclude` | 831-869, 1209: serialise, offer, compare the acknowledgement, answer |
| `MutateReceipt` | external: another thread or a callback changes the caller's object |

A decision that is not one of the contract's, or a verdict with other fields, is one
class of malformed verdict (`form`), which is why `ValuesAssumption` may say that
decisions are the contract's.

`InterruptionsAssumption` says where a copy may be cut: between two fields or inside a
list, not inside a text. What a hash is of is not assumed: an object may carry any
hash, that of another receipt among them.

The sink is external and answers in any way its protocol allows: it commits or
not, and whatever it did it may raise, answer nonsense, refuse, or acknowledge
some batch that is durable. An acknowledgement of a batch that is not durable is
outside the protocol (`verification_audit.py:167-172`) and is the one thing
assumed of it. A backend answers `True`, `False`, something that is no `bool`,
or raises. A process that dies between two steps is a behaviour that stops:
`Spec` has no fairness.

### `V4Producer`: state and actions

| Variable | Code |
|---|---|
| `now`, `published` | the clock callers read; how many registries are out, the last being the trusted one |
| `issued`, `sealed` | history: what components and the Orchestrator signed |
| `offers`, `changes` | the verdict objects in the caller's list; how often they changed |
| `pc`, `order`, `trust` | where `build_test_only_signed_v4_receipt` is, its arguments, its registry and time |
| `taken`, `summary` | verified verdicts (top-level copies) and their summaries |
| `receipt` | the receipt being made |
| `judged` | what the boundary was given, and its decision |

| Action | Code |
|---|---|
| `Call` | `v4/orchestrate.py:72-92`: registry loaded, verdicts counted |
| `CheckVerdict`, `CopyVerdict` | one turn of `verify_component_verdicts` (`component_verdicts.py:239-275`): the envelope, then the copy and the id |
| `Build` | `v4/orchestrate.py:34-105`: the unsigned receipt, with the checks its validator repeats; the first that compares component ids without white space |
| `Sign` | 106-119: the shell's hash, signed with each algorithm |
| `HashReceipt`, `SealEnvelope` | 120-123 and `contracts/v4_receipt.py:298-308`: both hashes, computed anew, one after the other |
| `Validate` | 124-130: the producer validates its own receipt |
| `Issue`, `Publish`, `Tick` | external: a component signs, the registry rotates, time passes, until the receipt is judged or its making failed (`Ended`) |
| `Change` | external: one of the caller's verdict objects becomes another verdict or gets another bundle |
| `Judge` | external: AdamantineOS gives what reached it to the boundary, at its own time and with its own registry |

A receipt is held as the code holds it: `HeldReceipt` reads the bundles out of the
caller's objects as they are at that moment, so hash, signature, validation and
return may each see other bundles. The bundles of the components are inside
`component_verdicts` and so under both hashes of the receipt; only the receipt's own
bundle is under none. So a bundle that changes between the lines 301 and 302 makes
the two hashes disagree, which `Validate` then meets.

The producer has none of the boundary's limits, and what it is given may be beyond
them. `json` says whether each value is within the limits on single values (text,
number, nesting, canonical size of a bundle); `bytes` counts what a verdict or an
order adds to the limits on the receipt as a whole (nodes, scalars, canonical size),
which `MaxReceiptBytes` stands for. An id (`form`) or a profile may be padded: checks
strip it, summaries are written stripped, and the verdict keeps it as it came.
`v4/component_verdicts.py:261` looks for duplicate ids as they are written (`RawId`),
`contracts/v4_receipt.py:132` without the white space (`OneEach`).

`dominant_reason_ids` is left out, since no
check reads more of it than that it is not empty. `TimesAssumption` says that times
and versions are numbers, as `parse_utc_timestamp` and the loader make them, and
`PolicyAssumption` relates policy and limits as the code's constants do: two
required algorithms, at most three, and budgets that cover six full bundles.

### `RealCryptoBackend`: state and actions

| Variable | Code |
|---|---|
| `vault` | what the deployment's private key resolver returns |
| `pc[c]`, `job[c]`, `read[c]` | where a call is, what it was asked, the fields it works on |
| `secret[c]` | the private key resolved |
| `answer[c]` | the entry, `True`, `False`, or the exception it ended with |
| `signatures` | signature texts made so far, free to be copied into other entries |
| `signed`, `fault` | history: what was natively signed; whether the outside failed a call |

| Action | Code |
|---|---|
| `RequestSignature` | `real_crypto_backend.py:248-289` up to the backend |
| `ResolvePrivateKey` | `oqs_mldsa_backend.py:108-114` |
| `NativeSign` | `oqs_mldsa_backend.py:116-130`, `oqs_falcon_backend.py:116-137`, and the checks on what comes out |
| `RequestVerification`, `ReadEntry` | `real_crypto_backend.py:292-338`: the fields are read one by one from an object that may hold two entries in turn, the signature text twice |
| `DiscoverMechanism` | `oqs_falcon_backend.py:61-82`: the library is absent, lacks the mechanism, or fails |
| `NativeVerify` | `oqs_falcon_backend.py:139-179`: lengths where the library tells them, then the native answer |
| `Rotate` | external: the next private keys come behind the references |

Signatures are ideal: the native verifier says `True` of exactly the signatures
the holder of the public key made over that very message. A key id is the
sequence of the lines of its text, because the adapter refuses white space around
a key id and not inside it; everything else about a text is its class.

### `ProofReportGuard`: state and actions

| Variable | Code |
|---|---|
| `ran` | the tests that ran, in order, each with its outcome |
| `report`, `spoils` | the JUnit report at its path; how many accidents it had |
| `arguments`, `verdict` | what the guard was called with, and whether it passed |

| Action | Code |
|---|---|
| `RunTest`, `WriteReport` | external: pytest, in both file layouts and with either root element |
| `Spoil` | external: a case spoilt, lost or doubled with counters kept or made to fit, a counter that lies, the file unreadable |
| `Guard` | `scripts/assert_real_oqs_junit_not_skipped.py:76-189`, which the workflow runs always (`.github/workflows/shield-v4-real-oqs.yml:192-201`) |

A case is found by its place, a suite and a position in it, because two cases may be
equal and still be two. A node id is the list of its parts between the `::`, and so is
the name of a case, which may hold a whole id (line 47 takes it as one); no name at all
is the empty list. Classes and files are single texts: a `::` in one of them is left out.
`FullPaths` and `FullNames` are the two halves of the pattern of line 105.
`JobAssumption` says that node ids of the job's tests differ and
that no class is written as a path, `ArgumentsAssumption` that the arguments have the
types `argparse` gives them; an accident leaves a report (`IsReport`) with finite lists.

### `V3Orchestrator`: state and actions

| Variable | Code |
|---|---|
| `request`, `payload`, `changes` | the frozen fields of the request; its payload dict, which others hold; how often that changed |
| `pc` | where in `orchestrate` the call is |
| `requestId`, `contextHash` | lines 45-46 |
| `bridge` | what the running bridge has read for itself |
| `verdicts`, `trace` | `component_verdicts`, `trace` |
| `receipt`, `reason`, `response` | the receipt, the reason of a failure, the answer |
| `asked` | history only: engines called, with their answers |

| Action | Code |
|---|---|
| `Validate` | `v3/orchestrate.py:238-252` |
| `BindRequestId`, `BindContext` | 44-54: read once for the call |
| `BridgeRequestId`, `BridgeContext`, `BridgeInput` | `evaluate_v3` of a bridge: read again, and the component's input |
| `Engine` | the engine's answer and its translation (`bridges/component_verdicts.py:147-275`) |
| `BuildReceipt` | 79-95, with every check of `build_receipt` |
| `Sink` | 97-109 and `AdaptiveCoreBridge.report_v3` |
| `Respond` | 111-132 |
| `FailClosed` | 134-187: the two failure handlers, which may raise |
| `ChangePayload` | external: the caller, or an engine through nested values |

`_validate_request` reads only frozen fields. Everything else that is read from
the payload is a step of its own, so that the payload may change before and after
each read. Copying the payload for a hash (`asdict`) is one step: a copy that
straddles a change is a copy of some further value, which `Payloads` may contain.
An engine answers in any of the ways the bridge tells apart: not at all, with no
object, with an authority field, with an answer that cannot be hashed, or with
words under one or several of the keys a decision is looked for. Of a payload the
model keeps what is read: its request id, the context hash it claims, the
components it has input for, and whether copying or encoding it raises.

Definitions called "Faulty variant" are not part of the model: each is a
plausible bug in the definition that follows it, kept to show that a property
notices it.

## 3. Runs

| Run | Question | Instance | Properties |
|---|---|---|---|
| `audit_receipts` | what may a backend see, what does an acceptance stand for, what does a batch say? | one call, five components, about sixty receipts, seven sets of trusted arguments, all answers; about 9000 states | `TypeOK`, `BackendsSeeOnlySoundReceipts`, `AcceptedMeansVerified`, `CheapestFirst`, `BatchTellsTheCall`, `OnlyBackendsRejectLate`, `DecidesAsOne` |
| `audit_calls` | can a verdict leave without its evidence when calls share the sink? | two calls that may expect different requests, one component; about 56000 states | `DurabilityInv`, `VerdictOnlyIfDurable`, `KeepsThePromise` |
| `audit_copies` | can a copy that straddles a change be accepted, and do plan check and counter agree at the limit? | one call, two components, two changes, 22 places to cut, seven receipts, budgets 9 and 4; about 213000 states | `NeverAMixture`, `PlannedWorkFits` |
| `producer` | what does an accepted receipt stand for, from the components to AdamantineOS? | two components, four statements, three orders, three registries, two moments, three verdicts, one change; about 438000 states | `TypeOK`, `AllowedByAll`, `AcceptedIsGenuine`, `RevokedKeysReleaseNothing`, `ReleasedIsAccepted` |
| `real_adapter` | what does a `True` of a real backend stand for? | a signer and a verifier, eleven requests, seven presented fields, nine registry keys, two forgeries, a rotation; about 204000 states | `TypeOK`, `NoSplicing`, `TestMaterialNeverCounts`, `GenuineAccepted`, `EndsInHierarchy` |
| `guard_reports` | what does a green guard stand for? | three tests of which two share a name, nine calls, one accident; about 540000 states | `TypeOK`, `ProofMeansPassed`, `NothingHidden`, `OneCaseEach` |
| `audit_unrecordable` | are all verification failures audited, as the documentation says? | one call, one receipt with a padded profile name | `FailuresReachTheSink` (violated) |
| `v3_decisions` | what does an ALLOW stand for, and does the trace tell the receipt? | five components, eight requests, fourteen payloads, seven answers; about 914000 states | `TypeOK`, `AllowIsUnanimous`, `TraceTellsReceipt`, `ReceiptsValidate` |
| `v3_changes` | what can a changing payload spoil, and does every request end? | three components, a payload that changes twice, failing engines, requests no failure can be reported for, `FairSpec`; about 740000 states | `OneContext`, `SinkHasNoSay`, `KeepsFailClosed`, `EveryRequestEnds` |
| `v3_raises` | does the entry point never raise, as the API documentation says? | three components | `NeverRaises` (violated) |
| `v3_request_ids` | do receipt and verdicts name one request? | a nonce with white space around it | `OneRequest` (violated) |
| `v3_consulted` | does the trace show which components were consulted? | engines whose answer cannot be hashed | `TraceTellsConsulted` (violated) |

* `BackendsSeeOnlySoundReceipts`: a backend is called only for a receipt whose
  bindings, identities, outcome, hashes, freshness, roles, trusted keys and policy
  hold for the whole chain. It is stated declaratively (`SoundReceipt`), apart
  from the checks in the order of the code.
* `AcceptedMeansVerified`: an accepted receipt had each of its signatures approved
  by a backend exactly once, the required algorithms of all six bundles among
  them, and nothing else was asked.
* `CheapestFirst`: callbacks run in algorithm waves, none repeats, none follows a
  failure.
* `BatchTellsTheCall`: a batch is one failed preflight of a call that asked
  nothing, or a passed preflight, the callbacks in order with their answers, and
  one artifact event.
* `OnlyBackendsRejectLate`: after the first callback nothing but a backend's
  answer can reject; the rehearsal has established the rest.
* `DecidesAsOne`: the stages, with their early ends, three walks and stopped
  callbacks, give the verdict of one decision over all checks (`Approvable`) and all
  answers. `V4Producer` takes the boundary for that decision (`Accepts`).
* `VerdictOnlyIfDurable`, `KeepsThePromise`: a verdict leaves only when this
  call's own batch is durable and ends with it; the boundary implements
  `AuditedVerdict` under the mapping `evidence <- Evidence`, `verdict <- Told`.
* `NeverAMixture`: a returned receipt is one the object held while it was copied. It
  carries the signed hash of a value of that time, and if that value's hashes were
  those of its contents, everything but the receipt's own bundle is what that value
  said. So it is no mixture and nothing the object became later. The signatures over
  it can come from two values, as they are under no hash; each was still verified
  by itself. An object whose hashes were those of other contents is left to the
  first half: nothing it said is returned unless it fits the hash it carried.
* `PlannedWorkFits`: the counter never refuses a planned callback.
* `AllowedByAll`: an ALLOW the boundary accepts stands for an ALLOW each component
  signed, in the verifier's own context, under the registry version and at a
  time it trusts now, whatever became of objects and registry in between.
* `AcceptedIsGenuine`: an accepted receipt says what the Orchestrator signed, each
  verdict in it what its component signed, and no signature in it was made for
  anything else. The receipt's own bundle is under no hash, and a component's under no
  hash of its component: of them this is all that holds.
* `ReleasedIsAccepted`: producer and boundary validate a receipt in different code and
  order, and the boundary asks for more. What it asks for is `Presentable`: values,
  the receipt as a whole and the registry within its budget, ids and profiles
  without white space, and time within each window. While nothing has changed
  since, it accepts a released receipt exactly when that holds: an honest receipt
  may be refused for these and is refused for nothing else.
* `RevokedKeysReleaseNothing`: the producer's key is always version 1; once the
  registry it is given no longer has it active, nothing is released.
* `NoSplicing`: `True` means that the holder of this registry key signed exactly
  the fields the adapter read, from however many entries it read them.
* `GenuineAccepted`: what a signer returned is answered `True` when it comes back
  unchanged: what the signing side lets out the verifying side lets in, Falcon's
  varying lengths among it.
* `TestMaterialNeverCounts`, `EndsInHierarchy`: no deterministic test key is
  answered `True` and no test-only reference makes a signature; a call ends in an
  answer or in an error of the adapter's hierarchy, unless the key id cannot be
  encoded (`real_crypto_backend.py:236` raises `UnicodeEncodeError` as it is).
* `ProofMeansPassed`: over a report as pytest wrote it, exact mode passes precisely
  when the required tests, and no others, ran and passed.
* `NothingHidden`, `OneCaseEach`: whatever became of the report, one that passes
  has no failure, error or skip anywhere, and in exact mode its cases correspond
  one to one to the required nodes. A case is of a node by its file or class and its
  name, or by a name that is the whole node id, whatever its file and class are.
* `AllowIsUnanimous`: an ALLOW means that all engines were asked, once and in
  the order of the bridges, and each allowed in words the code lists as allowing.
* `TraceTellsReceipt`: the trace has the order in which the bridges ran, the
  receipt the order of component ids; they say the same of each component.
* `ReceiptsValidate`: `validate_receipt` accepts each receipt that leaves, though
  it rebuilds it from normalised fields.
* `OneContext`: receipt, verdicts and response are of one context. The bridges
  read the context from a payload that may have changed; the receipt is then not
  built, and the call ends in DENY.
* `SinkHasNoSay`: what happens after the receipt changes no answer.
* `KeepsFailClosed`: the call implements `FailClosed`: members are heard once, the
  answer is the most severe thing heard, and before that only a denial.
* `EveryRequestEnds`: every request ends, in an answer or in an exception.

**Bounds, and why they are enough.** Two calls are the fewest that can cross
acknowledgements, and calls interact only through the caller's object and the
sink. `audit_calls` leaves the object still: what it checks of batches and
acknowledgements is proved for any number of calls and changes (section 4), and
`audit_copies` changes the object. What makes its two calls differ is the request
each expects. One component and the receipt are two artifacts with different
roles, domains and verifiers; what depends on there being five (identities,
completeness of the set, order of waves) is in `audit_receipts`, which uses the
five components, the three algorithms and the limits of the code (18 and 12
callbacks, 24 records, 64 keys). `audit_copies` lowers the limits to 9 and 4
because with the code's own numbers six bundles of three signatures use them up
exactly and never exceed them; its receipts plan six to nine callbacks, three to
six of them post-quantum, so that plans lie below, at and above the limit.
`MaxMutations` bounds how often the object changes: two around a copy.
`Interruptions` bounds where a copy is cut. Cuts inside one component's dictionary
are left out: they change its hash like any other change to it.

In `producer` one change of a shared object after any step separates each two of
the producer's readings; two verdicts of one component and one of the other allow
swaps, duplicates and missing components; registries 1 to 3 add keys and then
revoke the old ones, and the clock crosses the end of one window. A receipt may be
altered on its way with its hashes made to fit, among them one that denied and now
allows. With two components, a list of
verdicts in either order shows what sorting gets wrong. Of the conditions of
`Presentable` the run has a padded profile, windows that end, and receipts within, at
and over the limit of four units; each is the only one that fails in some state. Values
beyond the limits on single values, padded ids and registries with too many keys are
there in the module and in the theorem `HonestReceiptsAreAccepted`, and not in the run,
which they would make too large. `real_adapter` registers
one key pair under two versions and under a key id of two lines, so that each of
the fields that could be spliced has another that differs in it alone; a signer
and a verifier are enough, since calls share nothing but the vault and what has
been signed. In `guard_reports` two of three tests share their name and two their
file, which is what node ids can be mistaken for; a spoilt case may have the full id
of one for its name and the class of another.

For v3, `v3_decisions` uses the five components, so that every mixture of
decisions, failures and missing inputs occurs, with a payload that stands still.
What a changing payload spoils needs one bridge before the change, one after it
and one after a second change, hence three components and `MaxChanges = 2`: a
value can change and change back. `FewAnswers` there has one word of each
decision, because how a decision is found was the question of `v3_decisions`.

**Deadlock** is not checked: a call that has concluded rests, and the system
stops when all have. `EveryRequestEnds` says that v3 stops nowhere else. `producer`,
`real_adapter` and `guard_reports` end with a judgement, an answer and a verdict.

**Fairness.** Only `V3Orchestrator` states fairness: `FairSpec` adds weak fairness of the
steps of the call. The function is sequential code without waits or locks; it stands
still only inside an engine or the sink, whose return is assumed, and nothing is
assumed about the payload changing. The other modules state none: their calls are
straight-line code whose every step ends or fails the call, with no loop but over a
list that gets shorter, so their questions are of safety. What could be lost without
a call hanging is a matter of safety as well: a rejection that never reaches the sink
(`FailuresReachTheSink`), a callback refused outside every handler (`PlannedWorkFits`).

**Divergences.** Four runs end in a violation of something the documentation
says; three more disagreements were met and are stated after them.

`audit_unrecordable`. The documentation says "Receipt-controlled preflight and
verification failures must be audited and fail closed."
(`docs/v4/SHIELD_V4_VERIFICATION_AUDIT_V1.md:56-57`). `_signature_event` copies a
profile name as it came (`verification_audit.py:436`) while verification strips
it; a name with some 2 KB of surrounding white space is valid, yet its record
exceeds `MAX_AUDIT_RECORD_BYTES`. The call fails closed, but a rejection by a
backend is then reported as a sink failure although the sink was never asked.

`v3_raises`. "never raises uncaught exceptions (errors become DENY)"
(`docs/v3/API.md:25`). The failure handlers copy the whole request, payload
included, before they leave the payload out (`v3/orchestrate.py:231`), and hash
the other fields: a payload with an object that cannot be copied, a `wallet_id`
that JSON cannot represent, or a nonce that is not UTF-8 makes the handler raise.

`v3_request_ids`. "Shield v3.2.0 binds component verdicts and receipts to
`request_id`" (`docs/v3/PROOF_PACK.md:38-39`). `build_receipt` strips the request
id and the verdicts keep it as it is, so a nonce with surrounding white space
gives them different ids. The same disagreement follows from a payload whose
request id changes between the bridges; nothing compares the ids.

`v3_consulted`. "The trace must allow reviewers to answer: which components were
consulted" (`docs/v3/ARCHITECTURE.md:107-110`). When the answer of an engine cannot
be hashed, the failure handler's trace has a single entry and the engines asked
so far are not in it.

Three without a run of their own. The producer never compares the windows of the
verdicts and of its receipt with its time: it releases a receipt of expired
verdicts (`contracts/v4_receipt.py:344` is given the time for the keys only), while
`docs/v4/SHIELD_V4_THREAT_MODEL.md:170` speaks of expiry as a control; only the
boundary looks (`v4/verification_audit.py:601-610`). That is the last condition of
`Presentable`. And the signing side of the adapter refuses
test-only private key references but not key ids that begin with `test-`
(`v4/real_crypto_backend.py:268,278`), against
`docs/v4/SHIELD_V4_REAL_CRYPTO_BACKEND.md:250-255`; the verifying side refuses them,
which is why `TestMaterialNeverCounts` holds.

The third: "Exact mode rejects extra, missing, duplicated, ambiguous, or
conflicting node identities." (`docs/v4/SHIELD_V4_REAL_CRYPTO_BACKEND.md:173-175`). The
name of a case is taken as a node id as it is
(`scripts/assert_real_oqs_junit_not_skipped.py:47`), and the conflict check compares
file and class with each other, not with the node matched: a case whose name is the
whole id of one required test and whose class and file are of another module stands
for that test. `guard_reports` has such reports, and some of them pass. pytest writes
no such name, so `ProofMeansPassed` holds of the reports
it writes; and the case still has to have passed and to be the only one of its node,
which is what `NothingHidden` and `OneCaseEach` keep.

## 4. Theorems

`VerificationAuditProofs`, for any calls, receipts, arguments, components,
algorithms and limits that satisfy the named assumptions:

| Theorem | Says |
|---|---|
| `TypeCorrect` | `Spec => []TypeOK` |
| `Durability` | `Spec => []DurabilityInv` |
| `NoVerdictWithoutEvidence` | `Spec => []VerdictOnlyIfDurable` |
| `BoundaryKeepsThePromise` | `Spec => KeepsThePromise`, that is, `VerificationAudit` implements `AuditedVerdict` |

Assumptions: `WorkAssumption` (limits are natural numbers, the post-quantum
algorithms are supported ones), `OrderAssumption` (components and algorithms are
finite lists, at least one component), `ValuesAssumption` (lists in a receipt and
in a registry are finite sequences, decisions are those of the contract,
`NoReceipt` is no receipt), `ArtifactAssumption`, `RequiredAssumption`,
`BoundsAssumption`. TLC evaluates all of them in the runs.

**The argument.** `VerdictOnlyIfDurable` is not inductive: it speaks of calls that
have answered, and nothing in it says why the batch of a call about to answer
should be durable, or end with the verdict about to be given. `DurabilityInv`
adds the three facts that carry it: `CompleteBatch` (from the moment a batch is
handed over, its last event is the verdict `reason` stands for), `HonestAck` (an
acknowledgement names a durable batch, which is the assumption on the sink
preserved by `durable` only growing) and `Answered` (a verdict was given on the
acknowledgement of exactly this batch). Each action has its own step in the
proof. For the refinement, `AppendBatch` maps to `Record`, `Conclude` to
`Announce` or `Withhold`, a refusal or an unhandled exception to `Withhold`, and
every other step to a stutter.

`AuditSoundnessProofs`, for any components, algorithms, limits, registries,
arguments and any number of calls over a receipt that changes at any step:

| Theorem | Says |
|---|---|
| `OnlySoundReceiptsReachBackends` | `Spec => []BackendsSeeOnlySoundReceipts` |
| `AcceptanceIsVerified` | `Spec => []AcceptedMeansVerified` |
| `CheapestIsFirst` | `Spec => []CheapestFirst` |
| `WorkIsPlanned` | `Spec => []PlannedWorkFits` |
| `LateRejectionsAreBackends` | `Spec => []OnlyBackendsRejectLate` |
| `BatchesTell` | `Spec => []BatchTellsTheCall` |
| `StagesDecideAsOne` | `Spec => []DecidesAsOne` |
| `NothingIsMixed` | `Spec => []NeverAMixture` |

**The argument.** Each of these speaks of the end of a call, and none is inductive:
what makes them true was established by a check several steps earlier. The
invariant `SoundInv` (theorem `Soundness`) says what a call has behind it at each
place. `Examined`: from the callbacks on, its receipt passed every check of
snapshot, binding, preparation and rehearsal (`Checked`), with the arguments of
the call. `Running`: what has been asked and what remains are the plan, split
where the cheapest remaining entry comes next (`WorkedOff`), and the counter has
room for the rest (`Affordable`). `Decisive`: once a verdict is decided, it is
what the answers said. Four facts carry it. `CheckedIsSound`: the checks in the
order and the words of the code imply the declarative `SoundReceipt`, bundle by
bundle, through `AuditChecksProofs` (`VerifiedReceipt`, `VerifiedVerdicts`,
`FoundKeyIsTrusted`). `CheckedPlanIsSound`: the plan is finite, fits the budgets, and
its entries are the receipt's. `NextIsCheapest` and `BudgetShrinks`: taking the
minimum keeps the waves in order and both counters below their limits.
`CheckedRevalidates`: where all callbacks said `True`, the revalidation computes
what the rehearsal computed, so it cannot fail; this is `OnlyBackendsRejectLate`.
`CopyIsWellMade` is the one place where the changing object matters: a copy cut at
any point still has finite lists. `StagesDecideAsOne` adds `RefusedInv`: a call that has its
verdict and asked nothing failed a check, stage by stage; an empty plan, which would
let a call end without callbacks, is excluded by the plan check
(`NothingToRevalidate`). `NothingIsMixed` adds `HeldInv`: both values
a copy is made of are in `held`, and from the copy on, the signed hash of the call's
receipt is one that a value in `held` carried (`CopyCarries`, since a text is
copied at once). The preparation has compared that hash with the contents of the copy
(`CheckedIsWhole`). So if that value's hashes were those of its contents too (`Whole`),
copy and value have one payload, and then they differ in their bundle only
(`WholeReceiptsAgree`). `BatchesTell` adds `Telling`, which relates the
buffered events to the history of callbacks one by one.

`V4ProducerProofs`, for any components, statements, orders, registries, any
alterations of objects and receipts, and a clock of any length:

| Theorem | Says |
|---|---|
| `NothingForeignIsAccepted` | `Spec => []AcceptedIsGenuine` |
| `AcceptedAllowIsUnanimous` | `Spec => []AllowedByAll` |
| `RevocationHolds` | `Spec => []RevokedKeysReleaseNothing` |
| `OneVerdictEach` | `Spec => []TypeOK` |
| `HonestReceiptsAreAccepted` | `Spec => []ReleasedIsAccepted` |

Assumptions: those on limits and order above, `FlowAssumption` (bounds are natural
numbers, the clock starts before it ends) and `StatementsAssumption` (registries and
orders are finite lists, a statement is of a component and its decision one of the
contract's); for the last theorem also `TimesAssumption` and `PolicyAssumption`. The invariant
`GenuineInv` says
that signers sign what they say: each issued verdict carries entries over its own
payload, each sealed payload likewise, and an accepted receipt passed the checks of
the boundary (`Acceptable`). An accepted entry was made by the signer of its role over
the hash it carries, which is compared with the computed one (`VerifiedEntry`), and
a hash tells its payload (`HashesTellPayloads`): so what was accepted is what was
signed. For `AllowedByAll`, the verdicts are as many as the components and
pairwise of different ids, so every component is there (`EveryComponentIsThere`, a
counting argument), and an ALLOW outcome needs an ALLOW of each. Revocation needs
its own invariant `KeysInv`, as it speaks of the registry of the call and not of
the boundary's. `OneVerdictEach` rests on `TypeInv`: the copies made so far have
different ids as written (`TakenOnce`), because the id is looked up in the copy just
made and not in the object that was checked, and a receipt is only built where they
differ without white space as well (`OneEach`); theorem `TypeInvariant` states it.

`HonestReceiptsAreAccepted` has two directions. That an accepted receipt is presentable
(`AcceptedIsPresentable`) reads each condition off a check of the boundary: sizes and
padding off the snapshot and the preparation (`SnapshotAsks`, `PrepareAsks`), windows off
the freshness checks, and exact profiles off the comparison of summaries, which the
producer has written stripped (`HeldResults`). That a presentable one is accepted
(`ReleasedPasses`) needs that no check of the boundary refuses, so each of them has to be
met by something the producer did or by a condition of `Presentable`. Its invariant
`HonestInv` adds `Undisturbed` to the two above: what was issued is signed the way a
component signs (`WellSigned`), the producer's registry loads and stays as it is
(`TrustInv`), the verdicts taken are the offers, each of which passed
(`OffersInv`), and the receipt has the summaries of its own verdicts, a bundle without
blanks, and passed the producer's validator (`ReceiptInv`). The rest is that the
boundary's checks follow. Its validators see another time and the same registry:
a key trusted at the producer's time is trusted at any time within the artifact's
window, because the registry window has to cover the artifact's (`KeyStaysTrusted`,
`BundleStaysVerified`). Its preparation repeats the bundle checks over the bundle's
own hash (`VerifiedIsPrepared`), its budgets follow from the policy, and its plan
has two or three entries for each artifact (`BundlePlanSize`). That `Presentable`
is the whole of what the producer leaves open is what the theorem says.

`RealCryptoBackendProofs`, for any calls, keys, algorithms, entries and rotations:

| Theorem | Says |
|---|---|
| `SignatureInputInjective` | two messages are equal only if all six fields are, however many lines a key id has |
| `NothingSpliced` | `Spec => []NoSplicing` |
| `AlwaysInHierarchy` | `Spec => []EndsInHierarchy` |
| `TestMaterialIsRefused` | `Spec => []TestMaterialNeverCounts` |
| `TypesKept` | `Spec => []TypeOK` |
| `NothingGenuineRefused` | `Spec => []GenuineAccepted` |

Assumptions: `DecimalAssumption` (decimal texts of versions are distinct),
`DeploymentAssumption`, `FieldsAssumption`, `KeysAssumption` (registered versions are
positive) and `ForgedAssumption` (nobody but its holder signs under a public key). The message has five lines before the key id and
one after it, so its length gives the key id its place: that is
`SignatureInputInjective`, and without the version at the end, or with two fields of
free length, it would fail. `SplicingInv` adds that every text in `signatures` belongs
to a record in `signed` (`Accounted`) and that a call past its checks works on fields
of its key. That key and fields agree is checked on what was read, once, before the
message is made from the very same reading. `MaterialInv`, for the last two, carries
the reference and the key that were checked for test material to the answer, and
the resolved key to the signature. `NothingGenuineRefused` rests on `GenuineInv`: every
signature in circulation is over fields the signing side let out, and a verifying
call that holds such an entry alone has passed each check so far unless something
outside failed. Each check of the verifying side is then one the signing side made
in other words.

`V3OrchestratorProofs`, for any number of components, any requests, payloads that
change at any step, and any answers:

| Theorem | Says |
|---|---|
| `TypeCorrect` | `Spec => []TypeOK` |
| `Unanimity` | `Spec => []AllowIsUnanimous` |
| `OneContextAlways` | `Spec => []OneContext` |
| `SinkIsSilent` | `Spec => []SinkHasNoSay` |
| `RefinesFailClosed` | `Spec => KeepsFailClosed`, that is, `V3Orchestrator` implements `FailClosed` |

Assumptions: `ComponentAssumption` and `BridgeAssumption` (component ids are
distinct, the bridges are those components in some order, at least one),
`ExceptionAssumption` (the exceptions of payloads and answers are those the
handlers tell apart). The properties speak of answers; the inductive invariant
`CallInv` says what holds on the way there: how many verdicts each phase has
(`Paced`), that verdicts which all allow are the answers of engines asked one
after another (`Heeded`), that a receipt is the one its verdicts build (`Built`),
and that an answer is either a refusal without receipt (`Refused`) or what the
receipt says (`Released`). `Heeded` must be conditional: a component without
input gets a verdict although nobody was asked, but that verdict is an ERROR.
`CollectStep` is the one place where the three grow together. `OneContext` then
follows from `Buildable` and from `Sorted` picking its elements among the
verdicts, and the refinement from `AnswerIsMostSevere`, which equates the code's
classification of a receipt with `MostSevere`: `Collect` maps to `Hear`, `Respond`
to `Decide`, `FailClosed` to `Deny`, and every other step to a stutter.

On the same invariant:

| Theorem | Says |
|---|---|
| `ReceiptsAlwaysValidate` | `Spec => []ReceiptsValidate` |
| `TraceAlwaysTells` | `Spec => []TraceTellsReceipt` |

One assumption more, `TextAssumption` (nonces and request ids are texts). Building
a receipt sorts the verdicts and strips the request id, and the consumer's
validation builds it again from the result. So the first theorem says that both are
idempotent and lose nothing the classification reads: `StrippedOnce`, `SortedTwice`,
`SortedSameDecisions`, `SortedIsBuildable`. Each rests on the components being
distinct in both orders. For the second, `TraceInv` relates the entries of the trace
to the verdicts while both grow (`CollectTells`), and `SortedHasEach` finds the verdict
of a bridge again in the receipt's order.

`ProofReportGuardProofs`, for any tests, outcomes, arguments and accidents:

| Theorem | Says |
|---|---|
| `GuardTypes` | `Spec => []TypeOK` |
| `ProofAlwaysMeansPassed` | `Spec => []ProofMeansPassed` |
| `NothingEverHidden` | `Spec => []NothingHidden` |
| `OneCaseForEach` | `Spec => []OneCaseEach` |

Assumptions: `JobAssumption`, `ArgumentsAssumption`, `BoundAssumption`. The invariant
`GuardInv` says that tests run in order, so that no two cases are of one test
(`InOrder`), that an unspoilt report is one `Written` can make, that any other is still a
report, and that a verdict is what the guard's checks say of it. `NothingEverHidden`
needs that a sum of natural numbers is zero only when each is: the total over the
suites is a recursive function, and since no induction theorem can be used, its
existence and this fact are shown by the least suite at which they would fail
(`LeastExists`, `SumExists`, `TotalZero`). `OneCaseForEach` turns "one match each, no match
twice, all matched" into the two counts (`PassedIsOneToOne`), where a case is of a
required node by three spellings of its place, its name being a single text
(`PairBehind`), or by a name that is the whole id (`MatchesItsNodes`). For `ProofAlwaysMeansPassed` both
directions are shown: what pytest writes of tests that all pass and are the
required ones passes every check (`WrittenPasses`), and from a report that passes the
tests can be told (`CaseMatches`).

`VerificationErrorsProofs` has the lemmas on ordered checks: a sequence of checks
reports no error exactly when none fails, and whatever a message says, its class
is an audit reason of a failure.

Only model-checked: the liveness property `EveryRequestEnds`, because fairness is out of
the prover's reach. Every invariant the
passing runs check, and both refinements, are theorems. The four runs that expect a
violation have nothing to prove.

## 5. Not modelled

The components marked `not_modelled` in `PROJECT.json`: the retired v2 entry point,
which only raises; configuration, context and errors, which hold values; the
benchmark, which measures time; and workflows and tests, of which only the step
that runs the guard is modelled.

In v3, the layout of each engine's request (what goes wrong in building it is an
engine that fails), a bridge that returns a bare trace entry
(`v3/orchestrate.py:199-209`; none of the five does), and a request that is no
`OrchestratorV3Request`.

In v4, Unicode and JSON canonicalisation character by character (a value stands
for its canonical form, a hash is injective on it); the layout of audit records;
the limits on depth, nodes, texts and bytes one by one, which are the two classes
`json` and `bytes`, and the limits on the text of a registry file, which loads or does
not; `dominant_reason_ids`; the test-only signature functions, which are an ideal
scheme like the real ones; native liboqs calls, of which the answers are modelled
and not the work; constructor arguments and version texts of the liboqs backends.
In `V4Producer` the boundary is one atomic decision: its own interleavings are
those of `VerificationAudit`.

Of the guard, XML syntax and the limit on the size of the file are one class of
unreadable report; a `::` inside a class or a file name is left out.

## 6. Plan

In this order:

1. **v4 core** (done): the audited boundary and the operators it rests on.
2. **v3 orchestrator, bridges and v3.2 receipt** (done).
3. **v4 producer** composed with components, registry, clock and boundary (done).
4. **Real crypto adapter** (done), and the guard over its native proofs (done).
5. **Theorems** (done): every invariant of every passing run and the two refinements,
   for every value of the constants.
6. **Left**: the boundary's own interleavings inside `V4Producer`; and the consumer of a
   v3.2 receipt, with the alterations that `validate_receipt` notices and those it
   does not.
