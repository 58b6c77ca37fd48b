----------------------------- MODULE AuditChecks -----------------------------
(***************************************************************************)
(* What each stage of the audited boundary checks on a receipt, and the    *)
(* plan of signature callbacks it derives from it                          *)
(* (v4/verification_audit.py:461-764 and 910-1198, v4/work_budget.py).     *)
(*                                                                         *)
(* An argument "a" is the trusted side of a call: [valid, request,         *)
(* context, registry, minimum, time].                                      *)
(***************************************************************************)
EXTENDS V4Receipt

CONSTANTS
    MaxVerificationCalls, MaxPqcVerificationCalls,   \* v4/work_budget.py
    PqcAlgorithms

\* The lists of a JSON value are finite sequences.
IsList(s) == s \in Seq(Range(s))

ASSUME OrderAssumption ==
    /\ IsList(ComponentOrder) /\ ComponentOrder # <<>>
    /\ IsList(Algorithms)

\* What the checks take for granted of a receipt: its lists are finite
\* sequences, its decisions those of the verdict contract.
Listed(r) ==
    /\ IsList(r.components)
    /\ IsList(r.bundle.signatures)
    /\ \A i \in DOMAIN r.components : IsList(r.components[i].bundle.signatures)

Decided(r) == Decisions(r.components) \subseteq SupportedDecisions

ASSUME WorkAssumption ==
    /\ MaxVerificationCalls \in Nat
    /\ MaxPqcVerificationCalls \in Nat
    /\ PqcAlgorithms \subseteq SupportedAlgorithms

Component(r, id) ==
    r.components[CHOOSE i \in DOMAIN r.components : r.components[i].id = id]

BundleOf(r, id) == IF id = Orchestrator THEN r.bundle ELSE Component(r, id).bundle

ArtifactHash(r, id) ==
    IF id = Orchestrator THEN SignedHash(r) ELSE ComponentHash(Component(r, id))

-----------------------------------------------------------------------------
(* The verification plan: one record per signature entry of the snapshot.   *)
(* "index" is the entry's identity in the snapshot (id(entry) in the code). *)

PlannedEntry(id, bundle, i) ==
    LET e == bundle.signatures[i] IN
    [artifact |-> id, index |-> i, algorithm |-> e.algorithm, key |-> e.key,
     profile |-> e.profile]

BundlePlan(id, bundle) ==
    {PlannedEntry(id, bundle, i) : i \in DOMAIN bundle.signatures}

Plan(r) ==
    BundlePlan(Orchestrator, r.bundle) \cup
    UNION {BundlePlan(r.components[i].id, r.components[i].bundle) : i \in DOMAIN r.components}

Pqc(plan) == {p \in plan : p.algorithm \in PqcAlgorithms}

\* Faulty variant: post-quantum work is not budgeted.
PlanErrorWithoutPqc(r) ==
    LET plan == Plan(r) IN
    FirstError(<<
        Check({p.artifact : p \in plan} = Artifacts, {"hash"}),
        Check(\A id \in Artifacts : Cardinality({p \in plan : p.artifact = id}) \in 2..3,
              {"hash", "signature"}),
        Check(Cardinality(plan) =< MaxVerificationCalls, BudgetError) >>)

\* _validate_prehashed_plan, and again _validate_complete_plan.
PlanError(r) ==
    LET plan == Plan(r) IN
    FirstError(<<
        Check({p.artifact : p \in plan} = Artifacts, {"hash"}),
        Check(\A id \in Artifacts : Cardinality({p \in plan : p.artifact = id}) \in 2..3,
              {"hash", "signature"}),
        Check(Cardinality(plan) =< MaxVerificationCalls, BudgetError),
        Check(Cardinality(Pqc(plan)) =< MaxPqcVerificationCalls, BudgetError) >>)

ArtifactRank(id) ==
    IF id = Orchestrator THEN Len(ComponentOrder) + 1
    ELSE CHOOSE i \in DOMAIN ComponentOrder : ComponentOrder[i] = id

\* Faulty variant: artifact by artifact.
BeforeByArtifact(p, q) ==
    \/ ArtifactRank(p.artifact) < ArtifactRank(q.artifact)
    \/ /\ ArtifactRank(p.artifact) = ArtifactRank(q.artifact)
       /\ AlgorithmRank(p.algorithm) < AlgorithmRank(q.algorithm)

\* The sort key of _run_planned_callbacks: algorithm wave, then artifact.
Before(p, q) ==
    \/ AlgorithmRank(p.algorithm) < AlgorithmRank(q.algorithm)
    \/ /\ AlgorithmRank(p.algorithm) = AlgorithmRank(q.algorithm)
       /\ ArtifactRank(p.artifact) < ArtifactRank(q.artifact)

NextPlanned(plan) == CHOOSE p \in plan : \A q \in plan : ~ Before(q, p)

-----------------------------------------------------------------------------
(* What each stage of a call checks, in the order of the code.              *)

BundleBudgetError(bundle) == Check(Len(bundle.signatures) \in 2..3, BudgetError)

\* _require_complete_bundle_budgets: component ids as they came, padded or not.
BundleBudgetsError(r) ==
    FirstError(<<
        Check(Len(r.components) = Len(ComponentOrder), BudgetError),
        FirstError([i \in DOMAIN r.components |->
            FirstError(<<
                Check(r.components[i].form # "padded", {}),
                IdError(r.components, i, {}),
                BundleBudgetError(r.components[i].bundle) >>)]),
        BundleBudgetError(r.bundle) >>)

SnapshotError(r, a) ==
    FirstError(<<
        Check(r.json = "bounded", BudgetError),
        Check(r.fields, {"field", "schema"}),
        BundleBudgetsError(r),
        LoadRegistryError(a.registry),
        FloorError(a.registry, a.minimum) >>)

\* The four bindings to the verifier's own expectations.
BindReason(r, a) ==
    IF r.request # a.request THEN "V4_REQUEST_MISMATCH"
    ELSE IF r.schema = "shield.receipt.v1" THEN "V4_DOWNGRADE_REJECTED"
    ELSE IF r.schema # "shield.receipt.v2" THEN "V4_CONTRACT_INVALID"
    ELSE IF r.context # a.context THEN "V4_CONTEXT_MISMATCH"
    ELSE IF ~ r.policy THEN "V4_POLICY_INVALID"
    ELSE "V4_VERIFY_OK"

\* Faulty variant: the time is not looked at.
FreshnessErrorAnyTime(window, time) == Check(Proper(window), {"freshness"})

FreshnessError(window, time) ==
    FirstError(<<
        Check(Proper(window), {"freshness"}),
        Check(During(time, window), {"time"}) >>)

\* _prepare_signature_bundle_keys: the bundle's own first hash stands in for
\* the real one, which is not computed yet.
PrepareBundleError(bundle, domain, role, window, a) ==
    LET s == bundle.signatures IN
    FirstError(<<
        Check(\A i \in DOMAIN s : s[i].signature # "blank", {"signature"}),
        VerifyBundleError(bundle, s[1].hash, domain, role, a, window, DOMAIN s) >>)

PrepareComponentError(c, a) ==
    FirstError(<<
        PayloadError(c),
        Check(c.context = a.context, {"context", "hash"}),
        Check(c.version = a.registry.version, {"key", "registry"}),
        FreshnessError(c.window, a.time),
        PrepareBundleError(c.bundle, COMPONENT_VERDICT_DOMAIN, c.id, c.window, a) >>)

\* _expected_component_signature_results
ExpectedResults(r) ==
    [k \in DOMAIN ComponentOrder |->
        LET s == Component(r, ComponentOrder[k]).bundle.signatures IN
        [id |-> ComponentOrder[k],
         algorithms |-> [i \in DOMAIN s |-> s[i].algorithm],
         profiles |-> [i \in DOMAIN s |-> s[i].profile]]]

PrepareError(r, a) ==
    FirstError(<<
        HeaderError(r),
        Check(r.version = a.registry.version, {"key", "registry"}),
        FirstError([i \in DOMAIN r.components |-> PrepareComponentError(r.components[i], a)]),
        FreshnessError(r.window, a.time),
        PrepareBundleError(r.bundle, ORCHESTRATOR_RECEIPT_DOMAIN, Orchestrator, r.window, a),
        PlanError(r),
        SemanticsError(r, a.context),
        Check(r.results = ExpectedResults(r), {}),
        Check(r.bytes = "within", BudgetError),
        Check(r.receiptHash = ReceiptHash(r), {"hash"}),
        Check(r.signedHash = SignedHash(r), {"hash"}),
        Check(\A i \in DOMAIN r.components :
                  r.components[i].signedHash = ComponentHash(r.components[i]), {"hash"}) >>)

\* _make_cached_verifier: True for the entries whose token is still there.
Cached(tokens, id, bundle) ==
    {i \in DOMAIN bundle.signatures : PlannedEntry(id, bundle, i) \in tokens}

\* verify_component_verdicts and validate_receipt_envelope over the cache.
CachedVerdictsError(r, a, tokens) ==
    ComponentVerdictsError(r.components, a.context, a,
        [i \in DOMAIN r.components |->
            Cached(tokens, r.components[i].id, r.components[i].bundle)])

CachedEnvelopeError(r, a, tokens) ==
    ReceiptEnvelopeError(r, a.context, a, Cached(tokens, Orchestrator, r.bundle))

\* Faulty variant: the receipt's own envelope is left for after the callbacks.
RehearsalErrorVerdictsOnly(r, a) ==
    FirstError(<< PlanError(r), CachedVerdictsError(r, a, Plan(r)) >>)

\* Both validators before any callback, as if every callback had succeeded.
\* They ask for each entry of the plan once, which uses up the cache.
RehearsalError(r, a) ==
    FirstError(<<
        PlanError(r),
        CachedVerdictsError(r, a, Plan(r)),
        CachedEnvelopeError(r, a, Plan(r)) >>)

\* Everything before the first callback.
Approvable(r, a) ==
    /\ SnapshotError(r, a) = NoError
    /\ BindReason(r, a) = "V4_VERIFY_OK"
    /\ PrepareError(r, a) = NoError
    /\ RehearsalError(r, a) = NoError

\* And after all of them did.
RevalidationError(r, a) ==
    FirstError(<<
        CachedVerdictsError(r, a, Plan(r)),
        Check(r.results = ExpectedResults(r), {"contract", "signature"}),
        CachedEnvelopeError(r, a, Plan(r)) >>)
=============================================================================
