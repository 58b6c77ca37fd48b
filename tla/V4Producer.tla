----------------------------- MODULE V4Producer -----------------------------
(***************************************************************************)
(* From the components' verdicts to AdamantineOS: the receipt producer     *)
(* (v4/orchestrate.py) composed with the components that sign, the trusted *)
(* registry as it rotates, the verification clock, and the audited         *)
(* boundary, which is taken as the one decision VerificationAudit shows it *)
(* to make.                                                                *)
(*                                                                         *)
(* The producer copies only the top level of each verdict                  *)
(* ({**verdict, ...}): the bundles inside stay the caller's objects.  So   *)
(* a receipt is held as top-level copies, and every use of it reads the    *)
(* bundles the caller's objects hold at that moment.                       *)
(*                                                                         *)
(* Signatures are ideal: an entry verifies when this very entry was made   *)
(* by the signer of the role.  The test-only signatures of the code, one   *)
(* digest over hash, algorithm, profile and key, are of this kind.         *)
(***************************************************************************)
EXTENDS AuditChecks

CONSTANTS
    Statements,        \* what components may sign: [id, form, context, window,
                       \*   decision, algorithms, profile, json, bytes]
    Orders,            \* how the producer may be called: [request, context,
                       \*   window, handoff, algorithms, json, bytes]
    MaxReceiptBytes,   \* what the boundary admits of all parts together
    Registries,        \* the trusted registry, one value after the other
    TestKey(_, _),     \* the key id "test-<role>-<algorithm>-v1", version 1
    Altered(_),        \* other values a bundle object may be changed into
    Forwarded(_),      \* what may reach the boundary for a receipt
    Start, End,        \* the times the clock runs through
    MaxIssued,         \* bound: verdicts signed
    MaxChanges         \* bound: changes of the caller's objects

ASSUME FlowAssumption ==
    /\ Start \in Nat /\ End \in Nat /\ Start =< End
    /\ MaxIssued \in Nat /\ MaxChanges \in Nat

\* Registries are lists of keys; a statement is about a component and has a
\* decision of the verdict contract (v4/component_verdicts.py:126-131, 146-147).
ASSUME StatementsAssumption ==
    /\ IsList(Registries) /\ Registries # <<>>
    /\ \A i \in DOMAIN Registries : IsList(Registries[i].entries)
    /\ \A s \in Statements :
           /\ s.id \in Components /\ s.decision \in SupportedDecisions
           /\ s.form \in {"ok", "padded"} /\ s.profile \in SupportedProfiles
    /\ \A o \in Orders : IsList(o.algorithms)

\* What a loaded registry, a verdict and an order say of times and versions is
\* numbers (v4/key_registry.py:41-44, 66, 91-93).
ASSUME TimesAssumption ==
    /\ \A i \in DOMAIN Registries :
           /\ Registries[i].version \in Int
           /\ \A k \in Range(Registries[i].entries) : IsWindow(k.window)
    /\ \A x \in Statements \cup Orders : IsWindow(x.window)

\* policy.v1 fits a bundle of two or three signatures, and the work budget
\* every receipt it allows (v4/crypto_algorithms.py:26-30,
\* v4/work_budget.py:21-25).
ASSUME PolicyAssumption ==
    /\ Cardinality(RequiredAlgorithms) >= 2
    /\ Cardinality(SupportedAlgorithms) =< 3
    /\ Cardinality(Artifacts) * Cardinality(SupportedAlgorithms) =< MaxVerificationCalls
    /\ Cardinality(Artifacts) * Cardinality(PqcAlgorithms) =< MaxPqcVerificationCalls

VARIABLES
    now,         \* the verification time callers pass
    published,   \* how many registries have been published; the last is trusted
    issued,      \* history: the verdicts components signed
    sealed,      \* history: what the Orchestrator signed, [payload, entries]
    offers,      \* the verdict objects in the caller's list
    changes,     \* how often one of them changed during a call
    pc,          \* where the producer is
    order,       \* its arguments
    trust,       \* the registry and time it was called with
    taken,       \* verified so far: the top-level copy and the summary of each
    summary,     \* the summary of the verdict just checked
    receipt,     \* the receipt being made
    judged       \* what the boundary was given and said

vars == <<now, published, issued, sealed, offers, changes, pc, order, trust, taken,
          summary, receipt, judged>>

world == <<now, published, issued>>
given == <<order, trust>>

Phases == {"idle", "verify", "copy", "build", "sign", "hash", "seal", "validate",
           "failed", "released", "judged"}

Current == Registries[published]

NoOrder == [request |-> "none", context |-> "none"]
NoTrust == [registry |-> [version |-> 0, entries |-> <<>>], time |-> 0]
NoSummary == <<>>
NoReceipt == <<>>
NoJudgement == <<>>

-----------------------------------------------------------------------------
(* Signing. *)

\* build_test_component_signature_entry and
\* build_test_only_orchestrator_signature_entry: always version 1 of the key.
\* Both write the profile exactly; a component of its own make may pad it, as
\* the signature is over the profile as it is written.
SignatureEntry(role, algorithm, profile, hash, domain) ==
    [algorithm |-> algorithm, profile |-> profile, key |-> TestKey(role, algorithm),
     hash |-> hash, domain |-> domain, signature |-> "bytes"]

\* build_signature_bundle over the entries of the given algorithms.
SignatureBundleOf(role, algorithms, profile, hash, domain) ==
    [form |-> "ok",
     signatures |-> [i \in DOMAIN algorithms |->
                        SignatureEntry(role, algorithms[i], profile, hash, domain)]]

\* "json" says whether each value of the artifact is within the limits the
\* boundary has for single values, texts, numbers, nesting and bundles;
\* "bytes" is what the artifact adds to the limits on the receipt as a whole.
UnsignedVerdict(s) ==
    [id |-> s.id, form |-> s.form, request |-> "request", context |-> s.context,
     version |-> Current.version, window |-> s.window, decision |-> s.decision,
     json |-> s.json, bytes |-> s.bytes, signedHash |-> <<>>,
     bundle |-> SignatureBundleOf(s.id, <<>>, s.profile, <<>>, <<>>)]

\* A component's signed verdict, under the registry version now trusted.
SignedVerdict(s) ==
    LET v == UnsignedVerdict(s) IN
    [v EXCEPT !.signedHash = ComponentHash(v),
              !.bundle = SignatureBundleOf(s.id, s.algorithms, s.profile, ComponentHash(v),
                                           COMPONENT_VERDICT_DOMAIN)]

\* verify_test_only_component_signature, verify_test_only_orchestrator_signature
Verifies(role, e) ==
    IF role = Orchestrator
    THEN \E s \in sealed : e \in s.entries
    ELSE \E v \in issued : v.id = role /\ e \in Range(v.bundle.signatures)

VerifiedAt(role, bundle) == {i \in DOMAIN bundle.signatures : Verifies(role, bundle.signatures[i])}

-----------------------------------------------------------------------------
(* The receipt in the producer's hands. *)

\* The copy made of the verdict object at position i, with the bundle that
\* object holds now.
Held(i) == [taken[i].verdict EXCEPT !.bundle = offers[i].bundle]

\* sorted(..., key=component_id)
TakenFrom(id) == CHOOSE i \in DOMAIN taken : taken[i].verdict.id = id

HeldComponents == [k \in DOMAIN ComponentOrder |-> Held(TakenFrom(ComponentOrder[k]))]

\* Faulty variant: the summaries in the order the verdicts came.
SummariesAsTheyCame == [k \in DOMAIN ComponentOrder |-> taken[k].summary]

Summaries == [k \in DOMAIN ComponentOrder |-> taken[TakenFrom(ComponentOrder[k])].summary]

\* _snapshot_json, on what the receipt is made of: nothing on the producer's
\* side looks at any limit.
JsonOf(o, components) ==
    IF o.json = "bounded" /\ \A i \in DOMAIN components : components[i].json = "bounded"
    THEN "bounded" ELSE "unbounded"

\* The limits on the receipt as a whole, on its nodes, its scalars and its
\* canonical form, as one number.
Bytes(o, components) ==
    o.bytes + MapThenSumSet(LAMBDA i : components[i].bytes, DOMAIN components)

\* build_unsigned_receipt_payload
UnsignedReceipt ==
    [json |-> JsonOf(order, HeldComponents), fields |-> TRUE, request |-> order.request,
     schema |-> "shield.receipt.v2", context |-> order.context, policy |-> TRUE,
     header |-> "ok", version |-> trust.registry.version, window |-> order.window,
     components |-> HeldComponents, results |-> Summaries,
     outcome |-> ExpectedFinalOutcome(HeldComponents), handoff |-> order.handoff,
     bytes |-> IF Bytes(order, HeldComponents) =< MaxReceiptBytes THEN "within" ELSE "over",
     receiptHash |-> <<>>, signedHash |-> <<>>,
     bundle |-> SignatureBundleOf(Orchestrator, <<>>, "exact", <<>>, <<>>)]

\* The receipt as whoever holds it reads it now.
HeldReceipt == [receipt EXCEPT !.components = HeldComponents]

-----------------------------------------------------------------------------

Init ==
    /\ now = Start
    /\ published = 1
    /\ issued = {}
    /\ sealed = {}
    /\ offers = <<>>
    /\ changes = 0
    /\ pc = "idle"
    /\ order = NoOrder
    /\ trust = NoTrust
    /\ taken = <<>>
    /\ summary = NoSummary
    /\ receipt = NoReceipt
    /\ judged = NoJudgement

\* Nothing is left that looks at the clock or the registry.
Ended == pc \in {"failed", "judged"}

Tick ==
    /\ now < End /\ ~Ended
    /\ now' = now + 1
    /\ UNCHANGED <<published, issued, sealed, offers, changes, pc, given, taken, summary,
                   receipt, judged>>

Publish ==
    /\ published < Len(Registries) /\ ~Ended
    /\ published' = published + 1
    /\ UNCHANGED <<now, issued, sealed, offers, changes, pc, given, taken, summary,
                   receipt, judged>>

\* A component signs a verdict.
Issue(s) ==
    /\ pc = "idle"
    /\ Cardinality(issued) < MaxIssued
    /\ issued' = issued \cup {SignedVerdict(s)}
    /\ UNCHANGED <<now, published, sealed, offers, changes, pc, given, taken, summary,
                   receipt, judged>>

Lists(S) == UNION {[1..n -> S] : n \in 1..Len(ComponentOrder)}

\* The entry point: the registry is loaded, the number of verdicts counted.
Call(list, o) ==
    /\ pc = "idle"
    /\ offers' = list
    /\ order' = o
    /\ trust' = [registry |-> Current, time |-> now]
    /\ pc' = IF RegistryError(Current) = NoError /\ Len(list) = Len(ComponentOrder)
             THEN "verify" ELSE "failed"
    /\ UNCHANGED <<world, sealed, changes, taken, summary, receipt, judged>>

\* One turn of verify_component_verdicts: the verdict's envelope.
CheckVerdict ==
    LET v == offers[Len(taken) + 1]
        s == v.bundle.signatures
    IN  /\ pc = "verify"
        /\ IF ComponentEnvelopeError(v, order.context, trust, VerifiedAt(v.id, v.bundle)) = NoError
           THEN /\ pc' = "copy"
                /\ summary' = [id |-> v.id,
                               algorithms |-> [i \in DOMAIN s |-> s[i].algorithm],
                               profiles |-> [i \in DOMAIN s |-> "exact"]]
           ELSE /\ pc' = "failed"
                /\ UNCHANGED summary
        /\ UNCHANGED <<world, sealed, offers, changes, given, taken, receipt, judged>>

\* Faulty variant: the ids seen before are not looked at.
CopyVerdictAnyId ==
    LET v == offers[Len(taken) + 1] IN
    /\ pc = "copy"
    /\ taken' = Append(taken, [verdict |-> v, summary |-> [summary EXCEPT !.id = v.id]])
    /\ pc' = IF Len(taken') = Len(ComponentOrder) THEN "build" ELSE "verify"
    /\ summary' = NoSummary
    /\ UNCHANGED <<world, sealed, offers, changes, given, receipt, judged>>

\* Its component id as it is written.
RawId(v) == <<v.id, v.form>>

\* Its top level is copied, and its id looked up among those seen, as written:
\* one component under two spellings comes through.
CopyVerdict ==
    LET v == offers[Len(taken) + 1] IN
    /\ pc = "copy"
    /\ taken' = Append(taken, [verdict |-> v, summary |-> [summary EXCEPT !.id = v.id]])
    /\ pc' = IF \E i \in DOMAIN taken : RawId(taken[i].verdict) = RawId(v) THEN "failed"
             ELSE IF Len(taken') = Len(ComponentOrder) THEN "build"
             ELSE "verify"
    /\ summary' = NoSummary
    /\ UNCHANGED <<world, sealed, offers, changes, given, receipt, judged>>

OneEach == \A i, j \in DOMAIN taken : taken[i].verdict.id = taken[j].verdict.id => i = j

\* build_unsigned_receipt_payload makes the checks its validator repeats.  The
\* first is that the verdicts are of different components, ids stripped.
Build ==
    /\ pc = "build"
    /\ IF OneEach /\ SemanticsError(UnsignedReceipt, order.context) = NoError
       THEN /\ receipt' = UnsignedReceipt
            /\ pc' = "sign"
       ELSE /\ pc' = "failed"
            /\ UNCHANGED receipt
    /\ UNCHANGED <<world, sealed, offers, changes, given, taken, summary, judged>>

\* The shell's hash is signed with each algorithm of the order.
Sign ==
    LET bundle == SignatureBundleOf(Orchestrator, order.algorithms, "exact",
                                    SignedHash(HeldReceipt), ORCHESTRATOR_RECEIPT_DOMAIN)
    IN  /\ pc = "sign"
        /\ sealed' = sealed \cup {[payload |-> ReceiptPayload(HeldReceipt),
                                   entries |-> Range(bundle.signatures)]}
        /\ receipt' = [receipt EXCEPT !.bundle = bundle]
        /\ pc' = "hash"
        /\ UNCHANGED <<world, offers, changes, given, taken, summary, judged>>

\* build_signed_receipt_envelope again, with the signatures: both hashes anew,
\* one after the other, each over the components' bundles as they are then.
HashReceipt ==
    /\ pc = "hash"
    /\ receipt' = [receipt EXCEPT !.receiptHash = ReceiptHash(HeldReceipt)]
    /\ pc' = "seal"
    /\ UNCHANGED <<world, sealed, offers, changes, given, taken, summary, judged>>

SealEnvelope ==
    /\ pc = "seal"
    /\ receipt' = [receipt EXCEPT !.signedHash = SignedHash(HeldReceipt)]
    /\ pc' = "validate"
    /\ UNCHANGED <<world, sealed, offers, changes, given, taken, summary, judged>>

\* The producer validates its own receipt before it returns it.
Validate ==
    /\ pc = "validate"
    /\ pc' = IF ReceiptEnvelopeError(HeldReceipt, order.context, trust,
                                     VerifiedAt(Orchestrator, receipt.bundle)) = NoError
             THEN "released" ELSE "failed"
    /\ UNCHANGED <<world, sealed, offers, changes, given, taken, summary, receipt, judged>>

\* One of the caller's verdict objects is changed, into another verdict or in
\* its bundle.  The copies already made keep their top level.
Change(i) ==
    /\ changes < MaxChanges
    /\ pc # "idle" /\ ~Ended
    /\ \E v \in (issued \cup {[offers[i] EXCEPT !.bundle = b] : b \in Altered(offers[i].bundle)})
                    \ {offers[i]} :
           offers' = [offers EXCEPT ![i] = v]
    /\ changes' = changes + 1
    /\ UNCHANGED <<world, sealed, pc, given, taken, summary, receipt, judged>>

\* verify_v4_receipt_with_audit, when backends and sink work: everything the
\* boundary checks, and True for each planned entry.
Accepts(r, a) ==
    /\ Approvable(r, a)
    /\ \A i \in DOMAIN r.components : LET c == r.components[i] IN
           VerifiedAt(c.id, c.bundle) = DOMAIN c.bundle.signatures
    /\ VerifiedAt(Orchestrator, r.bundle) = DOMAIN r.bundle.signatures
    /\ RevalidationError(r, a) = NoError

\* AdamantineOS hands what reached it to the boundary, with its own request,
\* context, registry and time.
Judge(o) ==
    LET a == [valid |-> TRUE, request |-> o.request, context |-> o.context,
              registry |-> Current, minimum |-> Current.version, time |-> now]
    IN  /\ pc = "released"
        /\ \E r \in {HeldReceipt} \cup Forwarded(HeldReceipt) :
               /\ Listed(r)
               /\ judged' = [receipt |-> r, args |-> a, accepted |-> Accepts(r, a)]
        /\ pc' = "judged"
        /\ UNCHANGED <<world, sealed, offers, changes, given, taken, summary, receipt>>

Produce == CheckVerdict \/ CopyVerdict \/ Build \/ Sign \/ HashReceipt \/ SealEnvelope
           \/ Validate

Next ==
    \/ Tick \/ Publish
    \/ \E s \in Statements : Issue(s)
    \/ \E list \in Lists(issued), o \in Orders : Call(list, o)
    \/ Produce
    \/ \E i \in DOMAIN offers : Change(i)
    \/ \E o \in Orders : Judge(o)

Spec == Init /\ [][Next]_vars
-----------------------------------------------------------------------------
(* Properties. *)

\* The clock, the registry, the phase and the changes stay in their domains; no
\* component id is taken twice as it is written, whatever becomes of the
\* objects meanwhile, and a receipt is only made of one verdict for each
\* component (v4/component_verdicts.py:248-263,
\* v4/contracts/v4_receipt.py:252).
TypeOK ==
    /\ now \in Start..End
    /\ published \in DOMAIN Registries
    /\ changes \in 0..MaxChanges
    /\ pc \in Phases
    /\ pc \in {"build", "sign", "hash", "seal", "validate", "released", "judged"} =>
           /\ Len(taken) = Len(ComponentOrder)
           /\ \A i, j \in DOMAIN taken : RawId(taken[i].verdict) = RawId(taken[j].verdict) => i = j
    /\ pc \in {"sign", "hash", "seal", "validate", "released", "judged"} =>
           {taken[i].verdict.id : i \in DOMAIN taken} = Components

Accepted == pc = "judged" /\ judged.accepted

\* An ALLOW that the boundary accepts stands for an ALLOW that each component
\* signed, in the verifier's own context, under the registry version and at a
\* time the verifier trusts now, whatever became of the verdicts, the receipt
\* and the registry in between (v4/orchestrate.py:72-130 with
\* v4/verification_audit.py:910-1210).
AllowedByAll ==
    Accepted /\ judged.receipt.outcome = "ALLOW" =>
        \A id \in Components : \E v \in issued :
            /\ v.id = id
            /\ v.decision = "ALLOW"
            /\ v.context = judged.args.context
            /\ v.version = judged.args.registry.version
            /\ During(judged.args.time, v.window)

SealedAs(r) == {s \in sealed : s.payload = ReceiptPayload(r)}
IssuedAs(c) == {v \in issued : ComponentPayload(v) = ComponentPayload(c)}

\* An accepted receipt says what the Orchestrator signed, every verdict in it
\* is one its component signed, and none of the signatures in it was made for
\* anything else (v4/contracts/v4_receipt.py:333-355,
\* v4/component_verdicts.py:217-236).
AcceptedIsGenuine ==
    Accepted =>
        LET r == judged.receipt IN
        /\ SealedAs(r) # {}
        /\ Range(r.bundle.signatures) \subseteq UNION {s.entries : s \in SealedAs(r)}
        /\ \A i \in DOMAIN r.components : LET c == r.components[i] IN
               /\ IssuedAs(c) # {}
               /\ Range(c.bundle.signatures) \subseteq
                      UNION {Range(v.bundle.signatures) : v \in IssuedAs(c)}

Windows(r) == {r.window} \cup {r.components[i].window : i \in DOMAIN r.components}

\* What the boundary asks of an honest receipt and the producer does not: every
\* value, the receipt as a whole and the registry within the work budget, the
\* components' ids and profiles without white space, and every artifact inside
\* its window.
Presentable(r, a) ==
    /\ JsonOf(order, r.components) = "bounded"
    /\ Bytes(order, r.components) =< MaxReceiptBytes
    /\ Len(a.registry.entries) =< MaxRegistryEntries
    /\ \A i \in DOMAIN r.components : LET c == r.components[i] IN
           /\ c.form # "padded"
           /\ \A e \in Range(c.bundle.signatures) : e.profile = "exact"
    /\ \A w \in Windows(r) : During(a.time, w)

\* The producer and the boundary validate the same receipt in different code
\* and order.  While nothing has changed since, the boundary accepts what the
\* producer released exactly when it is presentable: what the producer does not
\* ask for is what it may be refused for, and nothing else
\* (v4/orchestrate.py:72-130 and v4/signature_bundle.py:109, 169 against
\* v4/work_budget.py:13-31 and v4/verification_audit.py:526-529, 590-595,
\* 735-764, 910-1198).
ReleasedIsAccepted ==
    pc = "judged" =>
        LET r == judged.receipt
            a == judged.args
        IN  (/\ changes = 0
             /\ r = HeldReceipt
             /\ a.registry = trust.registry
             /\ a.request = r.request /\ a.context = r.context)
            => (judged.accepted <=> Presentable(r, a))

\* The Orchestrator's signing keys are fixed at version 1.  Once the registry
\* it is given no longer has them active, it releases nothing
\* (v4/orchestrate.py:43-45, v4/key_registry.py:127-162).
RevokedKeysReleaseNothing ==
    pc \in {"released", "judged"} =>
        \A e \in Range(receipt.bundle.signatures) :
            \E k \in Range(trust.registry.entries) :
                /\ Identity(k) = <<Orchestrator, e.key, e.algorithm>>
                /\ k.status = "active"
                /\ During(trust.time, k.window)
                /\ Within(receipt.window, k.window)
=============================================================================
