------------------------- MODULE VerificationAudit -------------------------
(***************************************************************************)
(* verify_v4_receipt_with_audit (v4/verification_audit.py:872-1210): the   *)
(* audited boundary of Shield v4 as a state machine.                       *)
(*                                                                         *)
(* Each call snapshots the receipt the caller holds, checks everything     *)
(* that needs no cryptography, plans every signature callback of the six   *)
(* bundles, rehearses the validators against the plan, runs the callbacks  *)
(* in global order up to the first failure, replays the validators against *)
(* the results, and hands one batch of audit events to a durable sink.     *)
(* The result leaves only on an acknowledgement of exactly that batch.     *)
(*                                                                         *)
(* Calls run concurrently: they share the caller's receipt object, which   *)
(* may change at any time, even while a call copies it, and the sink.  The *)
(* signature backends and the sink are outside src/ and answer in any way  *)
(* their interface allows.                                                 *)
(***************************************************************************)
EXTENDS AuditChecks

CONSTANTS
    Calls,                  \* the calls of the entry point
    Receipts,               \* values the caller's receipt object may hold
    Arguments,              \* trusted arguments: [valid, request, context,
                            \*   registry, minimum, time]
    NoReceipt,
    MaxAuditRecords,        \* verification_audit.py:158
    Interruptions,          \* bound: where a copy may be cut, [early, at, items],
                            \*   when the object changes under it
    MaxMutations            \* bound: changes of the caller's object

ASSUME BoundsAssumption == MaxAuditRecords \in Nat /\ MaxMutations \in Nat

\* REQUIRED_RECEIPT_FIELDS, and the classes that stand for groups of checks.
ReceiptFields ==
    {"json", "fields", "request", "schema", "context", "policy", "header", "version",
     "window", "components", "results", "outcome", "handoff", "bytes", "receiptHash",
     "signedHash", "bundle"}

ASSUME ValuesAssumption ==
    /\ NoReceipt \notin Receipts
    /\ \A r \in Receipts :
           /\ DOMAIN r = ReceiptFields /\ r.fields \in BOOLEAN
           /\ "signatures" \in DOMAIN r.bundle
           /\ Listed(r) /\ Decided(r)
    /\ \A a \in Arguments : IsList(a.registry.entries)

\* A copy is cut between fields or inside a list: a text is copied at once.
ASSUME InterruptionsAssumption ==
    \A cut \in Interruptions : cut.at \in {"none", "components", "results", "bundle"}

\* A receipt whose hashes are those of what it says, as its producer leaves it.
Whole(r) ==
    /\ r.json = "bounded" /\ r.fields /\ r.bytes = "within"
    /\ r.receiptHash = ReceiptHash(r)
    /\ r.signedHash = SignedHash(r)

VARIABLES
    caller,      \* the receipt object in the caller's hands
    mutations,   \* how often it has changed
    held,        \* history: what the object held while each call copied it
    pc,          \* where each call is
    args,        \* the trusted arguments of each call
    receipt,     \* the snapshot a call works on
    remaining,   \* planned callbacks not yet attempted
    asked,       \* history: the callbacks made, with the backend's answer
    work,        \* VerificationWorkCounter
    events,      \* the audit events buffered by a call
    reason,      \* the reason a call will report
    durable,     \* the batches the sink has committed
    ack,         \* the sink's answer to a call
    released     \* the receipt a call returned

vars == <<caller, mutations, held, pc, args, receipt, remaining, asked, work, events,
          reason, durable, ack, released>>

environment == <<caller, mutations, held>>
outcome == <<durable, ack, released>>

Phases == {"idle", "snapshot", "bind", "prepare", "rehearse", "callbacks",
           "revalidate", "commit", "acknowledge",
           "accepted", "rejected", "sink_failed", "refused", "error"}

Concluded == {"accepted", "rejected", "sink_failed", "refused", "error"}

-----------------------------------------------------------------------------
(* Audit events: an exact tagged union. *)

PreflightEvent(a, why) ==
    [type |-> "verification_preflight", request |-> a.request, context |-> a.context,
     minimum |-> a.minimum, passed |-> why = "V4_VERIFY_OK", reason |-> why]

ArtifactEvent(r, id, why) ==
    [type |-> "artifact_verification", artifact |-> id, hash |-> ArtifactHash(r, id),
     passed |-> why = "V4_VERIFY_OK", reason |-> why]

SignatureEvent(r, plan, why) ==
    [type |-> "signature_verification", artifact |-> plan.artifact,
     hash |-> ArtifactHash(r, plan.artifact), key |-> plan.key,
     algorithm |-> plan.algorithm, profile |-> plan.profile,
     passed |-> why = "V4_VERIFY_OK", reason |-> why]

\* What the sink answers when it does not acknowledge.
NoAck == [batch |-> <<>>, durably_committed |-> FALSE]

\* serialize_audit_event and audit_batch_sha256 over the whole batch: only an
\* oversized profile makes a record exceed MAX_AUDIT_RECORD_BYTES.
Serializable(batch) ==
    /\ Len(batch) \in 1..MaxAuditRecords
    /\ \A i \in DOMAIN batch :
           batch[i].type = "signature_verification" => batch[i].profile # "oversized"

-----------------------------------------------------------------------------
(* The steps of a call.                                                     *)

Init ==
    /\ caller \in Receipts
    /\ mutations = 0
    /\ held = [c \in Calls |-> {}]
    /\ pc = [c \in Calls |-> "idle"]
    /\ args \in [Calls -> Arguments]
    /\ receipt = [c \in Calls |-> NoReceipt]
    /\ remaining = [c \in Calls |-> {}]
    /\ asked = [c \in Calls |-> <<>>]
    /\ work = [c \in Calls |-> [total |-> 0, pqc |-> 0]]
    /\ events = [c \in Calls |-> <<>>]
    /\ reason = [c \in Calls |-> "V4_VERIFY_OK"]
    /\ durable = {}
    /\ ack = [c \in Calls |-> NoAck]
    /\ released = [c \in Calls |-> NoReceipt]

\* Malformed trusted arguments raise before an audit batch exists.
RefuseArguments(c) ==
    /\ pc[c] = "idle"
    /\ ~ args[c].valid
    /\ pc' = [pc EXCEPT ![c] = "refused"]
    /\ UNCHANGED <<environment, args, receipt, remaining, asked, work, events, reason, outcome>>

\* The preflight event is built, and the copy of the receipt begins.
Begin(c) ==
    /\ pc[c] = "idle"
    /\ args[c].valid
    /\ pc' = [pc EXCEPT ![c] = "snapshot"]
    /\ events' = [events EXCEPT ![c] = <<PreflightEvent(args[c], "V4_VERIFY_OK")>>]
    /\ receipt' = [receipt EXCEPT ![c] = caller]
    /\ held' = [held EXCEPT ![c] = {caller}]
    /\ UNCHANGED <<caller, mutations, args, remaining, asked, work, reason, outcome>>

\* Faulty variants: the failed event is added to the passed one; the reason is
\* recorded in the batch only.
ProceedAppending(c, why, next) ==
    IF why = "V4_VERIFY_OK"
    THEN /\ pc' = [pc EXCEPT ![c] = next]
         /\ UNCHANGED <<events, reason>>
    ELSE /\ pc' = [pc EXCEPT ![c] = "commit"]
         /\ events' = [events EXCEPT ![c] = Append(@, PreflightEvent(args[c], why))]
         /\ reason' = [reason EXCEPT ![c] = why]

ProceedForgetting(c, why, next) ==
    IF why = "V4_VERIFY_OK"
    THEN /\ pc' = [pc EXCEPT ![c] = next]
         /\ UNCHANGED <<events, reason>>
    ELSE /\ pc' = [pc EXCEPT ![c] = "commit"]
         /\ events' = [events EXCEPT ![c] = <<PreflightEvent(args[c], why)>>]
         /\ UNCHANGED reason

\* Continue with the next stage, or turn the preflight event into the one
\* failed record of a rejection.
Proceed(c, why, next) ==
    IF why = "V4_VERIFY_OK"
    THEN /\ pc' = [pc EXCEPT ![c] = next]
         /\ UNCHANGED <<events, reason>>
    ELSE /\ pc' = [pc EXCEPT ![c] = "commit"]
         /\ events' = [events EXCEPT ![c] = <<PreflightEvent(args[c], why)>>]
         /\ reason' = [reason EXCEPT ![c] = why]

StageReason(error) == IF error = NoError THEN "V4_VERIFY_OK" ELSE PreflightReason(error)

\* A copy the object changed under: the fields of "early" and the first items
\* of the list in field "at" are of one value, the rest is of another.
Spliced(n, s, t) == [i \in DOMAIN t |-> IF i =< n /\ i \in DOMAIN s THEN s[i] ELSE t[i]]

Copied(cut, first, last) ==
    [f \in DOMAIN last |->
        IF f \in cut.early THEN first[f]
        ELSE IF f # cut.at THEN last[f]
        ELSE IF f = "bundle"
        THEN [last.bundle EXCEPT !.signatures = Spliced(cut.items, first.bundle.signatures, @)]
        ELSE Spliced(cut.items, first[f], last[f])]

\* The copy ends, and everything after works on it alone.
Snapshot(c) ==
    /\ pc[c] = "snapshot"
    /\ \E cut \in Interruptions :
           LET copy == Copied(cut, receipt[c], caller) IN
           /\ receipt' = [receipt EXCEPT ![c] = copy]
           /\ Proceed(c, StageReason(SnapshotError(copy, args[c])), "bind")
    /\ UNCHANGED <<environment, args, remaining, asked, work, outcome>>

\* Faulty variant: the bindings are looked at and nothing comes of it.
BindUnheeded(c) ==
    /\ pc[c] = "bind"
    /\ Proceed(c, "V4_VERIFY_OK", "prepare")
    /\ UNCHANGED <<environment, args, receipt, remaining, asked, work, outcome>>

Bind(c) ==
    /\ pc[c] = "bind"
    /\ Proceed(c, BindReason(receipt[c], args[c]), "prepare")
    /\ UNCHANGED <<environment, args, receipt, remaining, asked, work, outcome>>

Prepare(c) ==
    /\ pc[c] = "prepare"
    /\ Proceed(c, StageReason(PrepareError(receipt[c], args[c])), "rehearse")
    /\ UNCHANGED <<environment, args, receipt, remaining, asked, work, outcome>>

Rehearse(c) ==
    /\ pc[c] = "rehearse"
    /\ Proceed(c, StageReason(RehearsalError(receipt[c], args[c])), "callbacks")
    /\ remaining' = [remaining EXCEPT ![c] = Plan(receipt[c])]
    /\ UNCHANGED <<environment, args, receipt, asked, work, outcome>>

\* VerificationWorkCounter.record_callback_attempt, before the callback.
Attempted(w, algorithm) ==
    [total |-> w.total + 1,
     pqc |-> w.pqc + (IF algorithm \in PqcAlgorithms THEN 1 ELSE 0)]

OverBudget(w) == w.total > MaxVerificationCalls \/ w.pqc > MaxPqcVerificationCalls

\* type(answer) must be bool: anything else is a failure of the backend.
AnswerReason ==
    [true |-> "V4_VERIFY_OK", false |-> "V4_SIGNATURE_INVALID",
     raises |-> "V4_BACKEND_FAILURE", not_bool |-> "V4_BACKEND_FAILURE"]

\* One backend callback.  The first that does not answer True ends the plan
\* with a failed artifact event.
Callback(c, answer) ==
    LET plan == NextPlanned(remaining[c])
        spent == Attempted(work[c], plan.algorithm)
        why == AnswerReason[answer]
        event == SignatureEvent(receipt[c], plan, why)
    IN  /\ pc[c] = "callbacks"
        /\ remaining[c] # {}
        /\ ~ OverBudget(spent)
        /\ work' = [work EXCEPT ![c] = spent]
        /\ asked' = [asked EXCEPT ![c] = Append(@, [plan |-> plan, answer |-> answer])]
        /\ remaining' = [remaining EXCEPT ![c] = @ \ {plan}]
        /\ reason' = [reason EXCEPT ![c] = why]
        /\ IF why = "V4_VERIFY_OK"
           THEN /\ events' = [events EXCEPT ![c] = Append(@, event)]
                /\ UNCHANGED pc
           ELSE /\ events' = [events EXCEPT ![c] =
                       @ \o <<event, ArtifactEvent(receipt[c], plan.artifact, why)>>]
                /\ pc' = [pc EXCEPT ![c] = "commit"]
        /\ UNCHANGED <<environment, args, receipt, outcome>>

\* Faulty variant: the required algorithms are enough.
CallbacksEndEarly(c) ==
    /\ pc[c] = "callbacks"
    /\ \A p \in remaining[c] : p.algorithm \notin RequiredAlgorithms
    /\ pc' = [pc EXCEPT ![c] = "revalidate"]
    /\ UNCHANGED <<environment, args, receipt, remaining, asked, work, events, reason, outcome>>

\* The plan is exhausted, or the counter refuses the next callback with an
\* exception nothing handles.
CallbacksEnd(c) ==
    /\ pc[c] = "callbacks"
    /\ remaining[c] # {} =>
           OverBudget(Attempted(work[c], NextPlanned(remaining[c]).algorithm))
    /\ pc' = [pc EXCEPT ![c] = IF remaining[c] = {} THEN "revalidate" ELSE "error"]
    /\ UNCHANGED <<environment, args, receipt, remaining, asked, work, events, reason, outcome>>

\* The existing validators over the cached successes, then the receipt's
\* artifact event.
Revalidate(c) ==
    LET error == RevalidationError(receipt[c], args[c])
        why == IF error = NoError THEN "V4_VERIFY_OK"
               ELSE ClassifyError(error, "V4_CONTRACT_INVALID")
    IN  /\ pc[c] = "revalidate"
        /\ events' = [events EXCEPT ![c] = Append(@, ArtifactEvent(receipt[c], Orchestrator, why))]
        /\ reason' = [reason EXCEPT ![c] = why]
        /\ pc' = [pc EXCEPT ![c] = "commit"]
        /\ UNCHANGED <<environment, args, receipt, remaining, asked, work, outcome>>

\* _commit_records fails on the batch itself, before the sink is asked.
SerializationFails(c) ==
    /\ pc[c] = "commit"
    /\ ~ Serializable(events[c])
    /\ pc' = [pc EXCEPT ![c] = "sink_failed"]
    /\ UNCHANGED <<environment, args, receipt, remaining, asked, work, events, reason, outcome>>

\* The sink's answers: none (also standing for an exception, a malformed
\* answer or a wrong record count), a refusal, or an acknowledgement, which
\* names a durable batch but not always the one just offered.
SinkAnswers(batch, committed) ==
    {NoAck, [batch |-> batch, durably_committed |-> FALSE]} \cup
    {[batch |-> b, durably_committed |-> TRUE] : b \in committed}

\* append_batch is atomic; it may have taken effect whatever it answers.
AppendBatch(c) ==
    /\ pc[c] = "commit"
    /\ Serializable(events[c])
    /\ durable' \in {durable, durable \cup {events[c]}}
    /\ \E answer \in SinkAnswers(events[c], durable') :
           ack' = [ack EXCEPT ![c] = answer]
    /\ pc' = [pc EXCEPT ![c] = "acknowledge"]
    /\ UNCHANGED <<environment, args, receipt, remaining, asked, work, events, reason, released>>

\* Faulty variant: any acknowledgement of a commit will do.
AcknowledgedAny(c) == ack[c].durably_committed

\* The exact acknowledgement of this batch and no other.
Acknowledged(c) == ack[c] = [batch |-> events[c], durably_committed |-> TRUE]

\* Faulty variant: the caller's object is returned and not the snapshot of it.
ConcludeWithTheObject(c) ==
    /\ pc[c] = "acknowledge"
    /\ pc' = [pc EXCEPT ![c] =
           IF ~ Acknowledged(c) THEN "sink_failed"
           ELSE IF reason[c] = "V4_VERIFY_OK" THEN "accepted" ELSE "rejected"]
    /\ released' = [released EXCEPT ![c] = IF pc'[c] = "accepted" THEN caller ELSE @]
    /\ UNCHANGED <<environment, args, receipt, remaining, asked, work, events, reason, durable, ack>>

\* Audit failure always wins; otherwise the rejection, or the receipt.
Conclude(c) ==
    /\ pc[c] = "acknowledge"
    /\ pc' = [pc EXCEPT ![c] =
           IF ~ Acknowledged(c) THEN "sink_failed"
           ELSE IF reason[c] = "V4_VERIFY_OK" THEN "accepted" ELSE "rejected"]
    /\ released' = [released EXCEPT ![c] = IF pc'[c] = "accepted" THEN receipt[c] ELSE @]
    /\ UNCHANGED <<environment, args, receipt, remaining, asked, work, events, reason, durable, ack>>

\* The caller's object changes under the call: another thread, or a callback.
MutateReceipt ==
    /\ mutations < MaxMutations
    /\ \E r \in Receipts \ {caller} : caller' = r
    /\ mutations' = mutations + 1
    /\ held' = [c \in Calls |->
                   IF pc[c] = "snapshot" THEN held[c] \cup {caller'} ELSE held[c]]
    /\ UNCHANGED <<pc, args, receipt, remaining, asked, work, events, reason, outcome>>

Step(c) ==
    \/ RefuseArguments(c) \/ Begin(c) \/ Snapshot(c) \/ Bind(c) \/ Prepare(c) \/ Rehearse(c)
    \/ \E answer \in DOMAIN AnswerReason : Callback(c, answer)
    \/ CallbacksEnd(c) \/ Revalidate(c)
    \/ SerializationFails(c) \/ AppendBatch(c) \/ Conclude(c)

Next == MutateReceipt \/ \E c \in Calls : Step(c)

Spec == Init /\ [][Next]_vars
-----------------------------------------------------------------------------
(* Properties. *)

\* Phases, arguments, counters and what was held stay in their domains, events
\* are a list, and every reason is an audit reason, whatever failed and with
\* whatever words.
TypeOK ==
    /\ caller \in Receipts
    /\ mutations \in 0..MaxMutations
    /\ held \in [Calls -> SUBSET Receipts]
    /\ pc \in [Calls -> Phases]
    /\ args \in [Calls -> Arguments]
    /\ reason \in [Calls -> AuditReasonIds]
    /\ work \in [Calls -> [total : 0..MaxVerificationCalls, pqc : 0..MaxPqcVerificationCalls]]
    /\ DOMAIN receipt = Calls /\ DOMAIN remaining = Calls /\ DOMAIN asked = Calls
    /\ DOMAIN events = Calls /\ DOMAIN ack = Calls /\ DOMAIN released = Calls
    /\ \A c \in Calls : IsList(events[c])

\* What the last event of a batch says of the receipt.
Conclusion(batch) ==
    LET last == batch[Len(batch)] IN
    [result |-> IF last.passed THEN "accepted" ELSE "rejected",
     hash |-> IF last.passed THEN last.hash ELSE <<>>,
     reason |-> last.reason]

Acceptance(r) == [result |-> "accepted", hash |-> SignedHash(r), reason |-> "V4_VERIFY_OK"]
Rejection(why) == [result |-> "rejected", hash |-> <<>>, reason |-> why]

Unannounced(why) == [result |-> "none", hash |-> <<>>, reason |-> why]

\* What a call has told its caller.
Told(c) ==
    IF pc[c] = "accepted" THEN Acceptance(released[c])
    ELSE IF pc[c] = "rejected" THEN Rejection(reason[c])
    ELSE IF pc[c] \in Concluded THEN Unannounced("withheld")
    ELSE Unannounced("undecided")

\* What the durable batches say.
Evidence == {Conclusion(b) : b \in durable}

\* A receipt is returned, and a rejection raised, only when a durable batch
\* of this very call ends with that verdict: on this receipt's hash, or with
\* that reason (v4/verification_audit.py:831-869 and 1200-1210).
VerdictOnlyIfDurable ==
    \A c \in Calls :
        pc[c] \in {"accepted", "rejected"} =>
            /\ events[c] \in durable
            /\ Conclusion(events[c]) = Told(c)

\* The inductive form of VerdictOnlyIfDurable: a batch ends with its verdict
\* as soon as it is complete, and an acknowledgement names a durable batch.
CompleteBatch(c) ==
    pc[c] \in {"commit", "acknowledge", "accepted", "rejected", "sink_failed"} =>
        Conclusion(events[c]) = IF reason[c] = "V4_VERIFY_OK"
                                THEN Acceptance(receipt[c])
                                ELSE Rejection(reason[c])

HonestAck(c) == ack[c].durably_committed => ack[c].batch \in durable

Answered(c) ==
    /\ pc[c] \in {"accepted", "rejected"} => Acknowledged(c)
    /\ pc[c] = "accepted" => reason[c] = "V4_VERIFY_OK" /\ released[c] = receipt[c]
    /\ pc[c] = "rejected" => reason[c] # "V4_VERIFY_OK"

DurabilityInv ==
    /\ TypeOK
    /\ \A c \in Calls : CompleteBatch(c) /\ HonestAck(c) /\ Answered(c)

-----------------------------------------------------------------------------

WindowOf(r, id) == IF id = Orchestrator THEN r.window ELSE Component(r, id).window
EntriesOf(r, id) == Range(BundleOf(r, id).signatures)

\* A signature entry worth asking a backend about: over this artifact's hash,
\* by a key trusted for this role, now and over the artifact's whole window.
SoundEntry(r, a, id, e) ==
    /\ e.hash = ArtifactHash(r, id)
    /\ \E k \in Range(a.registry.entries) :
           /\ Identity(k) = <<id, e.key, e.algorithm>>
           /\ k.status = "active"
           /\ During(a.time, k.window)
           /\ Within(WindowOf(r, id), k.window)

SoundArtifact(r, a, id) ==
    /\ RequiredAlgorithms \subseteq {e.algorithm : e \in EntriesOf(r, id)}
    /\ \A f \in {"algorithm", "key"} :
           IsInjective([i \in DOMAIN BundleOf(r, id).signatures |->
                           BundleOf(r, id).signatures[i][f]])
    /\ During(a.time, WindowOf(r, id))
    /\ \A e \in EntriesOf(r, id) : SoundEntry(r, a, id, e)

\* The verdicts are one per component and the outcome is the most severe.
SoundOutcome(r) ==
    /\ {r.components[i].id : i \in DOMAIN r.components} = Components
    /\ Len(r.components) = Cardinality(Components)
    /\ r.outcome = "ALLOW" <=> Decisions(r.components) = {"ALLOW"}
    /\ r.outcome = "DENY" <=> Decisions(r.components) \cap {"DENY", "ERROR"} # {}
    /\ r.handoff = "allowed" => r.outcome = "ALLOW"

SoundReceipt(r, a) ==
    /\ r.request = a.request
    /\ r.version = a.registry.version /\ a.registry.version >= a.minimum
    /\ \A x \in {r} \cup Range(r.components) : x.context = a.context
    /\ SoundOutcome(r)
    /\ \A id \in Artifacts : SoundArtifact(r, a, id)

\* No backend is called for a receipt that any check without cryptography
\* could have refused: bindings, identities, freshness, roles, trusted keys,
\* policy, hashes and outcome all hold of the whole chain before the first
\* callback (v4/verification_audit.py:910-1134).
BackendsSeeOnlySoundReceipts ==
    \A c \in Calls : asked[c] # <<>> => SoundReceipt(receipt[c], args[c])

\* A returned receipt had every signature of all its bundles, which include
\* the required algorithms of each, answered True by a backend exactly once,
\* and nothing else was asked (v4/verification_audit.py:1086-1198).
AcceptedMeansVerified ==
    \A c \in Calls :
        pc[c] = "accepted" =>
            LET r == released[c]
                approved == [k \in DOMAIN asked[c] |->
                                <<asked[c][k].plan.artifact, asked[c][k].plan.algorithm,
                                  asked[c][k].plan.key>>]
            IN  /\ \A k \in DOMAIN asked[c] : asked[c][k].answer = "true"
                /\ IsInjective(approved)
                /\ Range(approved) =
                       UNION {{<<id, e.algorithm, e.key>> : e \in EntriesOf(r, id)} : id \in Artifacts}
                /\ \A id \in Artifacts : RequiredAlgorithms \subseteq
                       {e.algorithm : e \in EntriesOf(r, id)}

\* The callbacks run in waves, one algorithm over all artifacts before the
\* next, none is repeated and none follows a failure
\* (v4/verification_audit.py:767-828).
CheapestFirst ==
    \A c \in Calls : \A j \in DOMAIN asked[c] : \A i \in 1..(j - 1) :
        /\ asked[c][i].answer = "true"
        /\ asked[c][i].plan # asked[c][j].plan
        /\ AlgorithmRank(asked[c][i].plan.algorithm) =< AlgorithmRank(asked[c][j].plan.algorithm)

\* A batch is one failed preflight of a call that asked nothing, or a passed
\* preflight, the callbacks in the order they were made with what each
\* answered, and one artifact event: of the receipt, or of the artifact whose
\* signature failed (v4/verification_audit.py:354-458, 767-869, 1136-1210).
BatchTellsTheCall ==
    \A c \in Calls :
        pc[c] \in {"commit", "acknowledge", "accepted", "rejected", "sink_failed"} =>
            LET n == Len(asked[c])
                last == events[c][Len(events[c])]
            IN  /\ events[c][1].type = "verification_preflight"
                /\ events[c][1].passed <=> n > 0
                /\ Len(events[c]) = IF n = 0 THEN 1 ELSE n + 2
                /\ \A i \in 1..n :
                       LET e == events[c][i + 1] IN
                       /\ e.type = "signature_verification"
                       /\ e.artifact = asked[c][i].plan.artifact
                       /\ e.algorithm = asked[c][i].plan.algorithm
                       /\ e.passed <=> asked[c][i].answer = "true"
                /\ n > 0 =>
                       /\ last.type = "artifact_verification"
                       /\ last.passed <=> asked[c][n].answer = "true"
                       /\ last.artifact =
                              IF last.passed THEN Orchestrator ELSE asked[c][n].plan.artifact

\* Once the backends have been asked, only their answer can reject: every
\* later check repeats what the rehearsal established
\* (v4/verification_audit.py:1097-1134 against 1153-1198).
OnlyBackendsRejectLate ==
    \A c \in Calls :
        pc[c] = "rejected" /\ asked[c] # <<>> => asked[c][Len(asked[c])].answer # "true"

\* The seven stages with their early ends, three walks and stopped callbacks
\* give the verdict of one decision: a receipt is accepted precisely when it
\* passes every check and every callback made said True, and a call that made
\* none rejects for a check (v4/verification_audit.py:910-1208).
DecidesAsOne ==
    \A c \in Calls :
        pc[c] \in {"accepted", "rejected"} =>
            (pc[c] = "accepted" <=>
                /\ Approvable(receipt[c], args[c])
                /\ \A k \in DOMAIN asked[c] : asked[c][k].answer = "true")

\* A returned receipt is one the caller's object held while it was copied: it
\* carries the signed hash of a value of that time and, where that value's
\* hashes were those of its contents, says exactly what it said.  It is no
\* mixture of two values the copy straddled and nothing the object held only
\* later; the signatures alone may come from both (v4/work_budget.py:78-146 and
\* v4/verification_audit.py:911, with the hashes of 1034-1069).
NeverAMixture ==
    \A c \in Calls :
        pc[c] = "accepted" =>
            \E r \in held[c] :
                /\ released[c].signedHash = r.signedHash
                /\ Whole(r) => \A f \in DOMAIN r \ {"bundle"} : released[c][f] = r[f]

\* The work counter never refuses a callback of an approved plan, which would
\* end the call after callbacks no audit batch tells of (v4/work_budget.py:52-61
\* and 181-191, v4/verification_audit.py:804).
PlannedWorkFits == \A c \in Calls : pc[c] # "error"

\* Receipt-controlled verification failures are audited: no rejection is lost
\* before the sink is asked (docs/v4/SHIELD_V4_VERIFICATION_AUDIT_V1.md:56-57).
FailuresReachTheSink ==
    \A c \in Calls :
        pc[c] = "sink_failed" /\ reason[c] # "V4_VERIFY_OK" => Serializable(events[c])

Promise == INSTANCE AuditedVerdict WITH
    Undecided <- Unannounced("undecided"),
    Withheld <- Unannounced("withheld"),
    evidence <- Evidence,
    verdict <- [c \in Calls |-> Told(c)]

\* The boundary keeps the promise of AuditedVerdict.
KeepsThePromise == Promise!Spec
=============================================================================
