---------------------- MODULE VerificationAuditProofs ----------------------
(***************************************************************************)
(* Theorems of VerificationAudit for every number of calls and components, *)
(* every set of receipts, trusted arguments, registries and budgets.       *)
(***************************************************************************)
EXTENDS VerificationAudit, VerificationErrorsProofs, SequenceTheorems

-----------------------------------------------------------------------------
(* Batches of events as lists. *)

LEMMA SeqIsList ==
    ASSUME NEW S, NEW s \in Seq(S)
    PROVE  IsList(s)
<1>1. s \in [1..Len(s) -> Range(s)] /\ Len(s) \in Nat
  BY DEF Range
<1> QED
  BY <1>1 DEF IsList

LEMMA SingletonBatch ==
    ASSUME NEW e
    PROVE  IsList(<<e>>) /\ Len(<<e>>) = 1 /\ <<e>>[1] = e
<1>1. <<e>> \in Seq({e})
  OBVIOUS
<1> QED
  BY <1>1, SeqIsList

LEMMA AppendedBatch ==
    ASSUME NEW s, IsList(s), NEW e
    PROVE  /\ IsList(Append(s, e))
           /\ Append(s, e)[Len(Append(s, e))] = e
<1>1. s \in Seq(Range(s) \cup {e})
  BY DEF IsList
<1>2. /\ Append(s, e) \in Seq(Range(s) \cup {e})
      /\ Append(s, e)[Len(Append(s, e))] = e
  BY <1>1, AppendProperties
<1> QED
  BY <1>2, SeqIsList

LEMMA ExtendedBatch ==
    ASSUME NEW s, IsList(s), NEW e, NEW f
    PROVE  /\ IsList(s \o <<e, f>>)
           /\ (s \o <<e, f>>)[Len(s \o <<e, f>>)] = f
<1> DEFINE S == Range(s) \cup {e, f}
<1>1. s \in Seq(S) /\ <<e, f>> \in Seq(S) /\ Len(<<e, f>>) = 2 /\ <<e, f>>[2] = f
  BY DEF IsList
<1>2. s \o <<e, f>> \in Seq(S) /\ Len(s \o <<e, f>>) = Len(s) + 2
  BY <1>1, ConcatProperties
<1>3. (s \o <<e, f>>)[Len(s) + 2] = f
  BY <1>1, ConcatProperties
<1> QED
  BY <1>2, <1>3, SeqIsList

-----------------------------------------------------------------------------
(* Reasons. *)

\* A stage of the preflight passes, or names a reason of failure.
LEMMA StageReasonIsAReason ==
    ASSUME NEW error
    PROVE  StageReason(error) \in AuditReasonIds
  BY PreflightReasonIsAFailure DEF StageReason, AuditReasonIds

LEMMA BindReasonIsAReason ==
    ASSUME NEW r, NEW a
    PROVE  BindReason(r, a) \in AuditReasonIds
  BY DEF BindReason, AuditReasonIds

LEMMA RevalidationReasonIsAReason ==
    ASSUME NEW error
    PROVE  (IF error = NoError THEN "V4_VERIFY_OK"
            ELSE ClassifyError(error, "V4_CONTRACT_INVALID")) \in AuditReasonIds
<1>1. "V4_CONTRACT_INVALID" \in AuditReasonIds \ {"V4_VERIFY_OK"}
  BY DEF AuditReasonIds
<1> QED
  BY <1>1, ClassIsAReason DEF AuditReasonIds

LEMMA AnswerReasonIsAReason ==
    ASSUME NEW answer \in DOMAIN AnswerReason
    PROVE  AnswerReason[answer] \in AuditReasonIds
  BY DEF AnswerReason, AuditReasonIds

-----------------------------------------------------------------------------
(* Conclusions. *)

LEMMA PreflightConclusion ==
    ASSUME NEW a, NEW why, why # "V4_VERIFY_OK"
    PROVE  Conclusion(<<PreflightEvent(a, why)>>) = Rejection(why)
<1> DEFINE e == PreflightEvent(a, why)
<1>1. e.reason = why /\ ~ e.passed
  BY Zenon DEF PreflightEvent
<1>2. <<e>>[Len(<<e>>)] = e
  BY SingletonBatch
<1>3. Conclusion(<<e>>) = Rejection(why)
  <2> HIDE DEF e
  <2> QED
    BY <1>1, <1>2 DEF Conclusion, Rejection
<1> QED
  BY <1>3

LEMMA ArtifactConclusion ==
    ASSUME NEW batch, NEW r, NEW id, NEW why,
           batch[Len(batch)] = ArtifactEvent(r, id, why),
           why = "V4_VERIFY_OK" => id = Orchestrator
    PROVE  Conclusion(batch) = IF why = "V4_VERIFY_OK" THEN Acceptance(r) ELSE Rejection(why)
<1> DEFINE e == ArtifactEvent(r, id, why)
<1>1. e.reason = why /\ (e.passed <=> why = "V4_VERIFY_OK") /\ e.hash = ArtifactHash(r, id)
  BY Zenon DEF ArtifactEvent
<1>2. batch[Len(batch)] = e
  OBVIOUS
<1>3. why = "V4_VERIFY_OK" => ArtifactHash(r, id) = SignedHash(r)
  BY DEF ArtifactHash
<1> QED
  <2> HIDE DEF e
  <2> QED
    BY <1>1, <1>2, <1>3 DEF Conclusion, Acceptance, Rejection

-----------------------------------------------------------------------------
(* The inductive invariant. *)

\* The part of DurabilityInv about one call.
CallInv(c) == CompleteBatch(c) /\ HonestAck(c) /\ Answered(c)

\* A step that leaves everything of a call alone and loses no durable batch
\* keeps the call's part of the invariant.
LEMMA OtherCalls ==
    ASSUME NEW d \in Calls, CallInv(d),
           pc'[d] = pc[d], receipt'[d] = receipt[d], events'[d] = events[d],
           reason'[d] = reason[d], ack'[d] = ack[d], released'[d] = released[d],
           durable \subseteq durable'
    PROVE  CallInv(d)'
  BY DEF CallInv, CompleteBatch, HonestAck, Answered, Acknowledged

\* A stage of the preflight goes on, or ends the call's batch with its reason.
LEMMA StageKeepsInv ==
    ASSUME NEW c \in Calls, NEW why \in AuditReasonIds, NEW next \in Phases,
           next \notin {"commit", "acknowledge", "accepted", "rejected", "sink_failed"},
           DurabilityInv,
           Proceed(c, why, next),
           \A d \in Calls \ {c} : receipt'[d] = receipt[d],
           DOMAIN receipt' = Calls, DOMAIN remaining' = Calls,
           UNCHANGED <<environment, args, asked, work, outcome>>
    PROVE  DurabilityInv'
<1> USE DEF DurabilityInv, TypeOK, environment, outcome
<1>1. CASE why = "V4_VERIFY_OK"
  <2>1. pc' = [pc EXCEPT ![c] = next] /\ UNCHANGED <<events, reason>>
    BY <1>1 DEF Proceed
  <2>2. TypeOK'
    BY <2>1
  <2>3. ASSUME NEW d \in Calls PROVE CallInv(d)'
    <3>1. CASE d = c
      BY <2>1, <3>1 DEF CallInv, CompleteBatch, HonestAck, Answered
    <3>2. CASE d # c
      BY <2>1, <3>2, OtherCalls DEF CallInv
    <3> QED
      BY <3>1, <3>2
  <2> QED
    BY <2>2, <2>3 DEF CallInv
<1>2. CASE why # "V4_VERIFY_OK"
  <2>1. /\ pc' = [pc EXCEPT ![c] = "commit"]
        /\ events' = [events EXCEPT ![c] = <<PreflightEvent(args[c], why)>>]
        /\ reason' = [reason EXCEPT ![c] = why]
    BY <1>2 DEF Proceed
  <2>2. TypeOK'
    BY <2>1, SingletonBatch DEF Phases
  <2>3. ASSUME NEW d \in Calls PROVE CallInv(d)'
    <3>1. CASE d = c
      <4>1. Conclusion(events'[c]) = Rejection(why)
        BY <1>2, <2>1, PreflightConclusion
      <4> QED
        BY <1>2, <2>1, <3>1, <4>1 DEF CallInv, CompleteBatch, HonestAck, Answered
    <3>2. CASE d # c
      BY <2>1, <3>2, OtherCalls DEF CallInv
    <3> QED
      BY <3>1, <3>2
  <2> QED
    BY <2>2, <2>3 DEF CallInv
<1> QED
  BY <1>1, <1>2

LEMMA InitInv == Init => DurabilityInv
<1> SUFFICES ASSUME Init PROVE DurabilityInv
  OBVIOUS
<1>1. TypeOK
  <2>1. IsList(<<>>)
    BY DEF IsList
  <2>2. "idle" \in Phases /\ "V4_VERIFY_OK" \in AuditReasonIds
    BY DEF Phases, AuditReasonIds
  <2> QED
    BY <2>1, <2>2, WorkAssumption, BoundsAssumption DEF Init, TypeOK
<1>2. ASSUME NEW c \in Calls PROVE CompleteBatch(c) /\ HonestAck(c) /\ Answered(c)
  BY DEF Init, CompleteBatch, HonestAck, Answered, NoAck
<1> QED
  BY <1>1, <1>2 DEF DurabilityInv

LEMMA PreflightKeepsInv ==
    ASSUME NEW c \in Calls, DurabilityInv,
           Begin(c) \/ Snapshot(c) \/ Bind(c) \/ Prepare(c) \/ Rehearse(c)
    PROVE  DurabilityInv'
<1> USE DEF DurabilityInv, TypeOK
<1>1. CASE Begin(c)
  <2>1. TypeOK'
    BY <1>1, SingletonBatch DEF Begin, environment, outcome, Phases
  <2>2. ASSUME NEW d \in Calls PROVE CallInv(d)'
    <3>1. CASE d = c
      BY <1>1, <3>1 DEF Begin, outcome, CallInv, CompleteBatch, HonestAck, Answered
    <3>2. CASE d # c
      BY <1>1, <3>2, OtherCalls DEF Begin, outcome, CallInv
    <3> QED
      BY <3>1, <3>2
  <2> QED
    BY <2>1, <2>2 DEF CallInv
<1>2. CASE Snapshot(c)
  <2>1. PICK early \in Interruptions :
            LET copy == Copied(early, receipt[c], caller) IN
            /\ receipt' = [receipt EXCEPT ![c] = copy]
            /\ Proceed(c, StageReason(SnapshotError(copy, args[c])), "bind")
    BY <1>2 DEF Snapshot
  <2> DEFINE why == StageReason(SnapshotError(Copied(early, receipt[c], caller), args[c]))
  <2>2. why \in AuditReasonIds
    BY StageReasonIsAReason
  <2>3. Proceed(c, why, "bind")
    BY <2>1
  <2> HIDE DEF why
  <2> QED
    BY <1>2, <2>1, <2>2, <2>3, StageKeepsInv DEF Snapshot, Phases
<1>3. CASE Bind(c)
  BY <1>3, StageKeepsInv, BindReasonIsAReason DEF Bind, Phases
<1>4. CASE Prepare(c)
  BY <1>4, StageKeepsInv, StageReasonIsAReason DEF Prepare, Phases
<1>5. CASE Rehearse(c)
  BY <1>5, StageKeepsInv, StageReasonIsAReason DEF Rehearse, Phases
<1> QED
  BY <1>1, <1>2, <1>3, <1>4, <1>5

\* The callbacks keep to their budget and complete the batch when one fails.
LEMMA CallbackKeepsInv ==
    ASSUME NEW c \in Calls, NEW answer \in DOMAIN AnswerReason, DurabilityInv,
           Callback(c, answer)
    PROVE  DurabilityInv'
<1> DEFINE plan == NextPlanned(remaining[c])
           spent == Attempted(work[c], plan.algorithm)
           why == AnswerReason[answer]
           event == SignatureEvent(receipt[c], plan, why)
           verdict == ArtifactEvent(receipt[c], plan.artifact, why)
<1> USE DEF DurabilityInv, TypeOK
<1>1. why \in AuditReasonIds
  BY AnswerReasonIsAReason
<1>2. spent \in [total : 0..MaxVerificationCalls, pqc : 0..MaxPqcVerificationCalls]
  <2>1. ~ OverBudget(spent) /\ work[c] \in [total : Nat, pqc : Nat]
    BY WorkAssumption DEF Callback
  <2>2. spent \in [total : Nat, pqc : Nat]
    BY <2>1 DEF Attempted
  <2> HIDE DEF spent
  <2> QED
    BY <2>1, <2>2, WorkAssumption DEF OverBudget
<1>3. /\ pc[c] = "callbacks"
      /\ work' = [work EXCEPT ![c] = spent]
      /\ reason' = [reason EXCEPT ![c] = why]
      /\ DOMAIN asked' = Calls /\ DOMAIN remaining' = Calls
      /\ UNCHANGED <<environment, args, receipt, outcome>>
  BY DEF Callback
<1>4. CASE why = "V4_VERIFY_OK"
  <2>1. pc' = pc /\ events' = [events EXCEPT ![c] = Append(@, event)]
    BY <1>4 DEF Callback
  <2> HIDE DEF plan, spent, why, event, verdict
  <2>2. TypeOK'
    BY <1>1, <1>2, <1>3, <2>1, AppendedBatch DEF environment, outcome
  <2>3. ASSUME NEW d \in Calls PROVE CallInv(d)'
    <3>1. CASE d = c
      BY <1>3, <2>1, <3>1 DEF outcome, CallInv, CompleteBatch, HonestAck, Answered
    <3>2. CASE d # c
      BY <1>3, <2>1, <3>2, OtherCalls DEF outcome, CallInv
    <3> QED
      BY <3>1, <3>2
  <2> QED
    BY <2>2, <2>3 DEF CallInv
<1>5. CASE why # "V4_VERIFY_OK"
  <2>1. /\ events' = [events EXCEPT ![c] = @ \o <<event, verdict>>]
        /\ pc' = [pc EXCEPT ![c] = "commit"]
    BY <1>5 DEF Callback
  <2>2. Conclusion(events'[c]) = Rejection(why)
    <3>1. events'[c][Len(events'[c])] = verdict
      <4> HIDE DEF plan, why, event, verdict
      <4> QED
        BY <2>1, ExtendedBatch
    <3>2. events'[c][Len(events'[c])] = ArtifactEvent(receipt[c], plan.artifact, why)
      BY <3>1
    <3> HIDE DEF plan, why
    <3> QED
      BY <1>5, <3>2, ArtifactConclusion
  <2> HIDE DEF plan, spent, why, event, verdict
  <2>3. TypeOK'
    BY <1>1, <1>2, <1>3, <2>1, ExtendedBatch DEF environment, outcome, Phases
  <2>4. ASSUME NEW d \in Calls PROVE CallInv(d)'
    <3>1. CASE d = c
      BY <1>3, <1>5, <2>1, <2>2, <3>1 DEF outcome, CallInv, CompleteBatch, HonestAck, Answered
    <3>2. CASE d # c
      BY <1>3, <2>1, <3>2, OtherCalls DEF outcome, CallInv
    <3> QED
      BY <3>1, <3>2
  <2> QED
    BY <2>3, <2>4 DEF CallInv
<1> QED
  BY <1>4, <1>5

LEMMA RevalidateKeepsInv ==
    ASSUME NEW c \in Calls, DurabilityInv, Revalidate(c)
    PROVE  DurabilityInv'
<1> DEFINE error == RevalidationError(receipt[c], args[c])
           why == IF error = NoError THEN "V4_VERIFY_OK"
                  ELSE ClassifyError(error, "V4_CONTRACT_INVALID")
           verdict == ArtifactEvent(receipt[c], Orchestrator, why)
<1> USE DEF DurabilityInv, TypeOK
<1>1. why \in AuditReasonIds
  BY RevalidationReasonIsAReason
<1>2. /\ events' = [events EXCEPT ![c] = Append(@, verdict)]
      /\ reason' = [reason EXCEPT ![c] = why]
      /\ pc' = [pc EXCEPT ![c] = "commit"]
      /\ UNCHANGED <<environment, args, receipt, remaining, asked, work, outcome>>
  BY DEF Revalidate
<1>3. events'[c][Len(events'[c])] = ArtifactEvent(receipt[c], Orchestrator, why)
  <2> HIDE DEF why
  <2> QED
    BY <1>2, AppendedBatch
<1> HIDE DEF why
<1>4. Conclusion(events'[c]) =
          IF why = "V4_VERIFY_OK" THEN Acceptance(receipt[c]) ELSE Rejection(why)
  BY <1>3, ArtifactConclusion
<1> HIDE DEF verdict
<1>5. TypeOK'
  BY <1>1, <1>2, AppendedBatch DEF environment, outcome, Phases
<1>6. ASSUME NEW d \in Calls PROVE CallInv(d)'
  <2>1. CASE d = c
    BY <1>2, <1>4, <2>1 DEF outcome, CallInv, CompleteBatch, HonestAck, Answered
  <2>2. CASE d # c
    BY <1>2, <2>2, OtherCalls DEF outcome, CallInv
  <2> QED
    BY <2>1, <2>2
<1> QED
  BY <1>5, <1>6 DEF CallInv

\* Durable batches are never lost, and an acknowledgement names one of them.
LEMMA AppendBatchKeepsInv ==
    ASSUME NEW c \in Calls, DurabilityInv, AppendBatch(c)
    PROVE  DurabilityInv'
<1> USE DEF DurabilityInv, TypeOK
<1>1. /\ pc[c] = "commit"
      /\ durable \subseteq durable'
      /\ pc' = [pc EXCEPT ![c] = "acknowledge"]
      /\ UNCHANGED <<environment, args, receipt, remaining, asked, work, events, reason, released>>
  BY DEF AppendBatch
<1>2. PICK answer \in SinkAnswers(events[c], durable') : ack' = [ack EXCEPT ![c] = answer]
  BY DEF AppendBatch
<1>3. answer.durably_committed => answer.batch \in durable'
  BY <1>2 DEF SinkAnswers, NoAck
<1>4. TypeOK'
  BY <1>1, <1>2 DEF environment, Phases
<1>5. ASSUME NEW d \in Calls PROVE CallInv(d)'
  <2>1. CASE d = c
    BY <1>1, <1>2, <1>3, <2>1 DEF CallInv, CompleteBatch, HonestAck, Answered
  <2>2. CASE d # c
    BY <1>1, <1>2, <2>2, OtherCalls DEF CallInv
  <2> QED
    BY <2>1, <2>2
<1> QED
  BY <1>4, <1>5 DEF CallInv

LEMMA ConcludeKeepsInv ==
    ASSUME NEW c \in Calls, DurabilityInv, Conclude(c)
    PROVE  DurabilityInv'
<1> DEFINE end == IF ~ Acknowledged(c) THEN "sink_failed"
                  ELSE IF reason[c] = "V4_VERIFY_OK" THEN "accepted" ELSE "rejected"
<1> USE DEF DurabilityInv, TypeOK
<1>1. /\ pc[c] = "acknowledge"
      /\ pc' = [pc EXCEPT ![c] = end]
      /\ released' = [released EXCEPT ![c] = IF pc'[c] = "accepted" THEN receipt[c] ELSE @]
      /\ UNCHANGED <<environment, args, receipt, remaining, asked, work, events, reason, durable, ack>>
  BY DEF Conclude
<1>2. TypeOK'
  BY <1>1 DEF environment, Phases
<1>3. ASSUME NEW d \in Calls PROVE CallInv(d)'
  <2>1. CASE d = c
    BY <1>1, <2>1 DEF CallInv, CompleteBatch, HonestAck, Answered, Acknowledged
  <2>2. CASE d # c
    BY <1>1, <2>2, OtherCalls DEF CallInv
  <2> QED
    BY <2>1, <2>2
<1> QED
  BY <1>2, <1>3 DEF CallInv

\* The steps that only move a call on, and the caller's own.
LEMMA OtherStepsKeepInv ==
    ASSUME NEW c \in Calls, DurabilityInv,
           RefuseArguments(c) \/ CallbacksEnd(c) \/ SerializationFails(c) \/ MutateReceipt
    PROVE  DurabilityInv'
<1> USE DEF DurabilityInv, TypeOK
<1>1. TypeOK'
  BY WorkAssumption, BoundsAssumption
     DEF RefuseArguments, CallbacksEnd, SerializationFails, MutateReceipt,
         environment, outcome, Phases
<1>2. ASSUME NEW d \in Calls PROVE CallInv(d)'
  <2>1. CASE RefuseArguments(c)
    BY <2>1 DEF RefuseArguments, outcome, CallInv, CompleteBatch, HonestAck, Answered, Acknowledged
  <2>2. CASE CallbacksEnd(c)
    BY <2>2 DEF CallbacksEnd, outcome, CallInv, CompleteBatch, HonestAck, Answered, Acknowledged
  <2>3. CASE SerializationFails(c)
    BY <2>3 DEF SerializationFails, outcome, CallInv, CompleteBatch, HonestAck, Answered, Acknowledged
  <2>4. CASE MutateReceipt
    BY <2>4, OtherCalls DEF MutateReceipt, outcome, CallInv
  <2> QED
    BY <2>1, <2>2, <2>3, <2>4
<1> QED
  BY <1>1, <1>2 DEF CallInv

LEMMA NextKeepsInv == DurabilityInv /\ [Next]_vars => DurabilityInv'
<1> SUFFICES ASSUME DurabilityInv, [Next]_vars PROVE DurabilityInv'
  OBVIOUS
<1>1. CASE MutateReceipt
  <2>1. CASE Calls = {}
    BY <1>1, <2>1, WorkAssumption, BoundsAssumption DEF MutateReceipt, DurabilityInv, TypeOK, outcome
  <2>2. CASE Calls # {}
    BY <1>1, <2>2, OtherStepsKeepInv
  <2> QED
    BY <2>1, <2>2
<1>2. CASE \E c \in Calls : Step(c)
  <2> PICK c \in Calls : Step(c)
    BY <1>2
  <2>1. CASE Begin(c) \/ Snapshot(c) \/ Bind(c) \/ Prepare(c) \/ Rehearse(c)
    BY <2>1, PreflightKeepsInv
  <2>2. CASE \E answer \in DOMAIN AnswerReason : Callback(c, answer)
    BY <2>2, CallbackKeepsInv
  <2>3. CASE Revalidate(c)
    BY <2>3, RevalidateKeepsInv
  <2>4. CASE AppendBatch(c)
    BY <2>4, AppendBatchKeepsInv
  <2>5. CASE Conclude(c)
    BY <2>5, ConcludeKeepsInv
  <2>6. CASE RefuseArguments(c) \/ CallbacksEnd(c) \/ SerializationFails(c)
    BY <2>6, OtherStepsKeepInv
  <2> QED
    BY <2>1, <2>2, <2>3, <2>4, <2>5, <2>6 DEF Step
<1>3. CASE UNCHANGED vars
  BY <1>3
     DEF vars, DurabilityInv, TypeOK, CompleteBatch, HonestAck, Answered, Acknowledged
<1> QED
  BY <1>1, <1>2, <1>3 DEF Next

-----------------------------------------------------------------------------
(* The theorems. *)

\* The inductive invariant holds of every state of the audited boundary.
THEOREM Durability == Spec => []DurabilityInv
  BY InitInv, NextKeepsInv, PTL DEF Spec

\* Every variable stays in its domain: in particular no call ever records more
\* callbacks than the budgets of v4/work_budget.py.
THEOREM TypeCorrect == Spec => []TypeOK
<1>1. DurabilityInv => TypeOK
  BY DEF DurabilityInv
<1> QED
  BY <1>1, Durability, PTL

\* An acknowledged, complete batch is the evidence of its call's verdict.
LEMMA DurableVerdict == DurabilityInv => VerdictOnlyIfDurable
<1>1. ASSUME DurabilityInv, NEW c \in Calls, pc[c] \in {"accepted", "rejected"}
      PROVE  events[c] \in durable /\ Conclusion(events[c]) = Told(c)
  <2>1. events[c] \in durable
    <3>1. ack[c] = [batch |-> events[c], durably_committed |-> TRUE]
      BY <1>1 DEF DurabilityInv, Answered, Acknowledged
    <3>2. ack[c].durably_committed = TRUE /\ ack[c].batch = events[c]
      BY <3>1
    <3> QED
      BY <1>1, <3>2 DEF DurabilityInv, HonestAck
  <2>2. Conclusion(events[c]) = Told(c)
    BY <1>1 DEF DurabilityInv, CompleteBatch, Answered, Told
  <2> QED
    BY <2>1, <2>2
<1> QED
  BY <1>1 DEF VerdictOnlyIfDurable

LEMMA DurableVerdictNext == DurabilityInv' => VerdictOnlyIfDurable'
  BY DurableVerdict, PTL

\* No receipt is returned and no rejection raised without a durable batch that
\* ends with that verdict (v4/verification_audit.py:831-869 and 1200-1210).
THEOREM NoVerdictWithoutEvidence == Spec => []VerdictOnlyIfDurable
  BY DurableVerdict, Durability, PTL

-----------------------------------------------------------------------------
(* The refinement of AuditedVerdict. *)

\* A step that ends no call is a step of the sink, or none.
LEMMA SilentStep ==
    ASSUME \A c \in Calls : Told(c)' = Told(c),
           durable \subseteq durable'
    PROVE  Promise!Record
<1>1. Evidence \subseteq Evidence'
  BY DEF Evidence, Conclusion
<1>2. [c \in Calls |-> Told(c)]' = [c \in Calls |-> Told(c)]
  OBVIOUS
<1> QED
  BY <1>1, <1>2 DEF Promise!Record

\* A step of a call that stays undecided is one.
LEMMA RunningStep ==
    ASSUME NEW c \in Calls,
           pc[c] \notin Concluded, pc'[c] \notin Concluded,
           \A d \in Calls \ {c} : pc'[d] = pc[d] /\ reason'[d] = reason[d],
           UNCHANGED <<durable, released>>
    PROVE  Promise!Record
<1>1. ASSUME NEW d \in Calls PROVE Told(d)' = Told(d)
  <2>1. CASE d = c
    <3>1. Told(c) = Unannounced("undecided")
      BY DEF Told, Concluded
    <3>2. Told(c)' = Unannounced("undecided")'
      BY DEF Told, Concluded
    <3> QED
      BY <2>1, <3>1, <3>2 DEF Unannounced
  <2>2. CASE d # c
    BY <2>2 DEF Told, Acceptance, Rejection, Unannounced
  <2> QED
    BY <2>1, <2>2
<1> QED
  BY <1>1, SilentStep

\* A step that ends call c announces a verdict there is evidence for, or none.
LEMMA EndingStep ==
    ASSUME NEW c \in Calls, NEW end \in Concluded,
           DurabilityInv, DurabilityInv',
           pc[c] \notin Concluded,
           pc' = [pc EXCEPT ![c] = end],
           \A d \in Calls \ {c} : released'[d] = released[d],
           UNCHANGED <<reason, durable>>
    PROVE  Promise!Next
<1> DEFINE told == [d \in Calls |-> Told(d)]
<1>1. pc \in [Calls -> Phases]
  BY DEF DurabilityInv, TypeOK
<1>2. \A d \in Calls \ {c} : Told(d)' = Told(d)
  BY <1>1 DEF Told
<1>3. told' = [told EXCEPT ![c] = Told(c)']
  BY <1>2
<1>4. Evidence' = Evidence
  BY DEF Evidence, Conclusion
<1>5. told[c] = Unannounced("undecided")
  BY DEF Told, Concluded
<1>6. CASE end \in {"accepted", "rejected"}
  <2>1. VerdictOnlyIfDurable'
    BY DurableVerdictNext
  <2>2. Told(c)' \in Evidence'
    BY <1>1, <1>6, <2>1 DEF VerdictOnlyIfDurable, Evidence
  <2>3. Promise!Announce(c)
    <3> HIDE DEF told
    <3>1. /\ told[c] = Unannounced("undecided") /\ Told(c)' \in Evidence
          /\ told' = [told EXCEPT ![c] = Told(c)'] /\ Evidence' = Evidence
      BY <1>3, <1>4, <1>5, <2>2
    <3> QED
      BY <3>1 DEF told, Promise!Announce
  <2> QED
    BY <2>3 DEF Promise!Next
<1>7. CASE end \notin {"accepted", "rejected"}
  <2>1. Told(c)' = Unannounced("withheld")
    BY <1>1, <1>7 DEF Told
  <2>2. Promise!Withhold(c)
    BY <1>3, <1>4, <1>5, <2>1 DEF Promise!Withhold
  <2> QED
    BY <2>2 DEF Promise!Next
<1> QED
  BY <1>6, <1>7

LEMMA InitRefines == Init => Promise!Init
  BY DEF Init, Promise!Init, Evidence, Told, Concluded, Conclusion

LEMMA StepRefines ==
    DurabilityInv /\ DurabilityInv' /\ [Next]_vars
        => Promise!Next \/ UNCHANGED <<Evidence, [c \in Calls |-> Told(c)]>>
<1> SUFFICES ASSUME DurabilityInv, DurabilityInv', [Next]_vars,
                    ~ UNCHANGED <<Evidence, [c \in Calls |-> Told(c)]>>
             PROVE  Promise!Next
  OBVIOUS
<1> USE DEF outcome
<1>1. pc \in [Calls -> Phases] /\ pc' \in [Calls -> Phases]
  BY DEF DurabilityInv, TypeOK
<1>2. CASE MutateReceipt \/ UNCHANGED vars
  BY <1>2, SilentStep DEF MutateReceipt, vars, Told, Promise!Next
<1>3. ASSUME NEW c \in Calls, Step(c) PROVE Promise!Next
  <2>1. CASE Begin(c)
    BY <1>1, <2>1, SilentStep DEF Begin, Told, Concluded, Promise!Next
  <2>2. CASE Snapshot(c) \/ Bind(c) \/ Prepare(c) \/ Rehearse(c)
    <3>1. /\ pc[c] \notin Concluded /\ pc'[c] \notin Concluded
          /\ \A d \in Calls \ {c} : pc'[d] = pc[d] /\ reason'[d] = reason[d]
          /\ UNCHANGED <<durable, released>>
      BY <1>1, <2>2 DEF Snapshot, Bind, Prepare, Rehearse, Proceed, Concluded,
                        DurabilityInv, TypeOK
    <3>2. Promise!Record
      BY <3>1, RunningStep
    <3> QED
      BY <3>2 DEF Promise!Next
  <2>3. CASE (\E answer \in DOMAIN AnswerReason : Callback(c, answer)) \/ Revalidate(c)
    <3>1. /\ pc[c] \notin Concluded /\ pc'[c] \notin Concluded
          /\ \A d \in Calls \ {c} : pc'[d] = pc[d] /\ reason'[d] = reason[d]
          /\ UNCHANGED <<durable, released>>
      <4>1. CASE \E answer \in DOMAIN AnswerReason : Callback(c, answer)
        BY <1>1, <4>1 DEF Callback, Concluded, DurabilityInv, TypeOK
      <4>2. CASE Revalidate(c)
        BY <1>1, <4>2 DEF Revalidate, Concluded, DurabilityInv, TypeOK
      <4> QED
        BY <2>3, <4>1, <4>2
    <3>2. Promise!Record
      BY <3>1, RunningStep
    <3> QED
      BY <3>2 DEF Promise!Next
  <2>4. CASE AppendBatch(c)
    BY <1>1, <2>4, SilentStep DEF AppendBatch, Told, Concluded, Promise!Next
  <2>5. CASE Conclude(c)
    BY <1>1, <2>5, EndingStep DEF Conclude, Concluded, DurabilityInv, TypeOK
  <2>6. CASE RefuseArguments(c) \/ SerializationFails(c)
    BY <2>6, EndingStep DEF RefuseArguments, SerializationFails, Concluded
  <2>7. CASE CallbacksEnd(c)
    <3>1. CASE remaining[c] = {}
      BY <1>1, <2>7, <3>1, SilentStep DEF CallbacksEnd, Told, Concluded, Promise!Next
    <3>2. CASE remaining[c] # {}
      BY <2>7, <3>2, EndingStep DEF CallbacksEnd, Concluded
    <3> QED
      BY <3>1, <3>2
  <2> QED
    BY <1>3, <2>1, <2>2, <2>3, <2>4, <2>5, <2>6, <2>7 DEF Step
<1> QED
  BY <1>2, <1>3 DEF Next

\* The audited boundary implements AuditedVerdict, for every instance.
THEOREM BoundaryKeepsThePromise == Spec => KeepsThePromise
<1>1. DurabilityInv /\ DurabilityInv' /\ [Next]_vars
          => [Promise!Next]_<<Evidence, [c \in Calls |-> Told(c)]>>
  BY StepRefines
<1> QED
  BY <1>1, InitRefines, Durability, PTL DEF Spec, KeepsThePromise, Promise!Spec
=============================================================================
