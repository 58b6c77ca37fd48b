------------------------ MODULE AuditSoundnessProofs ------------------------
(***************************************************************************)
(* What the audited boundary establishes before the first callback, what   *)
(* an acceptance stands for, and what a batch tells, for every number of   *)
(* calls and components, every receipt, registry, budget and answer.       *)
(***************************************************************************)
EXTENDS VerificationAuditProofs, AuditChecksProofs

-----------------------------------------------------------------------------
(* A receipt that has passed every check without cryptography. *)

Checked(r, a) ==
    /\ Listed(r) /\ Decided(r) /\ IsList(a.registry.entries)
    /\ SnapshotError(r, a) = NoError
    /\ BindReason(r, a) = "V4_VERIFY_OK"
    /\ PrepareError(r, a) = NoError
    /\ RehearsalError(r, a) = NoError

\* The positions of each bundle the rehearsal's verifiers accept.
CachedOf(r) == [i \in DOMAIN r.components |->
                   Cached(Plan(r), r.components[i].id, r.components[i].bundle)]

CachedOwn(r) == Cached(Plan(r), Orchestrator, r.bundle)

LEMMA CheckedVerifies ==
    ASSUME NEW r, NEW a, Checked(r, a)
    PROVE  /\ OnePerComponent(r.components)
           /\ \A i \in DOMAIN r.components :
                  ComponentVerified(r.components[i], a.context, a, CachedOf(r)[i])
           /\ ReceiptVerified(r, a.context, a, CachedOwn(r))
<1>1. CachedVerdictsError(r, a, Plan(r)) = NoError /\ CachedEnvelopeError(r, a, Plan(r)) = NoError
  BY PassedThree DEF Checked, RehearsalError
<1>2. /\ ComponentVerdictsError(r.components, a.context, a, CachedOf(r)) = NoError
      /\ ReceiptEnvelopeError(r, a.context, a, CachedOwn(r)) = NoError
  BY <1>1 DEF CachedVerdictsError, CachedEnvelopeError, CachedOf, CachedOwn
<1>3. /\ OnePerComponent(r.components)
      /\ \A i \in DOMAIN r.components :
             ComponentVerified(r.components[i], a.context, a, CachedOf(r)[i])
  BY <1>2, VerifiedVerdicts DEF Checked, Listed
<1>4. ReceiptVerified(r, a.context, a, CachedOwn(r))
  BY <1>2, VerifiedReceipt DEF Checked, Listed
<1> QED
  BY <1>3, <1>4

LEMMA BundleIsSound ==
    ASSUME NEW r, NEW a, NEW id, NEW domain, NEW accepted,
           BundleVerified(BundleOf(r, id), ArtifactHash(r, id), domain, id, a, WindowOf(r, id),
                          accepted),
           During(a.time, WindowOf(r, id))
    PROVE  SoundArtifact(r, a, id)
<1> DEFINE s == BundleOf(r, id).signatures
<1>1. RequiredAlgorithms \subseteq {e.algorithm : e \in EntriesOf(r, id)}
  BY DEF BundleVerified, PresentAlgorithms, EntriesOf, Range
<1>2. /\ IsInjective([i \in DOMAIN s |-> s[i]["algorithm"]])
      /\ IsInjective([i \in DOMAIN s |-> s[i]["key"]])
  BY DEF BundleVerified, IsInjective
<1>3. ASSUME NEW e \in EntriesOf(r, id)
      PROVE  SoundEntry(r, a, id, e)
  <2>1. PICK i \in DOMAIN s : e = s[i]
    BY DEF EntriesOf, Range
  <2> QED
    BY <2>1 DEF BundleVerified, SoundEntry, TrustedKey
<1> QED
  BY <1>1, <1>2, <1>3 DEF SoundArtifact

LEMMA OutcomeIsSound ==
    ASSUME NEW r, IsList(r.components), Decided(r), OnePerComponent(r.components),
           r.outcome = ExpectedFinalOutcome(r.components),
           r.outcome = "ALLOW" \/ r.handoff # "allowed"
    PROVE  SoundOutcome(r)
<1> DEFINE ds == Decisions(r.components)
<1>1. ds \subseteq SupportedDecisions
  BY DEF Decided
<1>2. ds # {}
  <2>1. /\ DOMAIN r.components = 1..Len(r.components)
        /\ Len(r.components) \in Nat /\ Len(r.components) # 0
    BY OrderAssumption, ListDomain DEF OnePerComponent, IsList
  <2>2. 1 \in DOMAIN r.components
    BY <2>1
  <2> QED
    BY <2>2 DEF Decisions
<1>3. r.outcome = IF ds \cap {"DENY", "ERROR"} # {} THEN "DENY"
                  ELSE IF ds \cap {"ESCALATE", "SKIPPED"} # {} THEN "HUMAN_REVIEW_REQUIRED"
                  ELSE "ALLOW"
  BY DEF ExpectedFinalOutcome
<1> HIDE DEF ds
<1>4. r.outcome = "ALLOW" <=> ds = {"ALLOW"}
  BY <1>1, <1>2, <1>3 DEF SupportedDecisions
<1>5. r.outcome = "DENY" <=> ds \cap {"DENY", "ERROR"} # {}
  BY <1>3
<1> QED
  BY <1>4, <1>5, EveryComponentIsThere DEF ds, SoundOutcome

LEMMA CheckedIsSound ==
    ASSUME NEW r, NEW a, Checked(r, a)
    PROVE  SoundReceipt(r, a)
<1>1. /\ OnePerComponent(r.components) /\ IsList(r.components)
      /\ \A i \in DOMAIN r.components :
             ComponentVerified(r.components[i], a.context, a, CachedOf(r)[i])
      /\ ReceiptVerified(r, a.context, a, CachedOwn(r))
  BY CheckedVerifies DEF Checked, Listed
<1>2. /\ During(a.time, r.window)
      /\ \A i \in DOMAIN r.components : During(a.time, r.components[i].window)
  BY <1>1, PreparedIsFresh DEF Checked
<1>3. r.request = a.request
  BY DEF Checked, BindReason
<1>4. a.registry.version >= a.minimum
  <2>1. FloorError(a.registry, a.minimum) = NoError
    BY PassedFive DEF Checked, SnapshotError
  <2> QED
    BY <2>1 DEF FloorError, Check, NoError
<1>5. \A x \in {r} \cup Range(r.components) : x.context = a.context
  BY <1>1 DEF ReceiptVerified, ComponentVerified, Range
<1>6. SoundOutcome(r)
  BY <1>1, OutcomeIsSound DEF ReceiptVerified, Checked
<1>7. ASSUME NEW id \in Artifacts
      PROVE  SoundArtifact(r, a, id)
  <2>1. CASE id = Orchestrator
    <3>1. /\ BundleOf(r, id) = r.bundle /\ WindowOf(r, id) = r.window
          /\ ArtifactHash(r, id) = SignedHash(r)
      BY <2>1 DEF BundleOf, WindowOf, ArtifactHash
    <3> QED
      BY <1>1, <1>2, <2>1, <3>1, BundleIsSound DEF ReceiptVerified
  <2>2. CASE id # Orchestrator
    <3>1. PICK i \in DOMAIN r.components :
              Component(r, id) = r.components[i] /\ r.components[i].id = id
      BY <1>1, <2>2, ComponentOfId DEF Artifacts
    <3>2. /\ BundleOf(r, id) = r.components[i].bundle
          /\ WindowOf(r, id) = r.components[i].window
          /\ ArtifactHash(r, id) = ComponentHash(r.components[i])
      BY <2>2, <3>1 DEF BundleOf, WindowOf, ArtifactHash
    <3> QED
      BY <1>1, <1>2, <3>1, <3>2, BundleIsSound DEF ComponentVerified
  <2> QED
    BY <2>1, <2>2
<1>8. r.version = a.registry.version
  BY <1>1 DEF ReceiptVerified
<1> QED
  BY <1>3, <1>4, <1>5, <1>6, <1>7, <1>8 DEF SoundReceipt

-----------------------------------------------------------------------------
(* The plan of such a receipt. *)

LEMMA BundlesOfChecked ==
    ASSUME NEW r, NEW a, Checked(r, a), NEW id \in Artifacts
    PROVE  LET s == BundleOf(r, id).signatures IN
           /\ IsList(s)
           /\ \A i \in DOMAIN s : s[i].algorithm \in SupportedAlgorithms
           /\ \A i, j \in DOMAIN s :
                  s[i].algorithm = s[j].algorithm \/ s[i].key = s[j].key => i = j
<1>1. CASE id = Orchestrator
  BY <1>1, CheckedVerifies DEF BundleOf, ReceiptVerified, BundleVerified, Checked, Listed
<1>2. CASE id # Orchestrator
  <2>1. PICK i \in DOMAIN r.components :
            Component(r, id) = r.components[i] /\ r.components[i].id = id
    BY <1>2, CheckedVerifies, ComponentOfId DEF Artifacts, Checked, Listed
  <2>2. BundleOf(r, id) = r.components[i].bundle
    BY <1>2, <2>1 DEF BundleOf
  <2>3. ComponentVerified(r.components[i], a.context, a, CachedOf(r)[i])
    BY CheckedVerifies
  <2>4. IsList(r.components[i].bundle.signatures)
    BY DEF Checked, Listed
  <2> QED
    BY <2>2, <2>3, <2>4 DEF ComponentVerified, BundleVerified
<1> QED
  BY <1>1, <1>2

\* What the boundary relies on when it works a plan off.
SoundPlan(plan) ==
    /\ IsFiniteSet(plan)
    /\ plan # {}
    /\ Cardinality(plan) =< MaxVerificationCalls
    /\ Cardinality(Pqc(plan)) =< MaxPqcVerificationCalls
    /\ \A p \in plan : p.algorithm \in SupportedAlgorithms /\ p.artifact \in Artifacts
    /\ \A p, q \in plan :
           p.artifact = q.artifact /\ p.algorithm = q.algorithm => p = q

LEMMA PlanFits ==
    ASSUME NEW r, PlanError(r) = NoError
    PROVE  /\ {p.artifact : p \in Plan(r)} = Artifacts
           /\ Cardinality(Plan(r)) =< MaxVerificationCalls
           /\ Cardinality(Pqc(Plan(r))) =< MaxPqcVerificationCalls
<1> DEFINE all == {p.artifact : p \in Plan(r)} = Artifacts
           sizes == \A id \in Artifacts : Cardinality({p \in Plan(r) : p.artifact = id}) \in 2..3
           within == Cardinality(Plan(r)) =< MaxVerificationCalls
           pqc == Cardinality(Pqc(Plan(r))) =< MaxPqcVerificationCalls
<1>1. FirstError(<<
          Check(all, {"hash"}), Check(sizes, {"hash", "signature"}),
          Check(within, BudgetError), Check(pqc, BudgetError) >>) = NoError
  BY DEF PlanError
<1> HIDE DEF all, sizes, within, pqc
<1>2. /\ Check(all, {"hash"}) = NoError
      /\ Check(within, BudgetError) = NoError
      /\ Check(pqc, BudgetError) = NoError
  BY <1>1, PassedFour
<1>3. all /\ within /\ pqc
  BY <1>2 DEF Check, NoError, BudgetError
<1> QED
  BY <1>3 DEF all, within, pqc

LEMMA CheckedPlanIsSound ==
    ASSUME NEW r, NEW a, Checked(r, a)
    PROVE  SoundPlan(Plan(r))
<1>1. PlanError(r) = NoError
  BY PassedThree DEF Checked, RehearsalError
<1>2. Plan(r) = UNION {BundlePlan(id, BundleOf(r, id)) : id \in Artifacts}
  BY CheckedVerifies, PlanHasEveryEntry DEF Checked, Listed
<1>3. ASSUME NEW p \in Plan(r)
      PROVE  \E id \in Artifacts : \E i \in DOMAIN BundleOf(r, id).signatures :
                 p = PlannedEntry(id, BundleOf(r, id), i)
  BY <1>2 DEF BundlePlan
<1>4. ASSUME NEW p \in Plan(r)
      PROVE  p.algorithm \in SupportedAlgorithms /\ p.artifact \in Artifacts
  BY <1>3, BundlesOfChecked DEF PlannedEntry
<1>5. ASSUME NEW p \in Plan(r), NEW q \in Plan(r),
             p.artifact = q.artifact, p.algorithm = q.algorithm
      PROVE  p = q
  <2> PICK id \in Artifacts : \E i \in DOMAIN BundleOf(r, id).signatures :
                p = PlannedEntry(id, BundleOf(r, id), i)
    BY <1>3
  <2>1. PICK i \in DOMAIN BundleOf(r, id).signatures : p = PlannedEntry(id, BundleOf(r, id), i)
    OBVIOUS
  <2> PICK jd \in Artifacts : \E j \in DOMAIN BundleOf(r, jd).signatures :
                q = PlannedEntry(jd, BundleOf(r, jd), j)
    BY <1>3
  <2>2. PICK j \in DOMAIN BundleOf(r, jd).signatures : q = PlannedEntry(jd, BundleOf(r, jd), j)
    OBVIOUS
  <2>3. id = jd
    BY <1>5, <2>1, <2>2 DEF PlannedEntry
  <2>4. BundleOf(r, id).signatures[i].algorithm = BundleOf(r, id).signatures[j].algorithm
    BY <1>5, <2>1, <2>2, <2>3 DEF PlannedEntry
  <2>5. i = j
    BY <2>2, <2>3, <2>4, BundlesOfChecked
  <2> QED
    BY <2>1, <2>2, <2>3, <2>5
<1>6. IsFiniteSet(Plan(r))
  BY PlanIsFinite DEF Checked
<1>7. Plan(r) # {}
  <2>1. Orchestrator \in {p.artifact : p \in Plan(r)}
    BY <1>1, PlanFits DEF Artifacts
  <2> QED
    BY <2>1
<1> QED
  BY <1>1, <1>4, <1>5, <1>6, <1>7, PlanFits DEF SoundPlan

-----------------------------------------------------------------------------
(* The next callback. *)

LEMMA AlgorithmRankIsNat ==
    ASSUME NEW algorithm \in SupportedAlgorithms
    PROVE  AlgorithmRank(algorithm) \in Nat
<1>1. DOMAIN Algorithms \subseteq Nat
  BY OrderAssumption, ListDomain
<1> QED
  BY <1>1 DEF AlgorithmRank, SupportedAlgorithms

LEMMA ArtifactRankIsNat ==
    ASSUME NEW id \in Artifacts
    PROVE  ArtifactRank(id) \in Nat
<1>1. DOMAIN ComponentOrder \subseteq Nat /\ Len(ComponentOrder) \in Nat
  BY OrderAssumption, ListDomain
<1>2. id # Orchestrator => \E i \in DOMAIN ComponentOrder : ComponentOrder[i] = id
  BY DEF Artifacts, Components, Range
<1> QED
  BY <1>1, <1>2 DEF ArtifactRank

\* A plan that is not exhausted has a next callback, and none is cheaper.
LEMMA NextIsCheapest ==
    ASSUME NEW plan, plan # {},
           \A p \in plan : p.algorithm \in SupportedAlgorithms /\ p.artifact \in Artifacts
    PROVE  /\ NextPlanned(plan) \in plan
           /\ \A q \in plan : AlgorithmRank(NextPlanned(plan).algorithm) =< AlgorithmRank(q.algorithm)
<1> DEFINE waves == {AlgorithmRank(p.algorithm) : p \in plan}
           wave == {p \in plan : AlgorithmRank(p.algorithm) = Min(waves)}
           places == {ArtifactRank(p.artifact) : p \in wave}
<1>1. \A p \in plan : AlgorithmRank(p.algorithm) \in Nat /\ ArtifactRank(p.artifact) \in Nat
  BY AlgorithmRankIsNat, ArtifactRankIsNat
<1>2. Min(waves) \in waves /\ \A n \in waves : Min(waves) =< n
  <2>1. waves \in SUBSET Nat /\ waves # {}
    BY <1>1
  <2> HIDE DEF waves
  <2> QED
    BY <2>1, MinOfNaturals
<1>3. wave # {} /\ wave \subseteq plan
  BY <1>2
<1>4. Min(places) \in places /\ \A n \in places : Min(places) =< n
  <2>1. places \in SUBSET Nat /\ places # {}
    BY <1>1, <1>3
  <2> HIDE DEF places
  <2> QED
    BY <2>1, MinOfNaturals
<1>5. PICK p \in wave : ArtifactRank(p.artifact) = Min(places)
  BY <1>4
<1>6. \A q \in plan : ~ Before(q, p)
  <2> TAKE q \in plan
  <2>1. Min(waves) =< AlgorithmRank(q.algorithm) /\ AlgorithmRank(p.algorithm) = Min(waves)
    BY <1>2, <1>5
  <2>2. q \in wave => Min(places) =< ArtifactRank(q.artifact)
    BY <1>4
  <2>3. AlgorithmRank(q.algorithm) = Min(waves) => q \in wave
    OBVIOUS
  <2>4. p \in plan
    BY <1>3
  <2> HIDE DEF waves, wave, places
  <2> QED
    BY <1>1, <1>5, <2>1, <2>2, <2>3, <2>4 DEF Before
<1>7. NextPlanned(plan) \in plan /\ \A q \in plan : ~ Before(q, NextPlanned(plan))
  BY <1>3, <1>5, <1>6 DEF NextPlanned
<1> QED
  BY <1>1, <1>7 DEF Before

-----------------------------------------------------------------------------
(* The inductive invariant. *)

Early == {"idle", "refused", "snapshot", "bind", "prepare", "rehearse"}
Late == {"commit", "acknowledge", "accepted", "rejected", "sink_failed", "error"}

\* How far the checks of a call have come.
Examined(c) ==
    /\ pc[c] = "snapshot" => receipt[c] \in Receipts
    /\ pc[c] \in {"bind", "prepare", "rehearse"} =>
           /\ Listed(receipt[c]) /\ Decided(receipt[c])
           /\ SnapshotError(receipt[c], args[c]) = NoError
    /\ pc[c] \in {"prepare", "rehearse"} => BindReason(receipt[c], args[c]) = "V4_VERIFY_OK"
    /\ pc[c] = "rehearse" => PrepareError(receipt[c], args[c]) = NoError
    /\ pc[c] \in Early => asked[c] = <<>> /\ work[c] = [total |-> 0, pqc |-> 0]

\* The callbacks made are the plan but for what remains of it, cheapest first,
\* and none follows a failure.
WorkedOff(made, rest, plan) ==
    /\ IsList(made)
    /\ {made[k].plan : k \in DOMAIN made} \cup rest = plan
    /\ \A k \in DOMAIN made :
           /\ made[k].plan \notin rest
           /\ \A q \in rest : AlgorithmRank(made[k].plan.algorithm) =< AlgorithmRank(q.algorithm)
    /\ \A i, j \in DOMAIN made : i < j =>
           /\ made[i].answer = "true"
           /\ made[i].plan # made[j].plan
           /\ AlgorithmRank(made[i].plan.algorithm) =< AlgorithmRank(made[j].plan.algorithm)

\* What is planned fits what is left of the budget.
Affordable(spent, rest) ==
    /\ spent.total \in Nat /\ spent.total + Cardinality(rest) =< MaxVerificationCalls
    /\ spent.pqc \in Nat /\ spent.pqc + Cardinality(Pqc(rest)) =< MaxPqcVerificationCalls

Running(c) ==
    pc[c] \in {"callbacks", "revalidate"} \/ asked[c] # <<>> =>
        /\ Checked(receipt[c], args[c])
        /\ WorkedOff(asked[c], remaining[c], Plan(receipt[c]))
        /\ Affordable(work[c], remaining[c])
        /\ pc[c] \in {"callbacks", "revalidate"} =>
               \A k \in DOMAIN asked[c] : asked[c][k].answer = "true"
        /\ pc[c] = "revalidate" => remaining[c] = {}

Decisive(c) ==
    pc[c] \in Late =>
        /\ pc[c] # "error"
        /\ asked[c] = <<>> => reason[c] # "V4_VERIFY_OK"
        /\ asked[c] # <<>> =>
               (reason[c] = "V4_VERIFY_OK" <=> asked[c][Len(asked[c])].answer = "true")
        /\ reason[c] = "V4_VERIFY_OK" => remaining[c] = {}

CallSound(c) == Examined(c) /\ Running(c) /\ Decisive(c)

SoundInv == \A c \in Calls : CallSound(c)

-----------------------------------------------------------------------------
(* The copy. *)

LEMMA SplicedList ==
    ASSUME NEW n, NEW s, NEW t, IsList(t)
    PROVE  /\ IsList(Spliced(n, s, t))
           /\ DOMAIN Spliced(n, s, t) = DOMAIN t
           /\ \A i \in DOMAIN t : \/ i \in DOMAIN s /\ Spliced(n, s, t)[i] = s[i]
                                  \/ Spliced(n, s, t)[i] = t[i]
<1> DEFINE u == [i \in DOMAIN t |-> IF i =< n /\ i \in DOMAIN s THEN s[i] ELSE t[i]]
<1>1. DOMAIN t = 1..Len(t) /\ Len(t) \in Nat
  BY ListDomain
<1>2. u \in [1..Len(t) -> Range(u)]
  BY <1>1 DEF Range
<1>3. u \in Seq(Range(u))
  <2> HIDE DEF u
  <2> QED
    BY <1>1, <1>2
<1>4. u = Spliced(n, s, t)
  BY DEF Spliced
<1> QED
  BY <1>3, <1>4 DEF IsList

\* Whatever happens to the object while it is copied, the copy has lists where
\* the code expects lists.
LEMMA CopyIsWellMade ==
    ASSUME NEW cut, NEW first \in Receipts, NEW last \in Receipts
    PROVE  Listed(Copied(cut, first, last)) /\ Decided(Copied(cut, first, last))
<1> DEFINE copy == Copied(cut, first, last)
           spliced == Spliced(cut.items, first.components, last.components)
           signed == Spliced(cut.items, first.bundle.signatures, last.bundle.signatures)
           mended == [last.bundle EXCEPT !.signatures = signed]
           Fine(v) == IsList(v.bundle.signatures) /\ v.decision \in SupportedDecisions
<1>1. /\ {"components", "bundle"} \subseteq DOMAIN first /\ {"components", "bundle"} \subseteq DOMAIN last
      /\ "signatures" \in DOMAIN last.bundle
      /\ IsList(first.components) /\ IsList(last.components)
      /\ IsList(first.bundle.signatures) /\ IsList(last.bundle.signatures)
      /\ \A i \in DOMAIN first.components : Fine(first.components[i])
      /\ \A i \in DOMAIN last.components : Fine(last.components[i])
  BY ValuesAssumption DEF ReceiptFields, Listed, Decided, Decisions
<1>2. /\ copy.components \in {first.components, last.components, spliced}
      /\ copy.bundle \in {first.bundle, last.bundle, mended}
  BY <1>1 DEF Copied
<1>3. mended.signatures = signed
  BY <1>1
<1>4. IsList(signed) /\ IsList(spliced) /\ \A i \in DOMAIN spliced : Fine(spliced[i])
  <2> HIDE DEF Fine
  <2> QED
    BY <1>1, SplicedList
<1> HIDE DEF copy, spliced, signed, mended
<1>5. IsList(copy.components) /\ \A i \in DOMAIN copy.components : Fine(copy.components[i])
  BY <1>1, <1>2, <1>4
<1>6. IsList(copy.bundle.signatures)
  BY <1>1, <1>2, <1>3, <1>4
<1> QED
  BY <1>5, <1>6 DEF copy, Listed, Decided, Decisions

-----------------------------------------------------------------------------
(* The steps before the callbacks. *)

\* A call that nothing happens to.
LEMMA UntouchedIsSound ==
    ASSUME NEW c \in Calls, CallSound(c),
           pc'[c] = pc[c], args'[c] = args[c], receipt'[c] = receipt[c],
           remaining'[c] = remaining[c], asked'[c] = asked[c], work'[c] = work[c],
           reason'[c] = reason[c]
    PROVE  CallSound(c)'
BY DEF CallSound, Examined, Running, Decisive

\* A stage that passes goes on to the next; one that fails ends the call with
\* a reason of failure.
LEMMA StageEnds ==
    ASSUME NEW c \in Calls, TypeOK, NEW why, NEW next, Proceed(c, why, next)
    PROVE  \/ why = "V4_VERIFY_OK" /\ pc'[c] = next
           \/ why # "V4_VERIFY_OK" /\ pc'[c] = "commit" /\ reason'[c] = why
BY DEF Proceed, TypeOK

LEMMA StagePasses ==
    ASSUME NEW error, StageReason(error) = "V4_VERIFY_OK"
    PROVE  error = NoError
BY PreflightReasonIsAFailure DEF StageReason

\* A call that ends before any callback.
LEMMA EndedEarlyIsSound ==
    ASSUME NEW c \in Calls,
           pc'[c] = "commit", asked'[c] = <<>>, reason'[c] # "V4_VERIFY_OK"
    PROVE  CallSound(c)'
BY DEF CallSound, Examined, Running, Decisive, Early, Late

LEMMA PreflightIsSound ==
    ASSUME NEW c \in Calls, TypeOK, CallSound(c),
           RefuseArguments(c) \/ Begin(c) \/ Snapshot(c) \/ Bind(c) \/ Prepare(c)
    PROVE  CallSound(c)'
<1> USE DEF CallSound, Examined, Running, Decisive, Early, Late
<1>0. /\ pc[c] \in Early /\ asked'[c] = <<>> /\ asked[c] = <<>>
      /\ work'[c] = [total |-> 0, pqc |-> 0] /\ args'[c] = args[c]
  BY DEF RefuseArguments, Begin, Snapshot, Bind, Prepare
<1>1. CASE RefuseArguments(c)
  <2>1. pc'[c] = "refused"
    BY <1>1 DEF RefuseArguments, TypeOK
  <2> QED
    BY <1>0, <2>1
<1>2. CASE Begin(c)
  <2>1. pc'[c] = "snapshot" /\ receipt'[c] \in Receipts
    BY <1>2 DEF Begin, TypeOK
  <2> QED
    BY <1>0, <2>1
<1>3. CASE Snapshot(c)
  <2>1. PICK cut \in Interruptions :
            LET copy == Copied(cut, receipt[c], caller) IN
            /\ receipt' = [receipt EXCEPT ![c] = copy]
            /\ Proceed(c, StageReason(SnapshotError(copy, args[c])), "bind")
    BY <1>3 DEF Snapshot
  <2> DEFINE copy == Copied(cut, receipt[c], caller)
  <2>2. receipt[c] \in Receipts /\ caller \in Receipts
    BY <1>3 DEF Snapshot, TypeOK
  <2>3. Listed(copy) /\ Decided(copy)
    BY <2>2, CopyIsWellMade
  <2>4. receipt'[c] = copy /\ Proceed(c, StageReason(SnapshotError(copy, args[c])), "bind")
    BY <2>1 DEF TypeOK
  <2> HIDE DEF copy
  <2>5. CASE pc'[c] = "bind" /\ StageReason(SnapshotError(copy, args[c])) = "V4_VERIFY_OK"
    BY <1>0, <2>3, <2>4, <2>5, StagePasses
  <2>6. CASE pc'[c] = "commit" /\ reason'[c] # "V4_VERIFY_OK"
    BY <1>0, <2>6, EndedEarlyIsSound
  <2> QED
    BY <2>4, <2>5, <2>6, StageEnds
<1>4. CASE Bind(c)
  <2>1. /\ pc[c] = "bind" /\ receipt'[c] = receipt[c]
        /\ Proceed(c, BindReason(receipt[c], args[c]), "prepare")
    BY <1>4 DEF Bind
  <2>2. CASE pc'[c] = "prepare" /\ BindReason(receipt[c], args[c]) = "V4_VERIFY_OK"
    BY <1>0, <2>1, <2>2
  <2>3. CASE pc'[c] = "commit" /\ reason'[c] # "V4_VERIFY_OK"
    BY <1>0, <2>3, EndedEarlyIsSound
  <2> QED
    BY <2>1, <2>2, <2>3, StageEnds
<1>5. CASE Prepare(c)
  <2>1. /\ pc[c] = "prepare" /\ receipt'[c] = receipt[c]
        /\ Proceed(c, StageReason(PrepareError(receipt[c], args[c])), "rehearse")
    BY <1>5 DEF Prepare
  <2>2. CASE pc'[c] = "rehearse" /\ StageReason(PrepareError(receipt[c], args[c])) = "V4_VERIFY_OK"
    BY <1>0, <2>1, <2>2, StagePasses
  <2>3. CASE pc'[c] = "commit" /\ reason'[c] # "V4_VERIFY_OK"
    BY <1>0, <2>3, EndedEarlyIsSound
  <2> QED
    BY <2>1, <2>2, <2>3, StageEnds
<1> QED
  BY <1>1, <1>2, <1>3, <1>4, <1>5

LEMMA RehearseIsSound ==
    ASSUME NEW c \in Calls, TypeOK, CallSound(c), Rehearse(c)
    PROVE  CallSound(c)'
<1>1. /\ pc[c] = "rehearse" /\ receipt'[c] = receipt[c] /\ args'[c] = args[c]
      /\ asked'[c] = asked[c] /\ work'[c] = work[c] /\ remaining'[c] = Plan(receipt[c])
      /\ Proceed(c, StageReason(RehearsalError(receipt[c], args[c])), "callbacks")
  BY DEF Rehearse, TypeOK
<1>2. /\ asked[c] = <<>> /\ work[c] = [total |-> 0, pqc |-> 0]
      /\ Listed(receipt[c]) /\ Decided(receipt[c])
      /\ SnapshotError(receipt[c], args[c]) = NoError
      /\ BindReason(receipt[c], args[c]) = "V4_VERIFY_OK"
      /\ PrepareError(receipt[c], args[c]) = NoError
  BY <1>1 DEF CallSound, Examined, Early
<1>3. CASE pc'[c] = "commit" /\ reason'[c] # "V4_VERIFY_OK"
  BY <1>1, <1>2, <1>3, EndedEarlyIsSound
<1>4. CASE pc'[c] = "callbacks" /\ StageReason(RehearsalError(receipt[c], args[c])) = "V4_VERIFY_OK"
  <2>1. Checked(receipt[c], args[c])
    <3>1. IsList(args[c].registry.entries)
      BY ValuesAssumption DEF TypeOK
    <3> QED
      BY <1>2, <1>4, <3>1, StagePasses DEF Checked
  <2>2. SoundPlan(Plan(receipt[c]))
    BY <2>1, CheckedPlanIsSound
  <2>3. WorkedOff(<<>>, Plan(receipt[c]), Plan(receipt[c]))
    <3>1. IsList(<<>>) /\ DOMAIN <<>> = {}
      BY DEF IsList
    <3> QED
      BY <3>1 DEF WorkedOff
  <2>4. Affordable([total |-> 0, pqc |-> 0], Plan(receipt[c]))
    <3> DEFINE plan == Plan(receipt[c])
    <3>1. Cardinality(plan) \in Nat /\ Cardinality(Pqc(plan)) \in Nat
      <4>1. Pqc(plan) \in SUBSET plan
        BY DEF Pqc
      <4> HIDE DEF plan
      <4> QED
        BY <2>2, <4>1, FS_CardinalityType, FS_Subset DEF plan, SoundPlan
    <3> QED
      BY <2>2, <3>1, WorkAssumption DEF Affordable, SoundPlan
  <2> QED
    BY <1>1, <1>2, <1>4, <2>1, <2>3, <2>4
       DEF CallSound, Examined, Running, Decisive, Early, Late
<1> QED
  BY <1>1, <1>3, <1>4, StageEnds

-----------------------------------------------------------------------------
(* The callbacks. *)

LEMMA AppendedList ==
    ASSUME NEW s, IsList(s), NEW e
    PROVE  /\ IsList(Append(s, e))
           /\ Len(Append(s, e)) = Len(s) + 1 /\ Len(s) \in Nat
           /\ DOMAIN Append(s, e) = 1..(Len(s) + 1) /\ DOMAIN s = 1..Len(s)
           /\ \A i \in 1..Len(s) : Append(s, e)[i] = s[i]
           /\ Append(s, e)[Len(s) + 1] = e
<1> DEFINE S == Range(s) \cup {e}
<1>1. s \in Seq(S) /\ e \in S
  BY DEF IsList
<1> HIDE DEF S
<1>2. /\ Append(s, e) \in Seq(S)
      /\ Len(Append(s, e)) = Len(s) + 1 /\ Len(s) \in Nat
      /\ DOMAIN Append(s, e) = 1..(Len(s) + 1) /\ DOMAIN s = 1..Len(s)
      /\ \A i \in 1..Len(s) : Append(s, e)[i] = s[i]
      /\ Append(s, e)[Len(s) + 1] = e
  BY <1>1, AppendProperties
<1> QED
  BY <1>2, SeqIsList

LEMMA WorkedOffGrows ==
    ASSUME NEW made, NEW rest, NEW plan, NEW p \in rest, NEW entry,
           WorkedOff(made, rest, plan),
           entry.plan = p,
           \A k \in DOMAIN made : made[k].answer = "true",
           \A q \in rest : AlgorithmRank(p.algorithm) =< AlgorithmRank(q.algorithm)
    PROVE  WorkedOff(Append(made, entry), rest \ {p}, plan)
<1> DEFINE more == Append(made, entry)
           n == Len(made)
<1>1. /\ IsList(made)
      /\ {made[k].plan : k \in DOMAIN made} \cup rest = plan
      /\ \A k \in DOMAIN made :
             /\ made[k].plan \notin rest
             /\ \A q \in rest : AlgorithmRank(made[k].plan.algorithm) =< AlgorithmRank(q.algorithm)
      /\ \A i, j \in DOMAIN made : i < j =>
             /\ made[i].answer = "true"
             /\ made[i].plan # made[j].plan
             /\ AlgorithmRank(made[i].plan.algorithm) =< AlgorithmRank(made[j].plan.algorithm)
  BY DEF WorkedOff
<1>2. /\ IsList(more) /\ n \in Nat
      /\ DOMAIN more = 1..(n + 1) /\ DOMAIN made = 1..n
      /\ \A i \in 1..n : more[i] = made[i]
      /\ more[n + 1] = entry
  BY <1>1, AppendedList
<1> HIDE DEF more, n
<1>3. \A k \in DOMAIN more : k \in DOMAIN made \/ k = n + 1
  BY <1>2
<1>4. {more[k].plan : k \in DOMAIN more} = {made[k].plan : k \in DOMAIN made} \cup {p}
  BY <1>2, <1>3
<1>5. {more[k].plan : k \in DOMAIN more} \cup (rest \ {p}) = plan
  BY <1>1, <1>4
<1>6. ASSUME NEW k \in DOMAIN more
      PROVE  /\ more[k].plan \notin rest \ {p}
             /\ \A q \in rest \ {p} :
                    AlgorithmRank(more[k].plan.algorithm) =< AlgorithmRank(q.algorithm)
  <2>1. CASE k \in DOMAIN made
    BY <1>1, <1>2, <2>1
  <2>2. CASE k = n + 1
    BY <1>2, <2>2
  <2> QED
    BY <1>3, <2>1, <2>2
<1>7. ASSUME NEW i \in DOMAIN more, NEW j \in DOMAIN more, i < j
      PROVE  /\ more[i].answer = "true"
             /\ more[i].plan # more[j].plan
             /\ AlgorithmRank(more[i].plan.algorithm) =< AlgorithmRank(more[j].plan.algorithm)
  <2>1. i \in DOMAIN made /\ more[i] = made[i]
    BY <1>2, <1>7
  <2>2. CASE j \in DOMAIN made
    BY <1>1, <1>2, <1>7, <2>1, <2>2
  <2>3. CASE j = n + 1
    BY <1>1, <1>2, <2>1, <2>3
  <2> QED
    BY <1>3, <2>2, <2>3
<1> QED
  BY <1>2, <1>5, <1>6, <1>7 DEF WorkedOff, more

LEMMA BudgetShrinks ==
    ASSUME NEW spent, NEW rest, NEW p \in rest, IsFiniteSet(rest), Affordable(spent, rest)
    PROVE  /\ Affordable(Attempted(spent, p.algorithm), rest \ {p})
           /\ ~ OverBudget(Attempted(spent, p.algorithm))
<1> DEFINE now == Attempted(spent, p.algorithm)
<1>1. Cardinality(rest \ {p}) = Cardinality(rest) - 1 /\ Cardinality(rest) \in Nat
      /\ Cardinality(rest \ {p}) \in Nat
  BY FS_RemoveElement, FS_CardinalityType, FS_Subset
<1>2. now.total = spent.total + 1
      /\ now.pqc = spent.pqc + (IF p.algorithm \in PqcAlgorithms THEN 1 ELSE 0)
  BY DEF Attempted
<1>3. IsFiniteSet(Pqc(rest)) /\ Cardinality(Pqc(rest)) \in Nat
      /\ Cardinality(Pqc(rest \ {p})) \in Nat
  <2>1. Pqc(rest) \in SUBSET rest /\ Pqc(rest \ {p}) \in SUBSET rest
    BY DEF Pqc
  <2> QED
    BY <2>1, FS_Subset, FS_CardinalityType
<1>4. CASE p.algorithm \in PqcAlgorithms
  <2>1. Pqc(rest \ {p}) = Pqc(rest) \ {p} /\ p \in Pqc(rest)
    BY <1>4 DEF Pqc
  <2>2. Cardinality(Pqc(rest \ {p})) = Cardinality(Pqc(rest)) - 1
    BY <1>3, <2>1, FS_RemoveElement
  <2> HIDE DEF now
  <2>3. Affordable(now, rest \ {p})
    BY <1>1, <1>2, <1>3, <1>4, <2>2, WorkAssumption DEF Affordable
  <2>4. ~ OverBudget(now)
    BY <1>1, <1>3, <2>3, WorkAssumption DEF Affordable, OverBudget
  <2> QED
    BY <2>3, <2>4 DEF now
<1>5. CASE p.algorithm \notin PqcAlgorithms
  <2>1. Pqc(rest \ {p}) = Pqc(rest)
    BY <1>5 DEF Pqc
  <2> HIDE DEF now
  <2>2. Affordable(now, rest \ {p})
    BY <1>1, <1>2, <1>3, <1>5, <2>1, WorkAssumption DEF Affordable
  <2>3. ~ OverBudget(now)
    BY <1>1, <1>3, <2>2, WorkAssumption DEF Affordable, OverBudget
  <2> QED
    BY <2>2, <2>3 DEF now
<1> QED
  BY <1>4, <1>5

\* What remains of a sound plan can be worked off as the plan itself.
LEMMA RestIsSound ==
    ASSUME NEW r, NEW a, Checked(r, a), NEW made, NEW rest, WorkedOff(made, rest, Plan(r))
    PROVE  /\ IsFiniteSet(rest)
           /\ \A p \in rest : p.algorithm \in SupportedAlgorithms /\ p.artifact \in Artifacts
           /\ rest # {} =>
                  /\ NextPlanned(rest) \in rest
                  /\ \A q \in rest :
                         AlgorithmRank(NextPlanned(rest).algorithm) =< AlgorithmRank(q.algorithm)
<1>1. SoundPlan(Plan(r)) /\ rest \in SUBSET Plan(r)
  BY CheckedPlanIsSound DEF WorkedOff
<1>2. IsFiniteSet(rest)
  BY <1>1, FS_Subset DEF SoundPlan
<1> QED
  BY <1>1, <1>2, NextIsCheapest DEF SoundPlan

LEMMA CallbackIsSound ==
    ASSUME NEW c \in Calls, NEW answer \in DOMAIN AnswerReason, TypeOK, CallSound(c),
           Callback(c, answer)
    PROVE  CallSound(c)'
<1> DEFINE plan == NextPlanned(remaining[c])
           spent == Attempted(work[c], plan.algorithm)
           why == AnswerReason[answer]
           entry == [plan |-> plan, answer |-> answer]
<1>1. /\ pc[c] = "callbacks" /\ remaining[c] # {}
      /\ work'[c] = spent
      /\ asked'[c] = Append(asked[c], entry)
      /\ remaining'[c] = remaining[c] \ {plan}
      /\ reason'[c] = why
      /\ receipt'[c] = receipt[c] /\ args'[c] = args[c]
  BY DEF Callback, TypeOK
<1>2. IF why = "V4_VERIFY_OK" THEN pc'[c] = pc[c] ELSE pc'[c] = "commit"
  BY DEF Callback, TypeOK
<1>3. why = "V4_VERIFY_OK" <=> answer = "true"
  BY DEF AnswerReason
<1>4. entry.plan = plan /\ entry.answer = answer
  OBVIOUS
<1>5. /\ Checked(receipt[c], args[c])
      /\ WorkedOff(asked[c], remaining[c], Plan(receipt[c]))
      /\ Affordable(work[c], remaining[c])
      /\ \A k \in DOMAIN asked[c] : asked[c][k].answer = "true"
  BY <1>1 DEF CallSound, Running
<1>6. /\ IsFiniteSet(remaining[c])
      /\ plan \in remaining[c]
      /\ \A q \in remaining[c] : AlgorithmRank(plan.algorithm) =< AlgorithmRank(q.algorithm)
  BY <1>1, <1>5, RestIsSound
<1> HIDE DEF plan, why, entry
<1>7. WorkedOff(asked'[c], remaining'[c], Plan(receipt[c]))
  BY <1>1, <1>4, <1>5, <1>6, WorkedOffGrows
<1>8. Affordable(work'[c], remaining'[c])
  <2>1. Affordable(Attempted(work[c], plan.algorithm), remaining[c] \ {plan})
    BY <1>5, <1>6, BudgetShrinks
  <2> QED
    BY <1>1, <2>1
<1>9. /\ asked'[c] # <<>>
      /\ asked'[c][Len(asked'[c])].answer = answer
      /\ \A k \in DOMAIN asked'[c] : asked'[c][k].answer = "true" \/ k = Len(asked'[c])
  <2>1. IsList(asked[c])
    BY <1>5 DEF WorkedOff
  <2> QED
    BY <1>1, <1>4, <1>5, <2>1, AppendedList
<1> HIDE DEF spent
<1>10. CASE why = "V4_VERIFY_OK"
  BY <1>1, <1>2, <1>3, <1>5, <1>7, <1>8, <1>9, <1>10
     DEF CallSound, Examined, Running, Decisive, Early, Late
<1>11. CASE why # "V4_VERIFY_OK"
  BY <1>1, <1>2, <1>3, <1>5, <1>7, <1>8, <1>9, <1>11
     DEF CallSound, Examined, Running, Decisive, Early, Late
<1> QED
  BY <1>10, <1>11

\* The plan ends because it is exhausted, never on the counter.
LEMMA CallbacksEndIsSound ==
    ASSUME NEW c \in Calls, TypeOK, CallSound(c), CallbacksEnd(c)
    PROVE  CallSound(c)'
<1>1. /\ pc[c] = "callbacks"
      /\ receipt'[c] = receipt[c] /\ args'[c] = args[c] /\ asked'[c] = asked[c]
      /\ remaining'[c] = remaining[c] /\ work'[c] = work[c] /\ reason'[c] = reason[c]
      /\ remaining[c] # {} => OverBudget(Attempted(work[c], NextPlanned(remaining[c]).algorithm))
      /\ pc'[c] = IF remaining[c] = {} THEN "revalidate" ELSE "error"
  BY DEF CallbacksEnd, TypeOK
<1>2. /\ Checked(receipt[c], args[c])
      /\ WorkedOff(asked[c], remaining[c], Plan(receipt[c]))
      /\ Affordable(work[c], remaining[c])
  BY <1>1 DEF CallSound, Running
<1>3. remaining[c] = {}
  BY <1>1, <1>2, RestIsSound, BudgetShrinks
<1> QED
  BY <1>1, <1>2, <1>3 DEF CallSound, Examined, Running, Decisive, Early, Late

-----------------------------------------------------------------------------
(* After the callbacks. *)

\* What the validators found before the callbacks they find again.
LEMMA CheckedRevalidates ==
    ASSUME NEW r, NEW a, Checked(r, a)
    PROVE  RevalidationError(r, a) = NoError
<1> DEFINE verdicts == CachedVerdictsError(r, a, Plan(r))
           same == r.results = ExpectedResults(r)
           envelope == CachedEnvelopeError(r, a, Plan(r))
           checks == << verdicts, Check(same, {"contract", "signature"}), envelope >>
<1>1. verdicts = NoError /\ envelope = NoError
  <2> HIDE DEF verdicts, envelope
  <2> QED
    BY PassedThree DEF Checked, RehearsalError, verdicts, envelope
<1>2. same
  <2> DEFINE own == PrepareBundleError(r.bundle, ORCHESTRATOR_RECEIPT_DOMAIN, Orchestrator,
                                       r.window, a)
             prepared == [i \in DOMAIN r.components |-> PrepareComponentError(r.components[i], a)]
             hashes == \A i \in DOMAIN r.components :
                           r.components[i].signedHash = ComponentHash(r.components[i])
  <2>1. FirstError(<<
          HeaderError(r),
          Check(r.version = a.registry.version, {"key", "registry"}),
          FirstError(prepared),
          FreshnessError(r.window, a.time),
          own,
          PlanError(r),
          SemanticsError(r, a.context),
          Check(same, {}),
          Check(r.bytes = "within", BudgetError),
          Check(r.receiptHash = ReceiptHash(r), {"hash"}),
          Check(r.signedHash = SignedHash(r), {"hash"}),
          Check(hashes, {"hash"}) >>) = NoError
    BY DEF Checked, PrepareError
  <2> HIDE DEF same, own, prepared, hashes
  <2>2. Check(same, {}) = NoError
    BY <2>1, PassedTwelve
  <2> QED
    BY <2>2 DEF Check, NoError
<1>3. DOMAIN checks = 1..3 /\ \A i \in 1..3 : checks[i] = NoError
  <2>1. Check(same, {"contract", "signature"}) = NoError
    BY <1>2 DEF Check
  <2> HIDE DEF verdicts, same, envelope
  <2> QED
    BY <1>1, <2>1
<1>4. FirstError(checks) = NoError
  <2> HIDE DEF checks
  <2> QED
    BY <1>3, FirstErrorIsSomeError
<1> QED
  BY <1>4 DEF RevalidationError

LEMMA RevalidateIsSound ==
    ASSUME NEW c \in Calls, TypeOK, CallSound(c), Revalidate(c)
    PROVE  CallSound(c)'
<1>1. /\ pc[c] = "revalidate"
      /\ Checked(receipt[c], args[c])
      /\ WorkedOff(asked[c], remaining[c], Plan(receipt[c]))
      /\ \A k \in DOMAIN asked[c] : asked[c][k].answer = "true"
      /\ remaining[c] = {}
  BY DEF Revalidate, CallSound, Running
<1>2. /\ pc'[c] = "commit" /\ reason'[c] = "V4_VERIFY_OK"
      /\ receipt'[c] = receipt[c] /\ args'[c] = args[c] /\ asked'[c] = asked[c]
      /\ remaining'[c] = remaining[c] /\ work'[c] = work[c]
  BY <1>1, CheckedRevalidates DEF Revalidate, TypeOK
<1>3. asked[c] # <<>> /\ asked[c][Len(asked[c])].answer = "true"
  <2>1. Plan(receipt[c]) # {}
    BY <1>1, CheckedPlanIsSound DEF SoundPlan
  <2>2. DOMAIN asked[c] # {}
    BY <1>1, <2>1 DEF WorkedOff
  <2>3. DOMAIN asked[c] = 1..Len(asked[c]) /\ Len(asked[c]) \in Nat
    BY <1>1, ListDomain DEF WorkedOff
  <2> QED
    BY <1>1, <2>2, <2>3
<1> QED
  BY <1>1, <1>2, <1>3 DEF CallSound, Examined, Running, Decisive, Early, Late

LEMMA EndIsSound ==
    ASSUME NEW c \in Calls, TypeOK, CallSound(c),
           SerializationFails(c) \/ AppendBatch(c) \/ Conclude(c)
    PROVE  CallSound(c)'
<1>1. /\ pc[c] \in {"commit", "acknowledge"}
      /\ pc'[c] \in {"acknowledge", "accepted", "rejected", "sink_failed"}
      /\ receipt'[c] = receipt[c] /\ args'[c] = args[c] /\ asked'[c] = asked[c]
      /\ remaining'[c] = remaining[c] /\ work'[c] = work[c] /\ reason'[c] = reason[c]
  BY DEF SerializationFails, AppendBatch, Conclude, TypeOK
<1> QED
  BY <1>1 DEF CallSound, Examined, Running, Decisive, Early, Late

-----------------------------------------------------------------------------

LEMMA OthersAreUntouched ==
    ASSUME NEW c \in Calls, NEW d \in Calls, d # c, Step(c), TypeOK
    PROVE  /\ pc'[d] = pc[d] /\ args'[d] = args[d] /\ receipt'[d] = receipt[d]
           /\ remaining'[d] = remaining[d] /\ asked'[d] = asked[d] /\ work'[d] = work[d]
           /\ reason'[d] = reason[d]
<1> USE DEF TypeOK
<1>1. CASE RefuseArguments(c) \/ Begin(c)
  BY <1>1 DEF RefuseArguments, Begin
<1>2. CASE Snapshot(c) \/ Bind(c) \/ Prepare(c) \/ Rehearse(c)
  BY <1>2 DEF Snapshot, Bind, Prepare, Rehearse, Proceed
<1>3. CASE \E answer \in DOMAIN AnswerReason : Callback(c, answer)
  BY <1>3 DEF Callback
<1>4. CASE CallbacksEnd(c) \/ Revalidate(c)
  BY <1>4 DEF CallbacksEnd, Revalidate
<1>5. CASE SerializationFails(c) \/ AppendBatch(c) \/ Conclude(c)
  BY <1>5 DEF SerializationFails, AppendBatch, Conclude
<1> QED
  BY <1>1, <1>2, <1>3, <1>4, <1>5 DEF Step

LEMMA StepIsSound ==
    ASSUME NEW c \in Calls, TypeOK, CallSound(c), Step(c)
    PROVE  CallSound(c)'
<1>1. CASE RefuseArguments(c) \/ Begin(c) \/ Snapshot(c) \/ Bind(c) \/ Prepare(c)
  BY <1>1, PreflightIsSound
<1>2. CASE Rehearse(c)
  BY <1>2, RehearseIsSound
<1>3. CASE \E answer \in DOMAIN AnswerReason : Callback(c, answer)
  BY <1>3, CallbackIsSound
<1>4. CASE CallbacksEnd(c)
  BY <1>4, CallbacksEndIsSound
<1>5. CASE Revalidate(c)
  BY <1>5, RevalidateIsSound
<1>6. CASE SerializationFails(c) \/ AppendBatch(c) \/ Conclude(c)
  BY <1>6, EndIsSound
<1> QED
  BY <1>1, <1>2, <1>3, <1>4, <1>5, <1>6 DEF Step

LEMMA StepsKeepSound ==
    ASSUME TypeOK, SoundInv, [Next]_vars
    PROVE  SoundInv'
<1> SUFFICES ASSUME NEW d \in Calls PROVE CallSound(d)'
  BY DEF SoundInv
<1>0. CallSound(d)
  BY DEF SoundInv
<1>1. CASE MutateReceipt \/ UNCHANGED vars
  BY <1>0, <1>1, UntouchedIsSound DEF MutateReceipt, outcome, vars
<1>2. CASE \E c \in Calls : Step(c)
  <2> PICK c \in Calls : Step(c)
    BY <1>2
  <2>1. CASE d = c
    BY <1>0, <2>1, StepIsSound
  <2>2. CASE d # c
    BY <1>0, <2>2, OthersAreUntouched, UntouchedIsSound
  <2> QED
    BY <2>1, <2>2
<1> QED
  BY <1>1, <1>2 DEF Next

LEMMA InitIsSound ==
    ASSUME Init
    PROVE  SoundInv
BY DEF Init, SoundInv, CallSound, Examined, Running, Decisive, Early, Late

\* The inductive invariant holds of every state of the audited boundary: each
\* call's receipt, plan and history are what the steps before it established
\* (v4/verification_audit.py:871-1210).
THEOREM Soundness == Spec => []SoundInv
<1>1. Init => SoundInv
  BY InitIsSound
<1>2. TypeOK /\ SoundInv /\ [Next]_vars => SoundInv'
  BY StepsKeepSound
<1> QED
  BY <1>1, <1>2, TypeCorrect, PTL DEF Spec

-----------------------------------------------------------------------------
(* The theorems. *)

\* No backend is asked about a receipt that a check without cryptography would
\* refuse (v4/verification_audit.py:910-1134).
THEOREM OnlySoundReceiptsReachBackends == Spec => []BackendsSeeOnlySoundReceipts
<1>1. SoundInv => BackendsSeeOnlySoundReceipts
  BY CheckedIsSound DEF SoundInv, CallSound, Running, BackendsSeeOnlySoundReceipts
<1> QED
  BY <1>1, Soundness, PTL

\* The plan check and the work counter agree: an approved plan is never cut
\* short (v4/work_budget.py:52-61 and 181-191).
THEOREM WorkIsPlanned == Spec => []PlannedWorkFits
<1>1. SoundInv => PlannedWorkFits
  BY DEF SoundInv, CallSound, Decisive, Late, PlannedWorkFits
<1> QED
  BY <1>1, Soundness, PTL

\* Callbacks run in waves of rising cost and stop at the first failure
\* (v4/verification_audit.py:767-828).
THEOREM CheapestIsFirst == Spec => []CheapestFirst
<1>1. SoundInv => CheapestFirst
  <2> SUFFICES ASSUME SoundInv, NEW c \in Calls, NEW j \in DOMAIN asked[c], NEW i \in 1..(j - 1)
               PROVE  /\ asked[c][i].answer = "true"
                      /\ asked[c][i].plan # asked[c][j].plan
                      /\ AlgorithmRank(asked[c][i].plan.algorithm)
                             =< AlgorithmRank(asked[c][j].plan.algorithm)
    BY DEF CheapestFirst
  <2>1. asked[c] # <<>>
    OBVIOUS
  <2>2. WorkedOff(asked[c], remaining[c], Plan(receipt[c]))
    BY <2>1 DEF SoundInv, CallSound, Running
  <2>3. i \in DOMAIN asked[c] /\ i < j
    BY <2>2, ListDomain DEF WorkedOff
  <2> QED
    BY <2>2, <2>3 DEF WorkedOff
<1> QED
  BY <1>1, Soundness, PTL

\* After the first callback nothing but a backend's answer rejects
\* (v4/verification_audit.py:1097-1134 against 1153-1198).
THEOREM LateRejectionsAreBackends == Spec => []OnlyBackendsRejectLate
<1>1. DurabilityInv /\ SoundInv => OnlyBackendsRejectLate
  BY DEF DurabilityInv, Answered, SoundInv, CallSound, Decisive, Late, OnlyBackendsRejectLate
<1> QED
  BY <1>1, Durability, Soundness, PTL

LEMMA AcceptedIsVerified ==
    ASSUME DurabilityInv, SoundInv, NEW c \in Calls, pc[c] = "accepted"
    PROVE  LET r == released[c]
               approved == [k \in DOMAIN asked[c] |->
                               <<asked[c][k].plan.artifact, asked[c][k].plan.algorithm,
                                 asked[c][k].plan.key>>]
           IN  /\ \A k \in DOMAIN asked[c] : asked[c][k].answer = "true"
               /\ IsInjective(approved)
               /\ Range(approved) =
                      UNION {{<<id, e.algorithm, e.key>> : e \in EntriesOf(r, id)} : id \in Artifacts}
               /\ \A id \in Artifacts : RequiredAlgorithms \subseteq
                      {e.algorithm : e \in EntriesOf(r, id)}
<1> DEFINE r == released[c]
           made == asked[c]
           Triple(p) == <<p.artifact, p.algorithm, p.key>>
           approved == [k \in DOMAIN made |->
                           <<made[k].plan.artifact, made[k].plan.algorithm, made[k].plan.key>>]
<1>1. reason[c] = "V4_VERIFY_OK" /\ r = receipt[c]
  BY DEF DurabilityInv, Answered
<1>2. /\ made # <<>> /\ remaining[c] = {}
      /\ made[Len(made)].answer = "true"
  BY <1>1 DEF SoundInv, CallSound, Decisive, Late
<1>3. Checked(r, args[c]) /\ WorkedOff(made, {}, Plan(r))
  BY <1>1, <1>2 DEF SoundInv, CallSound, Running
<1>4. DOMAIN made = 1..Len(made) /\ Len(made) \in Nat
  BY <1>3, ListDomain DEF WorkedOff
<1> HIDE DEF made, r
<1>5. ASSUME NEW k \in DOMAIN made PROVE made[k].answer = "true"
  <2>1. CASE k < Len(made)
    BY <1>3, <1>4, <2>1 DEF WorkedOff
  <2>2. CASE k = Len(made)
    BY <1>2, <2>2
  <2> QED
    BY <1>4, <2>1, <2>2
<1>6. {made[k].plan : k \in DOMAIN made} = Plan(r) /\ SoundPlan(Plan(r))
  BY <1>3, CheckedPlanIsSound DEF WorkedOff
<1>7. IsInjective(approved)
  <2> SUFFICES ASSUME NEW j \in DOMAIN made, NEW k \in DOMAIN made, approved[j] = approved[k]
               PROVE  j = k
    BY DEF IsInjective
  <2>1. made[j].plan = made[k].plan
    <3>1. made[j].plan \in Plan(r) /\ made[k].plan \in Plan(r)
      BY <1>6
    <3>2. made[j].plan.artifact = made[k].plan.artifact
          /\ made[j].plan.algorithm = made[k].plan.algorithm
      OBVIOUS
    <3> QED
      BY <1>6, <3>1, <3>2 DEF SoundPlan
  <2> QED
    BY <1>3, <1>4, <2>1 DEF WorkedOff
<1>8. Range(approved) = {Triple(p) : p \in Plan(r)}
  BY <1>6 DEF Range
<1>9. {Triple(p) : p \in Plan(r)} =
          UNION {{<<id, e.algorithm, e.key>> : e \in EntriesOf(r, id)} : id \in Artifacts}
  <2>1. Plan(r) = UNION {BundlePlan(id, BundleOf(r, id)) : id \in Artifacts}
    BY <1>3, CheckedVerifies, PlanHasEveryEntry DEF Checked, Listed
  <2>2. ASSUME NEW id \in Artifacts
        PROVE  {Triple(p) : p \in BundlePlan(id, BundleOf(r, id))} =
                   {<<id, e.algorithm, e.key>> : e \in EntriesOf(r, id)}
    <3> DEFINE s == BundleOf(r, id).signatures
               triples == {<<id, s[i].algorithm, s[i].key>> : i \in DOMAIN s}
    <3>1. \A i \in DOMAIN s : Triple(PlannedEntry(id, BundleOf(r, id), i)) =
                                   <<id, s[i].algorithm, s[i].key>>
      BY DEF PlannedEntry
    <3>2. {Triple(p) : p \in BundlePlan(id, BundleOf(r, id))} = triples
      <4> HIDE DEF Triple
      <4> QED
        BY <3>1 DEF BundlePlan
    <3>3. EntriesOf(r, id) = {s[i] : i \in DOMAIN s}
      BY DEF EntriesOf, Range
    <3>4. {<<id, e.algorithm, e.key>> : e \in EntriesOf(r, id)} = triples
      BY <3>3
    <3> QED
      BY <3>2, <3>4
  <2> HIDE DEF Triple
  <2>3. {Triple(p) : p \in Plan(r)} =
            UNION {{Triple(p) : p \in BundlePlan(id, BundleOf(r, id))} : id \in Artifacts}
    BY <2>1
  <2> QED
    BY <2>2, <2>3
<1>10. \A id \in Artifacts : RequiredAlgorithms \subseteq {e.algorithm : e \in EntriesOf(r, id)}
  BY <1>3, CheckedIsSound DEF SoundReceipt, SoundArtifact
<1> QED
  BY <1>5, <1>7, <1>8, <1>9, <1>10 DEF made, r

\* A returned receipt had each of its signatures approved exactly once, and
\* nothing else was asked (v4/verification_audit.py:1086-1198).
THEOREM AcceptanceIsVerified == Spec => []AcceptedMeansVerified
<1>1. DurabilityInv /\ SoundInv => AcceptedMeansVerified
  BY AcceptedIsVerified DEF AcceptedMeansVerified
<1> QED
  BY <1>1, Durability, Soundness, PTL

-----------------------------------------------------------------------------
(* The verdict as one decision. *)

\* A call that has a verdict and asked nothing failed a check.
RefusedInv ==
    \A c \in Calls :
        pc[c] \in Late /\ asked[c] = <<>> => ~ Approvable(receipt[c], args[c])

LEMMA FailedStage ==
    ASSUME NEW error, StageReason(error) # "V4_VERIFY_OK"
    PROVE  error # NoError
BY DEF StageReason

LEMMA NothingToRevalidate ==
    ASSUME SoundInv, NEW c \in Calls, pc[c] = "revalidate"
    PROVE  asked[c] # <<>>
<1>1. /\ Checked(receipt[c], args[c]) /\ remaining[c] = {}
      /\ WorkedOff(asked[c], remaining[c], Plan(receipt[c]))
  BY DEF SoundInv, CallSound, Running
<1>2. Plan(receipt[c]) # {}
  BY <1>1, CheckedPlanIsSound DEF SoundPlan
<1>3. asked[c] = <<>> => {asked[c][k].plan : k \in DOMAIN asked[c]} = {}
  OBVIOUS
<1> QED
  BY <1>1, <1>2, <1>3 DEF WorkedOff

LEMMA StepsKeepRefused ==
    ASSUME TypeOK, SoundInv, SoundInv', RefusedInv, [Next]_vars
    PROVE  RefusedInv'
<1> SUFFICES ASSUME NEW d \in Calls, pc'[d] \in Late, asked'[d] = <<>>
             PROVE  ~ Approvable(receipt'[d], args'[d])
  BY DEF RefusedInv, Approvable, SnapshotError, BindReason, PrepareError, RehearsalError, Late
<1>0. pc[d] \in Late /\ asked[d] = <<>> => ~ Approvable(receipt[d], args[d])
  BY DEF RefusedInv
<1>1. CASE MutateReceipt \/ UNCHANGED vars
  BY <1>0, <1>1 DEF MutateReceipt, outcome, vars
<1>2. CASE \E c \in Calls : Step(c)
  <2> PICK c \in Calls : Step(c)
    BY <1>2
  <2>1. CASE d # c
    BY <1>0, <2>1, OthersAreUntouched
  <2>2. CASE d = c /\ (RefuseArguments(c) \/ Begin(c))
    BY <2>2 DEF RefuseArguments, Begin, TypeOK, Late
  <2>3. CASE d = c /\ Snapshot(c)
    <3>1. PICK cut \in Interruptions :
              LET copy == Copied(cut, receipt[c], caller) IN
              /\ receipt' = [receipt EXCEPT ![c] = copy]
              /\ Proceed(c, StageReason(SnapshotError(copy, args[c])), "bind")
      BY <2>3 DEF Snapshot
    <3>2. /\ Proceed(c, StageReason(SnapshotError(receipt'[c], args[c])), "bind")
          /\ args'[c] = args[c]
      BY <2>3, <3>1 DEF Snapshot, TypeOK
    <3>3. StageReason(SnapshotError(receipt'[c], args[c])) # "V4_VERIFY_OK"
      BY <2>3, <3>2, StageEnds DEF Late
    <3> QED
      BY <2>3, <3>2, <3>3, FailedStage DEF Approvable
  <2>4. CASE d = c /\ Bind(c)
    <3>1. /\ Proceed(c, BindReason(receipt[c], args[c]), "prepare")
          /\ receipt'[c] = receipt[c] /\ args'[c] = args[c]
      BY <2>4 DEF Bind
    <3> QED
      BY <2>4, <3>1, StageEnds DEF Late, Approvable
  <2>5. CASE d = c /\ Prepare(c)
    <3>1. /\ Proceed(c, StageReason(PrepareError(receipt[c], args[c])), "rehearse")
          /\ receipt'[c] = receipt[c] /\ args'[c] = args[c]
      BY <2>5 DEF Prepare
    <3> QED
      BY <2>5, <3>1, StageEnds, FailedStage DEF Late, Approvable
  <2>6. CASE d = c /\ Rehearse(c)
    <3>1. /\ Proceed(c, StageReason(RehearsalError(receipt[c], args[c])), "callbacks")
          /\ receipt'[c] = receipt[c] /\ args'[c] = args[c]
      BY <2>6 DEF Rehearse
    <3> QED
      BY <2>6, <3>1, StageEnds, FailedStage DEF Late, Approvable
  <2>7. CASE d = c /\ \E answer \in DOMAIN AnswerReason : Callback(c, answer)
    <3>1. PICK answer \in DOMAIN AnswerReason : Callback(c, answer)
      BY <2>7
    <3>2. \E e : asked'[c] = Append(asked[c], e)
      BY <3>1 DEF Callback, TypeOK
    <3>3. IsList(asked[c])
      BY <3>1 DEF Callback, SoundInv, CallSound, Running, WorkedOff
    <3> QED
      BY <2>7, <3>2, <3>3, AppendedList
  <2>8. CASE d = c /\ CallbacksEnd(c)
    <3>1. pc'[c] \in {"revalidate", "error"}
      BY <2>8 DEF CallbacksEnd, TypeOK
    <3>2. pc'[c] # "error"
      BY DEF SoundInv, CallSound, Decisive, Late
    <3> QED
      BY <2>8, <3>1, <3>2 DEF Late
  <2>9. CASE d = c /\ Revalidate(c)
    BY <2>9, NothingToRevalidate DEF Revalidate
  <2>10. CASE d = c /\ (SerializationFails(c) \/ AppendBatch(c) \/ Conclude(c))
    BY <1>0, <2>10 DEF SerializationFails, AppendBatch, Conclude, Late
  <2> QED
    BY <2>1, <2>2, <2>3, <2>4, <2>5, <2>6, <2>7, <2>8, <2>9, <2>10 DEF Step
<1> QED
  BY <1>1, <1>2 DEF Next

\* The stages of a call give the verdict of one decision
\* (v4/verification_audit.py:910-1208).
THEOREM StagesDecideAsOne == Spec => []DecidesAsOne
<1>1. Init => RefusedInv
  BY DEF Init, RefusedInv, Late
<1>2. TypeOK /\ SoundInv /\ SoundInv' /\ RefusedInv /\ [Next]_vars => RefusedInv'
  BY StepsKeepRefused
<1>3. DurabilityInv /\ SoundInv /\ RefusedInv => DecidesAsOne
  <2> SUFFICES ASSUME DurabilityInv, SoundInv, RefusedInv,
                      NEW c \in Calls, pc[c] \in {"accepted", "rejected"}
               PROVE  pc[c] = "accepted" <=>
                          /\ Approvable(receipt[c], args[c])
                          /\ \A k \in DOMAIN asked[c] : asked[c][k].answer = "true"
    BY DEF DecidesAsOne
  <2>1. CASE pc[c] = "accepted"
    <3>1. asked[c] # <<>>
      BY <2>1 DEF DurabilityInv, Answered, SoundInv, CallSound, Decisive, Late
    <3>2. Checked(receipt[c], args[c])
      BY <3>1 DEF SoundInv, CallSound, Running
    <3> QED
      BY <2>1, <3>2, AcceptedIsVerified DEF Checked, Approvable
  <2>2. CASE pc[c] = "rejected" /\ asked[c] = <<>>
    BY <2>2 DEF RefusedInv, Late
  <2>3. CASE pc[c] = "rejected" /\ asked[c] # <<>>
    <3>1. asked[c][Len(asked[c])].answer # "true"
      BY <2>3 DEF DurabilityInv, Answered, SoundInv, CallSound, Decisive, Late
    <3>2. IsList(asked[c])
      BY <2>3 DEF SoundInv, CallSound, Running, WorkedOff
    <3>3. Len(asked[c]) \in DOMAIN asked[c]
      BY <2>3, <3>2 DEF IsList
    <3> QED
      BY <2>3, <3>1, <3>3
  <2> QED
    BY <2>1, <2>2, <2>3
<1> QED
  BY <1>1, <1>2, <1>3, TypeCorrect, Durability, Soundness, PTL DEF Spec

-----------------------------------------------------------------------------
(* Where an accepted receipt comes from. *)

\* The signed hash of a copy is that of a value in "values".
Carried(r, values) ==
    /\ r.fields \in BOOLEAN
    /\ \E x \in values : r.signedHash = x.signedHash

\* Both values a copy is made of are among those held while it is made, and
\* the copy carries the hash of one of them.
CallHeld(c) ==
    /\ pc[c] = "snapshot" => receipt[c] \in held[c] /\ caller \in held[c]
    /\ pc[c] \notin {"idle", "refused", "snapshot"} => Carried(receipt[c], held[c])

HeldInv == \A c \in Calls : CallHeld(c)

\* Wherever a copy is cut, its signed hash is that of one of the two values.
LEMMA CopyCarries ==
    ASSUME NEW cut \in Interruptions, NEW values \in SUBSET Receipts,
           NEW first \in values, NEW last \in values
    PROVE  Carried(Copied(cut, first, last), values)
<1> DEFINE copy == Copied(cut, first, last)
<1>1. \A f \in {"fields", "signedHash"} : copy[f] \in {first[f], last[f]}
  <2>1. \A f \in {"fields", "signedHash"} : f \in DOMAIN last /\ f # cut.at
    BY ValuesAssumption, InterruptionsAssumption DEF ReceiptFields
  <2> QED
    BY <2>1 DEF Copied
<1>2. first.fields \in BOOLEAN /\ last.fields \in BOOLEAN
  BY ValuesAssumption
<1>3. copy.fields \in {first.fields, last.fields}
      /\ copy.signedHash \in {first.signedHash, last.signedHash}
  BY <1>1
<1> HIDE DEF copy
<1> QED
  BY <1>2, <1>3 DEF Carried, copy

\* No step of a call changes the object, and none but the first what is
\* recorded of it.
LEMMA HeldAfterStep ==
    ASSUME NEW c \in Calls, NEW d \in Calls, TypeOK, Step(c)
    PROVE  /\ caller' = caller
           /\ d # c => held'[d] = held[d]
           /\ ~ Begin(c) => held'[d] = held[d]
<1> USE DEF TypeOK, environment
<1>1. CASE RefuseArguments(c) \/ Begin(c)
  BY <1>1 DEF RefuseArguments, Begin
<1>2. CASE Snapshot(c) \/ Bind(c) \/ Prepare(c) \/ Rehearse(c)
  BY <1>2 DEF Snapshot, Bind, Prepare, Rehearse
<1>3. CASE \E answer \in DOMAIN AnswerReason : Callback(c, answer)
  BY <1>3 DEF Callback
<1>4. CASE CallbacksEnd(c) \/ Revalidate(c)
  BY <1>4 DEF CallbacksEnd, Revalidate
<1>5. CASE SerializationFails(c) \/ AppendBatch(c) \/ Conclude(c)
  BY <1>5 DEF SerializationFails, AppendBatch, Conclude
<1> QED
  BY <1>1, <1>2, <1>3, <1>4, <1>5 DEF Step

LEMMA StepsKeepHeld ==
    ASSUME TypeOK, SoundInv, HeldInv, [Next]_vars
    PROVE  HeldInv'
<1> SUFFICES ASSUME NEW d \in Calls PROVE CallHeld(d)'
  BY DEF HeldInv
<1>0. CallHeld(d)
  BY DEF HeldInv
<1>1. CASE UNCHANGED vars
  BY <1>0, <1>1 DEF CallHeld, Carried, vars
<1>2. CASE MutateReceipt
  <2>1. /\ pc'[d] = pc[d] /\ receipt'[d] = receipt[d]
        /\ held'[d] = IF pc[d] = "snapshot" THEN held[d] \cup {caller'} ELSE held[d]
    BY <1>2 DEF MutateReceipt
  <2> QED
    BY <1>0, <2>1 DEF CallHeld, Carried
<1>3. CASE \E c \in Calls : Step(c)
  <2> PICK c \in Calls : Step(c)
    BY <1>3
  <2>1. CASE d # c
    BY <1>0, <2>1, OthersAreUntouched, HeldAfterStep DEF CallHeld, Carried
  <2>2. CASE d = c /\ RefuseArguments(c)
    BY <2>2 DEF RefuseArguments, CallHeld, TypeOK
  <2>3. CASE d = c /\ Begin(c)
    BY <2>3 DEF Begin, CallHeld, TypeOK
  <2>4. CASE d = c /\ Snapshot(c)
    <3>1. PICK cut \in Interruptions : receipt'[c] = Copied(cut, receipt[c], caller)
      BY <2>4 DEF Snapshot, TypeOK
    <3>2. /\ held[c] \in SUBSET Receipts
          /\ receipt[c] \in held[c] /\ caller \in held[c]
      BY <1>0, <2>4 DEF Snapshot, CallHeld, TypeOK
    <3>3. Carried(receipt'[c], held[c])
      BY <3>1, <3>2, CopyCarries
    <3>4. pc'[c] \in {"bind", "commit"}
      BY <2>4 DEF Snapshot, Proceed, TypeOK
    <3>5. held'[c] = held[c]
      BY <2>4 DEF Snapshot, environment
    <3> QED
      BY <2>4, <3>3, <3>4, <3>5 DEF CallHeld, Carried
  <2>5. CASE d = c /\ (Bind(c) \/ Prepare(c) \/ Rehearse(c))
    <3>1. pc[c] \in {"bind", "prepare", "rehearse"} /\ pc'[c] # "snapshot"
          /\ receipt'[c] = receipt[c] /\ held'[c] = held[c]
      BY <2>5 DEF Bind, Prepare, Rehearse, Proceed, environment, TypeOK
    <3> QED
      BY <1>0, <2>5, <3>1 DEF CallHeld, Carried
  <2>6. CASE d = c /\ \E answer \in DOMAIN AnswerReason : Callback(c, answer)
    <3>1. pc[c] = "callbacks" /\ pc'[c] \in {"callbacks", "commit"}
          /\ receipt'[c] = receipt[c] /\ held'[c] = held[c]
      BY <2>6 DEF Callback, environment, TypeOK
    <3> QED
      BY <1>0, <2>6, <3>1 DEF CallHeld, Carried
  <2>7. CASE d = c /\ (CallbacksEnd(c) \/ Revalidate(c))
    <3>1. pc[c] \in {"callbacks", "revalidate"} /\ pc'[c] # "snapshot"
          /\ receipt'[c] = receipt[c] /\ held'[c] = held[c]
      BY <2>7 DEF CallbacksEnd, Revalidate, environment, TypeOK
    <3> QED
      BY <1>0, <2>7, <3>1 DEF CallHeld, Carried
  <2>8. CASE d = c /\ (SerializationFails(c) \/ AppendBatch(c) \/ Conclude(c))
    <3>1. pc[c] \in {"commit", "acknowledge"} /\ pc'[c] # "snapshot"
          /\ receipt'[c] = receipt[c] /\ held'[c] = held[c]
      BY <2>8 DEF SerializationFails, AppendBatch, Conclude, environment, TypeOK
    <3> QED
      BY <1>0, <2>8, <3>1 DEF CallHeld, Carried
  <2> QED
    BY <2>1, <2>2, <2>3, <2>4, <2>5, <2>6, <2>7, <2>8 DEF Step
<1> QED
  BY <1>1, <1>2, <1>3 DEF Next

\* A receipt that passed every check is whole.
LEMMA CheckedIsWhole ==
    ASSUME NEW r, NEW a, Checked(r, a), r.fields \in BOOLEAN
    PROVE  Whole(r)
<1>1. /\ Check(r.json = "bounded", BudgetError) = NoError
      /\ Check(r.fields, {"field", "schema"}) = NoError
  BY PassedFive DEF Checked, SnapshotError
<1>2. r.json = "bounded" /\ r.fields
  BY <1>1 DEF Check, NoError, BudgetError
<1>3. /\ Check(r.bytes = "within", BudgetError) = NoError
      /\ Check(r.receiptHash = ReceiptHash(r), {"hash"}) = NoError
      /\ Check(r.signedHash = SignedHash(r), {"hash"}) = NoError
  BY PassedTwelve DEF Checked, PrepareError
<1>4. r.bytes = "within" /\ r.receiptHash = ReceiptHash(r) /\ r.signedHash = SignedHash(r)
  BY <1>3 DEF Check, NoError, BudgetError
<1> QED
  BY <1>2, <1>4 DEF Whole

\* Whole receipts with one hash differ in their signatures only.
LEMMA WholeReceiptsAgree ==
    ASSUME NEW r, NEW y, Whole(r), Whole(y), DOMAIN y = ReceiptFields,
           r.fields \in BOOLEAN, y.fields \in BOOLEAN, SignedHash(r) = SignedHash(y)
    PROVE  \A f \in DOMAIN y \ {"bundle"} : r[f] = y[f]
<1>1. ReceiptPayload(r) = ReceiptPayload(y)
  BY DEF SignedHash, DomainHash
<1>2. r.receiptHash = y.receiptHash /\ r.signedHash = y.signedHash
  BY <1>1 DEF Whole, ReceiptHash
<1>3. r.json = y.json /\ r.bytes = y.bytes /\ r.fields = y.fields
  BY DEF Whole
<1>4. /\ r.request = y.request /\ r.schema = y.schema /\ r.context = y.context
      /\ r.policy = y.policy /\ r.header = y.header /\ r.version = y.version
      /\ r.window = y.window /\ r.components = y.components /\ r.results = y.results
      /\ r.outcome = y.outcome /\ r.handoff = y.handoff
  <2>1. \A f \in {"request", "schema", "context", "policy", "header", "version", "window",
                 "components", "results", "outcome", "handoff"} :
            ReceiptPayload(r)[f] = ReceiptPayload(y)[f]
    BY <1>1
  <2> QED
    BY <2>1 DEF ReceiptPayload
<1> QED
  BY <1>2, <1>3, <1>4 DEF ReceiptFields

\* However the object changes while it is copied, an accepted receipt is one
\* the object held at that time, by its hash and by all it says, but for the
\* signatures over it (v4/work_budget.py:78-146,
\* v4/verification_audit.py:911 and 1034-1069).
THEOREM NothingIsMixed == Spec => []NeverAMixture
<1>1. Init => HeldInv
  BY DEF Init, HeldInv, CallHeld
<1>2. TypeOK /\ SoundInv /\ HeldInv /\ [Next]_vars => HeldInv'
  BY StepsKeepHeld
<1>3. DurabilityInv /\ SoundInv /\ HeldInv => NeverAMixture
  <2> SUFFICES ASSUME DurabilityInv, SoundInv, HeldInv, NEW c \in Calls, pc[c] = "accepted"
               PROVE  \E x \in held[c] :
                          /\ released[c].signedHash = x.signedHash
                          /\ Whole(x) => \A f \in DOMAIN x \ {"bundle"} : released[c][f] = x[f]
    BY DEF NeverAMixture
  <2> DEFINE r == released[c]
  <2>1. reason[c] = "V4_VERIFY_OK" /\ r = receipt[c]
    BY DEF DurabilityInv, Answered
  <2>2. asked[c] # <<>>
    BY <2>1 DEF SoundInv, CallSound, Decisive, Late
  <2>3. Checked(r, args[c]) /\ Carried(r, held[c])
    BY <2>1, <2>2 DEF SoundInv, CallSound, Running, HeldInv, CallHeld
  <2> HIDE DEF r
  <2>4. Whole(r)
    BY <2>3, CheckedIsWhole DEF Carried
  <2>5. PICK x \in held[c] : r.signedHash = x.signedHash
    BY <2>3 DEF Carried
  <2>6. x \in Receipts
    BY DEF DurabilityInv, TypeOK
  <2>7. ASSUME Whole(x) PROVE \A f \in DOMAIN x \ {"bundle"} : r[f] = x[f]
    <3>1. SignedHash(r) = SignedHash(x)
      BY <2>4, <2>5, <2>7 DEF Whole
    <3> QED
      BY <2>3, <2>4, <2>6, <2>7, <3>1, ValuesAssumption, WholeReceiptsAgree DEF Carried
  <2> QED
    BY <2>5, <2>7 DEF r
<1> QED
  BY <1>1, <1>2, <1>3, TypeCorrect, Durability, Soundness, PTL DEF Spec

-----------------------------------------------------------------------------
(* What a batch tells. *)

\* One record for each callback, with what it answered.
Recorded(batch, made) ==
    /\ batch[1].type = "verification_preflight" /\ batch[1].passed
    /\ \A i \in 1..Len(made) :
           /\ batch[i + 1].type = "signature_verification"
           /\ batch[i + 1].artifact = made[i].plan.artifact
           /\ batch[i + 1].algorithm = made[i].plan.algorithm
           /\ batch[i + 1].passed <=> made[i].answer = "true"

\* A batch that is complete.
Closed(batch, made) ==
    LET last == batch[Len(batch)] IN
    \/ /\ Len(made) = 0 /\ Len(batch) = 1
       /\ batch[1].type = "verification_preflight" /\ ~ batch[1].passed
    \/ /\ Len(made) > 0 /\ Len(batch) = Len(made) + 2
       /\ Recorded(batch, made)
       /\ last.type = "artifact_verification"
       /\ last.passed <=> made[Len(made)].answer = "true"
       /\ last.artifact = IF last.passed THEN Orchestrator ELSE made[Len(made)].plan.artifact

Telling(c) ==
    /\ pc[c] \in {"snapshot", "bind", "prepare", "rehearse"} =>
           events[c] = <<PreflightEvent(args[c], "V4_VERIFY_OK")>>
    /\ pc[c] \in {"callbacks", "revalidate"} =>
           Len(events[c]) = Len(asked[c]) + 1 /\ Recorded(events[c], asked[c])
    /\ pc[c] \in Late => Closed(events[c], asked[c])

LEMMA PreflightSays ==
    ASSUME NEW a, NEW why
    PROVE  /\ PreflightEvent(a, why).type = "verification_preflight"
           /\ PreflightEvent(a, why).passed <=> why = "V4_VERIFY_OK"
BY Zenon DEF PreflightEvent

LEMMA SignatureSays ==
    ASSUME NEW r, NEW plan, NEW why
    PROVE  LET e == SignatureEvent(r, plan, why) IN
           /\ e.type = "signature_verification"
           /\ e.artifact = plan.artifact /\ e.algorithm = plan.algorithm
           /\ e.passed <=> why = "V4_VERIFY_OK"
BY Zenon DEF SignatureEvent

LEMMA ArtifactSays ==
    ASSUME NEW r, NEW id, NEW why
    PROVE  LET e == ArtifactEvent(r, id, why) IN
           /\ e.type = "artifact_verification"
           /\ e.artifact = id
           /\ e.passed <=> why = "V4_VERIFY_OK"
BY Zenon DEF ArtifactEvent

LEMMA TwiceAppended ==
    ASSUME NEW s, IsList(s), NEW e, NEW f
    PROVE  /\ IsList(s \o <<e, f>>)
           /\ Len(s \o <<e, f>>) = Len(s) + 2 /\ Len(s) \in Nat
           /\ \A i \in 1..Len(s) : (s \o <<e, f>>)[i] = s[i]
           /\ (s \o <<e, f>>)[Len(s) + 1] = e
           /\ (s \o <<e, f>>)[Len(s) + 2] = f
<1> DEFINE S == Range(s) \cup {e, f}
           t == <<e, f>>
<1>1. s \in Seq(S) /\ t \in Seq(S) /\ Len(t) = 2 /\ t[1] = e /\ t[2] = f
  BY DEF IsList
<1> HIDE DEF S, t
<1>2. /\ s \o t \in Seq(S)
      /\ Len(s \o t) = Len(s) + Len(t)
      /\ \A i \in 1 .. Len(s) + Len(t) :
             (s \o t)[i] = IF i <= Len(s) THEN s[i] ELSE t[i - Len(s)]
  BY <1>1, ConcatProperties
<1>3. Len(s) \in Nat
  BY <1>1
<1>4. \A i \in 1..Len(s) : (s \o t)[i] = s[i]
  BY <1>1, <1>2, <1>3
<1>5. (s \o t)[Len(s) + 1] = t[1] /\ (s \o t)[Len(s) + 2] = t[2]
  BY <1>1, <1>2, <1>3
<1>6. IsList(s \o t)
  BY <1>2, SeqIsList
<1> QED
  BY <1>1, <1>2, <1>3, <1>4, <1>5, <1>6 DEF t

LEMMA UntouchedTells ==
    ASSUME NEW c \in Calls, Telling(c),
           pc'[c] = pc[c], args'[c] = args[c], asked'[c] = asked[c], events'[c] = events[c]
    PROVE  Telling(c)'
BY DEF Telling

\* The stages before the callbacks leave the passed preflight, or one failed.
LEMMA StageTells ==
    ASSUME NEW c \in Calls, TypeOK, Telling(c), NEW why, NEW next,
           next \in {"bind", "prepare", "rehearse", "callbacks"},
           pc[c] \in {"snapshot", "bind", "prepare", "rehearse"}, asked[c] = <<>>,
           Proceed(c, why, next), asked'[c] = asked[c], args'[c] = args[c]
    PROVE  Telling(c)'
<1>1. events[c] = <<PreflightEvent(args[c], "V4_VERIFY_OK")>>
  BY DEF Telling
<1>2. CASE why = "V4_VERIFY_OK"
  <2>1. pc'[c] = next /\ events'[c] = events[c]
    BY <1>2 DEF Proceed, TypeOK
  <2>2. CASE next # "callbacks"
    BY <1>1, <2>1, <2>2 DEF Telling, Late
  <2>3. CASE next = "callbacks"
    <3>1. Len(events[c]) = 1 /\ events[c][1] = PreflightEvent(args[c], "V4_VERIFY_OK")
      BY <1>1, SingletonBatch
    <3>2. Recorded(events[c], asked[c])
      BY <3>1, PreflightSays DEF Recorded
    <3> QED
      BY <2>1, <2>3, <3>1, <3>2 DEF Telling, Late
  <2> QED
    BY <2>2, <2>3
<1>3. CASE why # "V4_VERIFY_OK"
  <2>1. pc'[c] = "commit" /\ events'[c] = <<PreflightEvent(args[c], why)>>
    BY <1>3 DEF Proceed, TypeOK
  <2>2. Len(events'[c]) = 1 /\ events'[c][1] = PreflightEvent(args[c], why)
    BY <2>1, SingletonBatch
  <2>3. Closed(events'[c], asked'[c])
    BY <1>3, <2>2, PreflightSays DEF Closed
  <2> QED
    BY <2>1, <2>3 DEF Telling, Late
<1> QED
  BY <1>2, <1>3

LEMMA PreflightTells ==
    ASSUME NEW c \in Calls, TypeOK, CallSound(c), Telling(c),
           RefuseArguments(c) \/ Begin(c) \/ Snapshot(c) \/ Bind(c) \/ Prepare(c) \/ Rehearse(c)
    PROVE  Telling(c)'
<1>1. CASE RefuseArguments(c)
  <2>1. pc'[c] = "refused"
    BY <1>1 DEF RefuseArguments, TypeOK
  <2> QED
    BY <2>1 DEF Telling, Late
<1>2. CASE Begin(c)
  <2>1. /\ pc'[c] = "snapshot" /\ args'[c] = args[c]
        /\ events'[c] = <<PreflightEvent(args[c], "V4_VERIFY_OK")>>
    BY <1>2 DEF Begin, TypeOK
  <2> QED
    BY <2>1 DEF Telling, Late
<1>3. CASE Snapshot(c) \/ Bind(c) \/ Prepare(c) \/ Rehearse(c)
  <2>1. /\ pc[c] \in {"snapshot", "bind", "prepare", "rehearse"}
        /\ asked'[c] = asked[c] /\ args'[c] = args[c]
    BY <1>3 DEF Snapshot, Bind, Prepare, Rehearse
  <2>2. asked[c] = <<>>
    BY <2>1 DEF CallSound, Examined, Early
  <2>3. \E why, next : /\ next \in {"bind", "prepare", "rehearse", "callbacks"}
                       /\ Proceed(c, why, next)
    BY <1>3 DEF Snapshot, Bind, Prepare, Rehearse
  <2> QED
    BY <2>1, <2>2, <2>3, StageTells
<1> QED
  BY <1>1, <1>2, <1>3

LEMMA CallbackTells ==
    ASSUME NEW c \in Calls, NEW answer \in DOMAIN AnswerReason, TypeOK, CallSound(c), Telling(c),
           Callback(c, answer)
    PROVE  Telling(c)'
<1> DEFINE plan == NextPlanned(remaining[c])
           why == AnswerReason[answer]
           entry == [plan |-> plan, answer |-> answer]
           event == SignatureEvent(receipt[c], plan, why)
           verdict == ArtifactEvent(receipt[c], plan.artifact, why)
           n == Len(asked[c])
<1>1. /\ pc[c] = "callbacks" /\ asked'[c] = Append(asked[c], entry)
      /\ IF why = "V4_VERIFY_OK"
         THEN pc'[c] = pc[c] /\ events'[c] = Append(events[c], event)
         ELSE pc'[c] = "commit" /\ events'[c] = events[c] \o <<event, verdict>>
  BY DEF Callback, TypeOK
<1>2. why = "V4_VERIFY_OK" <=> answer = "true"
  BY DEF AnswerReason
<1>3. /\ entry.plan = plan /\ entry.answer = answer
      /\ event.type = "signature_verification"
      /\ event.artifact = plan.artifact /\ event.algorithm = plan.algorithm
      /\ event.passed <=> why = "V4_VERIFY_OK"
      /\ verdict.type = "artifact_verification" /\ verdict.artifact = plan.artifact
      /\ verdict.passed <=> why = "V4_VERIFY_OK"
  BY SignatureSays, ArtifactSays
<1>4. /\ IsList(events[c]) /\ IsList(asked[c])
      /\ Len(events[c]) = n + 1 /\ Recorded(events[c], asked[c])
  BY <1>1 DEF TypeOK, CallSound, Running, WorkedOff, Telling
<1>5. /\ n \in Nat /\ Len(asked'[c]) = n + 1
      /\ \A i \in 1..n : asked'[c][i] = asked[c][i]
      /\ asked'[c][n + 1] = entry
  BY <1>1, <1>4, AppendedList
<1> HIDE DEF plan, why, entry, event, verdict, n
<1>6. ASSUME IsList(events'[c]),
             \A i \in 1..(n + 1) : events'[c][i] = events[c][i],
             events'[c][n + 2] = event
      PROVE  Recorded(events'[c], asked'[c])
  <2>1. events'[c][1] = events[c][1]
    BY <1>5, <1>6
  <2>2. ASSUME NEW i \in 1..(n + 1)
        PROVE  /\ events'[c][i + 1].type = "signature_verification"
               /\ events'[c][i + 1].artifact = asked'[c][i].plan.artifact
               /\ events'[c][i + 1].algorithm = asked'[c][i].plan.algorithm
               /\ events'[c][i + 1].passed <=> asked'[c][i].answer = "true"
    <3>1. CASE i = n + 1
      <4>1. events'[c][i + 1] = event /\ asked'[c][i] = entry
        BY <1>5, <1>6, <3>1
      <4> QED
        BY <1>2, <1>3, <4>1
    <3>2. CASE i # n + 1
      <4>1. i \in 1..n /\ i + 1 \in 1..(n + 1)
        BY <1>5, <3>2
      <4>2. events'[c][i + 1] = events[c][i + 1] /\ asked'[c][i] = asked[c][i]
        BY <1>5, <1>6, <4>1
      <4> QED
        BY <1>4, <4>1, <4>2 DEF Recorded, n
    <3> QED
      BY <3>1, <3>2
  <2> QED
    BY <1>4, <1>5, <2>1, <2>2 DEF Recorded
<1>7. CASE why = "V4_VERIFY_OK"
  <2>1. /\ IsList(events'[c]) /\ Len(events'[c]) = n + 2
        /\ \A i \in 1..(n + 1) : events'[c][i] = events[c][i]
        /\ events'[c][n + 2] = event
    <3> DEFINE batch == events[c]
               m == Len(batch)
    <3>1. IsList(batch) /\ events'[c] = Append(batch, event)
      BY <1>1, <1>4, <1>7
    <3> HIDE DEF batch
    <3>2. /\ IsList(events'[c]) /\ Len(events'[c]) = m + 1
          /\ \A i \in 1..m : events'[c][i] = batch[i]
          /\ events'[c][m + 1] = event
      BY <3>1, AppendedList
    <3>3. m = n + 1
      BY <1>4 DEF batch
    <3> QED
      BY <1>5, <3>2, <3>3 DEF batch
  <2>2. Recorded(events'[c], asked'[c])
    BY <1>6, <2>1
  <2> QED
    BY <1>1, <1>5, <1>7, <2>1, <2>2 DEF Telling, Late
<1>8. CASE why # "V4_VERIFY_OK"
  <2>1. /\ IsList(events'[c]) /\ Len(events'[c]) = n + 3
        /\ \A i \in 1..(n + 1) : events'[c][i] = events[c][i]
        /\ events'[c][n + 2] = event /\ events'[c][n + 3] = verdict
    <3> DEFINE batch == events[c]
               m == Len(batch)
    <3>1. IsList(batch)
      BY <1>4
    <3>2. events'[c] = batch \o <<event, verdict>>
      BY <1>1, <1>8
    <3> HIDE DEF batch
    <3>3. /\ IsList(batch \o <<event, verdict>>)
          /\ Len(batch \o <<event, verdict>>) = m + 2
          /\ \A i \in 1..m : (batch \o <<event, verdict>>)[i] = batch[i]
          /\ (batch \o <<event, verdict>>)[m + 1] = event
          /\ (batch \o <<event, verdict>>)[m + 2] = verdict
      BY <3>1, TwiceAppended
    <3>4. batch = events[c] /\ m = n + 1
      BY <1>4 DEF batch
    <3> HIDE DEF m
    <3>5. m + 1 = n + 2 /\ m + 2 = n + 3
      BY <1>5, <3>4
    <3>6. Len(events'[c]) = n + 3
      BY <3>2, <3>3, <3>5
    <3>7. events'[c][n + 2] = event /\ events'[c][n + 3] = verdict
      BY <3>2, <3>3, <3>5
    <3>8. \A i \in 1..(n + 1) : events'[c][i] = events[c][i]
      BY <3>2, <3>3, <3>4
    <3> QED
      BY <3>2, <3>3, <3>6, <3>7, <3>8
  <2>2. Recorded(events'[c], asked'[c])
    BY <1>6, <2>1
  <2>3. Closed(events'[c], asked'[c])
    BY <1>2, <1>3, <1>5, <1>8, <2>1, <2>2 DEF Closed
  <2> QED
    BY <1>1, <1>8, <2>3 DEF Telling, Late
<1> QED
  BY <1>7, <1>8

LEMMA RevalidateTells ==
    ASSUME NEW c \in Calls, TypeOK, CallSound(c), CallSound(c)', Telling(c), Revalidate(c)
    PROVE  Telling(c)'
<1> DEFINE n == Len(asked[c])
           verdict == ArtifactEvent(receipt[c], Orchestrator, "V4_VERIFY_OK")
<1>1. pc[c] = "revalidate" /\ Checked(receipt[c], args[c])
  BY DEF Revalidate, CallSound, Running
<1>2. /\ pc'[c] = "commit" /\ reason'[c] = "V4_VERIFY_OK"
      /\ events'[c] = Append(events[c], verdict) /\ asked'[c] = asked[c]
  BY <1>1, CheckedRevalidates DEF Revalidate, TypeOK
<1>3. /\ IsList(events[c]) /\ IsList(asked[c])
      /\ Len(events[c]) = n + 1 /\ Recorded(events[c], asked[c])
  BY <1>1 DEF TypeOK, CallSound, Running, WorkedOff, Telling
<1>4. asked[c] # <<>> /\ asked[c][n].answer = "true"
  BY <1>2 DEF CallSound, Decisive, Late
<1>5. n \in Nat /\ n > 0
  BY <1>3, <1>4 DEF IsList
<1>6. /\ verdict.type = "artifact_verification" /\ verdict.artifact = Orchestrator
      /\ verdict.passed
  BY ArtifactSays
<1> HIDE DEF n, verdict
<1>7. /\ Len(events'[c]) = n + 2 /\ events'[c][n + 2] = verdict
      /\ \A i \in 1..(n + 1) : events'[c][i] = events[c][i]
  BY <1>2, <1>3, <1>5, AppendedList
<1>8. Recorded(events'[c], asked'[c])
  <2>1. events'[c][1] = events[c][1] /\ \A i \in 1..n : events'[c][i + 1] = events[c][i + 1]
    BY <1>5, <1>7
  <2> QED
    BY <1>2, <1>3, <2>1 DEF Recorded, n
<1>9. Closed(events'[c], asked'[c])
  BY <1>2, <1>4, <1>5, <1>6, <1>7, <1>8 DEF Closed, n
<1> QED
  BY <1>2, <1>9 DEF Telling, Late

LEMMA EndTells ==
    ASSUME NEW c \in Calls, TypeOK, CallSound(c), CallSound(c)', Telling(c),
           CallbacksEnd(c) \/ SerializationFails(c) \/ AppendBatch(c) \/ Conclude(c)
    PROVE  Telling(c)'
<1>1. /\ events'[c] = events[c] /\ asked'[c] = asked[c]
      /\ \/ pc[c] = "callbacks" /\ pc'[c] \in {"revalidate", "error"}
         \/ pc[c] \in Late /\ pc'[c] \in {"acknowledge", "accepted", "rejected", "sink_failed"}
  BY DEF CallbacksEnd, SerializationFails, AppendBatch, Conclude, TypeOK, Late
<1>2. pc'[c] # "error"
  BY DEF CallSound, Decisive, Late
<1> QED
  BY <1>1, <1>2 DEF Telling, Late

LEMMA OthersEvents ==
    ASSUME NEW c \in Calls, NEW d \in Calls, d # c, Step(c), TypeOK
    PROVE  events'[d] = events[d]
<1> USE DEF TypeOK
<1>1. CASE RefuseArguments(c) \/ Begin(c)
  BY <1>1 DEF RefuseArguments, Begin
<1>2. CASE Snapshot(c) \/ Bind(c) \/ Prepare(c) \/ Rehearse(c)
  BY <1>2 DEF Snapshot, Bind, Prepare, Rehearse, Proceed
<1>3. CASE \E answer \in DOMAIN AnswerReason : Callback(c, answer)
  BY <1>3 DEF Callback
<1>4. CASE CallbacksEnd(c) \/ Revalidate(c)
  BY <1>4 DEF CallbacksEnd, Revalidate
<1>5. CASE SerializationFails(c) \/ AppendBatch(c) \/ Conclude(c)
  BY <1>5 DEF SerializationFails, AppendBatch, Conclude
<1> QED
  BY <1>1, <1>2, <1>3, <1>4, <1>5 DEF Step

TellingInv == \A c \in Calls : Telling(c)

LEMMA StepsKeepTelling ==
    ASSUME TypeOK, SoundInv, SoundInv', TellingInv, [Next]_vars
    PROVE  TellingInv'
<1> SUFFICES ASSUME NEW d \in Calls PROVE Telling(d)'
  BY DEF TellingInv
<1>0. Telling(d) /\ CallSound(d) /\ CallSound(d)'
  BY DEF SoundInv, TellingInv
<1>1. CASE MutateReceipt \/ UNCHANGED vars
  BY <1>0, <1>1, UntouchedTells DEF MutateReceipt, outcome, vars
<1>2. CASE \E c \in Calls : Step(c)
  <2> PICK c \in Calls : Step(c)
    BY <1>2
  <2>1. CASE d # c
    BY <1>0, <2>1, OthersAreUntouched, OthersEvents, UntouchedTells
  <2>2. CASE d = c
    <3>1. CASE \E answer \in DOMAIN AnswerReason : Callback(c, answer)
      BY <1>0, <2>2, <3>1, CallbackTells
    <3>2. CASE Revalidate(c)
      BY <1>0, <2>2, <3>2, RevalidateTells
    <3>3. CASE CallbacksEnd(c) \/ SerializationFails(c) \/ AppendBatch(c) \/ Conclude(c)
      BY <1>0, <2>2, <3>3, EndTells
    <3>4. CASE \/ RefuseArguments(c) \/ Begin(c) \/ Snapshot(c) \/ Bind(c) \/ Prepare(c)
               \/ Rehearse(c)
      BY <1>0, <2>2, <3>4, PreflightTells
    <3> QED
      BY <3>1, <3>2, <3>3, <3>4 DEF Step
  <2> QED
    BY <2>1, <2>2
<1> QED
  BY <1>1, <1>2 DEF Next

\* A batch tells what its call did, callback by callback
\* (v4/verification_audit.py:354-458, 767-869, 1136-1210).
THEOREM BatchesTell == Spec => []BatchTellsTheCall
<1>1. Init => TellingInv
  BY DEF Init, TellingInv, Telling, Late
<1>2. TypeOK /\ SoundInv /\ SoundInv' /\ TellingInv /\ [Next]_vars => TellingInv'
  BY StepsKeepTelling
<1>3. SoundInv /\ TellingInv => BatchTellsTheCall
  <2> SUFFICES ASSUME SoundInv, TellingInv, NEW c \in Calls,
                      pc[c] \in {"commit", "acknowledge", "accepted", "rejected", "sink_failed"}
               PROVE  LET n == Len(asked[c])
                          last == events[c][Len(events[c])]
                      IN  /\ events[c][1].type = "verification_preflight"
                          /\ events[c][1].passed <=> n > 0
                          /\ Len(events[c]) = IF n = 0 THEN 1 ELSE n + 2
                          /\ \A i \in 1..n :
                                 LET e == events[c][i + 1] IN
                                 /\ e.type = "signature_verification"
                                 /\ e.artifact = asked[c][i].plan.artifact
                                 /\ e.algorithm = asked[c][i].plan.algorithm
                                 /\ e.passed <=> asked[c][i].answer = "true"
                          /\ n > 0 =>
                                 /\ last.type = "artifact_verification"
                                 /\ last.passed <=> asked[c][n].answer = "true"
                                 /\ last.artifact =
                                        IF last.passed THEN Orchestrator
                                        ELSE asked[c][n].plan.artifact
    BY DEF BatchTellsTheCall
  <2>1. Closed(events[c], asked[c])
    BY DEF TellingInv, Telling, Late
  <2> DEFINE n == Len(asked[c])
  <2>2. CASE n = 0
    <3>1. /\ Len(events[c]) = 1
          /\ events[c][1].type = "verification_preflight" /\ ~ events[c][1].passed
      BY <2>1, <2>2 DEF Closed
    <3> QED
      BY <2>2, <3>1
  <2>3. CASE n # 0
    <3>1. /\ n > 0 /\ Len(events[c]) = n + 2
          /\ Recorded(events[c], asked[c])
          /\ LET last == events[c][Len(events[c])] IN
             /\ last.type = "artifact_verification"
             /\ last.passed <=> asked[c][n].answer = "true"
             /\ last.artifact = IF last.passed THEN Orchestrator ELSE asked[c][n].plan.artifact
      BY <2>1, <2>3 DEF Closed
    <3> QED
      BY <2>3, <3>1 DEF Recorded
  <2> QED
    BY <2>2, <2>3
<1> QED
  BY <1>1, <1>2, <1>3, TypeCorrect, Soundness, PTL DEF Spec
=============================================================================
