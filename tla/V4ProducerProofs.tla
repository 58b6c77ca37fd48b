-------------------------- MODULE V4ProducerProofs --------------------------
(***************************************************************************)
(* What an acceptance at the boundary stands for, for every number of      *)
(* components, registry history, order of verdicts, change of the caller's *)
(* objects and receipt that may reach the boundary.                        *)
(***************************************************************************)
EXTENDS V4Producer, AuditChecksProofs, SequenceTheorems

\* What has been signed says what it was signed for.
IssuedInv ==
    \A v \in issued :
        /\ v.decision \in SupportedDecisions
        /\ \A e \in Range(v.bundle.signatures) : e.hash = ComponentHash(v)

SealedInv ==
    \A s \in sealed : \A e \in s.entries :
        e.hash = DomainHash(ORCHESTRATOR_RECEIPT_DOMAIN, s.payload)

\* Under an accepted receipt: each verdict was issued, all allow when the
\* receipt does, and it is all of now.
Acceptable(r, a) ==
    /\ OnePerComponent(r.components) /\ IsList(r.components)
    /\ r.outcome = ExpectedFinalOutcome(r.components)
    /\ \A i \in DOMAIN r.components :
           /\ r.components[i].context = a.context
           /\ r.components[i].version = a.registry.version
           /\ During(a.time, r.components[i].window)

GenuineInv ==
    /\ published \in DOMAIN Registries
    /\ IssuedInv
    /\ SealedInv
    /\ AcceptedIsGenuine
    /\ Accepted => Acceptable(judged.receipt, judged.args)

-----------------------------------------------------------------------------

LEMMA AcceptedChecks ==
    ASSUME NEW r, Listed(r), NEW a, IsList(a.registry.entries), Accepts(r, a)
    PROVE  /\ Acceptable(r, a)
           /\ r.bundle.signatures # <<>>
           /\ \A i \in DOMAIN r.bundle.signatures :
                  r.bundle.signatures[i].hash = SignedHash(r)
           /\ \A k \in DOMAIN r.components : LET c == r.components[k] IN
                  /\ c.bundle.signatures # <<>>
                  /\ \A i \in DOMAIN c.bundle.signatures :
                         c.bundle.signatures[i].hash = ComponentHash(c)
<1> DEFINE accepted == [i \in DOMAIN r.components |->
                           Cached(Plan(r), r.components[i].id, r.components[i].bundle)]
           own == Cached(Plan(r), Orchestrator, r.bundle)
<1>1. CachedVerdictsError(r, a, Plan(r)) = NoError /\ CachedEnvelopeError(r, a, Plan(r)) = NoError
  BY PassedThree DEF Accepts, Approvable, RehearsalError
<1>2. /\ ComponentVerdictsError(r.components, a.context, a, accepted) = NoError
      /\ ReceiptEnvelopeError(r, a.context, a, own) = NoError
  BY <1>1 DEF CachedVerdictsError, CachedEnvelopeError
<1> HIDE DEF accepted, own
<1>3. /\ OnePerComponent(r.components)
      /\ \A i \in DOMAIN r.components :
             ComponentVerified(r.components[i], a.context, a, accepted[i])
  BY <1>2, VerifiedVerdicts DEF Listed
<1>4. ReceiptVerified(r, a.context, a, own)
  BY <1>2, VerifiedReceipt DEF Listed
<1>5. \A i \in DOMAIN r.components : During(a.time, r.components[i].window)
  BY PreparedIsFresh DEF Accepts, Approvable, Listed
<1>6. Acceptable(r, a)
  BY <1>3, <1>4, <1>5 DEF Acceptable, Listed, ReceiptVerified, ComponentVerified
<1>7. /\ r.bundle.signatures # <<>>
      /\ \A i \in DOMAIN r.bundle.signatures : r.bundle.signatures[i].hash = SignedHash(r)
  BY <1>4 DEF ReceiptVerified, BundleVerified
<1>8. ASSUME NEW k \in DOMAIN r.components
      PROVE  LET c == r.components[k] IN
             /\ c.bundle.signatures # <<>>
             /\ \A i \in DOMAIN c.bundle.signatures :
                    c.bundle.signatures[i].hash = ComponentHash(c)
  BY <1>3 DEF ComponentVerified, BundleVerified
<1> QED
  BY <1>6, <1>7, <1>8

\* Hashes tell payloads apart.
LEMMA HashesTellPayloads ==
    ASSUME NEW d, NEW p, NEW q, DomainHash(d, p) = DomainHash(d, q)
    PROVE  p = q
BY DEF DomainHash

LEMMA NonemptyList ==
    ASSUME NEW s, IsList(s), s # <<>>
    PROVE  \E i \in DOMAIN s : s[i] \in Range(s)
<1>1. Len(s) \in Nat /\ DOMAIN s = 1..Len(s) /\ Len(s) # 0
  BY DEF IsList
<1> QED
  BY <1>1 DEF Range

LEMMA AcceptedOwnBundle ==
    ASSUME NEW r, Listed(r), SealedInv, r.bundle.signatures # <<>>,
           \A i \in DOMAIN r.bundle.signatures : r.bundle.signatures[i].hash = SignedHash(r),
           VerifiedAt(Orchestrator, r.bundle) = DOMAIN r.bundle.signatures
    PROVE  /\ SealedAs(r) # {}
           /\ Range(r.bundle.signatures) \subseteq UNION {s.entries : s \in SealedAs(r)}
<1>1. ASSUME NEW e \in Range(r.bundle.signatures)
      PROVE  \E s \in SealedAs(r) : e \in s.entries
  <2>1. PICK i \in DOMAIN r.bundle.signatures : e = r.bundle.signatures[i]
    BY DEF Range
  <2>2. PICK s \in sealed : e \in s.entries
    BY <2>1 DEF VerifiedAt, Verifies
  <2>3. DomainHash(ORCHESTRATOR_RECEIPT_DOMAIN, s.payload) =
            DomainHash(ORCHESTRATOR_RECEIPT_DOMAIN, ReceiptPayload(r))
    BY <2>1, <2>2 DEF SealedInv, SignedHash
  <2> QED
    BY <2>2, <2>3, HashesTellPayloads DEF SealedAs
<1>2. \E e : e \in Range(r.bundle.signatures)
  BY NonemptyList DEF Listed
<1> QED
  BY <1>1, <1>2

LEMMA AcceptedComponentBundle ==
    ASSUME NEW c, IsList(c.bundle.signatures), IssuedInv, c.id # Orchestrator,
           c.bundle.signatures # <<>>,
           \A i \in DOMAIN c.bundle.signatures : c.bundle.signatures[i].hash = ComponentHash(c),
           VerifiedAt(c.id, c.bundle) = DOMAIN c.bundle.signatures
    PROVE  /\ IssuedAs(c) # {}
           /\ Range(c.bundle.signatures) \subseteq
                  UNION {Range(v.bundle.signatures) : v \in IssuedAs(c)}
<1>1. ASSUME NEW e \in Range(c.bundle.signatures)
      PROVE  \E v \in IssuedAs(c) : e \in Range(v.bundle.signatures)
  <2>1. PICK i \in DOMAIN c.bundle.signatures : e = c.bundle.signatures[i]
    BY DEF Range
  <2>2. PICK v \in issued : e \in Range(v.bundle.signatures)
    BY <2>1 DEF VerifiedAt, Verifies
  <2>3. DomainHash(COMPONENT_VERDICT_DOMAIN, ComponentPayload(v)) =
            DomainHash(COMPONENT_VERDICT_DOMAIN, ComponentPayload(c))
    BY <2>1, <2>2 DEF IssuedInv, ComponentHash
  <2> QED
    BY <2>2, <2>3, HashesTellPayloads DEF IssuedAs
<1>2. \E e : e \in Range(c.bundle.signatures)
  BY NonemptyList
<1> QED
  BY <1>1, <1>2

-----------------------------------------------------------------------------
(* The steps. *)

LEMMA IssueKeepsInv ==
    ASSUME NEW s \in Statements, GenuineInv, Issue(s)
    PROVE  GenuineInv'
<1> DEFINE v == SignedVerdict(s)
<1>1. v.decision = s.decision /\ ComponentHash(v) = ComponentHash(UnsignedVerdict(s))
  BY DEF SignedVerdict, UnsignedVerdict, ComponentHash, ComponentPayload
<1>2. v.bundle.signatures = [i \in DOMAIN s.algorithms |->
          SignatureEntry(s.id, s.algorithms[i], s.profile, ComponentHash(UnsignedVerdict(s)),
                         COMPONENT_VERDICT_DOMAIN)]
  BY DEF SignedVerdict, UnsignedVerdict, SignatureBundleOf
<1>3. \A e \in Range(v.bundle.signatures) : e.hash = ComponentHash(v)
  <2> HIDE DEF v
  <2> QED
    BY <1>1, <1>2 DEF Range, SignatureEntry
<1>4. v.decision \in SupportedDecisions
  BY <1>1, StatementsAssumption
<1>5. /\ issued' = issued \cup {v}
      /\ pc' # "judged"
      /\ sealed' = sealed /\ published' = published
  BY DEF Issue
<1> HIDE DEF v
<1>6. IssuedInv'
  BY <1>3, <1>4, <1>5 DEF GenuineInv, IssuedInv
<1> QED
  BY <1>5, <1>6 DEF GenuineInv, SealedInv, AcceptedIsGenuine, Accepted

LEMMA SignKeepsInv ==
    ASSUME GenuineInv, Sign
    PROVE  GenuineInv'
<1> DEFINE hash == SignedHash(HeldReceipt)
           bundle == SignatureBundleOf(Orchestrator, order.algorithms, "exact", hash,
                                       ORCHESTRATOR_RECEIPT_DOMAIN)
           seal == [payload |-> ReceiptPayload(HeldReceipt), entries |-> Range(bundle.signatures)]
<1>1. sealed' = sealed \cup {seal} /\ pc' # "judged" /\ issued' = issued /\ published' = published
  BY DEF Sign, world
<1>2. \A e \in seal.entries : e.hash = DomainHash(ORCHESTRATOR_RECEIPT_DOMAIN, seal.payload)
  <2>1. bundle.signatures = [i \in DOMAIN order.algorithms |->
            SignatureEntry(Orchestrator, order.algorithms[i], "exact", hash,
                           ORCHESTRATOR_RECEIPT_DOMAIN)]
    BY DEF SignatureBundleOf
  <2>2. hash = DomainHash(ORCHESTRATOR_RECEIPT_DOMAIN, seal.payload)
    BY DEF SignedHash
  <2>3. seal.entries = Range(bundle.signatures)
    OBVIOUS
  <2> HIDE DEF hash, bundle, seal
  <2> QED
    BY <2>1, <2>2, <2>3 DEF Range, SignatureEntry
<1> HIDE DEF seal
<1>3. SealedInv'
  BY <1>1, <1>2 DEF GenuineInv, SealedInv
<1> QED
  BY <1>1, <1>3 DEF GenuineInv, IssuedInv, AcceptedIsGenuine, Accepted

LEMMA JudgeKeepsInv ==
    ASSUME NEW o \in Orders, GenuineInv, Judge(o)
    PROVE  GenuineInv'
<1> DEFINE a == [valid |-> TRUE, request |-> o.request, context |-> o.context,
                 registry |-> Current, minimum |-> Current.version, time |-> now]
<1>1. PICK r : Listed(r) /\ judged' = [receipt |-> r, args |-> a, accepted |-> Accepts(r, a)]
  BY DEF Judge
<1>2. sealed' = sealed /\ issued' = issued /\ published' = published
  BY DEF Judge, world
<1>3. IsList(a.registry.entries)
  BY StatementsAssumption DEF GenuineInv, Current
<1>4. judged'.receipt = r /\ judged'.args = a /\ judged'.accepted = Accepts(r, a)
  BY <1>1
<1> HIDE DEF a
<1>5. IssuedInv' /\ SealedInv' /\ (published \in DOMAIN Registries)'
  BY <1>2 DEF GenuineInv, IssuedInv, SealedInv
<1>6. ASSUME Accepted'
      PROVE  AcceptedIsGenuine' /\ Acceptable(judged.receipt, judged.args)'
  <2>1. Accepts(r, a)
    BY <1>4, <1>6 DEF Accepted
  <2>2. /\ Acceptable(r, a)
        /\ r.bundle.signatures # <<>>
        /\ \A i \in DOMAIN r.bundle.signatures : r.bundle.signatures[i].hash = SignedHash(r)
        /\ \A k \in DOMAIN r.components : LET c == r.components[k] IN
               /\ c.bundle.signatures # <<>>
               /\ \A i \in DOMAIN c.bundle.signatures :
                      c.bundle.signatures[i].hash = ComponentHash(c)
    BY <1>1, <1>3, <2>1, AcceptedChecks
  <2>3. /\ SealedAs(r) # {}
        /\ Range(r.bundle.signatures) \subseteq UNION {s.entries : s \in SealedAs(r)}
    BY <1>1, <2>1, <2>2, AcceptedOwnBundle DEF Accepts, Approvable, GenuineInv
  <2>4. ASSUME NEW k \in DOMAIN r.components
        PROVE  LET c == r.components[k] IN
               /\ IssuedAs(c) # {}
               /\ Range(c.bundle.signatures) \subseteq
                      UNION {Range(v.bundle.signatures) : v \in IssuedAs(c)}
    <3>1. r.components[k].id # Orchestrator
      BY <2>2, ArtifactAssumption DEF Acceptable, OnePerComponent
    <3>2. VerifiedAt(r.components[k].id, r.components[k].bundle) =
              DOMAIN r.components[k].bundle.signatures
      BY <2>1 DEF Accepts, Approvable
    <3> QED
      BY <1>1, <2>2, <3>1, <3>2, AcceptedComponentBundle DEF Listed, GenuineInv
  <2>5. Acceptable(judged.receipt, judged.args)'
    BY <1>4, <2>2
  <2>6. (/\ SealedAs(judged.receipt) # {}
         /\ Range(judged.receipt.bundle.signatures) \subseteq
                UNION {s.entries : s \in SealedAs(judged.receipt)})'
    BY <1>2, <1>4, <2>3 DEF SealedAs
  <2>7. (\A k \in DOMAIN judged.receipt.components :
             LET c == judged.receipt.components[k] IN
             /\ IssuedAs(c) # {}
             /\ Range(c.bundle.signatures) \subseteq
                    UNION {Range(v.bundle.signatures) : v \in IssuedAs(c)})'
    BY <1>2, <1>4, <2>4 DEF IssuedAs
  <2>8. AcceptedIsGenuine'
    BY <2>6, <2>7 DEF AcceptedIsGenuine
  <2> QED
    BY <2>5, <2>8
<1>7. AcceptedIsGenuine' /\ (Accepted => Acceptable(judged.receipt, judged.args))'
  BY <1>6 DEF AcceptedIsGenuine
<1> QED
  BY <1>5, <1>7 DEF GenuineInv

\* The steps that sign nothing and judge nothing.
LEMMA OtherStepsKeepInv ==
    ASSUME GenuineInv,
           \/ Tick \/ Publish \/ (\E list \in Lists(issued), o \in Orders : Call(list, o))
           \/ CheckVerdict \/ CopyVerdict \/ Build \/ HashReceipt \/ SealEnvelope \/ Validate
           \/ (\E i \in DOMAIN offers : Change(i))
           \/ UNCHANGED vars
    PROVE  GenuineInv'
<1>1. /\ issued' = issued /\ sealed' = sealed /\ judged' = judged
      /\ pc' = "judged" => pc = "judged"
  BY DEF Tick, Publish, Call, CheckVerdict, CopyVerdict, Build, HashReceipt,
         SealEnvelope, Validate, Change, Ended, world, vars
<1>2. published' \in DOMAIN Registries
  <2>1. DOMAIN Registries = 1..Len(Registries) /\ Len(Registries) \in Nat
    BY StatementsAssumption, ListDomain
  <2>2. published' = published \/ (published < Len(Registries) /\ published' = published + 1)
    BY DEF Tick, Publish, Call, CheckVerdict, CopyVerdict, Build, HashReceipt,
           SealEnvelope, Validate, Change, Ended, world, vars
  <2> QED
    BY <2>1, <2>2 DEF GenuineInv
<1>3. Accepted' => Accepted
  BY <1>1 DEF Accepted
<1>4. SealedInv' /\ IssuedInv'
  BY <1>1 DEF GenuineInv, SealedInv, IssuedInv
<1>5. AcceptedIsGenuine'
  BY <1>1, <1>3 DEF GenuineInv, AcceptedIsGenuine, SealedAs, IssuedAs
<1>6. (Accepted => Acceptable(judged.receipt, judged.args))'
  BY <1>1, <1>3 DEF GenuineInv
<1> QED
  BY <1>2, <1>4, <1>5, <1>6 DEF GenuineInv

LEMMA InitEstablishesInv ==
    ASSUME Init
    PROVE  GenuineInv
<1>1. published \in DOMAIN Registries
  <2>1. DOMAIN Registries = 1..Len(Registries) /\ Len(Registries) \in Nat /\ Len(Registries) # 0
    BY StatementsAssumption DEF IsList
  <2> QED
    BY <2>1 DEF Init
<1> QED
  BY <1>1 DEF Init, GenuineInv, IssuedInv, SealedInv, AcceptedIsGenuine, Accepted

LEMMA StepsKeepInv ==
    ASSUME GenuineInv, [Next]_vars
    PROVE  GenuineInv'
<1>1. CASE \E s \in Statements : Issue(s)
  BY <1>1, IssueKeepsInv
<1>2. CASE Sign
  BY <1>2, SignKeepsInv
<1>3. CASE \E o \in Orders : Judge(o)
  BY <1>3, JudgeKeepsInv
<1>4. CASE \/ Tick \/ Publish \/ (\E list \in Lists(issued), o \in Orders : Call(list, o))
           \/ CheckVerdict \/ CopyVerdict \/ Build \/ HashReceipt \/ SealEnvelope \/ Validate
           \/ (\E i \in DOMAIN offers : Change(i))
           \/ UNCHANGED vars
  BY <1>4, OtherStepsKeepInv
<1> QED
  BY <1>1, <1>2, <1>3, <1>4 DEF Next, Produce

THEOREM GenuineInvariant == Spec => []GenuineInv
<1>1. Init => GenuineInv
  BY InitEstablishesInv
<1>2. GenuineInv /\ [Next]_vars => GenuineInv'
  BY StepsKeepInv
<1> QED
  BY <1>1, <1>2, PTL DEF Spec

\* A receipt the boundary accepts was signed by the Orchestrator as it is, and
\* each verdict in it by its component, whatever objects changed under the
\* producer and whatever reached the boundary (v4/orchestrate.py:72-130,
\* v4/verification_audit.py:910-1210).
THEOREM NothingForeignIsAccepted == Spec => []AcceptedIsGenuine
<1>1. GenuineInv => AcceptedIsGenuine
  BY DEF GenuineInv
<1> QED
  BY <1>1, GenuineInvariant, PTL

\* An accepted ALLOW stands for every component's own, timely ALLOW.
LEMMA AllowNeedsAll ==
    ASSUME GenuineInv
    PROVE  AllowedByAll
<1> SUFFICES ASSUME Accepted, judged.receipt.outcome = "ALLOW", NEW id \in Components
             PROVE  \E v \in issued :
                        /\ v.id = id
                        /\ v.decision = "ALLOW"
                        /\ v.context = judged.args.context
                        /\ v.version = judged.args.registry.version
                        /\ During(judged.args.time, v.window)
  BY DEF AllowedByAll
<1> DEFINE cs == judged.receipt.components
<1>1. Acceptable(judged.receipt, judged.args) /\ AcceptedIsGenuine /\ IssuedInv
  BY DEF GenuineInv
<1>2. PICK i \in DOMAIN cs : cs[i].id = id
  <2>1. {cs[j].id : j \in DOMAIN cs} = Components
    BY <1>1, EveryComponentIsThere DEF Acceptable
  <2> QED
    BY <2>1
<1>3. PICK v \in issued : ComponentPayload(v) = ComponentPayload(cs[i])
  BY <1>1 DEF AcceptedIsGenuine, IssuedAs
<1>4. /\ v.id = cs[i].id /\ v.context = cs[i].context /\ v.version = cs[i].version
      /\ v.window = cs[i].window /\ v.decision = cs[i].decision
  BY <1>3 DEF ComponentPayload
<1>5. Decisions(cs) \cap {"DENY", "ERROR", "ESCALATE", "SKIPPED"} = {}
  BY <1>1 DEF Acceptable, ExpectedFinalOutcome
<1>6. v.decision = "ALLOW"
  <2>1. cs[i].decision \in Decisions(cs)
    BY DEF Decisions
  <2>2. v.decision \in SupportedDecisions
    BY <1>1 DEF IssuedInv
  <2> QED
    BY <1>4, <1>5, <2>1, <2>2 DEF SupportedDecisions
<1> QED
  BY <1>1, <1>2, <1>4, <1>6 DEF Acceptable

THEOREM AcceptedAllowIsUnanimous == Spec => []AllowedByAll
<1>1. GenuineInv => AllowedByAll
  BY AllowNeedsAll
<1> QED
  BY <1>1, GenuineInvariant, PTL

-----------------------------------------------------------------------------
(* The producer's own keys. *)

Kept ==
    /\ IsList(trust.registry.entries)
    /\ pc # "idle" => order \in Orders
    /\ pc \in {"sign", "hash", "seal", "validate", "released", "judged"} =>
           {"bundle", "window"} \subseteq DOMAIN receipt
    /\ pc \in {"hash", "seal", "validate"} => IsList(receipt.bundle.signatures)

KeysInv ==
    /\ published \in DOMAIN Registries
    /\ Kept
    /\ RevokedKeysReleaseNothing

LEMMA BuiltBundleIsList ==
    ASSUME NEW role, NEW algorithms, IsList(algorithms), NEW profile, NEW hash, NEW domain
    PROVE  IsList(SignatureBundleOf(role, algorithms, profile, hash, domain).signatures)
<1> DEFINE s == [i \in DOMAIN algorithms |->
                    SignatureEntry(role, algorithms[i], profile, hash, domain)]
<1>1. DOMAIN algorithms = 1..Len(algorithms) /\ Len(algorithms) \in Nat
  BY ListDomain
<1>2. s \in [1..Len(algorithms) -> Range(s)]
  BY <1>1 DEF Range
<1>3. s \in Seq(Range(s))
  <2> HIDE DEF s
  <2> QED
    BY <1>1, <1>2
<1> QED
  BY <1>3 DEF SignatureBundleOf, IsList

LEMMA PublishedStays ==
    ASSUME published \in DOMAIN Registries, [Next]_vars
    PROVE  published' \in DOMAIN Registries
<1>1. DOMAIN Registries = 1..Len(Registries) /\ Len(Registries) \in Nat
  BY StatementsAssumption, ListDomain
<1>2. published' = published \/ (published < Len(Registries) /\ published' = published + 1)
  BY DEF Next, Produce, Tick, Publish, Issue, Call, CheckVerdict, CopyVerdict, Build, Sign,
         HashReceipt, SealEnvelope, Validate, Change, Ended, Judge, world, vars
<1> QED
  BY <1>1, <1>2

LEMMA ValidateKeepsKeys ==
    ASSUME KeysInv, Validate
    PROVE  Kept' /\ RevokedKeysReleaseNothing'
<1>1. /\ receipt' = receipt /\ trust' = trust /\ order' = order
      /\ pc = "validate" /\ pc' \in {"released", "failed"}
  BY DEF Validate, given
<1>2. Kept'
  BY <1>1 DEF KeysInv, Kept
<1>3. ASSUME pc' = "released", NEW e \in Range(receipt.bundle.signatures)
      PROVE  TrustedKey(trust.registry, Orchestrator, e.key, e.algorithm, trust.time, receipt.window)
  <2> DEFINE accepted == VerifiedAt(Orchestrator, receipt.bundle)
  <2>1. ReceiptEnvelopeError(HeldReceipt, order.context, trust, accepted) = NoError
    BY <1>3 DEF Validate
  <2>2. HeldReceipt.bundle = receipt.bundle /\ HeldReceipt.window = receipt.window
    BY <1>1 DEF KeysInv, Kept, HeldReceipt
  <2>3. IsList(HeldReceipt.bundle.signatures) /\ IsList(trust.registry.entries)
    BY <1>1, <2>2 DEF KeysInv, Kept
  <2> HIDE DEF accepted
  <2>4. ReceiptVerified(HeldReceipt, order.context, trust, accepted)
    BY <2>1, <2>3, VerifiedReceipt
  <2>5. PICK i \in DOMAIN receipt.bundle.signatures : e = receipt.bundle.signatures[i]
    BY <1>3 DEF Range
  <2> QED
    BY <2>2, <2>4, <2>5 DEF ReceiptVerified, BundleVerified
<1>4. RevokedKeysReleaseNothing'
  BY <1>1, <1>3 DEF RevokedKeysReleaseNothing, TrustedKey
<1> QED
  BY <1>2, <1>4

LEMMA StepsKeepKeys ==
    ASSUME KeysInv, [Next]_vars
    PROVE  KeysInv'
<1>0. published' \in DOMAIN Registries
  BY PublishedStays DEF KeysInv
<1>1. CASE \E list \in Lists(issued), o \in Orders : Call(list, o)
  <2>1. IsList(Current.entries)
    BY StatementsAssumption DEF KeysInv, Current
  <2>2. /\ trust'.registry = Current /\ order' \in Orders
        /\ pc' \in {"verify", "failed"}
    BY <1>1 DEF Call
  <2> QED
    BY <1>0, <2>1, <2>2 DEF KeysInv, Kept, RevokedKeysReleaseNothing
<1>2. CASE Build
  <2>1. pc' = "sign" => {"bundle", "window"} \subseteq DOMAIN receipt'
    BY <1>2 DEF Build, UnsignedReceipt
  <2>2. trust' = trust /\ order' = order /\ pc = "build" /\ pc' \in {"sign", "failed"}
    BY <1>2 DEF Build, given
  <2> QED
    BY <1>0, <2>1, <2>2 DEF KeysInv, Kept, RevokedKeysReleaseNothing
<1>3. CASE Sign
  <2> DEFINE bundle == SignatureBundleOf(Orchestrator, order.algorithms, "exact",
                                         SignedHash(HeldReceipt), ORCHESTRATOR_RECEIPT_DOMAIN)
  <2>1. /\ receipt' = [receipt EXCEPT !.bundle = bundle]
        /\ trust' = trust /\ order' = order /\ pc = "sign" /\ pc' = "hash"
    BY <1>3 DEF Sign, given
  <2>2. IsList(bundle.signatures)
    <3>1. IsList(order.algorithms)
      BY <2>1, StatementsAssumption DEF KeysInv, Kept
    <3> QED
      BY <3>1, BuiltBundleIsList
  <2> HIDE DEF bundle
  <2>3. {"bundle", "window"} \subseteq DOMAIN receipt' /\ receipt'.bundle = bundle
    BY <2>1 DEF KeysInv, Kept
  <2> QED
    BY <1>0, <2>1, <2>2, <2>3 DEF KeysInv, Kept, RevokedKeysReleaseNothing
<1>4. CASE HashReceipt \/ SealEnvelope
  <2>1. /\ \/ receipt' = [receipt EXCEPT !.receiptHash = ReceiptHash(HeldReceipt)]
           \/ receipt' = [receipt EXCEPT !.signedHash = SignedHash(HeldReceipt)]
        /\ trust' = trust /\ order' = order
        /\ pc \in {"hash", "seal"} /\ pc' \in {"seal", "validate"}
    BY <1>4 DEF HashReceipt, SealEnvelope, given
  <2>2. DOMAIN receipt' = DOMAIN receipt /\ receipt'.bundle = receipt.bundle
    BY <2>1 DEF KeysInv, Kept
  <2> QED
    BY <1>0, <2>1, <2>2 DEF KeysInv, Kept, RevokedKeysReleaseNothing
<1>5. CASE Validate
  BY <1>0, <1>5, ValidateKeepsKeys DEF KeysInv
<1>6. CASE \/ Tick \/ Publish \/ (\E s \in Statements : Issue(s))
           \/ CheckVerdict \/ CopyVerdict
           \/ (\E i \in DOMAIN offers : Change(i))
           \/ (\E o \in Orders : Judge(o)) \/ UNCHANGED vars
  <2>1. /\ receipt' = receipt /\ trust' = trust /\ order' = order
        /\ \/ pc' = pc
           \/ pc' \in {"verify", "copy", "build", "failed"} /\ pc # "idle"
           \/ pc' = "judged" /\ pc = "released"
    BY <1>6 DEF Tick, Publish, Issue, CheckVerdict, CopyVerdict, Change, Ended, Judge, given, vars
  <2> QED
    BY <1>0, <2>1 DEF KeysInv, Kept, RevokedKeysReleaseNothing
<1> QED
  BY <1>1, <1>2, <1>3, <1>4, <1>5, <1>6 DEF Next, Produce

LEMMA InitHasKeys == Init => KeysInv
<1> SUFFICES ASSUME Init PROVE KeysInv
  OBVIOUS
<1>1. published \in DOMAIN Registries
  BY InitEstablishesInv DEF GenuineInv
<1>2. IsList(<<>>)
  BY DEF IsList, Range
<1> QED
  BY <1>1, <1>2 DEF Init, KeysInv, Kept, RevokedKeysReleaseNothing, NoTrust

\* Once the registry no longer trusts the keys the producer signs with, it
\* releases nothing (v4/orchestrate.py:43-45, 124-130).
THEOREM RevocationHolds == Spec => []RevokedKeysReleaseNothing
<1>1. Init => KeysInv
  BY InitHasKeys
<1>2. KeysInv /\ [Next]_vars => KeysInv'
  BY StepsKeepKeys
<1>3. KeysInv => RevokedKeysReleaseNothing
  BY DEF KeysInv
<1> QED
  BY <1>1, <1>2, <1>3, PTL DEF Spec
-----------------------------------------------------------------------------
(* Types: a receipt is of one verdict for each component.                   *)

Named(v) == "id" \in DOMAIN v /\ v.id \in Components

TakenOnce ==
    \A i, j \in DOMAIN taken : RawId(taken[i].verdict) = RawId(taken[j].verdict) => i = j

Collected ==
    /\ IsList(taken)
    /\ \A i \in DOMAIN taken : taken[i].verdict.id \in Components
    /\ pc = "idle" => taken = <<>>
    /\ pc \in {"verify", "copy"} => Len(taken) < Len(ComponentOrder) /\ TakenOnce
    /\ pc \in {"build", "sign", "hash", "seal", "validate", "released", "judged"} =>
           Len(taken) = Len(ComponentOrder) /\ TakenOnce
    /\ pc \in {"sign", "hash", "seal", "validate", "released", "judged"} => OneEach

TypeInv ==
    /\ now \in Start..End
    /\ published \in DOMAIN Registries
    /\ changes \in 0..MaxChanges
    /\ pc \in Phases
    /\ \A v \in issued : Named(v)
    /\ \A i \in DOMAIN offers : Named(offers[i])
    /\ pc \in {"verify", "copy"} => DOMAIN offers = DOMAIN ComponentOrder
    /\ Collected

LEMMA OrderDomain == Len(ComponentOrder) \in Nat /\ DOMAIN ComponentOrder = 1..Len(ComponentOrder)
                     /\ Len(ComponentOrder) > 0
<1>1. Len(ComponentOrder) \in Nat /\ DOMAIN ComponentOrder = 1..Len(ComponentOrder)
  BY ListDomain, OrderAssumption
<1>2. Len(ComponentOrder) # 0
  BY OrderAssumption DEF IsList
<1> QED
  BY <1>1, <1>2

LEMMA SignedIsNamed ==
    ASSUME NEW s \in Statements
    PROVE  Named(SignedVerdict(s))
<1>1. Named(UnsignedVerdict(s))
  BY StatementsAssumption DEF Named, UnsignedVerdict
<1> DEFINE v == UnsignedVerdict(s)
<1>2. SignedVerdict(s) =
          [v EXCEPT !.signedHash = ComponentHash(v),
                    !.bundle = SignatureBundleOf(s.id, s.algorithms, s.profile, ComponentHash(v),
                                                 COMPONENT_VERDICT_DOMAIN)]
  BY DEF SignedVerdict
<1> HIDE DEF v
<1>3. DOMAIN SignedVerdict(s) = DOMAIN v /\ ("id" \in DOMAIN v => SignedVerdict(s).id = v.id)
  BY <1>2
<1> QED
  BY <1>1, <1>3 DEF Named, v

LEMMA OneLonger ==
    ASSUME NEW s, IsList(s), NEW e
    PROVE  LET t == Append(s, e) IN
           /\ IsList(t) /\ Len(t) = Len(s) + 1 /\ DOMAIN t = 1..(Len(s) + 1)
           /\ \A i \in 1..Len(s) : t[i] = s[i]
           /\ t[Len(s) + 1] = e
<1> DEFINE S == Range(s) \cup {e}
           t == Append(s, e)
<1>1. s \in Seq(S)
  <2>1. s \in Seq(Range(s))
    BY DEF IsList
  <2> QED
    BY <2>1
<1>2. /\ t \in Seq(S) /\ Len(t) = Len(s) + 1
      /\ \A i \in 1..Len(s) : t[i] = s[i]
      /\ t[Len(s) + 1] = e
  BY <1>1, AppendProperties
<1>3. DOMAIN t = 1..Len(t) /\ t \in [1..Len(t) -> Range(t)] /\ Len(t) \in Nat
  <2> HIDE DEF t
  <2> QED
    BY <1>2 DEF Range
<1>4. IsList(t)
  <2> HIDE DEF t
  <2> QED
    BY <1>3 DEF IsList
<1> QED
  BY <1>2, <1>3, <1>4

LEMMA OneMoreTaken ==
    ASSUME TypeInv, CopyVerdict
    PROVE  Collected' /\ pc' \in Phases
<1> DEFINE n == Len(taken)
           v == offers[n + 1]
           row == [verdict |-> v, summary |-> [summary EXCEPT !.id = v.id]]
<1>1. /\ taken' = Append(taken, row) /\ pc = "copy"
      /\ pc' = IF \E i \in DOMAIN taken : RawId(taken[i].verdict) = RawId(v) THEN "failed"
               ELSE IF Len(taken') = Len(ComponentOrder) THEN "build" ELSE "verify"
  BY DEF CopyVerdict
<1>2. row.verdict = v
  OBVIOUS
<1> HIDE DEF row
<1>3. /\ IsList(taken) /\ n \in Nat /\ DOMAIN taken = 1..n /\ n < Len(ComponentOrder)
      /\ TakenOnce /\ DOMAIN offers = DOMAIN ComponentOrder
  BY <1>1, ListDomain DEF TypeInv, Collected
<1>4. v.id \in Components
  <2>1. n + 1 \in DOMAIN offers
    BY <1>3, OrderDomain
  <2> QED
    BY <2>1 DEF TypeInv, Named
<1> HIDE DEF v
<1>5. /\ IsList(taken') /\ Len(taken') = n + 1 /\ DOMAIN taken' = 1..(n + 1)
      /\ \A i \in 1..n : taken'[i] = taken[i]
      /\ taken'[n + 1] = row
  BY <1>1, <1>3, OneLonger
<1>6. \A i \in DOMAIN taken' : taken'[i].verdict.id \in Components
  <2>1. \A i \in 1..n : taken[i].verdict.id \in Components
    BY <1>3 DEF TypeInv, Collected
  <2>2. \A i \in DOMAIN taken' : i \in 1..n \/ i = n + 1
    BY <1>3, <1>5
  <2> QED
    BY <1>2, <1>4, <1>5, <2>1, <2>2
<1>7. ASSUME pc' # "failed"
      PROVE  TakenOnce'
  <2>1. \A i \in 1..n : RawId(taken[i].verdict) # RawId(v)
    BY <1>1, <1>3, <1>7
  <2>2. \A i \in 1..n : RawId(taken'[i].verdict) # RawId(v)
    BY <1>5, <2>1
  <2>3. RawId(taken'[n + 1].verdict) = RawId(v)
    BY <1>2, <1>5
  <2> SUFFICES ASSUME NEW i \in DOMAIN taken', NEW j \in DOMAIN taken',
                      RawId(taken'[i].verdict) = RawId(taken'[j].verdict)
               PROVE  i = j
    BY DEF TakenOnce
  <2>4. (i \in 1..n \/ i = n + 1) /\ (j \in 1..n \/ j = n + 1)
    BY <1>3, <1>5
  <2>5. CASE i \in 1..n /\ j \in 1..n
    BY <1>3, <1>5, <2>5 DEF TakenOnce
  <2>6. CASE i \in 1..n /\ j = n + 1
    <3>1. RawId(taken'[j].verdict) = RawId(v)
      BY <2>3, <2>6
    <3> QED
      BY <2>2, <2>6, <3>1
  <2>7. CASE i = n + 1 /\ j \in 1..n
    <3>1. RawId(taken'[i].verdict) = RawId(v)
      BY <2>3, <2>7
    <3> QED
      BY <2>2, <2>7, <3>1
  <2> QED
    BY <2>4, <2>5, <2>6, <2>7
<1>8. Len(taken') = n + 1 /\ (n + 1 # Len(ComponentOrder) => n + 1 < Len(ComponentOrder))
  <2>1. Len(taken') = n + 1
    BY <1>5
  <2>2. n \in Nat /\ n < Len(ComponentOrder) /\ Len(ComponentOrder) \in Nat
    BY <1>3, OrderDomain
  <2> HIDE DEF n
  <2>3. n + 1 # Len(ComponentOrder) => n + 1 < Len(ComponentOrder)
    BY <2>2
  <2> QED
    BY <2>1, <2>3
<1> QED
  BY <1>1, <1>5, <1>6, <1>7, <1>8 DEF Collected, Phases

LEMMA StepsKeepTypes ==
    ASSUME TypeInv, [Next]_vars
    PROVE  TypeInv'
<1>1. published' \in DOMAIN Registries
  BY PublishedStays DEF TypeInv
<1>2. now' \in Start..End
  <2>1. now' = now \/ (now < End /\ now' = now + 1)
    BY DEF Next, Produce, Tick, Publish, Issue, Call, CheckVerdict, CopyVerdict, Build, Sign,
           HashReceipt, SealEnvelope, Validate, Change, Ended, Judge, world, vars
  <2> QED
    BY <2>1, FlowAssumption DEF TypeInv
<1>3. CASE \E s \in Statements : Issue(s)
  <2>1. PICK s \in Statements : Issue(s)
    BY <1>3
  <2>2. /\ issued' = issued \cup {SignedVerdict(s)}
        /\ UNCHANGED <<changes, pc, offers, taken>>
    BY <2>1 DEF Issue
  <2>3. \A v \in issued' : Named(v)
    BY <2>2, SignedIsNamed DEF TypeInv
  <2> QED
    BY <1>1, <1>2, <2>2, <2>3 DEF TypeInv, Collected, TakenOnce, OneEach
<1>4. CASE \E list \in Lists(issued), o \in Orders : Call(list, o)
  <2>1. PICK list \in Lists(issued), o \in Orders : Call(list, o)
    BY <1>4
  <2>2. /\ offers' = list /\ UNCHANGED <<changes, issued, taken>> /\ pc = "idle"
        /\ \/ pc' = "failed"
           \/ pc' = "verify" /\ Len(list) = Len(ComponentOrder)
    BY <2>1 DEF Call, world
  <2>3. PICK n \in 1..Len(ComponentOrder) : list \in [1..n -> issued]
    BY DEF Lists
  <2>4. n \in Nat /\ Len(list) = n /\ DOMAIN list = 1..n
    BY <2>3, OrderDomain
  <2>5. \A i \in DOMAIN offers' : Named(offers'[i])
    BY <2>2, <2>3 DEF TypeInv
  <2>6. taken = <<>> /\ Len(taken) = 0 /\ TakenOnce
    BY <2>2 DEF TypeInv, Collected, TakenOnce, OneEach
  <2>7. pc' = "verify" => DOMAIN offers' = DOMAIN ComponentOrder
    BY <2>2, <2>4, OrderDomain
  <2> QED
    BY <1>1, <1>2, <2>2, <2>5, <2>6, <2>7, OrderDomain DEF TypeInv, Collected, TakenOnce, OneEach, Phases
<1>5. CASE CopyVerdict
  <2>1. UNCHANGED <<changes, issued, offers>> /\ pc = "copy" /\ pc' # "copy"
    BY <1>5 DEF CopyVerdict, world
  <2>2. Collected' /\ pc' \in Phases
    BY <1>5, OneMoreTaken
  <2> QED
    BY <1>1, <1>2, <2>1, <2>2 DEF TypeInv
<1>6. CASE \E i \in DOMAIN offers : Change(i)
  <2>1. PICK i \in DOMAIN offers : Change(i)
    BY <1>6
  <2>2. /\ changes' = changes + 1 /\ changes < MaxChanges
        /\ UNCHANGED <<issued, pc, taken>>
    BY <2>1 DEF Change, Ended, world
  <2>3. PICK v \in issued \cup {[offers[i] EXCEPT !.bundle = b] : b \in Altered(offers[i].bundle)} :
            offers' = [offers EXCEPT ![i] = v]
    BY <2>1 DEF Change, Ended
  <2>4. Named(v)
    BY <2>3 DEF TypeInv, Named
  <2>5. DOMAIN offers' = DOMAIN offers /\ \A j \in DOMAIN offers' : Named(offers'[j])
    BY <2>3, <2>4 DEF TypeInv
  <2>6. changes' \in 0..MaxChanges
    BY <2>2, FlowAssumption DEF TypeInv
  <2> QED
    BY <1>1, <1>2, <2>2, <2>5, <2>6 DEF TypeInv, Collected, TakenOnce, OneEach
<1>7. CASE \/ Tick \/ Publish \/ CheckVerdict \/ Build \/ Sign \/ HashReceipt
           \/ SealEnvelope \/ Validate
           \/ (\E o \in Orders : Judge(o)) \/ UNCHANGED vars
  <2>1. /\ UNCHANGED <<changes, issued, offers, taken>>
        /\ \/ pc' = pc
           \/ pc' = "failed"
           \/ pc = "verify" /\ pc' = "copy"
           \/ pc = "build" /\ pc' = "sign" /\ OneEach
           \/ /\ pc \in {"sign", "hash", "seal", "validate", "released"}
              /\ pc' \in {"hash", "seal", "validate", "released", "judged"}
    BY <1>7 DEF Tick, Publish, CheckVerdict, Build, Sign, HashReceipt, SealEnvelope, Validate,
                Judge, world, vars
  <2> QED
    BY <1>1, <1>2, <2>1 DEF TypeInv, Collected, TakenOnce, OneEach, Phases
<1> QED
  BY <1>3, <1>4, <1>5, <1>6, <1>7 DEF Next, Produce

LEMMA InitTypes == Init => TypeInv
<1> SUFFICES ASSUME Init PROVE TypeInv
  OBVIOUS
<1>1. published \in DOMAIN Registries
  BY InitEstablishesInv DEF GenuineInv
<1>2. IsList(<<>>)
  BY DEF IsList, Range
<1>3. now \in Start..End /\ changes \in 0..MaxChanges
  BY FlowAssumption DEF Init
<1> QED
  BY <1>1, <1>2, <1>3 DEF Init, TypeInv, Collected, Phases

LEMMA TypesHold == TypeInv => TypeOK
<1> SUFFICES ASSUME TypeInv
             PROVE  /\ pc \in {"build", "sign", "hash", "seal", "validate", "released", "judged"} =>
                           Len(taken) = Len(ComponentOrder) /\ TakenOnce
                    /\ pc \in {"sign", "hash", "seal", "validate", "released", "judged"} =>
                           {taken[i].verdict.id : i \in DOMAIN taken} = Components
  BY DEF TypeInv, TypeOK, TakenOnce
<1>1. pc \in {"build", "sign", "hash", "seal", "validate", "released", "judged"} =>
          Len(taken) = Len(ComponentOrder) /\ TakenOnce
  BY DEF TypeInv, Collected
<1>2. ASSUME pc \in {"sign", "hash", "seal", "validate", "released", "judged"}
      PROVE  {taken[i].verdict.id : i \in DOMAIN taken} = Components
  <2>1. /\ Len(taken) = Len(ComponentOrder) /\ OneEach /\ IsList(taken)
        /\ \A i \in DOMAIN taken : taken[i].verdict.id \in Components
    BY <1>2 DEF TypeInv, Collected
  <2> DEFINE copies == [i \in 1..Len(taken) |-> taken[i].verdict]
  <2>2. DOMAIN taken = 1..Len(taken) /\ Len(taken) \in Nat
    BY <2>1, ListDomain
  <2>3. copies \in Seq(Range(copies)) /\ Len(copies) = Len(taken) /\ DOMAIN copies = DOMAIN taken
    <3>1. DOMAIN copies = 1..Len(taken) /\ copies \in [1..Len(taken) -> Range(copies)]
      BY DEF Range
    <3> HIDE DEF copies
    <3> QED
      BY <2>2, <3>1
  <2>4. \A i \in DOMAIN taken : copies[i] = taken[i].verdict
    BY <2>2
  <2> HIDE DEF copies
  <2>5. IsList(copies) /\ OnePerComponent(copies)
    BY <2>1, <2>3, <2>4 DEF IsList, OnePerComponent, OneEach
  <2>6. {copies[i].id : i \in DOMAIN copies} = Components
    BY <2>5, EveryComponentIsThere
  <2> QED
    BY <2>3, <2>4, <2>6
<1> QED
  BY <1>1, <1>2

THEOREM TypeInvariant == Spec => []TypeInv
BY InitTypes, StepsKeepTypes, PTL DEF Spec

\* Clock, registry, phase and changes stay in their domains, no component id is
\* taken twice as it is written, though each object may turn into another
\* between its check and its copy, and a receipt is of one verdict for each
\* component (v4/component_verdicts.py:248-263,
\* v4/contracts/v4_receipt.py:252).
THEOREM OneVerdictEach == Spec => []TypeOK
BY TypesHold, TypeInvariant, PTL

-----------------------------------------------------------------------------
(* What the producer releases is within the boundary's work budget.         *)

\* A bundle that policy.v1 accepts.
FullBundle(bundle) ==
    LET s == bundle.signatures IN
    /\ IsList(s)
    /\ RequiredAlgorithms \subseteq PresentAlgorithms(s)
    /\ \A i \in DOMAIN s : s[i].algorithm \in SupportedAlgorithms
    /\ \A i, j \in DOMAIN s : s[i].algorithm = s[j].algorithm => i = j

FullReceipt(r) ==
    /\ Listed(r)
    /\ OnePerComponent(r.components)
    /\ FullBundle(r.bundle)
    /\ \A i \in DOMAIN r.components : FullBundle(r.components[i].bundle)

LEMMA ListRangeIsFinite ==
    ASSUME NEW s, IsList(s)
    PROVE  IsFiniteSet(Range(s))
<1>1. s \in [DOMAIN s -> Range(s)]
  BY DEF IsList, Range
<1>2. \A t \in Range(s) : \E i \in DOMAIN s : s[i] = t
  BY DEF Range
<1> QED
  BY <1>1, <1>2, ListDomainIsFinite, ImageIsFinite

LEMMA PolicyIsFinite ==
    /\ IsFiniteSet(SupportedAlgorithms) /\ IsFiniteSet(RequiredAlgorithms)
    /\ IsFiniteSet(PqcAlgorithms) /\ IsFiniteSet(Artifacts)
<1>1. IsFiniteSet(SupportedAlgorithms)
  <2>1. SupportedAlgorithms = Range(Algorithms)
    BY DEF SupportedAlgorithms, Range
  <2> QED
    BY <2>1, OrderAssumption, ListRangeIsFinite
<1>2. IsFiniteSet(RequiredAlgorithms) /\ IsFiniteSet(PqcAlgorithms)
  BY <1>1, FS_Subset, RequiredAssumption, WorkAssumption
<1>3. IsFiniteSet(Components)
  BY OrderAssumption, ListRangeIsFinite DEF Components
<1>4. IsFiniteSet({Orchestrator})
  BY FS_Singleton
<1>5. IsFiniteSet(Artifacts)
  BY <1>3, <1>4, FS_Union DEF Artifacts
<1> QED
  BY <1>1, <1>2, <1>5

LEMMA TwoOrThreeSignatures ==
    ASSUME NEW bundle, FullBundle(bundle)
    PROVE  Len(bundle.signatures) \in 2..3
<1> DEFINE s == bundle.signatures
           D == DOMAIN s
           P == PresentAlgorithms(s)
           algorithms == [i \in D |-> s[i].algorithm]
<1>1. D = 1..Len(s) /\ Len(s) \in Nat /\ IsFiniteSet(D)
  BY ListDomain, ListDomainIsFinite DEF FullBundle
<1>2. Cardinality(D) = Len(s)
  BY <1>1, FS_Interval
<1>3. /\ algorithms \in Injection(D, SupportedAlgorithms)
      /\ algorithms \in Surjection(D, P)
  <2>1. algorithms \in [D -> SupportedAlgorithms] /\ IsInjective(algorithms)
    BY DEF FullBundle, IsInjective
  <2>2. algorithms \in [D -> P] /\ \A t \in P : \E i \in D : algorithms[i] = t
    BY DEF PresentAlgorithms
  <2> HIDE DEF algorithms, D, P
  <2> QED
    BY <2>1, <2>2 DEF Injection, Surjection
<1> HIDE DEF algorithms
<1>4. Cardinality(D) =< Cardinality(SupportedAlgorithms)
  BY <1>3, PolicyIsFinite, FS_Injection
<1>5. IsFiniteSet(P) /\ Cardinality(P) =< Cardinality(D)
  BY <1>1, <1>3, FS_Surjection
<1>6. Cardinality(RequiredAlgorithms) =< Cardinality(P)
  BY <1>5, FS_Subset DEF FullBundle
<1>7. /\ Cardinality(RequiredAlgorithms) \in Nat /\ Cardinality(P) \in Nat
      /\ Cardinality(SupportedAlgorithms) \in Nat
  BY <1>5, PolicyIsFinite, FS_CardinalityType
<1> HIDE DEF D, P, s
<1>8. Len(s) \in 2..3
  BY <1>1, <1>2, <1>4, <1>5, <1>6, <1>7, PolicyAssumption
<1> QED
  BY <1>8 DEF s

LEMMA EveryBundleIsFull ==
    ASSUME NEW r, FullReceipt(r), NEW id \in Artifacts
    PROVE  FullBundle(BundleOf(r, id))
<1>1. CASE id = Orchestrator
  BY <1>1 DEF BundleOf, FullReceipt
<1>2. CASE id # Orchestrator
  <2>1. PICK i \in DOMAIN r.components :
            Component(r, id) = r.components[i] /\ r.components[i].id = id
    BY <1>2, ComponentOfId DEF Artifacts, FullReceipt, Listed
  <2> QED
    BY <1>2, <2>1 DEF BundleOf, FullReceipt
<1> QED
  BY <1>1, <1>2

\* The plan has one record at most for an artifact and an algorithm.
LEMMA PlanIsCounted ==
    ASSUME NEW r, FullReceipt(r), NEW S, IsFiniteSet(S), NEW part \in SUBSET Plan(r),
           \A p \in part : p.algorithm \in S
    PROVE  IsFiniteSet(part) /\ Cardinality(part) =< Cardinality(Artifacts) * Cardinality(S)
<1>1. ASSUME NEW p \in Plan(r)
      PROVE  \E id \in Artifacts : \E i \in DOMAIN BundleOf(r, id).signatures :
                 p = PlannedEntry(id, BundleOf(r, id), i)
  BY PlanHasEveryEntry DEF FullReceipt, Listed, BundlePlan
<1>2. \A id \in Artifacts : FullBundle(BundleOf(r, id))
  BY EveryBundleIsFull
<1>3. ASSUME NEW p \in part, NEW q \in part,
             p.artifact = q.artifact, p.algorithm = q.algorithm
      PROVE  p = q
  <2>1. PICK id \in Artifacts : \E i \in DOMAIN BundleOf(r, id).signatures :
            p = PlannedEntry(id, BundleOf(r, id), i)
    BY <1>1
  <2>2. PICK jd \in Artifacts : \E j \in DOMAIN BundleOf(r, jd).signatures :
            q = PlannedEntry(jd, BundleOf(r, jd), j)
    BY <1>1
  <2>3. id = jd
    BY <1>3, <2>1, <2>2 DEF PlannedEntry
  <2> DEFINE s == BundleOf(r, id).signatures
  <2>4. PICK i \in DOMAIN s : p = PlannedEntry(id, BundleOf(r, id), i)
    BY <2>1
  <2>5. PICK j \in DOMAIN s : q = PlannedEntry(id, BundleOf(r, id), j)
    BY <2>2, <2>3
  <2>6. s[i].algorithm = s[j].algorithm
    BY <1>3, <2>4, <2>5 DEF PlannedEntry
  <2>7. i = j
    BY <1>2, <2>6 DEF FullBundle
  <2> QED
    BY <2>4, <2>5, <2>7
<1>4. \A p \in part : p.artifact \in Artifacts
  BY <1>1 DEF PlannedEntry
<1> DEFINE place == [p \in part |-> <<p.artifact, p.algorithm>>]
<1>5. place \in Injection(part, Artifacts \X S)
  <2>1. place \in [part -> Artifacts \X S]
    BY <1>4
  <2>2. \A p, q \in part : place[p] = place[q] => p = q
    BY <1>3
  <2> HIDE DEF place
  <2> QED
    BY <2>1, <2>2 DEF Injection, IsInjective
<1>6. /\ IsFiniteSet(Artifacts \X S)
      /\ Cardinality(Artifacts \X S) = Cardinality(Artifacts) * Cardinality(S)
  BY PolicyIsFinite, FS_Product
<1>7. IsFiniteSet(part) /\ Cardinality(part) =< Cardinality(Artifacts \X S)
  <2> HIDE DEF place
  <2> QED
    BY <1>5, <1>6, FS_Injection
<1> QED
  BY <1>6, <1>7

LEMMA FullReceiptFits ==
    ASSUME NEW r, FullReceipt(r)
    PROVE  PlanError(r) = NoError
<1> DEFINE plan == Plan(r)
           of(id) == {p \in plan : p.artifact = id}
           everyone == {p.artifact : p \in plan} = Artifacts
           sizes == \A id \in Artifacts : Cardinality(of(id)) \in 2..3
           within == Cardinality(plan) =< MaxVerificationCalls
           pqc == Cardinality(Pqc(plan)) =< MaxPqcVerificationCalls
<1>1. plan = UNION {BundlePlan(id, BundleOf(r, id)) : id \in Artifacts}
  BY PlanHasEveryEntry DEF FullReceipt, Listed
<1>2. \A id \in Artifacts : FullBundle(BundleOf(r, id))
  BY EveryBundleIsFull
<1>3. ASSUME NEW id \in Artifacts
      PROVE  of(id) = BundlePlan(id, BundleOf(r, id))
  <2>1. \A jd \in Artifacts : \A p \in BundlePlan(jd, BundleOf(r, jd)) : p.artifact = jd
    BY DEF BundlePlan, PlannedEntry
  <2> QED
    BY <1>1, <2>1
<1>4. sizes
  <2> SUFFICES ASSUME NEW id \in Artifacts PROVE Cardinality(of(id)) \in 2..3
    OBVIOUS
  <2>1. Cardinality(BundlePlan(id, BundleOf(r, id))) = Len(BundleOf(r, id).signatures)
    BY <1>2, BundlePlanSize DEF FullBundle
  <2>2. Len(BundleOf(r, id).signatures) \in 2..3
    BY <1>2, TwoOrThreeSignatures
  <2> HIDE DEF of
  <2> QED
    BY <1>3, <2>1, <2>2
<1>5. everyone
  <2>1. ASSUME NEW id \in Artifacts PROVE \E p \in plan : p.artifact = id
    <3> DEFINE b == BundleOf(r, id)
    <3>1. Len(b.signatures) \in 2..3 /\ DOMAIN b.signatures = 1..Len(b.signatures)
      BY <1>2, TwoOrThreeSignatures, ListDomain DEF FullBundle
    <3>2. 1 \in DOMAIN b.signatures
      <4>1. 1 \in 1..Len(b.signatures)
        <5> HIDE DEF b
        <5> QED
          BY <3>1
      <4> QED
        BY <3>1, <4>1
    <3>3. PlannedEntry(id, b, 1) \in plan
      BY <1>1, <3>2 DEF BundlePlan
    <3>4. PlannedEntry(id, b, 1).artifact = id
      BY DEF PlannedEntry
    <3> QED
      BY <3>3, <3>4
  <2>2. \A p \in plan : p.artifact \in Artifacts
    BY <1>1 DEF BundlePlan, PlannedEntry
  <2> QED
    BY <2>1, <2>2
<1>6. \A p \in plan : p.algorithm \in SupportedAlgorithms
  <2>1. ASSUME NEW id \in Artifacts, NEW p \in BundlePlan(id, BundleOf(r, id))
        PROVE  p.algorithm \in SupportedAlgorithms
    BY <1>2 DEF FullBundle, BundlePlan, PlannedEntry
  <2> QED
    BY <1>1, <2>1
<1>7. /\ IsFiniteSet(plan)
      /\ Cardinality(plan) =< Cardinality(Artifacts) * Cardinality(SupportedAlgorithms)
  BY <1>6, PolicyIsFinite, PlanIsCounted
<1>8. /\ IsFiniteSet(Pqc(plan))
      /\ Cardinality(Pqc(plan)) =< Cardinality(Artifacts) * Cardinality(PqcAlgorithms)
  <2>1. Pqc(plan) \in SUBSET plan /\ \A p \in Pqc(plan) : p.algorithm \in PqcAlgorithms
    BY DEF Pqc
  <2> QED
    BY <2>1, PolicyIsFinite, PlanIsCounted
<1>9. within /\ pqc
  <2> DEFINE a == Cardinality(Artifacts) * Cardinality(SupportedAlgorithms)
             b == Cardinality(Artifacts) * Cardinality(PqcAlgorithms)
  <2>1. /\ Cardinality(plan) \in Nat /\ Cardinality(Pqc(plan)) \in Nat
        /\ Cardinality(Artifacts) \in Nat /\ Cardinality(SupportedAlgorithms) \in Nat
        /\ Cardinality(PqcAlgorithms) \in Nat
    BY <1>7, <1>8, PolicyIsFinite, FS_CardinalityType
  <2>2. a \in Nat /\ b \in Nat
    BY <2>1
  <2>3. a =< MaxVerificationCalls /\ b =< MaxPqcVerificationCalls
    BY PolicyAssumption
  <2> HIDE DEF a, b, plan
  <2> QED
    BY <1>7, <1>8, <2>1, <2>2, <2>3, WorkAssumption DEF a, b
<1>10. FirstError(<<Check(everyone, {"hash"}), Check(sizes, {"hash", "signature"}),
                    Check(within, BudgetError), Check(pqc, BudgetError)>>) = NoError
  <2> HIDE DEF everyone, sizes, within, pqc
  <2>1. /\ Check(everyone, {"hash"}) = NoError /\ Check(sizes, {"hash", "signature"}) = NoError
        /\ Check(within, BudgetError) = NoError /\ Check(pqc, BudgetError) = NoError
    BY <1>4, <1>5, <1>9 DEF Check
  <2> QED
    BY <2>1, AllFour
<1> QED
  BY <1>10 DEF PlanError

-----------------------------------------------------------------------------
(* The boundary makes the producer's checks again, and its own besides.      *)

\* A receipt its producer validated, over verdicts it verified one by one.
Validated(r, context, trusted) ==
    /\ Listed(r)
    /\ IsWindow(r.window) /\ \A i \in DOMAIN r.components : IsWindow(r.components[i].window)
    /\ r.json = "bounded" /\ r.bytes = "within"
    /\ r.results = ExpectedResults(r)
    /\ \A i \in DOMAIN r.bundle.signatures : r.bundle.signatures[i].signature # "blank"
    /\ \A k \in DOMAIN r.components : LET c == r.components[k] IN
           /\ c.form # "padded"
           /\ \A i \in DOMAIN c.bundle.signatures : c.bundle.signatures[i].signature # "blank"
           /\ \E accepted : ComponentEnvelopeError(c, context, trusted, accepted) = NoError
    /\ \E accepted : ReceiptEnvelopeError(r, context, trusted, accepted) = NoError

\* A call of the boundary that trusts what the producer did, while all lasts.
Agreeing(a, r, trusted) ==
    /\ a.registry = trusted.registry /\ a.minimum = a.registry.version
    /\ a.registry.version \in Int /\ IsKeyList(a.registry.entries)
    /\ LoadRegistryError(a.registry) = NoError
    /\ a.request = r.request
    /\ a.time \in Int
    /\ \A w \in Windows(r) : During(a.time, w)

LEMMA ComponentsAgree ==
    ASSUME NEW r, NEW trusted, NEW a, Validated(r, a.context, trusted), Agreeing(a, r, trusted),
           NEW i \in DOMAIN r.components, NEW all,
           DOMAIN r.components[i].bundle.signatures \subseteq all
    PROVE  /\ ComponentEnvelopeError(r.components[i], a.context, a, all) = NoError
           /\ PrepareComponentError(r.components[i], a) = NoError
<1> DEFINE c == r.components[i]
<1>1. /\ IsList(c.bundle.signatures) /\ IsWindow(c.window)
      /\ \A k \in DOMAIN c.bundle.signatures : c.bundle.signatures[k].signature # "blank"
  BY DEF Validated, Listed
<1>2. PICK accepted : ComponentEnvelopeError(c, a.context, trusted, accepted) = NoError
  BY DEF Validated
<1>3. /\ a.registry = trusted.registry /\ a.time \in Int /\ During(a.time, c.window)
      /\ IsKeyList(trusted.registry.entries)
  BY DEF Agreeing, Windows
<1>4. DOMAIN c.bundle.signatures \subseteq all
  OBVIOUS
<1> HIDE DEF c
<1>5. ComponentEnvelopeError(c, a.context, a, all) = NoError
  BY <1>1, <1>2, <1>3, <1>4, ComponentStaysVerified
<1>6. PrepareComponentError(c, a) = NoError
  BY <1>1, <1>2, <1>3, ComponentIsPrepared
<1> QED
  BY <1>5, <1>6 DEF c

LEMMA EnvelopesAgree ==
    ASSUME NEW r, NEW trusted, NEW a, Validated(r, a.context, trusted), Agreeing(a, r, trusted),
           NEW all, DOMAIN r.bundle.signatures \subseteq all
    PROVE  ReceiptEnvelopeError(r, a.context, a, all) = NoError
<1>1. IsList(r.bundle.signatures) /\ IsWindow(r.window)
  BY DEF Validated, Listed
<1>2. PICK accepted : ReceiptEnvelopeError(r, a.context, trusted, accepted) = NoError
  BY DEF Validated
<1>3. /\ a.registry = trusted.registry /\ a.time \in Int /\ During(a.time, r.window)
      /\ IsKeyList(trusted.registry.entries)
  BY DEF Agreeing, Windows
<1> QED
  BY <1>1, <1>2, <1>3, ReceiptStaysVerified

LEMMA ValidatedIsFull ==
    ASSUME NEW r, NEW trusted, NEW a, Validated(r, a.context, trusted), Agreeing(a, r, trusted)
    PROVE  FullReceipt(r)
<1>1. Listed(r) /\ IsList(a.registry.entries)
  BY DEF Validated, Agreeing, IsKeyList
<1> DEFINE own == DOMAIN r.bundle.signatures
<1>2. ReceiptEnvelopeError(r, a.context, a, own) = NoError
  BY EnvelopesAgree
<1> HIDE DEF own
<1>3. OnePerComponent(r.components)
  <2>1. SemanticsError(r, a.context) = NoError
    BY <1>2, ReceiptChecks
  <2> QED
    BY <1>1, <2>1, SemanticsCount DEF Listed
<1>4. FullBundle(r.bundle)
  <2>1. ReceiptVerified(r, a.context, a, own)
    BY <1>1, <1>2, VerifiedReceipt DEF Listed
  <2> QED
    BY <1>1, <2>1 DEF ReceiptVerified, BundleVerified, FullBundle, Listed
<1>5. ASSUME NEW i \in DOMAIN r.components
      PROVE  FullBundle(r.components[i].bundle)
  <2> DEFINE c == r.components[i]
             all == DOMAIN c.bundle.signatures
  <2>1. IsList(c.bundle.signatures)
    BY <1>1 DEF Listed
  <2>2. ComponentEnvelopeError(c, a.context, a, all) = NoError
    BY ComponentsAgree
  <2> HIDE DEF c, all
  <2>3. ComponentVerified(c, a.context, a, all)
    BY <1>1, <2>1, <2>2, VerifiedComponent
  <2>4. FullBundle(c.bundle)
    BY <2>1, <2>3 DEF ComponentVerified, BundleVerified, FullBundle
  <2> QED
    BY <2>4 DEF c
<1> QED
  BY <1>1, <1>3, <1>4, <1>5 DEF FullReceipt

LEMMA SnapshotPasses ==
    ASSUME NEW r, NEW trusted, NEW a, Validated(r, a.context, trusted), Agreeing(a, r, trusted)
    PROVE  SnapshotError(r, a) = NoError
<1>0. FullReceipt(r)
  BY ValidatedIsFull
<1> DEFINE item(i) == FirstError(<<
               Check(r.components[i].form # "padded", {}),
               IdError(r.components, i, {}),
               BundleBudgetError(r.components[i].bundle) >>)
           items == [i \in DOMAIN r.components |-> item(i)]
           length == Check(Len(r.components) = Len(ComponentOrder), BudgetError)
           own == BundleBudgetError(r.bundle)
<1>1. own = NoError
  BY <1>0, TwoOrThreeSignatures DEF FullReceipt, BundleBudgetError, Check
<1>2. ASSUME NEW i \in DOMAIN r.components
      PROVE  item(i) = NoError
  <2>1. BundleBudgetError(r.components[i].bundle) = NoError
    BY <1>0, TwoOrThreeSignatures DEF FullReceipt, BundleBudgetError, Check
  <2>2. IdError(r.components, i, {}) = NoError
    BY <1>0, IdPasses DEF FullReceipt, Listed
  <2>3. Check(r.components[i].form # "padded", {}) = NoError
    BY DEF Validated, Check
  <2> QED
    BY <2>1, <2>2, <2>3, AllThree
<1>3. FirstError(items) = NoError
  <2>1. /\ DOMAIN items \subseteq Nat /\ DOMAIN items = DOMAIN r.components
        /\ \A i \in DOMAIN items : items[i] = item(i)
    BY <1>0, ListDomain DEF FullReceipt, Listed
  <2> HIDE DEF items, item
  <2> QED
    BY <1>2, <2>1, NothingFails
<1>4. length = NoError
  BY <1>0 DEF FullReceipt, OnePerComponent, Check
<1>5. BundleBudgetsError(r) = NoError
  <2>1. FirstError(<<length, FirstError(items), own>>) = NoError
    <3> HIDE DEF length, items, own
    <3> QED
      BY <1>1, <1>3, <1>4, AllThree
  <2> QED
    BY <2>1 DEF BundleBudgetsError
<1>6. Check(r.fields, {"field", "schema"}) = NoError
  <2> DEFINE all == DOMAIN r.bundle.signatures
  <2>1. ReceiptEnvelopeError(r, a.context, a, all) = NoError
    BY EnvelopesAgree
  <2> HIDE DEF all
  <2> QED
    BY <2>1, ReceiptChecks
<1>7. /\ Check(r.json = "bounded", BudgetError) = NoError
      /\ LoadRegistryError(a.registry) = NoError
      /\ FloorError(a.registry, a.minimum) = NoError
  BY DEF Validated, Agreeing, FloorError, Check
<1> QED
  BY <1>5, <1>6, <1>7, AllFive DEF SnapshotError

LEMMA PreparePasses ==
    ASSUME NEW r, NEW trusted, NEW a, Validated(r, a.context, trusted), Agreeing(a, r, trusted)
    PROVE  PrepareError(r, a) = NoError
<1> DEFINE prepared == [i \in DOMAIN r.components |-> PrepareComponentError(r.components[i], a)]
           own == PrepareBundleError(r.bundle, ORCHESTRATOR_RECEIPT_DOMAIN, Orchestrator,
                                     r.window, a)
           signed == \A i \in DOMAIN r.components :
                         r.components[i].signedHash = ComponentHash(r.components[i])
           header == HeaderError(r)
           version == Check(r.version = a.registry.version, {"key", "registry"})
           fresh == FreshnessError(r.window, a.time)
           plan == PlanError(r)
           semantics == SemanticsError(r, a.context)
           results == Check(r.results = ExpectedResults(r), {})
           bytes == Check(r.bytes = "within", BudgetError)
           hash == Check(r.receiptHash = ReceiptHash(r), {"hash"})
           hash2 == Check(r.signedHash = SignedHash(r), {"hash"})
           hashes == Check(signed, {"hash"})
           all == DOMAIN r.bundle.signatures
<1>0. /\ FullReceipt(r) /\ IsList(r.bundle.signatures)
      /\ IsList(a.registry.entries)
  <2>1. FullReceipt(r)
    BY ValidatedIsFull
  <2> QED
    BY <2>1 DEF FullReceipt, Listed, Agreeing, IsKeyList
<1>1. ReceiptEnvelopeError(r, a.context, a, all) = NoError
  BY EnvelopesAgree
<1>2. /\ header = NoError /\ semantics = NoError
      /\ r.receiptHash = ReceiptHash(r) /\ r.signedHash = SignedHash(r)
      /\ r.version = a.registry.version
      /\ VerifyBundleError(r.bundle, SignedHash(r), ORCHESTRATOR_RECEIPT_DOMAIN,
                           Orchestrator, a, r.window, all) = NoError
  <2> HIDE DEF all
  <2> QED
    BY <1>1, ReceiptChecks
<1>3. FirstError(prepared) = NoError
  <2>1. \A i \in DOMAIN r.components : PrepareComponentError(r.components[i], a) = NoError
    BY ComponentsAgree
  <2>2. /\ DOMAIN prepared \subseteq Nat /\ DOMAIN prepared = DOMAIN r.components
        /\ \A i \in DOMAIN prepared : prepared[i] = PrepareComponentError(r.components[i], a)
    BY <1>0, ListDomain DEF FullReceipt, Listed
  <2> HIDE DEF prepared
  <2> QED
    BY <2>1, <2>2, NothingFails
<1>4. own = NoError
  <2>1. \A i \in all : r.bundle.signatures[i].signature # "blank"
    BY DEF Validated
  <2> QED
    BY <1>0, <1>2, <2>1, VerifiedIsPrepared
<1>5. fresh = NoError
  <2>1. Proper(r.window)
    BY <1>0, <1>2, VerifiedIsProper
  <2>2. During(a.time, r.window)
    BY DEF Agreeing, Windows
  <2> QED
    BY <2>1, <2>2, FreshnessPasses
<1>6. plan = NoError
  BY <1>0, FullReceiptFits
<1>7. /\ version = NoError /\ results = NoError /\ bytes = NoError
      /\ hash = NoError /\ hash2 = NoError
  BY <1>2 DEF Check, Validated
<1>8. hashes = NoError
  <2>1. ASSUME NEW i \in DOMAIN r.components
        PROVE  r.components[i].signedHash = ComponentHash(r.components[i])
    <3> DEFINE c == r.components[i]
    <3>1. PICK accepted : ComponentEnvelopeError(c, a.context, trusted, accepted) = NoError
      BY DEF Validated
    <3> HIDE DEF c
    <3>2. c.signedHash = ComponentHash(c)
      BY <3>1, ComponentChecks
    <3> QED
      BY <3>2 DEF c
  <2> QED
    BY <2>1 DEF Check
<1>9. FirstError(<<header, version, FirstError(prepared), fresh, own, plan, semantics, results,
                   bytes, hash, hash2, hashes>>) = NoError
  <2> HIDE DEF header, version, prepared, fresh, own, plan, semantics, results, bytes, hash,
               hash2, hashes
  <2> QED
    BY <1>2, <1>3, <1>4, <1>5, <1>6, <1>7, <1>8, AllTwelve
<1> QED
  BY <1>9 DEF PrepareError

LEMMA BoundaryAgrees ==
    ASSUME NEW r, NEW trusted, NEW a, Validated(r, a.context, trusted), Agreeing(a, r, trusted)
    PROVE  /\ SnapshotError(r, a) = NoError
           /\ BindReason(r, a) = "V4_VERIFY_OK"
           /\ PrepareError(r, a) = NoError
           /\ RehearsalError(r, a) = NoError
           /\ RevalidationError(r, a) = NoError
<1> DEFINE all == DOMAIN r.bundle.signatures
           accepted == [i \in DOMAIN r.components |->
                           Cached(Plan(r), r.components[i].id, r.components[i].bundle)]
           own == Cached(Plan(r), Orchestrator, r.bundle)
<1>1. FullReceipt(r)
  BY ValidatedIsFull
<1>2. CachedVerdictsError(r, a, Plan(r)) = NoError
  <2>1. ASSUME NEW i \in DOMAIN r.components
        PROVE  ComponentEnvelopeError(r.components[i], a.context, a, accepted[i]) = NoError
    <3>1. DOMAIN r.components[i].bundle.signatures \subseteq accepted[i]
      BY EverythingIsCached
    <3> HIDE DEF accepted
    <3> QED
      BY <3>1, ComponentsAgree
  <2>2. ComponentVerdictsError(r.components, a.context, a, accepted) = NoError
    <3> HIDE DEF accepted
    <3> QED
      BY <1>1, <2>1, VerdictsPass DEF FullReceipt, Listed
  <2> QED
    BY <2>2 DEF CachedVerdictsError
<1>3. CachedEnvelopeError(r, a, Plan(r)) = NoError
  <2>1. all \subseteq own
    BY EverythingIsCached
  <2>2. ReceiptEnvelopeError(r, a.context, a, own) = NoError
    <3> HIDE DEF own
    <3> QED
      BY <2>1, EnvelopesAgree
  <2> QED
    BY <2>2 DEF CachedEnvelopeError
<1>4. PlanError(r) = NoError
  BY <1>1, FullReceiptFits
<1>5. RehearsalError(r, a) = NoError
  BY <1>2, <1>3, <1>4, AllThree DEF RehearsalError
<1>6. RevalidationError(r, a) = NoError
  <2>1. Check(r.results = ExpectedResults(r), {"contract", "signature"}) = NoError
    BY DEF Validated, Check
  <2> QED
    BY <1>2, <1>3, <2>1, AllThree DEF RevalidationError
<1>7. BindReason(r, a) = "V4_VERIFY_OK"
  <2>1. ReceiptEnvelopeError(r, a.context, a, all) = NoError
    BY EnvelopesAgree
  <2>2. /\ Check(r.policy, {"policy", "signature"}) = NoError
        /\ r.schema = "shield.receipt.v2" /\ r.context = a.context
    <3> HIDE DEF all
    <3> QED
      BY <2>1, ReceiptChecks
  <2>3. r.policy
    BY <2>2 DEF Check, NoError
  <2>4. r.request = a.request
    BY DEF Agreeing
  <2> QED
    BY <2>2, <2>3, <2>4 DEF BindReason
<1> QED
  BY <1>5, <1>6, <1>7, SnapshotPasses, PreparePasses

-----------------------------------------------------------------------------
(* While no object changes, the boundary gets what the producer validated.   *)

\* No signature is left out.
Clean(bundle) ==
    \A i \in DOMAIN bundle.signatures : bundle.signatures[i].signature # "blank"

\* A verdict as a component signs it, read with the bundle it has.
WellSigned(v) ==
    /\ IsWindow(v.window)
    /\ Clean(v.bundle)
    /\ [v EXCEPT !.bundle = v.bundle] = v

SummaryOf(v) ==
    LET s == v.bundle.signatures IN
    [id |-> v.id,
     algorithms |-> [i \in DOMAIN s |-> s[i].algorithm],
     profiles |-> [i \in DOMAIN s |-> "exact"]]

Passed(v) ==
    ComponentEnvelopeError(v, order.context, trust, VerifiedAt(v.id, v.bundle)) = NoError

\* Position i of the copies still says what the caller's object does.
Faithful(i) ==
    /\ taken[i].verdict = offers[i]
    /\ taken[i].summary = SummaryOf(offers[i])
    /\ Passed(offers[i])

TrustInv ==
    pc \notin {"idle", "failed"} =>
        /\ RegistryError(trust.registry) = NoError
        /\ IsKeyList(trust.registry.entries)
        /\ trust.registry.version \in Int
        /\ DOMAIN offers = DOMAIN ComponentOrder

OffersInv ==
    changes = 0 =>
        /\ \A i \in DOMAIN offers : offers[i] \in issued
        /\ pc # "failed" => \A i \in DOMAIN taken : Faithful(i)
        /\ pc = "copy" => LET v == offers[Len(taken) + 1] IN
                          summary = SummaryOf(v) /\ Passed(v)

\* What the receipt asks of the work budget is what its parts ask.
ReceiptWork(r) ==
    /\ r.json = JsonOf(order, HeldComponents)
    /\ r.bytes = IF Bytes(order, HeldComponents) =< MaxReceiptBytes THEN "within" ELSE "over"

ReceiptInv ==
    /\ pc \in {"sign", "hash", "seal", "validate", "released", "judged"} =>
           /\ {"json", "bytes", "window", "components", "results", "bundle", "context"}
                  \subseteq DOMAIN receipt
           /\ receipt.window = order.window
           /\ receipt.results = Summaries
           /\ changes = 0 => ReceiptWork(receipt)
    /\ pc \in {"hash", "seal", "validate", "released", "judged"} => Clean(receipt.bundle)
    /\ pc \in {"released", "judged"} /\ changes = 0 =>
           ReceiptEnvelopeError(HeldReceipt, order.context, trust,
                                VerifiedAt(Orchestrator, receipt.bundle)) = NoError

Undisturbed ==
    /\ \A v \in issued : WellSigned(v)
    /\ TrustInv
    /\ OffersInv
    /\ ReceiptInv
    /\ ReleasedIsAccepted

HonestInv ==
    /\ TypeInv
    /\ KeysInv
    /\ Undisturbed

LEMMA BuiltBundleIsClean ==
    ASSUME NEW role, NEW algorithms, NEW profile, NEW hash, NEW domain
    PROVE  Clean(SignatureBundleOf(role, algorithms, profile, hash, domain))
BY DEF Clean, SignatureBundleOf, SignatureEntry

LEMMA SignedIsWellSigned ==
    ASSUME NEW s \in Statements
    PROVE  WellSigned(SignedVerdict(s))
<1> DEFINE u == UnsignedVerdict(s)
           hash == ComponentHash(u)
           b == SignatureBundleOf(s.id, s.algorithms, s.profile, hash, COMPONENT_VERDICT_DOMAIN)
           v == SignedVerdict(s)
<1>1. v = [u EXCEPT !.signedHash = hash, !.bundle = b]
  BY DEF SignedVerdict
<1>2. "bundle" \in DOMAIN u /\ "window" \in DOMAIN u /\ u.window = s.window
  BY DEF UnsignedVerdict
<1>3. Clean(b)
  BY BuiltBundleIsClean
<1>4. IsWindow(s.window)
  BY TimesAssumption
<1> HIDE DEF u, hash, b, v
<1>5. v.window = s.window /\ v.bundle = b
  BY <1>1, <1>2
<1>6. [v EXCEPT !.bundle = v.bundle] = v
  BY <1>1
<1> QED
  BY <1>3, <1>4, <1>5, <1>6 DEF WellSigned, v

LEMMA CurrentIsKeyList ==
    ASSUME published \in DOMAIN Registries
    PROVE  IsKeyList(Current.entries) /\ Current.version \in Int
BY StatementsAssumption, TimesAssumption DEF Current, IsKeyList

\* Where the producer found the verdict of each component.
LEMMA TakenOfEach ==
    ASSUME TypeInv, pc \in {"sign", "hash", "seal", "validate", "released", "judged"},
           NEW k \in DOMAIN ComponentOrder
    PROVE  /\ TakenFrom(ComponentOrder[k]) \in DOMAIN taken
           /\ taken[TakenFrom(ComponentOrder[k])].verdict.id = ComponentOrder[k]
<1>1. {taken[i].verdict.id : i \in DOMAIN taken} = Components
  BY TypesHold DEF TypeOK
<1>2. ComponentOrder[k] \in Components
  BY DEF Components, Range
<1>3. \E i \in DOMAIN taken : taken[i].verdict.id = ComponentOrder[k]
  BY <1>1, <1>2
<1> QED
  BY <1>3 DEF TakenFrom

\* What the signers of the components vouch for does not change with the
\* Orchestrator's signatures.
LEMMA VerdictsStayPassed ==
    ASSUME UNCHANGED <<issued, order, trust>>, NEW v, v.id # Orchestrator, Passed(v)
    PROVE  Passed(v)'
<1>1. \A e : Verifies(v.id, e)' <=> Verifies(v.id, e)
  BY DEF Verifies
<1>2. VerifiedAt(v.id, v.bundle)' = VerifiedAt(v.id, v.bundle)
  BY <1>1 DEF VerifiedAt
<1> QED
  BY <1>2 DEF Passed

LEMMA FaithfulStays ==
    ASSUME TypeInv, UNCHANGED <<issued, order, trust, offers>>, NEW i \in DOMAIN offers,
           taken'[i] = taken[i], Faithful(i)
    PROVE  Faithful(i)'
<1>1. PICK v : v = offers[i]
  OBVIOUS
<1>2. v.id # Orchestrator
  BY <1>1, ArtifactAssumption DEF TypeInv, Named
<1>3. Passed(v)
  BY <1>1 DEF Faithful
<1>4. Passed(v)'
  BY <1>2, <1>3, VerdictsStayPassed
<1>5. offers'[i] = v
  BY <1>1
<1>6. Passed(offers[i])'
  BY <1>4, <1>5 DEF Passed
<1> QED
  BY <1>5, <1>1, <1>6 DEF Faithful, SummaryOf

LEMMA HeldStays ==
    ASSUME UNCHANGED <<receipt, taken, offers>>
    PROVE  HeldReceipt' = HeldReceipt
BY DEF HeldReceipt, HeldComponents, Held, TakenFrom

LEMMA WorkStays ==
    ASSUME UNCHANGED <<order, taken, offers>>, NEW r, ReceiptWork(r), NEW r2,
           r2.json = r.json, r2.bytes = r.bytes
    PROVE  ReceiptWork(r2)'
<1>1. HeldComponents' = HeldComponents
  BY DEF HeldComponents, Held, TakenFrom
<1> QED
  BY <1>1 DEF ReceiptWork

LEMMA SummariesStay ==
    ASSUME UNCHANGED taken
    PROVE  Summaries' = Summaries
BY DEF Summaries, TakenFrom

LEMMA TakenAreOffered ==
    ASSUME TypeInv, TrustInv, pc # "failed"
    PROVE  DOMAIN taken \subseteq DOMAIN offers
<1>1. CASE pc = "idle"
  <2>1. taken = <<>>
    BY <1>1 DEF TypeInv, Collected
  <2> QED
    BY <2>1
<1>2. CASE pc # "idle"
  <2>1. DOMAIN offers = 1..Len(ComponentOrder)
    BY <1>2, OrderDomain DEF TrustInv
  <2>2. DOMAIN taken = 1..Len(taken) /\ Len(taken) \in Nat
    BY ListDomain DEF TypeInv, Collected
  <2>3. Len(taken) < Len(ComponentOrder) \/ Len(taken) = Len(ComponentOrder)
    <3>1. \/ pc \in {"verify", "copy"}
          \/ pc \in {"build", "sign", "hash", "seal", "validate", "released", "judged"}
      BY <1>2 DEF TypeInv, Phases
    <3> QED
      BY <3>1 DEF TypeInv, Collected
  <2> DEFINE m == Len(taken)
             n == Len(ComponentOrder)
  <2>4. m \in Nat /\ n \in Nat
    BY <2>2, OrderDomain
  <2>5. m < n \/ m = n
    BY <2>3
  <2>6. DOMAIN taken = 1..m /\ DOMAIN offers = 1..n
    BY <2>1, <2>2
  <2> HIDE DEF m, n
  <2> QED
    BY <2>4, <2>5, <2>6
<1> QED
  BY <1>1, <1>2

LEMMA NextOffer ==
    ASSUME TypeInv, pc \in {"verify", "copy"}
    PROVE  /\ Len(taken) \in Nat
           /\ Len(taken) + 1 \in DOMAIN offers
<1>1. /\ Len(taken) \in Nat /\ Len(taken) < Len(ComponentOrder)
      /\ DOMAIN offers = 1..Len(ComponentOrder)
  BY ListDomain, OrderDomain DEF TypeInv, Collected
<1> QED
  BY <1>1, OrderDomain

LEMMA OffersStay ==
    ASSUME TypeInv, TrustInv, OffersInv,
           UNCHANGED <<issued, order, trust, offers, changes, taken>>,
           pc = "failed" => pc' = "failed",
           pc' # "copy" \/ UNCHANGED <<pc, summary>>
    PROVE  OffersInv'
<1> SUFFICES ASSUME changes = 0
             PROVE  OffersInv'
  BY DEF OffersInv
<1>1. \A i \in DOMAIN offers : offers[i] \in issued
  BY DEF OffersInv
<1>2. ASSUME pc' # "failed", NEW i \in DOMAIN taken
      PROVE  Faithful(i)'
  <2>1. i \in DOMAIN offers
    BY <1>2, TakenAreOffered
  <2> QED
    BY <1>2, <2>1, FaithfulStays DEF OffersInv
<1>3. CASE pc' = "copy"
  <2>1. PICK v : v = offers[Len(taken) + 1]
    OBVIOUS
  <2>2. pc = "copy" /\ summary' = summary /\ summary = SummaryOf(v) /\ Passed(v)
    BY <1>3, <2>1 DEF OffersInv
  <2>3. v.id # Orchestrator
    BY <2>1, <2>2, NextOffer, ArtifactAssumption DEF TypeInv, Named
  <2>4. Passed(v)'
    BY <2>2, <2>3, VerdictsStayPassed
  <2>5. offers'[Len(taken') + 1] = v
    BY <2>1
  <2> HIDE DEF SummaryOf
  <2>6. (LET w == offers[Len(taken) + 1] IN summary = SummaryOf(w) /\ Passed(w))'
    BY <2>2, <2>4, <2>5 DEF Passed, SummaryOf, VerifiedAt, Verifies
  <2> QED
    BY <1>1, <1>2, <2>6 DEF OffersInv
<1>4. CASE pc' # "copy"
  BY <1>1, <1>2, <1>4 DEF OffersInv
<1> QED
  BY <1>3, <1>4

LEMMA ReceiptStays ==
    ASSUME ReceiptInv,
           UNCHANGED <<issued, sealed, order, trust, offers, changes, taken, receipt>>,
           pc' = pc \/ (pc = "released" /\ pc' = "judged")
    PROVE  ReceiptInv'
<1>1. HeldReceipt' = HeldReceipt /\ Summaries' = Summaries
  BY HeldStays, SummariesStay
<1>2. VerifiedAt(Orchestrator, receipt.bundle)' = VerifiedAt(Orchestrator, receipt.bundle)
  BY DEF VerifiedAt, Verifies
<1>3. ReceiptWork(receipt) => ReceiptWork(receipt)'
  BY WorkStays DEF ReceiptWork
<1> QED
  BY <1>1, <1>2, <1>3 DEF ReceiptInv

LEMMA TrustStays ==
    ASSUME TrustInv, trust' = trust, DOMAIN offers' = DOMAIN offers, pc # "idle" \/ pc' = "idle",
           pc = "failed" => pc' = "failed"
    PROVE  TrustInv'
BY DEF TrustInv

LEMMA QuietStepsKeep ==
    ASSUME HonestInv, Tick \/ Publish \/ UNCHANGED vars
    PROVE  Undisturbed'
<1>1. UNCHANGED <<issued, sealed, offers, changes, pc, order, trust, taken, summary, receipt,
                  judged>>
  BY DEF Tick, Publish, vars, given
<1>2. TrustInv' /\ OffersInv' /\ ReceiptInv'
  BY <1>1, TrustStays, OffersStay, ReceiptStays DEF HonestInv, Undisturbed
<1>3. HeldReceipt' = HeldReceipt
  BY <1>1, HeldStays
<1>4. ReleasedIsAccepted'
  BY <1>1, <1>3 DEF HonestInv, Undisturbed, ReleasedIsAccepted, Presentable, Windows
<1> QED
  BY <1>1, <1>2, <1>4 DEF HonestInv, Undisturbed

LEMMA IssueKeeps ==
    ASSUME HonestInv, NEW s \in Statements, Issue(s)
    PROVE  Undisturbed'
<1>1. /\ issued' = issued \cup {SignedVerdict(s)}
      /\ UNCHANGED <<offers, changes, pc, taken>> /\ pc = "idle"
  BY DEF Issue
<1>2. \A v \in issued' : WellSigned(v)
  BY <1>1, SignedIsWellSigned DEF HonestInv, Undisturbed
<1>3. taken = <<>>
  BY <1>1 DEF HonestInv, TypeInv, Collected
<1>4. OffersInv'
  BY <1>1, <1>3 DEF HonestInv, Undisturbed, OffersInv
<1> QED
  BY <1>1, <1>2, <1>4 DEF Undisturbed, TrustInv, ReceiptInv, ReleasedIsAccepted

LEMMA CallKeeps ==
    ASSUME HonestInv, NEW list \in Lists(issued), NEW o \in Orders, Call(list, o)
    PROVE  Undisturbed'
<1>1. /\ offers' = list /\ trust' = [registry |-> Current, time |-> now]
      /\ UNCHANGED <<issued, changes, taken>> /\ pc = "idle"
      /\ \/ pc' = "failed"
         \/ /\ pc' = "verify" /\ RegistryError(Current) = NoError
            /\ Len(list) = Len(ComponentOrder)
  BY DEF Call, world
<1>2. PICK n \in 1..Len(ComponentOrder) : list \in [1..n -> issued]
  BY DEF Lists
<1>3. n \in Nat /\ Len(list) = n /\ DOMAIN list = 1..n
  BY <1>2, OrderDomain
<1>4. IsKeyList(Current.entries) /\ Current.version \in Int
  BY CurrentIsKeyList DEF HonestInv, TypeInv
<1>5. TrustInv'
  BY <1>1, <1>3, <1>4, OrderDomain DEF TrustInv
<1>6. taken = <<>>
  BY <1>1 DEF HonestInv, TypeInv, Collected
<1>7. OffersInv'
  BY <1>1, <1>2, <1>6 DEF OffersInv
<1> QED
  BY <1>1, <1>5, <1>7 DEF HonestInv, Undisturbed, ReceiptInv, ReleasedIsAccepted

LEMMA CheckKeeps ==
    ASSUME HonestInv, CheckVerdict
    PROVE  Undisturbed'
<1>1. /\ UNCHANGED <<issued, order, trust, offers, changes, taken>>
      /\ pc = "verify" /\ pc' \in {"copy", "failed"}
  BY DEF CheckVerdict, world, given
<1>2. TrustInv'
  BY <1>1, TrustStays DEF HonestInv, Undisturbed
<1>3. CASE pc' = "failed"
  <2>1. OffersInv'
    BY <1>1, <1>3, OffersStay DEF HonestInv, Undisturbed
  <2> QED
    BY <1>1, <1>2, <1>3, <2>1 DEF HonestInv, Undisturbed, ReceiptInv, ReleasedIsAccepted
<1>4. CASE pc' = "copy"
  <2>1. PICK v : v = offers[Len(taken) + 1]
    OBVIOUS
  <2>2. Passed(v) /\ summary' = SummaryOf(v)
    BY <1>1, <1>4, <2>1 DEF CheckVerdict, Passed, SummaryOf
  <2>3. v.id # Orchestrator
    BY <1>1, <2>1, NextOffer, ArtifactAssumption DEF HonestInv, TypeInv, Named
  <2>4. Passed(v)'
    BY <1>1, <2>2, <2>3, VerdictsStayPassed
  <2>5. offers'[Len(taken') + 1] = v
    BY <1>1, <2>1
  <2>6. (LET w == offers[Len(taken) + 1] IN summary = SummaryOf(w) /\ Passed(w))'
    BY <2>2, <2>4, <2>5 DEF Passed, SummaryOf, VerifiedAt, Verifies
  <2>7. ASSUME changes = 0, NEW i \in DOMAIN taken
        PROVE  Faithful(i)'
    <3>1. i \in DOMAIN offers
      BY <1>1, TakenAreOffered DEF HonestInv, Undisturbed
    <3> QED
      BY <1>1, <2>7, <3>1, FaithfulStays DEF HonestInv, Undisturbed, OffersInv
  <2>8. changes = 0 => \A i \in DOMAIN offers : offers[i] \in issued
    BY DEF HonestInv, Undisturbed, OffersInv
  <2>9. OffersInv'
    BY <1>1, <2>6, <2>7, <2>8 DEF OffersInv
  <2> QED
    BY <1>1, <1>2, <1>4, <2>9 DEF HonestInv, Undisturbed, ReceiptInv, ReleasedIsAccepted
<1> QED
  BY <1>1, <1>3, <1>4

LEMMA CopyKeeps ==
    ASSUME HonestInv, CopyVerdict
    PROVE  Undisturbed'
<1> DEFINE n == Len(taken)
           row == [verdict |-> offers[n + 1], summary |-> [summary EXCEPT !.id = offers[n + 1].id]]
<1>1. /\ UNCHANGED <<issued, order, trust, offers, changes>>
      /\ taken' = Append(taken, row)
      /\ pc = "copy" /\ pc' \in {"failed", "build", "verify"}
  BY DEF CopyVerdict, world, given
<1>2. TrustInv'
  BY <1>1, TrustStays DEF HonestInv, Undisturbed
<1>3. CASE pc' = "failed"
  <2>1. OffersInv'
    BY <1>1, <1>3 DEF HonestInv, Undisturbed, OffersInv
  <2> QED
    BY <1>1, <1>2, <1>3, <2>1 DEF HonestInv, Undisturbed, ReceiptInv, ReleasedIsAccepted
<1>4. CASE pc' # "failed"
  <2>1. PICK v : v = offers[n + 1]
    OBVIOUS
  <2>2. IsList(taken) /\ n \in Nat /\ n + 1 \in DOMAIN offers
    BY <1>1, NextOffer DEF HonestInv, TypeInv, Collected
  <2>3. v.id # Orchestrator
    BY <2>1, <2>2, ArtifactAssumption DEF HonestInv, TypeInv, Named
  <2>4. DOMAIN taken = 1..n
    BY <2>2, ListDomain
  <2>5. row.verdict = v
    BY <2>1
  <2>6. changes = 0 => row.summary = SummaryOf(v) /\ Passed(v)
    <3> SUFFICES ASSUME changes = 0
                 PROVE  row.summary = SummaryOf(v) /\ Passed(v)
      OBVIOUS
    <3>1. summary = SummaryOf(v) /\ Passed(v)
      BY <1>1, <2>1 DEF HonestInv, Undisturbed, OffersInv
    <3>2. row.summary = [summary EXCEPT !.id = v.id]
      BY <2>1
    <3>3. [SummaryOf(v) EXCEPT !.id = v.id] = SummaryOf(v)
      BY DEF SummaryOf
    <3> QED
      BY <3>1, <3>2, <3>3
  <2> HIDE DEF row
  <2>7. /\ DOMAIN taken' = 1..(n + 1)
        /\ \A i \in 1..n : taken'[i] = taken[i]
        /\ taken'[n + 1] = row
    BY <1>1, <2>2, OneLonger
  <2>8. ASSUME changes = 0, NEW i \in 1..n
        PROVE  Faithful(i)'
    <3>1. i \in DOMAIN offers
      BY <1>1, <2>4, TakenAreOffered DEF HonestInv, Undisturbed
    <3>2. Faithful(i)
      BY <1>1, <2>4, <2>8 DEF HonestInv, Undisturbed, OffersInv
    <3> QED
      BY <1>1, <2>7, <3>1, <3>2, FaithfulStays DEF HonestInv
  <2>9. ASSUME changes = 0, NEW i, i = n + 1
        PROVE  Faithful(i)'
    <3>1. Passed(v)'
      BY <1>1, <2>3, <2>6, <2>9, VerdictsStayPassed
    <3>2. offers'[i] = v /\ taken'[i] = row
      BY <1>1, <2>1, <2>7, <2>9
    <3>3. Passed(offers[i])'
      BY <3>1, <3>2 DEF Passed, VerifiedAt, Verifies
    <3> QED
      BY <2>5, <2>6, <2>9, <3>2, <3>3 DEF Faithful, SummaryOf
  <2>10. \A i \in DOMAIN taken' : i \in 1..n \/ i = n + 1
    BY <2>2, <2>7
  <2>11. changes = 0 => \A i \in DOMAIN offers : offers[i] \in issued
    BY DEF HonestInv, Undisturbed, OffersInv
  <2>12. OffersInv'
    BY <1>1, <2>8, <2>9, <2>10, <2>11 DEF OffersInv
  <2> QED
    BY <1>1, <1>2, <2>12 DEF HonestInv, Undisturbed, ReceiptInv, ReleasedIsAccepted
<1> QED
  BY <1>3, <1>4

LEMMA BuildKeeps ==
    ASSUME HonestInv, Build
    PROVE  Undisturbed'
<1>1. /\ UNCHANGED <<issued, order, trust, offers, changes, taken>>
      /\ pc = "build" /\ pc' \in {"sign", "failed"}
      /\ pc' = "sign" => receipt' = UnsignedReceipt
  BY DEF Build, world, given
<1>2. TrustInv' /\ OffersInv'
  BY <1>1, TrustStays, OffersStay DEF HonestInv, Undisturbed
<1>3. Summaries' = Summaries
  BY <1>1, SummariesStay
<1>4. ASSUME pc' = "sign"
      PROVE  /\ {"json", "bytes", "window", "components", "results", "bundle", "context"}
                    \subseteq DOMAIN receipt'
             /\ receipt'.window = order.window
             /\ receipt'.results = Summaries
             /\ ReceiptWork(receipt)'
  <2>1. ReceiptWork(UnsignedReceipt)
    BY DEF ReceiptWork, UnsignedReceipt
  <2>2. ReceiptWork(receipt)'
    BY <1>1, <1>4, <2>1, WorkStays
  <2> QED
    BY <1>1, <1>4, <2>2 DEF UnsignedReceipt
<1>5. ReceiptInv'
  BY <1>1, <1>3, <1>4 DEF ReceiptInv
<1> QED
  BY <1>1, <1>2, <1>5 DEF HonestInv, Undisturbed, ReleasedIsAccepted

LEMMA SignKeeps ==
    ASSUME HonestInv, Sign
    PROVE  Undisturbed'
<1> DEFINE bundle == SignatureBundleOf(Orchestrator, order.algorithms, "exact",
                                       SignedHash(HeldReceipt), ORCHESTRATOR_RECEIPT_DOMAIN)
<1>1. /\ UNCHANGED <<issued, order, trust, offers, changes, taken>>
      /\ receipt' = [receipt EXCEPT !.bundle = bundle]
      /\ pc = "sign" /\ pc' = "hash"
  BY DEF Sign, world, given
<1>2. TrustInv' /\ OffersInv'
  BY <1>1, TrustStays, OffersStay DEF HonestInv, Undisturbed
<1>3. Summaries' = Summaries
  BY <1>1, SummariesStay
<1>4. Clean(bundle)
  BY BuiltBundleIsClean
<1> HIDE DEF bundle
<1>5. ReceiptWork(receipt) => ReceiptWork(receipt)'
  <2>1. receipt'.json = receipt.json /\ receipt'.bytes = receipt.bytes
    BY <1>1 DEF HonestInv, Undisturbed, ReceiptInv
  <2> QED
    BY <1>1, <2>1, WorkStays
<1>6. ReceiptInv'
  BY <1>1, <1>3, <1>4, <1>5 DEF HonestInv, Undisturbed, ReceiptInv
<1> QED
  BY <1>1, <1>2, <1>6 DEF HonestInv, Undisturbed, ReleasedIsAccepted

LEMMA SealKeeps ==
    ASSUME HonestInv, HashReceipt \/ SealEnvelope
    PROVE  Undisturbed'
<1> DEFINE h == ReceiptHash(HeldReceipt)
           g == SignedHash(HeldReceipt)
<1>1. /\ UNCHANGED <<issued, order, trust, offers, changes, taken>>
      /\ \/ receipt' = [receipt EXCEPT !.receiptHash = h]
         \/ receipt' = [receipt EXCEPT !.signedHash = g]
      /\ pc \in {"hash", "seal"} /\ pc' \in {"seal", "validate"}
  BY DEF HashReceipt, SealEnvelope, world, given
<1>2. TrustInv' /\ OffersInv'
  BY <1>1, TrustStays, OffersStay DEF HonestInv, Undisturbed
<1>3. Summaries' = Summaries
  BY <1>1, SummariesStay
<1> HIDE DEF h, g
<1>4. /\ DOMAIN receipt' = DOMAIN receipt
      /\ \A field \in {"json", "bytes", "window", "components", "results", "bundle", "context"} :
             receipt'[field] = receipt[field]
  BY <1>1 DEF HonestInv, Undisturbed, ReceiptInv
<1>5. ReceiptWork(receipt) => ReceiptWork(receipt)'
  BY <1>1, <1>4, WorkStays
<1>6. ReceiptInv'
  BY <1>1, <1>3, <1>4, <1>5 DEF HonestInv, Undisturbed, ReceiptInv
<1> QED
  BY <1>1, <1>2, <1>6 DEF HonestInv, Undisturbed, ReleasedIsAccepted

LEMMA ValidateKeeps ==
    ASSUME HonestInv, Validate
    PROVE  Undisturbed'
<1>1. /\ UNCHANGED <<issued, sealed, order, trust, offers, changes, taken, receipt>>
      /\ pc = "validate" /\ pc' \in {"released", "failed"}
      /\ pc' = "released" =>
             ReceiptEnvelopeError(HeldReceipt, order.context, trust,
                                  VerifiedAt(Orchestrator, receipt.bundle)) = NoError
  BY DEF Validate, world, given
<1>2. TrustInv' /\ OffersInv'
  BY <1>1, TrustStays, OffersStay DEF HonestInv, Undisturbed
<1>3. HeldReceipt' = HeldReceipt /\ Summaries' = Summaries
  BY <1>1, HeldStays, SummariesStay
<1>4. VerifiedAt(Orchestrator, receipt.bundle)' = VerifiedAt(Orchestrator, receipt.bundle)
  BY <1>1 DEF VerifiedAt, Verifies
<1>5. ReceiptWork(receipt) => ReceiptWork(receipt)'
  BY <1>1, WorkStays DEF ReceiptWork
<1>6. ReceiptInv'
  BY <1>1, <1>3, <1>4, <1>5 DEF HonestInv, Undisturbed, ReceiptInv
<1> QED
  BY <1>1, <1>2, <1>6 DEF HonestInv, Undisturbed, ReleasedIsAccepted

LEMMA ChangeKeeps ==
    ASSUME HonestInv, NEW i \in DOMAIN offers, Change(i)
    PROVE  Undisturbed'
<1>1. /\ UNCHANGED <<issued, order, trust, pc, taken, receipt>>
      /\ DOMAIN offers' = DOMAIN offers
      /\ pc \notin {"idle", "failed", "judged"}
  BY DEF Change, Ended, world, given
<1>2. changes' # 0
  BY DEF Change, Ended, HonestInv, TypeInv
<1>3. TrustInv'
  BY <1>1, TrustStays DEF HonestInv, Undisturbed
<1>4. Summaries' = Summaries
  BY <1>1, SummariesStay
<1> QED
  BY <1>1, <1>2, <1>3, <1>4
  DEF HonestInv, Undisturbed, OffersInv, ReceiptInv, ReleasedIsAccepted

\* What was released is read as it was validated.
LEMMA HeldIsOffered ==
    ASSUME HonestInv, pc = "released", changes = 0, NEW k \in DOMAIN ComponentOrder
    PROVE  \E i \in DOMAIN taken :
               /\ HeldComponents[k] = offers[i] /\ i \in DOMAIN offers
               /\ offers[i].id = ComponentOrder[k]
               /\ Summaries[k] = SummaryOf(offers[i])
               /\ WellSigned(offers[i]) /\ Passed(offers[i])
<1> DEFINE i == TakenFrom(ComponentOrder[k])
<1>1. i \in DOMAIN taken /\ taken[i].verdict.id = ComponentOrder[k]
  BY TakenOfEach DEF HonestInv
<1>2. HeldComponents[k] = Held(i) /\ Summaries[k] = taken[i].summary
  BY DEF HeldComponents, Summaries
<1>3. i \in DOMAIN offers
  BY <1>1, TakenAreOffered DEF HonestInv, Undisturbed
<1> HIDE DEF i
<1>4. Faithful(i) /\ WellSigned(offers[i])
  BY <1>1, <1>3 DEF HonestInv, Undisturbed, OffersInv
<1>5. Held(i) = offers[i]
  BY <1>4 DEF Held, Faithful, WellSigned
<1> QED
  BY <1>1, <1>2, <1>3, <1>4, <1>5 DEF Faithful

\* Each profile of the components' bundles is written as it is named.
ExactProfiles(r) ==
    \A i \in DOMAIN r.components :
        \A e \in Range(r.components[i].bundle.signatures) : e.profile = "exact"

\* The summaries say what the boundary expects of profiles written exactly, and
\* nothing else.
LEMMA HeldResults ==
    ASSUME HonestInv, pc = "released", changes = 0, NEW r, r.components = HeldComponents
    PROVE  Summaries = ExpectedResults(r) <=> ExactProfiles(r)
<1>1. DOMAIN HeldComponents = DOMAIN ComponentOrder
  BY DEF HeldComponents
<1>2. ASSUME NEW k \in DOMAIN ComponentOrder
      PROVE  Component(r, ComponentOrder[k]) = HeldComponents[k]
  <2>1. \A j \in DOMAIN ComponentOrder : HeldComponents[j].id = ComponentOrder[j]
    BY HeldIsOffered
  <2>2. \A j \in DOMAIN HeldComponents : HeldComponents[j].id = ComponentOrder[k] => j = k
    BY <1>1, <2>1, ArtifactAssumption DEF IsInjective
  <2>3. k \in DOMAIN HeldComponents /\ HeldComponents[k].id = ComponentOrder[k]
    BY <1>1, <2>1
  <2>4. (CHOOSE j \in DOMAIN HeldComponents : HeldComponents[j].id = ComponentOrder[k]) = k
    BY <2>2, <2>3
  <2> QED
    BY <2>4 DEF Component
<1> DEFINE row(k) ==
               LET s == Component(r, ComponentOrder[k]).bundle.signatures IN
               [id |-> ComponentOrder[k],
                algorithms |-> [i \in DOMAIN s |-> s[i].algorithm],
                profiles |-> [i \in DOMAIN s |-> s[i].profile]]
           exact(k) == \A e \in Range(HeldComponents[k].bundle.signatures) : e.profile = "exact"
<1>3. ASSUME NEW k \in DOMAIN ComponentOrder
      PROVE  Summaries[k] = row(k) <=> exact(k)
  <2>1. PICK i \in DOMAIN taken :
            /\ HeldComponents[k] = offers[i] /\ offers[i].id = ComponentOrder[k]
            /\ Summaries[k] = SummaryOf(offers[i])
    BY HeldIsOffered
  <2> DEFINE s == offers[i].bundle.signatures
             told == [j \in DOMAIN s |-> "exact"]
             held == [j \in DOMAIN s |-> s[j].profile]
             algorithms == [j \in DOMAIN s |-> s[j].algorithm]
  <2>2. /\ Summaries[k] = [id |-> ComponentOrder[k], algorithms |-> algorithms,
                           profiles |-> told]
        /\ row(k) = [id |-> ComponentOrder[k], algorithms |-> algorithms, profiles |-> held]
    BY <1>2, <2>1 DEF SummaryOf
  <2>3. told = held <=> \A j \in DOMAIN s : s[j].profile = "exact"
    <3>1. ASSUME told = held, NEW j \in DOMAIN s PROVE s[j].profile = "exact"
      <4>1. told[j] = "exact" /\ held[j] = s[j].profile
        OBVIOUS
      <4> QED
        BY <3>1, <4>1
    <3>2. (\A j \in DOMAIN s : s[j].profile = "exact") => told = held
      OBVIOUS
    <3> QED
      BY <3>1, <3>2
  <2>4. exact(k) <=> \A j \in DOMAIN s : s[j].profile = "exact"
    BY <2>1 DEF Range
  <2>5. Summaries[k] = row(k) <=> told = held
    <3> HIDE DEF row, told, held, algorithms
    <3> QED
      BY <2>2
  <2> QED
    BY <2>3, <2>4, <2>5
<1>4. DOMAIN Summaries = DOMAIN ComponentOrder
      /\ Summaries = [k \in DOMAIN ComponentOrder |-> Summaries[k]]
  BY DEF Summaries
<1>5. ExpectedResults(r) = [k \in DOMAIN ComponentOrder |-> row(k)]
  BY DEF ExpectedResults
<1>6. ExactProfiles(r) <=> \A k \in DOMAIN ComponentOrder : exact(k)
  BY <1>1 DEF ExactProfiles
<1>7. Summaries = ExpectedResults(r) <=> \A k \in DOMAIN ComponentOrder : Summaries[k] = row(k)
  <2> HIDE DEF row
  <2> QED
    BY <1>4, <1>5
<1> HIDE DEF row, exact
<1> QED
  BY <1>3, <1>6, <1>7

\* The receipt as it is held: what it took over from its making.
LEMMA HeldFields ==
    ASSUME HonestInv, pc = "released", changes = 0
    PROVE  /\ HeldReceipt.components = HeldComponents
           /\ HeldReceipt.json = JsonOf(order, HeldComponents)
           /\ HeldReceipt.bytes = IF Bytes(order, HeldComponents) =< MaxReceiptBytes
                                  THEN "within" ELSE "over"
           /\ HeldReceipt.window = order.window
           /\ HeldReceipt.results = Summaries
           /\ HeldReceipt.bundle = receipt.bundle /\ Clean(receipt.bundle)
           /\ ReceiptEnvelopeError(HeldReceipt, order.context, trust,
                                   VerifiedAt(Orchestrator, receipt.bundle)) = NoError
<1>1. /\ {"json", "bytes", "window", "components", "results", "bundle", "context"}
             \subseteq DOMAIN receipt
      /\ receipt.window = order.window /\ receipt.results = Summaries
      /\ ReceiptWork(receipt) /\ Clean(receipt.bundle)
      /\ ReceiptEnvelopeError(HeldReceipt, order.context, trust,
                              VerifiedAt(Orchestrator, receipt.bundle)) = NoError
  BY DEF HonestInv, Undisturbed, ReceiptInv
<1>2. /\ HeldReceipt.components = HeldComponents
      /\ HeldReceipt.json = receipt.json /\ HeldReceipt.bytes = receipt.bytes
      /\ HeldReceipt.window = receipt.window /\ HeldReceipt.results = receipt.results
      /\ HeldReceipt.bundle = receipt.bundle
  BY <1>1 DEF HeldReceipt
<1> QED
  BY <1>1, <1>2 DEF ReceiptWork

LEMMA ReleasedIsValidated ==
    ASSUME HonestInv, pc = "released", changes = 0, NEW r, r = HeldReceipt, Listed(r),
           NEW a, Presentable(r, a)
    PROVE  Validated(r, order.context, trust)
<1>1. /\ r.components = HeldComponents
      /\ r.window = order.window /\ r.results = Summaries
      /\ Clean(r.bundle)
      /\ ReceiptEnvelopeError(r, order.context, trust,
                              VerifiedAt(Orchestrator, receipt.bundle)) = NoError
  BY HeldFields
<1>2. /\ r.json = "bounded" /\ r.bytes = "within"
      /\ \A k \in DOMAIN r.components : r.components[k].form # "padded"
  BY HeldFields DEF Presentable
<1>3. IsWindow(order.window)
  BY TimesAssumption DEF HonestInv, KeysInv, Kept
<1>4. r.results = ExpectedResults(r)
  <2>1. ExactProfiles(r)
    BY DEF Presentable, ExactProfiles
  <2> QED
    BY <1>1, <2>1, HeldResults
<1>5. ASSUME NEW k \in DOMAIN r.components
      PROVE  /\ IsWindow(r.components[k].window)
             /\ Clean(r.components[k].bundle)
             /\ Passed(r.components[k])
  <2>1. k \in DOMAIN ComponentOrder /\ r.components[k] = HeldComponents[k]
    BY <1>1 DEF HeldComponents
  <2> QED
    BY <2>1, HeldIsOffered DEF WellSigned
<1>6. \A k \in DOMAIN r.components : LET c == r.components[k] IN
          /\ c.form # "padded"
          /\ \A i \in DOMAIN c.bundle.signatures : c.bundle.signatures[i].signature # "blank"
          /\ \E accepted : ComponentEnvelopeError(c, order.context, trust, accepted) = NoError
  BY <1>2, <1>5 DEF Clean, Passed
<1> QED
  BY <1>1, <1>2, <1>3, <1>4, <1>5, <1>6 DEF Validated, Clean

LEMMA ReleasedIsSigned ==
    ASSUME HonestInv, pc = "released", changes = 0, NEW r, r = HeldReceipt, Listed(r)
    PROVE  /\ \A k \in DOMAIN r.components : LET c == r.components[k] IN
                  VerifiedAt(c.id, c.bundle) = DOMAIN c.bundle.signatures
           /\ VerifiedAt(Orchestrator, r.bundle) = DOMAIN r.bundle.signatures
<1>0. IsList(trust.registry.entries)
  BY DEF HonestInv, KeysInv, Kept
<1>1. /\ r.components = HeldComponents /\ r.bundle = receipt.bundle
      /\ ReceiptEnvelopeError(r, order.context, trust,
                              VerifiedAt(Orchestrator, receipt.bundle)) = NoError
  BY DEF HonestInv, Undisturbed, ReceiptInv, HeldReceipt
<1>2. VerifiedAt(Orchestrator, r.bundle) = DOMAIN r.bundle.signatures
  <2> DEFINE accepted == VerifiedAt(Orchestrator, r.bundle)
  <2>1. ReceiptEnvelopeError(r, order.context, trust, accepted) = NoError
    BY <1>1
  <2>2. accepted \subseteq DOMAIN r.bundle.signatures
    BY DEF VerifiedAt
  <2> HIDE DEF accepted
  <2>3. ReceiptVerified(r, order.context, trust, accepted)
    BY <1>0, <2>1, VerifiedReceipt DEF Listed
  <2>4. DOMAIN r.bundle.signatures \subseteq accepted
    BY <2>3 DEF ReceiptVerified, BundleVerified
  <2> QED
    BY <2>2, <2>4 DEF accepted
<1>3. ASSUME NEW k \in DOMAIN r.components
      PROVE  LET c == r.components[k] IN
             VerifiedAt(c.id, c.bundle) = DOMAIN c.bundle.signatures
  <2>1. PICK c : c = r.components[k]
    OBVIOUS
  <2> DEFINE accepted == VerifiedAt(c.id, c.bundle)
  <2>2. ComponentEnvelopeError(c, order.context, trust, accepted) = NoError
    <3>1. k \in DOMAIN ComponentOrder /\ c = HeldComponents[k]
      BY <1>1, <2>1 DEF HeldComponents
    <3> QED
      BY <3>1, HeldIsOffered DEF Passed
  <2>3. accepted \subseteq DOMAIN c.bundle.signatures
    BY DEF VerifiedAt
  <2>4. IsList(c.bundle.signatures)
    BY <2>1 DEF Listed
  <2> HIDE DEF accepted
  <2>5. ComponentVerified(c, order.context, trust, accepted)
    BY <1>0, <2>2, <2>4, VerifiedComponent
  <2>6. DOMAIN c.bundle.signatures \subseteq accepted
    BY <2>5 DEF ComponentVerified, BundleVerified
  <2> QED
    BY <2>1, <2>3, <2>6 DEF accepted
<1> QED
  BY <1>2, <1>3

LEMMA ReleasedPasses ==
    ASSUME HonestInv, pc = "released", changes = 0, NEW r, r = HeldReceipt, Listed(r),
           NEW a, a.registry = trust.registry, a.minimum = a.registry.version,
           a.request = r.request, a.context = r.context, a.time \in Int,
           Presentable(r, a)
    PROVE  Accepts(r, a)
<1>1. Validated(r, order.context, trust)
  BY ReleasedIsValidated
<1>2. r.context = order.context
  <2>1. PICK accepted : ReceiptEnvelopeError(r, order.context, trust, accepted) = NoError
    BY <1>1 DEF Validated
  <2> QED
    BY <2>1, ReceiptChecks
<1>3. LoadRegistryError(trust.registry) = NoError
  <2>1. RegistryError(trust.registry) = NoError /\ Len(trust.registry.entries) =< MaxRegistryEntries
    BY DEF HonestInv, Undisturbed, TrustInv, Presentable
  <2>2. Check(trust.registry.entries # <<>>, {"registry"}) = NoError
    BY <2>1, PassedThree DEF RegistryError
  <2>3. Check(Len(trust.registry.entries) =< MaxRegistryEntries, BudgetError) = NoError
    BY <2>1 DEF Check
  <2> QED
    BY <2>1, <2>2, <2>3, AllThree DEF LoadRegistryError
<1>4. Agreeing(a, r, trust)
  <2>1. IsKeyList(trust.registry.entries) /\ trust.registry.version \in Int
    BY DEF HonestInv, Undisturbed, TrustInv
  <2> QED
    BY <1>3, <2>1 DEF Agreeing, Presentable
<1>5. Validated(r, a.context, trust)
  BY <1>1, <1>2
<1>6. /\ SnapshotError(r, a) = NoError
      /\ BindReason(r, a) = "V4_VERIFY_OK"
      /\ PrepareError(r, a) = NoError
      /\ RehearsalError(r, a) = NoError
      /\ RevalidationError(r, a) = NoError
  BY <1>4, <1>5, BoundaryAgrees
<1> QED
  BY <1>6, ReleasedIsSigned DEF Accepts, Approvable

\* What the boundary took of the work budget.
LEMMA SnapshotAsks ==
    ASSUME NEW r, IsList(r.components), NEW a, SnapshotError(r, a) = NoError
    PROVE  /\ r.json = "bounded"
           /\ \A i \in DOMAIN r.components : r.components[i].form # "padded"
           /\ Len(a.registry.entries) =< MaxRegistryEntries
<1> DEFINE item(i) == FirstError(<<
               Check(r.components[i].form # "padded", {}),
               IdError(r.components, i, {}),
               BundleBudgetError(r.components[i].bundle) >>)
           items == [i \in DOMAIN r.components |-> item(i)]
<1>1. /\ Check(r.json = "bounded", BudgetError) = NoError
      /\ BundleBudgetsError(r) = NoError
      /\ LoadRegistryError(a.registry) = NoError
  BY PassedFive DEF SnapshotError
<1>2. FirstError(<<Check(Len(r.components) = Len(ComponentOrder), BudgetError),
                   FirstError(items), BundleBudgetError(r.bundle)>>) = NoError
  BY <1>1 DEF BundleBudgetsError
<1>3. FirstError(items) = NoError
  <2> HIDE DEF items
  <2> QED
    BY <1>2, PassedThree
<1>4. \A i \in DOMAIN r.components : item(i) = NoError
  <2>1. /\ DOMAIN items \subseteq Nat /\ DOMAIN items = DOMAIN r.components
        /\ \A i \in DOMAIN items : items[i] = item(i)
    BY ListDomain
  <2> HIDE DEF items, item
  <2> QED
    BY <1>3, <2>1, PassedChecks
<1>5. \A i \in DOMAIN r.components : Check(r.components[i].form # "padded", {}) = NoError
  BY <1>4, PassedThree
<1>6. Check(Len(a.registry.entries) =< MaxRegistryEntries, BudgetError) = NoError
  BY <1>1, PassedThree DEF LoadRegistryError
<1> QED
  BY <1>1, <1>5, <1>6 DEF Check, NoError, BudgetError

LEMMA PrepareAsks ==
    ASSUME NEW r, NEW a, PrepareError(r, a) = NoError
    PROVE  r.results = ExpectedResults(r) /\ r.bytes = "within"
<1> DEFINE prepared == [i \in DOMAIN r.components |-> PrepareComponentError(r.components[i], a)]
           own == PrepareBundleError(r.bundle, ORCHESTRATOR_RECEIPT_DOMAIN, Orchestrator,
                                     r.window, a)
           hashes == \A i \in DOMAIN r.components :
                         r.components[i].signedHash = ComponentHash(r.components[i])
           results == Check(r.results = ExpectedResults(r), {})
           bytes == Check(r.bytes = "within", BudgetError)
<1>1. FirstError(<<
        HeaderError(r),
        Check(r.version = a.registry.version, {"key", "registry"}),
        FirstError(prepared),
        FreshnessError(r.window, a.time),
        own,
        PlanError(r),
        SemanticsError(r, a.context),
        results,
        bytes,
        Check(r.receiptHash = ReceiptHash(r), {"hash"}),
        Check(r.signedHash = SignedHash(r), {"hash"}),
        Check(hashes, {"hash"}) >>) = NoError
  BY DEF PrepareError
<1>2. results = NoError /\ bytes = NoError
  <2> HIDE DEF prepared, own, hashes, results, bytes
  <2> QED
    BY <1>1, PassedTwelve
<1> QED
  BY <1>2 DEF Check, NoError, BudgetError

LEMMA AcceptedIsPresentable ==
    ASSUME HonestInv, pc = "released", changes = 0, NEW r, r = HeldReceipt, Listed(r),
           NEW a, Accepts(r, a)
    PROVE  Presentable(r, a)
<1>1. SnapshotError(r, a) = NoError /\ PrepareError(r, a) = NoError
  BY DEF Accepts, Approvable
<1>2. /\ r.json = "bounded" /\ r.bytes = "within" /\ r.results = ExpectedResults(r)
      /\ \A i \in DOMAIN r.components : r.components[i].form # "padded"
      /\ Len(a.registry.entries) =< MaxRegistryEntries
  BY <1>1, SnapshotAsks, PrepareAsks DEF Listed
<1>3. JsonOf(order, r.components) = "bounded" /\ Bytes(order, r.components) =< MaxReceiptBytes
  BY <1>2, HeldFields
<1>4. ExactProfiles(r)
  BY <1>2, HeldFields, HeldResults
<1>5. \A w \in Windows(r) : During(a.time, w)
  BY <1>1, PreparedIsFresh DEF Listed, Windows
<1> QED
  BY <1>2, <1>3, <1>4, <1>5 DEF Presentable, ExactProfiles

LEMMA JudgeKeeps ==
    ASSUME HonestInv, NEW o \in Orders, Judge(o)
    PROVE  Undisturbed'
<1>1. /\ UNCHANGED <<issued, sealed, order, trust, offers, changes, taken, receipt>>
      /\ pc = "released" /\ pc' = "judged"
  BY DEF Judge, world, given
<1>2. TrustInv' /\ OffersInv' /\ ReceiptInv'
  BY <1>1, TrustStays, OffersStay, ReceiptStays DEF HonestInv, Undisturbed
<1>3. PICK r, a :
          /\ a = [valid |-> TRUE, request |-> o.request, context |-> o.context,
                  registry |-> Current, minimum |-> Current.version, time |-> now]
          /\ Listed(r) /\ judged' = [receipt |-> r, args |-> a, accepted |-> Accepts(r, a)]
  BY DEF Judge
<1>4. judged'.receipt = r /\ judged'.args = a /\ (judged'.accepted <=> Accepts(r, a))
  BY <1>3
<1>5. a.minimum = a.registry.version /\ a.time \in Int
  BY <1>3, FlowAssumption DEF HonestInv, TypeInv
<1>6. HeldReceipt' = HeldReceipt
  BY <1>1, HeldStays
<1>7. ASSUME changes = 0, r = HeldReceipt, a.registry = trust.registry,
             a.request = r.request, a.context = r.context
      PROVE  judged'.accepted <=> Presentable(r, a)
  <2>1. Presentable(r, a) => Accepts(r, a)
    BY <1>1, <1>3, <1>5, <1>7, ReleasedPasses
  <2>2. Accepts(r, a) => Presentable(r, a)
    BY <1>1, <1>3, <1>7, AcceptedIsPresentable
  <2> QED
    BY <1>4, <2>1, <2>2
<1>8. Presentable(r, a)' <=> Presentable(r, a)
  BY <1>1 DEF Presentable, Windows
<1>9. ReleasedIsAccepted'
  BY <1>1, <1>4, <1>6, <1>7, <1>8 DEF ReleasedIsAccepted, Presentable, Windows
<1> QED
  BY <1>1, <1>2, <1>9 DEF HonestInv, Undisturbed

LEMMA StepsKeepHonest ==
    ASSUME HonestInv, [Next]_vars
    PROVE  HonestInv'
<1>1. TypeInv' /\ KeysInv'
  BY StepsKeepTypes, StepsKeepKeys DEF HonestInv
<1>2. Undisturbed'
  <2>1. CASE Tick \/ Publish \/ UNCHANGED vars
    BY <2>1, QuietStepsKeep
  <2>2. CASE \E s \in Statements : Issue(s)
    BY <2>2, IssueKeeps
  <2>3. CASE \E list \in Lists(issued), o \in Orders : Call(list, o)
    BY <2>3, CallKeeps
  <2>4. CASE CheckVerdict
    BY <2>4, CheckKeeps
  <2>5. CASE CopyVerdict
    BY <2>5, CopyKeeps
  <2>6. CASE Build
    BY <2>6, BuildKeeps
  <2>7. CASE Sign
    BY <2>7, SignKeeps
  <2>8. CASE HashReceipt \/ SealEnvelope
    BY <2>8, SealKeeps
  <2>9. CASE Validate
    BY <2>9, ValidateKeeps
  <2>10. CASE \E i \in DOMAIN offers : Change(i)
    BY <2>10, ChangeKeeps
  <2>11. CASE \E o \in Orders : Judge(o)
    BY <2>11, JudgeKeeps
  <2> QED
    BY <2>1, <2>2, <2>3, <2>4, <2>5, <2>6, <2>7, <2>8, <2>9, <2>10, <2>11 DEF Next, Produce
<1> QED
  BY <1>1, <1>2 DEF HonestInv

LEMMA InitIsHonest == Init => HonestInv
<1> SUFFICES ASSUME Init PROVE HonestInv
  OBVIOUS
<1>1. TypeInv /\ KeysInv
  BY InitTypes, InitHasKeys
<1> QED
  BY <1>1 DEF Init, HonestInv, Undisturbed, TrustInv, OffersInv, ReceiptInv, ReleasedIsAccepted

\* Whatever verdicts are issued, registries published and orders given, and
\* however the clock runs, while nothing the receipt rests on has changed the
\* boundary accepts what the producer released exactly when it is presentable:
\* of all that the two ways the code validates a receipt differ in, only the
\* limits, the spellings and the time can make one refuse what the other let
\* out (v4/orchestrate.py:72-130, v4/verification_audit.py:910-1198).
THEOREM HonestReceiptsAreAccepted == Spec => []ReleasedIsAccepted
<1>1. HonestInv => ReleasedIsAccepted
  BY DEF HonestInv, Undisturbed
<1> QED
  BY <1>1, InitIsHonest, StepsKeepHonest, PTL DEF Spec
=============================================================================
