--------------------------- MODULE AuditFixtures ---------------------------
(***************************************************************************)
(* Receipts, registries and trusted arguments for the model-checked        *)
(* instances of VerificationAudit, made the way the repository's tests     *)
(* make theirs: a genuine receipt, genuine receipts with every policy the  *)
(* code supports, and copies with one thing wrong, sealed again or not.    *)
(***************************************************************************)
EXTENDS V4Receipt, SequencesExt

Ed == "classical-ed25519"
Ml == "ml-dsa"
Fn == "fn-dsa"

\* policy.v1 and the algorithms the work budget calls post-quantum.
PolicyAlgorithms == <<Ed, Ml, Fn>>
PolicyRequired == {Ed, Ml}
PostQuantum == {Ml, Fn}

RequiredOnly == <<Ed, Ml>>
Hybrid == <<Ed, Ml, Fn>>

KeyOf(role, algorithm, version) == <<role, algorithm, version>>

Now == 4
Fresh == [from |-> 2, until |-> 6]
KeyLife == [from |-> 0, until |-> 9]

EntryFor(role, algorithm, hash, domain, version) ==
    [algorithm |-> algorithm, profile |-> "exact", key |-> KeyOf(role, algorithm, version),
     hash |-> hash, domain |-> domain, signature |-> "bytes"]

BundleFor(role, algorithms, hash, domain, version) ==
    [form |-> "ok",
     signatures |-> [i \in DOMAIN algorithms |->
                        EntryFor(role, algorithms[i], hash, domain, version)]]

Unsigned == [form |-> "ok", signatures |-> <<>>]

\* A component's own signing step, over whatever the verdict says.
SealComponent(c, algorithms) ==
    [c EXCEPT !.signedHash = ComponentHash(c),
              !.bundle = BundleFor(c.id, algorithms, ComponentHash(c),
                                   COMPONENT_VERDICT_DOMAIN, c.version)]

VerdictOf(id, version, decision) ==
    [id |-> id, form |-> "ok", request |-> "request", context |-> "context",
     version |-> version, window |-> Fresh, decision |-> decision,
     signedHash |-> <<>>, bundle |-> Unsigned]

Verdicts(version, algorithms) ==
    [i \in DOMAIN ComponentOrder |->
        SealComponent(VerdictOf(ComponentOrder[i], version, "ALLOW"), algorithms)]

\* The rows a receipt reports for the component bundles it carries.
ResultsOf(components) ==
    [i \in DOMAIN components |->
        LET s == components[i].bundle.signatures IN
        [id |-> components[i].id,
         algorithms |-> [k \in DOMAIN s |-> s[k].algorithm],
         profiles |-> [k \in DOMAIN s |-> s[k].profile]]]

\* The Orchestrator's signing step.
Seal(r, algorithms) ==
    [r EXCEPT !.receiptHash = ReceiptHash(r), !.signedHash = SignedHash(r),
              !.bundle = BundleFor(Orchestrator, algorithms, SignedHash(r),
                                   ORCHESTRATOR_RECEIPT_DOMAIN, r.version)]

Draft(components, version) ==
    [json |-> "bounded", fields |-> TRUE, request |-> "request",
     schema |-> "shield.receipt.v2", context |-> "context", policy |-> TRUE,
     header |-> "ok", version |-> version, window |-> Fresh,
     components |-> components, results |-> ResultsOf(components),
     outcome |-> ExpectedFinalOutcome(components), handoff |-> "none",
     bytes |-> "within", receiptHash |-> <<>>, signedHash |-> <<>>, bundle |-> Unsigned]

Genuine(version, algorithms) ==
    Seal(Draft(Verdicts(version, algorithms), version), algorithms)

Base == Genuine(1, RequiredOnly)

\* Base with its component list replaced, reported and sealed again.
WithComponents(components) == Seal(Draft(components, 1), RequiredOnly)
WithFirst(c) == WithComponents([Base.components EXCEPT ![1] = c])
FirstVerdict == Base.components[1]

\* Base with one entry of the receipt's own bundle replaced.
WithEntry(i, e) == [Base EXCEPT !.bundle.signatures[i] = e]
OwnEntry(i) == Base.bundle.signatures[i]

\* The verdicts in another order than the rows that report on them.
Shuffled ==
    Seal([Base EXCEPT !.components = Reverse(Base.components)], RequiredOnly)

GenuineReceipts ==
    {Base, Shuffled, Genuine(1, Hybrid), Genuine(2, RequiredOnly),
     WithFirst(SealComponent(VerdictOf(ComponentOrder[1], 1, "ALLOW"), Hybrid)),
     Seal(Draft([Base.components EXCEPT
                    ![1] = SealComponent(VerdictOf(ComponentOrder[1], 1, "DENY"), RequiredOnly)], 1),
          Hybrid),
     WithFirst(SealComponent(VerdictOf(ComponentOrder[1], 1, "SKIPPED"), RequiredOnly)),
     WithEntry(2, [OwnEntry(2) EXCEPT !.profile = "padded"])}

\* Refused before the identity checks.
Malformed ==
    {[Base EXCEPT !.json = "unbounded"],
     [Base EXCEPT !.fields = FALSE],
     WithComponents(Tail(Base.components)),
     WithComponents([Base.components EXCEPT ![1] = Base.components[2]]),
     WithFirst([FirstVerdict EXCEPT !.id = "intruder"]),
     WithFirst([FirstVerdict EXCEPT !.form = "padded"]),
     [Base EXCEPT !.bundle.signatures = <<OwnEntry(1)>>],
     [Base EXCEPT !.bundle.signatures = <<OwnEntry(1), OwnEntry(2), OwnEntry(1), OwnEntry(2)>>]}

Misbound ==
    {Seal([Base EXCEPT !.request = "other"], RequiredOnly),
     Seal([Base EXCEPT !.schema = "shield.receipt.v1"], RequiredOnly),
     Seal([Base EXCEPT !.schema = "foreign"], RequiredOnly),
     Seal([Base EXCEPT !.context = "other"], RequiredOnly),
     Seal([Base EXCEPT !.policy = FALSE], RequiredOnly)}

Unsound ==
    {Seal([Base EXCEPT !.header = h], RequiredOnly) : h \in {"contract", "profile", "open"}} \cup
    {Seal([Base EXCEPT !.window = w], RequiredOnly) :
        w \in {[from |-> 5, until |-> 6], [from |-> 6, until |-> 2], [from |-> 2, until |-> 11]}} \cup
    {WithFirst(SealComponent([FirstVerdict EXCEPT !.window = w], RequiredOnly)) :
        w \in {[from |-> 1, until |-> 3], [from |-> 2, until |-> 11]}} \cup
    {WithFirst(SealComponent([FirstVerdict EXCEPT !.form = f], RequiredOnly)) :
        f \in {"fields", "authority"}} \cup
    {WithFirst(SealComponent([FirstVerdict EXCEPT !.context = "other"], RequiredOnly)),
     WithFirst(SealComponent([FirstVerdict EXCEPT !.version = 2], RequiredOnly)),
     Seal([Draft([Base.components EXCEPT
              ![1] = SealComponent(VerdictOf(ComponentOrder[1], 1, "ERROR"), RequiredOnly)], 1)
           EXCEPT !.outcome = "ALLOW"], RequiredOnly),
     Seal([Draft([Base.components EXCEPT
              ![1] = SealComponent(VerdictOf(ComponentOrder[1], 1, "ESCALATE"), RequiredOnly)], 1)
           EXCEPT !.handoff = "allowed"], RequiredOnly),
     Seal([Base EXCEPT !.handoff = "forbidden"], RequiredOnly),
     Seal([Base EXCEPT !.results[1].algorithms = Hybrid], RequiredOnly),
     Seal([Base EXCEPT !.results[1].algorithms = <<Ed>>, !.results[1].profiles = <<"exact">>],
          RequiredOnly),
     Seal([Base EXCEPT !.results = Reverse(Base.results)], RequiredOnly),
     [Base EXCEPT !.bytes = "over"],
     [Base EXCEPT !.receiptHash = SignedHash(Base)],
     [Base EXCEPT !.signedHash = ReceiptHash(Base)]}

Missigned ==
    {WithFirst([FirstVerdict EXCEPT !.signedHash = Base.components[2].signedHash]),
     WithFirst([FirstVerdict EXCEPT
                   !.bundle = BundleFor(FirstVerdict.id, RequiredOnly, Base.components[2].signedHash,
                                        COMPONENT_VERDICT_DOMAIN, 1)]),
     [Base EXCEPT !.bundle = BundleFor(Orchestrator, RequiredOnly, ReceiptHash(Base),
                                       ORCHESTRATOR_RECEIPT_DOMAIN, 1)],
     [Base EXCEPT !.bundle = BundleFor(Orchestrator, <<Ml, Ed>>, SignedHash(Base),
                                       ORCHESTRATOR_RECEIPT_DOMAIN, 1)],
     [Base EXCEPT !.bundle = BundleFor(Orchestrator, <<Ed, Fn>>, SignedHash(Base),
                                       ORCHESTRATOR_RECEIPT_DOMAIN, 1)],
     [Base EXCEPT !.bundle.form = "policy"],
     [Base EXCEPT !.bundle.form = "fields"],
     WithFirst([FirstVerdict EXCEPT !.bundle.signatures[1].profile = "padded"])} \cup
    {WithEntry(2, e) : e \in
        {[OwnEntry(2) EXCEPT !.hash = ReceiptHash(Base)],
         [OwnEntry(2) EXCEPT !.domain = COMPONENT_VERDICT_DOMAIN],
         [OwnEntry(2) EXCEPT !.algorithm = Ed],
         [OwnEntry(2) EXCEPT !.algorithm = "rsa"],
         [OwnEntry(2) EXCEPT !.profile = "unsupported"],
         [OwnEntry(2) EXCEPT !.key = OwnEntry(1).key],
         [OwnEntry(2) EXCEPT !.key = KeyOf(ComponentOrder[1], Ml, 1)],
         [OwnEntry(2) EXCEPT !.signature = "blank"]}}

\* Accepted by every check but unfit for an audit record.
Unrecordable == {WithEntry(2, [OwnEntry(2) EXCEPT !.profile = "oversized"])}

-----------------------------------------------------------------------------

RoleOrder == Append(ComponentOrder, Orchestrator)

\* The keys of one version, in the order build_test_registry lists them.
Keys(version, status) ==
    [n \in 1..(Len(RoleOrder) * Len(Algorithms)) |->
        LET role == RoleOrder[((n - 1) \div Len(Algorithms)) + 1]
            algorithm == Algorithms[((n - 1) % Len(Algorithms)) + 1]
        IN  [role |-> role, key |-> KeyOf(role, algorithm, version), algorithm |-> algorithm,
             window |-> KeyLife, status |-> status]]

RegistryWith(version, entries) == [version |-> version, entries |-> entries]

\* Version 2 brings new keys and keeps the old ones listed, revoked.
FirstRegistry == RegistryWith(1, Keys(1, "active"))
RotatedRegistry == RegistryWith(2, Keys(2, "active") \o Keys(1, "revoked"))

\* Version 1 again, with the receipt signer's ML-DSA key revoked, retired, or
\* listed twice.
OwnKeyAt == Len(RoleOrder) * Len(Algorithms) - Len(Algorithms) + AlgorithmRank(Ml)
RevokedRegistry ==
    [FirstRegistry EXCEPT !.entries[OwnKeyAt].status = "revoked"]
RetiredRegistry ==
    [FirstRegistry EXCEPT !.entries[OwnKeyAt].window = [from |-> 0, until |-> 3]]
DuplicateRegistry ==
    [FirstRegistry EXCEPT !.entries = Append(@, @[OwnKeyAt])]

Trusting(registry) ==
    [valid |-> TRUE, request |-> "request", context |-> "context", registry |-> registry,
     minimum |-> 1, time |-> Now]
=============================================================================
