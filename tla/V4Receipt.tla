----------------------------- MODULE V4Receipt -----------------------------
(***************************************************************************)
(* Shield v4 component verdicts and the Orchestrator receipt as values,    *)
(* with the checks made on them (v4/component_verdicts.py,                 *)
(* v4/contracts/v4_receipt.py).                                            *)
(*                                                                         *)
(* A component verdict is [id, form, request, context, version, window,    *)
(* decision, signedHash, bundle] and a receipt [json, fields, request,     *)
(* schema, context, policy, header, version, window, components, results,  *)
(* outcome, handoff, bytes, receiptHash, signedHash, bundle].  Fields that *)
(* only name a class of values ("form", "header", "json", "bytes") stand   *)
(* for the groups of checks on layout the code makes; "version" is the key *)
(* registry version the artifact claims.  A verdict of form "padded" names *)
(* its component with white space behind: most checks strip the name, and  *)
(* so does the payload that is signed.                                     *)
(***************************************************************************)
EXTENDS SignatureBundle

CONSTANTS
    ComponentOrder,   \* SUPPORTED_COMPONENTS, in their canonical (sorted) order
    Orchestrator      \* the artifact id and role "shield_orchestrator"

Components == Range(ComponentOrder)
Artifacts == Components \cup {Orchestrator}

ASSUME ArtifactAssumption ==
    /\ IsInjective(ComponentOrder)
    /\ Orchestrator \notin Components
    /\ Roles = Artifacts

\* signed_payload_hash: SHA-256 over the domain tag and the canonical payload.
\* Values here stand for their canonical form, on which it is injective.
DomainHash(domain, payload) == <<domain, payload>>

COMPONENT_VERDICT_DOMAIN == "component_verdict"
ORCHESTRATOR_RECEIPT_DOMAIN == "orchestrator_receipt"
RECEIPT_HASH_PREFIX == "receipt_hash"

ComponentPayload(c) ==
    [id |-> c.id, request |-> c.request, context |-> c.context,
     version |-> c.version, window |-> c.window, decision |-> c.decision]

ReceiptPayload(r) ==
    [request |-> r.request, schema |-> r.schema, context |-> r.context,
     policy |-> r.policy, header |-> r.header, version |-> r.version,
     window |-> r.window, components |-> r.components, results |-> r.results,
     outcome |-> r.outcome, handoff |-> r.handoff]

ComponentHash(c) == DomainHash(COMPONENT_VERDICT_DOMAIN, ComponentPayload(c))
SignedHash(r) == DomainHash(ORCHESTRATOR_RECEIPT_DOMAIN, ReceiptPayload(r))
ReceiptHash(r) == DomainHash(RECEIPT_HASH_PREFIX, ReceiptPayload(r))

-----------------------------------------------------------------------------

SupportedDecisions == {"ALLOW", "ESCALATE", "DENY", "ERROR", "SKIPPED"}

Decisions(components) == {components[i].decision : i \in DOMAIN components}

ExpectedFinalOutcome(components) ==
    IF Decisions(components) \cap {"DENY", "ERROR"} # {} THEN "DENY"
    ELSE IF Decisions(components) \cap {"ESCALATE", "SKIPPED"} # {} THEN "HUMAN_REVIEW_REQUIRED"
    ELSE "ALLOW"

\* The id of item i is a component's and new among the items before it.
IdError(items, i, words) ==
    FirstError(<<
        Check(items[i].id \in Components, words),
        Check(\A j \in 1..(i - 1) : items[j].id # items[i].id, words) >>)

\* unsigned_component_payload, then the bindings the callers check on it.
PayloadError(c) ==
    FirstError(<<
        Check(c.form # "fields", {"field", "schema"}),
        Check(c.id \in Components, {}),
        Check(c.form # "authority", {"authority", "field"}) >>)

\* validate_component_verdict_envelope
ComponentEnvelopeError(c, context, trust, accepted) ==
    FirstError(<<
        PayloadError(c),
        Check(c.context = context, {"context", "hash"}),
        Check(c.signedHash = ComponentHash(c), {"hash"}),
        Check(c.version = trust.registry.version, {"key", "registry"}),
        VerifyBundleError(c.bundle, ComponentHash(c), COMPONENT_VERDICT_DOMAIN,
                          c.id, trust, c.window, accepted) >>)

\* verify_component_verdicts.  accepted[i]: positions the verifier accepts in
\* the bundle of the i-th verdict.
ComponentVerdictsError(components, context, trust, accepted) ==
    FirstError(<<
        Check(Len(components) = Len(ComponentOrder), {}),
        FirstError([i \in DOMAIN components |->
            FirstError(<<
                ComponentEnvelopeError(components[i], context, trust, accepted[i]),
                Check(\A j \in 1..(i - 1) : components[j].id # components[i].id, {}) >>)]) >>)

\* One row of component_signature_results.
ResultError(results, i) ==
    LET row == results[i] IN
    FirstError(<<
        IdError(results, i, {"signature"}),
        Check(row.algorithms # <<>> /\ IsInjective(row.algorithms), {"algorithm", "signature"}),
        Check(RequiredAlgorithms \subseteq Range(row.algorithms), {"algorithm", "signature"}),
        Check(Range(row.algorithms) \subseteq SupportedAlgorithms, {"algorithm", "signature"}),
        Check(Len(row.profiles) = Len(row.algorithms) /\ Range(row.profiles) \subseteq {"exact"},
              {"profile", "signature"}) >>)

ResultsError(results) ==
    FirstError(<<
        Check(Len(results) = Len(ComponentOrder), {"signature"}),
        FirstError([i \in DOMAIN results |-> ResultError(results, i)]) >>)

\* _validate_receipt_payload_semantics
SemanticsError(r, context) ==
    FirstError(<<
        Check(r.fields, {"field", "schema"}),
        Check(r.context = context, {"context"}),
        Check(Len(r.components) = Len(ComponentOrder), {}),
        FirstError([i \in DOMAIN r.components |->
            FirstError(<<
                IdError(r.components, i, {}),
                Check(r.components[i].context = context, {"context"}) >>)]),
        ResultsError(r.results),
        Check(r.outcome = ExpectedFinalOutcome(r.components), {}),
        Check(r.handoff # "forbidden", {"authority", "field"}),
        Check(r.outcome = "ALLOW" \/ r.handoff # "allowed", {"handoff_allowed"}) >>)

HeaderError(r) ==
    FirstError(<<
        Check(r.header # "contract", {"contract"}),
        Check(r.header # "profile", {"profile"}),
        Check(r.header # "open", {}) >>)

\* validate_receipt_envelope.  accepted: positions in the receipt's own bundle.
ReceiptEnvelopeError(r, context, trust, accepted) ==
    FirstError(<<
        Check(r.fields, {"field", "schema"}),
        Check(r.schema = "shield.receipt.v2", {"schema"}),
        HeaderError(r),
        Check(r.policy, {"policy", "signature"}),
        Check(r.context = context, {"context"}),
        SemanticsError(r, context),
        Check(r.receiptHash = ReceiptHash(r), {"hash"}),
        Check(r.signedHash = SignedHash(r), {"hash"}),
        Check(r.version = trust.registry.version, {"key", "registry"}),
        VerifyBundleError(r.bundle, SignedHash(r), ORCHESTRATOR_RECEIPT_DOMAIN,
                          Orchestrator, trust, r.window, accepted) >>)
=============================================================================
