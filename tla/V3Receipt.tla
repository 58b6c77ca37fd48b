----------------------------- MODULE V3Receipt -----------------------------
(***************************************************************************)
(* The Shield v3.2 component verdict and receipt as values, with the rules *)
(* for building and validating them (v3/contracts/v3_2_receipt.py).        *)
(*                                                                         *)
(* A verdict is [component, request, context, decision, form] and a        *)
(* receipt [request, context, verdicts, outcome, reason, handoff, form,    *)
(* hash].  "form" stands for the checks on layout: names of the fields,    *)
(* schema and contract version, registered reasons and evidence families,  *)
(* metadata.  A text is [name, form], its form "clean", "padded" (with     *)
(* white space around), "blank" (nothing else), "unencodable" (no UTF-8)   *)
(* or "absent" (no text at all).                                           *)
(***************************************************************************)
EXTENDS Naturals, Sequences, Functions

CONSTANT ComponentOrder     \* SUPPORTED_COMPONENTS, in their canonical order

ASSUME ComponentAssumption == IsInjective(ComponentOrder)

Components == Range(ComponentOrder)

SupportedDecisions == {"ALLOW", "ESCALATE", "DENY", "ERROR", "SKIPPED"}

Stripped(text) == IF text.form = "padded" THEN [text EXCEPT !.form = "clean"] ELSE text

\* A context hash is tagged with where it is from; one claimed by a caller may
\* be no hash at all.
Malformed == <<"malformed">>
IsHash(context) == context # Malformed

\* validate_component_verdict
ValidVerdict(verdict, context) ==
    /\ verdict.form = "exact"
    /\ verdict.component \in Components
    /\ IsHash(context)
    /\ verdict.context = context
    /\ verdict.decision \in SupportedDecisions

\* Faulty variant: an ERROR is no reason to deny.
ClassifyErrorEscalates(decisions) ==
    IF "DENY" \in decisions
    THEN [outcome |-> "DENY", reason |-> "ORCH_DENY_DOMINATES"]
    ELSE IF decisions \cap {"ERROR", "ESCALATE"} # {}
    THEN [outcome |-> "HUMAN_REVIEW_REQUIRED", reason |-> "ORCH_HUMAN_REVIEW_ESCALATE_PRESENT"]
    ELSE [outcome |-> "ALLOW", reason |-> "ORCH_OK_ALL_COMPONENTS_ALLOW"]

\* _classify: the handoff reason is the dominant reason.
Classify(decisions) ==
    IF "DENY" \in decisions
    THEN [outcome |-> "DENY", reason |-> "ORCH_DENY_DOMINATES"]
    ELSE IF "ERROR" \in decisions
    THEN [outcome |-> "DENY", reason |-> "ORCH_ERROR_INVALID_COMPONENT_VERDICT"]
    ELSE IF "ESCALATE" \in decisions
    THEN [outcome |-> "HUMAN_REVIEW_REQUIRED", reason |-> "ORCH_HUMAN_REVIEW_ESCALATE_PRESENT"]
    ELSE IF "SKIPPED" \in decisions
    THEN [outcome |-> "DENY", reason |-> "ORCH_ERROR_MISSING_REQUIRED_VERDICT"]
    ELSE [outcome |-> "ALLOW", reason |-> "ORCH_OK_ALL_COMPONENTS_ALLOW"]

Decisions(verdicts) == {verdicts[i].decision : i \in DOMAIN verdicts}

\* Verdicts in the order of their component ids.
Sorted(verdicts) ==
    [k \in DOMAIN ComponentOrder |->
        verdicts[CHOOSE i \in DOMAIN verdicts : verdicts[i].component = ComponentOrder[k]]]

\* Faulty variant: each verdict is valid in a context of its own.
BuildableInAnyContext(request, context, verdicts) ==
    /\ request.form \notin {"blank", "unencodable"}
    /\ IsHash(context)
    /\ \A i \in DOMAIN verdicts : ValidVerdict(verdicts[i], verdicts[i].context)
    /\ IsInjective([i \in DOMAIN verdicts |-> verdicts[i].component])
    /\ Components \subseteq {verdicts[i].component : i \in DOMAIN verdicts}
    /\ \A i \in DOMAIN verdicts : verdicts[i].request.form # "unencodable"

\* The checks of build_receipt; canonical_sha256 at its end needs UTF-8.
Buildable(request, context, verdicts) ==
    /\ request.form \notin {"blank", "unencodable"}
    /\ IsHash(context)
    /\ \A i \in DOMAIN verdicts : ValidVerdict(verdicts[i], context)
    /\ IsInjective([i \in DOMAIN verdicts |-> verdicts[i].component])
    /\ Components \subseteq {verdicts[i].component : i \in DOMAIN verdicts}
    /\ \A i \in DOMAIN verdicts : verdicts[i].request.form # "unencodable"

\* The receipt without its hash: in canonical order, the request id stripped.
Unhashed(request, context, verdicts) ==
    LET class == Classify(Decisions(verdicts)) IN
    [request |-> Stripped(request), context |-> context, verdicts |-> Sorted(verdicts),
     outcome |-> class.outcome, reason |-> class.reason,
     handoff |-> class.outcome = "ALLOW", form |-> "exact"]

\* canonical_sha256, injective on the content it is given.
Hash(content) == <<"sha256", content>>

\* Faulty variant: the hash is of the request id as it came.
ReceiptHashedAsGiven(request, context, verdicts) ==
    LET content == Unhashed(request, context, verdicts) IN
    [request |-> content.request, context |-> content.context, verdicts |-> content.verdicts,
     outcome |-> content.outcome, reason |-> content.reason, handoff |-> content.handoff,
     form |-> content.form, hash |-> Hash([content EXCEPT !.request = request])]

\* build_receipt, where Buildable holds.
Receipt(request, context, verdicts) ==
    LET content == Unhashed(request, context, verdicts) IN
    [request |-> content.request, context |-> content.context, verdicts |-> content.verdicts,
     outcome |-> content.outcome, reason |-> content.reason, handoff |-> content.handoff,
     form |-> content.form, hash |-> Hash(content)]

\* validate_receipt: the receipt is what its own verdicts build, in this context.
ValidReceipt(receipt, context) ==
    /\ receipt.form = "exact"
    /\ Buildable(receipt.request, receipt.context, receipt.verdicts)
    /\ LET rebuilt == Receipt(receipt.request, receipt.context, receipt.verdicts) IN
       /\ rebuilt.hash = receipt.hash
       /\ rebuilt.context = context
       /\ rebuilt = receipt
    /\ IsHash(context)
=============================================================================
