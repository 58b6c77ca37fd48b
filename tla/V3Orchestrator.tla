--------------------------- MODULE V3Orchestrator ---------------------------
(***************************************************************************)
(* orchestrate (v3/orchestrate.py) with the five component bridges and the *)
(* Adaptive Core sink (bridges/), as a state machine of one request.       *)
(*                                                                         *)
(* The request is validated and bound to a request id and a context hash.  *)
(* The bridges run in a fixed order; each reads request id and context     *)
(* hash from the request again, calls its engine and translates the answer *)
(* into a component verdict.  The verdicts make the receipt, the sink is   *)
(* told, and the response leaves.  Every failure ends in a DENY response,  *)
(* unless building that response fails too.                                *)
(*                                                                         *)
(* The fields of the request are frozen, but its payload is a mutable dict *)
(* that the caller still holds and whose nested values the engines are     *)
(* handed: it may change at any step.  Engines are outside src/ and answer *)
(* anything.                                                               *)
(***************************************************************************)
EXTENDS V3Receipt

CONSTANTS
    BridgeOrder,    \* components in the order of their bridges
    Requests,       \* frozen fields: [version, fields, nonce, scalars]
    Payloads,       \* [requestId, claimed, inputs, copying, encoding, data]
    Answers,        \* engine answers: [available, object, authority, words, error]
    NoReceipt, NoResponse,
    MaxChanges      \* bound: changes of the payload

ASSUME BridgeAssumption ==
    /\ BridgeOrder \in Seq(Components)
    /\ IsInjective(BridgeOrder)
    /\ Range(BridgeOrder) = Components
    /\ BridgeOrder # <<>>
    /\ MaxChanges \in Nat

\* Exceptions, "none" for no exception.
Exceptions == {"none", "TypeError", "ValueError", "other"}
EncodingErrors == {"none", "TypeError", "ValueError"}

ASSUME ExceptionAssumption ==
    /\ \A load \in Payloads : load.copying \in Exceptions /\ load.encoding \in EncodingErrors
    /\ \A answer \in Answers : answer.error \in Exceptions

\* A nonce and a request id are texts.
ASSUME TextAssumption ==
    /\ \A req \in Requests : "form" \in DOMAIN req.nonce
    /\ \A load \in Payloads : "form" \in DOMAIN load.requestId

VARIABLES
    request,        \* the frozen fields of the request
    payload,        \* its payload, which others hold
    changes,        \* how often the payload has changed
    pc,             \* where the function is
    requestId,      \* request_id of the call
    contextHash,    \* context_hash of the call
    bridge,         \* what the running bridge has read: [request, context]
    verdicts,       \* component_verdicts
    trace,          \* the trace of the call
    asked,          \* history: engines called, with their answers
    receipt,
    reason,         \* the reason id of a failure
    response

vars == <<request, payload, changes, pc, requestId, contextHash, bridge, verdicts,
          trace, asked, receipt, reason, response>>

inputs == <<request, payload, changes>>
binding == <<requestId, contextHash>>

Phases == {"validate", "request_id", "context", "bridge", "bridge_context", "bridge_input",
           "engine", "receipt", "sink", "respond", "fail", "answered", "raised"}

Ended == {"answered", "raised"}

-----------------------------------------------------------------------------
(* What the code reads from a request, and the exceptions reading raises:   *)
(* "none", "TypeError", "ValueError" or "other".                            *)

\* receipt_request_id
ReceiptRequestId(req, load) ==
    IF load.requestId.form \in {"absent", "blank"} THEN req.nonce ELSE Stripped(load.requestId)

\* json.dumps fails with TypeError, the UTF-8 encoding of its result with
\* ValueError.
EncodingError(errors) ==
    IF "TypeError" \in errors THEN "TypeError"
    ELSE IF "ValueError" \in errors THEN "ValueError" ELSE "none"

TextError(text) == IF text.form = "unencodable" THEN "ValueError" ELSE "none"

ScalarsError(req) == EncodingError({req.scalars, TextError(req.nonce)})

\* compute_context_hash over asdict(request): asdict copies the payload first.
RequestHashError(req, load) ==
    IF load.copying # "none" THEN load.copying
    ELSE EncodingError({ScalarsError(req), TextError(load.requestId), load.encoding})

\* receipt_context_hash
ContextError(req, load) ==
    IF load.claimed = <<>> THEN RequestHashError(req, load)
    ELSE IF IsHash(load.claimed) THEN "none" ELSE "ValueError"

ReceiptContextHash(req, load) ==
    IF load.claimed = <<>> THEN <<"computed", req, load>> ELSE load.claimed

-----------------------------------------------------------------------------
(* What a bridge makes of an engine's answer.                               *)

AllowWords == {"ALLOW", "OK", "SAFE", "GREEN"}
EscalateWords ==
    {"WARN", "WARNING", "CAUTION", "YELLOW", "ESCALATE", "DELAY", "REQUIRE_EXTRA_AUTH"}
DenyWords == {"BLOCK", "DENY", "DENIED"}

\* The first key that is there decides, whatever it says.
RawDecision(words) ==
    IF "decision" \in DOMAIN words THEN words["decision"]
    ELSE IF "outcome" \in DOMAIN words THEN words["outcome"]
    ELSE IF "verdict_type" \in DOMAIN words THEN words["verdict_type"] ELSE "NONE"

\* Faulty variants: the engine's word is the decision; what no list names is
\* let pass.
NormalizedDecisionRaw(words) == RawDecision(words)

NormalizedDecisionDefaultAllow(words) ==
    IF RawDecision(words) \in EscalateWords THEN "ESCALATE"
    ELSE IF RawDecision(words) \in DenyWords THEN "DENY"
    ELSE "ALLOW"

\* _normalized_decision
NormalizedDecision(words) ==
    IF RawDecision(words) \in AllowWords THEN "ALLOW"
    ELSE IF RawDecision(words) \in EscalateWords THEN "ESCALATE"
    ELSE IF RawDecision(words) \in DenyWords THEN "DENY"
    ELSE "ERROR"

\* build_component_result_from_response, and the bridge's handler before it:
\* the decision, the note of the trace, and an exception.
Result(decision, note, error) == [decision |-> decision, note |-> note, error |-> error]

\* error_component_result hashes the request id.
ErrorResult(note) == Result("ERROR", note, TextError(bridge.request))

EngineResult(answer) ==
    IF ~ answer.available THEN ErrorResult("component_engine_unavailable_or_failed")
    ELSE IF ~ answer.object THEN ErrorResult("component_engine_returned_non_object")
    ELSE IF answer.authority THEN ErrorResult("component_engine_authority_bypass_rejected")
    ELSE Result(NormalizedDecision(answer.words), "real_component_engine", answer.error)

\* Faulty variant: an ERROR verdict looks like a denial.
TraceStatusDenied(decision) == IF decision \in {"ERROR", "DENY"} THEN "DENY" ELSE "OK"

\* _trace_from_verdict
TraceStatus(decision) == IF decision \in {"ERROR", "DENY"} THEN decision ELSE "OK"

TraceEntry(component, status, note) ==
    [component |-> component, status |-> status, note |-> note]

-----------------------------------------------------------------------------
(* The steps of the call.                                                   *)

Init ==
    /\ request \in Requests
    /\ payload \in Payloads
    /\ changes = 0
    /\ pc = "validate"
    /\ requestId = [name |-> "none", form |-> "absent"]
    /\ contextHash = <<>>
    /\ bridge = [request |-> requestId, context |-> <<>>]
    /\ verdicts = <<>>
    /\ trace = <<>>
    /\ asked = <<>>
    /\ receipt = NoReceipt
    /\ reason = "none"
    /\ response = NoResponse

\* Raise: the rest of the call is the handler.
Fail(why) ==
    /\ pc' = "fail"
    /\ reason' = why

Continue(next) ==
    /\ pc' = next
    /\ UNCHANGED reason

\* _validate_request
Validate ==
    /\ pc = "validate"
    /\ IF ~ request.version THEN Fail("INVALID_CONTRACT_VERSION")
       ELSE IF ~ request.fields THEN Fail("INVALID_REQUEST")
       ELSE Continue("request_id")
    /\ UNCHANGED <<inputs, binding, bridge, verdicts, trace, asked, receipt, response>>

BindRequestId ==
    /\ pc = "request_id"
    /\ requestId' = ReceiptRequestId(request, payload)
    /\ Continue("context")
    /\ UNCHANGED <<inputs, contextHash, bridge, verdicts, trace, asked, receipt, response>>

\* How orchestrate reports an exception of the context hash, and of a bridge.
BindingReason ==
    [TypeError |-> "HASHING_FAILED", ValueError |-> "INVALID_REQUEST", other |-> "INTERNAL_ERROR"]

BridgeReason ==
    [TypeError |-> "HASHING_FAILED", ValueError |-> "COMPONENT_ERROR", other |-> "COMPONENT_ERROR"]

BindContext ==
    LET error == ContextError(request, payload) IN
    /\ pc = "context"
    /\ IF error # "none"
       THEN Fail(BindingReason[error]) /\ UNCHANGED <<contextHash, trace>>
       ELSE /\ contextHash' = ReceiptContextHash(request, payload)
            /\ trace' = <<TraceEntry("orchestrator", "OK", "input_validation")>>
            /\ Continue("bridge")
    /\ UNCHANGED <<inputs, requestId, bridge, verdicts, asked, receipt, response>>

\* evaluate_v3 reads the request id, then the context hash, then its input.
BridgeRequestId ==
    /\ pc = "bridge"
    /\ bridge' = [bridge EXCEPT !.request = ReceiptRequestId(request, payload)]
    /\ Continue("bridge_context")
    /\ UNCHANGED <<inputs, binding, verdicts, trace, asked, receipt, response>>

BridgeContext ==
    LET error == ContextError(request, payload) IN
    /\ pc = "bridge_context"
    /\ IF error # "none"
       THEN Fail(BridgeReason[error]) /\ UNCHANGED bridge
       ELSE /\ bridge' = [bridge EXCEPT !.context = ReceiptContextHash(request, payload)]
            /\ Continue("bridge_input")
    /\ UNCHANGED <<inputs, binding, verdicts, trace, asked, receipt, response>>

Running == BridgeOrder[Len(verdicts) + 1]

ComponentVerdict(decision) ==
    [component |-> Running, request |-> bridge.request, context |-> bridge.context,
     decision |-> decision, form |-> "exact"]

\* The running bridge's result joins the trace and the verdicts.
Collect(result) ==
    IF result.error # "none"
    THEN Fail(BridgeReason[result.error]) /\ UNCHANGED <<verdicts, trace>>
    ELSE /\ verdicts' = Append(verdicts, ComponentVerdict(result.decision))
         /\ trace' = Append(trace, TraceEntry(Running, TraceStatus(result.decision), result.note))
         /\ Continue(IF Len(verdicts) + 1 = Len(BridgeOrder) THEN "receipt" ELSE "bridge")

\* component_input
BridgeInput ==
    /\ pc = "bridge_input"
    /\ IF Running \in payload.inputs
       THEN Continue("engine") /\ UNCHANGED <<verdicts, trace>>
       ELSE Collect(ErrorResult("missing_component_input"))
    /\ UNCHANGED <<inputs, binding, bridge, asked, receipt, response>>

Engine(answer) ==
    /\ pc = "engine"
    /\ asked' = Append(asked, [component |-> Running, answer |-> answer])
    /\ Collect(EngineResult(answer))
    /\ UNCHANGED <<inputs, binding, bridge, receipt, response>>

\* build_receipt; its exceptions are nobody's but the last handler's.
BuildReceipt ==
    /\ pc = "receipt"
    /\ IF Buildable(requestId, contextHash, verdicts)
       THEN /\ receipt' = Receipt(requestId, contextHash, verdicts)
            /\ trace' = Append(trace, TraceEntry("shield_orchestrator",
                   IF receipt'.outcome = "DENY" THEN "DENY" ELSE "OK", "receipt_synthesis"))
            /\ Continue("sink")
       ELSE Fail("INTERNAL_ERROR") /\ UNCHANGED <<receipt, trace>>
    /\ UNCHANGED <<inputs, binding, bridge, verdicts, asked, response>>

\* Faulty variants: a sink that fails never returns; it fails the call.
SinkFailureHangs ==
    /\ pc = "sink"
    /\ RequestHashError(request, payload) = "none"
    /\ trace' = Append(trace, TraceEntry("adaptive_core", "OK", "phase3_sink_stub"))
    /\ Continue("respond")
    /\ UNCHANGED <<inputs, binding, bridge, verdicts, asked, receipt, response>>

SinkFailureFails ==
    /\ pc = "sink"
    /\ IF RequestHashError(request, payload) = "none"
       THEN /\ trace' = Append(trace, TraceEntry("adaptive_core", "OK", "phase3_sink_stub"))
            /\ Continue("respond")
       ELSE Fail("COMPONENT_ERROR") /\ UNCHANGED trace
    /\ UNCHANGED <<inputs, binding, bridge, verdicts, asked, receipt, response>>

\* AdaptiveCoreBridge.report_v3 hashes the whole request; a failure is noted.
Sink ==
    /\ pc = "sink"
    /\ trace' = Append(trace,
           IF RequestHashError(request, payload) = "none"
           THEN TraceEntry("adaptive_core", "OK", "phase3_sink_stub")
           ELSE TraceEntry("adaptive_core", "ERROR", "phase3_sink_failed"))
    /\ Continue("respond")
    /\ UNCHANGED <<inputs, binding, bridge, verdicts, asked, receipt, response>>

\* _response_from_receipt
ResponseOutcome ==
    [ALLOW |-> "ALLOW", HUMAN_REVIEW_REQUIRED |-> "ESCALATE", DENY |-> "DENY"]

\* The hash over receipt hash, outcome and trace meets only plain strings.
Respond ==
    /\ pc = "respond"
    /\ response' = [outcome |-> ResponseOutcome[receipt.outcome], reason |-> receipt.reason,
                    context |-> contextHash, trace |-> trace, receipt |-> receipt]
    /\ Continue("answered")
    /\ UNCHANGED <<inputs, binding, bridge, verdicts, trace, asked, receipt>>

\* The two handlers: asdict copies the payload before it is left out of the
\* hash, and the other fields are hashed; either may raise out of the call.
FailClosed ==
    LET entry == TraceEntry("orchestrator", "DENY",
                     IF reason = "INTERNAL_ERROR" THEN "internal_error" ELSE "tva_error")
    IN  /\ pc = "fail"
        /\ IF payload.copying = "none" /\ ScalarsError(request) = "none"
           THEN /\ response' = [outcome |-> "DENY", reason |-> reason,
                                context |-> <<"failure", request, reason>>,
                                trace |-> <<entry>>, receipt |-> NoReceipt]
                /\ pc' = "answered"
           ELSE pc' = "raised" /\ UNCHANGED response
        /\ UNCHANGED <<inputs, binding, bridge, verdicts, trace, asked, receipt, reason>>

\* The payload changes under the call: its caller, or an engine through the
\* nested values of its input.
ChangePayload ==
    /\ changes < MaxChanges
    /\ \E load \in Payloads \ {payload} : payload' = load
    /\ changes' = changes + 1
    /\ UNCHANGED <<request, pc, binding, bridge, verdicts, trace, asked, receipt, reason, response>>

Step ==
    \/ Validate \/ BindRequestId \/ BindContext
    \/ BridgeRequestId \/ BridgeContext \/ BridgeInput
    \/ \E answer \in Answers : Engine(answer)
    \/ BuildReceipt \/ Sink \/ Respond \/ FailClosed

Next == Step \/ ChangePayload

Spec == Init /\ [][Next]_vars

\* The call runs on: it waits for nothing but engines, which are assumed to
\* answer.
FairSpec == Spec /\ WF_vars(Step)
-----------------------------------------------------------------------------
(* Properties. *)

BridgeDecisions == {"ALLOW", "ESCALATE", "DENY", "ERROR"}

ReasonIds ==
    {"none", "INVALID_CONTRACT_VERSION", "INVALID_REQUEST", "HASHING_FAILED",
     "COMPONENT_ERROR", "INTERNAL_ERROR"}

\* The request and its payload, the phase and the reason stay in their domains:
\* the verdicts are at most one for each bridge, with decisions of the contract,
\* and failures have known reasons.  What bridges read, receipt and response is
\* what OneContext, ReceiptsValidate and TraceTellsReceipt speak of.
TypeOK ==
    /\ request \in Requests
    /\ payload \in Payloads
    /\ changes \in 0..MaxChanges
    /\ pc \in Phases
    /\ reason \in ReasonIds
    /\ verdicts \in Seq(Range(verdicts))
    /\ \A i \in DOMAIN verdicts : verdicts[i].decision \in BridgeDecisions
    /\ Len(verdicts) =< Len(BridgeOrder)

Answered == pc = "answered"
WithReceipt == Answered /\ response.receipt # NoReceipt

EngineAllows(answer) ==
    /\ answer.available /\ answer.object /\ ~ answer.authority
    /\ answer.error = "none"
    /\ RawDecision(answer.words) \in AllowWords

\* ALLOW is answered only when every engine was asked, once and in the order of
\* the bridges, and every one of them allowed, in words that say so and with no
\* authority claimed (v3/orchestrate.py:57-84, bridges/component_verdicts.py).
AllowIsUnanimous ==
    Answered /\ response.outcome = "ALLOW" =>
        /\ [i \in DOMAIN asked |-> asked[i].component] = BridgeOrder
        /\ \A i \in DOMAIN asked : EngineAllows(asked[i].answer)

\* Whatever the payload does between the bridges, a receipt is of one context,
\* the one the response names (v3/orchestrate.py:46, 79-83).
OneContext ==
    WithReceipt =>
        \A x \in {response.receipt} \cup Range(response.receipt.verdicts) :
            x.context = response.context

\* A receipt that leaves is one its consumer's validation accepts, in the
\* context of the response (v3/contracts/v3_2_receipt.py:304-326).
ReceiptsValidate == WithReceipt => ValidReceipt(response.receipt, response.context)

VerdictOf(r, component) ==
    r.verdicts[CHOOSE k \in DOMAIN r.verdicts : r.verdicts[k].component = component]

\* The trace beside a receipt lists the bridges in the order they ran, and
\* marks exactly those whose verdict in the receipt denies or is in error,
\* though the receipt has another order (v3/orchestrate.py:72-95).
TraceTellsReceipt ==
    WithReceipt =>
        /\ Len(response.trace) = Len(BridgeOrder) + 3
        /\ \A i \in DOMAIN BridgeOrder :
               LET entry == response.trace[i + 1]
                   decision == VerdictOf(response.receipt, BridgeOrder[i]).decision
               IN  /\ entry.component = BridgeOrder[i]
                   /\ \A bad \in {"DENY", "ERROR"} : entry.status = bad <=> decision = bad

\* Nothing after the receipt can change the answer: not the sink, and not what
\* became of the payload meanwhile (v3/orchestrate.py:97-111).
SinkHasNoSay ==
    receipt # NoReceipt =>
        /\ pc \in {"sink", "respond", "answered"}
        /\ Answered => response.receipt = receipt /\ response.reason = receipt.reason

\* The call ends, whatever engines and sink do.
EveryRequestEnds == <>(pc \in Ended)

\* The entrypoint never raises uncaught exceptions (docs/v3/API.md:25).
NeverRaises == pc # "raised"

\* Verdicts and receipt are bound to one request id (docs/v3/PROOF_PACK.md:38-39).
OneRequest ==
    WithReceipt =>
        \A v \in Range(response.receipt.verdicts) : v.request = response.receipt.request

\* The trace shows which components were consulted
\* (docs/v3/ARCHITECTURE.md:107-110).
TraceTellsConsulted ==
    Answered =>
        \A i \in DOMAIN asked :
            \E j \in DOMAIN response.trace : response.trace[j].component = asked[i].component

Heard == [i \in DOMAIN BridgeOrder |->
             IF i =< Len(verdicts) THEN verdicts[i].decision ELSE "SILENT"]

Answer ==
    IF pc = "answered" THEN response.outcome
    ELSE IF pc = "raised" THEN "NONE" ELSE "UNDECIDED"

Promise == INSTANCE FailClosed WITH
    Members <- DOMAIN BridgeOrder, Levels <- BridgeDecisions,
    heard <- Heard, answer <- Answer

\* The call keeps the promise of FailClosed: the most severe verdict when all
\* were heard, and never anything but a denial before.
KeepsFailClosed == Promise!Spec
=============================================================================
