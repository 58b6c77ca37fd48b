------------------------ MODULE V3OrchestratorProofs ------------------------
(***************************************************************************)
(* Theorems of V3Orchestrator for any number of components, any requests,  *)
(* payloads that change at any step, and any answers of the engines.  What *)
(* a consumer of a response can rely on comes last: its receipt passes the *)
(* receipt contract's own validation, and its trace tells of each bridge   *)
(* what the receipt does.                                                  *)
(***************************************************************************)
EXTENDS V3Orchestrator, SequenceTheorems, TLAPS

-----------------------------------------------------------------------------
(* The inductive invariant.                                                 *)

\* How many verdicts there are in each phase.
Paced ==
    /\ pc \in {"validate", "request_id", "context"} => verdicts = <<>> /\ asked = <<>>
    /\ pc \in {"bridge", "bridge_context", "bridge_input", "engine"} =>
           Len(verdicts) < Len(BridgeOrder)
    /\ pc \in {"receipt", "sink", "respond"} => Len(verdicts) = Len(BridgeOrder)

Unanimous == \A i \in DOMAIN verdicts : verdicts[i].decision = "ALLOW"

\* Verdicts that all allow are the answers of engines asked one after another.
Heeded ==
    /\ asked \in Seq(Range(asked))
    /\ Len(asked) = Len(verdicts)
    /\ \A i \in DOMAIN asked :
           asked[i].component = BridgeOrder[i] /\ EngineAllows(asked[i].answer)

Built ==
    /\ Len(verdicts) = Len(BridgeOrder)
    /\ Buildable(requestId, contextHash, verdicts)
    /\ receipt = Receipt(requestId, contextHash, verdicts)

Refused == response.outcome = "DENY" /\ response.receipt = NoReceipt /\ receipt = NoReceipt

Released ==
    /\ response.outcome = ResponseOutcome[receipt.outcome]
    /\ response.reason = receipt.reason
    /\ response.context = contextHash
    /\ response.receipt = receipt

CallInv ==
    /\ TypeOK
    /\ Paced
    /\ asked \in Seq(Range(asked))
    /\ pc \notin {"fail", "raised", "answered"} /\ Unanimous => Heeded
    /\ pc \notin {"sink", "respond", "answered"} => receipt = NoReceipt
    /\ pc \in {"sink", "respond"} => Built
    /\ pc = "answered" => Refused \/ (Built /\ Released /\ (Unanimous => Heeded))

-----------------------------------------------------------------------------
(* Exceptions and results.                                                  *)

LEMMA ContextErrorIsKnown ==
    ASSUME NEW req, NEW load \in Payloads
    PROVE  ContextError(req, load) \in Exceptions /\ RequestHashError(req, load) \in Exceptions
<1>1. \A errors : EncodingError(errors) \in Exceptions
  BY DEF EncodingError, Exceptions
<1>2. load.copying \in Exceptions
  BY ExceptionAssumption
<1>3. RequestHashError(req, load) \in Exceptions
  BY <1>1, <1>2 DEF RequestHashError
<1> QED
  BY <1>3 DEF ContextError, Exceptions

LEMMA FailureReasons ==
    ASSUME NEW error \in Exceptions, error # "none"
    PROVE  BindingReason[error] \in ReasonIds /\ BridgeReason[error] \in ReasonIds
  BY DEF Exceptions, BindingReason, BridgeReason, ReasonIds

LEMMA ErrorResultIsAnError ==
    ASSUME NEW note
    PROVE  ErrorResult(note).decision = "ERROR" /\ ErrorResult(note).error \in Exceptions
  BY DEF ErrorResult, Result, TextError, Exceptions

\* A decision of the registry comes of every answer, and ALLOW only of one
\* that allows.
LEMMA EngineResultIsADecision ==
    ASSUME NEW answer \in Answers
    PROVE  /\ EngineResult(answer).decision \in BridgeDecisions
           /\ EngineResult(answer).error \in Exceptions
           /\ EngineResult(answer).decision = "ALLOW" /\ EngineResult(answer).error = "none"
                  => EngineAllows(answer)
<1> DEFINE normal == NormalizedDecision(answer.words)
<1>1. /\ normal \in BridgeDecisions
      /\ normal = "ALLOW" => RawDecision(answer.words) \in AllowWords
  BY DEF NormalizedDecision, BridgeDecisions
<1>2. answer.error \in Exceptions
  BY ExceptionAssumption
<1>3. CASE answer.available /\ answer.object /\ ~ answer.authority
  <2>1. EngineResult(answer) = Result(normal, "real_component_engine", answer.error)
    BY <1>3 DEF EngineResult
  <2> QED
    BY <1>1, <1>2, <1>3, <2>1 DEF Result, EngineAllows
<1>4. CASE ~ (answer.available /\ answer.object /\ ~ answer.authority)
  <2>1. \E note : EngineResult(answer) = ErrorResult(note)
    BY <1>4 DEF EngineResult
  <2> QED
    BY <2>1, ErrorResultIsAnError DEF BridgeDecisions
<1> QED
  BY <1>3, <1>4

LEMMA SequenceIsList ==
    ASSUME NEW S, NEW s \in Seq(S)
    PROVE  s \in Seq(Range(s)) /\ DOMAIN s = 1..Len(s) /\ Len(s) \in Nat
<1>1. s \in [1..Len(s) -> Range(s)] /\ Len(s) \in Nat
  BY DEF Range
<1> QED
  BY <1>1

LEMMA ListGrows ==
    ASSUME NEW s, s \in Seq(Range(s)), NEW e
    PROVE  /\ Append(s, e) \in Seq(Range(Append(s, e)))
           /\ Len(s) \in Nat
           /\ Len(Append(s, e)) = Len(s) + 1
           /\ DOMAIN s = 1..Len(s)
           /\ DOMAIN Append(s, e) = 1..(Len(s) + 1)
           /\ \A i \in DOMAIN s : Append(s, e)[i] = s[i]
           /\ Append(s, e)[Len(s) + 1] = e
<1> DEFINE S == Range(s) \cup {e}
<1>1. s \in Seq(S)
  OBVIOUS
<1> DEFINE t == Append(s, e)
<1>2. /\ t \in Seq(S)
      /\ Len(t) = Len(s) + 1
      /\ \A i \in 1..Len(s) : t[i] = s[i]
      /\ t[Len(s) + 1] = e
  BY <1>1, AppendProperties
<1>3. /\ t \in Seq(Range(t)) /\ DOMAIN t = 1..Len(t)
      /\ Len(s) \in Nat /\ DOMAIN s = 1..Len(s)
  BY <1>1, <1>2, SequenceIsList
<1> HIDE DEF t
<1>4. \A i \in DOMAIN s : t[i] = s[i]
  BY <1>2, <1>3
<1> QED
  BY <1>2, <1>3, <1>4 DEF t

LEMMA OneMore ==
    ASSUME NEW m \in Nat, NEW n \in Nat, n < m, n + 1 # m
    PROVE  n + 1 < m
  OBVIOUS

LEMMA BridgeList ==
    /\ Len(BridgeOrder) \in Nat /\ Len(BridgeOrder) > 0
    /\ DOMAIN BridgeOrder = 1..Len(BridgeOrder)
    /\ BridgeOrder = [i \in 1..Len(BridgeOrder) |-> BridgeOrder[i]]
<1>1. BridgeOrder \in Seq(Components) /\ BridgeOrder # <<>>
  BY BridgeAssumption
<1> QED
  BY <1>1

-----------------------------------------------------------------------------
(* The invariance of CallInv.                                               *)

LEMMA InitEstablishes == Init => CallInv
<1> SUFFICES ASSUME Init PROVE CallInv
  OBVIOUS
<1> USE BridgeList DEF Init
<1>1. verdicts \in Seq(Range(verdicts)) /\ asked \in Seq(Range(asked))
  <2>1. <<>> \in Seq(Range(<<>>))
    OBVIOUS
  <2> QED
    BY <2>1
<1>2. TypeOK
  BY <1>1, BridgeAssumption DEF TypeOK, Phases, ReasonIds
<1>3. Paced /\ Heeded
  BY <1>1 DEF Paced, Heeded
<1> QED
  BY <1>1, <1>2, <1>3 DEF CallInv

\* Before the receipt a call may fail at any point.
LEMMA FailStep ==
    ASSUME CallInv, pc \notin {"sink", "respond", "answered"},
           NEW why \in ReasonIds, Fail(why),
           UNCHANGED <<inputs, verdicts, receipt>>, asked' \in Seq(Range(asked'))
    PROVE  CallInv'
<1> USE DEF CallInv, Fail, inputs
<1>1. TypeOK'
  BY DEF TypeOK, Phases
<1>2. Paced'
  BY DEF Paced
<1> QED
  BY <1>1, <1>2

\* A step that adds no verdict.
LEMMA ContinueStep ==
    ASSUME CallInv, pc \notin {"sink", "respond", "answered", "fail", "raised"},
           NEW next, Continue(next),
           next \in {"request_id", "context", "bridge", "bridge_context", "bridge_input", "engine"},
           Paced', UNCHANGED <<inputs, verdicts, asked, receipt>>
    PROVE  CallInv'
<1> USE DEF CallInv, Continue, inputs
<1>1. TypeOK'
  BY DEF TypeOK, Phases
<1>2. Unanimous' => Heeded'
  BY DEF Unanimous, Heeded
<1> QED
  BY <1>1, <1>2

\* A result joins the verdicts, or ends the call.
LEMMA CollectStep ==
    ASSUME CallInv, pc \in {"bridge_input", "engine"},
           NEW result, result.decision \in BridgeDecisions, result.error \in Exceptions,
           Collect(result),
           UNCHANGED <<inputs, receipt>>, asked' \in Seq(Range(asked')),
           result.error = "none" /\ result.decision = "ALLOW" =>
               \E answer : /\ asked' = Append(asked, [component |-> Running, answer |-> answer])
                           /\ EngineAllows(answer)
    PROVE  CallInv'
<1>1. CASE result.error # "none"
  <2>1. Fail(BridgeReason[result.error]) /\ UNCHANGED verdicts
    BY <1>1 DEF Collect
  <2> QED
    BY <1>1, <2>1, FailureReasons, FailStep
<1>2. CASE result.error = "none"
  <2> DEFINE n == Len(verdicts)
             verdict == ComponentVerdict(result.decision)
  <2>1. /\ verdicts' = Append(verdicts, verdict)
        /\ Continue(IF n + 1 = Len(BridgeOrder) THEN "receipt" ELSE "bridge")
        /\ verdict.decision = result.decision
    BY <1>2 DEF Collect, ComponentVerdict
  <2>2. n \in Nat /\ n < Len(BridgeOrder) /\ verdicts \in Seq(Range(verdicts))
    BY DEF CallInv, TypeOK, Paced
  <2>3. /\ verdicts' \in Seq(Range(verdicts'))
        /\ Len(verdicts') = n + 1
        /\ DOMAIN verdicts = 1..n /\ DOMAIN verdicts' = 1..(n + 1)
        /\ \A i \in 1..n : verdicts'[i] = verdicts[i]
        /\ verdicts'[n + 1] = verdict
    <3> HIDE DEF verdict
    <3> QED
      BY <2>1, <2>2, ListGrows
  <2> HIDE DEF verdict
  <2>4. TypeOK'
    <3>1. pc' \in Phases /\ reason' \in ReasonIds
      BY <2>1 DEF Continue, CallInv, TypeOK, Phases
    <3>2. \A i \in DOMAIN verdicts' : verdicts'[i].decision \in BridgeDecisions
      <4>1. \A i \in 1..n : verdicts'[i].decision \in BridgeDecisions
        BY <2>3 DEF CallInv, TypeOK
      <4> QED
        BY <2>1, <2>2, <2>3, <4>1
    <3>3. Len(verdicts') =< Len(BridgeOrder)
      BY <2>2, <2>3, BridgeList
    <3> QED
      BY <2>3, <3>1, <3>2, <3>3 DEF CallInv, TypeOK, inputs
  <2>9. Len(verdicts') = n + 1
    BY <2>3
  <2>5. Paced' /\ pc' \in {"bridge", "receipt"}
    <3>1. CASE n + 1 = Len(BridgeOrder)
      <4>1. pc' = "receipt" /\ Len(verdicts') = Len(BridgeOrder)
        BY <2>1, <2>3, <3>1 DEF Continue
      <4> QED
        BY <4>1 DEF Paced
    <3>2. CASE n + 1 # Len(BridgeOrder)
      <4>1. pc' = "bridge"
        BY <2>1, <3>2, Zenon DEF Continue
      <4>2. Len(verdicts') < Len(BridgeOrder)
        BY <2>2, <2>9, <3>2, BridgeList, OneMore, Zenon
      <4> QED
        BY <4>1, <4>2 DEF Paced
    <3> QED
      BY <3>1, <3>2
  <2>6. Unanimous' => Heeded'
    <3> SUFFICES ASSUME Unanimous' PROVE Heeded'
      OBVIOUS
    <3>1. Unanimous /\ result.decision = "ALLOW"
      BY <2>1, <2>2, <2>3 DEF Unanimous
    <3>2. Heeded
      BY <3>1 DEF CallInv
    <3>3. PICK answer :
              /\ asked' = Append(asked, [component |-> Running, answer |-> answer])
              /\ EngineAllows(answer)
      BY <1>2, <3>1
    <3> DEFINE row == [component |-> Running, answer |-> answer]
    <3>4. row.component = BridgeOrder[n + 1] /\ row.answer = answer
      BY DEF Running
    <3>5. /\ Len(asked) = n /\ DOMAIN asked = 1..n
          /\ Len(asked') = n + 1 /\ DOMAIN asked' = 1..(n + 1)
          /\ \A i \in 1..n : asked'[i] = asked[i]
          /\ asked'[n + 1] = row
      <4> HIDE DEF row
      <4>1. asked' = Append(asked, row)
        BY <3>3 DEF row
      <4> QED
        BY <3>2, <4>1, ListGrows DEF Heeded
    <3> HIDE DEF row
    <3>6. \A i \in 1..n : asked'[i].component = BridgeOrder[i] /\ EngineAllows(asked'[i].answer)
      BY <3>2, <3>5 DEF Heeded
    <3>7. asked'[n + 1].component = BridgeOrder[n + 1] /\ EngineAllows(asked'[n + 1].answer)
      BY <3>3, <3>4, <3>5
    <3> QED
      BY <2>2, <2>3, <3>5, <3>6, <3>7 DEF Heeded
  <2>7. receipt' = NoReceipt
    BY DEF CallInv
  <2> QED
    BY <2>4, <2>5, <2>6, <2>7 DEF CallInv
<1> QED
  BY <1>1, <1>2

LEMMA StepPreserves == CallInv /\ [Next]_vars => CallInv'
<1> SUFFICES ASSUME CallInv, [Next]_vars PROVE CallInv'
  OBVIOUS
<1>1. asked \in Seq(Range(asked)) /\ (UNCHANGED asked => asked' \in Seq(Range(asked')))
  BY DEF CallInv
<1>2. payload \in Payloads
  BY DEF CallInv, TypeOK
<1>3. CASE Validate
  <2>1. CASE pc' = "fail"
    <3>1. \E why \in {"INVALID_CONTRACT_VERSION", "INVALID_REQUEST"} : Fail(why)
      BY <1>3, <2>1 DEF Validate, Fail, Continue
    <3> QED
      BY <1>1, <1>3, <3>1, FailStep DEF Validate, ReasonIds
  <2>2. CASE pc' # "fail"
    <3>1. Continue("request_id")
      BY <1>3, <2>2 DEF Validate, Fail
    <3>2. Paced'
      BY <1>3, <3>1 DEF Validate, Continue, CallInv, Paced
    <3> QED
      BY <1>3, <3>1, <3>2, ContinueStep DEF Validate
  <2> QED
    BY <2>1, <2>2
<1>4. CASE BindRequestId
  <2>1. Continue("context") /\ Paced'
    BY <1>4 DEF BindRequestId, Continue, CallInv, Paced
  <2> QED
    BY <1>4, <2>1, ContinueStep DEF BindRequestId
<1>5. CASE BindContext
  <2> DEFINE error == ContextError(request, payload)
  <2>1. CASE error # "none"
    <3>1. BindingReason[error] \in ReasonIds
      BY <1>2, <2>1, ContextErrorIsKnown, FailureReasons
    <3>2. Fail(BindingReason[error])
      BY <1>5, <2>1 DEF BindContext
    <3> QED
      BY <1>1, <1>5, <3>1, <3>2, FailStep DEF BindContext
  <2>2. CASE error = "none"
    <3>1. Continue("bridge")
      BY <1>5, <2>2 DEF BindContext
    <3>2. Paced'
      <4>1. Len(verdicts) = 0 /\ UNCHANGED verdicts
        BY <1>5 DEF BindContext, CallInv, Paced
      <4> QED
        BY <3>1, <4>1, BridgeList DEF Continue, Paced
    <3> QED
      BY <1>5, <3>1, <3>2, ContinueStep DEF BindContext
  <2> QED
    BY <2>1, <2>2
<1>6. CASE BridgeRequestId
  <2>1. Continue("bridge_context") /\ Paced'
    BY <1>6 DEF BridgeRequestId, Continue, CallInv, Paced
  <2> QED
    BY <1>6, <2>1, ContinueStep DEF BridgeRequestId
<1>7. CASE BridgeContext
  <2> DEFINE error == ContextError(request, payload)
  <2>1. CASE error # "none"
    <3>1. BridgeReason[error] \in ReasonIds
      BY <1>2, <2>1, ContextErrorIsKnown, FailureReasons
    <3>2. Fail(BridgeReason[error])
      BY <1>7, <2>1 DEF BridgeContext
    <3> QED
      BY <1>1, <1>7, <3>1, <3>2, FailStep DEF BridgeContext
  <2>2. CASE error = "none"
    <3>1. Continue("bridge_input")
      BY <1>7, <2>2 DEF BridgeContext
    <3>2. Paced'
      BY <1>7, <3>1 DEF BridgeContext, Continue, CallInv, Paced
    <3> QED
      BY <1>7, <3>1, <3>2, ContinueStep DEF BridgeContext
  <2> QED
    BY <2>1, <2>2
<1>8. CASE BridgeInput
  <2>1. CASE Running \in payload.inputs
    <3>1. Continue("engine") /\ UNCHANGED verdicts
      BY <1>8, <2>1 DEF BridgeInput
    <3>2. Paced'
      BY <1>8, <3>1 DEF BridgeInput, Continue, CallInv, Paced
    <3> QED
      BY <1>8, <3>1, <3>2, ContinueStep DEF BridgeInput
  <2>2. CASE Running \notin payload.inputs
    <3> DEFINE result == ErrorResult("missing_component_input")
    <3>1. Collect(result)
      BY <1>8, <2>2 DEF BridgeInput
    <3>2. result.decision = "ERROR" /\ result.error \in Exceptions
      BY ErrorResultIsAnError
    <3> HIDE DEF result
    <3> QED
      BY <1>1, <1>8, <3>1, <3>2, CollectStep DEF BridgeInput, BridgeDecisions
  <2> QED
    BY <2>1, <2>2
<1>9. ASSUME NEW answer \in Answers, Engine(answer) PROVE CallInv'
  <2> DEFINE result == EngineResult(answer)
             row == [component |-> Running, answer |-> answer]
  <2>1. Collect(result) /\ asked' = Append(asked, row)
    BY <1>9 DEF Engine
  <2>2. /\ result.decision \in BridgeDecisions
        /\ result.error \in Exceptions
        /\ result.decision = "ALLOW" /\ result.error = "none" => EngineAllows(answer)
    BY <1>9, EngineResultIsADecision
  <2>3. asked' \in Seq(Range(asked'))
    <3> HIDE DEF row
    <3> QED
      BY <1>1, <2>1, ListGrows
  <2>4. result.error = "none" /\ result.decision = "ALLOW" =>
            \E a : /\ asked' = Append(asked, [component |-> Running, answer |-> a])
                   /\ EngineAllows(a)
    BY <2>1, <2>2
  <2> HIDE DEF result, row
  <2> QED
    BY <1>9, <2>1, <2>2, <2>3, <2>4, CollectStep DEF Engine
<1>10. CASE BuildReceipt
  <2>1. CASE Buildable(requestId, contextHash, verdicts)
    <3>1. /\ receipt' = Receipt(requestId, contextHash, verdicts)
          /\ pc = "receipt" /\ pc' = "sink"
          /\ UNCHANGED <<inputs, requestId, contextHash, verdicts, asked, reason>>
      BY <1>10, <2>1 DEF BuildReceipt, Continue, binding
    <3>2. TypeOK' /\ Paced'
      BY <3>1 DEF CallInv, TypeOK, Paced, Phases, inputs
    <3>3. Built'
      BY <2>1, <3>1 DEF CallInv, Paced, Built
    <3>4. Unanimous' => Heeded'
      BY <3>1 DEF CallInv, Unanimous, Heeded
    <3> QED
      BY <1>1, <3>1, <3>2, <3>3, <3>4 DEF CallInv
  <2>2. CASE ~ Buildable(requestId, contextHash, verdicts)
    <3>1. Fail("INTERNAL_ERROR")
      BY <1>10, <2>2 DEF BuildReceipt
    <3> QED
      BY <1>1, <1>10, <2>2, <3>1, FailStep DEF BuildReceipt, ReasonIds
  <2> QED
    BY <2>1, <2>2
<1>11. CASE Sink
  <2>1. /\ pc = "sink" /\ pc' = "respond"
        /\ UNCHANGED <<inputs, requestId, contextHash, verdicts, asked, reason, receipt>>
    BY <1>11 DEF Sink, Continue, binding
  <2>2. TypeOK' /\ Paced'
    BY <2>1 DEF CallInv, TypeOK, Paced, Phases, inputs
  <2>3. Built'
    BY <2>1 DEF CallInv, Built
  <2>4. Unanimous' => Heeded'
    BY <2>1 DEF CallInv, Unanimous, Heeded
  <2> QED
    BY <1>1, <2>1, <2>2, <2>3, <2>4 DEF CallInv
<1>12. CASE Respond
  <2>1. /\ pc = "respond" /\ pc' = "answered"
        /\ UNCHANGED <<inputs, requestId, contextHash, verdicts, asked, reason, receipt>>
        /\ Released'
    BY <1>12 DEF Respond, Continue, binding, Released
  <2>2. TypeOK' /\ Paced'
    BY <2>1 DEF CallInv, TypeOK, Paced, Phases, inputs
  <2>3. Built'
    BY <2>1 DEF CallInv, Built
  <2>4. Unanimous' => Heeded'
    BY <2>1 DEF CallInv, Unanimous, Heeded
  <2> QED
    BY <1>1, <2>1, <2>2, <2>3, <2>4 DEF CallInv
<1>13. CASE FailClosed
  <2>1. /\ pc = "fail" /\ pc' \in {"answered", "raised"}
        /\ UNCHANGED <<inputs, verdicts, asked, reason, receipt>>
        /\ pc' = "answered" => response'.outcome = "DENY" /\ response'.receipt = NoReceipt
    BY <1>13 DEF FailClosed
  <2>2. TypeOK' /\ Paced'
    BY <2>1 DEF CallInv, TypeOK, Paced, Phases, inputs
  <2>3. receipt' = NoReceipt
    BY <2>1 DEF CallInv
  <2> QED
    BY <1>1, <2>1, <2>2, <2>3 DEF CallInv, Refused
<1>14. CASE ChangePayload
  <2>1. /\ payload' \in Payloads /\ changes' = changes + 1 /\ changes < MaxChanges
        /\ UNCHANGED <<request, pc, requestId, contextHash, verdicts, asked, receipt, reason, response>>
    BY <1>14 DEF ChangePayload, binding
  <2>2. changes' \in 0..MaxChanges
    BY <2>1, BridgeAssumption DEF CallInv, TypeOK
  <2>3. TypeOK' /\ Paced'
    BY <2>1, <2>2 DEF CallInv, TypeOK, Paced
  <2> QED
    BY <1>1, <2>1, <2>3 DEF CallInv, Built, Refused, Released, Unanimous, Heeded
<1>15. CASE UNCHANGED vars
  BY <1>1, <1>15 DEF vars, CallInv, TypeOK, Paced, Built, Refused, Released, Unanimous, Heeded
<1> QED
  BY <1>3, <1>4, <1>5, <1>6, <1>7, <1>8, <1>9, <1>10, <1>11, <1>12, <1>13, <1>14, <1>15
  DEF Next, Step

THEOREM Invariance == Spec => []CallInv
<1>1. Init => CallInv
  BY InitEstablishes
<1>2. CallInv /\ [Next]_vars => CallInv'
  BY StepPreserves
<1> QED
  BY <1>1, <1>2, PTL DEF Spec

\* Every variable stays in its domain: at most one verdict for each bridge, of
\* a known decision, and failures have known reasons.
THEOREM TypeCorrect == Spec => []TypeOK
<1>1. CallInv => TypeOK
  BY DEF CallInv
<1> QED
  BY <1>1, Invariance, PTL

-----------------------------------------------------------------------------
(* What the answer says.                                                    *)

\* The answer of a receipt is the most severe verdict.
LEMMA AnswerIsMostSevere ==
    ASSUME NEW decisions \in SUBSET BridgeDecisions, decisions # {}
    PROVE  ResponseOutcome[Classify(decisions).outcome] = Promise!MostSevere(decisions)
<1>1. "SKIPPED" \notin decisions /\ decisions \subseteq {"ALLOW", "ESCALATE", "DENY", "ERROR"}
  BY DEF BridgeDecisions
<1>2. CASE "DENY" \in decisions \/ "ERROR" \in decisions
  BY <1>2 DEF Classify, ResponseOutcome, Promise!MostSevere
<1>3. CASE "DENY" \notin decisions /\ "ERROR" \notin decisions /\ "ESCALATE" \in decisions
  BY <1>1, <1>3 DEF Classify, ResponseOutcome, Promise!MostSevere
<1>4. CASE "DENY" \notin decisions /\ "ERROR" \notin decisions /\ "ESCALATE" \notin decisions
  <2>1. decisions = {"ALLOW"}
    BY <1>1, <1>4
  <2> QED
    BY <1>1, <1>4, <2>1 DEF Classify, ResponseOutcome, Promise!MostSevere
<1> QED
  BY <1>2, <1>3, <1>4

\* An answer of ALLOW: every engine was asked, in order, and allowed.
THEOREM Unanimity == Spec => []AllowIsUnanimous
<1>1. CallInv => AllowIsUnanimous
  <2> SUFFICES ASSUME CallInv, Answered, response.outcome = "ALLOW"
               PROVE  /\ [i \in DOMAIN asked |-> asked[i].component] = BridgeOrder
                      /\ \A i \in DOMAIN asked : EngineAllows(asked[i].answer)
    BY DEF AllowIsUnanimous
  <2>1. Built /\ Released /\ (Unanimous => Heeded)
    BY DEF CallInv, Answered, Refused
  <2>2. ResponseOutcome[Classify(Decisions(verdicts)).outcome] = "ALLOW"
    BY <2>1 DEF Built, Released, Receipt, Unhashed
  <2>3. Classify(Decisions(verdicts)).outcome = "ALLOW"
    BY <2>2 DEF Classify, ResponseOutcome
  <2>4. {"DENY", "ERROR", "ESCALATE"} \cap Decisions(verdicts) = {}
    BY <2>3 DEF Classify
  <2>5. Unanimous
    BY <2>4 DEF CallInv, TypeOK, BridgeDecisions, Decisions, Unanimous
  <2>6. Heeded
    BY <2>1, <2>5
  <2>7. DOMAIN asked = 1..Len(BridgeOrder)
    <3>1. Len(asked) = Len(BridgeOrder)
      BY <2>1, <2>6 DEF Built, Heeded
    <3> QED
      BY <2>6, <3>1, SequenceIsList DEF Heeded
  <2> QED
    BY <2>6, <2>7, BridgeList DEF Heeded
<1> QED
  BY <1>1, Invariance, PTL

\* Receipt and verdicts are of the response's context, whatever became of the
\* payload.
THEOREM OneContextAlways == Spec => []OneContext
<1>1. CallInv => OneContext
  <2> SUFFICES ASSUME CallInv, WithReceipt,
                      NEW x \in {response.receipt} \cup Range(response.receipt.verdicts)
               PROVE  x.context = response.context
    BY DEF OneContext
  <2>1. Built /\ Released
    BY DEF CallInv, WithReceipt, Answered, Refused
  <2>2. /\ response.context = contextHash
        /\ response.receipt = Receipt(requestId, contextHash, verdicts)
    BY <2>1 DEF Built, Released
  <2>3. CASE x = response.receipt
    BY <2>2, <2>3 DEF Receipt, Unhashed
  <2>4. CASE x \in Range(response.receipt.verdicts)
    <3>1. response.receipt.verdicts = Sorted(verdicts)
      BY <2>2 DEF Receipt, Unhashed
    <3>2. PICK k \in DOMAIN ComponentOrder : x = Sorted(verdicts)[k]
      BY <2>4, <3>1 DEF Range, Sorted
    <3>3. ComponentOrder[k] \in {verdicts[i].component : i \in DOMAIN verdicts}
      BY <2>1 DEF Built, Buildable, Components, Range
    <3>4. \E i \in DOMAIN verdicts : x = verdicts[i]
      BY <3>2, <3>3 DEF Sorted
    <3> QED
      BY <2>1, <2>2, <3>4 DEF Built, Buildable, ValidVerdict
  <2> QED
    BY <2>3, <2>4
<1> QED
  BY <1>1, Invariance, PTL

\* From the receipt on, the call can only answer what the receipt says.
THEOREM SinkIsSilent == Spec => []SinkHasNoSay
<1>1. CallInv => SinkHasNoSay
  BY DEF CallInv, SinkHasNoSay, Answered, Refused, Released
<1> QED
  BY <1>1, Invariance, PTL

-----------------------------------------------------------------------------
(* Refinement of FailClosed.                                                *)

\* A step that neither adds a verdict nor ends the call is a stutter.
LEMMA SilentStep ==
    ASSUME UNCHANGED verdicts, pc \notin Ended, pc' \notin Ended
    PROVE  UNCHANGED <<Heard, Answer>>
  BY DEF Heard, Answer, Ended

\* A result that joins the verdicts is a member heard.
LEMMA CollectRefines ==
    ASSUME CallInv, CallInv', pc \in {"bridge_input", "engine"},
           NEW result, Collect(result)
    PROVE  Promise!Next \/ UNCHANGED <<Heard, Answer>>
<1>1. CASE result.error # "none"
  BY <1>1, SilentStep DEF Collect, Fail, Ended
<1>2. CASE result.error = "none"
  <2> DEFINE n == Len(verdicts)
             verdict == ComponentVerdict(result.decision)
  <2>1. verdicts' = Append(verdicts, verdict) /\ pc' \notin Ended /\ pc \notin Ended
    BY <1>2 DEF Collect, Continue, Ended
  <2>2. n \in Nat /\ n < Len(BridgeOrder) /\ verdicts \in Seq(Range(verdicts))
    BY DEF CallInv, TypeOK, Paced
  <2>3. /\ Len(verdicts') = n + 1
        /\ DOMAIN verdicts = 1..n /\ DOMAIN verdicts' = 1..(n + 1)
        /\ \A i \in 1..n : verdicts'[i] = verdicts[i]
    <3> HIDE DEF verdict
    <3> QED
      BY <2>1, <2>2, ListGrows
  <2>4. verdicts'[n + 1].decision \in BridgeDecisions
    BY <2>2, <2>3 DEF CallInv, TypeOK
  <2>5. n + 1 \in DOMAIN BridgeOrder /\ Heard[n + 1] = "SILENT"
    BY <2>2, BridgeList DEF Heard
  <2>6. Heard' = [Heard EXCEPT ![n + 1] = verdicts'[n + 1].decision]
    <3>1. \A i \in DOMAIN BridgeOrder \ {n + 1} : i =< Len(verdicts') <=> i =< n
      BY <2>2, <2>3, BridgeList
    <3>2. \A i \in DOMAIN BridgeOrder \ {n + 1} : Heard'[i] = Heard[i]
      BY <2>2, <2>3, <3>1, BridgeList DEF Heard
    <3>3. Heard'[n + 1] = verdicts'[n + 1].decision
      BY <2>2, <2>3, <2>5 DEF Heard
    <3> QED
      BY <3>2, <3>3 DEF Heard
  <2>7. Answer = "UNDECIDED" /\ Answer' = "UNDECIDED"
    BY <2>1 DEF Answer, Ended
  <2>8. Promise!Hear(n + 1)
    BY <2>4, <2>5, <2>6, <2>7 DEF Promise!Hear
  <2> QED
    BY <2>5, <2>8 DEF Promise!Next
<1> QED
  BY <1>1, <1>2

\* The response of a receipt is the decision over everything heard.
LEMMA RespondRefines ==
    ASSUME CallInv, CallInv', Respond
    PROVE  Promise!Decide
<1>1. /\ pc = "respond" /\ pc' = "answered" /\ UNCHANGED verdicts
      /\ response'.outcome = ResponseOutcome[receipt.outcome]
  BY DEF Respond, Continue
<1>2. Built
  BY <1>1 DEF CallInv
<1>3. receipt.outcome = Classify(Decisions(verdicts)).outcome
  BY <1>2 DEF Built, Receipt, Unhashed
<1>4. DOMAIN verdicts = DOMAIN BridgeOrder /\ DOMAIN BridgeOrder = 1..Len(verdicts)
  BY <1>2, BridgeList, SequenceIsList DEF Built, CallInv, TypeOK
<1>5. \A i \in DOMAIN BridgeOrder : Heard[i] = verdicts[i].decision
  BY <1>2, <1>4, BridgeList DEF Heard, Built
<1>6. {Heard[m] : m \in DOMAIN BridgeOrder} = Decisions(verdicts)
  BY <1>4, <1>5 DEF Decisions
<1>7. Decisions(verdicts) \in SUBSET BridgeDecisions /\ Decisions(verdicts) # {}
  BY <1>4, BridgeList DEF CallInv, TypeOK, Decisions
<1>8. Answer' = Promise!MostSevere({Heard[m] : m \in DOMAIN BridgeOrder})
  BY <1>1, <1>3, <1>6, <1>7, AnswerIsMostSevere DEF Answer
<1>9. \A m \in DOMAIN BridgeOrder : Heard[m] # "SILENT"
  BY <1>4, <1>5 DEF CallInv, TypeOK, BridgeDecisions
<1> QED
  BY <1>1, <1>8, <1>9 DEF Promise!Decide, Answer, Heard

LEMMA InitRefines == Init => Promise!Init
<1> SUFFICES ASSUME Init PROVE Promise!Init
  OBVIOUS
<1>1. \A i \in DOMAIN BridgeOrder : ~ (i =< Len(verdicts))
  BY BridgeList DEF Init
<1> QED
  BY <1>1 DEF Init, Promise!Init, Heard, Answer

LEMMA StepRefines ==
    CallInv /\ CallInv' /\ [Next]_vars => Promise!Next \/ UNCHANGED <<Heard, Answer>>
<1> SUFFICES ASSUME CallInv, CallInv', [Next]_vars
             PROVE  Promise!Next \/ UNCHANGED <<Heard, Answer>>
  OBVIOUS
<1>1. CASE Validate \/ BindRequestId \/ BindContext \/ BridgeRequestId \/ BridgeContext
           \/ BuildReceipt \/ Sink
  <2>1. UNCHANGED verdicts /\ pc \notin Ended /\ pc' \notin Ended
    BY <1>1 DEF Validate, BindRequestId, BindContext, BridgeRequestId, BridgeContext,
                BuildReceipt, Sink, Fail, Continue, Ended
  <2> QED
    BY <2>1, SilentStep
<1>2. CASE BridgeInput
  <2>1. CASE Running \in payload.inputs
    BY <1>2, <2>1, SilentStep DEF BridgeInput, Continue, Ended
  <2>2. CASE Running \notin payload.inputs
    BY <1>2, <2>2, CollectRefines DEF BridgeInput
  <2> QED
    BY <2>1, <2>2
<1>3. ASSUME NEW answer \in Answers, Engine(answer)
      PROVE  Promise!Next \/ UNCHANGED <<Heard, Answer>>
  BY <1>3, CollectRefines DEF Engine
<1>4. CASE Respond
  BY <1>4, RespondRefines DEF Promise!Next
<1>5. CASE FailClosed
  <2>1. /\ UNCHANGED verdicts /\ pc = "fail"
        /\ \/ pc' = "answered" /\ response'.outcome = "DENY"
           \/ pc' = "raised"
    BY <1>5 DEF FailClosed
  <2>2. Answer = "UNDECIDED" /\ Answer' \in {"DENY", "NONE"} /\ Heard' = Heard
    BY <2>1 DEF Answer, Heard
  <2> QED
    BY <2>2 DEF Promise!Next, Promise!Deny
<1>6. CASE ChangePayload \/ UNCHANGED vars
  BY <1>6 DEF ChangePayload, vars, Heard, Answer
<1> QED
  BY <1>1, <1>2, <1>3, <1>4, <1>5, <1>6 DEF Next, Step

\* The orchestrator implements FailClosed, for any components, payloads that
\* change at any step, and any answers.
THEOREM RefinesFailClosed == Spec => KeepsFailClosed
<1>1. CallInv /\ CallInv' /\ [Next]_vars => [Promise!Next]_<<Heard, Answer>>
  BY StepRefines
<1> QED
  BY <1>1, InitRefines, Invariance, PTL DEF Spec, KeepsFailClosed, Promise!Spec
-----------------------------------------------------------------------------
(* A receipt is rebuilt from its own verdicts.                              *)

LEMMA StrippedOnce ==
    ASSUME NEW text, "form" \in DOMAIN text
    PROVE  /\ Stripped(Stripped(text)) = Stripped(text)
           /\ Stripped(text).form \in {text.form, "clean"}
           /\ "form" \in DOMAIN Stripped(text)
<1>1. CASE text.form = "padded"
  <2>1. Stripped(text) = [text EXCEPT !.form = "clean"]
    BY <1>1 DEF Stripped
  <2>2. Stripped(text).form = "clean" /\ DOMAIN Stripped(text) = DOMAIN text
    BY <2>1
  <2> QED
    BY <2>2 DEF Stripped
<1>2. CASE text.form # "padded"
  BY <1>2 DEF Stripped
<1> QED
  BY <1>1, <1>2

\* In canonical order, each component's verdict is where the component is.
LEMMA SortedIsInOrder ==
    ASSUME NEW id, NEW context, NEW vs, Buildable(id, context, vs)
    PROVE  /\ DOMAIN Sorted(vs) = DOMAIN ComponentOrder
           /\ \A k \in DOMAIN ComponentOrder :
                  /\ Sorted(vs)[k].component = ComponentOrder[k]
                  /\ \E i \in DOMAIN vs : Sorted(vs)[k] = vs[i]
<1> SUFFICES ASSUME NEW k \in DOMAIN ComponentOrder
             PROVE  /\ Sorted(vs)[k].component = ComponentOrder[k]
                    /\ \E i \in DOMAIN vs : Sorted(vs)[k] = vs[i]
  BY DEF Sorted
<1>1. ComponentOrder[k] \in {vs[i].component : i \in DOMAIN vs}
  BY DEF Buildable, Components, Range
<1>2. \E i \in DOMAIN vs : vs[i].component = ComponentOrder[k]
  BY <1>1
<1> QED
  BY <1>2 DEF Sorted

\* No verdict is lost, or counted for another component.
LEMMA SortedHasEach ==
    ASSUME NEW id, NEW context, NEW vs, Buildable(id, context, vs),
           NEW k \in DOMAIN ComponentOrder, NEW i \in DOMAIN vs,
           vs[i].component = ComponentOrder[k]
    PROVE  Sorted(vs)[k] = vs[i]
<1>1. PICK j \in DOMAIN vs : Sorted(vs)[k] = vs[j]
  BY SortedIsInOrder
<1>2. vs[j].component = ComponentOrder[k]
  BY <1>1, SortedIsInOrder
<1> DEFINE ids == [m \in DOMAIN vs |-> vs[m].component]
<1>3. IsInjective(ids) /\ DOMAIN ids = DOMAIN vs /\ ids[i] = ids[j]
  BY <1>2 DEF Buildable
<1>4. i = j
  <2> HIDE DEF ids
  <2> QED
    BY <1>3 DEF IsInjective
<1> QED
  BY <1>1, <1>4

LEMMA SortedSameDecisions ==
    ASSUME NEW id, NEW context, NEW vs, Buildable(id, context, vs)
    PROVE  Decisions(Sorted(vs)) = Decisions(vs)
<1>1. ASSUME NEW k \in DOMAIN ComponentOrder
      PROVE  \E i \in DOMAIN vs : Sorted(vs)[k].decision = vs[i].decision
  <2>1. PICK i \in DOMAIN vs : Sorted(vs)[k] = vs[i]
    BY SortedIsInOrder
  <2> QED
    BY <2>1
<1>2. ASSUME NEW i \in DOMAIN vs
      PROVE  \E k \in DOMAIN ComponentOrder : Sorted(vs)[k].decision = vs[i].decision
  <2>1. PICK k \in DOMAIN ComponentOrder : vs[i].component = ComponentOrder[k]
    BY DEF Buildable, ValidVerdict, Components, Range
  <2>2. Sorted(vs)[k] = vs[i]
    BY <2>1, SortedHasEach
  <2> QED
    BY <2>2
<1>3. DOMAIN Sorted(vs) = DOMAIN ComponentOrder
  BY SortedIsInOrder
<1> QED
  BY <1>1, <1>2, <1>3 DEF Decisions

LEMMA SortedTwice ==
    ASSUME NEW id, NEW context, NEW vs, Buildable(id, context, vs)
    PROVE  Sorted(Sorted(vs)) = Sorted(vs)
<1> DEFINE s == Sorted(vs)
<1>1. DOMAIN s = DOMAIN ComponentOrder
      /\ \A k \in DOMAIN ComponentOrder : s[k].component = ComponentOrder[k]
  BY SortedIsInOrder
<1>2. s = [k \in DOMAIN ComponentOrder |-> s[k]]
  BY DEF Sorted
<1> HIDE DEF s
<1>3. ASSUME NEW k \in DOMAIN ComponentOrder
      PROVE  (CHOOSE i \in DOMAIN s : s[i].component = ComponentOrder[k]) = k
  <2>1. \A i \in DOMAIN s : s[i].component = ComponentOrder[k] => i = k
    BY <1>1, ComponentAssumption DEF IsInjective
  <2>2. k \in DOMAIN s /\ s[k].component = ComponentOrder[k]
    BY <1>1
  <2> QED
    BY <2>1, <2>2
<1> DEFINE t == Sorted(s)
<1>4. ASSUME NEW k \in DOMAIN ComponentOrder
      PROVE  t[k] = s[k]
  BY <1>3 DEF Sorted
<1>5. t = [k \in DOMAIN ComponentOrder |-> t[k]]
  BY DEF Sorted
<1> HIDE DEF t
<1>6. t = s
  BY <1>2, <1>4, <1>5
<1> QED
  BY <1>6 DEF s, t

LEMMA SortedIsBuildable ==
    ASSUME NEW id, "form" \in DOMAIN id, NEW context, NEW vs,
           Buildable(id, context, vs)
    PROVE  Buildable(Stripped(id), context, Sorted(vs))
<1> DEFINE s == Sorted(vs)
<1>1. /\ DOMAIN s = DOMAIN ComponentOrder
      /\ \A k \in DOMAIN s : s[k].component = ComponentOrder[k]
      /\ \A k \in DOMAIN s : \E i \in DOMAIN vs : s[k] = vs[i]
  BY SortedIsInOrder
<1> HIDE DEF s
<1>2. Stripped(id).form \notin {"blank", "unencodable"}
  BY StrippedOnce DEF Buildable
<1>3. \A k \in DOMAIN s : ValidVerdict(s[k], context) /\ s[k].request.form # "unencodable"
  BY <1>1 DEF Buildable
<1>4. IsInjective([k \in DOMAIN s |-> s[k].component])
  BY <1>1, ComponentAssumption DEF IsInjective
<1>5. Components \subseteq {s[k].component : k \in DOMAIN s}
  BY <1>1 DEF Components, Range
<1>6. IsHash(context)
  BY DEF Buildable
<1> QED
  BY <1>2, <1>3, <1>4, <1>5, <1>6 DEF Buildable, s

LEMMA ReceiptRebuildsItself ==
    ASSUME NEW id, "form" \in DOMAIN id, NEW context, NEW vs,
           Buildable(id, context, vs)
    PROVE  ValidReceipt(Receipt(id, context, vs), context)
<1> DEFINE r == Receipt(id, context, vs)
<1>1. /\ r.request = Stripped(id) /\ r.context = context /\ r.verdicts = Sorted(vs)
      /\ r.form = "exact"
  BY DEF Receipt, Unhashed
<1>2. Unhashed(Stripped(id), context, Sorted(vs)) = Unhashed(id, context, vs)
  BY StrippedOnce, SortedTwice, SortedSameDecisions DEF Unhashed
<1>3. Receipt(Stripped(id), context, Sorted(vs)) = r
  BY <1>2 DEF Receipt
<1>4. IsHash(context)
  BY DEF Buildable
<1> HIDE DEF r
<1>5. Buildable(r.request, r.context, r.verdicts) /\ Receipt(r.request, r.context, r.verdicts) = r
  BY <1>1, <1>3, SortedIsBuildable
<1> QED
  BY <1>1, <1>4, <1>5 DEF ValidReceipt, r

-----------------------------------------------------------------------------
(* The request id of a call is a text.                                      *)

TextInv == "form" \in DOMAIN requestId

LEMMA StepKeepsText ==
    ASSUME CallInv, TextInv, [Next]_vars
    PROVE  TextInv'
<1>1. CASE BindRequestId
  <2>1. "form" \in DOMAIN request.nonce /\ "form" \in DOMAIN payload.requestId
    BY TextAssumption DEF CallInv, TypeOK
  <2>2. "form" \in DOMAIN Stripped(payload.requestId)
    BY <2>1, StrippedOnce
  <2> QED
    BY <1>1, <2>1, <2>2 DEF BindRequestId, ReceiptRequestId, TextInv
<1>2. CASE UNCHANGED requestId
  BY <1>2 DEF TextInv
<1> QED
  BY <1>1, <1>2 DEF Next, Step, Validate, BindContext, BridgeRequestId, BridgeContext, BridgeInput,
     Engine, BuildReceipt, Sink, Respond, FailClosed, ChangePayload, vars, binding

LEMMA TextInvariance == Spec => []TextInv
<1>1. Init => TextInv
  BY DEF Init, TextInv
<1> QED
  BY <1>1, StepKeepsText, Invariance, PTL DEF Spec

\* Whatever order the verdicts came in and whatever became of the payload, the
\* receipt of a response is the one its own verdicts build, in the context of
\* the response (v3/contracts/v3_2_receipt.py:304-326).
THEOREM ReceiptsAlwaysValidate == Spec => []ReceiptsValidate
<1>1. CallInv /\ TextInv => ReceiptsValidate
  <2> SUFFICES ASSUME CallInv, TextInv, WithReceipt
               PROVE  ValidReceipt(response.receipt, response.context)
    BY DEF ReceiptsValidate
  <2>1. Built /\ Released
    BY DEF CallInv, WithReceipt, Answered, Refused
  <2> QED
    BY <2>1, ReceiptRebuildsItself DEF Built, Released, TextInv
<1> QED
  BY <1>1, Invariance, TextInvariance, PTL

-----------------------------------------------------------------------------
(* The trace.                                                               *)

\* Entries of the trace beside the verdicts' own, before and after them.
Beside ==
    IF pc = "sink" THEN 2 ELSE IF pc = "respond" THEN 3 ELSE 1

\* What the trace says of the verdicts so far.
Tells(entries) ==
    \A i \in DOMAIN verdicts :
        /\ verdicts[i].component = BridgeOrder[i]
        /\ entries[i + 1].component = BridgeOrder[i]
        /\ entries[i + 1].status = TraceStatus(verdicts[i].decision)

Told ==
    /\ trace \in Seq(Range(trace))
    /\ Len(trace) = Len(verdicts) + Beside
    /\ Tells(trace)

TraceInv ==
    /\ pc \in {"bridge", "bridge_context", "bridge_input", "engine", "receipt", "sink", "respond"}
           => Told
    /\ WithReceipt =>
           /\ Len(response.trace) = Len(verdicts) + 3
           /\ Tells(response.trace)

\* An entry after those of the verdicts leaves what is told of them.
LEMMA EntryAfter ==
    ASSUME NEW e, CallInv, Told, trace' = Append(trace, e), UNCHANGED verdicts
    PROVE  /\ trace' \in Seq(Range(trace'))
           /\ Len(trace') = Len(verdicts) + Beside + 1
           /\ Tells(trace)'
<1>1. /\ trace' \in Seq(Range(trace')) /\ Len(trace') = Len(trace) + 1
      /\ Len(trace) \in Nat /\ DOMAIN trace = 1..Len(trace)
      /\ \A i \in DOMAIN trace : trace'[i] = trace[i]
  BY ListGrows DEF Told
<1>2. DOMAIN verdicts = 1..Len(verdicts) /\ Len(verdicts) \in Nat
  BY SequenceIsList DEF CallInv, TypeOK
<1>3. Beside \in 1..3
  BY DEF Beside
<1>4. \A i \in DOMAIN verdicts : i + 1 \in DOMAIN trace
  BY <1>1, <1>2, <1>3 DEF Told
<1>5. Tells(trace)'
  BY <1>1, <1>4 DEF Told, Tells
<1> QED
  BY <1>1, <1>2, <1>3, <1>5 DEF Told

LEMMA CollectTells ==
    ASSUME CallInv, TraceInv, pc \in {"bridge_input", "engine"},
           NEW result, Collect(result)
    PROVE  TraceInv'
<1>1. CASE result.error # "none"
  BY <1>1 DEF Collect, Fail, TraceInv, WithReceipt, Answered
<1>2. CASE result.error = "none"
  <2> DEFINE n == Len(verdicts)
             verdict == ComponentVerdict(result.decision)
             entry == TraceEntry(Running, TraceStatus(result.decision), result.note)
  <2>1. /\ verdicts' = Append(verdicts, verdict)
        /\ trace' = Append(trace, entry)
        /\ pc' \in {"receipt", "bridge"}
    BY <1>2 DEF Collect, Continue
  <2>2. /\ verdict.component = BridgeOrder[n + 1] /\ verdict.decision = result.decision
        /\ entry.component = BridgeOrder[n + 1] /\ entry.status = TraceStatus(result.decision)
    BY DEF ComponentVerdict, TraceEntry, Running
  <2> HIDE DEF verdict, entry
  <2>3. /\ verdicts \in Seq(Range(verdicts))
        /\ trace \in Seq(Range(trace)) /\ Len(trace) = n + 1 /\ Tells(trace)
    BY DEF CallInv, TypeOK, TraceInv, Told, Beside
  <2>4. /\ n \in Nat /\ Len(verdicts') = n + 1
        /\ DOMAIN verdicts = 1..n /\ DOMAIN verdicts' = 1..(n + 1)
        /\ \A i \in DOMAIN verdicts : verdicts'[i] = verdicts[i]
        /\ verdicts'[n + 1] = verdict
    BY <2>1, <2>3, ListGrows
  <2>5. /\ trace' \in Seq(Range(trace')) /\ Len(trace') = n + 2
        /\ DOMAIN trace = 1..(n + 1)
        /\ \A i \in DOMAIN trace : trace'[i] = trace[i]
        /\ trace'[n + 2] = entry
    <3>1. /\ trace' \in Seq(Range(trace')) /\ Len(trace') = Len(trace) + 1
          /\ DOMAIN trace = 1..Len(trace)
          /\ \A i \in DOMAIN trace : trace'[i] = trace[i]
          /\ trace'[Len(trace) + 1] = entry
      BY <2>1, <2>3, ListGrows
    <3> QED
      BY <2>3, <2>4, <3>1
  <2>6. Tells(trace)'
    <3> SUFFICES ASSUME NEW i \in 1..(n + 1)
                 PROVE  /\ verdicts'[i].component = BridgeOrder[i]
                        /\ trace'[i + 1].component = BridgeOrder[i]
                        /\ trace'[i + 1].status = TraceStatus(verdicts'[i].decision)
      BY <2>4 DEF Tells
    <3>1. CASE i \in 1..n
      <4>1. i + 1 \in DOMAIN trace
        BY <2>4, <2>5, <3>1
      <4> QED
        BY <2>3, <2>4, <2>5, <3>1, <4>1 DEF Tells
    <3>2. CASE i = n + 1
      <4>1. i + 1 = n + 2
        BY <2>4, <3>2
      <4> QED
        BY <2>2, <2>4, <2>5, <3>2, <4>1
    <3> QED
      BY <2>4, <3>1, <3>2
  <2>7. Len(trace') = Len(verdicts') + 1
    BY <2>4, <2>5
  <2> QED
    BY <2>1, <2>5, <2>6, <2>7 DEF TraceInv, Told, Beside, WithReceipt, Answered
<1> QED
  BY <1>1, <1>2

LEMMA StepKeepsTrace ==
    ASSUME CallInv, TraceInv, [Next]_vars
    PROVE  TraceInv'
<1>1. CASE Validate \/ BindRequestId
  BY <1>1 DEF Validate, BindRequestId, Fail, Continue, TraceInv, WithReceipt, Answered
<1>2. CASE BindContext
  <2>1. CASE pc' = "fail"
    BY <2>1 DEF TraceInv, WithReceipt, Answered
  <2>2. CASE pc' # "fail"
    <3>1. /\ trace' = <<TraceEntry("orchestrator", "OK", "input_validation")>>
          /\ pc' = "bridge" /\ verdicts' = <<>>
      BY <1>2, <2>2 DEF BindContext, Fail, Continue, CallInv, Paced
    <3>2. trace' \in Seq(Range(trace')) /\ Len(trace') = 1
      <4> DEFINE e == TraceEntry("orchestrator", "OK", "input_validation")
      <4>1. trace' = <<e>>
        BY <3>1
      <4> HIDE DEF e
      <4>2. <<e>> \in Seq({e}) /\ Len(<<e>>) = 1
        OBVIOUS
      <4> QED
        BY <4>1, <4>2, SequenceIsList
    <3>3. Tells(trace)'
      BY <3>1 DEF Tells
    <3> QED
      BY <3>1, <3>2, <3>3 DEF TraceInv, Told, Beside, WithReceipt, Answered
  <2> QED
    BY <2>1, <2>2
<1>3. CASE BridgeRequestId \/ BridgeContext
  <2>1. /\ UNCHANGED <<verdicts, trace>> /\ pc \in {"bridge", "bridge_context"}
        /\ pc' \in {"bridge_context", "bridge_input", "fail"}
    BY <1>3 DEF BridgeRequestId, BridgeContext, Fail, Continue
  <2> QED
    BY <2>1 DEF TraceInv, Told, Tells, Beside, WithReceipt, Answered
<1>4. CASE BridgeInput
  <2>1. CASE Running \in payload.inputs
    <3>1. UNCHANGED <<verdicts, trace>> /\ pc = "bridge_input" /\ pc' = "engine"
      BY <1>4, <2>1 DEF BridgeInput, Continue
    <3> QED
      BY <3>1 DEF TraceInv, Told, Tells, Beside, WithReceipt, Answered
  <2>2. CASE Running \notin payload.inputs
    BY <1>4, <2>2, CollectTells DEF BridgeInput
  <2> QED
    BY <2>1, <2>2
<1>5. ASSUME NEW answer \in Answers, Engine(answer) PROVE TraceInv'
  BY <1>5, CollectTells DEF Engine
<1>6. CASE BuildReceipt \/ Sink
  <2>1. CASE pc' = "fail"
    BY <2>1 DEF TraceInv, WithReceipt, Answered
  <2>2. CASE pc' # "fail"
    <3>1. /\ \E e : trace' = Append(trace, e)
          /\ UNCHANGED verdicts
          /\ \/ pc = "receipt" /\ pc' = "sink"
             \/ pc = "sink" /\ pc' = "respond"
      BY <1>6, <2>2 DEF BuildReceipt, Sink, Fail, Continue
    <3>2. Told
      BY <3>1 DEF TraceInv
    <3>3. /\ trace' \in Seq(Range(trace')) /\ Tells(trace)'
          /\ Len(trace') = Len(verdicts) + Beside + 1
      BY <3>1, <3>2, EntryAfter
    <3>4. Len(verdicts) \in Nat
      BY SequenceIsList DEF CallInv, TypeOK
    <3>5. Len(trace') = Len(verdicts') + Beside'
      BY <3>1, <3>3, <3>4 DEF Beside
    <3> QED
      BY <3>1, <3>3, <3>5 DEF TraceInv, Told, WithReceipt, Answered
  <2> QED
    BY <2>1, <2>2
<1>7. CASE Respond
  <2>1. /\ response'.trace = trace /\ pc = "respond" /\ pc' = "answered"
        /\ UNCHANGED <<verdicts, trace>>
    BY <1>7 DEF Respond, Continue
  <2>2. Len(trace) = Len(verdicts) + 3 /\ Tells(trace)
    BY <2>1 DEF TraceInv, Told, Beside
  <2>3. Len(response'.trace) = Len(verdicts') + 3 /\ Tells(response.trace)'
    BY <2>1, <2>2 DEF Tells
  <2> QED
    BY <2>1, <2>3 DEF TraceInv
<1>8. CASE FailClosed
  <2>1. /\ pc' \in {"answered", "raised"}
        /\ pc' = "answered" => response'.receipt = NoReceipt
    BY <1>8 DEF FailClosed
  <2> QED
    BY <2>1 DEF TraceInv, WithReceipt, Answered
<1>9. CASE ChangePayload \/ UNCHANGED vars
  <2>1. UNCHANGED <<pc, verdicts, trace, response>>
    BY <1>9 DEF ChangePayload, vars
  <2> QED
    BY <2>1 DEF TraceInv, Told, Tells, Beside, WithReceipt, Answered
<1> QED
  BY <1>1, <1>2, <1>3, <1>4, <1>5, <1>6, <1>7, <1>8, <1>9 DEF Next, Step

LEMMA TraceInvariance == Spec => []TraceInv
<1>1. Init => TraceInv
  BY DEF Init, TraceInv, WithReceipt, Answered
<1> QED
  BY <1>1, StepKeepsTrace, Invariance, PTL DEF Spec

\* The trace of a response names the bridges in the order they ran, each with
\* the denial or error its verdict has in the receipt, whose order is another
\* (v3/orchestrate.py:72-95).
THEOREM TraceAlwaysTells == Spec => []TraceTellsReceipt
<1>1. CallInv /\ TraceInv => TraceTellsReceipt
  <2> SUFFICES ASSUME CallInv, TraceInv, WithReceipt
               PROVE  /\ Len(response.trace) = Len(BridgeOrder) + 3
                      /\ \A i \in DOMAIN BridgeOrder :
                             LET entry == response.trace[i + 1]
                                 decision == VerdictOf(response.receipt, BridgeOrder[i]).decision
                             IN  /\ entry.component = BridgeOrder[i]
                                 /\ \A bad \in {"DENY", "ERROR"} :
                                        entry.status = bad <=> decision = bad
    BY DEF TraceTellsReceipt
  <2>1. Built /\ Released
    BY DEF CallInv, WithReceipt, Answered, Refused
  <2>2. /\ Len(response.trace) = Len(verdicts) + 3 /\ Tells(response.trace)
        /\ Len(verdicts) = Len(BridgeOrder)
    BY <2>1 DEF TraceInv, Built
  <2>3. DOMAIN verdicts = DOMAIN BridgeOrder
    BY <2>2, SequenceIsList, BridgeList DEF CallInv, TypeOK
  <2> DEFINE s == Sorted(verdicts)
  <2>4. response.receipt.verdicts = s /\ Buildable(requestId, contextHash, verdicts)
    BY <2>1 DEF Built, Released, Receipt, Unhashed
  <2>5. /\ DOMAIN s = DOMAIN ComponentOrder
        /\ \A k \in DOMAIN ComponentOrder : s[k].component = ComponentOrder[k]
    BY <2>4, SortedIsInOrder
  <2>6. \A k \in DOMAIN ComponentOrder, i \in DOMAIN verdicts :
            verdicts[i].component = ComponentOrder[k] => s[k] = verdicts[i]
    BY <2>4, SortedHasEach
  <2> HIDE DEF s
  <2>7. ASSUME NEW i \in DOMAIN BridgeOrder
        PROVE  VerdictOf(response.receipt, BridgeOrder[i]) = verdicts[i]
    <3>1. verdicts[i].component = BridgeOrder[i]
      BY <2>2, <2>3 DEF Tells
    <3>2. BridgeOrder[i] \in Components
      BY BridgeAssumption, BridgeList
    <3>3. PICK k \in DOMAIN ComponentOrder : ComponentOrder[k] = BridgeOrder[i]
      BY <3>2 DEF Components, Range
    <3>4. \E m \in DOMAIN s : s[m].component = BridgeOrder[i]
      BY <2>5, <3>3
    <3>5. \A m \in DOMAIN s : s[m].component = BridgeOrder[i] => s[m] = verdicts[i]
      BY <2>3, <2>5, <2>6, <3>1
    <3> QED
      BY <2>4, <3>4, <3>5 DEF VerdictOf
  <2>8. ASSUME NEW i \in DOMAIN BridgeOrder, NEW bad \in {"DENY", "ERROR"}
        PROVE  /\ response.trace[i + 1].component = BridgeOrder[i]
               /\ response.trace[i + 1].status = bad <=>
                      VerdictOf(response.receipt, BridgeOrder[i]).decision = bad
    <3>1. /\ response.trace[i + 1].component = BridgeOrder[i]
          /\ response.trace[i + 1].status = TraceStatus(verdicts[i].decision)
      BY <2>2, <2>3 DEF Tells
    <3> QED
      BY <2>7, <3>1 DEF TraceStatus
  <2> QED
    BY <2>2, <2>8
<1> QED
  BY <1>1, Invariance, TraceInvariance, PTL
=============================================================================
