-------------------------- MODULE MCV3Orchestrator --------------------------
(***************************************************************************)
(* Requests, payloads and engine answers for TLC, over the five components *)
(* or fewer.                                                               *)
(***************************************************************************)
EXTENDS V3Orchestrator

FiveSorted == <<"adn", "dqsn", "guardian_wallet", "qwg", "sentinel_ai">>
FiveBridges == <<"sentinel_ai", "dqsn", "adn", "guardian_wallet", "qwg">>
ThreeSorted == <<"adn", "dqsn", "sentinel_ai">>
ThreeBridges == <<"sentinel_ai", "dqsn", "adn">>

Text(name, form) == [name |-> name, form |-> form]
NoText == Text("none", "absent")

Request == [version |-> TRUE, fields |-> TRUE, nonce |-> Text("n", "clean"), scalars |-> "none"]
PaddedNonce == [Request EXCEPT !.nonce.form = "padded"]

\* One field at a time: what validation refuses, and what it lets pass.
SomeRequests ==
    {Request, PaddedNonce,
     [Request EXCEPT !.nonce.form = "blank"],
     [Request EXCEPT !.nonce.form = "unencodable"],
     [Request EXCEPT !.scalars = "ValueError"],
     [Request EXCEPT !.version = FALSE],
     [Request EXCEPT !.fields = FALSE, !.scalars = "TypeError"],
     [Request EXCEPT !.fields = FALSE]}

\* An AdamantineOS payload: its own request id and context, all inputs.
Payload ==
    [requestId |-> Text("r", "clean"), claimed |-> <<"claimed", "a">>, inputs |-> Components,
     copying |-> "none", encoding |-> "none", data |-> "plain"]
\* A standalone payload: nothing bound, so that the context is computed.
Standalone == [Payload EXCEPT !.requestId = NoText, !.claimed = <<>>]

SomePayloads ==
    {Payload, Standalone,
     [Payload EXCEPT !.requestId = Text("r", "padded")],
     [Payload EXCEPT !.requestId = Text("r", "unencodable")],
     [Payload EXCEPT !.requestId = Text("r", "blank")],
     [Payload EXCEPT !.claimed = Malformed],
     [Payload EXCEPT !.inputs = {}],
     [Payload EXCEPT !.inputs = {"adn", "qwg"}],
     [Payload EXCEPT !.copying = "TypeError"],
     [Standalone EXCEPT !.copying = "TypeError"],
     [Standalone EXCEPT !.copying = "other"],
     [Standalone EXCEPT !.encoding = "TypeError"],
     [Standalone EXCEPT !.encoding = "ValueError"],
     [Standalone EXCEPT !.requestId = Text("r", "unencodable")]}

\* Values one payload object may pass through.
ChangingPayloads ==
    {Payload, Standalone,
     [Payload EXCEPT !.requestId = Text("s", "clean")],
     [Payload EXCEPT !.claimed = <<"claimed", "b">>],
     [Payload EXCEPT !.inputs = @ \ {"dqsn"}],
     [Payload EXCEPT !.copying = "TypeError"],
     [Standalone EXCEPT !.data = "rewritten"],
     [Standalone EXCEPT !.encoding = "TypeError"]}

Saying(word) ==
    [available |-> TRUE, object |-> TRUE, authority |-> FALSE, error |-> "none",
     words |-> [decision |-> word]]

\* One answer of each kind, with several of the keys a decision is looked for
\* under.
SomeAnswers ==
    {[Saying("ALLOW") EXCEPT !.words = [verdict_type |-> "GREEN"]],
     [Saying("ALLOW") EXCEPT !.words = [outcome |-> "DELAY", verdict_type |-> "OK"]],
     [Saying("ALLOW") EXCEPT !.words = [outcome |-> "ALLOW", decision |-> "DENIED"]],
     [Saying("ALLOW") EXCEPT !.words = [risk |-> "OK"]],
     [Saying("ALLOW") EXCEPT !.available = FALSE],
     [Saying("ALLOW") EXCEPT !.authority = TRUE, !.error = "TypeError"],
     [Saying("ALLOW") EXCEPT !.error = "TypeError"]}

MalformedAnswers ==
    {Saying("ALLOW"), [Saying("ALLOW") EXCEPT !.object = FALSE],
     [Saying("ALLOW") EXCEPT !.error = "TypeError"],
     [Saying("ALLOW") EXCEPT !.error = "ValueError"]}

\* One answer of each decision, and two failures: an answer that is no object,
\* and one that cannot be hashed.
AnswersAndFailures ==
    {Saying("SAFE"), Saying("WARN"), Saying("BLOCK"), [Saying("ALLOW") EXCEPT !.object = FALSE],
     [Saying("ALLOW") EXCEPT !.error = "ValueError"]}

OneRequestOnly == {Request}

\* One that is valid, one that is not, and one no failure can be reported for.
ThreeRequests ==
    {Request, [Request EXCEPT !.version = FALSE],
     [Request EXCEPT !.fields = FALSE, !.scalars = "TypeError"]}

OnePayload == {Payload}
PaddedRequest == {PaddedNonce}
=============================================================================
