---------------------------- MODULE MCV4Producer ----------------------------
(***************************************************************************)
(* Two components with verdicts fresh and about to end, allowing and       *)
(* denying, within and over what the boundary admits, with a profile       *)
(* written exactly and a padded one; orders of the verifier's context and  *)
(* of another; a registry that rotates twice; and changes of the caller's  *)
(* objects and of the receipt under way.                                   *)
(***************************************************************************)
EXTENDS V4Producer, AuditFixtures

TwoComponents == <<"adn", "dqsn">>
TwoRoles == {"adn", "dqsn", "shield_orchestrator"}

\* Genuine keys of version 1, and how long an ending artifact lasts.
FirstKey(role, algorithm) == KeyOf(role, algorithm, 1)
Ending == [from |-> 2, until |-> Now]

Statement(id, context, window, decision, algorithms) ==
    [id |-> id, form |-> "ok", context |-> context, window |-> window, decision |-> decision,
     algorithms |-> algorithms, profile |-> "exact", json |-> "bounded", bytes |-> 1]

Order(context, window, handoff, algorithms) ==
    [request |-> "request", context |-> context, window |-> window, handoff |-> handoff,
     algorithms |-> algorithms, json |-> "bounded", bytes |-> 1]

\* The allowing verdict of two bytes and the order of two are together over the
\* limit of four, each of them at it with what else there is.
SomeStatements ==
    {[Statement("adn", "context", Ending, "ALLOW", RequiredOnly) EXCEPT !.bytes = 2],
     Statement("adn", "context", Fresh, "DENY", RequiredOnly),
     Statement("dqsn", "context", Fresh, "ALLOW", Hybrid),
     [Statement("dqsn", "context", Fresh, "ALLOW", RequiredOnly) EXCEPT !.profile = "padded"]}

SomeOrders ==
    {Order("context", Fresh, "allowed", RequiredOnly),
     [Order("context", Ending, "none", Hybrid) EXCEPT !.bytes = 2],
     Order("other", Fresh, "none", RequiredOnly)}

\* Version 2 adds keys, version 3 revokes the first ones.
RotatingRegistries ==
    <<FirstRegistry,
      RegistryWith(2, Keys(2, "active") \o Keys(1, "active")),
      RegistryWith(3, Keys(2, "active") \o Keys(1, "revoked"))>>

\* Two of its signatures, where there are more.
OtherBundles(bundle) == {[bundle EXCEPT !.signatures = SubSeq(@, 1, 2)]} \ {bundle}

\* Hashes made to fit, signatures left.
Rehashed(r) == [r EXCEPT !.receiptHash = ReceiptHash(r), !.signedHash = SignedHash(r)]

OtherReceipts(r) ==
    {Rehashed([r EXCEPT !.window.until = @ + 1]),
     Rehashed([r EXCEPT !.components[1].decision = "ALLOW", !.outcome = "ALLOW"])}
=============================================================================
