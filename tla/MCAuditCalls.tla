--------------------------- MODULE MCAuditCalls ---------------------------
(***************************************************************************)
(* Instances with one or two components, so that what the full-size run    *)
(* leaves out fits: two calls at once, and a receipt object that changes   *)
(* while it is copied, under work budgets that bind.                       *)
(***************************************************************************)
EXTENDS VerificationAudit, AuditFixtures

OneComponent == <<"adn">>
TwoRoles == {"adn", "shield_orchestrator"}
OneTrust == {Trusting(FirstRegistry)}

\* Calls that may expect another request than the receipt names.
TwoRequests == OneTrust \cup {[Trusting(FirstRegistry) EXCEPT !.request = "other"]}

\* An acceptable receipt, and one whose events do not fit an audit record.
FewReceipts == {Base} \cup Unrecordable

WholeCopy == [early |-> {}, at |-> "none", items |-> 0]
WholeCopies == {WholeCopy}

TwoComponents == <<"adn", "dqsn">>
ThreeRoles == {"adn", "dqsn", "shield_orchestrator"}

\* Two keys for every role and algorithm, both active.
TwoKeys == RegistryWith(1, Keys(1, "active") \o Keys(2, "active"))
TwoKeysTrust == {Trusting(TwoKeys)}

\* Genuine receipts a caller may swap for one another: a component verdict
\* deciding otherwise, other policies, another window, the same receipt signed
\* again with other keys, or one altered under the hashes of another.
Denied == WithFirst(SealComponent([FirstVerdict EXCEPT !.decision = "DENY"], RequiredOnly))
SignedAgain ==
    [Base EXCEPT !.bundle = BundleFor(Orchestrator, RequiredOnly, SignedHash(Base),
                                      ORCHESTRATOR_RECEIPT_DOMAIN, 2)]
SwappedReceipts ==
    {Base, [Base EXCEPT !.window.until = 5], Denied, SignedAgain, Genuine(1, Hybrid),
     Seal([Base EXCEPT !.window.until = 5], RequiredOnly)}

\* Where a copy can be cut: between any two fields, in the order the object
\* lists them, or inside one of its lists.
Cuts ==
    {WholeCopy} \cup
    {[early |-> e, at |-> "none", items |-> 0] : e \in
        {{"components"}, {"components", "results", "outcome"}, {"bundle"},
         {"signedHash", "receiptHash"}, {"signedHash", "receiptHash", "bundle"},
         ReceiptFields \ {"bundle"}, ReceiptFields \ {"components"},
         ReceiptFields \ {"window"}, ReceiptFields \ {"bundle", "signedHash", "receiptHash"}}} \cup
    {[early |-> e, at |-> f, items |-> 1] : f \in {"components", "results", "bundle"}, e \in
        {{}, ReceiptFields \ {"components", "bundle"},
         ReceiptFields \ {"components", "results", "bundle"},
         ReceiptFields \ {"bundle"}}}

\* One that uses up the post-quantum budget of audit_copies exactly; with the
\* others it makes six to nine signatures, of which three to six post-quantum.
BudgetedReceipts == SwappedReceipts \cup {Seal(Base, Hybrid)}
=============================================================================
