------------------------ MODULE MCVerificationAudit ------------------------
(***************************************************************************)
(* One call at full size: the five components of the code and every kind   *)
(* of receipt and registry of AuditFixtures.                               *)
(***************************************************************************)
EXTENDS VerificationAudit, AuditFixtures

AllComponents == <<"adn", "dqsn", "guardian_wallet", "qwg", "sentinel_ai">>
AllRoles == Range(AllComponents) \cup {"shield_orchestrator"}

AllReceipts ==
    GenuineReceipts \cup Malformed \cup Misbound \cup Unsound \cup Missigned \cup Unrecordable

WholeCopies == {[early |-> {}, at |-> "none", items |-> 0]}

AllArguments ==
    {Trusting(FirstRegistry),
     [Trusting(RotatedRegistry) EXCEPT !.minimum = 2],
     [Trusting(FirstRegistry) EXCEPT !.minimum = 2],
     Trusting(RevokedRegistry), Trusting(RetiredRegistry), Trusting(DuplicateRegistry),
     [Trusting(FirstRegistry) EXCEPT !.valid = FALSE]}
=============================================================================
