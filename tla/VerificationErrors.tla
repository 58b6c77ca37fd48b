------------------------ MODULE VerificationErrors ------------------------
(***************************************************************************)
(* How a failed check of Shield v4 becomes a stable audit reason           *)
(* (v4/verification_audit.py:461-492).                                     *)
(*                                                                         *)
(* The code raises ValueErrors with prose messages and classifies them by  *)
(* the words they contain, first bucket first.  An error is modelled by    *)
(* the set of classifier words in its message: {"hash", "signature"} is    *)
(* "signature signed_payload_hash mismatch".  A message with no such word  *)
(* is {}, a ShieldV4WorkBudgetError is {"budget"}, and a check that        *)
(* succeeds is NoError.                                                    *)
(***************************************************************************)
EXTENDS Integers, Sequences, FiniteSetsExt

AuditReasonIds ==
    {"V4_VERIFY_OK", "V4_CONTRACT_INVALID", "V4_CONTEXT_MISMATCH",
     "V4_REQUEST_MISMATCH", "V4_HASH_MISMATCH", "V4_DOWNGRADE_REJECTED",
     "V4_AUTHORITY_BYPASS", "V4_POLICY_INVALID", "V4_REGISTRY_INVALID",
     "V4_FRESHNESS_INVALID", "V4_REPLAY_REJECTED", "V4_SIGNATURE_INVALID",
     "V4_BACKEND_UNAVAILABLE", "V4_BACKEND_FAILURE"}

NoError == {"ok"}
BudgetError == {"budget"}

\* raise ... unless holds.
Check(holds, words) == IF holds THEN NoError ELSE words

\* The first error of a sequence of checks made in order, as exceptions do.
FirstOf(checks) ==
    LET failed == {i \in DOMAIN checks : checks[i] # NoError}
    IN  IF failed = {} THEN NoError ELSE checks[Min(failed)]

\* The same, over a bound variable so that TLC evaluates the checks once even
\* in an ENABLED: UNION {e} is e.
FirstError(checks) == UNION {FirstOf(s) : s \in {checks}}

\* The substring tests of _classify_error, in the order the code makes them.
Buckets ==
    << [words |-> {"context"},                        reason |-> "V4_CONTEXT_MISMATCH"],
       [words |-> {"request"},                        reason |-> "V4_REQUEST_MISMATCH"],
       [words |-> {"hash"},                           reason |-> "V4_HASH_MISMATCH"],
       [words |-> {"authority", "handoff_allowed"},   reason |-> "V4_AUTHORITY_BYPASS"],
       [words |-> {"contract", "schema", "field"},    reason |-> "V4_CONTRACT_INVALID"],
       [words |-> {"policy", "algorithm", "profile"}, reason |-> "V4_POLICY_INVALID"],
       [words |-> {"registry", "key", "role"},        reason |-> "V4_REGISTRY_INVALID"],
       [words |-> {"freshness", "time", "validity"},  reason |-> "V4_FRESHNESS_INVALID"],
       [words |-> {"signature"},                      reason |-> "V4_SIGNATURE_INVALID"] >>

ClassifyError(words, fallback) ==
    LET hits == {i \in DOMAIN Buckets : Buckets[i].words \cap words # {}}
    IN  IF hits = {} THEN fallback ELSE Buckets[Min(hits)].reason

\* Faulty variant: a reason the audit contract does not list.
PreflightReasonUnlisted(words) ==
    IF words = BudgetError THEN "V4_BUDGET_EXCEEDED"
    ELSE ClassifyError(words, "V4_CONTRACT_INVALID")

PreflightReason(words) ==
    IF words = BudgetError THEN "V4_CONTRACT_INVALID"
    ELSE ClassifyError(words, "V4_CONTRACT_INVALID")
=============================================================================
