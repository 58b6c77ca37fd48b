---------------------- MODULE VerificationErrorsProofs ----------------------
(***************************************************************************)
(* Facts about sequences of checks and the classification of their errors, *)
(* for any checks and any messages.                                        *)
(***************************************************************************)
EXTENDS VerificationErrors, TLAPS, NaturalsInduction, WellFoundedInduction

\* A nonempty set of natural numbers has a least element, and Min is it.
LEMMA MinOfNaturals ==
    ASSUME NEW S \in SUBSET Nat, S # {}
    PROVE  /\ Min(S) \in S
           /\ \A n \in S : Min(S) =< n
<1> DEFINE Less == {p \in Nat \X Nat : p[1] < p[2]}
<1>1. IsWellFoundedOn(Less, Nat)
  BY NatLessThanWellFounded DEF OpToRel
<1>2. PICK m \in S : \A n \in S : ~ (<<n, m>> \in Less)
  <2> HIDE DEF Less
  <2> QED
    BY <1>1, WFMin
<1>3. \A n \in S : m =< n
  <2> TAKE n \in S
  <2>1. m \in Nat /\ n \in Nat /\ <<n, m>> \in Nat \X Nat
    OBVIOUS
  <2> QED
    BY <1>2, <2>1
<1> QED
  BY <1>3 DEF Min

\* Checks made in order report no error exactly when none of them fails, and
\* otherwise report an error of one that does.
LEMMA FirstErrorIsSomeError ==
    ASSUME NEW checks, DOMAIN checks \subseteq Nat
    PROVE  \/ /\ FirstError(checks) = NoError
              /\ \A i \in DOMAIN checks : checks[i] = NoError
           \/ \E i \in DOMAIN checks :
                  FirstError(checks) = checks[i] /\ checks[i] # NoError
<1> DEFINE failed == {i \in DOMAIN checks : checks[i] # NoError}
<1>0. FirstError(checks) = FirstOf(checks)
  BY DEF FirstError
<1>1. CASE failed = {}
  BY <1>0, <1>1 DEF FirstOf
<1>2. CASE failed # {}
  <2>1. Min(failed) \in failed
    BY <1>2, MinOfNaturals
  <2> QED
    BY <1>0, <1>2, <2>1 DEF FirstOf
<1> QED
  BY <1>1, <1>2

\* Checks made in order report no error only if each of them passes.
COROLLARY PassedChecks ==
    ASSUME NEW checks, DOMAIN checks \subseteq Nat, FirstError(checks) = NoError
    PROVE  \A i \in DOMAIN checks : checks[i] = NoError
BY FirstErrorIsSomeError

\* And they report none if each of them passes.
COROLLARY NothingFails ==
    ASSUME NEW checks, DOMAIN checks \subseteq Nat, \A i \in DOMAIN checks : checks[i] = NoError
    PROVE  FirstError(checks) = NoError
BY FirstErrorIsSomeError

\* Whatever a message says, its class is an audit reason of a failure.
LEMMA ClassIsAReason ==
    ASSUME NEW words, NEW fallback \in AuditReasonIds \ {"V4_VERIFY_OK"}
    PROVE  ClassifyError(words, fallback) \in AuditReasonIds \ {"V4_VERIFY_OK"}
<1> DEFINE hits == {i \in DOMAIN Buckets : Buckets[i].words \cap words # {}}
<1>1. DOMAIN Buckets = 1..9
  BY DEF Buckets
<1>2. \A i \in 1..9 : Buckets[i].reason \in AuditReasonIds \ {"V4_VERIFY_OK"}
  BY DEF Buckets, AuditReasonIds
<1>3. CASE hits = {}
  BY <1>3 DEF ClassifyError
<1>4. CASE hits # {}
  <2>1. hits \in SUBSET Nat
    BY <1>1
  <2>2. Min(hits) \in hits
    <3> HIDE DEF hits
    <3> QED
      BY <1>4, <2>1, MinOfNaturals
  <2>3. Min(hits) \in 1..9
    BY <1>1, <2>2
  <2>4. ClassifyError(words, fallback) = Buckets[Min(hits)].reason
    BY <1>4 DEF ClassifyError
  <2> QED
    BY <1>2, <2>3, <2>4
<1> QED
  BY <1>3, <1>4

COROLLARY PreflightReasonIsAFailure ==
    ASSUME NEW words
    PROVE  PreflightReason(words) \in AuditReasonIds \ {"V4_VERIFY_OK"}
<1>1. "V4_CONTRACT_INVALID" \in AuditReasonIds \ {"V4_VERIFY_OK"}
  BY DEF AuditReasonIds
<1> QED
  BY <1>1, ClassIsAReason DEF PreflightReason
=============================================================================
