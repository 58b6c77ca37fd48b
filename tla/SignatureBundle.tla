-------------------------- MODULE SignatureBundle --------------------------
(***************************************************************************)
(* Verification of one signature bundle against policy.v1                  *)
(* (v4/signature_bundle.py, v4/crypto_algorithms.py).                      *)
(*                                                                         *)
(* A bundle is [form, signatures]; an entry is [algorithm, profile, key,   *)
(* hash, domain, signature].  The form is "ok", or "fields" / "policy" for *)
(* a bundle whose schema or policy version the code refuses.  A profile is *)
(* "exact", or a supported name with white space around it ("padded", or   *)
(* "oversized" when the padding alone exceeds an audit record): the        *)
(* verifier strips the name before it looks it up, the audit event copies  *)
(* it as it came.                                                          *)
(***************************************************************************)
EXTENDS KeyRegistry

CONSTANT RequiredAlgorithms   \* SIGNATURE_POLICY_V1.required_algorithms

ASSUME RequiredAssumption == RequiredAlgorithms \subseteq SupportedAlgorithms

SupportedProfiles == {"exact", "padded", "oversized"}

AlgorithmRank(algorithm) == CHOOSE i \in DOMAIN Algorithms : Algorithms[i] = algorithm

\* Faulty variant: the hash an entry was made for is not compared.
EntryErrorAnyHash(signatures, i, hash, domain) ==
    LET e == signatures[i]
        earlier == {signatures[j] : j \in 1..(i - 1)}
    IN  FirstError(<<
            Check(e.algorithm \in SupportedAlgorithms, {"algorithm", "signature"}),
            Check(e.profile \in SupportedProfiles, {"profile", "signature"}),
            Check(\A d \in earlier : d.algorithm # e.algorithm, {"algorithm", "signature"}),
            Check(\A d \in earlier : d.key # e.key, {"key", "signature"}),
            Check(e.domain = domain, {"signature"}) >>)

\* The first loop of verify_signature_bundle: entry i against the expected
\* hash and domain and against the entries before it.
EntryError(signatures, i, hash, domain) ==
    LET e == signatures[i]
        earlier == {signatures[j] : j \in 1..(i - 1)}
    IN  FirstError(<<
            Check(e.algorithm \in SupportedAlgorithms, {"algorithm", "signature"}),
            Check(e.profile \in SupportedProfiles, {"profile", "signature"}),
            Check(\A d \in earlier : d.algorithm # e.algorithm, {"algorithm", "signature"}),
            Check(\A d \in earlier : d.key # e.key, {"key", "signature"}),
            Check(e.hash = hash, {"hash", "signature"}),
            Check(e.domain = domain, {"signature"}) >>)

InPolicyOrder(signatures) ==
    \A i, j \in DOMAIN signatures :
        i < j => AlgorithmRank(signatures[i].algorithm) < AlgorithmRank(signatures[j].algorithm)

PresentAlgorithms(signatures) == {signatures[i].algorithm : i \in DOMAIN signatures}

\* The second loop: the trusted key of entry i, then the verifier's answer.
\* "accepted" is the set of positions the verifier answers True for.
VerifyEntryError(signatures, i, role, trust, window, accepted) ==
    FirstError(<<
        FindKeyError(trust.registry, role, signatures[i].key, signatures[i].algorithm,
                     trust.time, window),
        Check(i \in accepted, {"signature"}) >>)

VerifyBundleError(bundle, hash, domain, role, trust, window, accepted) ==
    LET s == bundle.signatures
        shapeError == FirstError(<<
            Check(bundle.form # "fields", {"field", "schema", "signature"}),
            Check(bundle.form # "policy", {"policy", "signature"}),
            Check(s # <<>>, {"signature"}),
            FirstError([i \in DOMAIN s |-> EntryError(s, i, hash, domain)]) >>)
    IN  IF shapeError # NoError
        THEN shapeError
        ELSE FirstError(<<
                Check(InPolicyOrder(s), {"algorithm", "policy", "signature"}),
                Check(RequiredAlgorithms \subseteq PresentAlgorithms(s), {"policy", "signature"}),
                FirstError([i \in DOMAIN s |->
                    VerifyEntryError(s, i, role, trust, window, accepted)]) >>)
=============================================================================
