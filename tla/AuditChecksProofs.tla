-------------------------- MODULE AuditChecksProofs --------------------------
(***************************************************************************)
(* What the checks of AuditChecks establish when none of them fails, for   *)
(* every receipt, registry and number of components.                       *)
(***************************************************************************)
EXTENDS AuditChecks, VerificationErrorsProofs, FiniteSetTheorems

-----------------------------------------------------------------------------
(* Checks in a row, by how many there are. *)

LEMMA PassedTwo ==
    ASSUME NEW a1, NEW a2,
           FirstError(<<a1, a2>>) = NoError
    PROVE  a1 = NoError /\ a2 = NoError
<1> DEFINE s == <<a1, a2>>
<1>1. DOMAIN s = 1..2 /\ s[1] = a1 /\ s[2] = a2
  OBVIOUS
<1> HIDE DEF s
<1>2. FirstError(s) = NoError
  BY DEF s
<1> QED
  BY <1>1, <1>2, PassedChecks

LEMMA PassedThree ==
    ASSUME NEW a1, NEW a2, NEW a3,
           FirstError(<<a1, a2, a3>>) = NoError
    PROVE  a1 = NoError /\ a2 = NoError /\ a3 = NoError
<1> DEFINE s == <<a1, a2, a3>>
<1>1. DOMAIN s = 1..3 /\ s[1] = a1 /\ s[2] = a2 /\ s[3] = a3
  OBVIOUS
<1> HIDE DEF s
<1>2. FirstError(s) = NoError
  BY DEF s
<1> QED
  BY <1>1, <1>2, PassedChecks

LEMMA PassedFour ==
    ASSUME NEW a1, NEW a2, NEW a3, NEW a4,
           FirstError(<<a1, a2, a3, a4>>) = NoError
    PROVE  a1 = NoError /\ a2 = NoError /\ a3 = NoError /\ a4 = NoError
<1> DEFINE s == <<a1, a2, a3, a4>>
<1>1. DOMAIN s = 1..4 /\ s[1] = a1 /\ s[2] = a2 /\ s[3] = a3 /\ s[4] = a4
  OBVIOUS
<1> HIDE DEF s
<1>2. FirstError(s) = NoError
  BY DEF s
<1> QED
  BY <1>1, <1>2, PassedChecks

LEMMA PassedFive ==
    ASSUME NEW a1, NEW a2, NEW a3, NEW a4, NEW a5,
           FirstError(<<a1, a2, a3, a4, a5>>) = NoError
    PROVE  /\ a1 = NoError /\ a2 = NoError /\ a3 = NoError /\ a4 = NoError
           /\ a5 = NoError
<1> DEFINE s == <<a1, a2, a3, a4, a5>>
<1>1. /\ DOMAIN s = 1..5
      /\ s[1] = a1 /\ s[2] = a2 /\ s[3] = a3 /\ s[4] = a4
      /\ s[5] = a5
  OBVIOUS
<1> HIDE DEF s
<1>2. FirstError(s) = NoError
  BY DEF s
<1> QED
  BY <1>1, <1>2, PassedChecks

LEMMA PassedSix ==
    ASSUME NEW a1, NEW a2, NEW a3, NEW a4, NEW a5, NEW a6,
           FirstError(<<a1, a2, a3, a4, a5, a6>>) = NoError
    PROVE  /\ a1 = NoError /\ a2 = NoError /\ a3 = NoError /\ a4 = NoError
           /\ a5 = NoError /\ a6 = NoError
<1> DEFINE s == <<a1, a2, a3, a4, a5, a6>>
<1>1. /\ DOMAIN s = 1..6
      /\ s[1] = a1 /\ s[2] = a2 /\ s[3] = a3 /\ s[4] = a4
      /\ s[5] = a5 /\ s[6] = a6
  OBVIOUS
<1> HIDE DEF s
<1>2. FirstError(s) = NoError
  BY DEF s
<1> QED
  BY <1>1, <1>2, PassedChecks

LEMMA PassedEight ==
    ASSUME NEW a1, NEW a2, NEW a3, NEW a4, NEW a5, NEW a6, NEW a7, NEW a8,
           FirstError(<<a1, a2, a3, a4, a5, a6, a7, a8>>) = NoError
    PROVE  /\ a1 = NoError /\ a2 = NoError /\ a3 = NoError /\ a4 = NoError
           /\ a5 = NoError /\ a6 = NoError /\ a7 = NoError /\ a8 = NoError
<1> DEFINE s == <<a1, a2, a3, a4, a5, a6, a7, a8>>
<1>1. /\ DOMAIN s = 1..8
      /\ s[1] = a1 /\ s[2] = a2 /\ s[3] = a3 /\ s[4] = a4
      /\ s[5] = a5 /\ s[6] = a6 /\ s[7] = a7 /\ s[8] = a8
  OBVIOUS
<1> HIDE DEF s
<1>2. FirstError(s) = NoError
  BY DEF s
<1> QED
  BY <1>1, <1>2, PassedChecks

LEMMA PassedTen ==
    ASSUME NEW a1, NEW a2, NEW a3, NEW a4, NEW a5, NEW a6, NEW a7, NEW a8, NEW a9, NEW a10,
           FirstError(<<a1, a2, a3, a4, a5, a6, a7, a8, a9, a10>>) = NoError
    PROVE  /\ a1 = NoError /\ a2 = NoError /\ a3 = NoError /\ a4 = NoError
           /\ a5 = NoError /\ a6 = NoError /\ a7 = NoError /\ a8 = NoError
           /\ a9 = NoError /\ a10 = NoError
<1> DEFINE s == <<a1, a2, a3, a4, a5, a6, a7, a8, a9, a10>>
<1>1. /\ DOMAIN s = 1..10
      /\ s[1] = a1 /\ s[2] = a2 /\ s[3] = a3 /\ s[4] = a4
      /\ s[5] = a5 /\ s[6] = a6 /\ s[7] = a7 /\ s[8] = a8
      /\ s[9] = a9 /\ s[10] = a10
  OBVIOUS
<1> HIDE DEF s
<1>2. FirstError(s) = NoError
  BY DEF s
<1> QED
  BY <1>1, <1>2, PassedChecks

LEMMA PassedTwelve ==
    ASSUME NEW a1, NEW a2, NEW a3, NEW a4, NEW a5, NEW a6, NEW a7, NEW a8, NEW a9, NEW a10, NEW a11, NEW a12,
           FirstError(<<a1, a2, a3, a4, a5, a6, a7, a8, a9, a10, a11, a12>>) = NoError
    PROVE  /\ a1 = NoError /\ a2 = NoError /\ a3 = NoError /\ a4 = NoError
           /\ a5 = NoError /\ a6 = NoError /\ a7 = NoError /\ a8 = NoError
           /\ a9 = NoError /\ a10 = NoError /\ a11 = NoError /\ a12 = NoError
<1> DEFINE s == <<a1, a2, a3, a4, a5, a6, a7, a8, a9, a10, a11, a12>>
<1>1. /\ DOMAIN s = 1..12
      /\ s[1] = a1 /\ s[2] = a2 /\ s[3] = a3 /\ s[4] = a4
      /\ s[5] = a5 /\ s[6] = a6 /\ s[7] = a7 /\ s[8] = a8
      /\ s[9] = a9 /\ s[10] = a10 /\ s[11] = a11 /\ s[12] = a12
  OBVIOUS
<1> HIDE DEF s
<1>2. FirstError(s) = NoError
  BY DEF s
<1> QED
  BY <1>1, <1>2, PassedChecks

LEMMA AllTwo ==
    ASSUME NEW a1, NEW a2,
           a1 = NoError, a2 = NoError
    PROVE  FirstError(<<a1, a2>>) = NoError
<1> DEFINE s == <<a1, a2>>
<1>1. DOMAIN s = 1..2 /\ s[1] = a1 /\ s[2] = a2
  OBVIOUS
<1>2. DOMAIN s \subseteq Nat /\ \A i \in DOMAIN s : s[i] = NoError
  <2> HIDE DEF s
  <2> QED
    BY <1>1
<1>3. FirstError(s) = NoError
  <2> HIDE DEF s
  <2> QED
    BY <1>2, NothingFails
<1> QED
  BY <1>3 DEF s

LEMMA AllThree ==
    ASSUME NEW a1, NEW a2, NEW a3,
           a1 = NoError, a2 = NoError, a3 = NoError
    PROVE  FirstError(<<a1, a2, a3>>) = NoError
<1> DEFINE s == <<a1, a2, a3>>
<1>1. DOMAIN s = 1..3 /\ s[1] = a1 /\ s[2] = a2 /\ s[3] = a3
  OBVIOUS
<1>2. DOMAIN s \subseteq Nat /\ \A i \in DOMAIN s : s[i] = NoError
  <2> HIDE DEF s
  <2> QED
    BY <1>1
<1>3. FirstError(s) = NoError
  <2> HIDE DEF s
  <2> QED
    BY <1>2, NothingFails
<1> QED
  BY <1>3 DEF s

LEMMA AllFour ==
    ASSUME NEW a1, NEW a2, NEW a3, NEW a4,
           a1 = NoError, a2 = NoError, a3 = NoError, a4 = NoError
    PROVE  FirstError(<<a1, a2, a3, a4>>) = NoError
<1> DEFINE s == <<a1, a2, a3, a4>>
<1>1. /\ DOMAIN s = 1..4
      /\ s[1] = a1 /\ s[2] = a2 /\ s[3] = a3 /\ s[4] = a4
  OBVIOUS
<1>2. DOMAIN s \subseteq Nat /\ \A i \in DOMAIN s : s[i] = NoError
  <2> HIDE DEF s
  <2> QED
    BY <1>1
<1>3. FirstError(s) = NoError
  <2> HIDE DEF s
  <2> QED
    BY <1>2, NothingFails
<1> QED
  BY <1>3 DEF s

LEMMA AllFive ==
    ASSUME NEW a1, NEW a2, NEW a3, NEW a4, NEW a5,
           a1 = NoError, a2 = NoError, a3 = NoError, a4 = NoError,
           a5 = NoError
    PROVE  FirstError(<<a1, a2, a3, a4, a5>>) = NoError
<1> DEFINE s == <<a1, a2, a3, a4, a5>>
<1>1. /\ DOMAIN s = 1..5
      /\ s[1] = a1 /\ s[2] = a2 /\ s[3] = a3 /\ s[4] = a4
      /\ s[5] = a5
  OBVIOUS
<1>2. DOMAIN s \subseteq Nat /\ \A i \in DOMAIN s : s[i] = NoError
  <2> HIDE DEF s
  <2> QED
    BY <1>1
<1>3. FirstError(s) = NoError
  <2> HIDE DEF s
  <2> QED
    BY <1>2, NothingFails
<1> QED
  BY <1>3 DEF s

LEMMA AllTen ==
    ASSUME NEW a1, NEW a2, NEW a3, NEW a4, NEW a5, NEW a6,
           NEW a7, NEW a8, NEW a9, NEW a10,
           a1 = NoError, a2 = NoError, a3 = NoError, a4 = NoError,
           a5 = NoError, a6 = NoError, a7 = NoError, a8 = NoError,
           a9 = NoError, a10 = NoError
    PROVE  FirstError(<<a1, a2, a3, a4, a5, a6, a7, a8, a9, a10>>) = NoError
<1> DEFINE s == <<a1, a2, a3, a4, a5, a6, a7, a8, a9, a10>>
<1>1. /\ DOMAIN s = 1..10
      /\ s[1] = a1 /\ s[2] = a2 /\ s[3] = a3 /\ s[4] = a4
      /\ s[5] = a5 /\ s[6] = a6 /\ s[7] = a7 /\ s[8] = a8
      /\ s[9] = a9 /\ s[10] = a10
  OBVIOUS
<1>2. DOMAIN s \subseteq Nat /\ \A i \in DOMAIN s : s[i] = NoError
  <2> HIDE DEF s
  <2> QED
    BY <1>1
<1>3. FirstError(s) = NoError
  <2> HIDE DEF s
  <2> QED
    BY <1>2, NothingFails
<1> QED
  BY <1>3 DEF s

LEMMA AllTwelve ==
    ASSUME NEW a1, NEW a2, NEW a3, NEW a4, NEW a5, NEW a6,
           NEW a7, NEW a8, NEW a9, NEW a10, NEW a11, NEW a12,
           a1 = NoError, a2 = NoError, a3 = NoError, a4 = NoError,
           a5 = NoError, a6 = NoError, a7 = NoError, a8 = NoError,
           a9 = NoError, a10 = NoError, a11 = NoError, a12 = NoError
    PROVE  FirstError(<<a1, a2, a3, a4, a5, a6, a7, a8, a9, a10, a11, a12>>) = NoError
<1> DEFINE s == <<a1, a2, a3, a4, a5, a6, a7, a8, a9, a10, a11, a12>>
<1>1. /\ DOMAIN s = 1..12
      /\ s[1] = a1 /\ s[2] = a2 /\ s[3] = a3 /\ s[4] = a4
      /\ s[5] = a5 /\ s[6] = a6 /\ s[7] = a7 /\ s[8] = a8
      /\ s[9] = a9 /\ s[10] = a10 /\ s[11] = a11 /\ s[12] = a12
  OBVIOUS
<1>2. DOMAIN s \subseteq Nat /\ \A i \in DOMAIN s : s[i] = NoError
  <2> HIDE DEF s
  <2> QED
    BY <1>1
<1>3. FirstError(s) = NoError
  <2> HIDE DEF s
  <2> QED
    BY <1>2, NothingFails
<1> QED
  BY <1>3 DEF s

LEMMA ListDomain ==
    ASSUME NEW s, IsList(s)
    PROVE  Len(s) \in Nat /\ DOMAIN s = 1..Len(s) /\ DOMAIN s \subseteq Nat
BY DEF IsList

-----------------------------------------------------------------------------
(* Keys and bundles. *)

\* A key a registry trusts to sign for a role, now and over a window.
TrustedKey(registry, role, key, algorithm, time, window) ==
    \E k \in Range(registry.entries) :
        /\ Identity(k) = <<role, key, algorithm>>
        /\ k.status = "active"
        /\ During(time, k.window)
        /\ Within(window, k.window)

LEMMA FoundKeyIsTrusted ==
    ASSUME NEW registry, IsList(registry.entries), NEW role, NEW key, NEW algorithm,
           NEW time, NEW window,
           FindKeyError(registry, role, key, algorithm, time, window) = NoError
    PROVE  TrustedKey(registry, role, key, algorithm, time, window)
<1> DEFINE M == Matches(registry, role, key, algorithm)
           k == FoundKey(registry, role, key, algorithm)
<1>1. M # {} /\ M \in SUBSET Nat
  BY ListDomain DEF FindKeyError, NoError, Matches
<1>2. Min(M) \in M
  <2> HIDE DEF M
  <2> QED
    BY <1>1, MinOfNaturals
<1>3. k \in Range(registry.entries) /\ Identity(k) = <<role, key, algorithm>>
  BY <1>2 DEF Matches, FoundKey, Range
<1>4. FirstError(<< Check(k.status = "active", {"key"}),
                    Check(During(time, k.window), {"key", "time"}),
                    Check(Within(window, k.window), {"key", "validity"}) >>) = NoError
  BY <1>1 DEF FindKeyError, NoError
<1>5. k.status = "active" /\ During(time, k.window) /\ Within(window, k.window)
  <2> HIDE DEF k
  <2>1. /\ Check(k.status = "active", {"key"}) = NoError
        /\ Check(During(time, k.window), {"key", "time"}) = NoError
        /\ Check(Within(window, k.window), {"key", "validity"}) = NoError
    BY <1>4, PassedThree
  <2> QED
    BY <2>1 DEF Check, NoError
<1> QED
  BY <1>3, <1>5 DEF TrustedKey

\* What is known of a bundle that verifies.
BundleVerified(bundle, hash, domain, role, trust, window, accepted) ==
    LET s == bundle.signatures IN
    /\ s # <<>>
    /\ RequiredAlgorithms \subseteq PresentAlgorithms(s)
    /\ \A i \in DOMAIN s :
           /\ s[i].algorithm \in SupportedAlgorithms
           /\ s[i].hash = hash
           /\ TrustedKey(trust.registry, role, s[i].key, s[i].algorithm, trust.time, window)
           /\ i \in accepted
    /\ \A i, j \in DOMAIN s :
           s[i].algorithm = s[j].algorithm \/ s[i].key = s[j].key => i = j

LEMMA VerifiedEntry ==
    ASSUME NEW s, NEW i \in Nat, NEW hash, NEW domain,
           EntryError(s, i, hash, domain) = NoError
    PROVE  /\ s[i].algorithm \in SupportedAlgorithms
           /\ s[i].hash = hash
           /\ \A j \in 1..(i - 1) : s[j].algorithm # s[i].algorithm /\ s[j].key # s[i].key
<1> DEFINE e == s[i]
           earlier == {s[j] : j \in 1..(i - 1)}
           newAlgorithm == \A d \in earlier : d.algorithm # e.algorithm
           newKey == \A d \in earlier : d.key # e.key
<1>1. FirstError(<<
            Check(e.algorithm \in SupportedAlgorithms, {"algorithm", "signature"}),
            Check(e.profile \in SupportedProfiles, {"profile", "signature"}),
            Check(newAlgorithm, {"algorithm", "signature"}),
            Check(newKey, {"key", "signature"}),
            Check(e.hash = hash, {"hash", "signature"}),
            Check(e.domain = domain, {"signature"}) >>) = NoError
  BY DEF EntryError
<1>2. e.algorithm \in SupportedAlgorithms /\ newAlgorithm /\ newKey /\ e.hash = hash
  <2> HIDE DEF e, earlier, newAlgorithm, newKey
  <2>1. /\ Check(e.algorithm \in SupportedAlgorithms, {"algorithm", "signature"}) = NoError
        /\ Check(newAlgorithm, {"algorithm", "signature"}) = NoError
        /\ Check(newKey, {"key", "signature"}) = NoError
        /\ Check(e.hash = hash, {"hash", "signature"}) = NoError
    BY <1>1, PassedSix
  <2> QED
    BY <2>1 DEF Check, NoError
<1> QED
  BY <1>2

LEMMA VerifiedBundle ==
    ASSUME NEW bundle, IsList(bundle.signatures), NEW hash, NEW domain, NEW role,
           NEW trust, IsList(trust.registry.entries), NEW window, NEW accepted,
           VerifyBundleError(bundle, hash, domain, role, trust, window, accepted) = NoError
    PROVE  BundleVerified(bundle, hash, domain, role, trust, window, accepted)
<1> DEFINE s == bundle.signatures
           entries == [i \in DOMAIN s |-> EntryError(s, i, hash, domain)]
           keys == [i \in DOMAIN s |-> VerifyEntryError(s, i, role, trust, window, accepted)]
           shape == FirstError(<<
               Check(bundle.form # "fields", {"field", "schema", "signature"}),
               Check(bundle.form # "policy", {"policy", "signature"}),
               Check(s # <<>>, {"signature"}),
               FirstError(entries) >>)
           rest == FirstError(<<
               Check(InPolicyOrder(s), {"algorithm", "policy", "signature"}),
               Check(RequiredAlgorithms \subseteq PresentAlgorithms(s), {"policy", "signature"}),
               FirstError(keys) >>)
<1>1. shape = NoError /\ rest = NoError
  BY DEF VerifyBundleError
<1>2. DOMAIN s = 1..Len(s) /\ Len(s) \in Nat /\ DOMAIN entries = DOMAIN s /\ DOMAIN keys = DOMAIN s
  BY ListDomain
<1>3. Check(s # <<>>, {"signature"}) = NoError /\ FirstError(entries) = NoError
  <2> HIDE DEF s, entries
  <2> QED
    BY <1>1, PassedFour
<1>4. /\ Check(RequiredAlgorithms \subseteq PresentAlgorithms(s), {"policy", "signature"}) = NoError
      /\ FirstError(keys) = NoError
  <2> HIDE DEF s, keys
  <2> QED
    BY <1>1, PassedThree
<1>5. s # <<>> /\ RequiredAlgorithms \subseteq PresentAlgorithms(s)
  BY <1>3, <1>4 DEF Check, NoError
<1>6. \A i \in DOMAIN s : EntryError(s, i, hash, domain) = NoError
  <2>1. \A i \in DOMAIN entries : entries[i] = NoError
    <3> HIDE DEF entries
    <3> QED
      BY <1>2, <1>3, PassedChecks
  <2> QED
    BY <2>1
<1>7. \A i \in DOMAIN s : VerifyEntryError(s, i, role, trust, window, accepted) = NoError
  <2>1. \A i \in DOMAIN keys : keys[i] = NoError
    <3> HIDE DEF keys
    <3> QED
      BY <1>2, <1>4, PassedChecks
  <2> QED
    BY <2>1
<1> HIDE DEF s
<1>8. ASSUME NEW i \in DOMAIN s
      PROVE  /\ TrustedKey(trust.registry, role, s[i].key, s[i].algorithm, trust.time, window)
             /\ i \in accepted
  <2>1. /\ FindKeyError(trust.registry, role, s[i].key, s[i].algorithm, trust.time, window) = NoError
        /\ Check(i \in accepted, {"signature"}) = NoError
    BY <1>7, PassedTwo DEF VerifyEntryError
  <2> QED
    BY <2>1, FoundKeyIsTrusted DEF Check, NoError
<1>9. ASSUME NEW i \in DOMAIN s
      PROVE  /\ s[i].algorithm \in SupportedAlgorithms
             /\ s[i].hash = hash
             /\ \A j \in DOMAIN s : j < i => s[j].algorithm # s[i].algorithm /\ s[j].key # s[i].key
  BY <1>2, <1>6, VerifiedEntry
<1>10. \A i, j \in DOMAIN s :
          s[i].algorithm = s[j].algorithm \/ s[i].key = s[j].key => i = j
  BY <1>2, <1>9
<1> QED
  BY <1>5, <1>8, <1>9, <1>10 DEF BundleVerified, s

-----------------------------------------------------------------------------
(* Verdicts. *)

ComponentVerified(c, context, trust, accepted) ==
    /\ c.id \in Components
    /\ c.context = context
    /\ c.version = trust.registry.version
    /\ BundleVerified(c.bundle, ComponentHash(c), COMPONENT_VERDICT_DOMAIN, c.id, trust,
                      c.window, accepted)

LEMMA VerifiedComponent ==
    ASSUME NEW c, IsList(c.bundle.signatures), NEW context,
           NEW trust, IsList(trust.registry.entries), NEW accepted,
           ComponentEnvelopeError(c, context, trust, accepted) = NoError
    PROVE  ComponentVerified(c, context, trust, accepted)
<1> DEFINE bundle == VerifyBundleError(c.bundle, ComponentHash(c), COMPONENT_VERDICT_DOMAIN,
                                       c.id, trust, c.window, accepted)
<1>1. FirstError(<<
        PayloadError(c),
        Check(c.context = context, {"context", "hash"}),
        Check(c.signedHash = ComponentHash(c), {"hash"}),
        Check(c.version = trust.registry.version, {"key", "registry"}),
        bundle >>) = NoError
  BY DEF ComponentEnvelopeError
<1>2. /\ PayloadError(c) = NoError
      /\ Check(c.context = context, {"context", "hash"}) = NoError
      /\ Check(c.version = trust.registry.version, {"key", "registry"}) = NoError
      /\ bundle = NoError
  <2> HIDE DEF bundle
  <2> QED
    BY <1>1, PassedFive
<1>3. Check(c.id \in Components, {}) = NoError
  BY <1>2, PassedThree DEF PayloadError
<1>4. c.id \in Components /\ c.context = context /\ c.version = trust.registry.version
  BY <1>2, <1>3 DEF Check, NoError
<1> QED
  BY <1>2, <1>4, VerifiedBundle DEF ComponentVerified

\* As many verdicts as components, of different ids.
OnePerComponent(components) ==
    /\ Len(components) = Len(ComponentOrder)
    /\ \A i \in DOMAIN components : components[i].id \in Components
    /\ \A i, j \in DOMAIN components : components[i].id = components[j].id => i = j

\* Then there is one of each: as many different ids as components.
LEMMA EveryComponentIsThere ==
    ASSUME NEW components, IsList(components), OnePerComponent(components)
    PROVE  /\ {components[i].id : i \in DOMAIN components} = Components
           /\ Len(components) = Cardinality(Components)
<1> DEFINE n == Len(ComponentOrder)
           ids == [i \in 1..n |-> components[i].id]
<1>1. n \in Nat /\ DOMAIN ComponentOrder = 1..n /\ DOMAIN components = 1..n
  BY ListDomain, OrderAssumption DEF OnePerComponent
<1>2. IsFiniteSet(1..n) /\ Cardinality(1..n) = n
  <2> HIDE DEF n
  <2>1. /\ IsFiniteSet(1..n)
        /\ Cardinality(1..n) = IF 1 > n THEN 0 ELSE n - 1 + 1
    BY <1>1, FS_Interval
  <2> QED
    BY <1>1, <2>1
<1>3. ComponentOrder \in Bijection(1..n, Components)
  <2>1. ComponentOrder \in [1..n -> Components]
    BY <1>1, OrderAssumption DEF Components, Range, IsList
  <2>2. IsInjective(ComponentOrder)
    BY ArtifactAssumption
  <2>3. \A t \in Components : \E i \in 1..n : ComponentOrder[i] = t
    BY <1>1 DEF Components, Range
  <2> QED
    BY <2>1, <2>2, <2>3 DEF Bijection, Injection, Surjection
<1>4. IsFiniteSet(Components) /\ Cardinality(Components) = n
  <2>1. ExistsBijection(1..n, Components)
    BY <1>3 DEF ExistsBijection
  <2> QED
    BY <1>2, <2>1, FS_Bijection
<1>5. ids \in Injection(1..n, Components)
  <2>1. ids \in [1..n -> Components]
    BY <1>1 DEF OnePerComponent
  <2>2. IsInjective(ids)
    BY <1>1 DEF OnePerComponent, IsInjective
  <2> QED
    BY <2>1, <2>2 DEF Injection
<1>6. ids \in Surjection(1..n, Components)
  <2> HIDE DEF ids
  <2> QED
    BY <1>2, <1>4, <1>5, FS_Injection
<1>7. \A t \in Components : \E i \in 1..n : components[i].id = t
  BY <1>6 DEF Surjection
<1> QED
  BY <1>1, <1>4, <1>7 DEF OnePerComponent

LEMMA VerifiedVerdicts ==
    ASSUME NEW components, IsList(components),
           \A i \in DOMAIN components : IsList(components[i].bundle.signatures),
           NEW context, NEW trust, IsList(trust.registry.entries), NEW accepted,
           ComponentVerdictsError(components, context, trust, accepted) = NoError
    PROVE  /\ OnePerComponent(components)
           /\ \A i \in DOMAIN components :
                  ComponentVerified(components[i], context, trust, accepted[i])
<1> DEFINE new(i) == \A j \in 1..(i - 1) : components[j].id # components[i].id
           item(i) == FirstError(<<
                ComponentEnvelopeError(components[i], context, trust, accepted[i]),
                Check(new(i), {}) >>)
           items == [i \in DOMAIN components |-> item(i)]
<1>1. FirstError(<< Check(Len(components) = Len(ComponentOrder), {}),
                    FirstError(items) >>) = NoError
  BY DEF ComponentVerdictsError
<1>2. Check(Len(components) = Len(ComponentOrder), {}) = NoError /\ FirstError(items) = NoError
  <2> HIDE DEF items
  <2> QED
    BY <1>1, PassedTwo
<1>3. DOMAIN components = 1..Len(components) /\ Len(components) \in Nat
  BY ListDomain
<1>4. \A i \in DOMAIN components : item(i) = NoError
  <2>1. DOMAIN items = DOMAIN components /\ \A i \in DOMAIN components : items[i] = item(i)
    OBVIOUS
  <2> HIDE DEF items, item
  <2> QED
    BY <1>2, <1>3, <2>1, PassedChecks
<1>5. ASSUME NEW i \in DOMAIN components
      PROVE  /\ ComponentEnvelopeError(components[i], context, trust, accepted[i]) = NoError
             /\ new(i)
  <2>1. /\ ComponentEnvelopeError(components[i], context, trust, accepted[i]) = NoError
        /\ Check(new(i), {}) = NoError
    <3>1. item(i) = NoError
      BY <1>4
    <3> HIDE DEF new
    <3> QED
      BY <3>1, PassedTwo
  <2> HIDE DEF new
  <2> QED
    BY <2>1 DEF Check, NoError
<1>6. \A i \in DOMAIN components :
          ComponentVerified(components[i], context, trust, accepted[i])
  BY <1>5, VerifiedComponent
<1>7. \A i, j \in DOMAIN components : j < i => components[j].id # components[i].id
  BY <1>3, <1>5
<1> QED
  BY <1>2, <1>3, <1>6, <1>7 DEF OnePerComponent, ComponentVerified, Check, NoError

-----------------------------------------------------------------------------
(* Receipts. *)

ReceiptVerified(r, context, trust, accepted) ==
    /\ r.context = context
    /\ r.version = trust.registry.version
    /\ r.outcome = ExpectedFinalOutcome(r.components)
    /\ r.outcome = "ALLOW" \/ r.handoff # "allowed"
    /\ BundleVerified(r.bundle, SignedHash(r), ORCHESTRATOR_RECEIPT_DOMAIN, Orchestrator,
                      trust, r.window, accepted)

LEMMA SemanticsHold ==
    ASSUME NEW r, NEW context, SemanticsError(r, context) = NoError
    PROVE  /\ r.outcome = ExpectedFinalOutcome(r.components)
           /\ r.outcome = "ALLOW" \/ r.handoff # "allowed"
<1> DEFINE ids == FirstError([i \in DOMAIN r.components |->
                      FirstError(<<
                          IdError(r.components, i, {}),
                          Check(r.components[i].context = context, {"context"}) >>)])
<1>1. FirstError(<<
        Check(r.fields, {"field", "schema"}),
        Check(r.context = context, {"context"}),
        Check(Len(r.components) = Len(ComponentOrder), {}),
        ids,
        ResultsError(r.results),
        Check(r.outcome = ExpectedFinalOutcome(r.components), {}),
        Check(r.handoff # "forbidden", {"authority", "field"}),
        Check(r.outcome = "ALLOW" \/ r.handoff # "allowed", {"handoff_allowed"}) >>) = NoError
  BY DEF SemanticsError
<1>2. /\ Check(r.outcome = ExpectedFinalOutcome(r.components), {}) = NoError
      /\ Check(r.outcome = "ALLOW" \/ r.handoff # "allowed", {"handoff_allowed"}) = NoError
  <2> HIDE DEF ids
  <2> QED
    BY <1>1, PassedEight
<1> QED
  BY <1>2 DEF Check, NoError

LEMMA VerifiedReceipt ==
    ASSUME NEW r, IsList(r.bundle.signatures), NEW context,
           NEW trust, IsList(trust.registry.entries), NEW accepted,
           ReceiptEnvelopeError(r, context, trust, accepted) = NoError
    PROVE  ReceiptVerified(r, context, trust, accepted)
<1> DEFINE bundle == VerifyBundleError(r.bundle, SignedHash(r), ORCHESTRATOR_RECEIPT_DOMAIN,
                                       Orchestrator, trust, r.window, accepted)
<1>1. FirstError(<<
        Check(r.fields, {"field", "schema"}),
        Check(r.schema = "shield.receipt.v2", {"schema"}),
        HeaderError(r),
        Check(r.policy, {"policy", "signature"}),
        Check(r.context = context, {"context"}),
        SemanticsError(r, context),
        Check(r.receiptHash = ReceiptHash(r), {"hash"}),
        Check(r.signedHash = SignedHash(r), {"hash"}),
        Check(r.version = trust.registry.version, {"key", "registry"}),
        bundle >>) = NoError
  BY DEF ReceiptEnvelopeError
<1>2. /\ Check(r.context = context, {"context"}) = NoError
      /\ SemanticsError(r, context) = NoError
      /\ Check(r.version = trust.registry.version, {"key", "registry"}) = NoError
      /\ bundle = NoError
  <2> HIDE DEF bundle
  <2> QED
    BY <1>1, PassedTen
<1> QED
  BY <1>2, SemanticsHold, VerifiedBundle DEF ReceiptVerified, Check, NoError

\* What is prepared is within its window.
LEMMA FreshnessHolds ==
    ASSUME NEW window, NEW time, FreshnessError(window, time) = NoError
    PROVE  During(time, window)
<1>1. Check(During(time, window), {"time"}) = NoError
  BY PassedTwo DEF FreshnessError
<1> QED
  BY <1>1 DEF Check, NoError

LEMMA PreparedIsFresh ==
    ASSUME NEW r, IsList(r.components), NEW a, PrepareError(r, a) = NoError
    PROVE  /\ During(a.time, r.window)
           /\ \A i \in DOMAIN r.components : During(a.time, r.components[i].window)
<1> DEFINE prepared == [i \in DOMAIN r.components |-> PrepareComponentError(r.components[i], a)]
           own == PrepareBundleError(r.bundle, ORCHESTRATOR_RECEIPT_DOMAIN, Orchestrator, r.window, a)
           hashes == \A i \in DOMAIN r.components :
                         r.components[i].signedHash = ComponentHash(r.components[i])
<1>1. FirstError(<<
        HeaderError(r),
        Check(r.version = a.registry.version, {"key", "registry"}),
        FirstError(prepared),
        FreshnessError(r.window, a.time),
        own,
        PlanError(r),
        SemanticsError(r, a.context),
        Check(r.results = ExpectedResults(r), {}),
        Check(r.bytes = "within", BudgetError),
        Check(r.receiptHash = ReceiptHash(r), {"hash"}),
        Check(r.signedHash = SignedHash(r), {"hash"}),
        Check(hashes, {"hash"}) >>) = NoError
  BY DEF PrepareError
<1>2. FirstError(prepared) = NoError /\ FreshnessError(r.window, a.time) = NoError
  <2> HIDE DEF prepared, own, hashes
  <2> QED
    BY <1>1, PassedTwelve
<1>3. \A i \in DOMAIN r.components : PrepareComponentError(r.components[i], a) = NoError
  <2>1. /\ DOMAIN prepared \subseteq Nat /\ DOMAIN prepared = DOMAIN r.components
        /\ \A i \in DOMAIN prepared : prepared[i] = PrepareComponentError(r.components[i], a)
    BY ListDomain
  <2> HIDE DEF prepared
  <2> QED
    BY <1>2, <2>1, PassedChecks
<1>4. \A i \in DOMAIN r.components : FreshnessError(r.components[i].window, a.time) = NoError
  <2> SUFFICES ASSUME NEW c, PrepareComponentError(c, a) = NoError
               PROVE  FreshnessError(c.window, a.time) = NoError
    BY <1>3
  <2> QED
    BY PassedFive DEF PrepareComponentError
<1> QED
  BY <1>2, <1>4, FreshnessHolds

-----------------------------------------------------------------------------
(* Verified once, verified again: the same registry, any later time within *)
(* the artifact's window, and a verifier that refuses none of it.           *)

\* A list of keys with numbers for times.
IsKeyList(entries) == IsList(entries) /\ \A k \in Range(entries) : IsWindow(k.window)

LEMMA KeyStaysTrusted ==
    ASSUME NEW registry, IsKeyList(registry.entries), NEW role, NEW key, NEW algorithm,
           NEW time, NEW window, IsWindow(window), NEW later \in Int, During(later, window),
           FindKeyError(registry, role, key, algorithm, time, window) = NoError
    PROVE  /\ FindKeyError(registry, role, key, algorithm, later, window) = NoError
           /\ Proper(window)
<1> DEFINE M == Matches(registry, role, key, algorithm)
           k == FoundKey(registry, role, key, algorithm)
           active == k.status = "active"
           then == During(time, k.window)
           now == During(later, k.window)
           within == Within(window, k.window)
<1>1. Proper(window) /\ M # {}
  BY DEF FindKeyError, NoError
<1>2. Min(M) \in M
  <2>1. M \in SUBSET Nat
    BY ListDomain DEF Matches, IsKeyList
  <2> HIDE DEF M
  <2> QED
    BY <1>1, <2>1, MinOfNaturals
<1>3. IsWindow(k.window)
  BY <1>2 DEF Matches, FoundKey, Range, IsKeyList
<1>4. FirstError(<< Check(active, {"key"}), Check(then, {"key", "time"}),
                    Check(within, {"key", "validity"}) >>) = NoError
  BY <1>1 DEF FindKeyError
<1>5. active /\ within
  <2> HIDE DEF active, then, within
  <2>1. Check(active, {"key"}) = NoError /\ Check(within, {"key", "validity"}) = NoError
    BY <1>4, PassedThree
  <2> QED
    BY <2>1 DEF Check, NoError
<1>6. now
  BY <1>3, <1>5 DEF Within, During, IsWindow
<1>7. FirstError(<< Check(active, {"key"}), Check(now, {"key", "time"}),
                    Check(within, {"key", "validity"}) >>) = NoError
  <2> HIDE DEF active, now, within
  <2>1. /\ Check(active, {"key"}) = NoError /\ Check(now, {"key", "time"}) = NoError
        /\ Check(within, {"key", "validity"}) = NoError
    BY <1>5, <1>6 DEF Check
  <2> QED
    BY <2>1, AllThree
<1> QED
  BY <1>1, <1>7 DEF FindKeyError

LEMMA BundleStaysVerified ==
    ASSUME NEW bundle, IsList(bundle.signatures), NEW hash, NEW domain, NEW role,
           NEW trust, IsKeyList(trust.registry.entries), NEW window, IsWindow(window),
           NEW accepted, NEW a, a.registry = trust.registry, a.time \in Int,
           During(a.time, window), NEW all, DOMAIN bundle.signatures \subseteq all,
           VerifyBundleError(bundle, hash, domain, role, trust, window, accepted) = NoError
    PROVE  VerifyBundleError(bundle, hash, domain, role, a, window, all) = NoError
<1> DEFINE s == bundle.signatures
           before == [i \in DOMAIN s |-> VerifyEntryError(s, i, role, trust, window, accepted)]
           after == [i \in DOMAIN s |-> VerifyEntryError(s, i, role, a, window, all)]
           shape == FirstError(<<
               Check(bundle.form # "fields", {"field", "schema", "signature"}),
               Check(bundle.form # "policy", {"policy", "signature"}),
               Check(s # <<>>, {"signature"}),
               FirstError([i \in DOMAIN s |-> EntryError(s, i, hash, domain)]) >>)
           ordered == Check(InPolicyOrder(s), {"algorithm", "policy", "signature"})
           required == Check(RequiredAlgorithms \subseteq PresentAlgorithms(s),
                             {"policy", "signature"})
<1>1. shape = NoError /\ FirstError(<<ordered, required, FirstError(before)>>) = NoError
  BY DEF VerifyBundleError
<1>2. ordered = NoError /\ required = NoError /\ FirstError(before) = NoError
  <2> HIDE DEF ordered, required, before
  <2> QED
    BY <1>1, PassedThree
<1>3. DOMAIN s \subseteq Nat /\ DOMAIN before = DOMAIN s /\ DOMAIN after = DOMAIN s
  BY ListDomain
<1>4. \A i \in DOMAIN s : VerifyEntryError(s, i, role, trust, window, accepted) = NoError
  <2>1. \A i \in DOMAIN before : before[i] = NoError
    <3> HIDE DEF before
    <3> QED
      BY <1>2, <1>3, PassedChecks
  <2> QED
    BY <2>1
<1>5. ASSUME NEW i \in DOMAIN s
      PROVE  VerifyEntryError(s, i, role, a, window, all) = NoError
  <2> HIDE DEF s
  <2>1. FindKeyError(trust.registry, role, s[i].key, s[i].algorithm, trust.time, window) = NoError
    BY <1>4, <1>5, PassedTwo DEF VerifyEntryError
  <2>2. FindKeyError(a.registry, role, s[i].key, s[i].algorithm, a.time, window) = NoError
    BY <2>1, KeyStaysTrusted
  <2>3. Check(i \in all, {"signature"}) = NoError
    BY <1>5 DEF Check, s
  <2> QED
    BY <2>2, <2>3, AllTwo DEF VerifyEntryError
<1>6. FirstError(after) = NoError
  <2>1. \A i \in DOMAIN after : after[i] = NoError
    BY <1>5
  <2> HIDE DEF after
  <2> QED
    BY <1>3, <2>1, NothingFails
<1>7. FirstError(<<ordered, required, FirstError(after)>>) = NoError
  <2> HIDE DEF ordered, required, after
  <2> QED
    BY <1>2, <1>6, AllThree
<1> QED
  BY <1>1, <1>7 DEF VerifyBundleError

LEMMA ComponentChecks ==
    ASSUME NEW c, NEW context, NEW trust, NEW accepted,
           ComponentEnvelopeError(c, context, trust, accepted) = NoError
    PROVE  /\ PayloadError(c) = NoError
           /\ c.context = context
           /\ c.signedHash = ComponentHash(c)
           /\ c.version = trust.registry.version
           /\ VerifyBundleError(c.bundle, ComponentHash(c), COMPONENT_VERDICT_DOMAIN,
                                c.id, trust, c.window, accepted) = NoError
<1> DEFINE bundle == VerifyBundleError(c.bundle, ComponentHash(c), COMPONENT_VERDICT_DOMAIN,
                                       c.id, trust, c.window, accepted)
           payload == PayloadError(c)
           bound == Check(c.context = context, {"context", "hash"})
           hash == Check(c.signedHash = ComponentHash(c), {"hash"})
           version == Check(c.version = trust.registry.version, {"key", "registry"})
<1>1. FirstError(<<payload, bound, hash, version, bundle>>) = NoError
  BY DEF ComponentEnvelopeError
<1>2. /\ payload = NoError /\ bound = NoError /\ hash = NoError /\ version = NoError
      /\ bundle = NoError
  <2> HIDE DEF payload, bound, hash, version, bundle
  <2> QED
    BY <1>1, PassedFive
<1>3. /\ c.context = context /\ c.signedHash = ComponentHash(c)
      /\ c.version = trust.registry.version
  BY <1>2 DEF Check, NoError
<1> QED
  BY <1>2, <1>3

LEMMA ComponentStaysVerified ==
    ASSUME NEW c, IsList(c.bundle.signatures), IsWindow(c.window), NEW context,
           NEW trust, IsKeyList(trust.registry.entries), NEW accepted,
           NEW a, a.registry = trust.registry, a.time \in Int, During(a.time, c.window),
           NEW all, DOMAIN c.bundle.signatures \subseteq all,
           ComponentEnvelopeError(c, context, trust, accepted) = NoError
    PROVE  ComponentEnvelopeError(c, context, a, all) = NoError
<1> DEFINE bundle == VerifyBundleError(c.bundle, ComponentHash(c), COMPONENT_VERDICT_DOMAIN,
                                       c.id, a, c.window, all)
           payload == PayloadError(c)
           bound == Check(c.context = context, {"context", "hash"})
           hash == Check(c.signedHash = ComponentHash(c), {"hash"})
           version == Check(c.version = a.registry.version, {"key", "registry"})
<1>1. /\ payload = NoError /\ c.context = context /\ c.signedHash = ComponentHash(c)
      /\ c.version = a.registry.version
      /\ VerifyBundleError(c.bundle, ComponentHash(c), COMPONENT_VERDICT_DOMAIN,
                           c.id, trust, c.window, accepted) = NoError
  BY ComponentChecks
<1>2. bundle = NoError
  BY <1>1, BundleStaysVerified
<1>3. bound = NoError /\ hash = NoError /\ version = NoError
  BY <1>1 DEF Check
<1>4. FirstError(<<payload, bound, hash, version, bundle>>) = NoError
  <2> HIDE DEF payload, bound, hash, version, bundle
  <2> QED
    BY <1>1, <1>2, <1>3, AllFive
<1> QED
  BY <1>4 DEF ComponentEnvelopeError

LEMMA ReceiptChecks ==
    ASSUME NEW r, NEW context, NEW trust, NEW accepted,
           ReceiptEnvelopeError(r, context, trust, accepted) = NoError
    PROVE  /\ Check(r.fields, {"field", "schema"}) = NoError
           /\ Check(r.policy, {"policy", "signature"}) = NoError
           /\ r.schema = "shield.receipt.v2"
           /\ HeaderError(r) = NoError
           /\ r.context = context
           /\ SemanticsError(r, context) = NoError
           /\ r.receiptHash = ReceiptHash(r) /\ r.signedHash = SignedHash(r)
           /\ r.version = trust.registry.version
           /\ VerifyBundleError(r.bundle, SignedHash(r), ORCHESTRATOR_RECEIPT_DOMAIN,
                                Orchestrator, trust, r.window, accepted) = NoError
<1> DEFINE bundle == VerifyBundleError(r.bundle, SignedHash(r), ORCHESTRATOR_RECEIPT_DOMAIN,
                                       Orchestrator, trust, r.window, accepted)
           fields == Check(r.fields, {"field", "schema"})
           schema == Check(r.schema = "shield.receipt.v2", {"schema"})
           header == HeaderError(r)
           policy == Check(r.policy, {"policy", "signature"})
           bound == Check(r.context = context, {"context"})
           semantics == SemanticsError(r, context)
           hash == Check(r.receiptHash = ReceiptHash(r), {"hash"})
           signed == Check(r.signedHash = SignedHash(r), {"hash"})
           version == Check(r.version = trust.registry.version, {"key", "registry"})
<1>1. FirstError(<<fields, schema, header, policy, bound, semantics, hash, signed, version,
                   bundle>>) = NoError
  BY DEF ReceiptEnvelopeError
<1>2. /\ fields = NoError /\ schema = NoError /\ header = NoError /\ policy = NoError
      /\ bound = NoError /\ semantics = NoError /\ hash = NoError /\ signed = NoError
      /\ version = NoError /\ bundle = NoError
  <2> HIDE DEF fields, schema, header, policy, bound, semantics, hash, signed, version, bundle
  <2> QED
    BY <1>1, PassedTen
<1>3. /\ r.schema = "shield.receipt.v2" /\ r.context = context
      /\ r.receiptHash = ReceiptHash(r) /\ r.signedHash = SignedHash(r)
      /\ r.version = trust.registry.version
  BY <1>2 DEF Check, NoError
<1> QED
  BY <1>2, <1>3

LEMMA ReceiptStaysVerified ==
    ASSUME NEW r, IsList(r.bundle.signatures), IsWindow(r.window), NEW context,
           NEW trust, IsKeyList(trust.registry.entries), NEW accepted,
           NEW a, a.registry = trust.registry, a.time \in Int, During(a.time, r.window),
           NEW all, DOMAIN r.bundle.signatures \subseteq all,
           ReceiptEnvelopeError(r, context, trust, accepted) = NoError
    PROVE  ReceiptEnvelopeError(r, context, a, all) = NoError
<1> DEFINE bundle == VerifyBundleError(r.bundle, SignedHash(r), ORCHESTRATOR_RECEIPT_DOMAIN,
                                       Orchestrator, a, r.window, all)
           fields == Check(r.fields, {"field", "schema"})
           schema == Check(r.schema = "shield.receipt.v2", {"schema"})
           header == HeaderError(r)
           policy == Check(r.policy, {"policy", "signature"})
           bound == Check(r.context = context, {"context"})
           semantics == SemanticsError(r, context)
           hash == Check(r.receiptHash = ReceiptHash(r), {"hash"})
           signed == Check(r.signedHash = SignedHash(r), {"hash"})
           version == Check(r.version = a.registry.version, {"key", "registry"})
<1>1. /\ fields = NoError /\ policy = NoError /\ r.schema = "shield.receipt.v2"
      /\ header = NoError /\ r.context = context /\ semantics = NoError
      /\ r.receiptHash = ReceiptHash(r) /\ r.signedHash = SignedHash(r)
      /\ r.version = a.registry.version
      /\ VerifyBundleError(r.bundle, SignedHash(r), ORCHESTRATOR_RECEIPT_DOMAIN,
                           Orchestrator, trust, r.window, accepted) = NoError
  BY ReceiptChecks
<1>2. bundle = NoError
  BY <1>1, BundleStaysVerified
<1>3. /\ schema = NoError /\ bound = NoError /\ hash = NoError /\ signed = NoError
      /\ version = NoError
  BY <1>1 DEF Check
<1>4. FirstError(<<fields, schema, header, policy, bound, semantics, hash, signed, version,
                   bundle>>) = NoError
  <2> HIDE DEF fields, schema, header, policy, bound, semantics, hash, signed, version, bundle
  <2> QED
    BY <1>1, <1>2, <1>3, AllTen
<1> QED
  BY <1>4 DEF ReceiptEnvelopeError

\* A verified bundle is prepared, though for a hash that stands in for its own.
LEMMA VerifiedIsPrepared ==
    ASSUME NEW bundle, IsList(bundle.signatures), NEW hash, NEW domain, NEW role,
           NEW window, NEW a, IsList(a.registry.entries),
           \A i \in DOMAIN bundle.signatures : bundle.signatures[i].signature # "blank",
           VerifyBundleError(bundle, hash, domain, role, a, window,
                             DOMAIN bundle.signatures) = NoError
    PROVE  PrepareBundleError(bundle, domain, role, window, a) = NoError
<1> DEFINE s == bundle.signatures
           signed == \A i \in DOMAIN s : s[i].signature # "blank"
           standIn == VerifyBundleError(bundle, s[1].hash, domain, role, a, window, DOMAIN s)
<1>1. s # <<>> /\ \A i \in DOMAIN s : s[i].hash = hash
  <2>1. BundleVerified(bundle, hash, domain, role, a, window, DOMAIN bundle.signatures)
    BY VerifiedBundle
  <2> QED
    BY <2>1 DEF BundleVerified
<1>2. s[1].hash = hash
  <2>1. DOMAIN s = 1..Len(s) /\ Len(s) \in Nat /\ Len(s) # 0
    BY <1>1 DEF IsList
  <2>2. 1 \in DOMAIN s
    BY <2>1
  <2> QED
    BY <1>1, <2>2
<1>3. standIn = NoError
  BY <1>2
<1>4. Check(signed, {"signature"}) = NoError
  BY DEF Check
<1>5. FirstError(<<Check(signed, {"signature"}), standIn>>) = NoError
  <2> HIDE DEF signed, standIn
  <2> QED
    BY <1>3, <1>4, AllTwo
<1> QED
  BY <1>5 DEF PrepareBundleError

LEMMA FreshnessPasses ==
    ASSUME NEW window, Proper(window), NEW time, During(time, window)
    PROVE  FreshnessError(window, time) = NoError
<1>1. /\ Check(Proper(window), {"freshness"}) = NoError
      /\ Check(During(time, window), {"time"}) = NoError
  BY DEF Check
<1> QED
  BY <1>1, AllTwo DEF FreshnessError

LEMMA VerifiedIsProper ==
    ASSUME NEW bundle, IsList(bundle.signatures), NEW hash, NEW domain, NEW role,
           NEW a, IsList(a.registry.entries), NEW window, NEW all,
           VerifyBundleError(bundle, hash, domain, role, a, window, all) = NoError
    PROVE  Proper(window)
<1> DEFINE s == bundle.signatures
           keys == [i \in DOMAIN s |-> VerifyEntryError(s, i, role, a, window, all)]
           ordered == Check(InPolicyOrder(s), {"algorithm", "policy", "signature"})
           required == Check(RequiredAlgorithms \subseteq PresentAlgorithms(s),
                             {"policy", "signature"})
<1>1. FirstError(<<ordered, required, FirstError(keys)>>) = NoError
  BY DEF VerifyBundleError
<1>2. FirstError(keys) = NoError
  <2> HIDE DEF ordered, required, keys
  <2> QED
    BY <1>1, PassedThree
<1>3. 1 \in DOMAIN s /\ DOMAIN s \subseteq Nat
  <2>1. s # <<>>
    BY VerifiedBundle DEF BundleVerified
  <2>2. DOMAIN s = 1..Len(s) /\ Len(s) \in Nat /\ Len(s) # 0
    BY <2>1 DEF IsList
  <2> QED
    BY <2>2
<1>4. VerifyEntryError(s, 1, role, a, window, all) = NoError
  <2>1. DOMAIN keys = DOMAIN s /\ keys[1] = VerifyEntryError(s, 1, role, a, window, all)
    BY <1>3
  <2> HIDE DEF keys
  <2> QED
    BY <1>2, <1>3, <2>1, PassedChecks
<1> HIDE DEF s
<1>5. FindKeyError(a.registry, role, s[1].key, s[1].algorithm, a.time, window) = NoError
  BY <1>4, PassedTwo DEF VerifyEntryError
<1> QED
  BY <1>5 DEF FindKeyError, NoError

\* A verdict that verified before is prepared by the boundary.
LEMMA ComponentIsPrepared ==
    ASSUME NEW c, IsList(c.bundle.signatures), IsWindow(c.window),
           NEW trust, IsKeyList(trust.registry.entries), NEW accepted,
           NEW a, a.registry = trust.registry, a.time \in Int, During(a.time, c.window),
           ComponentEnvelopeError(c, a.context, trust, accepted) = NoError,
           \A i \in DOMAIN c.bundle.signatures : c.bundle.signatures[i].signature # "blank"
    PROVE  PrepareComponentError(c, a) = NoError
<1> DEFINE all == DOMAIN c.bundle.signatures
           payload == PayloadError(c)
           bound == Check(c.context = a.context, {"context", "hash"})
           version == Check(c.version = a.registry.version, {"key", "registry"})
           fresh == FreshnessError(c.window, a.time)
           bundle == PrepareBundleError(c.bundle, COMPONENT_VERDICT_DOMAIN, c.id, c.window, a)
<1>0. ComponentEnvelopeError(c, a.context, a, all) = NoError
  BY ComponentStaysVerified
<1>1. /\ payload = NoError /\ c.context = a.context /\ c.version = a.registry.version
      /\ VerifyBundleError(c.bundle, ComponentHash(c), COMPONENT_VERDICT_DOMAIN,
                           c.id, a, c.window, all) = NoError
  BY <1>0, ComponentChecks
<1>2. IsList(a.registry.entries)
  BY DEF IsKeyList
<1>3. bundle = NoError
  BY <1>1, <1>2, VerifiedIsPrepared
<1>4. fresh = NoError
  BY <1>1, <1>2, VerifiedIsProper, FreshnessPasses
<1>5. bound = NoError /\ version = NoError
  BY <1>1 DEF Check
<1>6. FirstError(<<payload, bound, version, fresh, bundle>>) = NoError
  <2> HIDE DEF payload, bound, version, fresh, bundle
  <2> QED
    BY <1>1, <1>3, <1>4, <1>5, AllFive
<1> QED
  BY <1>6 DEF PrepareComponentError

-----------------------------------------------------------------------------
(* The plan of a receipt. *)

LEMMA ComponentOfId ==
    ASSUME NEW r, IsList(r.components), OnePerComponent(r.components), NEW id \in Components
    PROVE  \E i \in DOMAIN r.components :
               Component(r, id) = r.components[i] /\ r.components[i].id = id
<1>1. {r.components[i].id : i \in DOMAIN r.components} = Components
  BY EveryComponentIsThere
<1> QED
  BY <1>1 DEF Component

\* A plan has one record for each signature of each artifact.
LEMMA PlanHasEveryEntry ==
    ASSUME NEW r, IsList(r.components), OnePerComponent(r.components)
    PROVE  Plan(r) = UNION {BundlePlan(id, BundleOf(r, id)) : id \in Artifacts}
<1>1. ASSUME NEW i \in DOMAIN r.components
      PROVE  /\ r.components[i].id \in Artifacts
             /\ BundleOf(r, r.components[i].id) = r.components[i].bundle
  <2>1. r.components[i].id \in Components /\ r.components[i].id # Orchestrator
    BY ArtifactAssumption DEF OnePerComponent
  <2>2. PICK j \in DOMAIN r.components :
            /\ Component(r, r.components[i].id) = r.components[j]
            /\ r.components[j].id = r.components[i].id
    BY <2>1, ComponentOfId
  <2>3. i = j
    BY <2>2 DEF OnePerComponent
  <2> QED
    BY <2>1, <2>2, <2>3 DEF BundleOf, Artifacts
<1>2. Plan(r) \subseteq UNION {BundlePlan(id, BundleOf(r, id)) : id \in Artifacts}
  BY <1>1 DEF Plan, BundleOf, Artifacts
<1>3. ASSUME NEW id \in Artifacts
      PROVE  BundlePlan(id, BundleOf(r, id)) \subseteq Plan(r)
  <2>1. CASE id = Orchestrator
    BY <2>1 DEF Plan, BundleOf
  <2>2. CASE id # Orchestrator
    <3>1. PICK i \in DOMAIN r.components :
              Component(r, id) = r.components[i] /\ r.components[i].id = id
      BY <2>2, ComponentOfId DEF Artifacts
    <3> QED
      BY <2>2, <3>1 DEF Plan, BundleOf
  <2> QED
    BY <2>1, <2>2
<1> QED
  BY <1>2, <1>3

LEMMA ListDomainIsFinite ==
    ASSUME NEW s, IsList(s)
    PROVE  IsFiniteSet(DOMAIN s)
<1>1. DOMAIN s = 1..Len(s) /\ 1 \in Int /\ Len(s) \in Int
  BY ListDomain
<1>2. IsFiniteSet(1..Len(s))
  BY <1>1, FS_Interval
<1> QED
  BY <1>1, <1>2

LEMMA ImageIsFinite ==
    ASSUME NEW D, IsFiniteSet(D), NEW T, NEW f \in [D -> T], \A t \in T : \E x \in D : f[x] = t
    PROVE  IsFiniteSet(T)
<1>1. f \in Surjection(D, T)
  BY DEF Surjection
<1> QED
  BY <1>1, FS_Surjection

LEMMA BundlePlanIsFinite ==
    ASSUME NEW id, NEW bundle, IsList(bundle.signatures)
    PROVE  IsFiniteSet(BundlePlan(id, bundle))
<1> DEFINE entries == [i \in DOMAIN bundle.signatures |-> PlannedEntry(id, bundle, i)]
<1>1. entries \in [DOMAIN bundle.signatures -> BundlePlan(id, bundle)]
  BY DEF BundlePlan
<1>2. \A p \in BundlePlan(id, bundle) : \E i \in DOMAIN bundle.signatures : entries[i] = p
  BY DEF BundlePlan
<1> HIDE DEF entries
<1> QED
  BY <1>1, <1>2, ListDomainIsFinite, ImageIsFinite

LEMMA PlanIsFinite ==
    ASSUME NEW r, Listed(r)
    PROVE  IsFiniteSet(Plan(r))
<1> DEFINE Part(i) == BundlePlan(r.components[i].id, r.components[i].bundle)
           parts == {Part(i) : i \in DOMAIN r.components}
           part == [i \in DOMAIN r.components |-> Part(i)]
<1>1. IsFiniteSet(DOMAIN r.components)
  BY ListDomainIsFinite DEF Listed
<1>2. IsFiniteSet(parts)
  <2>1. part \in [DOMAIN r.components -> parts]
    OBVIOUS
  <2>2. \A p \in parts : \E i \in DOMAIN r.components : part[i] = p
    OBVIOUS
  <2> HIDE DEF part, parts
  <2> QED
    BY <1>1, <2>1, <2>2, ImageIsFinite
<1>3. \A p \in parts : IsFiniteSet(p)
  BY BundlePlanIsFinite DEF Listed
<1>4. IsFiniteSet(UNION parts)
  <2> HIDE DEF parts
  <2> QED
    BY <1>2, <1>3, FS_UNION
<1>5. IsFiniteSet(BundlePlan(Orchestrator, r.bundle))
  BY BundlePlanIsFinite DEF Listed
<1> QED
  BY <1>4, <1>5, FS_Union DEF Plan

LEMMA BundlePlanSize ==
    ASSUME NEW id, NEW bundle, IsList(bundle.signatures)
    PROVE  Cardinality(BundlePlan(id, bundle)) = Len(bundle.signatures)
<1> DEFINE D == DOMAIN bundle.signatures
           entries == [i \in D |-> PlannedEntry(id, bundle, i)]
<1>1. entries \in [D -> BundlePlan(id, bundle)]
  BY DEF BundlePlan
<1>2. \A p \in BundlePlan(id, bundle) : \E i \in D : entries[i] = p
  BY DEF BundlePlan
<1>3. \A i, j \in D : entries[i] = entries[j] => i = j
  BY DEF PlannedEntry
<1>4. ExistsBijection(D, BundlePlan(id, bundle))
  <2> HIDE DEF entries, D
  <2>1. entries \in Bijection(D, BundlePlan(id, bundle))
    BY <1>1, <1>2, <1>3 DEF Bijection, Injection, Surjection, IsInjective
  <2> QED
    BY <2>1 DEF ExistsBijection
<1>5. D = 1..Len(bundle.signatures) /\ Len(bundle.signatures) \in Nat
  BY ListDomain
<1>6. Cardinality(D) = Len(bundle.signatures) /\ IsFiniteSet(D)
  BY <1>5, FS_Interval
<1> QED
  BY <1>4, <1>6, FS_Bijection

\* The rehearsal's verifiers accept every entry of the plan.
LEMMA EverythingIsCached ==
    ASSUME NEW r
    PROVE  /\ DOMAIN r.bundle.signatures \subseteq Cached(Plan(r), Orchestrator, r.bundle)
           /\ \A i \in DOMAIN r.components : LET c == r.components[i] IN
                  DOMAIN c.bundle.signatures \subseteq Cached(Plan(r), c.id, c.bundle)
BY DEF Cached, Plan, BundlePlan

-----------------------------------------------------------------------------
(* Ids and lists of verdicts that pass.                                      *)

LEMMA IdPasses ==
    ASSUME NEW components, IsList(components), OnePerComponent(components),
           NEW i \in DOMAIN components
    PROVE  IdError(components, i, {}) = NoError
<1> DEFINE known == components[i].id \in Components
           new == \A j \in 1..(i - 1) : components[j].id # components[i].id
<1>1. known /\ new
  BY ListDomain DEF OnePerComponent
<1>2. FirstError(<<Check(known, {}), Check(new, {})>>) = NoError
  <2> HIDE DEF known, new
  <2>1. Check(known, {}) = NoError /\ Check(new, {}) = NoError
    BY <1>1 DEF Check
  <2> QED
    BY <2>1, AllTwo
<1> QED
  BY <1>2 DEF IdError

LEMMA IdHolds ==
    ASSUME NEW components, NEW i, IdError(components, i, {}) = NoError
    PROVE  /\ components[i].id \in Components
           /\ \A j \in 1..(i - 1) : components[j].id # components[i].id
<1> DEFINE known == components[i].id \in Components
           new == \A j \in 1..(i - 1) : components[j].id # components[i].id
<1>1. FirstError(<<Check(known, {}), Check(new, {})>>) = NoError
  BY DEF IdError
<1>2. known /\ new
  <2> HIDE DEF known, new
  <2>1. Check(known, {}) = NoError /\ Check(new, {}) = NoError
    BY <1>1, PassedTwo
  <2> QED
    BY <2>1 DEF Check, NoError
<1> QED
  BY <1>2

LEMMA SemanticsCount ==
    ASSUME NEW r, IsList(r.components), NEW context, SemanticsError(r, context) = NoError
    PROVE  OnePerComponent(r.components)
<1> DEFINE item(i) == FirstError(<<
                          IdError(r.components, i, {}),
                          Check(r.components[i].context = context, {"context"}) >>)
           items == [i \in DOMAIN r.components |-> item(i)]
           ids == FirstError(items)
           length == Check(Len(r.components) = Len(ComponentOrder), {})
<1>1. FirstError(<<
        Check(r.fields, {"field", "schema"}),
        Check(r.context = context, {"context"}),
        length,
        ids,
        ResultsError(r.results),
        Check(r.outcome = ExpectedFinalOutcome(r.components), {}),
        Check(r.handoff # "forbidden", {"authority", "field"}),
        Check(r.outcome = "ALLOW" \/ r.handoff # "allowed", {"handoff_allowed"}) >>) = NoError
  BY DEF SemanticsError
<1>2. length = NoError /\ ids = NoError
  <2> HIDE DEF length, ids
  <2> QED
    BY <1>1, PassedEight
<1>3. \A i \in DOMAIN r.components : item(i) = NoError
  <2>1. /\ DOMAIN items \subseteq Nat /\ DOMAIN items = DOMAIN r.components
        /\ \A i \in DOMAIN items : items[i] = item(i)
    BY ListDomain
  <2> HIDE DEF items, item
  <2> QED
    BY <1>2, <2>1, PassedChecks
<1>4. \A i \in DOMAIN r.components : IdError(r.components, i, {}) = NoError
  BY <1>3, PassedTwo
<1>5. Len(r.components) = Len(ComponentOrder)
  BY <1>2 DEF Check, NoError
<1>6. /\ \A i \in DOMAIN r.components : r.components[i].id \in Components
      /\ \A i, j \in DOMAIN r.components : j < i => r.components[j].id # r.components[i].id
  BY <1>4, IdHolds, ListDomain
<1> QED
  BY <1>5, <1>6, ListDomain DEF OnePerComponent

LEMMA VerdictsPass ==
    ASSUME NEW components, IsList(components), OnePerComponent(components),
           NEW context, NEW a, NEW accepted,
           \A i \in DOMAIN components :
               ComponentEnvelopeError(components[i], context, a, accepted[i]) = NoError
    PROVE  ComponentVerdictsError(components, context, a, accepted) = NoError
<1> DEFINE new(i) == \A j \in 1..(i - 1) : components[j].id # components[i].id
           item(i) == FirstError(<<
               ComponentEnvelopeError(components[i], context, a, accepted[i]),
               Check(new(i), {}) >>)
           items == [i \in DOMAIN components |-> item(i)]
           length == Check(Len(components) = Len(ComponentOrder), {})
<1>1. ASSUME NEW i \in DOMAIN components
      PROVE  item(i) = NoError
  <2>1. new(i)
    BY ListDomain DEF OnePerComponent
  <2>2. Check(new(i), {}) = NoError
    BY <2>1 DEF Check
  <2> HIDE DEF new
  <2> QED
    BY <2>2, AllTwo
<1>2. FirstError(items) = NoError
  <2>1. /\ DOMAIN items \subseteq Nat /\ DOMAIN items = DOMAIN components
        /\ \A i \in DOMAIN items : items[i] = item(i)
    BY ListDomain
  <2> HIDE DEF items, item
  <2> QED
    BY <1>1, <2>1, NothingFails
<1>3. length = NoError
  BY DEF OnePerComponent, Check
<1>4. FirstError(<<length, FirstError(items)>>) = NoError
  <2> HIDE DEF length, items
  <2> QED
    BY <1>2, <1>3, AllTwo
<1> QED
  BY <1>4 DEF ComponentVerdictsError
=============================================================================
