------------------------- MODULE RealCryptoBackend -------------------------
(***************************************************************************)
(* Real signatures of Shield v4: the adapter between signature entries and *)
(* a production backend (v4/real_crypto_backend.py) and the liboqs         *)
(* backends behind it (v4/oqs_mldsa_backend.py,                            *)
(* v4/oqs_falcon_backend.py).                                              *)
(*                                                                         *)
(* Calls that sign and calls that verify run concurrently.  Around them    *)
(* private keys rotate under their references, the library comes and goes, *)
(* native calls fail, entries are recombined from the parts of others, and *)
(* the entry a verification reads may change while it is read.             *)
(*                                                                         *)
(* Signatures are ideal: the native verifier says True of exactly the      *)
(* signatures the holder of the public key made over that very message.    *)
(* A key id or reference is the sequence of the lines of its text: the     *)
(* adapter refuses white space around it and not inside it.                *)
(***************************************************************************)
EXTENDS VerificationErrors

CONSTANTS
    SigningCalls, VerifyingCalls,
    Algorithms,          \* SIGNATURE_POLICY_V1.allowed_algorithms
    StandardProfiles,    \* ALGORITHM_STANDARD_PROFILES
    Hashes,              \* well-formed lower-case SHA-256 texts
    KeyVersions,         \* the positive key versions in use
    Decimal(_),          \* str() of a positive int
    Backends,            \* the deployed backends, by the algorithm they serve
    OqsAlgorithms,       \* algorithms served by a liboqs backend
    ShorterAllowed,      \* those whose signatures vary in length (Falcon-1024)
    TestOnly,            \* key ids and references the test-only markers match
    Unencodable,         \* key ids with no UTF-8 form (lone surrogates)
    SignJobs,            \* [fields, reference, backend] asked of sign calls
    Keys,                \* trusted registry keys: [algorithm, keyId, version, public]
    EntryFields,         \* the signed fields entries may carry
    ForgedSignatures,    \* signature texts no signer returned
    ChangingFields,      \* bound: the fields an entry may change between while it is read
    InitialVault,        \* private key reference -> secret, as deployed
    RotatedVault         \* the same after the keys have rotated

Calls == SigningCalls \cup VerifyingCalls

Domains == {"component_verdict", "orchestrator_receipt"}
References == DOMAIN InitialVault
Secrets == {InitialVault[r] : r \in References} \cup {RotatedVault[r] : r \in References}

Fields ==
    [domain : STRING, hash : STRING, algorithm : STRING, profile : STRING,
     keyId : Seq(STRING), version : Nat]

FieldNames == {"domain", "hash", "algorithm", "profile", "keyId", "version"}

ASSUME DecimalAssumption ==
    /\ \A v \in KeyVersions : Decimal(v) \in STRING
    /\ \A v, w \in KeyVersions : Decimal(v) = Decimal(w) => v = w

ASSUME DeploymentAssumption ==
    /\ OqsAlgorithms \subseteq Algorithms
    /\ ShorterAllowed \subseteq OqsAlgorithms
    /\ DOMAIN RotatedVault = References
    /\ SigningCalls \cap VerifyingCalls = {}

ASSUME FieldsAssumption ==
    /\ \A j \in SignJobs : j.fields \in Fields
    /\ EntryFields \subseteq Fields

\* A trusted registry has positive key versions (v4/key_registry.py:89).
ASSUME KeysAssumption == \A key \in Keys : key.version \in KeyVersions

\* Nobody but its holder signs under a public key.
ASSUME ForgedAssumption ==
    \A s \in ForgedSignatures, key \in Keys : s.by # key.public.holder

VARIABLES
    vault,        \* what the private key resolver returns for a reference
    pc,           \* where each call is
    job,          \* what a call was asked
    read,         \* the fields (and signature) the adapter works on
    secret,       \* the private key resolved by a signing call
    signatures,   \* signature texts returned by signers, free to be copied
    signed,       \* history: [by, fields] natively signed
    fault,        \* history: the outside failed a call
    answer        \* how a call ended, {} until then

vars == <<vault, pc, job, read, secret, signatures, signed, fault, answer>>

-----------------------------------------------------------------------------
(* The exception hierarchy of the adapter. *)

Failure == {"ShieldV4RealCryptoBackendError"}
Unavailable == {"ShieldV4RealCryptoBackendUnavailable"}
Material == {"ShieldV4RealCryptoMaterialError"}
EncodeError == {"UnicodeEncodeError"}

FailClosed == {Failure, Unavailable, Material}

Entry == {"entry"}
True == {"true"}
False == {"false"}

-----------------------------------------------------------------------------
(* The message and the checks on what goes into it. *)

PREFIX == "DGB-SHIELD-V4-REAL-CRYPTO-SIGNATURE-INPUT"

\* Faulty variant: the message is not bound to the version of the key.
SignatureInputAnyVersion(f) ==
    <<PREFIX, f.domain, f.hash, f.algorithm, f.profile>> \o f.keyId

\* build_real_crypto_signature_input: the lines of the message.
SignatureInput(f) ==
    <<PREFIX, f.domain, f.hash, f.algorithm, f.profile>> \o f.keyId \o <<Decimal(f.version)>>

\* What both directions require of the fields; every refusal is the same error.
WellFormed(f) ==
    /\ f.algorithm \in Algorithms
    /\ f.profile \in StandardProfiles[f.algorithm]
    /\ f.domain \in Domains
    /\ f.hash \in Hashes
    /\ f.keyId # <<>>
    /\ f.version \in KeyVersions

EncodingError(f) == Check(f.keyId \notin Unencodable, EncodeError)

ReferenceError(reference) ==
    FirstError(<< Check(reference # <<>>, Failure), Check(reference \notin TestOnly, Material) >>)

SupportError(backend, algorithm) == Check(backend = algorithm, Unavailable)

SignRequestError(j) ==
    FirstError(<<
        Check(WellFormed(j.fields), Failure),
        EncodingError(j.fields),
        ReferenceError(j.reference),
        SupportError(j.backend, j.fields.algorithm) >>)

\* A text is "encoded" (b64u), a "text" that does not decode, an "oversized"
\* one, or "none" when it is no non-empty string.
IsText(material) == material.form # "none"
BoundedText(material) == material.form \in {"encoded", "text"}
Decodes(material) == material.form = "encoded"

\* Faulty variant: deterministic test keys are let through.
KeyMaterialErrorNone(key) == NoError

KeyMaterialError(key) ==
    Check(key.keyId \notin TestOnly /\ ~ key.public.testOnly, Material)

\* Faulty variant: the entry is not compared with the key it was looked up by.
NamesKeyAny(f, key) == TRUE

NamesKey(f, key) ==
    <<key.algorithm, key.keyId, key.version>> = <<f.algorithm, f.keyId, f.version>>

\* verify_signature_entry_with_real_backend up to the native verifier.  "first"
\* is the signature text as the code first reads it.
VerifyRequestError(first, f, key, backend) ==
    FirstError(<<
        Check(BoundedText(first) /\ BoundedText(key.public), Failure),
        KeyMaterialError(key),
        Check(Decodes(first) /\ Decodes(key.public), Failure),
        Check(f.algorithm \in Algorithms /\ f.profile \in StandardProfiles[f.algorithm], Failure),
        Check(NamesKey(f, key), Failure),
        SupportError(backend, f.algorithm),
        Check(WellFormed(f), Failure),
        EncodingError(f) >>)

-----------------------------------------------------------------------------

NoJob == [backend |-> "none"]
Nothing == [fields |-> "none"]

Init ==
    /\ vault = InitialVault
    /\ pc = [c \in Calls |-> "idle"]
    /\ job = [c \in Calls |-> NoJob]
    /\ read = [c \in Calls |-> Nothing]
    /\ secret = [c \in Calls |-> "none"]
    /\ signatures = {}
    /\ signed = {}
    /\ fault = [c \in Calls |-> FALSE]
    /\ answer = [c \in Calls |-> {}]

End(c, result) ==
    /\ pc' = [pc EXCEPT ![c] = "done"]
    /\ answer' = [answer EXCEPT ![c] = result]

Proceed(c, place) ==
    /\ pc' = [pc EXCEPT ![c] = place]
    /\ UNCHANGED answer

\* Faulty variant: what a backend raises is passed on as it is.
FailUncaught(c, error) ==
    /\ End(c, {"RuntimeError"})
    /\ fault' = [fault EXCEPT ![c] = TRUE]

\* The outside fails call c and the error is caught.
Fail(c, error) ==
    /\ End(c, error)
    /\ fault' = [fault EXCEPT ![c] = TRUE]

\* The operator puts the next private keys behind the references.
Rotate ==
    /\ vault # RotatedVault
    /\ vault' = RotatedVault
    /\ UNCHANGED <<pc, job, read, secret, signatures, signed, fault, answer>>

-----------------------------------------------------------------------------
(* Signing *)

\* build_signature_entry_with_real_backend up to backend.sign_message.
RequestSignature(c) ==
    /\ pc[c] = "idle"
    /\ \E j \in SignJobs :
        /\ job' = [job EXCEPT ![c] = [reference |-> j.reference, backend |-> j.backend]]
        /\ read' = [read EXCEPT ![c] = [fields |-> j.fields]]
        /\ LET error == SignRequestError(j) IN
           IF error # NoError THEN End(c, error)
           ELSE Proceed(c, IF j.backend \in OqsAlgorithms THEN "resolve" ELSE "native")
    /\ UNCHANGED <<vault, secret, signatures, signed, fault>>

\* Faulty variant: what the resolver returns is not checked to be a key.
ResolvePrivateKeyUnchecked(c) ==
    /\ pc[c] = "resolve"
    /\ \/ /\ job[c].reference \in References
          /\ secret' = [secret EXCEPT ![c] = vault[job[c].reference]]
       \/ UNCHANGED secret
    /\ Proceed(c, "discover")
    /\ UNCHANGED <<vault, job, read, signatures, signed, fault>>

\* _resolve_private_key: the deployment's resolver, which may fail or return
\* no usable bytes.
ResolvePrivateKey(c) ==
    /\ pc[c] = "resolve"
    /\ \/ /\ job[c].reference \in References
          /\ secret' = [secret EXCEPT ![c] = vault[job[c].reference]]
          /\ Proceed(c, "discover")
          /\ UNCHANGED fault
       \/ Fail(c, Failure) /\ UNCHANGED secret
    /\ UNCHANGED <<vault, job, read, signatures, signed>>

\* The lengths a native signer of the algorithm produces.
SignatureSizes(algorithm) ==
    IF algorithm \in ShorterAllowed THEN {"full", "shorter"} ELSE {"full"}

\* A liboqs backend signs with the key it resolved, an external one with the
\* key it holds itself.
SigningKeys(c) ==
    IF job[c].backend \in OqsAlgorithms THEN {secret[c]}
    ELSE {vault[r] : r \in References \cap {job[c].reference}}

\* Native signing, the encoding of its result and the checks on the way out.
NativeSign(c) ==
    /\ pc[c] = "native"
    /\ \/ /\ \E key \in SigningKeys(c), size \in SignatureSizes(job[c].backend) :
                /\ signatures' = signatures \cup
                       {[form |-> "encoded", by |-> key, size |-> size,
                         message |-> SignatureInput(read[c].fields)]}
                /\ signed' = signed \cup {[by |-> key, fields |-> read[c].fields]}
          /\ End(c, Entry)
          /\ UNCHANGED fault
       \/ Fail(c, Failure) /\ UNCHANGED <<signatures, signed>>
    /\ UNCHANGED <<vault, job, read, secret>>

-----------------------------------------------------------------------------
(* Verifying *)

\* Entries anyone can put together: known fields with a known signature.
Presentable == [fields : EntryFields, signature : signatures \cup ForgedSignatures]

\* The entry object a verification is given holds one entry, or changes from
\* one to another during the call: each field is read from one that it holds.
RequestVerification(c) ==
    /\ pc[c] = "idle"
    /\ \E e, d \in Presentable, key \in Keys, backend \in Backends :
        /\ d = e \/ {e.fields, d.fields} \subseteq ChangingFields
        /\ job' = [job EXCEPT ![c] = [key |-> key, backend |-> backend, held |-> {e, d}]]
        /\ Proceed(c, "read")
    /\ UNCHANGED <<vault, read, secret, signatures, signed, fault>>

\* verify_signature_entry_with_real_backend up to backend.verify_signature,
\* and the decoding a liboqs backend starts with.  The signature text is read
\* again for the backend after the first reading of it has been checked.
ReadEntry(c) ==
    /\ pc[c] = "read"
    /\ \E from \in [FieldNames -> job[c].held], first, last \in job[c].held :
        LET f == [domain |-> from.domain.fields.domain, hash |-> from.hash.fields.hash,
                  algorithm |-> from.algorithm.fields.algorithm,
                  profile |-> from.profile.fields.profile,
                  keyId |-> from.keyId.fields.keyId, version |-> from.version.fields.version]
            oqs == job[c].backend \in OqsAlgorithms
            error == FirstError(<<
                VerifyRequestError(first.signature, f, job[c].key, job[c].backend),
                Check(IsText(last.signature), Failure),
                Check(oqs => Decodes(last.signature), Failure) >>)
        IN  /\ read' = [read EXCEPT ![c] = [fields |-> f, signature |-> last.signature]]
            /\ IF error # NoError THEN End(c, error)
               ELSE Proceed(c, IF oqs THEN "discover" ELSE "native")
    /\ UNCHANGED <<vault, job, secret, signatures, signed, fault>>

\* Faulty variant: every signature must have the full length.
LengthsFitExact(backend, key, signature) ==
    key.public.size = "full" /\ signature.size = "full"

\* _require_expected_binary_length, where the library tells the lengths.
LengthsFit(backend, key, signature) ==
    /\ key.public.size = "full"
    /\ \/ signature.size = "full"
       \/ signature.size = "shorter" /\ backend \in ShorterAllowed

\* The native verifier, as an ideal signature scheme answers.
Genuine(f, signature, key) ==
    /\ signature.by = key.public.holder
    /\ signature.message = SignatureInput(f)

\* The library tells the lengths or keeps them to itself (details); an answer
\* that is no bool, or an exception, is refused.
NativeVerify(c) ==
    /\ pc[c] = "native"
    /\ \/ /\ \E measured \in {job[c].backend \in OqsAlgorithms, FALSE} :
                IF measured /\ ~ LengthsFit(job[c].backend, job[c].key, read[c].signature)
                THEN End(c, Failure)
                ELSE End(c, IF Genuine(read[c].fields, read[c].signature, job[c].key)
                            THEN True ELSE False)
          /\ UNCHANGED fault
       \/ Fail(c, Failure)
    /\ UNCHANGED <<vault, job, read, secret, signatures, signed>>

-----------------------------------------------------------------------------

\* _require_mechanism_enabled: the library may be absent, lack the mechanism,
\* or fail to tell.
DiscoverMechanism(c) ==
    /\ pc[c] = "discover"
    /\ \/ Proceed(c, "native") /\ UNCHANGED fault
       \/ Fail(c, Unavailable)
       \/ Fail(c, Failure)
    /\ UNCHANGED <<vault, job, read, secret, signatures, signed>>

Next ==
    \/ Rotate
    \/ \E c \in SigningCalls :
        RequestSignature(c) \/ ResolvePrivateKey(c) \/ NativeSign(c)
    \/ \E c \in VerifyingCalls :
        RequestVerification(c) \/ ReadEntry(c) \/ NativeVerify(c)
    \/ \E c \in Calls : DiscoverMechanism(c)

Spec == Init /\ [][Next]_vars

-----------------------------------------------------------------------------
(* Properties *)

Places == {"idle", "resolve", "discover", "native", "read", "done"}

\* Phases, secrets and signatures stay in their domains: a call that ended has
\* an answer, one that has not ended has none, and what signs is a key that was
\* resolved.
TypeOK ==
    /\ vault \in {InitialVault, RotatedVault}
    /\ pc \in [Calls -> Places]
    /\ secret \in [Calls -> Secrets \cup {"none"}]
    /\ fault \in [Calls -> BOOLEAN]
    /\ \A s \in signatures : s.by \in Secrets /\ s.form = "encoded"
    /\ \A c \in Calls : (pc[c] = "done") = (answer[c] # {})

\* An answer True means that the holder of that very registry key signed
\* exactly the fields the adapter read, the key id and version of that key
\* among them, whatever entries were recombined or changed while they were
\* read (real_crypto_backend.py:209-213, 325).
NoSplicing ==
    \A c \in VerifyingCalls : answer[c] = True =>
        /\ read[c].fields.algorithm = job[c].key.algorithm
        /\ read[c].fields.keyId = job[c].key.keyId
        /\ read[c].fields.version = job[c].key.version
        /\ [by |-> job[c].key.public.holder, fields |-> read[c].fields] \in signed

\* A signature that a signer returned is answered True when it comes back with
\* the fields it was made over, for the key of its signer, if nothing outside
\* fails meanwhile: encodings, profiles and lengths the signing side lets out
\* are those the verifying side lets in (oqs_falcon_backend.py:107-113).
GenuineAccepted ==
    \A c \in VerifyingCalls :
        (/\ pc[c] = "done" /\ ~ fault[c]
         /\ Cardinality(job[c].held) = 1
         /\ \A e \in job[c].held :
                /\ e.signature \in signatures
                /\ Genuine(e.fields, e.signature, job[c].key)
                /\ NamesKey(e.fields, job[c].key)
                /\ job[c].backend = e.fields.algorithm
         /\ Decodes(job[c].key.public)
         /\ job[c].key.keyId \notin TestOnly /\ ~ job[c].key.public.testOnly
         /\ job[c].key.public.size = "full")
        => answer[c] = True

\* Deterministic test material never counts: no test-only key is answered True
\* and no test-only reference makes a signature, though a backend would do
\* both (real_crypto_backend.py:118-136, 278, 315).
TestMaterialNeverCounts ==
    /\ \A c \in VerifyingCalls : answer[c] = True =>
           job[c].key.keyId \notin TestOnly /\ ~ job[c].key.public.testOnly
    /\ \A c \in SigningCalls : answer[c] = Entry => job[c].reference \notin TestOnly

\* A call ends with an answer or with an error of the adapter's own hierarchy,
\* whatever the library, the resolver and the entries do, as long as the key
\* id can be encoded (real_crypto_backend.py:75-81, 236).
EndsInHierarchy ==
    \A c \in Calls : pc[c] = "done" =>
        \/ answer[c] \in {Entry, True, False} \cup FailClosed
        \/ read[c].fields.keyId \in Unencodable
=============================================================================
